----------------------------- MODULE Vfs_proofs ------------------------------
(***************************************************************************)
(* Proofs about Vfs, for every set of calls, buffers and bounds: all       *)
(* references lead to objects, live entries are in the cache, link counts  *)
(* are exact and positions stay inside their files.                        *)
(***************************************************************************)
EXTENDS VfsInvariant, FiniteSetTheorems, WellFoundedInduction, TLAPS

-----------------------------------------------------------------------------
(* Numbers, finite sets and sequences.                                     *)

(* Min, with which resolve_path picks the first mount, is in its set.      *)
LEMMA MinIn ==
  ASSUME NEW S, S \subseteq Nat, S # {}
  PROVE  Min(S) \in S
<1>1. \E x \in S : \A y \in S : ~ (<<y, x>> \in OpToRel(<, Nat))
  BY Zenon, NatLessThanWellFounded, WFMin
<1>2. PICK x \in S : \A y \in S : ~ (<<y, x>> \in OpToRel(<, Nat))
  BY Zenon, <1>1
<1>3. \A y \in S : x =< y
  <2> SUFFICES ASSUME NEW y \in S
               PROVE  x =< y
    OBVIOUS
  <2>1. <<y, x>> \in Nat \X Nat /\ <<y, x>>[1] = y /\ <<y, x>>[2] = x
    OBVIOUS
  <2>2. ~ (<<y, x>> \in {ss \in Nat \X Nat : ss[1] < ss[2]})
    BY <1>2, Zenon DEF OpToRel
  <2>3. ~ (y < x)
    BY <2>1, <2>2
  <2> QED
    BY <2>3
<1> QED
  BY Zenon, <1>3 DEF Min

(* The larger and the smaller of two numbers.                              *)
LEMMA PairBounds ==
  ASSUME NEW a \in Nat, NEW b \in Nat
  PROVE  /\ Max({a, b}) \in Nat /\ Max({a, b}) >= a /\ Max({a, b}) >= b
         /\ Min({a, b}) \in Nat /\ Min({a, b}) =< a /\ Min({a, b}) =< b
<1>1. \E x \in {a, b} : \A y \in {a, b} : x >= y
  <2>1. CASE a >= b
    BY <2>1
  <2>2. CASE ~(a >= b)
    BY <2>2
  <2> QED
    BY <2>1, <2>2
<1>2. \E x \in {a, b} : \A y \in {a, b} : x =< y
  <2>1. CASE a =< b
    BY <2>1
  <2>2. CASE ~(a =< b)
    BY <2>2
  <2> QED
    BY <2>1, <2>2
<1>3. Max({a, b}) \in {a, b} /\ \A y \in {a, b} : Max({a, b}) >= y
  BY <1>1 DEF Max
<1>4. Min({a, b}) \in {a, b} /\ \A y \in {a, b} : Min({a, b}) =< y
  BY <1>2 DEF Min
<1> QED
  BY <1>3, <1>4

(* An id that Fresh chooses is new.                                        *)
LEMMA FreshIsNew ==
  ASSUME NEW S, IsFiniteSet(S)
  PROVE  Fresh(S) \notin S /\ Fresh(S) \in Nat \ {0}
<1> DEFINE k == Cardinality(S)
<1>1. k \in Nat
  BY FS_CardinalityType
<1>2. Cardinality(1..k + 1) = k + 1
  BY <1>1, FS_Interval
<1>3. ~(1..k + 1 \subseteq S)
  BY <1>1, <1>2, FS_Subset
<1>4. \E n \in 1..k + 1 : n \notin S
  BY <1>3
<1>5. Fresh(S) \in 1..k + 1 /\ Fresh(S) \notin S
  BY <1>4 DEF Fresh
<1> QED
  BY <1>1, <1>5

(* The range of a function with a finite domain, and the first components  *)
(* of finitely many keys, are finite.                                      *)
LEMMA FiniteRange ==
  ASSUME NEW f, IsFiniteSet(DOMAIN f)
  PROVE  IsFiniteSet(Range(f))
<1> DEFINE g == [x \in DOMAIN f |-> f[x]]
<1>1. g \in Surjection(DOMAIN f, Range(f))
  BY DEF Surjection, Range
<1> QED
  BY <1>1, FS_Surjection

LEMMA FiniteKeys ==
  ASSUME NEW S, IsFiniteSet(S)
  PROVE  IsFiniteSet({k[1] : k \in S})
<1> DEFINE T == {k[1] : k \in S}
           g == [k \in S |-> k[1]]
<1>1. g \in Surjection(S, T)
  BY DEF Surjection
<1> QED
  BY <1>1, FS_Surjection

(* ramfs's read and write: how far a read moves, and how long the file is  *)
(* after a write.                                                          *)
LEMMA AvailableBound ==
  ASSUME NEW data \in Seq(Nat), NEW pos \in Nat, NEW k \in Nat, pos =< Len(data)
  PROVE  Available(data, pos, k) \in Nat /\ pos + Available(data, pos, k) =< Len(data)
<1>1. Len(data) \in Nat /\ Len(data) - pos \in Nat
  OBVIOUS
<1>2. Min({k, Len(data) - pos}) \in Nat /\ Min({k, Len(data) - pos}) =< Len(data) - pos
  BY SMTT(20), <1>1, PairBounds
<1> QED
  BY <1>1, <1>2 DEF Available

LEMMA OverwriteLength ==
  ASSUME NEW data \in Seq(Nat), NEW pos \in Nat, NEW b \in Seq(Nat)
  PROVE  /\ Overwrite(data, pos, b) \in Seq(Nat)
         /\ Len(Overwrite(data, pos, b)) >= Len(data)
         /\ Len(Overwrite(data, pos, b)) >= pos + Len(b)
<1> DEFINE m == Max({Len(data), pos + Len(b)})
           Byte(i) == IF i \in pos + 1..pos + Len(b) THEN b[i - pos]
                      ELSE IF i =< Len(data) THEN data[i] ELSE 0
<1>1. Len(data) \in Nat /\ Len(b) \in Nat
  OBVIOUS
<1>2. m \in Nat /\ m >= Len(data) /\ m >= pos + Len(b)
  <2>1. pos + Len(b) \in Nat
    BY <1>1
  <2> QED
    BY <1>1, <2>1, PairBounds, Zenon
<1>3. \A i \in 1..m : Byte(i) \in Nat
  BY SMTT(20), <1>1, <1>2
<1>4. Overwrite(data, pos, b) = [i \in 1..m |-> Byte(i)]
  BY DEF Overwrite
<1> HIDE DEF m, Byte
<1>5. [i \in 1..m |-> Byte(i)] \in Seq(Nat) /\ Len([i \in 1..m |-> Byte(i)]) = m
  BY <1>2, <1>3
<1> QED
  BY <1>2, <1>4, <1>5

-----------------------------------------------------------------------------
(* Dropping what nothing refers to.                                        *)

(* The entries that stay are among those there were, and are closed under  *)
(* ancestors.                                                              *)
LEMMA LiveClosed ==
  ASSUME NEW ns, NEW es, NEW tb, NEW ms, NEW hs, NEW st,
         GoodEntries(ns, es, tb), GoodRefs(es, ms, hs, st)
  PROVE  /\ Live(es, ms, hs, st) \subseteq DOMAIN es
         /\ \A e \in Live(es, ms, hs, st) : es[e].chain \subseteq Live(es, ms, hs, st)
         /\ Pins(ms, hs, st) \subseteq Live(es, ms, hs, st)
<1> DEFINE pins == Pins(ms, hs, st)
           live == Live(es, ms, hs, st)
<1>1. pins \subseteq DOMAIN es
  BY DEF Pins, GoodRefs, Range
<1>2. \A e \in DOMAIN es : /\ es[e].chain \subseteq DOMAIN es
                           /\ \A a \in es[e].chain : es[a].chain \subseteq es[e].chain
  BY Zenon DEF GoodEntries, GoodEntry
<1>3. live = pins \cup UNION {es[e].chain : e \in pins}
  BY DEF Live
<1> HIDE DEF pins, live
<1>4. live \subseteq DOMAIN es
  BY <1>1, <1>2, <1>3
<1>5. ASSUME NEW e \in live
      PROVE  es[e].chain \subseteq live
  <2>1. CASE e \in pins
    BY <2>1, <1>3
  <2>2. CASE e \notin pins
    <3>1. PICK p \in pins : e \in es[p].chain
      BY <2>2, <1>3
    <3>2. es[e].chain \subseteq es[p].chain
      BY <3>1, <1>1, <1>2
    <3> QED
      BY <3>2, <1>3
  <2> QED
    BY <2>1, <2>2
<1> QED
  BY <1>3, <1>4, <1>5 DEF pins, live

(* Settle keeps the invariant: what it drops, nothing that stays refers to. *)
LEMMA SettleGood ==
  ASSUME NEW ns, NEW es, NEW tb, NEW ms, NEW fs, NEW hs, NEW st, NEW nf,
         Good(ns, es, tb, ms, fs, hs, st, nf),
         Settle(ns, es, ms, fs, hs, st), table' = tb, next_fd' = nf
  PROVE  Good(nodes, entries, table, mounts, files, held, stack, next_fd)'
<1> DEFINE live == Live(es, ms, hs, st)
           kept == Used(ns, es, fs, live)
<1>1. /\ entries' = [e \in live |-> es[e]] /\ nodes' = [n \in kept |-> ns[n]]
      /\ mounts' = ms /\ files' = fs /\ held' = hs /\ stack' = st
  BY DEF Settle, Live, Pins, Used, Restrict
<1>2. /\ GoodNodes(ns, ms, fs) /\ GoodEntries(ns, es, tb) /\ GoodTable(tb, ms)
      /\ GoodFiles(ns, fs, nf) /\ GoodRefs(es, ms, hs, st) /\ Tidy(ns, es)
  BY DEF Good
<1>3. /\ live \subseteq DOMAIN es
      /\ \A e \in live : es[e].chain \subseteq live
      /\ Pins(ms, hs, st) \subseteq live
  BY <1>2, LiveClosed
<1>4. /\ kept \subseteq DOMAIN ns
      /\ \A n \in DOMAIN ns : ns[n].kind # "CharDevice" => n \in kept
      /\ \A e \in live : es[e].node \in DOMAIN ns => es[e].node \in kept
      /\ \A f \in DOMAIN fs : fs[f].node \in DOMAIN ns => fs[f].node \in kept
  BY DEF Used
<1> HIDE DEF live, kept
<1>5. IsFiniteSet(live) /\ IsFiniteSet(kept)
  BY <1>2, <1>3, <1>4, FS_Subset DEF GoodEntries, GoodNodes
<1>6. DOMAIN nodes' = kept /\ \A n \in kept : nodes'[n] = ns[n]
  BY <1>1
<1>7. DOMAIN entries' = live /\ \A e \in live : entries'[e] = es[e]
  BY <1>1
<1>8. GoodNodes(nodes', ms, fs)
  <2>1. ASSUME NEW n \in kept
        PROVE  GoodNode(nodes', ms, fs, n)
    <3>1. GoodNode(ns, ms, fs, n)
      BY <1>2, <1>4 DEF GoodNodes
    <3>2. \A x \in DOMAIN ns[n].kids :
            ns[n].kids[x] \in kept /\ nodes'[ns[n].kids[x]].kind # "CharDevice"
      BY <3>1, <1>4, <1>6 DEF GoodNode
    <3> QED
      BY <3>1, <3>2, <1>6 DEF GoodNode
  <2> QED
    BY SMTT(20), <2>1, <1>2, <1>4, <1>5, <1>6 DEF GoodNodes
<1>9. GoodEntries(nodes', entries', tb)
  <2>1. ASSUME NEW e \in live
        PROVE  GoodEntry(nodes', entries', tb, e)
    <3>1. GoodEntry(ns, es, tb, e)
      BY <1>2, <1>3 DEF GoodEntries
    <3>2. \A a \in es[e].chain : a \in live /\ entries'[a] = es[a]
      BY <1>3, <1>7
    <3> QED
      BY <3>1, <3>2, <1>4, <1>6, <1>7 DEF GoodEntry
  <2> QED
    BY <2>1, <1>2, <1>3, <1>5, <1>7 DEF GoodEntries
<1>10. GoodFiles(nodes', fs, nf)
  <2>1. ASSUME NEW f \in DOMAIN fs
        PROVE  GoodFile(nodes', fs, nf, f)
    <3>1. GoodFile(ns, fs, nf, f)
      BY <1>2 DEF GoodFiles
    <3> QED
      BY <3>1, <1>4, <1>6 DEF GoodFile
  <2> QED
    BY <2>1, <1>2 DEF GoodFiles
<1>11. GoodRefs(entries', ms, hs, st)
  <2>1. /\ \A m \in DOMAIN ms : ms[m].root \in live
        /\ hs \subseteq live
        /\ \A i \in DOMAIN st : st[i] \in live
    BY SMTT(20), <1>3 DEF Pins, Range
  <2> QED
    BY <2>1, <1>2, <1>7 DEF GoodRefs
<1>12. Tidy(nodes', entries')
  <2>1. \A e \in live : es[e].parent \in DOMAIN es => es[e].parent \in live
    BY Zenon, <1>2, <1>3 DEF GoodEntries, GoodEntry
  <2> QED
    BY <2>1, <1>2, <1>3, <1>4, <1>6, <1>7 DEF Tidy
<1> QED
  BY <1>1, <1>2, <1>8, <1>9, <1>10, <1>11, <1>12 DEF Good

-----------------------------------------------------------------------------
(* New objects.                                                            *)

(* The ids chosen for a new node and a new entry are new.                  *)
LEMMA FreshIds ==
  ASSUME IInv
  PROVE  /\ FreshNode \in Nat \ {NULL} /\ FreshNode \notin DOMAIN nodes
         /\ FreshEntry \in Nat \ {NULL} /\ FreshEntry \notin DOMAIN entries
<1>1. IsFiniteSet(DOMAIN nodes) /\ IsFiniteSet(DOMAIN entries) /\ IsFiniteSet(DOMAIN table)
  BY DEF IInv, Good, GoodNodes, GoodEntries, GoodTable
<1>2. IsFiniteSet({k[1] : k \in DOMAIN table}) /\ IsFiniteSet(Range(table))
  BY <1>1, FiniteKeys, FiniteRange
<1>3. IsFiniteSet(UsedEntries)
  BY Zenon, <1>1, <1>2, FS_Union DEF UsedEntries
<1>4. FreshEntry \notin UsedEntries /\ FreshEntry \in Nat \ {0}
  BY <1>3, FreshIsNew DEF FreshEntry
<1>5. FreshNode \notin DOMAIN nodes /\ FreshNode \in Nat \ {0}
  BY <1>1, FreshIsNew DEF FreshNode
<1> QED
  BY <1>4, <1>5 DEF UsedEntries, NULL

(* A new node nothing refers to yet, as DirectoryOperations::lookup of     *)
(* devfs and a mount make it.                                              *)
LEMMA AddNode ==
  ASSUME NEW ns, NEW ms, NEW fs, NEW nf, NEW n \in Nat \ {NULL}, n \notin DOMAIN ns,
         NEW mount \in DOMAIN ms, NEW kind \in {"Directory", "File", "CharDevice"},
         NEW device, GoodNodes(ns, ms, fs), GoodFiles(ns, fs, nf)
  PROVE  /\ GoodNodes(Extend(ns, n, NewNode(mount, kind, device)), ms, fs)
         /\ GoodFiles(Extend(ns, n, NewNode(mount, kind, device)), fs, nf)
<1> DEFINE r == NewNode(mount, kind, device)
           ns2 == Extend(ns, n, r)
<1>1. /\ DOMAIN ns2 = DOMAIN ns \cup {n} /\ ns2[n] = r
      /\ \A x \in DOMAIN ns : ns2[x] = ns[x]
  BY DEF Extend
<1>2. /\ DOMAIN r = NodeFields /\ r.mount = mount /\ r.kind = kind /\ r.links = 1
      /\ r.data = <<>> /\ DOMAIN r.kids = {}
  BY DEF NewNode, NodeFields, Empty
<1> HIDE DEF r, ns2
<1>3. \A f \in DOMAIN fs : fs[f].node \in DOMAIN ns
  BY DEF GoodFiles, GoodFile
<1>4. FilesOn(fs, n) = {}
  BY <1>3 DEF FilesOn
<1>5. GoodNode(ns2, ms, fs, n)
  BY <1>1, <1>2, <1>4, FS_EmptySet DEF GoodNode
<1>6. ASSUME NEW x \in DOMAIN ns
      PROVE  GoodNode(ns2, ms, fs, x)
  BY <1>1 DEF GoodNode, GoodNodes
<1>7. IsFiniteSet(DOMAIN ns2)
  BY <1>1, FS_AddElement DEF GoodNodes
<1>8. GoodNodes(ns2, ms, fs)
  BY <1>1, <1>5, <1>6, <1>7 DEF GoodNodes
<1>9. GoodFiles(ns2, fs, nf)
  BY <1>1 DEF GoodFiles, GoodFile
<1> QED
  BY <1>8, <1>9 DEF r, ns2

(* ramfs's create_file and create_directory: a new node, with its name in  *)
(* a directory.                                                            *)
LEMMA AddChildNode ==
  ASSUME IInv, NEW p \in DOMAIN nodes, NEW name, NEW n \in Nat \ {NULL},
         n \notin DOMAIN nodes, NEW kind \in {"Directory", "File"}
  PROVE  /\ DOMAIN AddChild(p, name, n, kind) = DOMAIN nodes \cup {n}
         /\ GoodNodes(AddChild(p, name, n, kind), mounts, files)
         /\ GoodFiles(AddChild(p, name, n, kind), files, next_fd)
<1> DEFINE r == NewNode(nodes[p].mount, kind, "")
           ns1 == Extend(nodes, n, r)
           ns2 == AddChild(p, name, n, kind)
           kids2 == Extend(nodes[p].kids, name, n)
<1>1. GoodNodes(nodes, mounts, files) /\ GoodFiles(nodes, files, next_fd)
  BY DEF IInv, Good
<1>2. nodes[p].mount \in DOMAIN mounts /\ DOMAIN nodes[p] = NodeFields
  BY <1>1 DEF GoodNodes, GoodNode
<1>3. GoodNodes(ns1, mounts, files) /\ GoodFiles(ns1, files, next_fd)
  BY Zenon, <1>1, <1>2, AddNode
<1>4. /\ DOMAIN ns1 = DOMAIN nodes \cup {n} /\ ns1[n] = r
      /\ \A x \in DOMAIN nodes : ns1[x] = nodes[x]
  BY Zenon DEF Extend
<1>5. r.kind = kind
  BY DEF NewNode
<1>6. /\ DOMAIN ns2 = DOMAIN nodes \cup {n} /\ ns2[n] = r
      /\ \A x \in DOMAIN nodes \ {p} : ns2[x] = nodes[x]
      /\ ns2[p] = [nodes[p] EXCEPT !.kids = kids2]
  BY Zenon DEF AddChild, Extend
<1>7. /\ DOMAIN kids2 = DOMAIN nodes[p].kids \cup {name} /\ kids2[name] = n
      /\ \A x \in DOMAIN nodes[p].kids : x # name => kids2[x] = nodes[p].kids[x]
  BY DEF Extend
<1> HIDE DEF r, ns1, ns2, kids2
<1>8. /\ DOMAIN ns2[p] = NodeFields /\ ns2[p].kids = kids2
      /\ ns2[p].mount = ns1[p].mount /\ ns2[p].kind = ns1[p].kind
      /\ ns2[p].data = ns1[p].data /\ ns2[p].links = ns1[p].links
  BY <1>2, <1>4, <1>6 DEF NodeFields
<1>9. \A x \in DOMAIN ns2 : ns2[x].kind = ns1[x].kind /\ ns2[x].data = ns1[x].data
  BY Zenon, <1>4, <1>6, <1>8
<1>10. GoodNode(ns2, mounts, files, p)
  <2>1. GoodNode(ns1, mounts, files, p)
    BY <1>3, <1>4 DEF GoodNodes
  <2>2. \A x \in DOMAIN kids2 : kids2[x] \in DOMAIN ns2 /\ ns2[kids2[x]].kind # "CharDevice"
    BY <2>1, <1>4, <1>5, <1>6, <1>7, <1>9 DEF GoodNode
  <2> QED
    BY <2>1, <2>2, <1>8 DEF GoodNode
<1>11. ASSUME NEW x \in DOMAIN ns2, x # p
       PROVE  GoodNode(ns2, mounts, files, x)
  <2>1. GoodNode(ns1, mounts, files, x) /\ ns2[x] = ns1[x]
    BY <1>3, <1>4, <1>6, <1>11 DEF GoodNodes
  <2> QED
    BY <2>1, <1>4, <1>6, <1>9 DEF GoodNode
<1>12. GoodNodes(ns2, mounts, files)
  BY <1>3, <1>4, <1>6, <1>10, <1>11 DEF GoodNodes
<1>13. GoodFiles(ns2, files, next_fd)
  BY <1>3, <1>4, <1>6, <1>9 DEF GoodFiles, GoodFile
<1> QED
  BY <1>6, <1>12, <1>13 DEF ns2

(* DirectoryCache::insert: the table gets a key that no live entry has.    *)
Unused(es, tb, key) == ~(key \in DOMAIN tb /\ tb[key] \in DOMAIN es)

LEMMA AddKey ==
  ASSUME NEW ns, NEW es, NEW tb, NEW key, NEW e, Unused(es, tb, key),
         GoodEntries(ns, es, tb)
  PROVE  GoodEntries(ns, es, Extend(tb, key, e))
<1>1. \A x \in DOMAIN es : GoodEntry(ns, es, tb, x)
  BY DEF GoodEntries
<1>2. ASSUME NEW x \in DOMAIN es
      PROVE  GoodEntry(ns, es, Extend(tb, key, e), x)
  <2>1. <<es[x].parent, es[x].name>> # key
    BY <1>1 DEF GoodEntry, Unused
  <2> QED
    BY <1>1, <2>1 DEF GoodEntry, Extend
<1> QED
  BY <1>2 DEF GoodEntries

LEMMA AddTableKey ==
  ASSUME NEW tb, NEW ms, NEW p, p # NULL, NEW name, NEW e, GoodTable(tb, ms)
  PROVE  GoodTable(Extend(tb, <<p, name>>, e), ms)
<1>1. <<p, name>> # RootKey
  BY DEF RootKey
<1>2. DOMAIN Extend(tb, <<p, name>>, e) = DOMAIN tb \cup {<<p, name>>}
  BY DEF Extend
<1>3. IsFiniteSet(DOMAIN Extend(tb, <<p, name>>, e))
  BY Zenon, <1>2, FS_AddElement DEF GoodTable
<1>4. RootKey \in DOMAIN tb => Extend(tb, <<p, name>>, e)[RootKey] = tb[RootKey]
  BY <1>1 DEF Extend
<1> QED
  BY <1>1, <1>2, <1>3, <1>4 DEF GoodTable

(* A new entry, in its parent or as the root, and its key in the table.    *)
LEMMA AddEntry ==
  ASSUME IInv, NEW ns, DOMAIN nodes \subseteq DOMAIN ns, NEW n \in DOMAIN ns,
         NEW p \in DOMAIN entries \cup {NULL}, NEW name,
         NEW e \in Nat \ {NULL}, e \notin DOMAIN entries,
         Unused(entries, table, <<p, name>>)
  PROVE  /\ DOMAIN Extend(entries, e, NewEntry(p, n, name)) = DOMAIN entries \cup {e}
         /\ GoodEntries(ns, Extend(entries, e, NewEntry(p, n, name)),
                        Extend(table, <<p, name>>, e))
<1> DEFINE r == NewEntry(p, n, name)
           es2 == Extend(entries, e, r)
           tb2 == Extend(table, <<p, name>>, e)
<1>1. GoodEntries(nodes, entries, table)
  BY DEF IInv, Good
<1>2. GoodEntries(nodes, entries, tb2)
  BY <1>1, AddKey
<1>3. /\ DOMAIN es2 = DOMAIN entries \cup {e} /\ es2[e] = r
      /\ \A x \in DOMAIN entries : es2[x] = entries[x]
  BY DEF Extend
<1>4. <<p, name>> \in DOMAIN tb2 /\ tb2[<<p, name>>] = e
  BY DEF Extend
<1>5. /\ r.node = n /\ r.parent = p /\ r.name = name
      /\ p = NULL => r.chain = {}
      /\ p # NULL => r.chain = entries[p].chain \cup {p}
  BY DEF NewEntry
<1> HIDE DEF r, es2, tb2
<1>6. \A x \in DOMAIN entries :
        /\ entries[x].chain \subseteq DOMAIN entries
        /\ \A a \in entries[x].chain : entries[a].chain \subseteq entries[x].chain
  BY Zenon, <1>1 DEF GoodEntries, GoodEntry
<1>7. /\ r.chain \subseteq DOMAIN entries
      /\ \A a \in r.chain : entries[a].chain \subseteq r.chain
      /\ p = NULL \/ p \in r.chain
  BY <1>5, <1>6
<1>8. GoodEntry(ns, es2, tb2, e)
  BY <1>3, <1>4, <1>5, <1>7 DEF GoodEntry
<1>9. ASSUME NEW x \in DOMAIN entries
      PROVE  GoodEntry(ns, es2, tb2, x)
  <2>1. GoodEntry(nodes, entries, tb2, x)
    BY <1>2 DEF GoodEntries
  <2> QED
    BY <2>1, <1>3, <1>6 DEF GoodEntry
<1>10. IsFiniteSet(DOMAIN es2)
  BY <1>1, <1>3, FS_AddElement DEF GoodEntries
<1>11. GoodEntries(ns, es2, tb2)
  BY <1>1, <1>3, <1>8, <1>9, <1>10 DEF GoodEntries
<1> QED
  BY <1>3, <1>11 DEF r, es2, tb2

(* VirtualFileSystem::open: one more file on n, and one more link.         *)
LEMMA AddFile ==
  ASSUME NEW ns, NEW ms, NEW fs, NEW nf, NEW n \in DOMAIN ns, NEW mode,
         GoodNodes(ns, ms, fs), GoodFiles(ns, fs, nf)
  PROVE  LET ns2 == [ns EXCEPT ![n].links = @ + 1]
             fs2 == Extend(fs, nf, [node |-> n, mode |-> mode, pos |-> 0])
         IN DOMAIN ns2 = DOMAIN ns /\ GoodNodes(ns2, ms, fs2) /\ GoodFiles(ns2, fs2, nf + 1)
<1> DEFINE ns2 == [ns EXCEPT ![n].links = @ + 1]
           r == [node |-> n, mode |-> mode, pos |-> 0]
           fs2 == Extend(fs, nf, r)
<1>1. nf \in Nat /\ nf \notin DOMAIN fs
  BY DEF GoodFiles, GoodFile
<1>2. /\ DOMAIN fs2 = DOMAIN fs \cup {nf} /\ fs2[nf] = r
      /\ \A f \in DOMAIN fs : fs2[f] = fs[f]
  BY <1>1 DEF Extend
<1>3. DOMAIN r = {"node", "mode", "pos"} /\ r.node = n /\ r.pos = 0
  OBVIOUS
<1>4. DOMAIN ns[n] = NodeFields
  BY DEF GoodNodes, GoodNode
<1>5. /\ DOMAIN ns2 = DOMAIN ns
      /\ \A x \in DOMAIN ns : x # n => ns2[x] = ns[x]
      /\ ns2[n] = [ns[n] EXCEPT !.links = ns[n].links + 1]
  OBVIOUS
<1> HIDE DEF ns2, r, fs2
<1>6. /\ DOMAIN ns2[n] = NodeFields /\ ns2[n].links = ns[n].links + 1
      /\ ns2[n].mount = ns[n].mount /\ ns2[n].kind = ns[n].kind
      /\ ns2[n].data = ns[n].data /\ ns2[n].kids = ns[n].kids
  BY <1>4, <1>5 DEF NodeFields
<1>7. \A x \in DOMAIN ns : ns2[x].kind = ns[x].kind /\ ns2[x].data = ns[x].data
  BY Zenon, <1>5, <1>6
<1>8. FilesOn(fs2, n) = FilesOn(fs, n) \cup {nf} /\ nf \notin FilesOn(fs, n)
  BY <1>1, <1>2, <1>3 DEF FilesOn
<1>9. \A x \in DOMAIN ns : x # n => FilesOn(fs2, x) = FilesOn(fs, x)
  BY <1>2, <1>3 DEF FilesOn
<1>10. IsFiniteSet(FilesOn(fs, n)) /\ Cardinality(FilesOn(fs, n)) \in Nat
  BY FS_Subset, FS_CardinalityType DEF GoodFiles, FilesOn
<1>11. Cardinality(FilesOn(fs2, n)) = Cardinality(FilesOn(fs, n)) + 1
  BY <1>8, <1>10, FS_AddElement
<1>12. GoodNode(ns2, ms, fs2, n)
  BY <1>5, <1>6, <1>7, <1>10, <1>11 DEF GoodNodes, GoodNode
<1>13. ASSUME NEW x \in DOMAIN ns, x # n
       PROVE  GoodNode(ns2, ms, fs2, x)
  BY <1>5, <1>7, <1>9, <1>13 DEF GoodNodes, GoodNode
<1>14. GoodNodes(ns2, ms, fs2)
  BY <1>5, <1>12, <1>13 DEF GoodNodes
<1>15. IsFiniteSet(DOMAIN fs2)
  BY <1>2, FS_AddElement DEF GoodFiles
<1>16. GoodFile(ns2, fs2, nf + 1, nf)
  <2>1. ns2[n].data \in Seq(Nat)
    BY <1>12 DEF GoodNode
  <2>2. 0 =< Len(ns2[n].data)
    BY <2>1
  <2> QED
    BY <2>2, <1>1, <1>2, <1>3, <1>5 DEF GoodFile
<1>17. ASSUME NEW f \in DOMAIN fs
       PROVE  GoodFile(ns2, fs2, nf + 1, f)
  BY <1>1, <1>2, <1>5, <1>7 DEF GoodFiles, GoodFile
<1>18. GoodFiles(ns2, fs2, nf + 1)
  BY <1>1, <1>2, <1>15, <1>16, <1>17 DEF GoodFiles
<1> QED
  BY <1>5, <1>14, <1>18 DEF ns2, r, fs2

(* VirtualFileSystem::close: one file and one link less.                   *)
LEMMA RemoveFile ==
  ASSUME NEW ns, NEW ms, NEW fs, NEW nf, NEW fd \in DOMAIN fs,
         GoodNodes(ns, ms, fs), GoodFiles(ns, fs, nf)
  PROVE  LET ns2 == [ns EXCEPT ![fs[fd].node].links = @ - 1]
             fs2 == Restrict(fs, DOMAIN fs \ {fd})
         IN DOMAIN ns2 = DOMAIN ns /\ GoodNodes(ns2, ms, fs2) /\ GoodFiles(ns2, fs2, nf)
<1> DEFINE n == fs[fd].node
           ns2 == [ns EXCEPT ![n].links = @ - 1]
           fs2 == Restrict(fs, DOMAIN fs \ {fd})
<1>1. n \in DOMAIN ns
  BY DEF GoodFiles, GoodFile
<1>2. DOMAIN fs2 = DOMAIN fs \ {fd} /\ \A f \in DOMAIN fs2 : fs2[f] = fs[f]
  BY DEF Restrict
<1>3. DOMAIN ns[n] = NodeFields
  BY <1>1 DEF GoodNodes, GoodNode
<1>4. /\ DOMAIN ns2 = DOMAIN ns
      /\ \A x \in DOMAIN ns : x # n => ns2[x] = ns[x]
      /\ ns2[n] = [ns[n] EXCEPT !.links = ns[n].links - 1]
  BY <1>1
<1>5. FilesOn(fs2, n) = FilesOn(fs, n) \ {fd} /\ fd \in FilesOn(fs, n)
  BY <1>2 DEF FilesOn
<1>6. \A x \in DOMAIN ns : x # n => FilesOn(fs2, x) = FilesOn(fs, x)
  BY <1>2 DEF FilesOn
<1> HIDE DEF n, ns2, fs2
<1>7. /\ DOMAIN ns2[n] = NodeFields /\ ns2[n].links = ns[n].links - 1
      /\ ns2[n].mount = ns[n].mount /\ ns2[n].kind = ns[n].kind
      /\ ns2[n].data = ns[n].data /\ ns2[n].kids = ns[n].kids
  BY <1>3, <1>4 DEF NodeFields
<1>8. \A x \in DOMAIN ns : ns2[x].kind = ns[x].kind /\ ns2[x].data = ns[x].data
  BY Zenon, <1>4, <1>7
<1>9. IsFiniteSet(FilesOn(fs, n)) /\ Cardinality(FilesOn(fs, n)) \in Nat
  BY FS_Subset, FS_CardinalityType DEF GoodFiles, FilesOn
<1>10. Cardinality(FilesOn(fs2, n)) = Cardinality(FilesOn(fs, n)) - 1
  BY <1>5, <1>9, FS_RemoveElement
<1>11. GoodNode(ns2, ms, fs2, n)
  BY <1>1, <1>4, <1>7, <1>8, <1>9, <1>10 DEF GoodNodes, GoodNode
<1>12. ASSUME NEW x \in DOMAIN ns, x # n
       PROVE  GoodNode(ns2, ms, fs2, x)
  BY <1>4, <1>8, <1>6, <1>12 DEF GoodNodes, GoodNode
<1>13. GoodNodes(ns2, ms, fs2)
  BY <1>4, <1>11, <1>12 DEF GoodNodes
<1>14. IsFiniteSet(DOMAIN fs2)
  BY <1>2, FS_RemoveElement DEF GoodFiles
<1>15. GoodFiles(ns2, fs2, nf)
  BY <1>2, <1>4, <1>8, <1>14 DEF GoodFiles, GoodFile
<1> QED
  BY <1>4, <1>13, <1>15 DEF n, ns2, fs2

(* The position of a descriptor moves, to no place past the end.           *)
LEMMA MoveFile ==
  ASSUME NEW ns, NEW ms, NEW fs, NEW nf, NEW fd \in DOMAIN fs, NEW k \in Nat,
         GoodNodes(ns, ms, fs), GoodFiles(ns, fs, nf),
         ns[fs[fd].node].kind = "File" => fs[fd].pos + k =< Len(ns[fs[fd].node].data)
  PROVE  LET fs2 == [fs EXCEPT ![fd].pos = @ + k]
         IN GoodNodes(ns, ms, fs2) /\ GoodFiles(ns, fs2, nf)
<1> DEFINE fs2 == [fs EXCEPT ![fd].pos = @ + k]
<1>1. DOMAIN fs[fd] = {"node", "mode", "pos"} /\ fs[fd].pos \in Nat
  BY DEF GoodFiles, GoodFile
<1>2. /\ DOMAIN fs2 = DOMAIN fs
      /\ \A f \in DOMAIN fs : f # fd => fs2[f] = fs[f]
      /\ fs2[fd] = [fs[fd] EXCEPT !.pos = fs[fd].pos + k]
  OBVIOUS
<1> HIDE DEF fs2
<1>3. /\ DOMAIN fs2[fd] = {"node", "mode", "pos"} /\ fs2[fd].pos = fs[fd].pos + k
      /\ fs2[fd].node = fs[fd].node
  BY <1>1, <1>2
<1>4. \A n : FilesOn(fs2, n) = FilesOn(fs, n)
  BY <1>2, <1>3 DEF FilesOn
<1>5. GoodNodes(ns, ms, fs2)
  BY Zenon, <1>4 DEF GoodNodes, GoodNode
<1>6. GoodFile(ns, fs2, nf, fd)
  BY <1>1, <1>3 DEF GoodFiles, GoodFile
<1>7. GoodFiles(ns, fs2, nf)
  BY SMTT(20), <1>2, <1>6 DEF GoodFiles, GoodFile
<1> QED
  BY <1>5, <1>7 DEF fs2

(* A file gets new contents that are not shorter.                          *)
LEMMA GrowFile ==
  ASSUME NEW ns, NEW ms, NEW fs, NEW nf, NEW n \in DOMAIN ns, NEW d \in Seq(Nat),
         Len(d) >= Len(ns[n].data), GoodNodes(ns, ms, fs), GoodFiles(ns, fs, nf)
  PROVE  LET ns2 == [ns EXCEPT ![n].data = d]
         IN /\ DOMAIN ns2 = DOMAIN ns /\ ns2[n].data = d
            /\ GoodNodes(ns2, ms, fs) /\ GoodFiles(ns2, fs, nf)
<1> DEFINE ns2 == [ns EXCEPT ![n].data = d]
<1>1. DOMAIN ns[n] = NodeFields /\ ns[n].data \in Seq(Nat)
  BY DEF GoodNodes, GoodNode
<1>2. /\ DOMAIN ns2 = DOMAIN ns
      /\ \A x \in DOMAIN ns : x # n => ns2[x] = ns[x]
      /\ ns2[n] = [ns[n] EXCEPT !.data = d]
  OBVIOUS
<1> HIDE DEF ns2
<1>3. /\ DOMAIN ns2[n] = NodeFields /\ ns2[n].data = d
      /\ ns2[n].mount = ns[n].mount /\ ns2[n].kind = ns[n].kind
      /\ ns2[n].links = ns[n].links /\ ns2[n].kids = ns[n].kids
  BY <1>1, <1>2 DEF NodeFields
<1>4. \A x \in DOMAIN ns : ns2[x].kind = ns[x].kind
  BY Zenon, <1>2, <1>3
<1>5. GoodNodes(ns2, ms, fs)
  <2>1. GoodNode(ns2, ms, fs, n)
    BY <1>2, <1>3, <1>4 DEF GoodNodes, GoodNode
  <2>2. \A x \in DOMAIN ns : x # n => GoodNode(ns2, ms, fs, x)
    BY <1>2, <1>4 DEF GoodNodes, GoodNode
  <2> QED
    BY <1>2, <2>1, <2>2 DEF GoodNodes
<1>6. ASSUME NEW f \in DOMAIN fs
      PROVE  GoodFile(ns2, fs, nf, f)
  <2>1. GoodFile(ns, fs, nf, f)
    BY DEF GoodFiles
  <2>2. CASE fs[f].node = n
    BY <2>1, <2>2, <1>1, <1>2, <1>3 DEF GoodFile
  <2>3. CASE fs[f].node # n
    BY <2>1, <2>3, <1>2 DEF GoodFile
  <2> QED
    BY <2>2, <2>3
<1>7. GoodFiles(ns2, fs, nf)
  BY <1>6 DEF GoodFiles
<1> QED
  BY <1>2, <1>3, <1>5, <1>7 DEF ns2

(* Tidiness is about names and entries only.                               *)
LEMMA SameNames ==
  ASSUME NEW ns, NEW ns2, NEW es, Tidy(ns, es), DOMAIN ns2 = DOMAIN ns,
         \A n \in DOMAIN ns : ns2[n].kids = ns[n].kids
  PROVE  Tidy(ns2, es)
  BY SMTT(20) DEF Tidy

LEMMA AddNodeTidy ==
  ASSUME NEW ns, NEW es, NEW n, n \notin DOMAIN ns, NEW mount, NEW kind, NEW device,
         Tidy(ns, es)
  PROVE  Tidy(Extend(ns, n, NewNode(mount, kind, device)), es)
<1> DEFINE r == NewNode(mount, kind, device)
           ns2 == Extend(ns, n, r)
<1>1. /\ DOMAIN ns2 = DOMAIN ns \cup {n} /\ ns2[n] = r
      /\ \A x \in DOMAIN ns : ns2[x] = ns[x]
  BY DEF Extend
<1>2. DOMAIN r.kids = {}
  BY SMTT(20) DEF NewNode, Empty
<1> HIDE DEF r, ns2
<1> QED
  BY <1>1, <1>2 DEF Tidy, r, ns2

(* No directory has a new node's id.                                       *)
LEMMA NewNodeNoKid ==
  ASSUME NEW ns, NEW ms, NEW fs, GoodNodes(ns, ms, fs), NEW n, n \notin DOMAIN ns,
         NEW mount, NEW kind, NEW device
  PROVE  LET ns2 == Extend(ns, n, NewNode(mount, kind, device))
         IN \A d \in DOMAIN ns2 : \A x \in DOMAIN ns2[d].kids : ns2[d].kids[x] # n
<1> DEFINE r == NewNode(mount, kind, device)
           ns2 == Extend(ns, n, r)
<1>1. /\ DOMAIN ns2 = DOMAIN ns \cup {n} /\ ns2[n] = r
      /\ \A x \in DOMAIN ns : ns2[x] = ns[x]
  BY DEF Extend
<1>2. DOMAIN r.kids = {}
  BY DEF NewNode, Empty
<1>3. \A d \in DOMAIN ns : \A x \in DOMAIN ns[d].kids : ns[d].kids[x] \in DOMAIN ns
  BY Zenon DEF GoodNodes, GoodNode
<1> HIDE DEF r, ns2
<1>4. \A d \in DOMAIN ns2 : \A x \in DOMAIN ns2[d].kids : ns2[d].kids[x] # n
  BY ONLY <1>1, <1>2, <1>3, n \notin DOMAIN ns
<1> QED
  BY Zenon, <1>4 DEF r, ns2

LEMMA AddChildTidy ==
  ASSUME IInv, NEW p \in DOMAIN nodes, NEW name, NEW n, n \notin DOMAIN nodes, NEW kind
  PROVE  LET ns2 == AddChild(p, name, n, kind)
         IN /\ Tidy(ns2, entries)
            /\ \A d \in DOMAIN ns2 : \A x \in DOMAIN ns2[d].kids :
                 ns2[d].kids[x] = n => d = p /\ x = name
<1> DEFINE r == NewNode(nodes[p].mount, kind, "")
           ns2 == AddChild(p, name, n, kind)
           kids2 == Extend(nodes[p].kids, name, n)
<1>1. /\ GoodNodes(nodes, mounts, files) /\ GoodEntries(nodes, entries, table)
      /\ Tidy(nodes, entries)
  BY DEF IInv, Good
<1>2. /\ DOMAIN ns2 = DOMAIN nodes \cup {n} /\ ns2[n] = r
      /\ \A x \in DOMAIN nodes \ {p} : ns2[x] = nodes[x]
      /\ ns2[p] = [nodes[p] EXCEPT !.kids = kids2]
  BY Zenon DEF AddChild, Extend
<1>3. /\ DOMAIN kids2 = DOMAIN nodes[p].kids \cup {name} /\ kids2[name] = n
      /\ \A x \in DOMAIN nodes[p].kids : x # name => kids2[x] = nodes[p].kids[x]
  BY Zenon DEF Extend
<1>4. DOMAIN r.kids = {}
  BY DEF NewNode, Empty
<1>5. DOMAIN nodes[p] = NodeFields
  BY <1>1 DEF GoodNodes, GoodNode
<1> HIDE DEF r, ns2, kids2
<1>6. ns2[p].kids = kids2
  BY <1>2, <1>5 DEF NodeFields
<1>7. \A d \in DOMAIN nodes : \A x \in DOMAIN nodes[d].kids : nodes[d].kids[x] # n
  BY <1>1 DEF GoodNodes, GoodNode
<1>8. \A d \in DOMAIN ns2 : \A x \in DOMAIN ns2[d].kids :
        \/ d = p /\ x = name /\ ns2[d].kids[x] = n
        \/ /\ d \in DOMAIN nodes /\ x \in DOMAIN nodes[d].kids
           /\ ns2[d].kids[x] = nodes[d].kids[x]
  <2>1. ASSUME NEW d \in DOMAIN ns2, NEW x \in DOMAIN ns2[d].kids
        PROVE  \/ d = p /\ x = name /\ ns2[d].kids[x] = n
               \/ /\ d \in DOMAIN nodes /\ x \in DOMAIN nodes[d].kids
                  /\ ns2[d].kids[x] = nodes[d].kids[x]
    <3>1. CASE d = p
      BY <3>1, <1>3, <1>6
    <3>2. CASE d # p
      BY <3>2, <1>2, <1>4
    <3> QED
      BY <3>1, <3>2
  <2> QED
    BY <2>1
<1>9. \A e \in DOMAIN entries : entries[e].node # n
  BY Zenon, <1>1 DEF GoodEntries, GoodEntry
<1>10. \A d \in DOMAIN ns2 : \A x \in DOMAIN ns2[d].kids :
         ns2[d].kids[x] = n => d = p /\ x = name
  BY <1>7, <1>8
<1>11. \A c, d \in DOMAIN ns2 : \A x \in DOMAIN ns2[c].kids, y \in DOMAIN ns2[d].kids :
         ns2[c].kids[x] = ns2[d].kids[y] => c = d /\ x = y
  <2>1. ASSUME NEW c \in DOMAIN ns2, NEW d \in DOMAIN ns2, NEW x \in DOMAIN ns2[c].kids,
               NEW y \in DOMAIN ns2[d].kids, ns2[c].kids[x] = ns2[d].kids[y]
        PROVE  c = d /\ x = y
    <3>1. CASE ns2[c].kids[x] = n
      BY ZenonT(40), <2>1, <3>1, <1>10
    <3>2. CASE ns2[c].kids[x] # n
      BY SMTT(20), <2>1, <3>2, <1>1, <1>8 DEF Tidy
    <3> QED
      BY <3>1, <3>2
  <2> QED
    BY <2>1
<1>12. \A e \in DOMAIN entries, d \in DOMAIN ns2 : \A x \in DOMAIN ns2[d].kids :
         ns2[d].kids[x] = entries[e].node =>
           /\ entries[e].parent \in DOMAIN entries
           /\ entries[entries[e].parent].node = d /\ entries[e].name = x
  BY SMTT(20), <1>1, <1>8, <1>9 DEF Tidy
<1>13. Tidy(ns2, entries)
  BY <1>1, <1>11, <1>12 DEF Tidy
<1> QED
  BY <1>10, <1>13 DEF ns2

(* A new entry, of a node that has none, under the node's name if it has   *)
(* one.                                                                    *)
LEMMA AddEntryTidy ==
  ASSUME IInv, NEW ns, NEW n, NEW p, NEW name, NEW e, e \notin DOMAIN entries,
         Tidy(ns, entries), \A f \in DOMAIN entries : entries[f].node # n,
         \A d \in DOMAIN ns : \A x \in DOMAIN ns[d].kids :
           ns[d].kids[x] = n => p \in DOMAIN entries /\ entries[p].node = d /\ name = x
  PROVE  Tidy(ns, Extend(entries, e, NewEntry(p, n, name)))
<1> DEFINE r == NewEntry(p, n, name)
           es2 == Extend(entries, e, r)
<1>1. /\ DOMAIN es2 = DOMAIN entries \cup {e} /\ es2[e] = r
      /\ \A x \in DOMAIN entries : es2[x] = entries[x]
  BY Zenon DEF Extend
<1>2. r.node = n /\ r.parent = p /\ r.name = name
  BY Zenon DEF NewEntry
<1> HIDE DEF r, es2
<1>3. ASSUME NEW a \in DOMAIN es2, NEW b \in DOMAIN es2, es2[a].node = es2[b].node
      PROVE  a = b
  <2>1. CASE a = e \/ b = e
    BY ONLY Zenon, <1>1, <1>2, <1>3, <2>1, \A f \in DOMAIN entries : entries[f].node # n
  <2>2. CASE a # e /\ b # e
    BY ONLY Zenon, <1>1, <1>3, <2>2, Tidy(ns, entries) DEF Tidy
  <2> QED
    BY ONLY Zenon, <2>1, <2>2
<1>4. \A a \in DOMAIN es2, d \in DOMAIN ns : \A x \in DOMAIN ns[d].kids :
        ns[d].kids[x] = es2[a].node =>
          es2[a].parent \in DOMAIN es2 /\ es2[es2[a].parent].node = d /\ es2[a].name = x
  <2>1. ASSUME NEW a \in DOMAIN entries, NEW d \in DOMAIN ns, NEW x \in DOMAIN ns[d].kids,
               ns[d].kids[x] = es2[a].node
        PROVE  es2[a].parent \in DOMAIN es2 /\ es2[es2[a].parent].node = d /\ es2[a].name = x
    BY <2>1, <1>1 DEF Tidy
  <2>2. ASSUME NEW d \in DOMAIN ns, NEW x \in DOMAIN ns[d].kids,
               ns[d].kids[x] = es2[e].node
        PROVE  es2[e].parent \in DOMAIN es2 /\ es2[es2[e].parent].node = d /\ es2[e].name = x
    BY Zenon, <2>2, <1>1, <1>2
  <2> QED
    BY <2>1, <2>2, <1>1
<1> QED
  BY Zenon, <1>3, <1>4 DEF Tidy, r, es2

(* One more mount.                                                         *)
LEMMA MoreMounts ==
  ASSUME NEW ns, NEW ms \in Seq(MountRecord), NEW fs, NEW r \in MountRecord,
         GoodNodes(ns, ms, fs)
  PROVE  GoodNodes(ns, Append(ms, r), fs) /\ Len(ms) + 1 \in DOMAIN Append(ms, r)
<1>1. DOMAIN ms \subseteq DOMAIN Append(ms, r) /\ Len(ms) + 1 \in DOMAIN Append(ms, r)
  OBVIOUS
<1> QED
  BY Zenon, <1>1 DEF GoodNodes, GoodNode

-----------------------------------------------------------------------------
(* The steps.                                                              *)

(* The parts of the invariant, and the entry that a walk has reached.      *)
LEMMA Parts ==
  ASSUME IInv
  PROVE  /\ Good(nodes, entries, table, mounts, files, held, stack, next_fd)
         /\ GoodNodes(nodes, mounts, files) /\ GoodEntries(nodes, entries, table)
         /\ GoodTable(table, mounts) /\ GoodFiles(nodes, files, next_fd)
         /\ GoodRefs(entries, mounts, held, stack) /\ GoodControl
         /\ Tidy(nodes, entries)
  BY DEF IInv, Good

LEMMA NewNodeNoEntry ==
  ASSUME IInv, NEW n, n \notin DOMAIN nodes
  PROVE  \A f \in DOMAIN entries : entries[f].node # n
<1>1. \A f \in DOMAIN entries : entries[f].node \in DOMAIN nodes
  BY Zenon, Parts DEF GoodEntries, GoodEntry
<1> QED
  BY Zenon, <1>1

LEMMA TopIsEntry ==
  ASSUME IInv, walk \in {"resolve", "parent"}
  PROVE  /\ stack \in Seq(Nat) /\ stack # <<>>
         /\ Top \in DOMAIN entries /\ Top # NULL
         /\ entries[Top].node \in DOMAIN nodes
         /\ nodes[entries[Top].node].mount \in DOMAIN mounts
<1>1. stack \in Seq(Nat) /\ stack # <<>> /\ \A i \in DOMAIN stack : stack[i] \in DOMAIN entries
  BY Zenon, Parts DEF GoodRefs, GoodControl
<1>2. Len(stack) \in DOMAIN stack
  BY <1>1
<1>3. Top \in DOMAIN entries
  BY <1>1, <1>2 DEF Top
<1>4. Top # NULL /\ entries[Top].node \in DOMAIN nodes
  BY Zenon, <1>3, Parts DEF GoodEntries, GoodEntry
<1> QED
  BY Zenon, <1>1, <1>3, <1>4, Parts DEF GoodNodes, GoodNode

(* Once something is mounted there is a root entry, and before there is    *)
(* none.                                                                   *)
LEMMA RootIsEntry ==
  ASSUME IInv
  PROVE  /\ HasRoot <=> mounts # <<>>
         /\ mounts # <<>> => Root \in DOMAIN entries /\ Root \in Nat
<1>1. mounts # <<>> => 1 \in DOMAIN mounts
  BY Parts DEF GoodRefs
<1>2. mounts # <<>> => mounts[1].root \in DOMAIN entries
  BY Zenon, <1>1, Parts DEF GoodRefs
<1>3. DOMAIN entries \subseteq Nat
  BY Parts DEF GoodEntries
<1> QED
  BY Zenon, <1>2, <1>3, Parts DEF GoodTable, HasRoot, Root, Cached, RootKey

(* The stack may be replaced by any sequence of entries.                   *)
LEMMA OtherStack ==
  ASSUME IInv, NEW st \in Seq(Nat), \A i \in DOMAIN st : st[i] \in DOMAIN entries
  PROVE  Good(nodes, entries, table, mounts, files, held, st, next_fd)
  BY Zenon, Parts DEF Good, GoodRefs

LEMMA EmptyStack ==
  ASSUME IInv
  PROVE  Good(nodes, entries, table, mounts, files, held, <<>>, next_fd)
<1>1. <<>> \in Seq(Nat) /\ \A i \in DOMAIN <<>> : <<>>[i] \in DOMAIN entries
  OBVIOUS
<1> QED
  BY Zenon, <1>1, OtherStack

(* What the last operations on a stack leave on it.                        *)
LEMMA Push ==
  ASSUME NEW S, NEW st \in Seq(Nat), \A i \in DOMAIN st : st[i] \in S, NEW e \in Nat
  PROVE  /\ Append(st, e) \in Seq(Nat) /\ Append(st, e) # <<>>
         /\ \A i \in DOMAIN Append(st, e) : Append(st, e)[i] \in S \cup {e}
<1>1. Append(st, e) \in Seq(Nat) /\ Len(Append(st, e)) = Len(st) + 1
  OBVIOUS
<1>2. Append(st, e) # <<>>
  BY <1>1
<1> QED
  BY <1>1, <1>2

LEMMA Pop ==
  ASSUME NEW S, NEW st \in Seq(Nat), \A i \in DOMAIN st : st[i] \in S, Len(st) > 1
  PROVE  LET s2 == SubSeq(st, 1, Len(st) - 1)
         IN s2 \in Seq(Nat) /\ s2 # <<>> /\ \A i \in DOMAIN s2 : s2[i] \in S
<1> DEFINE s2 == SubSeq(st, 1, Len(st) - 1)
<1>1. Len(st) \in Nat /\ DOMAIN st = 1..Len(st) /\ \A i \in 1..Len(st) : st[i] \in Nat
  OBVIOUS
<1>2. s2 = [i \in 1..(Len(st) - 1) |-> st[i]]
  BY <1>1
<1>3. DOMAIN s2 = 1..(Len(st) - 1) /\ \A i \in 1..(Len(st) - 1) : s2[i] = st[i]
  BY <1>2
<1>4. Len(s2) = Len(st) - 1 /\ s2 \in Seq(Nat)
  BY <1>1
<1> HIDE DEF s2
<1>5. s2 # <<>>
  BY <1>4, <1>1
<1>6. \A i \in DOMAIN s2 : s2[i] \in S
  BY SMTT(20), <1>1, <1>3
<1> QED
  BY <1>4, <1>5, <1>6 DEF s2

(* A call that ends leaves no walk behind.                                 *)
LEMMA EndControl ==
  ASSUME IInv, walk' = "none", UNCHANGED panic
  PROVE  GoodControl'
  BY Zenon, Parts DEF GoodControl, Walks

LEMMA FailKeeps ==
  ASSUME IInv, NEW r, Fail(r)
  PROVE  IInv'
<1>1. /\ Settle(nodes, entries, mounts, files, held, <<>>)
      /\ table' = table /\ next_fd' = next_fd /\ walk' = "none" /\ UNCHANGED panic
  BY DEF Fail, Return
<1>2. Good(nodes, entries, table, mounts, files, held, stack, next_fd)'
  BY <1>1, EmptyStack, SettleGood
<1>3. GoodControl'
  BY <1>1, EndControl
<1> QED
  BY <1>2, <1>3 DEF IInv

LEMMA PanicKeeps ==
  ASSUME IInv, NEW why \in {"todo", "assert"}, Panic(why)
  PROVE  IInv'
<1>1. UNCHANGED <<nodes, entries, table, mounts, files, held, stack, next_fd, call, walk>>
  BY DEF Panic, store
<1>2. panic' = why
  BY DEF Panic
<1>3. GoodControl'
  BY SMTT(20), <1>1, <1>2, Parts DEF GoodControl
<1> QED
  BY <1>1, <1>3 DEF IInv

(* Steps that change nothing but the walk, the stack and the result.       *)
LEMMA WalkKeeps ==
  ASSUME IInv, UNCHANGED <<nodes, entries, table, mounts, files, held, next_fd>>,
         stack' \in Seq(Nat), \A i \in DOMAIN stack' : stack'[i] \in DOMAIN entries,
         GoodControl'
  PROVE  IInv'
<1>1. Good(nodes, entries, table, mounts, files, held, stack', next_fd)
  BY Zenon, OtherStack
<1> QED
  BY <1>1 DEF IInv

(* An entry is pushed on the stack.                                        *)
LEMMA PushKeeps ==
  ASSUME IInv, walk \in {"resolve", "parent"}, NEW e \in DOMAIN entries,
         stack' = Append(stack, e),
         UNCHANGED <<nodes, entries, table, mounts, files, held, next_fd, call, walk, panic>>
  PROVE  IInv'
<1>1. stack \in Seq(Nat) /\ \A i \in DOMAIN stack : stack[i] \in DOMAIN entries
  BY Zenon, Parts DEF GoodRefs
<1>2. e \in Nat
  BY Parts DEF GoodEntries
<1>3. stack' \in Seq(Nat) /\ \A i \in DOMAIN stack' : stack'[i] \in DOMAIN entries
  BY <1>1, <1>2
<1>4. stack' # <<>>
  BY <1>1, <1>2
<1>5. GoodControl'
  BY <1>4, Parts DEF GoodControl
<1> QED
  BY <1>3, <1>5, WalkKeeps

(* Walks: the steps of resolve_path and resolve_path_parent_directory.     *)
LEMMA BeginKeeps ==
  ASSUME IInv, NEW c, Begin(c)
  PROVE  IInv'
<1>1. /\ UNCHANGED <<nodes, entries, table, mounts, files, held, next_fd, panic>>
      /\ HasRoot /\ ~UnknownType(c)
      /\ call' = c /\ walk' = "resolve" /\ stack' = <<Root>>
  BY DEF Begin, store
<1>2. mounts # <<>> /\ Root \in DOMAIN entries /\ Root \in Nat
  BY <1>1, RootIsEntry
<1>3. /\ stack' \in Seq(Nat) /\ \A i \in DOMAIN stack' : stack'[i] \in DOMAIN entries
      /\ stack' # <<>>
  BY <1>1, <1>2
<1>4. c.op = "mount" => c.arg \in FileSystemTypes
  BY <1>1 DEF UnknownType
<1>5. GoodControl'
  BY Zenon, <1>1, <1>2, <1>3, <1>4, Parts DEF GoodControl, Walks
<1> QED
  BY <1>1, <1>3, <1>5, WalkKeeps

LEMMA StartParentWalkKeeps ==
  ASSUME IInv, StartParentWalk
  PROVE  IInv'
<1>1. /\ UNCHANGED <<nodes, entries, table, mounts, files, held, next_fd, call, panic>>
      /\ walk = "missing" /\ walk' = "parent" /\ stack' = <<Root>>
  BY DEF StartParentWalk, Missing, store
<1>2. mounts # <<>>
  BY <1>1, Parts DEF GoodControl
<1>3. Root \in DOMAIN entries /\ Root \in Nat
  BY <1>2, RootIsEntry
<1>4. /\ stack' \in Seq(Nat) /\ \A i \in DOMAIN stack' : stack'[i] \in DOMAIN entries
      /\ stack' # <<>>
  BY <1>1, <1>3
<1>5. GoodControl'
  BY <1>1, <1>2, <1>4, Parts DEF GoodControl, Walks
<1> QED
  BY <1>1, <1>4, <1>5, WalkKeeps

LEMMA WalkDotKeeps ==
  ASSUME IInv, WalkDot
  PROVE  IInv'
<1>1. UNCHANGED <<nodes, entries, table, mounts, files, held, next_fd, call, walk, stack, panic>>
  BY DEF WalkDot, store
<1> QED
  BY <1>1 DEF IInv, GoodControl

LEMMA WalkDotDotKeeps ==
  ASSUME IInv, WalkDotDot
  PROVE  IInv'
<1> DEFINE st == SubSeq(stack, 1, Len(stack) - 1)
<1>1. /\ walk = "resolve" /\ Len(stack) > 1
      /\ Settle(nodes, entries, mounts, files, held, st)
      /\ table' = table /\ UNCHANGED <<next_fd, call, walk, panic>>
  BY DEF WalkDotDot, Resolving
<1>2. stack \in Seq(Nat) /\ \A i \in DOMAIN stack : stack[i] \in DOMAIN entries
  BY Zenon, Parts DEF GoodRefs
<1>3. /\ st \in Seq(Nat) /\ \A i \in DOMAIN st : st[i] \in DOMAIN entries
      /\ st # <<>>
  BY Zenon, <1>1, <1>2, Pop
<1>4. stack' = st /\ mounts' = mounts
  BY Zenon, <1>1 DEF Settle
<1> HIDE DEF st
<1>5. Good(nodes, entries, table, mounts, files, held, st, next_fd)
  BY <1>3, OtherStack
<1>6. Good(nodes, entries, table, mounts, files, held, stack, next_fd)'
  BY SMTT(20), <1>1, <1>5, SettleGood
<1>7. GoodControl'
  BY <1>1, <1>3, <1>4, Parts DEF GoodControl
<1> QED
  BY <1>6, <1>7 DEF IInv

LEMMA WalkMountKeeps ==
  ASSUME IInv, WalkMount
  PROVE  IInv'
<1> DEFINE m == Min(MountsAt(Top, Seg))
<1>1. /\ walk = "resolve" /\ MountsAt(Top, Seg) # {}
      /\ stack' = Append(stack, mounts[m].root)
      /\ UNCHANGED <<nodes, entries, table, mounts, files, held, next_fd, call, walk, panic>>
  BY DEF WalkMount, Resolving, store
<1>2. MountsAt(Top, Seg) \subseteq DOMAIN mounts
  BY Zenon DEF MountsAt
<1>3. DOMAIN mounts \subseteq Nat
  <2>1. mounts \in Seq(MountRecord)
    BY Zenon, Parts DEF GoodRefs
  <2> QED
    BY ONLY <2>1
<1>4. m \in DOMAIN mounts
  BY Zenon, <1>1, <1>2, <1>3, MinIn
<1>5. mounts[m].root \in DOMAIN entries
  BY Zenon, <1>4, Parts DEF GoodRefs
<1> QED
  BY Zenon, <1>1, <1>5, PushKeeps

LEMMA WalkCachedKeeps ==
  ASSUME IInv, WalkCached
  PROVE  IInv'
<1>1. /\ walk \in {"resolve", "parent"}
      /\ table[<<Top, Seg>>] \in DOMAIN entries
      /\ stack' = Append(stack, table[<<Top, Seg>>])
      /\ UNCHANGED <<nodes, entries, table, mounts, files, held, next_fd, call, walk, panic>>
  BY Zenon DEF WalkCached, LookingUp, Resolving, Descending, Cached, store
<1> QED
  BY Zenon, <1>1, PushKeeps

LEMMA WalkMissingKeeps ==
  ASSUME IInv, WalkMissing
  PROVE  IInv'
<1>1. /\ Settle(nodes, entries, mounts, files, held, <<>>)
      /\ table' = table /\ next_fd' = next_fd /\ walk = "resolve" /\ walk' = "missing"
      /\ UNCHANGED <<call, panic>>
  BY DEF WalkMissing
<1>2. Good(nodes, entries, table, mounts, files, held, stack, next_fd)'
  BY <1>1, EmptyStack, SettleGood
<1>3. mounts' = mounts
  BY Zenon, <1>1 DEF Settle
<1>4. GoodControl'
  BY <1>1, <1>3, Parts DEF GoodControl, Walks
<1> QED
  BY <1>2, <1>4 DEF IInv

(* The file system's lookup: a new entry, and for a device a new node.     *)
LEMMA WalkLookupKeeps ==
  ASSUME IInv, WalkLookup
  PROVE  IInv'
<1> DEFINE onRam == FileSystemOf(entries[Top].node) = "ramfs"
           n == IF onRam THEN NodeOf(Top).kids[Seg] ELSE FreshNode
           e == FreshEntry
           ns == IF onRam THEN nodes
                 ELSE Extend(nodes, n, DeviceNode(NodeOf(Top).mount, Seg))
           es == Extend(entries, e, NewEntry(Top, n, Seg))
           tb == Extend(table, <<Top, Seg>>, e)
           st == Append(stack, e)
<1>1. /\ walk \in {"resolve", "parent"} /\ ~Cached(Top, Seg) /\ OnDisk(Top, Seg)
      /\ Settle(ns, es, mounts, files, held, st) /\ table' = tb
      /\ UNCHANGED <<next_fd, call, walk, panic>>
  BY Zenon DEF WalkLookup, LookingUp, Resolving, Descending
<1>2. /\ stack \in Seq(Nat) /\ Top \in DOMAIN entries /\ Top # NULL
      /\ entries[Top].node \in DOMAIN nodes
      /\ nodes[entries[Top].node].mount \in DOMAIN mounts
  BY Zenon, <1>1, TopIsEntry
<1>3. /\ FreshNode \in Nat \ {NULL} /\ FreshNode \notin DOMAIN nodes
      /\ e \in Nat \ {NULL} /\ e \notin DOMAIN entries
  BY FreshIds
<1>4. DOMAIN nodes \subseteq DOMAIN ns /\ n \in DOMAIN ns
  <2>1. CASE onRam
    <3>1. Seg \in DOMAIN NodeOf(Top).kids
      BY Zenon, <2>1, <1>1 DEF OnDisk, InRamfs
    <3> QED
      BY Zenon, <2>1, <3>1, <1>2, Parts DEF GoodNodes, GoodNode, NodeOf
  <2>2. CASE ~onRam
    BY <2>2 DEF Extend
  <2> QED
    BY Zenon, <2>1, <2>2
<1>5. GoodNodes(ns, mounts, files) /\ GoodFiles(ns, files, next_fd)
  <2>1. CASE onRam
    BY <2>1, Parts
  <2>2. CASE ~onRam
    <3>1. NodeOf(Top).mount \in DOMAIN mounts
      BY <1>2 DEF NodeOf
    <3>2. ns = Extend(nodes, FreshNode, NewNode(NodeOf(Top).mount, "CharDevice", Seg))
      BY <2>2 DEF DeviceNode
    <3> QED
      BY Zenon, <3>1, <3>2, <1>3, Parts, AddNode
  <2> QED
    BY Zenon, <2>1, <2>2
<1>6. Unused(entries, table, <<Top, Seg>>)
  BY Zenon, <1>1 DEF Unused, Cached
<1>names. Tidy(ns, entries) /\ (\A f \in DOMAIN entries : entries[f].node # n)
        /\ \A d \in DOMAIN ns : \A x \in DOMAIN ns[d].kids :
             ns[d].kids[x] = n => entries[Top].node = d /\ Seg = x
  <2>1. CASE onRam
    <3> DEFINE d0 == entries[Top].node
    <3>1. Seg \in DOMAIN nodes[d0].kids /\ n = nodes[d0].kids[Seg] /\ ns = nodes
      BY ZenonT(40), <2>1, <1>1 DEF OnDisk, InRamfs, NodeOf
    <3> HIDE DEF n, ns, onRam, d0
    <3>2. \A d \in DOMAIN nodes : \A x \in DOMAIN nodes[d].kids :
            nodes[d].kids[x] = n => d0 = d /\ Seg = x
      <4>1. Tidy(nodes, entries) /\ d0 \in DOMAIN nodes
        BY Zenon, <1>2, Parts DEF d0
      <4> QED
        BY ONLY <3>1, <4>1 DEF Tidy
    <3>3. ASSUME NEW f \in DOMAIN entries, entries[f].node = n
          PROVE  FALSE
      <4>1. /\ entries[f].parent \in DOMAIN entries /\ entries[f].name = Seg
            /\ entries[entries[f].parent].node = entries[Top].node
        <5>1. \A g \in DOMAIN entries, d \in DOMAIN nodes : \A x \in DOMAIN nodes[d].kids :
                nodes[d].kids[x] = entries[g].node =>
                  /\ entries[g].parent \in DOMAIN entries
                  /\ entries[entries[g].parent].node = d /\ entries[g].name = x
          <6>1. Tidy(nodes, entries)
            BY Zenon, Parts
          <6> QED
            BY ONLY <6>1 DEF Tidy
        <5>2. d0 \in DOMAIN nodes /\ d0 = entries[Top].node
          BY Zenon, <1>2 DEF d0
        <5>3. Seg \in DOMAIN nodes[d0].kids /\ nodes[d0].kids[Seg] = entries[f].node
          BY Zenon, <3>1, <3>3
        <5>4. /\ entries[f].parent \in DOMAIN entries
              /\ entries[entries[f].parent].node = d0 /\ entries[f].name = Seg
          BY ZenonT(40), <5>1, <5>2, <5>3
        <5> QED
          BY Zenon, <5>2, <5>4
      <4>2. entries[f].parent = Top
        BY Zenon, <4>1, <1>2, Parts DEF Tidy
      <4>3. <<Top, Seg>> \in DOMAIN table /\ table[<<Top, Seg>>] = f
        BY Zenon, <4>1, <4>2, Parts DEF GoodEntries, GoodEntry
      <4> QED
        BY Zenon, <4>3, <1>6 DEF Unused
    <3> QED
      BY Zenon, <3>1, <3>2, <3>3, Parts DEF d0
  <2>2. CASE ~onRam
    <3>1. n = FreshNode /\ ns = Extend(nodes, n, NewNode(NodeOf(Top).mount, "CharDevice", Seg))
      BY SMTT(20), <2>2 DEF DeviceNode
    <3> HIDE DEF n, ns, onRam
    <3>2. Tidy(ns, entries)
      BY SMTT(20), <3>1, <1>3, Parts, AddNodeTidy
    <3>3. \A f \in DOMAIN entries : entries[f].node # n
      BY SMTT(20), <3>1, <1>3, NewNodeNoEntry
    <3>4. \A d \in DOMAIN ns : \A x \in DOMAIN ns[d].kids : ns[d].kids[x] # n
      <4>1. GoodNodes(nodes, mounts, files) /\ n \notin DOMAIN nodes
        BY Zenon, <3>1, <1>3, Parts
      <4>2. LET ns2 == Extend(nodes, n, NewNode(NodeOf(Top).mount, "CharDevice", Seg))
            IN \A d \in DOMAIN ns2 : \A x \in DOMAIN ns2[d].kids : ns2[d].kids[x] # n
        BY Zenon, <4>1, NewNodeNoKid
      <4> QED
        BY Zenon, <3>1, <4>2
    <3> QED
      BY SMTT(20), <3>2, <3>3, <3>4
  <2> QED
    BY Zenon, <2>1, <2>2
<1> HIDE DEF onRam, n, e, ns
<1>tidy. Tidy(ns, es)
  BY Zenon, <1>names, <1>2, <1>3, AddEntryTidy
<1>7. DOMAIN es = DOMAIN entries \cup {e} /\ GoodEntries(ns, es, tb)
  BY Zenon, <1>2, <1>3, <1>4, <1>6, AddEntry
<1>8. GoodTable(tb, mounts)
  BY Zenon, <1>2, Parts, AddTableKey
<1>9. /\ st \in Seq(Nat) /\ st # <<>>
      /\ \A i \in DOMAIN st : st[i] \in DOMAIN entries \cup {e}
  <2>1. e \in Nat /\ \A i \in DOMAIN stack : stack[i] \in DOMAIN entries
    BY Zenon, <1>3, Parts DEF GoodRefs
  <2> QED
    BY Zenon, <2>1, <1>2, Push
<1> HIDE DEF es, tb, st
<1>10. GoodRefs(es, mounts, held, st)
  BY Zenon, <1>7, <1>9, Parts DEF GoodRefs
<1>11. Good(ns, es, tb, mounts, files, held, st, next_fd)
  BY ZenonT(40), <1>5, <1>7, <1>8, <1>10, <1>tidy DEF Good
<1>12. Good(nodes, entries, table, mounts, files, held, stack, next_fd)'
  BY SMTT(20), <1>1, <1>11, SettleGood
<1>13. stack' = st /\ mounts' = mounts
  BY <1>1 DEF Settle
<1>14. GoodControl'
  BY Zenon, <1>1, <1>9, <1>13, Parts DEF GoodControl
<1> QED
  BY <1>12, <1>14 DEF IInv

(* The last step of a call.                                                *)
LEMMA EndKeeps ==
  ASSUME IInv, NEW ns, NEW es, NEW tb, NEW ms, NEW fs, NEW hs, NEW st, NEW nf,
         Good(ns, es, tb, ms, fs, hs, st, nf),
         Settle(ns, es, ms, fs, hs, st), table' = tb, next_fd' = nf,
         walk' = "none", UNCHANGED panic
  PROVE  IInv'
<1>1. Good(nodes, entries, table, mounts, files, held, stack, next_fd)'
  BY SettleGood
<1>2. GoodControl'
  BY EndControl
<1> QED
  BY <1>1, <1>2 DEF IInv

LEMMA MoreNodes ==
  ASSUME NEW ns, NEW ns2, NEW es, NEW tb, GoodEntries(ns, es, tb),
         DOMAIN ns \subseteq DOMAIN ns2
  PROVE  GoodEntries(ns2, es, tb)
  BY Zenon DEF GoodEntries, GoodEntry

LEMMA StatFoundKeeps ==
  ASSUME IInv, StatFound
  PROVE  IInv'
<1>1. /\ walk = "resolve" /\ walk' = "none" /\ UNCHANGED panic
      /\ Settle(nodes, entries, mounts, files, held \cup {Top}, <<>>)
      /\ table' = table /\ next_fd' = next_fd
  BY DEF StatFound, Found, Return
<1>2. Good(nodes, entries, table, mounts, files, held, <<>>, next_fd)
  BY SMTT(20), EmptyStack
<1>3. Top \in DOMAIN entries
  BY <1>1, TopIsEntry
<1>4. Good(nodes, entries, table, mounts, files, held \cup {Top}, <<>>, next_fd)
  BY Zenon, <1>2, <1>3 DEF Good, GoodRefs
<1> QED
  BY <1>1, <1>4, EndKeeps

LEMMA ReadDirectoryKeeps ==
  ASSUME IInv, ReadDirectory
  PROVE  IInv'
<1>1. /\ walk' = "none" /\ UNCHANGED panic
      /\ Settle(nodes, entries, mounts, files, held, <<>>)
      /\ table' = table /\ next_fd' = next_fd
  BY DEF ReadDirectory
<1> QED
  BY SMTT(20), <1>1, EmptyStack, EndKeeps

(* open: the file is added and the link count raised together.             *)
LEMMA OpenNodeKeeps ==
  ASSUME IInv, NEW ns, NEW n \in DOMAIN ns, NEW tb, OpenNode(n, ns, entries, <<>>),
         GoodNodes(ns, mounts, files), GoodFiles(ns, files, next_fd),
         GoodEntries(ns, entries, tb), GoodTable(tb, mounts), Tidy(ns, entries),
         table' = tb, walk' = "none", UNCHANGED panic
  PROVE  IInv'
<1> DEFINE ns2 == [ns EXCEPT ![n].links = @ + 1]
           fs2 == Extend(files, next_fd, [node |-> n, mode |-> call.arg, pos |-> 0])
<1>1. DOMAIN ns2 = DOMAIN ns /\ GoodNodes(ns2, mounts, fs2) /\ GoodFiles(ns2, fs2, next_fd + 1)
  BY AddFile
<1>2. Settle(ns2, entries, mounts, fs2, held, <<>>) /\ next_fd' = next_fd + 1
  BY DEF OpenNode
<1>6. Tidy(ns2, entries)
  <2>1. DOMAIN ns[n] = NodeFields
    BY Zenon DEF GoodNodes, GoodNode
  <2>2. \A x \in DOMAIN ns : ns2[x].kids = ns[x].kids
    BY <2>1 DEF NodeFields
  <2> QED
    BY Zenon, <2>2, <1>1, SameNames
<1> HIDE DEF ns2, fs2
<1>3. GoodEntries(ns2, entries, tb)
  BY <1>1, MoreNodes
<1>4. GoodRefs(entries, mounts, held, <<>>)
  BY EmptyStack DEF Good
<1>5. Good(ns2, entries, tb, mounts, fs2, held, <<>>, next_fd + 1)
  BY <1>1, <1>3, <1>4, <1>6 DEF Good
<1> QED
  BY SMTT(20), <1>2, <1>5, EndKeeps

LEMMA OpenFoundKeeps ==
  ASSUME IInv, OpenFound
  PROVE  IInv'
<1>1. /\ walk = "resolve" /\ walk' = "none" /\ UNCHANGED panic /\ table' = table
      /\ OpenNode(entries[Top].node, nodes, entries, <<>>)
  BY DEF OpenFound, Found, Return
<1>2. entries[Top].node \in DOMAIN nodes
  BY Zenon, <1>1, TopIsEntry
<1> QED
  BY Zenon, <1>1, <1>2, Parts, OpenNodeKeeps

LEMMA CreateFileKeeps ==
  ASSUME IInv, CreateFile
  PROVE  IInv'
<1>1. walk = "parent"
  BY DEF CreateFile, AtParent
<1>2. CASE Cached(Top, Seg)
  BY <1>2, PanicKeeps DEF CreateFile
<1>3. CASE ~Cached(Top, Seg)
  <2> DEFINE n == FreshNode
             ns == AddChild(entries[Top].node, Seg, n, "File")
             tb == Extend(table, <<Top, Seg>>, FreshEntry)
  <2>1. /\ OpenNode(n, ns, entries, <<>>) /\ table' = tb
        /\ walk' = "none" /\ UNCHANGED panic
    BY Zenon, <1>3 DEF CreateFile, Return
  <2>2. entries[Top].node \in DOMAIN nodes /\ Top # NULL
    BY <1>1, TopIsEntry
  <2>3. n \in Nat \ {NULL} /\ n \notin DOMAIN nodes
    BY FreshIds
  <2>4. /\ DOMAIN ns = DOMAIN nodes \cup {n}
        /\ GoodNodes(ns, mounts, files) /\ GoodFiles(ns, files, next_fd)
    BY Zenon, <2>2, <2>3, AddChildNode
  <2>5. Unused(entries, table, <<Top, Seg>>)
    BY <1>3 DEF Unused, Cached
  <2>6. GoodEntries(nodes, entries, tb)
    BY <2>5, Parts, AddKey
  <2>7. GoodTable(tb, mounts)
    BY Zenon, <2>2, Parts, AddTableKey
  <2>9. Tidy(ns, entries)
    BY Zenon, <2>2, <2>3, AddChildTidy
  <2> HIDE DEF n, ns, tb
  <2>8. GoodEntries(ns, entries, tb)
    BY SMTT(20), <2>4, <2>6, MoreNodes
  <2> QED
    BY Zenon, <2>1, <2>4, <2>7, <2>8, <2>9, OpenNodeKeeps
<1> QED
  BY <1>2, <1>3

LEMMA CreateDirectoryKeeps ==
  ASSUME IInv, CreateDirectory
  PROVE  IInv'
<1>1. walk = "parent"
  BY DEF CreateDirectory, AtParent
<1>2. CASE Cached(Top, Seg)
  BY SMTT(20), <1>2, PanicKeeps DEF CreateDirectory
<1>3. CASE ~Cached(Top, Seg)
  <2> DEFINE n == FreshNode
             e == FreshEntry
             ns == AddChild(entries[Top].node, Seg, n, "Directory")
             es == Extend(entries, e, NewEntry(Top, n, Seg))
             tb == Extend(table, <<Top, Seg>>, e)
  <2>1. /\ Settle(ns, es, mounts, files, held \cup {e}, <<>>) /\ table' = tb
        /\ next_fd' = next_fd /\ walk' = "none" /\ UNCHANGED panic
    BY Zenon, <1>3 DEF CreateDirectory, Return
  <2>2. entries[Top].node \in DOMAIN nodes /\ Top \in DOMAIN entries /\ Top # NULL
    BY <1>1, TopIsEntry
  <2>3. /\ n \in Nat \ {NULL} /\ n \notin DOMAIN nodes
        /\ e \in Nat \ {NULL} /\ e \notin DOMAIN entries
    BY FreshIds
  <2>4. /\ DOMAIN ns = DOMAIN nodes \cup {n}
        /\ GoodNodes(ns, mounts, files) /\ GoodFiles(ns, files, next_fd)
    BY Zenon, <2>2, <2>3, AddChildNode
  <2>5. Unused(entries, table, <<Top, Seg>>)
    BY <1>3 DEF Unused, Cached
  <2>names. /\ Tidy(ns, entries) /\ \A f \in DOMAIN entries : entries[f].node # n
        /\ \A d \in DOMAIN ns : \A x \in DOMAIN ns[d].kids :
             ns[d].kids[x] = n => d = entries[Top].node /\ x = Seg
    <3> HIDE DEF n
    <3>1. \A f \in DOMAIN entries : entries[f].node # n
      BY ZenonT(40), <2>3, NewNodeNoEntry
    <3>2. /\ Tidy(ns, entries)
          /\ \A d \in DOMAIN ns : \A x \in DOMAIN ns[d].kids :
               ns[d].kids[x] = n => d = entries[Top].node /\ x = Seg
      <4>1. entries[Top].node \in DOMAIN nodes /\ n \notin DOMAIN nodes
        BY Zenon, <2>2, <2>3
      <4> QED
        BY ONLY SMTT(30), IInv, <4>1, AddChildTidy
    <3> QED
      BY Zenon, <3>1, <3>2
  <2> HIDE DEF n, e, ns
  <2>tidy. Tidy(ns, es)
    BY Zenon, <2>names, <2>2, <2>3, AddEntryTidy
  <2>6. DOMAIN es = DOMAIN entries \cup {e} /\ GoodEntries(ns, es, tb)
    BY Zenon, <2>2, <2>3, <2>4, <2>5, AddEntry
  <2>7. GoodTable(tb, mounts)
    BY ZenonT(40), <2>2, Parts, AddTableKey
  <2> HIDE DEF es, tb
  <2>8. GoodRefs(es, mounts, held \cup {e}, <<>>)
    <3>1. GoodRefs(entries, mounts, held, <<>>)
      BY EmptyStack DEF Good
    <3> QED
      BY SMTT(20), <3>1, <2>6 DEF GoodRefs
  <2>9. Good(ns, es, tb, mounts, files, held \cup {e}, <<>>, next_fd)
    BY Zenon, <2>4, <2>6, <2>7, <2>8, <2>tidy DEF Good
  <2> QED
    BY SMTT(20), <2>1, <2>9, EndKeeps
<1> QED
  BY <1>2, <1>3

(* mount, at the root (p is NULL) or in a directory.                       *)
LEMMA MountKeeps ==
  ASSUME IInv, NEW p \in DOMAIN entries \cup {NULL}, NEW name,
         NEW fs \in FileSystemTypes, NEW st,
         GoodRefs(entries, mounts, held, st), Unused(entries, table, <<p, name>>),
         p = NULL => name = "/" /\ mounts = <<>>, p # NULL => mounts # <<>>,
         table' = Extend(table, <<p, name>>, FreshEntry),
         Settle(Extend(nodes, FreshNode, RootNode(Len(mounts) + 1)),
                Extend(entries, FreshEntry, NewEntry(p, FreshNode, name)),
                Append(mounts, [fs |-> fs, root |-> FreshEntry]), files, held, st),
         next_fd' = next_fd, walk' = "none", UNCHANGED panic
  PROVE  IInv'
<1> DEFINE n == FreshNode
           e == FreshEntry
           r == [fs |-> fs, root |-> e]
           ms == Append(mounts, r)
           ns == Extend(nodes, n, RootNode(Len(mounts) + 1))
           es == Extend(entries, e, NewEntry(p, n, name))
           tb == Extend(table, <<p, name>>, e)
<1>1. /\ n \in Nat \ {NULL} /\ n \notin DOMAIN nodes
      /\ e \in Nat \ {NULL} /\ e \notin DOMAIN entries
  BY Zenon, FreshIds
<1>2. Settle(ns, es, ms, files, held, st) /\ table' = tb
  BY Zenon
<1>3. DOMAIN ns = DOMAIN nodes \cup {n}
  BY Zenon DEF Extend
<1>4. ns = Extend(nodes, n, NewNode(Len(mounts) + 1, "Directory", ""))
  BY Zenon DEF RootNode
<1>5. <<p, name>> \in DOMAIN tb /\ tb[<<p, name>>] = e
      /\ DOMAIN tb = DOMAIN table \cup {<<p, name>>}
      /\ \A k \in DOMAIN table : k # <<p, name>> => tb[k] = table[k]
  BY Zenon DEF Extend
<1>names. /\ Tidy(ns, entries) /\ \A f \in DOMAIN entries : entries[f].node # n
          /\ \A d \in DOMAIN ns : \A x \in DOMAIN ns[d].kids : ns[d].kids[x] # n
  <2> HIDE DEF n, ns
  <2>1. \A f \in DOMAIN entries : entries[f].node # n
    BY Zenon, <1>1, NewNodeNoEntry
  <2>2. Tidy(ns, entries)
    BY Zenon, <1>1, <1>4, Parts, AddNodeTidy
  <2>3. GoodNodes(nodes, mounts, files)
    BY Zenon, Parts
  <2>4. \A d \in DOMAIN ns : \A x \in DOMAIN ns[d].kids : ns[d].kids[x] # n
    <3>1. LET ns2 == Extend(nodes, n, NewNode(Len(mounts) + 1, "Directory", ""))
          IN \A d \in DOMAIN ns2 : \A x \in DOMAIN ns2[d].kids : ns2[d].kids[x] # n
      BY ZenonT(40), <2>3, <1>1, NewNodeNoKid
    <3> QED
      BY Zenon, <3>1, <1>4
  <2> QED
    BY Zenon, <2>1, <2>2, <2>4
<1> HIDE DEF n, e, ns
<1>tidy. Tidy(ns, es)
  BY Zenon, <1>names, <1>1, AddEntryTidy
<1>6. r \in MountRecord /\ r.root = e
  BY Zenon, <1>1 DEF MountRecord
<1>7. mounts \in Seq(MountRecord)
  BY Zenon, Parts DEF GoodRefs
<1> HIDE DEF r
<1>8. GoodNodes(nodes, ms, files) /\ Len(mounts) + 1 \in DOMAIN ms
  BY Zenon, <1>6, <1>7, Parts, MoreMounts
<1>9. /\ ms \in Seq(MountRecord) /\ ms # <<>>
      /\ \A m \in DOMAIN ms : ms[m] = r \/ (m \in DOMAIN mounts /\ ms[m] = mounts[m])
      /\ mounts # <<>> => ms[1] = mounts[1]
      /\ mounts = <<>> => ms[1] = r
  <2>1. ms \in Seq(MountRecord) /\ Len(ms) = Len(mounts) + 1
    BY SMTT(20), <1>6, <1>7
  <2>2. ms # <<>>
    BY SMTT(20), <2>1, <1>7
  <2>3. \A m \in DOMAIN ms : ms[m] = r \/ (m \in DOMAIN mounts /\ ms[m] = mounts[m])
    BY SMTT(20), <1>6, <1>7
  <2>4. mounts # <<>> => ms[1] = mounts[1]
    BY <1>6, <1>7
  <2>5. mounts = <<>> => ms[1] = r
    BY <1>6, <1>7
  <2> QED
    BY ZenonT(40), <2>1, <2>2, <2>3, <2>4, <2>5
<1>10. DOMAIN es = DOMAIN entries \cup {e} /\ GoodEntries(ns, es, tb)
  BY Zenon, <1>1, <1>3, AddEntry
<1> HIDE DEF ms, es, tb
<1>11. GoodNodes(ns, ms, files) /\ GoodFiles(ns, files, next_fd)
  BY Zenon, <1>1, <1>4, <1>8, Parts, AddNode
<1>12. GoodTable(tb, ms)
  <2>1. IsFiniteSet(DOMAIN tb)
    BY Zenon, <1>5, Parts, FS_AddElement DEF GoodTable
  <2>2. CASE p = NULL
    BY Zenon, <2>1, <2>2, <1>5, <1>6, <1>9 DEF GoodTable, RootKey
  <2>3. CASE p # NULL
    <3>1. RootKey # <<p, name>>
      BY Zenon, <2>3 DEF RootKey
    <3>2. RootKey \in DOMAIN table /\ table[RootKey] = mounts[1].root
      BY Zenon, <2>3, Parts DEF GoodTable
    <3> QED
      BY Zenon, <2>1, <2>3, <3>1, <3>2, <1>5, <1>9 DEF GoodTable
  <2> QED
    BY Zenon, <2>2, <2>3
<1>13. GoodRefs(es, ms, held, st)
  BY Zenon, <1>6, <1>9, <1>10 DEF GoodRefs
<1>14. Good(ns, es, tb, ms, files, held, st, next_fd)
  BY Zenon, <1>10, <1>11, <1>12, <1>13, <1>tidy DEF Good
<1> QED
  BY Zenon, <1>2, <1>14, EndKeeps

LEMMA MountRootKeeps ==
  ASSUME IInv, NEW c, MountRoot(c)
  PROVE  IInv'
<1>1. /\ walk = "none" /\ c.op = "mount" /\ ~UnknownType(c) /\ ~HasRoot
      /\ table' = Extend(table, <<NULL, "/">>, FreshEntry)
      /\ Settle(Extend(nodes, FreshNode, RootNode(Len(mounts) + 1)),
                Extend(entries, FreshEntry, NewEntry(NULL, FreshNode, "/")),
                Append(mounts, [fs |-> c.arg, root |-> FreshEntry]), files, held, stack)
      /\ next_fd' = next_fd /\ walk' = walk /\ UNCHANGED panic
  BY Zenon DEF MountRoot, Idle
<1>2. c.arg \in FileSystemTypes
  BY Zenon, <1>1 DEF UnknownType
<1>3. mounts = <<>>
  BY <1>1, RootIsEntry
<1>4. Unused(entries, table, <<NULL, "/">>)
  BY Zenon, <1>1 DEF Unused, HasRoot, Cached
<1>5. GoodRefs(entries, mounts, held, stack)
  BY Parts
<1> QED
  BY Zenon, <1>1, <1>2, <1>3, <1>4, <1>5, MountKeeps

LEMMA MountAtKeeps ==
  ASSUME IInv, MountAt
  PROVE  IInv'
<1>1. walk = "parent" /\ call.op = "mount"
  BY Zenon DEF MountAt, AtParent
<1>2. CASE Cached(Top, Seg)
  BY Zenon, <1>2, PanicKeeps DEF MountAt
<1>3. CASE ~Cached(Top, Seg)
  <2>1. /\ table' = Extend(table, <<Top, Seg>>, FreshEntry)
        /\ Settle(Extend(nodes, FreshNode, RootNode(Len(mounts) + 1)),
                  Extend(entries, FreshEntry, NewEntry(Top, FreshNode, Seg)),
                  Append(mounts, [fs |-> call.arg, root |-> FreshEntry]), files, held, <<>>)
        /\ next_fd' = next_fd /\ walk' = "none" /\ UNCHANGED panic
    BY Zenon, <1>3 DEF MountAt, Return
  <2>2. call.arg \in FileSystemTypes /\ mounts # <<>>
    BY <1>1, Parts DEF GoodControl
  <2>3. Top \in DOMAIN entries /\ Top # NULL
    BY <1>1, TopIsEntry
  <2>4. Unused(entries, table, <<Top, Seg>>)
    BY <1>3 DEF Unused, Cached
  <2>5. GoodRefs(entries, mounts, held, <<>>)
    BY EmptyStack DEF Good
  <2> QED
    BY Zenon, <2>1, <2>2, <2>3, <2>4, <2>5, MountKeeps
<1> QED
  BY <1>2, <1>3

-----------------------------------------------------------------------------
(* Calls on descriptors, and the other calls without a path.               *)

LEMMA OnFileKeeps ==
  ASSUME IInv, Idle, NEW r, NEW ns, NEW fs, OnFile(r, ns, fs),
         DOMAIN ns = DOMAIN nodes, \A n \in DOMAIN nodes : ns[n].kids = nodes[n].kids,
         GoodNodes(ns, mounts, fs), GoodFiles(ns, fs, next_fd)
  PROVE  IInv'
<1>1. /\ Settle(ns, entries, mounts, fs, held, stack) /\ table' = table
      /\ next_fd' = next_fd /\ walk' = "none" /\ UNCHANGED panic
  BY Zenon DEF OnFile, Idle
<1>2. GoodEntries(ns, entries, table)
  BY Zenon, Parts, MoreNodes
<1>4. Tidy(ns, entries)
  BY Parts, SameNames
<1>3. Good(ns, entries, table, mounts, fs, held, stack, next_fd)
  BY Zenon, <1>2, <1>4, Parts DEF Good
<1> QED
  BY Zenon, <1>1, <1>3, EndKeeps

LEMMA RefusedKeeps ==
  ASSUME IInv, Idle, NEW r, OnFile(r, nodes, files)
  PROVE  IInv'
  BY Parts, OnFileKeeps

LEMMA CloseKeeps ==
  ASSUME IInv, NEW fd, Close(fd)
  PROVE  IInv'
<1> DEFINE ns2 == [nodes EXCEPT ![files[fd].node].links = @ - 1]
           fs2 == Restrict(files, DOMAIN files \ {fd})
<1>1. Idle /\ fd \in DOMAIN files /\ OnFile("ok", ns2, fs2)
  BY DEF Close
<1>2. DOMAIN ns2 = DOMAIN nodes /\ GoodNodes(ns2, mounts, fs2) /\ GoodFiles(ns2, fs2, next_fd)
  BY Zenon, <1>1, Parts, RemoveFile
<1>3. \A n \in DOMAIN nodes : ns2[n].kids = nodes[n].kids
  <2>1. \A n \in DOMAIN nodes : DOMAIN nodes[n] = NodeFields
    BY Zenon, Parts DEF GoodNodes, GoodNode
  <2> QED
    BY <2>1 DEF NodeFields
<1> HIDE DEF ns2, fs2
<1> QED
  BY Zenon, <1>1, <1>2, <1>3, OnFileKeeps

LEMMA FileParts ==
  ASSUME IInv, NEW fd \in DOMAIN files
  PROVE  LET n == files[fd].node
         IN /\ n \in DOMAIN nodes /\ files[fd].pos \in Nat
            /\ nodes[n].data \in Seq(Nat)
            /\ nodes[n].kind = "File" => files[fd].pos =< Len(nodes[n].data)
<1>1. GoodFile(nodes, files, next_fd, fd)
  BY Parts DEF GoodFiles
<1>2. files[fd].node \in DOMAIN nodes
  BY <1>1 DEF GoodFile
<1>3. GoodNode(nodes, mounts, files, files[fd].node)
  BY Zenon, <1>2, Parts DEF GoodNodes
<1> QED
  BY Zenon, <1>1, <1>2, <1>3 DEF GoodFile, GoodNode

LEMMA ReadKeeps ==
  ASSUME IInv, NEW fd, NEW k \in Nat, Read(fd, k)
  PROVE  IInv'
<1> DEFINE n == files[fd].node
           c == ReadCount(files[fd], k)
           fs2 == [files EXCEPT ![fd].pos = @ + c]
<1>1. /\ Idle /\ fd \in DOMAIN files /\ nodes[n].kind # "Directory"
      /\ OnFile("ok", nodes, fs2)
  BY DEF Read, IoReady
<1>2. /\ n \in DOMAIN nodes /\ files[fd].pos \in Nat /\ nodes[n].data \in Seq(Nat)
      /\ nodes[n].kind = "File" => files[fd].pos =< Len(nodes[n].data)
  BY <1>1, FileParts
<1>3. nodes[n].kind \in {"File", "CharDevice"}
  BY <1>1, <1>2, Parts DEF GoodNodes, GoodNode
<1>4. c \in Nat /\ (nodes[n].kind = "File" => files[fd].pos + c =< Len(nodes[n].data))
  <2>1. CASE nodes[n].kind = "CharDevice"
    BY Zenon, <2>1 DEF ReadCount
  <2>2. CASE nodes[n].kind = "File"
    <3>1. c = Available(nodes[n].data, files[fd].pos, k)
      BY <2>2 DEF ReadCount
    <3> HIDE DEF c, n
    <3> QED
      BY Zenon, <2>2, <3>1, <1>2, AvailableBound
  <2> QED
    BY Zenon, <2>1, <2>2, <1>3
<1> HIDE DEF c
<1>5. GoodNodes(nodes, mounts, fs2) /\ GoodFiles(nodes, fs2, next_fd)
  BY Zenon, <1>1, <1>4, Parts, MoveFile
<1> HIDE DEF fs2
<1> QED
  BY Zenon, <1>1, <1>5, OnFileKeeps

LEMMA WriteKeeps ==
  ASSUME IInv, NEW fd, NEW b \in Seq(Nat), Write(fd, b)
  PROVE  IInv'
<1> DEFINE n == files[fd].node
           d == Overwrite(nodes[n].data, files[fd].pos, b)
           ns2 == IF nodes[n].kind = "CharDevice" THEN nodes
                  ELSE [nodes EXCEPT ![n].data = d]
           fs2 == [files EXCEPT ![fd].pos = @ + Len(b)]
<1>1. Idle /\ fd \in DOMAIN files /\ OnFile("ok", ns2, fs2)
  BY DEF Write, IoReady
<1>2. n \in DOMAIN nodes /\ files[fd].pos \in Nat /\ nodes[n].data \in Seq(Nat)
  BY <1>1, FileParts
<1>3. /\ d \in Seq(Nat) /\ Len(d) >= Len(nodes[n].data)
      /\ Len(d) >= files[fd].pos + Len(b)
  BY ZenonT(40), <1>2, OverwriteLength
<1>4. Len(b) \in Nat /\ Len(d) \in Nat
  BY <1>3
<1> HIDE DEF d
<1>5. /\ DOMAIN ns2 = DOMAIN nodes
      /\ GoodNodes(ns2, mounts, files) /\ GoodFiles(ns2, files, next_fd)
      /\ ns2[n].kind = "File" => files[fd].pos + Len(b) =< Len(ns2[n].data)
  <2>1. CASE nodes[n].kind = "CharDevice"
    BY <2>1, Parts
  <2>2. CASE nodes[n].kind # "CharDevice"
    <3>1. LET ns3 == [nodes EXCEPT ![n].data = d]
          IN /\ DOMAIN ns3 = DOMAIN nodes /\ ns3[n].data = d
             /\ GoodNodes(ns3, mounts, files) /\ GoodFiles(ns3, files, next_fd)
      BY ZenonT(40), <1>2, <1>3, Parts, GrowFile
    <3> QED
      BY Zenon, <2>2, <3>1, <1>2, <1>3, <1>4
  <2> QED
    BY Zenon, <2>1, <2>2
<1>7. \A x \in DOMAIN nodes : ns2[x].kids = nodes[x].kids
  <2>1. \A x \in DOMAIN nodes : DOMAIN nodes[x] = NodeFields
    BY Zenon, Parts DEF GoodNodes, GoodNode
  <2> QED
    BY <2>1 DEF NodeFields
<1> HIDE DEF ns2
<1>6. GoodNodes(ns2, mounts, fs2) /\ GoodFiles(ns2, fs2, next_fd)
  BY Zenon, <1>1, <1>4, <1>5, MoveFile
<1> HIDE DEF fs2
<1> QED
  BY Zenon, <1>1, <1>5, <1>6, <1>7, OnFileKeeps

(* prune_directory_cache: the keys of live entries stay, the root's among  *)
(* them.                                                                   *)
LEMMA PruneKeeps ==
  ASSUME IInv, Prune
  PROVE  IInv'
<1> DEFINE keys == {k \in DOMAIN table : table[k] \in DOMAIN entries}
           tb == Restrict(table, keys)
<1>1. /\ table' = tb
      /\ UNCHANGED <<nodes, entries, mounts, files, held, next_fd, call, walk, stack, panic>>
  BY DEF Prune
<1>2. DOMAIN tb = keys /\ \A k \in keys : tb[k] = table[k]
  BY DEF Restrict
<1> HIDE DEF tb
<1>3. GoodEntries(nodes, entries, tb)
  <2>1. ASSUME NEW e \in DOMAIN entries
        PROVE  GoodEntry(nodes, entries, tb, e)
    <3>1. GoodEntry(nodes, entries, table, e)
      BY Zenon, Parts DEF GoodEntries
    <3>2. <<entries[e].parent, entries[e].name>> \in keys
      BY Zenon, <3>1 DEF GoodEntry
    <3> QED
      BY Zenon, <3>1, <3>2, <1>2 DEF GoodEntry
  <2> QED
    BY Zenon, <2>1, Parts DEF GoodEntries
<1>4. GoodTable(tb, mounts)
  <2>1. IsFiniteSet(keys)
    BY Zenon, Parts, FS_Subset DEF GoodTable
  <2>2. mounts # <<>> => 1 \in DOMAIN mounts
    <3>1. mounts \in Seq(MountRecord)
      BY Zenon, Parts DEF GoodRefs
    <3> QED
      BY <3>1
  <2>3. mounts # <<>> => mounts[1].root \in DOMAIN entries
    BY Zenon, <2>2, Parts DEF GoodRefs
  <2>4. RootKey \in keys <=> mounts # <<>>
    BY Zenon, <2>3, Parts DEF GoodTable
  <2> HIDE DEF keys
  <2> QED
    BY Zenon, <1>2, <2>1, <2>4, Parts DEF GoodTable, keys
<1>5. Good(nodes, entries, tb, mounts, files, held, stack, next_fd)
  BY Zenon, <1>3, <1>4, Parts DEF Good
<1>6. GoodControl'
  BY Zenon, <1>1, Parts DEF GoodControl
<1> QED
  BY SMTT(20), <1>1, <1>5, <1>6 DEF IInv

LEMMA DropEntryKeeps ==
  ASSUME IInv, NEW e, DropEntry(e)
  PROVE  IInv'
<1>1. /\ Settle(nodes, entries, mounts, files, held \ {e}, stack) /\ table' = table
      /\ next_fd' = next_fd /\ walk' = "none" /\ UNCHANGED panic
  BY DEF DropEntry, Idle
<1>2. Good(nodes, entries, table, mounts, files, held \ {e}, stack, next_fd)
  BY Zenon, Parts DEF Good, GoodRefs
<1> QED
  BY Zenon, <1>1, <1>2, EndKeeps

LEMMA RejectKeeps ==
  ASSUME IInv, NEW c, Reject(c)
  PROVE  IInv'
<1>1. UNCHANGED <<nodes, entries, table, mounts, files, held, next_fd, call, walk, stack, panic>>
  BY Zenon DEF Reject, store
<1> QED
  BY Zenon, <1>1 DEF IInv, GoodControl

-----------------------------------------------------------------------------
(* What follows from the invariant by counting.                            *)

(* The ids chosen for a new node and a new entry are new, and the entry's  *)
(* is not left in the table either.                                        *)
LEMMA FreshAlways ==
  ASSUME IInv
  PROVE  NewIdsFresh
<1>1. IsFiniteSet(DOMAIN entries) /\ IsFiniteSet(DOMAIN table)
  BY Zenon DEF IInv, Good, GoodEntries, GoodTable
<1>2. IsFiniteSet({k[1] : k \in DOMAIN table}) /\ IsFiniteSet(Range(table))
  BY <1>1, FiniteKeys, FiniteRange
<1>3. IsFiniteSet(UsedEntries)
  BY Zenon, <1>1, <1>2, FS_Union DEF UsedEntries
<1>4. FreshEntry \notin UsedEntries
  BY <1>3, FreshIsNew DEF FreshEntry
<1>5. \A k \in DOMAIN table : table[k] # FreshEntry
  BY <1>4 DEF UsedEntries, Range
<1> QED
  BY Zenon, <1>5, FreshIds DEF NewIdsFresh

(* While there are fewer nodes than MaxNodes, the id chosen for a new one  *)
(* is among the ids up to MaxNodes.                                        *)
LEMMA CountedAlways ==
  ASSUME IInv
  PROVE  NodesCounted
<1> DEFINE D == DOMAIN nodes
           k == Cardinality(D)
<1>1. IsFiniteSet(D) /\ k \in Nat /\ MaxNodes \in Nat
  <2>1. IsFiniteSet(D)
    BY Zenon DEF IInv, Good, GoodNodes
  <2> QED
    BY <2>1, FS_CardinalityType, BoundsAssumption
<1>2. FreshNode \in 1..k + 1
  <2>1. Cardinality(1..k + 1) = k + 1
    BY <1>1, FS_Interval
  <2>2. ~(1..k + 1 \subseteq D)
    BY <1>1, <2>1, FS_Subset
  <2>3. \E n \in 1..k + 1 : n \notin D
    BY <2>2
  <2> QED
    BY Zenon, <2>3 DEF FreshNode, Fresh
<1>3. k < MaxNodes => FreshNode \in 1..MaxNodes
  BY <1>1, <1>2
<1>4. \A S \in SUBSET D : Cardinality(S) \in Nat /\ Cardinality(S) =< k
  BY <1>1, FS_Subset, FS_CardinalityType
<1>5. ASSUME NEW x, NEW S \in SUBSET (D \cup {x})
      PROVE  Cardinality(S) \in Nat /\ Cardinality(S) =< k + 1
  <2>1. IsFiniteSet(D \cup {x}) /\ Cardinality(D \cup {x}) = (IF x \in D THEN k ELSE k + 1)
    BY <1>1, FS_AddElement
  <2>2. Cardinality(S) \in Nat /\ Cardinality(S) =< Cardinality(D \cup {x})
    BY <2>1, FS_Subset, FS_CardinalityType
  <2> QED
    BY <1>1, <2>1, <2>2
<1> QED
  BY Zenon, <1>1, <1>3, <1>4, <1>5 DEF NodesCounted

(* resolve_path's first mount is one of the mounts.                        *)
LEMMA FirstMountAlways ==
  ASSUME IInv
  PROVE  FirstMountIn
<1>1. DOMAIN mounts \subseteq Nat
  BY DEF IInv, Good, GoodRefs
<1>2. \A e, name : MountsAt(e, name) \subseteq Nat
  BY Zenon, <1>1 DEF MountsAt
<1> QED
  BY Zenon, <1>2, MinIn DEF FirstMountIn

(* Induction over the naturals, for sets.                                  *)
LEMMA SetInduction ==
  ASSUME NEW S, 0 \in S, \A n \in Nat : n \in S => n + 1 \in S
  PROVE  \A n \in Nat : n \in S
<1> DEFINE T == Nat \ S
<1> SUFFICES ASSUME T # {}
             PROVE  FALSE
  OBVIOUS
<1>1. T \subseteq Nat
  OBVIOUS
<1>2. \E x \in T : \A y \in T : ~ (<<y, x>> \in OpToRel(<, Nat))
  BY ZenonT(30), <1>1, NatLessThanWellFounded, WFMin
<1>3. PICK x \in T : \A y \in T : ~ (<<y, x>> \in OpToRel(<, Nat))
  BY ZenonT(30), <1>2
<1>4. x # 0 /\ x - 1 \in Nat /\ x - 1 < x
  OBVIOUS
<1>5. x - 1 \in T
  BY <1>4
<1>6. <<x - 1, x>> \in Nat \X Nat /\ <<x - 1, x>>[1] = x - 1 /\ <<x - 1, x>>[2] = x
  BY <1>4
<1>7. ~ (<<x - 1, x>> \in {ss \in Nat \X Nat : ss[1] < ss[2]})
  BY <1>3, <1>5, Zenon DEF OpToRel
<1> QED
  BY <1>4, <1>6, <1>7

LEMMA InductionAlways == InductionHolds
BY Zenon, SetInduction DEF InductionHolds

-----------------------------------------------------------------------------
(* The invariant and what follows from it.                                 *)

LEMMA InitGood ==
  ASSUME Init
  PROVE  IInv
<1>1. DOMAIN Empty = {}
  BY DEF Empty
<1>2. GoodNodes(nodes, mounts, files) /\ GoodFiles(nodes, files, next_fd)
  BY <1>1, FS_EmptySet DEF Init, GoodNodes, GoodFiles
<1>3. GoodEntries(nodes, entries, table)
  BY <1>1, FS_EmptySet DEF Init, GoodEntries
<1>4. GoodTable(table, mounts)
  BY Zenon, <1>1, FS_EmptySet DEF Init, GoodTable
<1>5. GoodRefs(entries, mounts, held, stack)
  BY DEF Init, GoodRefs
<1>6. GoodControl
  BY DEF Init, GoodControl, Walks
<1>7. Tidy(nodes, entries)
  BY Zenon, <1>1 DEF Init, Tidy
<1> QED
  BY SMTT(20), <1>2, <1>3, <1>4, <1>5, <1>6, <1>7 DEF IInv, Good

LEMMA StepKeeps ==
  ASSUME IInv, Step
  PROVE  IInv'
<1>1. CASE WalkNotADirectory \/ ParentMissing \/ NotFound \/ ReadFile \/ OpenDirectory
             \/ CreateUnsupported \/ MkdirExists
  <2>1. \E r \in {"NotADirectory", "EntryNotFound", "NotAFile",
                 "OperationNotSupported", "AlreadyExists"} : Fail(r)
    BY <1>1 DEF WalkNotADirectory, ParentMissing, NotFound, ReadFile, OpenDirectory,
                CreateUnsupported, MkdirExists
  <2> QED
    BY <2>1, FailKeeps
<1>2. CASE ParentWalkDots \/ MountOver
  BY <1>2, PanicKeeps DEF ParentWalkDots, MountOver
<1>3. CASE WalkDot \/ WalkDotDot \/ WalkMount \/ WalkCached \/ WalkLookup \/ WalkMissing
  BY SMTT(20), <1>3, WalkDotKeeps, WalkDotDotKeeps, WalkMountKeeps, WalkCachedKeeps,
     WalkLookupKeeps, WalkMissingKeeps
<1>4. CASE StartParentWalk \/ StatFound \/ ReadDirectory \/ OpenFound
  BY <1>4, StartParentWalkKeeps, StatFoundKeeps, ReadDirectoryKeeps, OpenFoundKeeps
<1>5. CASE CreateFile \/ CreateDirectory \/ MountAt
  BY SMTT(20), <1>5, CreateFileKeeps, CreateDirectoryKeeps, MountAtKeeps
<1> QED
  BY <1>1, <1>2, <1>3, <1>4, <1>5 DEF Step

LEMMA CallerKeeps ==
  ASSUME IInv, Caller
  PROVE  IInv'
<1>1. ASSUME NEW c \in Calls, Reject(c) \/ RelativePath(c) \/ MountRoot(c) \/ Begin(c)
      PROVE  IInv'
  BY <1>1, RejectKeeps, MountRootKeeps, BeginKeeps, PanicKeeps DEF RelativePath
<1>2. ASSUME NEW fd \in 1..MaxFd,
             BadDescriptor(fd) \/ WrongMode(fd, "Read") \/ WrongMode(fd, "Write")
               \/ DeviceUnsupported(fd)
      PROVE  IInv'
  <2>1. Idle /\ \E r \in {"InvalidFile", "InvalidMode", "OperationNotSupported"} :
                  OnFile(r, nodes, files)
    BY Zenon, <1>2 DEF BadDescriptor, WrongMode, DeviceUnsupported, IoReady
  <2> QED
    BY <2>1, RefusedKeeps
<1>3. ASSUME NEW fd \in 1..MaxFd, Close(fd) \/ DirectoryIo(fd)
      PROVE  IInv'
  BY Zenon, <1>3, CloseKeeps, PanicKeeps DEF DirectoryIo
<1>4. ASSUME NEW fd \in 1..MaxFd, NEW k \in ReadSizes, Read(fd, k)
      PROVE  IInv'
  BY <1>4, ReadKeeps, DataAssumption
<1>5. ASSUME NEW fd \in 1..MaxFd, NEW b \in Buffers, Write(fd, b)
      PROVE  IInv'
  BY <1>5, WriteKeeps, DataAssumption
<1>6. CASE Prune \/ \E e \in held : DropEntry(e)
  BY <1>6, PruneKeeps, DropEntryKeeps
<1> QED
  BY SMTT(20), <1>1, <1>2, <1>3, <1>4, <1>5, <1>6 DEF Caller

LEMMA NextKeeps ==
  ASSUME IInv, [Next]_vars
  PROVE  IInv'
<1>1. CASE UNCHANGED vars
  BY Zenon, <1>1 DEF vars, IInv, GoodControl
<1>2. CASE Next
  BY <1>1, <1>2, StepKeeps, CallerKeeps DEF Next, Hang
<1> QED
  BY <1>1, <1>2

LEMMA Invariant == Spec => []IInv
<1>1. Init => IInv
  BY InitGood
<1>2. IInv /\ [Next]_vars => IInv'
  BY NextKeeps
<1> QED
  BY <1>1, <1>2, PTL DEF Spec

(* Every reference of the VFS leads to an object that exists, after any    *)
(* sequence of calls: so file_system()'s expect, that an FsNode's mount is *)
(* in the mount table, never fires.                                        *)
THEOREM TypeCorrect == Spec => []TypeOK
<1>1. IInv => TypeOK
  <2> SUFFICES ASSUME IInv PROVE TypeOK
    OBVIOUS
  <2>1. \A n \in DOMAIN nodes :
          IsFiniteSet(FilesOn(files, n)) /\ Cardinality(FilesOn(files, n)) \in Nat
    BY Zenon, Parts, FS_Subset, FS_CardinalityType DEF GoodFiles, FilesOn
  <2>2. \A n \in DOMAIN nodes : nodes[n].links \in Nat \ {0}
    <3>1. \A n \in DOMAIN nodes : nodes[n].links = 1 + Cardinality(FilesOn(files, n))
      BY Zenon, Parts DEF GoodNodes, GoodNode
    <3> QED
      BY <2>1, <3>1
  <2>3. \A n \in DOMAIN nodes :
          /\ nodes[n].mount \in DOMAIN mounts
          /\ nodes[n].kind \in {"Directory", "File", "CharDevice"}
          /\ \A x \in DOMAIN nodes[n].kids : nodes[n].kids[x] \in DOMAIN nodes
    BY Zenon, Parts DEF GoodNodes, GoodNode
  <2>4. \A e \in DOMAIN entries :
          /\ entries[e].node \in DOMAIN nodes
          /\ entries[e].parent \in DOMAIN entries \cup {NULL}
    BY Zenon, Parts DEF GoodEntries, GoodEntry
  <2>5. \A f \in DOMAIN files : f < next_fd /\ files[f].node \in DOMAIN nodes
    BY Zenon, Parts DEF GoodFiles, GoodFile
  <2>6. Range(stack) \subseteq DOMAIN entries
    BY Zenon, Parts DEF GoodRefs, Range
  <2> QED
    BY Zenon, <2>2, <2>3, <2>4, <2>5, <2>6, Parts
    DEF TypeOK, GoodNodes, GoodEntries, GoodRefs, GoodControl
<1> QED
  BY <1>1, Invariant, PTL

(* DirectoryCache: every entry with a live reference is in the table under *)
(* its own parent and name, for any calls on any paths, any number of      *)
(* mounts, and prunes at any moment.                                       *)
THEOREM CacheComplete == Spec => []LiveEntriesCached
<1>1. IInv => LiveEntriesCached
  BY Zenon, Parts DEF LiveEntriesCached, GoodEntries, GoodEntry
<1> QED
  BY <1>1, Invariant, PTL

(* However paths are walked, entries dropped, the cache pruned and file    *)
(* systems mounted, no node gets a second live entry, although each lookup *)
(* that misses the cache makes an entry of its own.                        *)
THEOREM EntriesAreUnique == Spec => []OneEntryPerNode
<1>1. IInv => OneEntryPerNode
  BY Zenon, Parts DEF OneEntryPerNode, Tidy
<1> QED
  BY <1>1, Invariant, PTL

(* open and close keep a node's link count at one plus its open files, for *)
(* any number of descriptors.                                              *)
THEOREM LinksCounted == Spec => []LinkCountExact
<1>1. IInv => LinkCountExact
  BY Zenon, Parts DEF LinkCountExact, GoodNodes, GoodNode, FilesOn
<1> QED
  BY <1>1, Invariant, PTL

(* ramfs: no descriptor points past the end of its file, for any buffers   *)
(* and any number of descriptors on the same file.                         *)
THEOREM NoHoles == Spec => []PositionInFile
<1>1. IInv => PositionInFile
  BY Zenon, Parts DEF PositionInFile, GoodFiles, GoodFile
<1> QED
  BY <1>1, Invariant, PTL

=============================================================================
