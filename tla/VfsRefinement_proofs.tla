------------------------ MODULE VfsRefinement_proofs ------------------------
(***************************************************************************)
(* Mounting, and the results: the directory cache tells the truth, and Vfs *)
(* implements FileTree.                                                    *)
(***************************************************************************)
EXTENDS VfsWalk_proofs, Vfs_proofs

(* What the proofs about the tree start from follows from the invariant.   *)
LEMMA KnownAlways ==
  ASSUME IInv
  PROVE  Known
BY ZenonT(30), FreshAlways, CountedAlways, FirstMountAlways, InductionAlways DEF Known

-----------------------------------------------------------------------------
(* Mounting.                                                               *)

\* Zenon proves most of the steps from here on, and a leaf that needs arithmetic or
\* records says SMT.  A step without a name is known to all that follow it.
USE ZenonT(30)

\* The mounts ms2 are the old ones and a new one; ns2 has its root node.
WithMount(ms2, fs, e) ==
  LET k == Len(mounts) + 1
  IN /\ DOMAIN ms2 = DOMAIN mounts \cup {k} /\ Len(ms2) = k
     /\ \A m \in DOMAIN mounts : ms2[m] = mounts[m]
     /\ ms2[k].fs = fs /\ ms2[k].root = e

WithRoot(ns2, n) ==
  /\ DOMAIN ns2 = DOMAIN nodes \cup {n} /\ n \notin DOMAIN nodes
  /\ \A x \in DOMAIN nodes : ns2[x] = nodes[x]
  /\ ns2[n].mount = Len(mounts) + 1 /\ ns2[n].kind = "Directory"
  /\ ns2[n].data = <<>> /\ ns2[n].kids = Empty

LEMMA AppendMount ==
  ASSUME Known, NEW fs \in FileSystemTypes, NEW e \in Nat
  PROVE  WithMount(Append(mounts, [fs |-> fs, root |-> e]), fs, e)
<1> DEFINE r == [fs |-> fs, root |-> e]
           ms2 == Append(mounts, r)
           k == Len(mounts) + 1
<1> mounts \in Seq(MountRecord) /\ r \in MountRecord
  BY SMTT(30) DEF Known, IInv, Good, GoodRefs, MountRecord
<1> r.fs = fs /\ r.root = e
  BY SMTT(30)
<1> HIDE DEF MountRecord, r
<1> DOMAIN mounts = 1..Len(mounts) /\ Len(mounts) \in Nat
  BY SMTT(30)
<1> DOMAIN ms2 = 1..k /\ Len(ms2) = k /\ ms2[k] = r
  BY SMTT(30)
<1> \A m \in DOMAIN mounts : ms2[m] = mounts[m]
  BY SMTT(30)
<1> DOMAIN ms2 = DOMAIN mounts \cup {k}
  BY SMTT(30)
<1> HIDE DEF ms2
<1> WithMount(ms2, fs, e)
  BY DEF WithMount
<1> QED
  BY DEF ms2, r

LEMMA ExtendRoot ==
  ASSUME Known, NEW n, n \notin DOMAIN nodes
  PROVE  WithRoot(Extend(nodes, n, RootNode(Len(mounts) + 1)), n)
<1> DEFINE r == RootNode(Len(mounts) + 1)
           ns2 == Extend(nodes, n, r)
<1> r.mount = Len(mounts) + 1 /\ r.kind = "Directory" /\ r.data = <<>> /\ r.kids = Empty
  BY SMTT(30) DEF RootNode, NewNode
<1> HIDE DEF r
<1> /\ DOMAIN ns2 = DOMAIN nodes \cup {n} /\ ns2[n] = r
    /\ \A x \in DOMAIN nodes : ns2[x] = nodes[x]
  BY DEF Extend
<1> HIDE DEF ns2
<1> WithRoot(ns2, n)
  BY DEF WithRoot
<1> QED
  BY DEF ns2, r

(* The tree gets the root of the new file system.                          *)
LEMMA MountTree ==
  ASSUME Known, NEW ns2, NEW n, WithRoot(ns2, n), NEW ms2, NEW fs, NEW e, WithMount(ms2, fs, e)
  PROVE  TreeOf(ns2, ms2)
           = FileTree!Extend(TreeOf(nodes, mounts), n, FileTree!NewNode("Directory", fs))
<1> DEFINE T == TreeNodes(nodes)
           t == TreeOf(nodes, mounts)
           V(m, ms, x) == [kind |-> m[x].kind, fs |-> ms[m[x].mount].fs,
                           data |-> m[x].data, kids |-> m[x].kids]
<1> t = [x \in T |-> V(nodes, mounts, x)] /\ T \subseteq DOMAIN nodes
  BY DEF TreeOf, TreeNodes
<1> TreeNodes(ns2) = T \cup {n} /\ n \notin T
  <2> "Directory" # "CharDevice"
    BY SMTT(30)
  <2> QED
    BY DEF TreeNodes, WithRoot
<1> TreeOf(ns2, ms2) = [x \in T \cup {n} |-> V(ns2, ms2, x)]
  BY DEF TreeOf
<1> V(ns2, ms2, n) = FileTree!NewNode("Directory", fs)
  BY SameCalls DEF WithRoot, WithMount, FileTree!NewNode
<1> \A x \in T : V(ns2, ms2, x) = V(nodes, mounts, x)
  <2> \A x \in DOMAIN nodes : nodes[x].mount \in DOMAIN mounts
    BY DEF Known, IInv, Good, GoodNodes, GoodNode
  <2> \A x \in T : ns2[x] = nodes[x] /\ ms2[nodes[x].mount] = mounts[nodes[x].mount]
    BY DEF WithRoot, WithMount
  <2> QED
    OBVIOUS
<1> HIDE DEF V, T, t
<1> DOMAIN t = T /\ \A x \in T : t[x] = V(nodes, mounts, x)
  OBVIOUS
<1> TreeOf(ns2, ms2)
      = [x \in DOMAIN t \cup {n} |-> IF x = n THEN FileTree!NewNode("Directory", fs) ELSE t[x]]
  BY SMTT(30)
<1> QED
  BY DEF FileTree!Extend, t

(* Where a mount is, and what is there.                                    *)
LEMMA PointsByMount ==
  ASSUME NEW ns, NEW es, NEW tb, NEW ms, GoodStore(ns, es, tb, ms),
         GoodMounts(ns, es, ms), NEW m \in 2..Len(ms)
  PROVE  /\ MountPoint(es, ms, m) \in DOMAIN PointsOf(es, ms)
         /\ PointsOf(es, ms)[MountPoint(es, ms, m)] = es[ms[m].root].node
<1> DEFINE p == es[ms[m].root].parent
           name == es[ms[m].root].name
<1> ms \in Seq(MountRecord)
  BY DEF GoodStore
<1> m \in DOMAIN ms /\ m # 1
  BY SMTT(30)
<1> p \in DOMAIN es
  BY MountIsEntry
<1> MountPoint(es, ms, m) = <<es[p].node, name>>
  BY DEF MountPoint
<1> p = es[ms[m].root].parent /\ name = es[ms[m].root].name
  BY SMTT(30)
<1> HIDE DEF p, name
<1> QED
  BY SMTT(30), PointsAt

LEMMA MountPoints ==
  ASSUME Known, TInv, mounts # <<>>, NEW es2, NEW e, NEW p \in DOMAIN entries, NEW n, NEW name,
         WithEntry(es2, e, p, n, name), NEW ms2, NEW fs, WithMount(ms2, fs, e),
         <<entries[p].node, name>> \notin DOMAIN PointsOf(entries, mounts)
  PROVE  PointsOf(es2, ms2)
           = FileTree!Extend(PointsOf(entries, mounts), <<entries[p].node, name>>, n)
<1> DEFINE k == Len(mounts) + 1
           key == <<entries[p].node, name>>
           S == 2..Len(mounts)
           S2 == 2..Len(ms2)
           old == PointsOf(entries, mounts)
           A(m) == MountPoint(es2, ms2, m)
           B(m) == MountPoint(entries, mounts, m)
           P(m) == es2[ms2[m].root].node
<1>1. GoodStore(nodes, entries, table, mounts) /\ GoodMounts(nodes, entries, mounts)
  BY StoreOfGood DEF Known, IInv, TInv, TrueStore
<1>2. mounts \in Seq(MountRecord) /\ Len(ms2) = k
  BY <1>1 DEF GoodStore, WithMount
<1>3. S2 = S \cup {k} /\ k \notin S /\ \A m \in S : m \in DOMAIN mounts /\ m # 1
  BY SMTT(30), <1>2
<1>4. \A m \in DOMAIN mounts : /\ mounts[m].root \in DOMAIN entries
                               /\ m # 1 => entries[mounts[m].root].parent \in DOMAIN entries
  BY <1>1, MountIsEntry
<1>5. ASSUME NEW m \in S
      PROVE  A(m) = B(m) /\ P(m) = entries[mounts[m].root].node
  <2>1. m \in DOMAIN mounts /\ m # 1
    BY <1>3
  <2>2. ms2[m] = mounts[m] /\ mounts[m].root \in DOMAIN entries
    BY <1>4, <2>1 DEF WithMount
  <2>3. es2[mounts[m].root] = entries[mounts[m].root]
    BY <2>2 DEF WithEntry
  <2>4. es2[entries[mounts[m].root].parent] = entries[entries[mounts[m].root].parent]
    BY <1>4, <2>1 DEF WithEntry
  <2> QED
    BY <2>2, <2>3, <2>4 DEF MountPoint
<1>6. A(k) = key /\ P(k) = n
  BY DEF WithMount, WithEntry, MountPoint
<1>7. \A m \in S : B(m) \in DOMAIN old /\ old[B(m)] = entries[mounts[m].root].node
  BY <1>1, PointsByMount
<1>8. DOMAIN old = {B(m) : m \in S}
  BY DEF PointsOf
<1>9. PointsOf(es2, ms2) = [x \in {A(m) : m \in S2} |-> P(CHOOSE m \in S2 : A(m) = x)]
  BY DEF PointsOf
<1> HIDE DEF A, B, P, S, S2, old, k, key
<1>10. {A(m) : m \in S2} = DOMAIN old \cup {key}
  BY SMTT(30), <1>3, <1>5, <1>6, <1>8
<1>11. ASSUME NEW x \in DOMAIN old \cup {key}
       PROVE  P(CHOOSE m \in S2 : A(m) = x) = IF x = key THEN n ELSE old[x]
  <2> DEFINE c == CHOOSE m \in S2 : A(m) = x
  <2>1. \E m \in S2 : A(m) = x
    <3>1. x \in {A(m) : m \in S2}
      BY <1>10, <1>11
    <3> QED
      BY <3>1
  <2>2. c \in S2 /\ A(c) = x
    BY <2>1
  <2> HIDE DEF c
  <2>3. c = k => x = key /\ P(c) = n
    BY <1>6, <2>2
  <2>4. c # k => x # key /\ P(c) = old[x]
    <3> SUFFICES ASSUME c # k
                 PROVE  x # key /\ P(c) = old[x]
      BY SMTT(30)
    <3>1. c \in S
      BY <1>3, <2>2
    <3>2. x \in DOMAIN old /\ old[x] = P(c)
      BY <1>5, <1>7, <2>2, <3>1
    <3>3. x # key
      BY <3>2 DEF key, old
    <3> QED
      BY <3>2, <3>3
  <2>5. P(c) = IF x = key THEN n ELSE old[x]
    BY <2>3, <2>4
  <2> QED
    BY <2>5 DEF c
<1>12. PointsOf(es2, ms2) = [x \in DOMAIN old \cup {key} |-> IF x = key THEN n ELSE old[x]]
  BY <1>9, <1>10, <1>11
<1> QED
  BY <1>12 DEF FileTree!Extend, old, key

LEMMA MountAtTrue ==
  ASSUME Known, IInv', TInv, MountAt
  PROVE  TInv' /\ Abstract
<1> DEFINE d == entries[Top].node
           n == FreshNode
           e == FreshEntry
           r == NewEntry(Top, n, Seg)
           ns2 == Extend(nodes, n, RootNode(Len(mounts) + 1))
           es2 == Extend(entries, e, r)
           tb2 == Extend(table, <<Top, Seg>>, e)
           ms2 == Append(mounts, [fs |-> call.arg, root |-> e])
<1> AtParent /\ call.op = "mount" /\ walk = "parent"
  BY DEF MountAt, AtParent
<1> /\ ~Cached(Top, Seg) /\ ~NameOnDisk(nodes, mounts, d, Seg)
    /\ <<d, Seg>> \notin DOMAIN PointsOf(entries, mounts)
  BY ParentFree
<1> /\ table' = tb2 /\ walk' = "none" /\ ret' = Result("ok") /\ panic' = panic
    /\ next_fd' = next_fd
    /\ Settle(ns2, es2, ms2, files, held, <<>>)
  BY DEF MountAt, Return
<1> /\ n \in (1..MaxNodes) \ DOMAIN TreeOf(nodes, mounts) /\ n \notin DOMAIN nodes
    /\ d \in DOMAIN nodes
  BY NodeToCreate, ParentNode
<1> Top \in DOMAIN entries /\ e \in Nat
  BY TopThere, NewIds DEF AtParent
<1> call.arg \in FileSystemTypes /\ mounts # <<>>
  BY SMTT(30) DEF Known, IInv, Good, GoodControl
<1> HIDE DEF n
<1>7. NewIn(entries, table, Top, Seg, e, r, es2, tb2) /\ r.node = n
  BY FreshIn, NewChain
<1> WithEntry(es2, e, Top, n, Seg)
  BY FreshWithEntry
<1> WithRoot(ns2, n) /\ TrueStore(ns2, entries, table, mounts)
  BY ExtendRoot, MoreNodesTrue
<1> HIDE DEF ns2, es2, tb2, e, r
<1> WithMount(ms2, call.arg, e)
  BY AppendMount
<1>11. TrueStore(ns2, es2, tb2, ms2)
  <2>1. GoodStore(nodes, entries, table, mounts)
    BY StoreOfGood DEF Known, IInv
  <2>2. Closed(entries, mounts) /\ mounts \in Seq(MountRecord)
    BY <2>1, StoreClosed DEF GoodStore
  <2>3. \A x \in DOMAIN entries : entries[x].node \in DOMAIN nodes
    BY <2>1 DEF GoodStore, GoodEntries, GoodEntry
  <2>4. \A x \in DOMAIN entries : ns2[entries[x].node].mount \in DOMAIN mounts
    BY <2>3 DEF Known, IInv, Good, GoodNodes, GoodNode, WithRoot
  <2>5. ns2[d] = nodes[d]
    BY DEF WithRoot
  <2>6. ~NameOnDisk(ns2, mounts, d, Seg) /\ ns2[r.node].kind = "Directory"
    BY <1>7, <2>5 DEF NameOnDisk, WithRoot
  <2>7. ms2 = Append(mounts, [fs |-> call.arg, root |-> e])
    BY SMTT(30)
  <2>8. ~NameOnDisk(ns2, mounts, entries[Top].node, Seg)
    BY <2>6
  <2> HIDE DEF MountRecord, ms2, d
  <2>9. Mounting(ns2, entries, table, mounts, Top, Seg, e, r, es2, tb2, call.arg, ms2)
    BY <1>7, <2>2, <2>4, <2>6, <2>7, <2>8 DEF Mounting
  <2> QED
    BY <2>9, MountTrue
<1> HIDE DEF ms2
<1> /\ TrueStore(nodes', entries', table', mounts')
    /\ TreeOf(nodes', mounts') = TreeOf(ns2, ms2)
    /\ RootOf(entries', mounts') = RootOf(es2, ms2)
    /\ PointsOf(entries', mounts') = PointsOf(es2, ms2)
    /\ FilesOf(nodes', files') = FilesOf(ns2, files)
  <2>1. held \subseteq DOMAIN es2 /\ \A m \in DOMAIN mounts : mounts[m].root \in DOMAIN es2
    BY DEF Known, IInv, Good, GoodRefs, WithEntry
  <2>2. \A x \in DOMAIN es2 : es2[x].chain \subseteq DOMAIN es2
    BY DEF WithEntry
  <2>3. \A m \in DOMAIN ms2 : ms2[m].root \in DOMAIN es2
    BY <2>1 DEF WithMount, WithEntry
  <2>4. \A i \in DOMAIN <<>> : <<>>[i] \in DOMAIN es2
    BY SMTT(30)
  <2> QED
    BY <1>11, <2>1, <2>2, <2>3, <2>4, SettleTrue
<1>13. TreeOf(nodes', mounts')
         = FileTree!Extend(TreeOf(nodes, mounts), n, FileTree!NewNode("Directory", call.arg))
  BY MountTree
<1>14. PointsOf(entries', mounts') = FileTree!Extend(PointsOf(entries, mounts), <<d, Seg>>, n)
  <2>1. PointsOf(es2, ms2)
          = FileTree!Extend(PointsOf(entries, mounts), <<entries[Top].node, Seg>>, n)
    BY SMTT(30), MountPoints
  <2> QED
    BY <2>1
<1>15. RootOf(entries', mounts') = RootOf(entries, mounts)
  <2> 1 \in DOMAIN mounts /\ mounts[1].root \in DOMAIN entries
    <3>1. mounts \in Seq(MountRecord) /\ mounts # <<>>
      BY DEF Known, IInv, Good, GoodRefs
    <3>2. 1 \in DOMAIN mounts
      BY ONLY SMTT(30), <3>1
    <3> QED
      BY <3>2 DEF Known, IInv, Good, GoodRefs
  <2>2. ms2[1] = mounts[1] /\ ms2 # <<>>
    <3>1. 1 \in DOMAIN ms2
      BY DEF WithMount
    <3>2. ms2 # <<>>
      BY SMTT(30), <3>1
    <3> QED
      BY <3>2 DEF WithMount
  <2>3. es2[mounts[1].root] = entries[mounts[1].root]
    BY DEF WithEntry
  <2> QED
    BY <2>2, <2>3 DEF RootOf
<1>16. FilesOf(nodes', files') = FilesOf(nodes, files)
  <2>1. KeptNodes(nodes, ns2)
    BY DEF WithRoot, KeptNodes
  <2> QED
    BY <2>1, KeptFiles
<1>17. FileTree!Ok
  BY SameCalls DEF FileTree!Ok
<1>18. FileTree!Create(call, d, Seg)
  BY <1>13, <1>14, <1>15, <1>16, <1>17 DEF FileTree!Create
<1> QED
  BY <1>18, EndTrue, InDirectory DEF Abstract

(* Before the first mount there is nothing.                                *)
LEMMA NothingYet ==
  ASSUME Known, mounts = <<>>
  PROVE  DOMAIN nodes = {} /\ DOMAIN entries = {} /\ DOMAIN mounts = {} /\ Len(mounts) = 0
<1> DOMAIN mounts = {} /\ Len(mounts) = 0
  BY SMTT(30)
<1> DOMAIN nodes = {}
  BY DEF Known, IInv, Good, GoodNodes, GoodNode
<1> DOMAIN entries = {}
  BY DEF Known, IInv, Good, GoodEntries, GoodEntry
<1> QED
  OBVIOUS

\* A store with one node, one entry and one mount.
FirstMount(ns2, es2, ms2, n, e, fs) ==
  /\ WithRoot(ns2, n) /\ WithMount(ms2, fs, e)
  /\ DOMAIN es2 = {e} /\ es2[e].chain = {} /\ es2[e].parent = NULL
  /\ es2[e].node = n /\ es2[e].name = "/"

LEMMA FirstTrue ==
  ASSUME Known, mounts = <<>>, NEW ns2, NEW es2, NEW ms2, NEW n, NEW e, NEW fs,
         FirstMount(ns2, es2, ms2, n, e, fs), \A k \in DOMAIN table : table[k] # e
  PROVE  TrueStore(ns2, es2, Extend(table, <<NULL, "/">>, e), ms2)
<1> DEFINE tb2 == Extend(table, <<NULL, "/">>, e)
<1> DOMAIN ms2 = {1} /\ ms2[1].root = e
  <2> Len(mounts) + 1 = 1 /\ DOMAIN mounts = {}
    BY SMTT(30)
  <2> QED
    BY DEF FirstMount, WithMount
<1> GoodMounts(ns2, es2, ms2)
  BY DEF GoodMounts, GoodMount, FirstMount, WithRoot
<1> ASSUME NEW k \in DOMAIN tb2, tb2[k] \in DOMAIN es2
    PROVE  k = <<es2[tb2[k]].parent, es2[tb2[k]].name>>
  <2> tb2[k] = e
    BY DEF FirstMount
  <2> k = <<NULL, "/">>
    BY DEF Extend
  <2> QED
    BY DEF FirstMount
<1> QED
  BY DEF TrueStore, TrueCache, TrueKey, FirstMount

LEMMA FirstPoints ==
  ASSUME Known, mounts = <<>>, NEW ns2, NEW es2, NEW ms2, NEW n, NEW e, NEW fs,
         FirstMount(ns2, es2, ms2, n, e, fs)
  PROVE  /\ RootOf(es2, ms2) = n /\ PointsOf(es2, ms2) = PointsOf(entries, mounts)
<1> Len(ms2) = 1 /\ Len(mounts) = 0 /\ 1 \in DOMAIN ms2 /\ ms2[1].root = e
  <2> Len(mounts) + 1 = 1 /\ Len(mounts) = 0
    BY SMTT(30)
  <2> QED
    BY DEF FirstMount, WithMount
<1> ms2 # <<>>
  BY SMTT(30)
<1> RootOf(es2, ms2) = n
  BY DEF RootOf, FirstMount
<1> 2..Len(ms2) = {} /\ 2..Len(mounts) = {}
  BY SMTT(30)
<1>5. DOMAIN PointsOf(es2, ms2) = {} /\ DOMAIN PointsOf(entries, mounts) = {}
  BY DEF PointsOf
<1> PointsOf(es2, ms2) = PointsOf(entries, mounts)
  BY SMTT(30) DEF PointsOf
<1> QED
  OBVIOUS

LEMMA MountRootTrue ==
  ASSUME Known, IInv', TInv, NEW c \in Calls, MountRoot(c)
  PROVE  TInv' /\ Abstract
<1> DEFINE n == FreshNode
           e == FreshEntry
           r == NewEntry(NULL, n, "/")
           ns2 == Extend(nodes, n, RootNode(Len(mounts) + 1))
           es2 == Extend(entries, e, r)
           tb2 == Extend(table, <<NULL, "/">>, e)
           ms2 == Append(mounts, [fs |-> c.arg, root |-> e])
<1> /\ walk = "none" /\ panic = "none" /\ c.op = "mount" /\ ~UnknownType(c)
    /\ IsRootPath(c.path) /\ ~HasRoot /\ Room(c)
    /\ table' = tb2 /\ walk' = "none" /\ ret' = Result("ok")
    /\ panic' = panic /\ next_fd' = next_fd
    /\ Settle(ns2, es2, ms2, files, held, stack)
  BY DEF MountRoot, Idle, Running
<1> mounts = <<>> /\ c.arg \in FileSystemTypes
  BY RootEntry DEF UnknownType
<1> DOMAIN nodes = {} /\ DOMAIN entries = {} /\ DOMAIN mounts = {}
  BY NothingYet
<1>4. n \in 1..MaxNodes /\ n \notin DOMAIN nodes
  <2>1. Cardinality(DOMAIN nodes) + 1 < MaxNodes
    BY DEF Room
  <2>2. Cardinality(DOMAIN nodes) < MaxNodes
    BY SMTT(30), <2>1, NodeCount
  <2> QED
    BY <2>2, FreshNodeFits
<1>5. e \in Nat /\ \A k \in DOMAIN table : table[k] # e
  BY NewIds, FreshNotInTable
<1>6. r.chain = {} /\ r.parent = NULL /\ r.node = n /\ r.name = "/"
  BY SMTT(30) DEF NewEntry
<1> HIDE DEF n, e, r
<1> WithRoot(ns2, n) /\ WithMount(ms2, c.arg, e)
  BY <1>4, <1>5, ExtendRoot, AppendMount
<1> DOMAIN es2 = {e} /\ es2[e] = r
  <2>1. DOMAIN es2 = DOMAIN entries \cup {e} /\ es2[e] = r
    BY DEF Extend
  <2> QED
    BY <2>1
<1> HIDE DEF ns2, es2, ms2
<1>9. FirstMount(ns2, es2, ms2, n, e, c.arg)
  BY <1>6 DEF FirstMount
<1>10. TrueStore(ns2, es2, tb2, ms2)
  BY <1>5, <1>9, FirstTrue
<1> HIDE DEF tb2
<1> /\ TrueStore(nodes', entries', table', mounts')
    /\ TreeOf(nodes', mounts') = TreeOf(ns2, ms2)
    /\ RootOf(entries', mounts') = RootOf(es2, ms2)
    /\ PointsOf(entries', mounts') = PointsOf(es2, ms2)
    /\ FilesOf(nodes', files') = FilesOf(ns2, files)
  <2>1. held \subseteq DOMAIN es2 /\ \A i \in DOMAIN stack : stack[i] \in DOMAIN es2
    BY DEF Known, IInv, Good, GoodRefs
  <2>2. \A x \in DOMAIN es2 : es2[x].chain \subseteq DOMAIN es2
    BY <1>6
  <2>3. \A m \in DOMAIN ms2 : ms2[m].root \in DOMAIN es2
    BY DEF WithMount
  <2> QED
    BY <1>10, <2>1, <2>2, <2>3, SettleTrue
<1>12. TreeOf(nodes', mounts')
         = FileTree!Extend(TreeOf(nodes, mounts), n, FileTree!NewNode("Directory", c.arg))
  BY MountTree
<1>13. RootOf(entries', mounts') = n /\ PointsOf(entries', mounts') = PointsOf(entries, mounts)
  BY <1>9, FirstPoints
<1>14. FilesOf(nodes', files') = FilesOf(nodes, files)
  <2>1. KeptNodes(nodes, ns2)
    BY DEF WithRoot, KeptNodes
  <2> QED
    BY <2>1, KeptFiles
<1>15. n \in (1..MaxNodes) \ DOMAIN TreeOf(nodes, mounts)
  BY <1>4 DEF TreeOf, TreeNodes
<1>16. RootOf(entries, mounts) = FileTree!NoNode
  BY DEF RootOf, NULL, FileTree!NoNode
<1>17. FileTree!Ok
  BY SameCalls DEF FileTree!Ok
<1>18. FileTree!MountRoot(c)
  BY <1>12, <1>13, <1>14, <1>15, <1>16, <1>17 DEF FileTree!MountRoot
<1>19. FileTree!Call(c)
  BY <1>18, SameCalls DEF FileTree!Call, FileTree!Absolute, IsRootPath
<1> QED
  BY <1>19, EndTrue DEF Abstract, FileTree!Next

-----------------------------------------------------------------------------
(* The results.                                                            *)

LEMMA StepTrue ==
  ASSUME Known, IInv', TInv, Step
  PROVE  TInv' /\ Abstract
<1> CASE WalkNotADirectory \/ WalkDot \/ WalkDotDot \/ ParentWalkDots \/ WalkMount
  BY WalkNotADirectoryTrue, WalkDotTrue, WalkDotDotTrue, ParentWalkDotsTrue,
     WalkMountTrue
<1> CASE WalkCached \/ WalkLookup \/ WalkMissing \/ ParentMissing \/ NotFound
  BY WalkCachedTrue, WalkLookupTrue, WalkMissingTrue, ParentMissingTrue, NotFoundTrue
<1> CASE StartParentWalk \/ StatFound \/ ReadFile \/ ReadDirectory \/ OpenDirectory
  BY StartParentWalkTrue, StatFoundTrue, ReadFileTrue, ReadDirectoryTrue,
     OpenDirectoryTrue
<1> CASE OpenFound \/ CreateUnsupported \/ CreateFile
  BY OpenFoundTrue, CreateUnsupportedTrue, CreateFileTrue
<1> CASE MkdirExists \/ CreateDirectory \/ MountOver \/ MountAt
  BY MkdirExistsTrue, CreateDirectoryTrue, MountOverTrue, MountAtTrue
<1> QED
  BY DEF Step

LEMMA CallerTrue ==
  ASSUME Known, IInv', TInv, Caller
  PROVE  TInv' /\ Abstract
<1> ASSUME NEW c \in Calls, Reject(c) \/ RelativePath(c) \/ MountRoot(c) \/ Begin(c)
    PROVE  TInv' /\ Abstract
  BY RejectTrue, RelativePathTrue, MountRootTrue, BeginTrue
<1> ASSUME NEW fd \in 1..MaxFd,
           \/ BadDescriptor(fd) \/ Close(fd) \/ DirectoryIo(fd)
           \/ WrongMode(fd, "Read") \/ WrongMode(fd, "Write") \/ DeviceUnsupported(fd)
    PROVE  TInv' /\ Abstract
  BY BadDescriptorTrue, CloseTrue, DirectoryIoTrue, WrongModeTrue, DeviceUnsupportedTrue
<1> ASSUME NEW fd \in 1..MaxFd, NEW k \in ReadSizes, Read(fd, k)
    PROVE  TInv' /\ Abstract
  BY ReadTrue
<1> ASSUME NEW fd \in 1..MaxFd, NEW b \in Buffers, Write(fd, b)
    PROVE  TInv' /\ Abstract
  BY WriteTrue
<1> ASSUME NEW e \in held, DropEntry(e)
    PROVE  TInv' /\ Abstract
  BY DropEntryTrue
<1> CASE Prune
  BY PruneTrue
<1> QED
  BY ZenonT(40) DEF Caller

LEMMA NextTrue ==
  ASSUME IInv, TInv, [Next]_vars
  PROVE  IInv' /\ TInv' /\ Abstract
<1> IInv' /\ Known
  BY NextKeeps, KnownAlways
<1> QED
  BY StepTrue, CallerTrue, NothingTrue DEF Next, Hang

LEMMA InitTrue ==
  ASSUME Init
  PROVE  TInv /\ FileTree!Init
<1> DOMAIN Empty = {} /\ DOMAIN <<>> = {} /\ Len(<<>>) = 0 /\ 2..0 = {}
  BY SMTT(30) DEF Empty
<1> TInv
  BY DEF Init, TInv, TrueStore, TrueCache, GoodMounts, TrueWalk, RoomLeft
<1> TreeNodes(nodes) = {}
  BY DEF Init, TreeNodes
<1> TreeOf(nodes, mounts) = Empty
  BY SMTT(30) DEF TreeOf, Empty
<1> 2..Len(mounts) = {} /\ DOMAIN files = {}
  BY DEF Init
<1> PointsOf(entries, mounts) = Empty
  BY SMTT(30) DEF PointsOf, Empty
<1> FilesOf(nodes, files) = Empty
  BY SMTT(30) DEF FilesOf, Empty
<1> RootOf(entries, mounts) = FileTree!NoNode
  BY DEF Init, RootOf, NULL, FileTree!NoNode
<1> QED
  BY SameCalls DEF Init, FileTree!Init

(* The invariants: of the store and the walk, and what they mean together. *)
THEOREM TrueInvariant == Spec => [](IInv /\ TInv)
<1> Init => IInv /\ TInv
  BY InitGood, InitTrue
<1> (IInv /\ TInv) /\ [Next]_vars => (IInv /\ TInv)'
  BY NextTrue
<1> QED
  BY PTL DEF Spec

(* DirectoryCache and MountTable: at every moment a live entry is a mount, *)
(* whose name the directory below does not have, or what ramfs or devfs    *)
(* would find under its name, for any calls, paths, drops and prunes.      *)
THEOREM CacheTrue == Spec => []CacheMatchesDisk
<1> IInv /\ TInv => CacheMatchesDisk
  <2> SUFFICES ASSUME IInv, TInv, NEW e \in DOMAIN entries, entries[e].parent # NULL
               PROVE  LET p == entries[e].parent
                          name == entries[e].name
                      IN IF \E m \in DOMAIN mounts : mounts[m].root = e THEN ~OnDisk(p, name)
                         ELSE /\ OnDisk(p, name)
                              /\ IF FileSystemOf(entries[p].node) = "ramfs"
                                 THEN entries[e].node = NodeOf(p).kids[name]
                                 ELSE NodeOf(e).device = name
    BY DEF CacheMatchesDisk
  <2> DEFINE p == entries[e].parent
             name == entries[e].name
  <2> TrueEntry(nodes, entries, mounts, e)
    BY DEF TInv, TrueStore, TrueCache
  <2> OnDisk(p, name) <=> NameOnDisk(nodes, mounts, entries[p].node, name)
    BY OnDiskIs
  <2> QED
    BY DEF TrueEntry, IsMountRoot, FileSystemOf, NodeOf
<1> QED
  BY TrueInvariant, PTL

(* open, create_directory and mount: what resolve_path did not find, the   *)
(* walk of resolve_path_parent_directory leads to, so that the name about  *)
(* to be created is free on disk, in the cache and in the mount table.     *)
THEOREM NamesAreFree == Spec => []CreatesFreeNames
<1> IInv /\ TInv => CreatesFreeNames
  <2> SUFFICES ASSUME IInv, TInv, AtParent
               PROVE  ~Cached(Top, Seg) /\ ~OnDisk(Top, Seg) /\ MountsAt(Top, Seg) = {}
    BY DEF CreatesFreeNames
  <2> Known
    BY KnownAlways
  <2> QED
    BY ParentFree, OnDiskIs
<1> QED
  BY TrueInvariant, PTL

(* The virtual file system implements a tree of files without a cache: for *)
(* any calls on any paths, any mounts, drops and prunes, every call has    *)
(* the effect and the result it has on the tree, at its last step, and no  *)
(* other step changes what a caller can see.                               *)
THEOREM Refines == Spec => ImplementsFileTree
<1> Init => FileTree!Init
  BY InitTrue
<1> (IInv /\ TInv) /\ [Next]_vars => [FileTree!Next]_FileTree!vars
  BY NextTrue DEF Abstract
<1> QED
  BY TrueInvariant, PTL DEF Spec, ImplementsFileTree, FileTree!Spec

(* A step panics at an assertion only if a directory that was opened is    *)
(* read or written: DirectoryCache::insert's assertion "attempted to       *)
(* re-insert existing entry" never fires.                                  *)
OnlyDirectoryIoAsserts ==
  [][panic' = "assert" /\ panic # "assert" => \E fd \in 1..MaxFd : DirectoryIo(fd)]_vars

LEMMA StepAsserts ==
  ASSUME Known, TInv, Step
  PROVE  panic' # "assert" \/ panic = "assert"
<1> CASE AtParent
  <2> ~Cached(Top, Seg)
    BY ParentFree
  <2> panic' = panic \/ panic' = "todo"
    BY DEF Step, WalkNotADirectory, WalkDot, WalkDotDot, ParentWalkDots, WalkMount,
       WalkCached, WalkLookup, WalkMissing, ParentMissing, NotFound, StartParentWalk,
       StatFound, ReadFile, ReadDirectory, OpenDirectory, OpenFound, CreateUnsupported,
       CreateFile, MkdirExists, CreateDirectory, MountOver, MountAt, Fail, Return, Panic
  <2> QED
    BY SMTT(30)
<1> CASE ~AtParent
  <2> panic' = panic \/ panic' = "todo"
    BY DEF Step, WalkNotADirectory, WalkDot, WalkDotDot, ParentWalkDots, WalkMount,
       WalkCached, WalkLookup, WalkMissing, ParentMissing, NotFound, StartParentWalk,
       StatFound, ReadFile, ReadDirectory, OpenDirectory, OpenFound, CreateUnsupported,
       CreateFile, MkdirExists, CreateDirectory, MountOver, MountAt, Fail, Return, Panic
  <2> QED
    BY SMTT(30)
<1> QED
  OBVIOUS

LEMMA CallerAsserts ==
  ASSUME Caller
  PROVE  panic' # "assert" \/ panic = "assert" \/ \E fd \in 1..MaxFd : DirectoryIo(fd)
<1> panic' = panic \/ panic' = "todo" \/ \E fd \in 1..MaxFd : DirectoryIo(fd)
  BY ZenonT(40) DEF Caller, Reject, RelativePath, MountRoot, Begin, BadDescriptor,
     Close, WrongMode, DeviceUnsupported, Read, Write, DropEntry, Prune, OnFile, Panic
<1> QED
  BY SMTT(30)

(* Vfs's assertions: only those of read and write, on a directory.         *)
THEOREM InsertNeverAsserts == Spec => OnlyDirectoryIoAsserts
<1> (IInv /\ TInv) /\ [Next]_vars
      => [panic' = "assert" /\ panic # "assert" => \E fd \in 1..MaxFd : DirectoryIo(fd)]_vars
  <2> SUFFICES ASSUME IInv, TInv, Next, panic' = "assert", panic # "assert"
               PROVE  \E fd \in 1..MaxFd : DirectoryIo(fd)
    OBVIOUS
  <2> ~Hang /\ Known
    BY KnownAlways DEF Hang, vars
  <2> QED
    BY StepAsserts, CallerAsserts DEF Next
<1> QED
  BY TrueInvariant, PTL DEF Spec, OnlyDirectoryIoAsserts

=============================================================================
