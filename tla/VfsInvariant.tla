---------------------------- MODULE VfsInvariant ----------------------------
(***************************************************************************)
(* The inductive invariant of Vfs.  Its parts are predicates of the        *)
(* objects, so that they can be stated of the arguments of Settle, before  *)
(* the objects that nothing refers to are dropped.                         *)
(***************************************************************************)
EXTENDS Vfs

NodeFields == {"mount", "kind", "device", "links", "size", "data", "kids"}

FilesOn(fs, n) == {f \in DOMAIN fs : fs[f].node = n}

\* Nothing that a directory holds is a device: so no node of a directory is
\* dropped while its name remains.
GoodNode(ns, ms, fs, n) ==
  /\ DOMAIN ns[n] = NodeFields
  /\ ns[n].mount \in DOMAIN ms
  /\ ns[n].kind \in {"Directory", "File", "CharDevice"}
  /\ ns[n].data \in Seq(Nat)
  /\ ns[n].links = 1 + Cardinality(FilesOn(fs, n))
  /\ \A x \in DOMAIN ns[n].kids :
       ns[n].kids[x] \in DOMAIN ns /\ ns[ns[n].kids[x]].kind # "CharDevice"

GoodNodes(ns, ms, fs) ==
  /\ DOMAIN ns \subseteq Nat \ {NULL} /\ IsFiniteSet(DOMAIN ns)
  /\ \A n \in DOMAIN ns : GoodNode(ns, ms, fs, n)

\* chain holds the ancestors: with an entry, all of them are kept.
GoodEntry(ns, es, tb, e) ==
  /\ es[e].node \in DOMAIN ns
  /\ es[e].parent = NULL \/ es[e].parent \in es[e].chain
  /\ es[e].chain \subseteq DOMAIN es
  /\ \A a \in es[e].chain : es[a].chain \subseteq es[e].chain
  /\ <<es[e].parent, es[e].name>> \in DOMAIN tb
  /\ tb[<<es[e].parent, es[e].name>>] = e

GoodEntries(ns, es, tb) ==
  /\ DOMAIN es \subseteq Nat \ {NULL} /\ IsFiniteSet(DOMAIN es)
  /\ \A e \in DOMAIN es : GoodEntry(ns, es, tb, e)

\* The key of the root is in the table exactly when something is mounted.
RootKey == <<NULL, "/">>

GoodTable(tb, ms) ==
  /\ IsFiniteSet(DOMAIN tb)
  /\ RootKey \in DOMAIN tb <=> ms # <<>>
  /\ ms # <<>> => tb[RootKey] = ms[1].root

GoodFile(ns, fs, nf, f) ==
  /\ DOMAIN fs[f] = {"node", "mode", "pos"}
  /\ f \in Nat /\ f < nf
  /\ fs[f].node \in DOMAIN ns
  /\ fs[f].pos \in Nat
  /\ ns[fs[f].node].kind = "File" => fs[f].pos =< Len(ns[fs[f].node].data)

GoodFiles(ns, fs, nf) ==
  /\ nf \in Nat /\ IsFiniteSet(DOMAIN fs)
  /\ \A f \in DOMAIN fs : GoodFile(ns, fs, nf, f)

MountRecord == [fs : FileSystemTypes, root : Nat]

GoodRefs(es, ms, hs, st) ==
  /\ ms \in Seq(MountRecord)
  /\ \A m \in DOMAIN ms : ms[m].root \in DOMAIN es
  /\ hs \subseteq DOMAIN es
  /\ st \in Seq(Nat) /\ \A i \in DOMAIN st : st[i] \in DOMAIN es

\* A node has one name at most and one entry at most, and the entry of a node
\* that has a name stands under that name in the entry of its directory.
Tidy(ns, es) ==
  /\ \A c, d \in DOMAIN ns : \A x \in DOMAIN ns[c].kids, y \in DOMAIN ns[d].kids :
       ns[c].kids[x] = ns[d].kids[y] => c = d /\ x = y
  /\ \A e, f \in DOMAIN es : es[e].node = es[f].node => e = f
  /\ \A e \in DOMAIN es, d \in DOMAIN ns : \A x \in DOMAIN ns[d].kids :
       ns[d].kids[x] = es[e].node =>
         es[e].parent \in DOMAIN es /\ es[es[e].parent].node = d /\ es[e].name = x

Good(ns, es, tb, ms, fs, hs, st, nf) ==
  /\ GoodNodes(ns, ms, fs)
  /\ Tidy(ns, es)
  /\ GoodEntries(ns, es, tb)
  /\ GoodTable(tb, ms)
  /\ GoodFiles(ns, fs, nf)
  /\ GoodRefs(es, ms, hs, st)

\* Where a call in progress is.
GoodControl ==
  /\ walk \in Walks /\ panic \in {"none", "todo", "assert"}
  /\ walk # "none" => mounts # <<>>
  /\ walk \in {"resolve", "parent"} => stack # <<>>
  /\ walk # "none" /\ call.op = "mount" => call.arg \in FileSystemTypes

IInv == Good(nodes, entries, table, mounts, files, held, stack, next_fd) /\ GoodControl

\* What is referred to, and so not dropped.
Pins(ms, hs, st) == {ms[m].root : m \in DOMAIN ms} \cup hs \cup Range(st)
Live(es, ms, hs, st) ==
  Pins(ms, hs, st) \cup UNION {es[e].chain : e \in Pins(ms, hs, st)}
Used(ns, es, fs, live) ==
  {n \in DOMAIN ns : ns[n].kind # "CharDevice"
                       \/ n \in {es[e].node : e \in live} \cup {fs[f].node : f \in DOMAIN fs}}

\* The ids that are chosen for a new node and a new entry are new.
NewIdsFresh ==
  /\ FreshNode \in Nat \ {NULL} /\ FreshNode \notin DOMAIN nodes
  /\ FreshEntry \in Nat \ {NULL} /\ FreshEntry \notin DOMAIN entries
  /\ \A k \in DOMAIN table : table[k] # FreshEntry

\* While there are fewer nodes than MaxNodes, the id chosen is one of the ids up
\* to MaxNodes; and fewer nodes are fewer in number.
NodesCounted ==
  LET k == Cardinality(DOMAIN nodes)
  IN /\ k \in Nat /\ MaxNodes \in Nat
     /\ k < MaxNodes => FreshNode \in 1..MaxNodes
     /\ \A S \in SUBSET DOMAIN nodes : Cardinality(S) \in Nat /\ Cardinality(S) =< k
     /\ \A x : \A S \in SUBSET (DOMAIN nodes \cup {x}) :
          Cardinality(S) \in Nat /\ Cardinality(S) =< k + 1

\* resolve_path's first mount is one of the mounts.
FirstMountIn ==
  \A e, name : MountsAt(e, name) # {} => Min(MountsAt(e, name)) \in MountsAt(e, name)

\* A set of naturals that holds 0 and every successor of its members is all of them:
\* the form of induction that the proofs about the walks of FileTree use.
InductionHolds ==
  \A S : 0 \in S /\ (\A n \in Nat : n \in S => n + 1 \in S) => \A n \in Nat : n \in S

=============================================================================
