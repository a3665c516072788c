--------------------------- MODULE VfsTree_proofs ---------------------------
(***************************************************************************)
(* What it means for the directory cache to tell the truth, and what the   *)
(* nodes, entries and mounts of Vfs are for FileTree: its tree, its walks, *)
(* its calls; and the calls that take no path.                             *)
(***************************************************************************)
EXTENDS VfsRefinement, VfsInvariant, TLAPS

\* A walk of FileTree starts at the root and takes one segment after another.
StepByStep(t, pts, r, mode, path) ==
  LET w == FileTree!Walk(t, pts, r, mode, path)
  IN /\ w[0] = <<FileTree!Node(r)>>
     /\ \A i \in 0..Len(path) :
          i < Len(path) =>
            w[i + 1] = FileTree!WalkSegment(t, pts, mode, w[i], path[i + 1])

\* The invariant with what follows from it by counting, and induction (KnownAlways
\* in VfsRefinement_proofs): what the proofs about the tree start from.
Known == IInv /\ NewIdsFresh /\ NodesCounted /\ FirstMountIn /\ InductionHolds

NameOnDisk(ns, ms, d, name) ==
  IF ms[ns[d].mount].fs = "ramfs" THEN name \in DOMAIN ns[d].kids ELSE name \in Devices

IsMountRoot(ms, e) == \E m \in DOMAIN ms : ms[m].root = e

\* CacheMatchesDisk for one entry; what devfs gives is a device.
TrueEntry(ns, es, ms, e) ==
  LET d == es[es[e].parent].node
      name == es[e].name
  IN IF IsMountRoot(ms, e) THEN ~NameOnDisk(ns, ms, d, name)
     ELSE /\ NameOnDisk(ns, ms, d, name)
          /\ IF ms[ns[d].mount].fs = "ramfs" THEN es[e].node = ns[d].kids[name]
             ELSE /\ ns[es[e].node].kind = "CharDevice"
                  /\ ns[es[e].node].device = name

\* A key of the table whose entry is alive is that entry's own.
TrueKey(es, tb, k) ==
  tb[k] \in DOMAIN es => k = <<es[tb[k]].parent, es[tb[k]].name>>

TrueCache(ns, es, tb, ms) ==
  /\ \A e \in DOMAIN es : es[e].parent # NULL => TrueEntry(ns, es, ms, e)
  /\ \A k \in DOMAIN tb : TrueKey(es, tb, k)

\* The first mount alone has no parent, and every mount has a root of its own.
GoodMount(ns, es, ms, m) ==
  /\ ns[es[ms[m].root].node].kind = "Directory"
  /\ es[ms[m].root].parent = NULL <=> m = 1
  /\ \A k \in DOMAIN ms : ms[k].root = ms[m].root => k = m

GoodMounts(ns, es, ms) == \A m \in DOMAIN ms : GoodMount(ns, es, ms, m)

TrueStore(ns, es, tb, ms) == TrueCache(ns, es, tb, ms) /\ GoodMounts(ns, es, ms)

\* The places an abstract walk passes, and the places on the resolution stack.
Passed(ns, es, ms, mode, path) ==
  FileTree!Walk(TreeOf(ns, ms), PointsOf(es, ms), RootOf(es, ms), mode, path.segs)
Places(ns, es, st) == [i \in 1..Len(st) |-> PlaceOf(ns, es[st[i]].node)]

\* Where the walk is: the segments that are left, and what the stack stands for.
At(ns, es, ms, st, mode, path, rest) ==
  \E c \in 0..Len(path.segs) :
    /\ rest = SubSeq(path.segs, c + 1, Len(path.segs))
    /\ Passed(ns, es, ms, mode, path)[c] = Places(ns, es, st)

Absent(ns, es, ms, path) ==
  FileTree!End(Passed(ns, es, ms, "resolve", path)[Len(path.segs)]) = FileTree!Missing

TrueWalk ==
  walk # "none" =>
    /\ call \in Calls /\ call.path.kind = "absolute" /\ ~UnknownType(call)
    /\ ~(call.op = "mount" /\ IsRootPath(call.path))
    /\ walk \in {"resolve", "parent"} =>
         At(nodes, entries, mounts, stack, walk, call.path, segs)
    /\ walk = "parent" => Creates(call) /\ segs # <<>>
    /\ walk \in {"missing", "parent"} => Absent(nodes, entries, mounts, call.path)

\* A walk that has made the node of a device cannot go on to make another.
RoomLeft ==
  walk # "none" =>
    \/ Cardinality(DOMAIN nodes) + 1 < MaxNodes
    \/ /\ walk \in {"resolve", "parent"} /\ ~IsDirectory(Top)
       /\ Cardinality(DOMAIN nodes) < MaxNodes

TInv == TrueStore(nodes, entries, table, mounts) /\ TrueWalk /\ RoomLeft

-----------------------------------------------------------------------------
(* Numbers, finite sets and stacks.                                        *)

USE SMTT(30)

(* What the last operations on a stack leave on it.                        *)
LEMMA Pushed ==
  ASSUME NEW S, NEW st \in Seq(Nat), \A i \in DOMAIN st : st[i] \in S, NEW e \in Nat
  PROVE  /\ Append(st, e) \in Seq(Nat) /\ Append(st, e) # <<>>
         /\ \A i \in DOMAIN Append(st, e) : Append(st, e)[i] \in S \cup {e}
<1> Append(st, e) \in Seq(Nat) /\ Len(Append(st, e)) = Len(st) + 1
  OBVIOUS
<1> Append(st, e) # <<>>
  OBVIOUS
<1> QED
  OBVIOUS

LEMMA Popped ==
  ASSUME NEW S, NEW st \in Seq(Nat), \A i \in DOMAIN st : st[i] \in S, Len(st) > 1
  PROVE  LET s2 == SubSeq(st, 1, Len(st) - 1)
         IN s2 \in Seq(Nat) /\ s2 # <<>> /\ \A i \in DOMAIN s2 : s2[i] \in S
<1> DEFINE s2 == SubSeq(st, 1, Len(st) - 1)
<1> Len(st) \in Nat /\ DOMAIN st = 1..Len(st) /\ \A i \in 1..Len(st) : st[i] \in Nat
  OBVIOUS
<1> s2 = [i \in 1..(Len(st) - 1) |-> st[i]]
  OBVIOUS
<1> DOMAIN s2 = 1..(Len(st) - 1) /\ \A i \in 1..(Len(st) - 1) : s2[i] = st[i]
  OBVIOUS
<1> Len(s2) = Len(st) - 1 /\ s2 \in Seq(Nat)
  OBVIOUS
<1> HIDE DEF s2
<1> s2 # <<>>
  OBVIOUS
<1> \A i \in DOMAIN s2 : s2[i] \in S
  BY SMTT(20)
<1> QED
  BY DEF s2

-----------------------------------------------------------------------------
(* The invariant of the objects, in one state.                             *)

LEMMA TopThere ==
  ASSUME Known, walk \in {"resolve", "parent"}
  PROVE  /\ stack \in Seq(Nat) /\ stack # <<>>
         /\ Top \in DOMAIN entries /\ Top # NULL
         /\ entries[Top].node \in DOMAIN nodes
         /\ nodes[entries[Top].node].mount \in DOMAIN mounts
<1> stack \in Seq(Nat) /\ stack # <<>> /\ \A i \in DOMAIN stack : stack[i] \in DOMAIN entries
  BY ZenonT(30) DEF Known, IInv, Good, GoodRefs, GoodControl
<1> Len(stack) \in DOMAIN stack
  OBVIOUS
<1> Top \in DOMAIN entries
  BY DEF Top
<1> Top # NULL /\ entries[Top].node \in DOMAIN nodes
  BY ZenonT(30) DEF Known, IInv, Good, GoodEntries, GoodEntry
<1> QED
  BY ZenonT(30) DEF Known, IInv, Good, GoodNodes, GoodNode

(* Once something is mounted there is a root entry, and before there is    *)
(* none.                                                                   *)
LEMMA RootEntry ==
  ASSUME Known
  PROVE  /\ HasRoot <=> mounts # <<>>
         /\ mounts # <<>> => Root \in DOMAIN entries /\ Root \in Nat
<1> mounts # <<>> => 1 \in DOMAIN mounts
  BY DEF Known, IInv, Good, GoodRefs
<1> mounts # <<>> => mounts[1].root \in DOMAIN entries
  BY ZenonT(30) DEF Known, IInv, Good, GoodRefs
<1> DOMAIN entries \subseteq Nat
  BY DEF Known, IInv, Good, GoodEntries
<1> QED
  BY ZenonT(30) DEF Known, IInv, Good, GoodTable, HasRoot, Root, Cached, RootKey

(* The ids chosen for a new node and a new entry are new.                  *)
LEMMA NewIds ==
  ASSUME Known
  PROVE  /\ FreshNode \in Nat \ {NULL} /\ FreshNode \notin DOMAIN nodes
         /\ FreshEntry \in Nat \ {NULL} /\ FreshEntry \notin DOMAIN entries
BY ZenonT(30) DEF Known, NewIdsFresh

-----------------------------------------------------------------------------
(* The walks of FileTree, by induction.                                    *)

LEMMA SetIsNat ==
  ASSUME Known, NEW S, 0 \in S, \A n \in Nat : n \in S => n + 1 \in S
  PROVE  \A n \in Nat : n \in S
BY ZenonT(30) DEF Known, InductionHolds

(* A walk starts at the root and takes one segment after another.          *)
LEMMA WalkTakesSteps ==
  ASSUME Known, NEW t, NEW pts, NEW r, NEW mode, NEW path \in Seq(STRING)
  PROVE  StepByStep(t, pts, r, mode, path)
<1> DEFINE Segment(v, i) == FileTree!WalkSegment(t, pts, mode, v, path[i])
           Base == <<FileTree!Node(r)>>
           Is(g, n) == g = [i \in 0..n |-> IF i = 0 THEN Base ELSE Segment(g[i - 1], i)]
           S == {n \in Nat : \E g : Is(g, n)}
           w == FileTree!Walk(t, pts, r, mode, path)
<1>1. w = CHOOSE g : Is(g, Len(path))
  BY DEF FileTree!Walk
<1> HIDE DEF Segment, Base, w
<1>2. 0 \in S
  <2>1. Is([i \in 0..0 |-> Base], 0)
    OBVIOUS
  <2> QED
    BY ZenonT(30), <2>1
<1>3. ASSUME NEW n \in Nat, n \in S
      PROVE  n + 1 \in S
  <2>1. PICK g : Is(g, n)
    BY <1>3
  <2> DEFINE h == [i \in 0..(n + 1) |-> IF i = n + 1 THEN Segment(g[n], n + 1) ELSE g[i]]
  <2>2. \A i \in 0..(n + 1) : h[i] = IF i = 0 THEN Base ELSE Segment(h[i - 1], i)
    <3> SUFFICES ASSUME NEW i \in 0..(n + 1)
                 PROVE  h[i] = IF i = 0 THEN Base ELSE Segment(h[i - 1], i)
      OBVIOUS
    <3>1. CASE i = n + 1
      BY <3>1
    <3>2. CASE i # n + 1
      <4>1. i \in 0..n /\ (i # 0 => i - 1 \in 0..n /\ i - 1 # n + 1 /\ i - 1 \in 0..(n + 1))
        BY <3>2
      <4>2. h[i] = g[i] /\ (i # 0 => h[i - 1] = g[i - 1])
        BY <4>1, <3>2
      <4>3. g[i] = IF i = 0 THEN Base ELSE Segment(g[i - 1], i)
        BY <2>1, <4>1
      <4> QED
        BY <4>2, <4>3
    <3> QED
      BY <3>1, <3>2
  <2>3. h = [i \in 0..(n + 1) |-> h[i]]
    OBVIOUS
  <2> HIDE DEF h
  <2>4. Is(h, n + 1)
    BY <2>2, <2>3
  <2> QED
    BY <2>4
<1> HIDE DEF S
<1>4. Len(path) \in Nat /\ Len(path) \in S
  BY <1>2, <1>3, SetIsNat
<1>5. Is(w, Len(path))
  BY <1>1, <1>4 DEF S
<1>6. w[0] = Base
  BY <1>4, <1>5
<1>7. ASSUME NEW i \in 0..Len(path), i < Len(path)
      PROVE  w[i + 1] = Segment(w[i], i + 1)
  <2>1. i + 1 \in 0..Len(path) /\ i + 1 # 0 /\ (i + 1) - 1 = i
    BY <1>4, <1>7
  <2> QED
    BY <2>1, <1>5
<1>8. \A i \in 0..Len(path) : i < Len(path) => w[i + 1] = Segment(w[i], i + 1)
  BY <1>7
<1> QED
  BY ZenonT(30), <1>6, <1>8 DEF w, Segment, Base, StepByStep

LEMMA WalkSteps ==
  ASSUME Known, NEW t, NEW pts, NEW r, NEW mode, NEW path \in Seq(STRING)
  PROVE  LET w == FileTree!Walk(t, pts, r, mode, path)
         IN /\ w[0] = <<FileTree!Node(r)>>
            /\ \A i \in 0..Len(path) :
                 i < Len(path) =>
                   w[i + 1] = FileTree!WalkSegment(t, pts, mode, w[i], path[i + 1])
<1>1. StepByStep(t, pts, r, mode, path)
  BY ZenonT(30), WalkTakesSteps
<1> QED
  BY ONLY ZenonT(30), <1>1 DEF StepByStep

LEMMA LastOfOne ==
  ASSUME NEW x
  PROVE  FileTree!End(<<x>>) = x
BY DEF FileTree!End

(* Where a walk has failed it stays.                                       *)
LEMMA WalkStuck ==
  ASSUME Known, NEW t, NEW pts, NEW r, NEW mode, NEW path \in Seq(STRING),
         NEW w, w = FileTree!Walk(t, pts, r, mode, path),
         NEW i \in 0..Len(path), FileTree!End(w[i]) \in FileTree!Nowhere
  PROVE  \A j \in i..Len(path) : w[j] = w[i]
<1>s. StepByStep(t, pts, r, mode, path)
  BY ZenonT(30), WalkTakesSteps
<1>w. \A k \in 0..Len(path) :
        k < Len(path) => w[k + 1] = FileTree!WalkSegment(t, pts, mode, w[k], path[k + 1])
  BY ZenonT(30), <1>s DEF StepByStep
<1> DEFINE S == {k \in Nat : i + k =< Len(path) => w[i + k] = w[i]}
<1>1. Len(path) \in Nat /\ i \in Nat
  OBVIOUS
<1>2. 0 \in S
  BY <1>1
<1>3. ASSUME NEW k \in Nat, k \in S
      PROVE  k + 1 \in S
  <2> SUFFICES ASSUME i + (k + 1) =< Len(path)
               PROVE  w[i + (k + 1)] = w[i]
    BY <1>3
  <2>1. /\ i + k \in 0..Len(path) /\ i + k < Len(path) /\ i + (k + 1) = (i + k) + 1
        /\ w[i + k] = w[i]
    BY <1>1, <1>3
  <2>2. w[(i + k) + 1] = FileTree!WalkSegment(t, pts, mode, w[i + k], path[(i + k) + 1])
    BY ZenonT(30), <1>w, <2>1
  <2>3. @ = w[i + k]
    BY ZenonT(30), <2>1 DEF FileTree!WalkSegment
  <2> QED
    BY <2>1, <2>2, <2>3
<1> HIDE DEF S
<1>4. \A k \in Nat : k \in S
  BY <1>2, <1>3, SetIsNat
<1>5. ASSUME NEW j \in i..Len(path)
      PROVE  w[j] = w[i]
  <2>1. j - i \in Nat /\ i + (j - i) = j /\ j =< Len(path)
    BY <1>1
  <2>2. j - i \in S
    BY <2>1, <1>4
  <2> QED
    BY <2>1, <2>2 DEF S
<1> QED
  BY <1>5

(* resolve_path_parent_directory passes the places that resolve_path       *)
(* passes, as long as it gets anywhere.                                    *)
LEMMA WalksAgree ==
  ASSUME Known, NEW t, NEW pts, NEW r, NEW path \in Seq(STRING),
         NEW w, w = FileTree!Walk(t, pts, r, "resolve", path),
         NEW v, v = FileTree!Walk(t, pts, r, "parent", path),
         NEW i \in 0..Len(path), FileTree!End(v[i]) \notin FileTree!Nowhere
  PROVE  w[i] = v[i]
<1>w. StepByStep(t, pts, r, "resolve", path) /\ StepByStep(t, pts, r, "parent", path)
  BY ZenonT(30), WalkTakesSteps
<1>s. w[0] = v[0]
  BY ZenonT(30), <1>w DEF StepByStep
<1>r. \A k \in 0..Len(path) :
        k < Len(path) => w[k + 1] = FileTree!WalkSegment(t, pts, "resolve", w[k], path[k + 1])
  BY ZenonT(30), <1>w DEF StepByStep
<1>p. \A k \in 0..Len(path) :
        k < Len(path) => v[k + 1] = FileTree!WalkSegment(t, pts, "parent", v[k], path[k + 1])
  BY ZenonT(30), <1>w DEF StepByStep
<1> DEFINE Agree(k) == FileTree!End(v[k]) \in FileTree!Nowhere \/ w[k] = v[k]
           S == {k \in Nat : k =< Len(path) => Agree(k)}
<1>1. Len(path) \in Nat
  OBVIOUS
<1>2. 0 \in S
  <2>1. Agree(0)
    BY ZenonT(30), <1>s
  <2> QED
    BY ZenonT(30), <2>1, 0 \in Nat
<1>3. ASSUME NEW k \in Nat, k \in S
      PROVE  k + 1 \in S
  <2> SUFFICES ASSUME k + 1 =< Len(path)
               PROVE  Agree(k + 1)
    BY <1>3
  <2>1. k \in 0..Len(path) /\ k < Len(path)
    BY <1>1
  <2>2. w[k + 1] = FileTree!WalkSegment(t, pts, "resolve", w[k], path[k + 1])
    BY ZenonT(30), <1>r, <2>1
  <2>3. v[k + 1] = FileTree!WalkSegment(t, pts, "parent", v[k], path[k + 1])
    BY ZenonT(30), <1>p, <2>1
  <2>4. Agree(k)
    BY <2>1, <1>3
  <2>5. CASE FileTree!End(v[k]) \in FileTree!Nowhere
    <3>1. v[k + 1] = v[k]
      BY ZenonT(30), <2>3, <2>5 DEF FileTree!WalkSegment
    <3> QED
      BY ZenonT(30), <3>1, <2>5
  <2>6. CASE FileTree!End(v[k]) \notin FileTree!Nowhere /\ path[k + 1] \in FileTree!Dots
                /\ FileTree!IsDirIn(t, FileTree!End(v[k]))
    <3>1. v[k + 1] = <<FileTree!Unhandled>>
      BY ZenonT(30), <2>3, <2>6 DEF FileTree!WalkSegment, FileTree!AtDots
    <3>2. FileTree!End(v[k + 1]) = FileTree!Unhandled
      BY ZenonT(30), <3>1, LastOfOne
    <3> QED
      BY ZenonT(30), <3>2 DEF FileTree!Nowhere
  <2>7. CASE FileTree!End(v[k]) \notin FileTree!Nowhere
                /\ ~(path[k + 1] \in FileTree!Dots /\ FileTree!IsDirIn(t, FileTree!End(v[k])))
    <3>1. w[k] = v[k]
      BY <2>4, <2>7
    <3>2. w[k + 1] = FileTree!WalkSegment(t, pts, "resolve", v[k], path[k + 1])
      BY ONLY ZenonT(30), <2>2, <3>1
    <3>3. @ = FileTree!WalkSegment(t, pts, "parent", v[k], path[k + 1])
      BY ONLY ZenonT(30), <2>7 DEF FileTree!WalkSegment
    <3> QED
      BY ZenonT(30), <2>3, <3>2, <3>3
  <2> QED
    BY ZenonT(30), <2>5, <2>6, <2>7
<1> HIDE DEF S, Agree
<1>4. \A k \in Nat : k \in S
  BY ZenonT(30), <1>2, <1>3, SetIsNat
<1>5. i \in S /\ i \in Nat /\ i =< Len(path)
  BY <1>1, <1>4
<1> QED
  BY <1>5 DEF S, Agree

(* The places on the stack: the last one, and when it grows and shrinks.   *)
LEMMA PlacesLength ==
  ASSUME NEW ns, NEW es, NEW st \in Seq(Nat)
  PROVE  Len(Places(ns, es, st)) = Len(st)
<1> DEFINE P(x) == PlaceOf(ns, es[x].node)
<1> HIDE DEF P
<1> Len(st) \in Nat
  OBVIOUS
<1> Len([i \in 1..Len(st) |-> P(st[i])]) = Len(st)
  OBVIOUS
<1> QED
  BY ZenonT(30) DEF Places, P

LEMMA LastPlace ==
  ASSUME NEW ns, NEW es, NEW st \in Seq(Nat), st # <<>>
  PROVE  FileTree!End(Places(ns, es, st)) = PlaceOf(ns, es[st[Len(st)]].node)
<1> Len(st) \in 1..Len(st)
  OBVIOUS
<1> Places(ns, es, st)[Len(st)] = PlaceOf(ns, es[st[Len(st)]].node)
  BY ZenonT(30) DEF Places
<1> QED
  BY ZenonT(30), PlacesLength DEF FileTree!End

LEMMA PushPlace ==
  ASSUME NEW ns, NEW es, NEW st \in Seq(Nat), NEW e \in Nat
  PROVE  Places(ns, es, Append(st, e)) = Append(Places(ns, es, st), PlaceOf(ns, es[e].node))
<1> DEFINE P(x) == PlaceOf(ns, es[x].node)
           L == {P(x) : x \in Nat}
           ps == [i \in 1..Len(st) |-> P(st[i])]
<1> HIDE DEF P
<1> Len(st) \in Nat /\ \A i \in 1..Len(st) : st[i] \in Nat
  OBVIOUS
<1> ps \in Seq(L) /\ Len(ps) = Len(st)
  OBVIOUS
<1> [i \in 1..Len(Append(st, e)) |-> P(Append(st, e)[i])] = Append(ps, P(e))
  OBVIOUS
<1> QED
  BY ZenonT(30) DEF Places, P

LEMMA PopPlace ==
  ASSUME NEW ns, NEW es, NEW st \in Seq(Nat), st # <<>>
  PROVE  Places(ns, es, SubSeq(st, 1, Len(st) - 1)) = FileTree!Back(Places(ns, es, st))
<1> DEFINE P(x) == PlaceOf(ns, es[x].node)
           L == {P(x) : x \in Nat}
           ps == [i \in 1..Len(st) |-> P(st[i])]
<1> HIDE DEF P
<1> Len(st) \in Nat /\ \A i \in 1..Len(st) : st[i] \in Nat
  OBVIOUS
<1> ps \in Seq(L) /\ Len(ps) = Len(st)
  OBVIOUS
<1> [i \in 1..Len(SubSeq(st, 1, Len(st) - 1)) |-> P(SubSeq(st, 1, Len(st) - 1)[i])]
      = FileTree!Back(ps)
  BY DEF FileTree!Back
<1> QED
  BY ZenonT(30) DEF Places, P

-----------------------------------------------------------------------------
(* What the entries and the mounts say about the tree.                     *)

\* What the lemmas below assume of the objects.
GoodStore(ns, es, tb, ms) ==
  /\ \E fs : GoodNodes(ns, ms, fs)
  /\ Tidy(ns, es) /\ GoodEntries(ns, es, tb)
  /\ \A m \in DOMAIN ms : ms[m].root \in DOMAIN es
  /\ ms \in Seq(MountRecord)

LEMMA StoreOfGood ==
  ASSUME NEW ns, NEW es, NEW tb, NEW ms, NEW fs, NEW hs, NEW st, NEW nf,
         Good(ns, es, tb, ms, fs, hs, st, nf)
  PROVE  GoodStore(ns, es, tb, ms)
BY ZenonT(30) DEF Good, GoodStore, GoodRefs

(* A mount is the entry of its name in its parent, and the only such one.  *)
LEMMA MountIsEntry ==
  ASSUME NEW ns, NEW es, NEW tb, NEW ms, GoodStore(ns, es, tb, ms),
         GoodMounts(ns, es, ms), NEW m \in DOMAIN ms
  PROVE  LET e == ms[m].root
         IN /\ e \in DOMAIN es /\ es[e].node \in TreeNodes(ns)
            /\ ns[es[e].node].kind = "Directory"
            /\ m # 1 => es[e].parent \in DOMAIN es /\ es[e].parent # NULL
            /\ m = 1 => es[e].parent = NULL
            /\ <<es[e].parent, es[e].name>> \in DOMAIN tb
            /\ tb[<<es[e].parent, es[e].name>>] = e
<1> DEFINE e == ms[m].root
<1> e \in DOMAIN es /\ GoodEntry(ns, es, tb, e) /\ GoodMount(ns, es, ms, m)
  BY ZenonT(30) DEF GoodStore, GoodEntries, GoodMounts
<1> DOMAIN es \subseteq Nat \ {NULL}
  BY ZenonT(30) DEF GoodStore, GoodEntries
<1> "Directory" # "CharDevice"
  OBVIOUS
<1> QED
  BY ZenonT(30) DEF GoodEntry, GoodMount, TreeNodes

(* The mount points of a directory are those of the mounts whose roots     *)
(* have its entry as their parent.                                         *)
LEMMA PointsAt ==
  ASSUME NEW ns, NEW es, NEW tb, NEW ms, GoodStore(ns, es, tb, ms),
         GoodMounts(ns, es, ms), NEW p \in DOMAIN es, NEW name
  PROVE  /\ <<es[p].node, name>> \in DOMAIN PointsOf(es, ms) =>
              \E m \in DOMAIN ms : /\ es[ms[m].root].parent = p
                                   /\ es[ms[m].root].name = name
         /\ \A m \in DOMAIN ms :
              es[ms[m].root].parent = p /\ es[ms[m].root].name = name =>
                /\ <<es[p].node, name>> \in DOMAIN PointsOf(es, ms)
                /\ PointsOf(es, ms)[<<es[p].node, name>>] = es[ms[m].root].node
<1> DEFINE P(m) == es[ms[m].root].parent
           N(m) == es[ms[m].root].name
           key == <<es[p].node, name>>
<1>1. ms \in Seq(MountRecord) /\ DOMAIN ms = 1..Len(ms) /\ Len(ms) \in Nat
  BY DEF GoodStore
<1>2. \A m \in 2..Len(ms) : /\ m \in DOMAIN ms /\ m # 1 /\ P(m) \in DOMAIN es
                             /\ MountPoint(es, ms, m) = <<es[P(m)].node, N(m)>>
  <2>1. \A m \in 2..Len(ms) : m \in DOMAIN ms /\ m # 1
    BY <1>1
  <2> QED
    BY ZenonT(30), <2>1, MountIsEntry DEF MountPoint
<1>3. ASSUME NEW a, NEW x, NEW b, NEW y, <<a, x>> = <<b, y>>
      PROVE  a = b /\ x = y
  BY <1>3
<1>4. \A e, f \in DOMAIN es : es[e].node = es[f].node => e = f
  BY ZenonT(30) DEF GoodStore, Tidy
<1>5. ASSUME NEW m \in 2..Len(ms), MountPoint(es, ms, m) = key
      PROVE  P(m) = p /\ N(m) = name
  <2>1. P(m) \in DOMAIN es /\ <<es[P(m)].node, N(m)>> = <<es[p].node, name>>
    BY ZenonT(30), <1>2, <1>5
  <2>2. es[P(m)].node = es[p].node /\ N(m) = name
    BY ZenonT(30), <2>1, <1>3
  <2> QED
    BY ZenonT(30), <2>1, <2>2, <1>4
<1>6. ASSUME NEW m \in DOMAIN ms, NEW k \in DOMAIN ms, P(m) = P(k), N(m) = N(k)
      PROVE  ms[m].root = ms[k].root
  <2>1. tb[<<P(m), N(m)>>] = ms[m].root
    BY MountIsEntry
  <2>2. tb[<<P(k), N(k)>>] = ms[k].root
    BY MountIsEntry
  <2> QED
    BY ZenonT(30), <1>6, <2>1, <2>2
<1>7. DOMAIN PointsOf(es, ms) = {MountPoint(es, ms, m) : m \in 2..Len(ms)}
  BY ZenonT(30) DEF PointsOf
<1>8. ASSUME key \in DOMAIN PointsOf(es, ms)
      PROVE  \E m \in DOMAIN ms : P(m) = p /\ N(m) = name
  <2>1. PICK m \in 2..Len(ms) : MountPoint(es, ms, m) = key
    BY ZenonT(30), <1>7, <1>8
  <2> QED
    BY ZenonT(30), <2>1, <1>5, <1>2
<1>9. ASSUME NEW m \in DOMAIN ms, P(m) = p, N(m) = name
      PROVE  /\ key \in DOMAIN PointsOf(es, ms)
             /\ PointsOf(es, ms)[key] = es[ms[m].root].node
  <2>1. m # 1
    <3>1. DOMAIN es \subseteq Nat \ {NULL}
      BY ZenonT(30) DEF GoodStore, GoodEntries
    <3>2. m = 1 => P(m) = NULL
      BY ZenonT(30) DEF GoodMounts, GoodMount
    <3> QED
      BY ZenonT(30), <3>1, <3>2, <1>9
  <2>2. m \in 2..Len(ms)
    BY <2>1, <1>1
  <2>3. MountPoint(es, ms, m) = key
    BY ZenonT(30), <2>2, <1>2, <1>9
  <2> DEFINE k == CHOOSE k \in 2..Len(ms) : MountPoint(es, ms, k) = key
  <2>4. k \in 2..Len(ms) /\ MountPoint(es, ms, k) = key
    BY ZenonT(30), <2>2, <2>3
  <2>5. key \in DOMAIN PointsOf(es, ms)
    BY ZenonT(30), <2>2, <2>3, <1>7
  <2>6. PointsOf(es, ms)[key] = es[ms[k].root].node
    BY ZenonT(30), <2>5, <1>7 DEF PointsOf
  <2> HIDE DEF k
  <2>7. P(k) = p /\ N(k) = name /\ k \in DOMAIN ms
    BY ZenonT(30), <2>4, <1>5, <1>2
  <2>8. ms[k].root = ms[m].root
    BY ZenonT(30), <2>7, <1>9, <1>6
  <2> QED
    BY ZenonT(30), <2>5, <2>6, <2>8
<1> QED
  BY ZenonT(30), <1>8, <1>9

\* What a name in a directory leads to.
ChildOf(ns, es, ms, d, name) == FileTree!ChildIn(TreeOf(ns, ms), PointsOf(es, ms), d, name)

(* Every node is on a ramfs or on a devfs.                                 *)
LEMMA NodeFs ==
  ASSUME NEW ns, NEW es, NEW tb, NEW ms, GoodStore(ns, es, tb, ms), NEW n \in DOMAIN ns
  PROVE  ms[ns[n].mount].fs \in {"ramfs", "devfs"}
<1> ns[n].mount \in DOMAIN ms
  BY ZenonT(30) DEF GoodStore, GoodNodes, GoodNode
<1> ms \in Seq(MountRecord)
  BY ZenonT(30) DEF GoodStore
<1> ms[ns[n].mount] \in MountRecord
  OBVIOUS
<1> QED
  BY DEF MountRecord, FileSystemTypes

(* A node of the tree as FileTree sees it.                                 *)
LEMMA TreeNode ==
  ASSUME NEW ns, NEW ms, NEW n \in DOMAIN ns, ns[n].kind # "CharDevice"
  PROVE  /\ n \in DOMAIN TreeOf(ns, ms) /\ PlaceOf(ns, n) = <<"node", n>>
         /\ TreeOf(ns, ms)[n].fs = ms[ns[n].mount].fs
         /\ TreeOf(ns, ms)[n].kids = ns[n].kids
         /\ TreeOf(ns, ms)[n].kind = ns[n].kind
         /\ TreeOf(ns, ms)[n].data = ns[n].data
<1> n \in TreeNodes(ns)
  BY DEF TreeNodes
<1> QED
  BY DEF TreeOf, PlaceOf

(* No place of a node or a device is one where a walk fails.               *)
LEMMA PlaceIsSomewhere ==
  ASSUME NEW ns, NEW n
  PROVE  PlaceOf(ns, n) \notin FileTree!Nowhere
BY DEF PlaceOf, FileTree!Nowhere, FileTree!Missing, FileTree!NotDir, FileTree!Unhandled

(* The directories among the places.                                       *)
LEMMA PlaceIsDirectory ==
  ASSUME NEW ns, NEW ms, NEW n \in DOMAIN ns
  PROVE  FileTree!IsDirIn(TreeOf(ns, ms), PlaceOf(ns, n)) <=> ns[n].kind = "Directory"
<1> CASE ns[n].kind # "CharDevice"
  <2> PlaceOf(ns, n) = <<"node", n>> /\ TreeOf(ns, ms)[n].kind = ns[n].kind
    BY ZenonT(30), TreeNode
  <2> QED
    BY DEF FileTree!IsDirIn
<1> CASE ns[n].kind = "CharDevice"
  <2> PlaceOf(ns, n) = <<"device", ns[n].device>>
    BY ZenonT(30) DEF PlaceOf, TreeNodes
  <2> QED
    BY DEF FileTree!IsDirIn
<1> QED
  BY ZenonT(30)

\* The table does not lead to a live entry; what the file system has.
Unknown(es, tb, p, name) == ~(<<p, name>> \in DOMAIN tb /\ tb[<<p, name>>] \in DOMAIN es)
DiskChild(ns, ms, d, name) ==
  IF ~NameOnDisk(ns, ms, d, name) THEN FileTree!Missing
  ELSE IF ms[ns[d].mount].fs = "ramfs" THEN <<"node", ns[d].kids[name]>>
  ELSE <<"device", name>>

(* Nothing is mounted under a name that is not cached.                     *)
LEMMA NotCachedNotMounted ==
  ASSUME NEW ns, NEW es, NEW tb, NEW ms, GoodStore(ns, es, tb, ms),
         TrueStore(ns, es, tb, ms), NEW p \in DOMAIN es, NEW name,
         Unknown(es, tb, p, name)
  PROVE  /\ \A m \in DOMAIN ms : ~(es[ms[m].root].parent = p /\ es[ms[m].root].name = name)
         /\ <<es[p].node, name>> \notin DOMAIN PointsOf(es, ms)
<1>1. GoodMounts(ns, es, ms)
  BY ZenonT(30) DEF TrueStore
<1>2. ASSUME NEW m \in DOMAIN ms
      PROVE  ~(es[ms[m].root].parent = p /\ es[ms[m].root].name = name)
  <2>1. /\ ms[m].root \in DOMAIN es
        /\ <<es[ms[m].root].parent, es[ms[m].root].name>> \in DOMAIN tb
        /\ tb[<<es[ms[m].root].parent, es[ms[m].root].name>>] = ms[m].root
    BY <1>1, MountIsEntry
  <2> QED
    BY ZenonT(30), <2>1 DEF Unknown
<1>3. <<es[p].node, name>> \notin DOMAIN PointsOf(es, ms)
  BY <1>1, <1>2, PointsAt
<1> QED
  BY ZenonT(30), <1>2, <1>3

(* A name that is not cached leads where the file system says.             *)
LEMMA ChildNotCached ==
  ASSUME NEW ns, NEW es, NEW tb, NEW ms, GoodStore(ns, es, tb, ms),
         TrueStore(ns, es, tb, ms), NEW p \in DOMAIN es, NEW name,
         ns[es[p].node].kind = "Directory", Unknown(es, tb, p, name)
  PROVE  ChildOf(ns, es, ms, es[p].node, name) = DiskChild(ns, ms, es[p].node, name)
<1> DEFINE d == es[p].node
<1>3. <<d, name>> \notin DOMAIN PointsOf(es, ms)
  BY NotCachedNotMounted
<1>4. d \in DOMAIN ns /\ ns[d].kind # "CharDevice"
  <2>1. GoodEntry(ns, es, tb, p)
    BY ZenonT(30) DEF GoodStore, GoodEntries
  <2> QED
    BY <2>1 DEF GoodEntry
<1>5. ms[ns[d].mount].fs \in {"ramfs", "devfs"}
  BY <1>4, NodeFs
<1>6. TreeOf(ns, ms)[d].fs = ms[ns[d].mount].fs /\ TreeOf(ns, ms)[d].kids = ns[d].kids
  BY <1>4, TreeNode
<1>7. FileTree!Devices = Devices
  BY ZenonT(30) DEF FileTree!Devices, Devices
<1> HIDE DEF d
<1>8. ChildOf(ns, es, ms, d, name) = DiskChild(ns, ms, d, name)
  BY <1>3, <1>5, <1>6, <1>7 DEF ChildOf, DiskChild, FileTree!ChildIn, NameOnDisk,
     FileTree!Node, FileTree!Device
<1> QED
  BY ZenonT(30), <1>8 DEF d

LEMMA OnDiskIsSomewhere ==
  ASSUME NEW ns, NEW ms, NEW d, NEW name
  PROVE  DiskChild(ns, ms, d, name) = FileTree!Missing <=> ~NameOnDisk(ns, ms, d, name)
BY DEF DiskChild, FileTree!Missing

(* A name that is cached leads to the place of its entry, whether that is  *)
(* a mount's root or not.                                                  *)
LEMMA ChildCached ==
  ASSUME NEW ns, NEW es, NEW tb, NEW ms, GoodStore(ns, es, tb, ms),
         TrueStore(ns, es, tb, ms), NEW p \in DOMAIN es, NEW name,
         ns[es[p].node].kind = "Directory",
         NEW e \in DOMAIN es, <<p, name>> \in DOMAIN tb, tb[<<p, name>>] = e
  PROVE  ChildOf(ns, es, ms, es[p].node, name) = PlaceOf(ns, es[e].node)
<1> DEFINE d == es[p].node
<1>1. GoodMounts(ns, es, ms) /\ TrueCache(ns, es, tb, ms)
  BY ZenonT(30) DEF TrueStore
<1>2. es[e].parent = p /\ es[e].name = name
  <2>1. <<p, name>> = <<es[e].parent, es[e].name>>
    BY ZenonT(30), <1>1 DEF TrueCache, TrueKey
  <2> QED
    BY <2>1
<1>3. d \in DOMAIN ns /\ ns[d].kind # "CharDevice"
  <2>1. GoodEntry(ns, es, tb, p)
    BY ZenonT(30) DEF GoodStore, GoodEntries
  <2> QED
    BY <2>1 DEF GoodEntry
<1>4. CASE \E m \in DOMAIN ms : ms[m].root = e
  <2>1. PICK m \in DOMAIN ms : ms[m].root = e
    BY ZenonT(30), <1>4
  <2>2. /\ <<d, name>> \in DOMAIN PointsOf(es, ms)
        /\ PointsOf(es, ms)[<<d, name>>] = es[e].node
    BY <2>1, <1>1, <1>2, PointsAt
  <2>3. es[ms[m].root].node \in TreeNodes(ns)
    BY ZenonT(30), <1>1, MountIsEntry
  <2> QED
    BY ZenonT(30), <2>1, <2>2, <2>3 DEF ChildOf, FileTree!ChildIn, FileTree!Node, PlaceOf
<1>5. CASE ~IsMountRoot(ms, e)
  <2>1. <<d, name>> \notin DOMAIN PointsOf(es, ms)
    <3>1. \A m \in DOMAIN ms : ~(es[ms[m].root].parent = p /\ es[ms[m].root].name = name)
      <4> SUFFICES ASSUME NEW m \in DOMAIN ms,
                          es[ms[m].root].parent = p, es[ms[m].root].name = name
                   PROVE  FALSE
        OBVIOUS
      <4>1. tb[<<es[ms[m].root].parent, es[ms[m].root].name>>] = ms[m].root
        BY <1>1, MountIsEntry
      <4>2. ms[m].root = e
        BY ZenonT(30), <4>1
      <4> QED
        BY ZenonT(30), <4>2, <1>5 DEF IsMountRoot
    <3> QED
      BY <3>1, <1>1, PointsAt
  <2>2. TreeOf(ns, ms)[d].fs = ms[ns[d].mount].fs /\ TreeOf(ns, ms)[d].kids = ns[d].kids
    BY <1>3, TreeNode
  <2>3. p # NULL /\ TrueEntry(ns, es, ms, e)
    <3>1. p # NULL
      BY ZenonT(30) DEF GoodStore, GoodEntries
    <3> QED
      BY ZenonT(30), <3>1, <1>1, <1>2 DEF TrueCache
  <2>4. /\ NameOnDisk(ns, ms, d, name)
        /\ IF ms[ns[d].mount].fs = "ramfs" THEN es[e].node = ns[d].kids[name]
           ELSE ns[es[e].node].kind = "CharDevice" /\ ns[es[e].node].device = name
    BY ZenonT(30), <2>3, <1>2, <1>5 DEF TrueEntry
  <2>6. ms[ns[d].mount].fs \in {"ramfs", "devfs"}
    BY <1>3, NodeFs
  <2>7. CASE ms[ns[d].mount].fs = "ramfs"
    <3>1. name \in DOMAIN ns[d].kids /\ es[e].node = ns[d].kids[name]
      BY ZenonT(30), <2>7, <2>4 DEF NameOnDisk
    <3>2. es[e].node \in TreeNodes(ns)
      BY ZenonT(30), <3>1, <1>3 DEF GoodStore, GoodNodes, GoodNode, TreeNodes
    <3>3. TreeOf(ns, ms)[d].fs # "devfs"
      BY <2>2, <2>7
    <3> QED
      BY ZenonT(30), <3>1, <3>2, <3>3, <2>1, <2>2 DEF ChildOf, FileTree!ChildIn,
         FileTree!Node, PlaceOf
  <2>8. CASE ms[ns[d].mount].fs # "ramfs"
    <3>1. name \in FileTree!Devices /\ ns[es[e].node].kind = "CharDevice"
             /\ ns[es[e].node].device = name
      BY ZenonT(30), <2>8, <2>4 DEF NameOnDisk, Devices, FileTree!Devices
    <3>2. es[e].node \notin TreeNodes(ns)
      BY ZenonT(30), <3>1 DEF TreeNodes
    <3>3. TreeOf(ns, ms)[d].fs = "devfs"
      BY <2>2, <2>6, <2>8
    <3> QED
      BY ZenonT(30), <3>1, <3>2, <3>3, <2>1 DEF ChildOf, FileTree!ChildIn, FileTree!Device,
         PlaceOf
  <2> QED
    BY ZenonT(30), <2>7, <2>8
<1> QED
  BY ZenonT(30), <1>4, <1>5 DEF IsMountRoot

-----------------------------------------------------------------------------
(* Dropping what nothing refers to cannot be noticed.                      *)

\* ns2 and es2 are what is left of ns and es: enough for all that refers to them.
Left(ns, es, ms, fs, st, ns2, es2) ==
  /\ DOMAIN es2 \subseteq DOMAIN es /\ DOMAIN ns2 \subseteq DOMAIN ns
  /\ \A e \in DOMAIN es2 : /\ es2[e] = es[e] /\ es[e].node \in DOMAIN ns2
                           /\ es[e].parent # NULL => es[e].parent \in DOMAIN es2
  /\ \A n \in DOMAIN ns2 : ns2[n] = ns[n]
  /\ TreeNodes(ns) \subseteq DOMAIN ns2
  /\ \A m \in DOMAIN ms : ms[m].root \in DOMAIN es2
  /\ \A f \in DOMAIN fs : fs[f].node \in DOMAIN ns2
  /\ \A i \in DOMAIN st : st[i] \in DOMAIN es2

(* What Settle leaves, if the state after it is good.                      *)
LEMMA SettleLeft ==
  ASSUME NEW ns, NEW es, NEW ms, NEW fs, NEW hs, NEW st,
         IInv', Settle(ns, es, ms, fs, hs, st),
         \A e \in DOMAIN es : es[e].chain \subseteq DOMAIN es,
         \A m \in DOMAIN ms : ms[m].root \in DOMAIN es,
         hs \subseteq DOMAIN es, \A i \in DOMAIN st : st[i] \in DOMAIN es
  PROVE  /\ Left(ns, es, ms, fs, st, nodes', entries')
         /\ mounts' = ms /\ files' = fs /\ held' = hs /\ stack' = st
<1> DEFINE live == Live(es, ms, hs, st)
           kept == Used(ns, es, fs, live)
<1>1. /\ entries' = [e \in live |-> es[e]] /\ nodes' = [n \in kept |-> ns[n]]
      /\ mounts' = ms /\ files' = fs /\ held' = hs /\ stack' = st
  BY DEF Settle, Live, Pins, Used, Restrict
<1>2. live \subseteq DOMAIN es
  <2>1. Pins(ms, hs, st) \subseteq DOMAIN es
    BY DEF Pins, Range
  <2> QED
    BY <2>1 DEF Live
<1>3. /\ GoodEntries(nodes', entries', table') /\ GoodRefs(entries', mounts', held', stack')
      /\ GoodFiles(nodes', files', next_fd')
  BY ZenonT(30) DEF Known, IInv, Good
<1>4. kept \subseteq DOMAIN ns /\ TreeNodes(ns) \subseteq kept
  BY DEF Used, TreeNodes
<1> HIDE DEF live, kept
<1>5. /\ DOMAIN entries' = live /\ \A e \in live : entries'[e] = es[e]
      /\ DOMAIN nodes' = kept /\ \A n \in kept : nodes'[n] = ns[n]
  BY <1>1
<1>6. \A e \in DOMAIN entries' :
        /\ entries'[e].node \in DOMAIN nodes'
        /\ entries'[e].parent # NULL => entries'[e].parent \in DOMAIN entries'
  BY ZenonT(30), <1>3 DEF GoodEntries, GoodEntry
<1>7. /\ \A m \in DOMAIN ms : ms[m].root \in DOMAIN entries'
      /\ \A i \in DOMAIN st : st[i] \in DOMAIN entries'
  BY ZenonT(30), <1>1, <1>3 DEF GoodRefs
<1>8. \A f \in DOMAIN fs : fs[f].node \in DOMAIN nodes'
  BY ZenonT(30), <1>1, <1>3 DEF GoodFiles, GoodFile
<1>9. \A e \in live : es[e].node \in kept /\ (es[e].parent # NULL => es[e].parent \in live)
  BY ZenonT(30), <1>5, <1>6
<1>10. Left(ns, es, ms, fs, st, nodes', entries')
  BY ZenonT(40), <1>2, <1>4, <1>5, <1>7, <1>8, <1>9 DEF Left
<1> QED
  BY ZenonT(30), <1>1, <1>10

LEMMA LeftTrue ==
  ASSUME NEW ns, NEW es, NEW tb, NEW ms, NEW fs, NEW st, NEW ns2, NEW es2,
         TrueStore(ns, es, tb, ms), Left(ns, es, ms, fs, st, ns2, es2)
  PROVE  TrueStore(ns2, es2, tb, ms)
<1> ASSUME NEW e \in DOMAIN es2, es2[e].parent # NULL
    PROVE  TrueEntry(ns2, es2, ms, e)
  <2> DEFINE p == es[e].parent
             d == es[p].node
  <2> e \in DOMAIN es /\ es2[e] = es[e] /\ p \in DOMAIN es2 /\ es2[p] = es[p]
    BY ZenonT(30) DEF Left
  <2> ns2[d] = ns[d] /\ ns2[es[e].node] = ns[es[e].node]
    BY ZenonT(30) DEF Left
  <2> TrueEntry(ns, es, ms, e)
    BY ZenonT(30) DEF TrueStore, TrueCache
  <2> QED
    BY ZenonT(30) DEF TrueEntry, NameOnDisk
<1> ASSUME NEW k \in DOMAIN tb
    PROVE  TrueKey(es2, tb, k)
  <2> TrueKey(es, tb, k)
    BY ZenonT(30) DEF TrueStore, TrueCache
  <2> QED
    BY ZenonT(30) DEF TrueKey, Left
<1> ASSUME NEW m \in DOMAIN ms
    PROVE  GoodMount(ns2, es2, ms, m)
  <2> GoodMount(ns, es, ms, m)
    BY ZenonT(30) DEF TrueStore, GoodMounts
  <2> es2[ms[m].root] = es[ms[m].root]
         /\ ns2[es[ms[m].root].node] = ns[es[ms[m].root].node]
    BY ZenonT(30) DEF Left
  <2> QED
    BY ZenonT(30) DEF GoodMount
<1> QED
  BY ZenonT(30) DEF TrueStore, TrueCache, GoodMounts

LEMMA LeftSame ==
  ASSUME NEW ns, NEW es, NEW tb, NEW ms, NEW fs, NEW st, NEW ns2, NEW es2,
         ms \in Seq(MountRecord), TrueStore(ns, es, tb, ms),
         Left(ns, es, ms, fs, st, ns2, es2)
  PROVE  /\ TreeOf(ns2, ms) = TreeOf(ns, ms)
         /\ RootOf(es2, ms) = RootOf(es, ms)
         /\ PointsOf(es2, ms) = PointsOf(es, ms)
         /\ FilesOf(ns2, fs) = FilesOf(ns, fs)
         /\ st \in Seq(Nat) => Places(ns2, es2, st) = Places(ns, es, st)
<1>1. TreeNodes(ns2) = TreeNodes(ns) /\ \A n \in TreeNodes(ns) : ns2[n] = ns[n]
  BY DEF Left, TreeNodes
<1>2. \A n \in DOMAIN ns2 : PlaceOf(ns2, n) = PlaceOf(ns, n)
  BY ZenonT(30), <1>1 DEF PlaceOf, Left
<1>3. TreeOf(ns2, ms) = TreeOf(ns, ms)
  <2> DEFINE R(n) == [kind |-> ns[n].kind, fs |-> ms[ns[n].mount].fs,
                      data |-> ns[n].data, kids |-> ns[n].kids]
  <2>1. TreeOf(ns2, ms) = [n \in TreeNodes(ns) |-> R(n)]
    BY <1>1 DEF TreeOf
  <2> QED
    BY ZenonT(30), <2>1 DEF TreeOf
<1>4. FilesOf(ns2, fs) = FilesOf(ns, fs)
  <2>1. \A f \in DOMAIN fs : PlaceOf(ns2, fs[f].node) = PlaceOf(ns, fs[f].node)
    BY ZenonT(30), <1>2 DEF Left
  <2> QED
    BY <2>1 DEF FilesOf
<1>5. RootOf(es2, ms) = RootOf(es, ms)
  <2>1. ms # <<>> => 1 \in DOMAIN ms
    OBVIOUS
  <2> QED
    BY ZenonT(30), <2>1 DEF RootOf, Left
<1>6. PointsOf(es2, ms) = PointsOf(es, ms)
  <2> ASSUME NEW m \in 2..Len(ms)
      PROVE  /\ MountPoint(es2, ms, m) = MountPoint(es, ms, m)
             /\ es2[ms[m].root].node = es[ms[m].root].node
    <3> m \in DOMAIN ms /\ m # 1
      OBVIOUS
    <3>2. es2[ms[m].root] = es[ms[m].root]
      BY ZenonT(30) DEF Left
    <3>3. es[ms[m].root].parent # NULL
      BY ZenonT(30) DEF TrueStore, GoodMounts, GoodMount
    <3>4. es2[es[ms[m].root].parent] = es[es[ms[m].root].parent]
      BY ZenonT(30), <3>3 DEF Left
    <3> QED
      BY ZenonT(30), <3>2, <3>4 DEF MountPoint
  <2>2. {MountPoint(es2, ms, m) : m \in 2..Len(ms)} = {MountPoint(es, ms, m) : m \in 2..Len(ms)}
    BY ZenonT(30)
  <2> DEFINE K == {MountPoint(es, ms, m) : m \in 2..Len(ms)}
             C(k) == CHOOSE m \in 2..Len(ms) : MountPoint(es, ms, m) = k
             C2(k) == CHOOSE m \in 2..Len(ms) : MountPoint(es2, ms, m) = k
  <2>3. ASSUME NEW k \in K
        PROVE  C2(k) = C(k) /\ C(k) \in 2..Len(ms)
    <3>1. PICK m \in 2..Len(ms) : MountPoint(es, ms, m) = k
      BY ZenonT(30)
    <3>2. C(k) \in 2..Len(ms)
      BY ZenonT(30), <3>1
    <3>3. \A x : (x \in 2..Len(ms) /\ MountPoint(es2, ms, x) = k)
                 <=> (x \in 2..Len(ms) /\ MountPoint(es, ms, x) = k)
      BY ZenonT(30)
    <3>4. C2(k) = C(k)
      BY <3>3
    <3> QED
      BY ZenonT(30), <3>2, <3>4
  <2>4. PointsOf(es2, ms) = [k \in K |-> es2[ms[C2(k)].root].node]
    BY ZenonT(30), <2>2 DEF PointsOf
  <2>5. PointsOf(es, ms) = [k \in K |-> es[ms[C(k)].root].node]
    BY ZenonT(30) DEF PointsOf
  <2> HIDE DEF K, C, C2
  <2>6. \A k \in K : es2[ms[C2(k)].root].node = es[ms[C(k)].root].node
    BY ZenonT(30), <2>3
  <2> QED
    BY <2>4, <2>5, <2>6
<1>7. ASSUME st \in Seq(Nat)
      PROVE  Places(ns2, es2, st) = Places(ns, es, st)
  <2>1. \A i \in 1..Len(st) : i \in DOMAIN st
    BY <1>7
  <2>2. \A i \in 1..Len(st) : PlaceOf(ns2, es2[st[i]].node) = PlaceOf(ns, es[st[i]].node)
    BY ZenonT(30), <2>1, <1>2 DEF Left
  <2> QED
    BY <2>2 DEF Places
<1> QED
  BY ZenonT(30), <1>3, <1>4, <1>5, <1>6, <1>7

-----------------------------------------------------------------------------
(* What the calls do to the cache and the mounts.                          *)

\* Only what no live entry stands for changes on disk.
SameDisk(ns, es, ns2) ==
  /\ \A n \in DOMAIN ns : /\ ns2[n].mount = ns[n].mount /\ ns2[n].kind = ns[n].kind
                          /\ ns2[n].device = ns[n].device
  /\ \A e \in DOMAIN es : es[e].parent # NULL =>
       LET old == ns[es[es[e].parent].node].kids
           new == ns2[es[es[e].parent].node].kids
       IN /\ es[e].name \in DOMAIN new <=> es[e].name \in DOMAIN old
          /\ es[e].name \in DOMAIN old => new[es[e].name] = old[es[e].name]

LEMMA SameDiskTrue ==
  ASSUME NEW ns, NEW es, NEW tb, NEW ms, NEW ns2, GoodStore(ns, es, tb, ms),
         TrueStore(ns, es, tb, ms), SameDisk(ns, es, ns2)
  PROVE  TrueStore(ns2, es, tb, ms)
<1> \A e \in DOMAIN es : /\ es[e].node \in DOMAIN ns
                         /\ es[e].parent # NULL => es[e].parent \in DOMAIN es
  BY ZenonT(30) DEF GoodStore, GoodEntries, GoodEntry
<1> ASSUME NEW e \in DOMAIN es, es[e].parent # NULL
    PROVE  TrueEntry(ns2, es, ms, e)
  <2> DEFINE d == es[es[e].parent].node
             n == es[e].node
             x == es[e].name
  <2> d \in DOMAIN ns /\ n \in DOMAIN ns
    BY ZenonT(30)
  <2> /\ ns2[d].mount = ns[d].mount /\ ns2[n].kind = ns[n].kind
      /\ ns2[n].device = ns[n].device
    BY ZenonT(30) DEF SameDisk
  <2> /\ x \in DOMAIN ns2[d].kids <=> x \in DOMAIN ns[d].kids
      /\ x \in DOMAIN ns[d].kids => ns2[d].kids[x] = ns[d].kids[x]
    BY ZenonT(30) DEF SameDisk
  <2> TrueEntry(ns, es, ms, e)
    BY ZenonT(30) DEF TrueStore, TrueCache
  <2> QED
    BY ZenonT(30) DEF TrueEntry, NameOnDisk
<1> ASSUME NEW m \in DOMAIN ms
    PROVE  GoodMount(ns2, es, ms, m)
  <2> ns2[es[ms[m].root].node].kind = ns[es[ms[m].root].node].kind
    BY ZenonT(30) DEF SameDisk, GoodStore
  <2> QED
    BY ZenonT(30) DEF GoodMount, GoodMounts, TrueStore
<1> QED
  BY ZenonT(30) DEF TrueStore, TrueCache, GoodMounts

(* A key for an entry that is not alive.                                   *)
LEMMA KeyTrue ==
  ASSUME NEW ns, NEW es, NEW tb, NEW ms, NEW key, NEW e, e \notin DOMAIN es,
         TrueStore(ns, es, tb, ms)
  PROVE  TrueStore(ns, es, Extend(tb, key, e), ms)
<1> ASSUME NEW k \in DOMAIN Extend(tb, key, e)
    PROVE  TrueKey(es, Extend(tb, key, e), k)
  <2> k # key => k \in DOMAIN tb /\ Extend(tb, key, e)[k] = tb[k]
    BY ZenonT(30) DEF Extend
  <2> k = key => Extend(tb, key, e)[k] = e
    BY ZenonT(30) DEF Extend
  <2> QED
    BY ZenonT(30) DEF TrueKey, TrueStore, TrueCache
<1> QED
  BY ZenonT(30) DEF TrueStore, TrueCache

\* A new entry is put under its key; no key has named it before.
NewIn(es, tb, p, name, e, r, es2, tb2) ==
  /\ e \notin DOMAIN es /\ \A k \in DOMAIN tb : tb[k] # e
  /\ p \in DOMAIN es /\ p # NULL /\ r.parent = p /\ r.name = name
  /\ es2 = Extend(es, e, r) /\ tb2 = Extend(tb, <<p, name>>, e)

LEMMA NewKeyTrue ==
  ASSUME NEW ns, NEW es, NEW tb, NEW ms, NEW p, NEW name, NEW e, NEW r, NEW es2, NEW tb2,
         TrueStore(ns, es, tb, ms), NewIn(es, tb, p, name, e, r, es2, tb2)
  PROVE  \A k \in DOMAIN tb2 : TrueKey(es2, tb2, k)
<1> /\ DOMAIN es2 = DOMAIN es \cup {e} /\ es2[e] = r
    /\ \A x \in DOMAIN es : es2[x] = es[x]
  BY ZenonT(30) DEF NewIn, Extend
<1> ASSUME NEW k \in DOMAIN tb2
    PROVE  TrueKey(es2, tb2, k)
  <2> CASE k = <<p, name>>
    <3> tb2[k] = e
      BY ZenonT(30) DEF NewIn, Extend
    <3> QED
      BY ZenonT(30) DEF TrueKey, NewIn
  <2> CASE k # <<p, name>>
    <3> k \in DOMAIN tb /\ tb2[k] = tb[k]
      BY ZenonT(30) DEF NewIn, Extend
    <3> tb[k] # e
      BY ZenonT(30) DEF NewIn
    <3> QED
      BY ZenonT(30) DEF TrueKey, TrueStore, TrueCache
  <2> QED
    BY ZenonT(30)
<1> QED
  BY ZenonT(30)

Closed(es, ms) ==
  /\ \A e \in DOMAIN es : es[e].parent # NULL => es[e].parent \in DOMAIN es
  /\ \A m \in DOMAIN ms : ms[m].root \in DOMAIN es

LEMMA StoreClosed ==
  ASSUME NEW ns, NEW es, NEW tb, NEW ms, GoodStore(ns, es, tb, ms)
  PROVE  Closed(es, ms)
BY ZenonT(30) DEF GoodStore, GoodEntries, GoodEntry, Closed

(* A new entry for what the file system has under its name.                *)
LEMMA EntryTrue ==
  ASSUME NEW ns, NEW es, NEW tb, NEW ms, NEW p, NEW name, NEW e, NEW r, NEW es2, NEW tb2,
         Closed(es, ms), TrueStore(ns, es, tb, ms),
         NewIn(es, tb, p, name, e, r, es2, tb2),
         NameOnDisk(ns, ms, es[p].node, name),
         IF ms[ns[es[p].node].mount].fs = "ramfs" THEN r.node = ns[es[p].node].kids[name]
         ELSE ns[r.node].kind = "CharDevice" /\ ns[r.node].device = name
  PROVE  TrueStore(ns, es2, tb2, ms)
<1> /\ DOMAIN es2 = DOMAIN es \cup {e} /\ es2[e] = r
    /\ \A x \in DOMAIN es : es2[x] = es[x]
  BY ZenonT(30) DEF NewIn, Extend
<1> p \in DOMAIN es /\ p # NULL /\ r.parent = p /\ r.name = name /\ e \notin DOMAIN es
  BY ZenonT(30) DEF NewIn
<1> ~IsMountRoot(ms, e)
  BY ZenonT(30) DEF IsMountRoot, Closed
<1> TrueEntry(ns, es2, ms, e)
  BY ZenonT(30) DEF TrueEntry
<1> ASSUME NEW x \in DOMAIN es, es2[x].parent # NULL
    PROVE  TrueEntry(ns, es2, ms, x)
  <2> es2[x] = es[x] /\ es2[es[x].parent] = es[es[x].parent]
    BY ZenonT(30) DEF Closed
  <2> TrueEntry(ns, es, ms, x)
    BY ZenonT(30) DEF TrueStore, TrueCache
  <2> QED
    BY ZenonT(30) DEF TrueEntry
<1> ASSUME NEW m \in DOMAIN ms
    PROVE  GoodMount(ns, es2, ms, m)
  <2> es2[ms[m].root] = es[ms[m].root]
    BY ZenonT(30) DEF Closed
  <2> QED
    BY ZenonT(30) DEF GoodMount, GoodMounts, TrueStore
<1> \A k \in DOMAIN tb2 : TrueKey(es2, tb2, k)
  BY ZenonT(30), NewKeyTrue
<1> QED
  BY ZenonT(30) DEF TrueStore, TrueCache, GoodMounts

\* A mount on a name that its directory does not have.
Mounting(ns, es, tb, ms, p, name, e, r, es2, tb2, fs, ms2) ==
  /\ ms \in Seq(MountRecord) /\ ms # <<>> /\ fs \in FileSystemTypes /\ e \in Nat
  /\ ms2 = Append(ms, [fs |-> fs, root |-> e])
  /\ Closed(es, ms) /\ TrueStore(ns, es, tb, ms)
  /\ NewIn(es, tb, p, name, e, r, es2, tb2)
  /\ \A x \in DOMAIN es : ns[es[x].node].mount \in DOMAIN ms
  /\ ~NameOnDisk(ns, ms, es[p].node, name) /\ ns[r.node].kind = "Directory"

LEMMA MountTrue ==
  ASSUME NEW ns, NEW es, NEW tb, NEW ms, NEW p, NEW name, NEW e, NEW r, NEW es2, NEW tb2,
         NEW fs, NEW ms2, Mounting(ns, es, tb, ms, p, name, e, r, es2, tb2, fs, ms2)
  PROVE  TrueStore(ns, es2, tb2, ms2)
<1> USE DEF Mounting
<1>1. /\ DOMAIN es2 = DOMAIN es \cup {e} /\ es2[e] = r
      /\ \A x \in DOMAIN es : es2[x] = es[x]
  BY ZenonT(30) DEF NewIn, Extend
<1>2. p \in DOMAIN es /\ p # NULL /\ r.parent = p /\ r.name = name /\ e \notin DOMAIN es
  BY ZenonT(30) DEF NewIn
<1> DEFINE k == Len(ms) + 1
<1>3. /\ DOMAIN ms2 = DOMAIN ms \cup {k} /\ \A m \in DOMAIN ms : ms2[m] = ms[m]
      /\ ms2[k].root = e /\ k \in DOMAIN ms2 /\ k # 1
  <2>1. [fs |-> fs, root |-> e] \in MountRecord
    BY DEF MountRecord
  <2> HIDE DEF MountRecord
  <2>2. Len(ms) \in Nat /\ Len(ms) # 0 /\ DOMAIN ms = 1..Len(ms)
    OBVIOUS
  <2>3. ms2[k] = [fs |-> fs, root |-> e] /\ DOMAIN ms2 = 1..k
    BY <2>1, <2>2
  <2>4. \A m \in DOMAIN ms : ms2[m] = ms[m]
    BY <2>1, <2>2
  <2> QED
    BY <2>2, <2>3, <2>4
<1> HIDE DEF k
<1>4. IsMountRoot(ms2, e) /\ \A x \in DOMAIN es : IsMountRoot(ms2, x) <=> IsMountRoot(ms, x)
  <2>1. IsMountRoot(ms2, e)
    BY ZenonT(30), <1>3 DEF IsMountRoot
  <2>2. \A x \in DOMAIN es : IsMountRoot(ms2, x) <=> IsMountRoot(ms, x)
    BY ZenonT(30), <1>2, <1>3 DEF IsMountRoot
  <2> QED
    BY ZenonT(30), <2>1, <2>2
<1>5. \A x \in DOMAIN es : ms2[ns[es[x].node].mount] = ms[ns[es[x].node].mount]
  BY ZenonT(30), <1>3
<1>6. TrueEntry(ns, es2, ms2, e)
  BY ZenonT(30), <1>1, <1>2, <1>4, <1>5 DEF TrueEntry, NameOnDisk
<1>7. ASSUME NEW x \in DOMAIN es, es2[x].parent # NULL
      PROVE  TrueEntry(ns, es2, ms2, x)
  <2>1. /\ es2[x] = es[x] /\ es[x].parent \in DOMAIN es
        /\ es2[es[x].parent] = es[es[x].parent]
    BY ZenonT(30), <1>1, <1>7 DEF Closed
  <2>2. TrueEntry(ns, es, ms, x)
    BY ZenonT(30), <2>1, <1>7 DEF TrueStore, TrueCache
  <2>3. ms2[ns[es[es[x].parent].node].mount] = ms[ns[es[es[x].parent].node].mount]
    BY ZenonT(30), <2>1, <1>5
  <2> QED
    BY ZenonT(30), <2>1, <2>2, <2>3, <1>4 DEF TrueEntry, NameOnDisk
<1>8. GoodMount(ns, es2, ms2, k)
  <2>1. ns[r.node].kind = "Directory" /\ \A m \in DOMAIN ms : ms[m].root \in DOMAIN es
    BY ZenonT(30) DEF Closed
  <2> HIDE DEF Mounting
  <2> QED
    BY ZenonT(30), <1>1, <1>2, <1>3, <2>1 DEF GoodMount
<1>9. ASSUME NEW m \in DOMAIN ms
      PROVE  GoodMount(ns, es2, ms2, m)
  <2>1. es2[ms[m].root] = es[ms[m].root] /\ ms[m].root # e
    BY ZenonT(30), <1>1, <1>2 DEF Closed
  <2>2. GoodMount(ns, es, ms, m)
    BY ZenonT(30) DEF GoodMounts, TrueStore
  <2> QED
    BY ZenonT(30), <2>1, <2>2, <1>3 DEF GoodMount
<1>10. \A x \in DOMAIN tb2 : TrueKey(es2, tb2, x)
  BY ZenonT(30), NewKeyTrue
<1> QED
  BY ZenonT(30), <1>1, <1>3, <1>6, <1>7, <1>8, <1>9, <1>10 DEF TrueStore, TrueCache,
     GoodMounts

-----------------------------------------------------------------------------
(* The walk in progress, seen from FileTree.                               *)

\* The places on the stack after the next segment.
NextPlaces ==
  LET here == Places(nodes, entries, stack)
      child == ChildOf(nodes, entries, mounts, entries[Top].node, Seg)
  IN IF ~IsDirectory(Top) THEN <<FileTree!NotDir>>
     ELSE IF Seg \in Dots THEN FileTree!AtDots(walk, here, Seg)
     ELSE IF child = FileTree!Missing THEN <<FileTree!Missing>>
     ELSE Append(here, child)

LEMMA PathSegs ==
  ASSUME TInv, walk # "none"
  PROVE  call.path.segs \in Seq(STRING)
BY ZenonT(30), CallsAssumption DEF TInv, TrueWalk

LEMMA EmptyLength ==
  ASSUME NEW S, NEW s \in Seq(S)
  PROVE  s = <<>> <=> Len(s) = 0
OBVIOUS

LEMMA DropSegments ==
  ASSUME NEW P \in Seq(STRING), NEW c \in 0..Len(P), NEW rest,
         rest = SubSeq(P, c + 1, Len(P))
  PROVE  /\ Len(rest) = Len(P) - c /\ rest = <<>> <=> c = Len(P)
         /\ rest # <<>> => /\ Head(rest) = P[c + 1]
                           /\ c + 1 \in 0..Len(P) /\ c < Len(P)
                           /\ Tail(rest) = SubSeq(P, c + 1 + 1, Len(P))
<1> Len(P) \in Nat /\ c \in Nat /\ c =< Len(P)
  OBVIOUS
<1> rest \in Seq(STRING) /\ Len(rest) = Len(P) - c
  OBVIOUS
<1> rest = <<>> <=> c = Len(P)
  <2> rest = <<>> <=> Len(rest) = 0
    BY ZenonT(30), EmptyLength
  <2> QED
    OBVIOUS
<1> ASSUME c < Len(P)
    PROVE  /\ Head(rest) = P[c + 1]
           /\ Tail(rest) = SubSeq(P, c + 1 + 1, Len(P))
  <2> Head(rest) = P[c + 1]
    OBVIOUS
  <2> Tail(rest) = SubSeq(P, c + 1 + 1, Len(P))
    OBVIOUS
  <2> QED
    BY ZenonT(30)
<1> QED
  OBVIOUS

LEMMA EmptySuffix ==
  ASSUME NEW P \in Seq(STRING), NEW c \in 0..Len(P), SubSeq(P, c + 1, Len(P)) = <<>>
  PROVE  c = Len(P)
<1> Len(SubSeq(P, c + 1, Len(P))) = Len(P) - c
  BY DropSegments
<1> Len(SubSeq(P, c + 1, Len(P))) = 0
  <2> Len(<<>>) = 0
    OBVIOUS
  <2> QED
    BY ZenonT(30)
<1> Len(P) \in Nat
  OBVIOUS
<1> QED
  OBVIOUS

(* Where the walk is, and what FileTree's walk does with the next segment. *)
LEMMA WalkAt ==
  ASSUME Known, TInv, walk \in {"resolve", "parent"}
  PROVE  \E c \in 0..Len(call.path.segs) :
           LET P == call.path.segs
               w == Passed(nodes, entries, mounts, walk, call.path)
           IN /\ segs = SubSeq(P, c + 1, Len(P))
              /\ w[c] = Places(nodes, entries, stack)
              /\ FileTree!End(w[c]) = PlaceOf(nodes, entries[Top].node)
              /\ segs # <<>> => /\ Seg = P[c + 1] /\ c + 1 \in 0..Len(P)
                                /\ w[c + 1] = NextPlaces
<1> DEFINE P == call.path.segs
           w == Passed(nodes, entries, mounts, walk, call.path)
           t == TreeOf(nodes, mounts)
           pts == PointsOf(entries, mounts)
           here == Places(nodes, entries, stack)
           d == entries[Top].node
<1>1. P \in Seq(STRING)
  BY ZenonT(30), PathSegs
<1> PICK c \in 0..Len(P) : segs = SubSeq(P, c + 1, Len(P)) /\ w[c] = here
  BY ZenonT(30) DEF TInv, TrueWalk, At
<1> /\ stack \in Seq(Nat) /\ stack # <<>> /\ Top \in DOMAIN entries /\ d \in DOMAIN nodes
  BY ZenonT(30), TopThere
<1> FileTree!End(here) = PlaceOf(nodes, d)
  BY ZenonT(30), LastPlace DEF Top
<1>5. ASSUME segs # <<>>
      PROVE  Seg = P[c + 1] /\ c + 1 \in 0..Len(P) /\ w[c + 1] = NextPlaces
  <2> Seg = P[c + 1] /\ c + 1 \in 0..Len(P) /\ c < Len(P)
    BY <1>1, <1>5, DropSegments DEF Seg
  <2>2. w[c + 1] = FileTree!WalkSegment(t, pts, walk, w[c], P[c + 1])
    BY <1>1, WalkSteps DEF Passed
  <2> DEFINE child == ChildOf(nodes, entries, mounts, d, Seg)
  <2>3. w[c + 1] = FileTree!WalkSegment(t, pts, walk, here, Seg)
    BY ZenonT(30), <2>2
  <2>4. FileTree!End(here) \notin FileTree!Nowhere
    BY ZenonT(30), PlaceIsSomewhere
  <2>5. FileTree!IsDirIn(t, FileTree!End(here)) <=> IsDirectory(Top)
    BY ZenonT(30), PlaceIsDirectory DEF IsDirectory, NodeOf
  <2>6. IsDirectory(Top) => FileTree!Down(t, pts, here, Seg) =
          IF child = FileTree!Missing THEN <<FileTree!Missing>> ELSE Append(here, child)
    <3> SUFFICES ASSUME IsDirectory(Top)
                 PROVE  FileTree!Down(t, pts, here, Seg) =
                          IF child = FileTree!Missing THEN <<FileTree!Missing>>
                          ELSE Append(here, child)
      OBVIOUS
    <3>1. nodes[d].kind # "CharDevice"
      BY DEF IsDirectory, NodeOf
    <3>2. FileTree!End(here) = <<"node", d>>
      BY ZenonT(30), <3>1, TreeNode
    <3>3. FileTree!End(here)[2] = d
      BY <3>2
    <3> QED
      BY ZenonT(30), <3>3 DEF FileTree!Down, ChildOf
  <2>7. FileTree!Dots = Dots
    BY ZenonT(30) DEF FileTree!Dots, Dots
  <2>8. w[c + 1] = NextPlaces
    BY ZenonT(30), <2>3, <2>4, <2>5, <2>6, <2>7 DEF NextPlaces, FileTree!WalkSegment
  <2> QED
    BY ZenonT(30), <2>8
<1>6. FileTree!End(w[c]) = PlaceOf(nodes, d)
  BY ZenonT(30)
<1> QED
  BY ZenonT(30), <1>5, <1>6

\* FileTree sees no change in what is stored and open.
SameTree ==
  /\ TreeOf(nodes', mounts') = TreeOf(nodes, mounts)
  /\ RootOf(entries', mounts') = RootOf(entries, mounts)
  /\ PointsOf(entries', mounts') = PointsOf(entries, mounts)
  /\ FilesOf(nodes', files') = FilesOf(nodes, files)

LEMMA SameStutters ==
  ASSUME SameTree, UNCHANGED <<next_fd, ret, panic>>
  PROVE  UNCHANGED FileTree!vars
BY ZenonT(30) DEF SameTree, FileTree!vars

LEMMA SamePassed ==
  ASSUME SameTree, NEW mode, NEW path
  PROVE  Passed(nodes', entries', mounts', mode, path) = Passed(nodes, entries, mounts, mode, path)
BY ZenonT(30) DEF SameTree, Passed

(* What is dropped after a step that changes no object is not missed.      *)
LEMMA SettleSame ==
  ASSUME Known, IInv', TInv, NEW hs, NEW st \in Seq(Nat), hs \subseteq DOMAIN entries,
         \A i \in DOMAIN st : st[i] \in DOMAIN entries,
         Settle(nodes, entries, mounts, files, hs, st), table' = table
  PROVE  /\ TrueStore(nodes', entries', table', mounts') /\ SameTree /\ stack' = st
         /\ Places(nodes', entries', st) = Places(nodes, entries, st)
         /\ DOMAIN nodes' \subseteq DOMAIN nodes
         /\ \A i \in DOMAIN st : /\ entries'[st[i]] = entries[st[i]]
                                 /\ nodes'[entries[st[i]].node] = nodes[entries[st[i]].node]
<1>1. /\ \A e \in DOMAIN entries : entries[e].chain \subseteq DOMAIN entries
      /\ \A m \in DOMAIN mounts : mounts[m].root \in DOMAIN entries
      /\ mounts \in Seq(MountRecord)
  BY ZenonT(30) DEF Known, IInv, Good, GoodEntries, GoodEntry, GoodRefs
<1> /\ Left(nodes, entries, mounts, files, st, nodes', entries')
    /\ mounts' = mounts /\ files' = files /\ stack' = st
  BY ZenonT(30), <1>1, SettleLeft
<1>3. TrueStore(nodes, entries, table, mounts)
  BY ZenonT(30) DEF TInv
<1>4. TrueStore(nodes', entries', table, mounts)
  BY ZenonT(30), <1>3, LeftTrue
<1>5. /\ TreeOf(nodes', mounts) = TreeOf(nodes, mounts)
      /\ RootOf(entries', mounts) = RootOf(entries, mounts)
      /\ PointsOf(entries', mounts) = PointsOf(entries, mounts)
      /\ FilesOf(nodes', files) = FilesOf(nodes, files)
      /\ Places(nodes', entries', st) = Places(nodes, entries, st)
  BY <1>1, <1>3, LeftSame
<1>6. /\ DOMAIN nodes' \subseteq DOMAIN nodes
      /\ \A i \in DOMAIN st : /\ entries'[st[i]] = entries[st[i]]
                              /\ nodes'[entries[st[i]].node] = nodes[entries[st[i]].node]
  BY ZenonT(30) DEF Left
<1> QED
  BY ZenonT(30), <1>4, <1>5, <1>6 DEF SameTree

LEMMA NodeCount ==
  ASSUME Known
  PROVE  Cardinality(DOMAIN nodes) \in Nat /\ MaxNodes \in Nat
BY ZenonT(30) DEF Known, NodesCounted

LEMMA FewerNodes ==
  ASSUME Known, NEW ns, DOMAIN ns \subseteq DOMAIN nodes
  PROVE  Cardinality(DOMAIN ns) \in Nat /\ Cardinality(DOMAIN ns) =< Cardinality(DOMAIN nodes)
BY ZenonT(30) DEF Known, NodesCounted

LEMMA RoomAtDirectory ==
  ASSUME Known, TInv, walk # "none", walk \in {"resolve", "parent"} => IsDirectory(Top)
  PROVE  Cardinality(DOMAIN nodes) + 1 < MaxNodes
BY ZenonT(30) DEF TInv, RoomLeft

LEMMA RoomKept ==
  ASSUME Known, TInv, walk # "none", walk \in {"resolve", "parent"} => IsDirectory(Top),
         DOMAIN nodes' \subseteq DOMAIN nodes
  PROVE  RoomLeft'
<1> Cardinality(DOMAIN nodes') + 1 < MaxNodes
  BY RoomAtDirectory, NodeCount, FewerNodes
<1> QED
  BY ZenonT(30) DEF RoomLeft

(* One segment on.                                                         *)
LEMMA WalkOn ==
  ASSUME Known, TInv, walk \in {"resolve", "parent"}, segs # <<>>,
         walk = "parent" => Len(segs) > 1,
         SameTree, Places(nodes', entries', stack') = NextPlaces,
         segs' = Tail(segs), UNCHANGED <<call, walk>>
  PROVE  TrueWalk'
<1> DEFINE P == call.path.segs
           w == Passed(nodes, entries, mounts, walk, call.path)
<1>1. PICK c \in 0..Len(P) :
        /\ segs = SubSeq(P, c + 1, Len(P))
        /\ Seg = P[c + 1] /\ c + 1 \in 0..Len(P) /\ w[c + 1] = NextPlaces
  BY ZenonT(30), WalkAt
<1>2. P \in Seq(STRING)
  BY ZenonT(30), PathSegs
<1>3. Tail(segs) = SubSeq(P, c + 1 + 1, Len(P)) /\ Len(segs) = Len(P) - c
  BY <1>1, <1>2, DropSegments
<1>4. w = Passed(nodes', entries', mounts', walk, call.path)
  BY ZenonT(30), SamePassed
<1>5. At(nodes', entries', mounts', stack', walk, call.path, segs')
  BY ZenonT(30), <1>1, <1>3, <1>4 DEF At
<1>6. Absent(nodes', entries', mounts', call.path) <=> Absent(nodes, entries, mounts, call.path)
  BY ZenonT(30), SamePassed DEF Absent
<1>7. walk = "parent" => segs' # <<>>
  <2>1. ASSUME walk = "parent"
        PROVE  Len(Tail(segs)) # 0
    <3>1. segs \in Seq(STRING)
      BY <1>1, <1>2
    <3> QED
      BY <3>1, <2>1
  <2> QED
    BY ZenonT(30), <2>1
<1> QED
  BY ZenonT(30), <1>5, <1>6, <1>7 DEF TInv, TrueWalk

LEMMA LastOfPush ==
  ASSUME NEW ns, NEW es, NEW st \in Seq(Nat), NEW x
  PROVE  FileTree!End(Append(Places(ns, es, st), x)) = x
<1> DEFINE P(y) == PlaceOf(ns, es[y].node)
           L == {P(y) : y \in Nat} \cup {x}
           ps == [i \in 1..Len(st) |-> P(st[i])]
<1> HIDE DEF P
<1> Len(st) \in Nat /\ \A i \in 1..Len(st) : st[i] \in Nat
  OBVIOUS
<1> ps \in Seq(L)
  OBVIOUS
<1> FileTree!End(Append(ps, x)) = x
  BY DEF FileTree!End
<1> QED
  BY ZenonT(30) DEF Places, P

(* The end of resolve_path: all segments are resolved, or the walk fails,  *)
(* or something is missing.                                                *)
LEMMA TargetIs ==
  FileTree!Target(call.path) =
    FileTree!End(Passed(nodes, entries, mounts, "resolve", call.path)[Len(call.path.segs)])
BY ZenonT(30) DEF FileTree!Target, Passed

LEMMA TargetFound ==
  ASSUME Known, TInv, walk = "resolve", segs = <<>>
  PROVE  FileTree!Target(call.path) = PlaceOf(nodes, entries[Top].node)
<1> DEFINE P == call.path.segs
           w == Passed(nodes, entries, mounts, walk, call.path)
<1> PICK c \in 0..Len(P) : /\ segs = SubSeq(P, c + 1, Len(P))
                           /\ FileTree!End(w[c]) = PlaceOf(nodes, entries[Top].node)
  BY ZenonT(30), WalkAt
<1> P \in Seq(STRING)
  BY ZenonT(30), PathSegs
<1> c = Len(P)
  BY ZenonT(30), EmptySuffix
<1> QED
  BY ZenonT(30), TargetIs

LEMMA TargetNowhere ==
  ASSUME Known, TInv, walk = "resolve", segs # <<>>,
         NEW x \in FileTree!Nowhere, NextPlaces = <<x>>
  PROVE  FileTree!Target(call.path) = x
<1> DEFINE P == call.path.segs
           w == Passed(nodes, entries, mounts, walk, call.path)
<1> PICK c \in 0..Len(P) : c + 1 \in 0..Len(P) /\ w[c + 1] = <<x>>
  BY ZenonT(30), WalkAt
<1> P \in Seq(STRING)
  BY ZenonT(30), PathSegs
<1> FileTree!End(w[c + 1]) = x
  BY ZenonT(30), LastOfOne
<1> Len(P) \in (c + 1)..Len(P)
  OBVIOUS
<1> \A j \in (c + 1)..Len(P) : w[j] = w[c + 1]
  <2> w = FileTree!Walk(TreeOf(nodes, mounts), PointsOf(entries, mounts),
                        RootOf(entries, mounts), walk, P)
    BY ZenonT(30) DEF Passed
  <2> FileTree!End(w[c + 1]) \in FileTree!Nowhere
    BY ZenonT(30)
  <2> HIDE DEF w
  <2> QED
    BY WalkStuck
<1> QED
  BY ZenonT(30), TargetIs

LEMMA TargetMissing ==
  ASSUME TInv, walk \in {"missing", "parent"}
  PROVE  FileTree!Target(call.path) = FileTree!Missing
<1> walk # "none"
  OBVIOUS
<1> QED
  BY ZenonT(30), TargetIs DEF TInv, TrueWalk, Absent

(* The end of resolve_path_parent_directory.                               *)
LEMMA ParentIs ==
  FileTree!ParentOf(call.path) =
    LET dir == FileTree!End(Passed(nodes, entries, mounts, "parent", call.path)
                               [Len(call.path.segs) - 1])
    IN IF dir \in FileTree!Nowhere THEN dir
       ELSE IF ~FileTree!IsDirIn(TreeOf(nodes, mounts), dir) THEN FileTree!NotDir
       ELSE IF FileTree!End(call.path.segs) \in FileTree!Dots THEN FileTree!Unhandled
       ELSE dir
BY ZenonT(30) DEF FileTree!ParentOf, FileTree!IsDir, Passed

LEMMA ParentNowhere ==
  ASSUME Known, TInv, walk = "parent", Len(segs) > 1,
         NEW x \in FileTree!Nowhere, NextPlaces = <<x>>
  PROVE  FileTree!ParentOf(call.path) = x
<1> DEFINE P == call.path.segs
           w == Passed(nodes, entries, mounts, walk, call.path)
<1>0. segs # <<>>
  BY DEF TInv, TrueWalk
<1>1. PICK c \in 0..Len(P) : /\ segs = SubSeq(P, c + 1, Len(P))
                             /\ c + 1 \in 0..Len(P) /\ w[c + 1] = <<x>>
  BY ZenonT(30), <1>0, WalkAt
<1>2. P \in Seq(STRING)
  BY ZenonT(30), PathSegs
<1>3. FileTree!End(w[c + 1]) = x
  BY ZenonT(30), <1>1, LastOfOne
<1>4. Len(segs) = Len(P) - c
  BY <1>1, <1>2, DropSegments
<1>5. Len(P) - 1 \in (c + 1)..Len(P)
  BY <1>1, <1>2, <1>4
<1>6. \A j \in (c + 1)..Len(P) : w[j] = w[c + 1]
  <2>1. w = FileTree!Walk(TreeOf(nodes, mounts), PointsOf(entries, mounts),
                          RootOf(entries, mounts), walk, P)
    BY ZenonT(30) DEF Passed
  <2>2. FileTree!End(w[c + 1]) \in FileTree!Nowhere
    BY ZenonT(30), <1>3
  <2> HIDE DEF w
  <2> QED
    BY <2>1, <2>2, <1>1, <1>2, WalkStuck
<1> QED
  BY ZenonT(30), <1>3, <1>5, <1>6, ParentIs

LEMMA ParentHere ==
  ASSUME Known, TInv, walk = "parent", Len(segs) = 1
  PROVE  /\ Seg = FileTree!End(call.path.segs)
         /\ FileTree!ParentOf(call.path) =
              IF ~IsDirectory(Top) THEN FileTree!NotDir
              ELSE IF Seg \in Dots THEN FileTree!Unhandled
              ELSE PlaceOf(nodes, entries[Top].node)
<1> DEFINE P == call.path.segs
           w == Passed(nodes, entries, mounts, walk, call.path)
<1> PICK c \in 0..Len(P) : /\ segs = SubSeq(P, c + 1, Len(P))
                           /\ FileTree!End(w[c]) = PlaceOf(nodes, entries[Top].node)
                           /\ segs # <<>> => Seg = P[c + 1]
  BY ZenonT(30), WalkAt
<1> P \in Seq(STRING)
  BY ZenonT(30), PathSegs
<1> Len(segs) = Len(P) - c /\ segs # <<>>
  <2> Len(segs) = Len(P) - c
    BY DropSegments
  <2> QED
    BY ZenonT(30) DEF TInv, TrueWalk
<1> c = Len(P) - 1 /\ c + 1 = Len(P)
  <2> Len(P) \in Nat /\ c \in Nat
    OBVIOUS
  <2> Len(P) - c = 1
    BY ZenonT(30)
  <2> QED
    OBVIOUS
<1> Seg = FileTree!End(P)
  BY ZenonT(30) DEF FileTree!End
<1> PlaceOf(nodes, entries[Top].node) \notin FileTree!Nowhere
  BY ZenonT(30), PlaceIsSomewhere
<1> entries[Top].node \in DOMAIN nodes
  BY ZenonT(30), TopThere
<1> FileTree!IsDirIn(TreeOf(nodes, mounts), PlaceOf(nodes, entries[Top].node))
      <=> IsDirectory(Top)
  BY ZenonT(30), PlaceIsDirectory DEF IsDirectory, NodeOf
<1> FileTree!Dots = Dots
  BY ZenonT(30) DEF FileTree!Dots, Dots
<1> QED
  BY ZenonT(30), ParentIs

(* What is to be created is missing in the directory it is created in: no  *)
(* entry is cached, nothing is on disk and nothing is mounted there.       *)
LEMMA ParentFree ==
  ASSUME Known, TInv, AtParent
  PROVE  /\ ~Cached(Top, Seg) /\ ~NameOnDisk(nodes, mounts, entries[Top].node, Seg)
         /\ MountsAt(Top, Seg) = {}
         /\ <<entries[Top].node, Seg>> \notin DOMAIN PointsOf(entries, mounts)
<1> DEFINE P == call.path.segs
           v == Passed(nodes, entries, mounts, "parent", call.path)
           w == Passed(nodes, entries, mounts, "resolve", call.path)
           t == TreeOf(nodes, mounts)
           pts == PointsOf(entries, mounts)
           r == RootOf(entries, mounts)
           d == entries[Top].node
           child == ChildOf(nodes, entries, mounts, d, Seg)
           here == Places(nodes, entries, stack)
<1>1. walk = "parent" /\ Len(segs) = 1 /\ IsDirectory(Top) /\ Seg \notin Dots
  BY ZenonT(30) DEF AtParent
<1>2. P \in Seq(STRING) /\ segs # <<>>
  BY ZenonT(30), <1>1, PathSegs DEF TInv, TrueWalk
<1>3. PICK c \in 0..Len(P) : /\ segs = SubSeq(P, c + 1, Len(P)) /\ v[c] = here
                             /\ FileTree!End(v[c]) = PlaceOf(nodes, d)
                             /\ Seg = P[c + 1] /\ c + 1 \in 0..Len(P)
                             /\ v[c + 1] = NextPlaces
  BY ZenonT(30), <1>1, <1>2, WalkAt
<1>4. c + 1 = Len(P) /\ c < Len(P)
  <2>1. Len(segs) = Len(P) - c
    BY <1>2, <1>3, DropSegments
  <2>2. Len(P) \in Nat /\ c \in Nat
    BY <1>2
  <2>3. Len(P) - c = 1
    BY ZenonT(30), <2>1, <1>1
  <2> QED
    BY <2>2, <2>3
<1>5. w[c] = v[c]
  <2>1. FileTree!End(v[c]) \notin FileTree!Nowhere
    BY ZenonT(30), <1>3, PlaceIsSomewhere
  <2>2. w = FileTree!Walk(t, pts, r, "resolve", P) /\ v = FileTree!Walk(t, pts, r, "parent", P)
    BY ZenonT(30) DEF Passed
  <2> HIDE DEF v, w, t, pts, r
  <2> QED
    BY <2>1, <2>2, <1>2, WalksAgree
<1>6. w[c + 1] = v[c + 1]
  <2>1. w[c + 1] = FileTree!WalkSegment(t, pts, "resolve", w[c], P[c + 1])
    BY <1>2, <1>4, WalkSteps DEF Passed
  <2>2. v[c + 1] = FileTree!WalkSegment(t, pts, "parent", v[c], P[c + 1])
    BY <1>2, <1>4, WalkSteps DEF Passed
  <2>3. P[c + 1] \notin FileTree!Dots
    BY ZenonT(30), <1>1, <1>3 DEF FileTree!Dots, Dots
  <2>4. FileTree!WalkSegment(t, pts, "resolve", v[c], P[c + 1])
          = FileTree!WalkSegment(t, pts, "parent", v[c], P[c + 1])
    <3> DEFINE x == v[c]
               seg == P[c + 1]
    <3> HIDE DEF x, seg, t, pts
    <3>1. FileTree!WalkSegment(t, pts, "resolve", x, seg)
            = FileTree!WalkSegment(t, pts, "parent", x, seg)
      BY <2>3 DEF FileTree!WalkSegment, seg
    <3> QED
      BY ZenonT(30), <3>1 DEF x, seg
  <2> HIDE DEF v, w, t, pts
  <2> QED
    BY ZenonT(30), <2>1, <2>2, <2>4, <1>5
<1>7. FileTree!End(NextPlaces) = FileTree!Missing
  <2>1. Absent(nodes, entries, mounts, call.path)
    BY ZenonT(30), <1>1 DEF TInv, TrueWalk
  <2> QED
    BY ZenonT(30), <2>1, <1>3, <1>4, <1>6 DEF Absent
<1>8. child = FileTree!Missing
  <2> SUFFICES ASSUME child # FileTree!Missing
               PROVE  FALSE
    OBVIOUS
  <2>1. NextPlaces = Append(here, child)
    BY ZenonT(30), <1>1 DEF NextPlaces
  <2>2. stack \in Seq(Nat)
    BY ZenonT(30), <1>1, TopThere
  <2>3. FileTree!End(Append(here, child)) = child
    <3> HIDE DEF child
    <3> QED
      BY <2>2, LastOfPush
  <2> QED
    BY ZenonT(30), <2>1, <2>3, <1>7
<1>9. GoodStore(nodes, entries, table, mounts) /\ TrueStore(nodes, entries, table, mounts)
  BY ZenonT(30), StoreOfGood DEF Known, IInv, TInv
<1>10. Top \in DOMAIN entries /\ nodes[d].kind = "Directory"
  BY ZenonT(30), <1>1, TopThere DEF IsDirectory, NodeOf
<1>11. ~Cached(Top, Seg)
  <2> SUFFICES ASSUME Cached(Top, Seg)
               PROVE  FALSE
    OBVIOUS
  <2> DEFINE e == table[<<Top, Seg>>]
  <2>1. child = PlaceOf(nodes, entries[e].node)
    <3>1. <<Top, Seg>> \in DOMAIN table /\ e \in DOMAIN entries
      BY ZenonT(30) DEF Cached
    <3> QED
      BY <3>1, <1>9, <1>10, ChildCached
  <2> QED
    BY ZenonT(30), <2>1, <1>8, PlaceIsSomewhere DEF FileTree!Nowhere
<1>12. Unknown(entries, table, Top, Seg)
  BY ZenonT(30), <1>11 DEF Cached, Unknown
<1>13. /\ \A m \in DOMAIN mounts : ~(/\ entries[mounts[m].root].parent = Top
                                     /\ entries[mounts[m].root].name = Seg)
       /\ <<d, Seg>> \notin DOMAIN PointsOf(entries, mounts)
  BY <1>9, <1>10, <1>12, NotCachedNotMounted
<1>14. DiskChild(nodes, mounts, d, Seg) = FileTree!Missing
  BY <1>8, <1>9, <1>10, <1>12, ChildNotCached
<1>15. ~NameOnDisk(nodes, mounts, d, Seg)
  BY ZenonT(30), <1>14, OnDiskIsSomewhere
<1> QED
  BY ZenonT(30), <1>11, <1>13, <1>15 DEF MountsAt
-----------------------------------------------------------------------------
(* How a step of Vfs ends, and what it is for FileTree.                    *)

Abstract == UNCHANGED FileTree!vars \/ FileTree!Next

(* FileTree has its own copies of what the calls are made of.              *)
LEMMA SameCalls ==
  /\ FileTree!Dots = Dots /\ FileTree!Devices = Devices /\ FileTree!Empty = Empty
  /\ \A c : FileTree!UnknownType(c) = UnknownType(c)
  /\ \A c : FileTree!Creates(c) = Creates(c)
  /\ \A m : FileTree!is_mutating(m) = is_mutating(m)
  /\ \A r : FileTree!Result(r) = Result(r)
  /\ \A l : FileTree!Listing(l) = Listing(l)
  /\ \A d : FileTree!HasRead(d) = HasRead(d) /\ FileTree!HasWrite(d) = HasWrite(d)
<1> \A m : FileTree!is_mutating(m) = is_mutating(m)
  BY ZenonT(30) DEF FileTree!is_mutating, is_mutating
<1> \A c : FileTree!Creates(c) = Creates(c)
  BY ZenonT(30) DEF FileTree!Creates, Creates
<1> \A c : FileTree!UnknownType(c) = UnknownType(c)
  BY ZenonT(30) DEF FileTree!UnknownType, UnknownType, FileTree!FileSystemTypes,
     FileSystemTypes
<1> FileTree!Empty = Empty
  BY ZenonT(30) DEF FileTree!Empty, Empty
<1> \A r : FileTree!Result(r) = Result(r)
  BY ZenonT(30) DEF FileTree!Result, Result
<1> \A l : FileTree!Listing(l) = Listing(l)
  BY ZenonT(30) DEF FileTree!Listing, Listing
<1> QED
  BY ZenonT(30) DEF FileTree!Dots, Dots, FileTree!Devices, Devices, FileTree!HasRead,
     HasRead, FileTree!HasWrite, HasWrite

(* A call that only returns, and one that panics.                          *)
LEMMA ReturnSame ==
  ASSUME SameTree, NEW r, ret' = Result(r), UNCHANGED <<next_fd, panic>>
  PROVE  FileTree!Return(r)
BY ZenonT(30), SameCalls DEF SameTree, FileTree!Return

LEMMA PanicSame ==
  ASSUME SameTree, NEW why, panic' = why, UNCHANGED <<next_fd, ret>>
  PROVE  FileTree!Panic(why)
BY ZenonT(30) DEF SameTree, FileTree!Panic

LEMMA StoreSame ==
  ASSUME UNCHANGED <<nodes, entries, mounts, files>>
  PROVE  SameTree
BY ZenonT(30) DEF SameTree

(* Between calls there is no walk.                                         *)
LEMMA EndTrue ==
  ASSUME TrueStore(nodes', entries', table', mounts'), walk' = "none"
  PROVE  TInv'
BY ZenonT(30) DEF TInv, TrueWalk, RoomLeft

LEMMA PanicTrue ==
  ASSUME TInv, NEW why, Panic(why)
  PROVE  TInv' /\ FileTree!Panic(why)
<1> /\ UNCHANGED <<nodes, entries, table, mounts, files, held>>
    /\ UNCHANGED <<next_fd, call, walk, segs, stack, ret>> /\ panic' = why
  BY ZenonT(30) DEF Panic, store
<1> TrueWalk' /\ RoomLeft'
  BY ZenonT(30) DEF TInv, TrueWalk, RoomLeft, Top, IsDirectory, NodeOf
<1> QED
  BY ZenonT(30), StoreSame, PanicSame DEF TInv

LEMMA NoEntries ==
  <<>> \in Seq(Nat) /\ \A i \in DOMAIN <<>> : <<>>[i] \in DOMAIN entries
OBVIOUS

LEMMA FailTrue ==
  ASSUME Known, IInv', TInv, NEW r, Fail(r)
  PROVE  TInv' /\ FileTree!Return(r)
<1> held \subseteq DOMAIN entries
  BY ZenonT(30) DEF Known, IInv, Good, GoodRefs
<1> TrueStore(nodes', entries', table', mounts') /\ SameTree
  BY ZenonT(30), NoEntries, SettleSame DEF Fail
<1> QED
  BY ZenonT(30), EndTrue, ReturnSame DEF Fail, Return

(* The call in progress is one of FileTree's with an absolute path.        *)
LEMMA RootThere ==
  ASSUME Known, mounts # <<>>
  PROVE  RootOf(entries, mounts) \in DOMAIN nodes /\ RootOf(entries, mounts) # FileTree!NoNode
<1>1. mounts[1].root \in DOMAIN entries
  <2>1. 1 \in DOMAIN mounts
    BY DEF Known, IInv, Good, GoodRefs
  <2> QED
    BY ZenonT(30), <2>1 DEF Known, IInv, Good, GoodRefs
<1>2. entries[mounts[1].root].node \in DOMAIN nodes /\ DOMAIN nodes \subseteq Nat \ {NULL}
  BY ZenonT(30), <1>1 DEF Known, IInv, Good, GoodEntries, GoodEntry, GoodNodes
<1>3. NULL = 0 /\ FileTree!NoNode = 0
  BY DEF NULL, FileTree!NoNode
<1> QED
  BY <1>2, <1>3 DEF RootOf

LEMMA CallOf ==
  ASSUME Known, TInv, Running, walk # "none",
         FileTree!OnPath(call, FileTree!Target(call.path))
  PROVE  FileTree!Next
<1> /\ call \in Calls /\ call.path.kind = "absolute" /\ ~UnknownType(call)
    /\ ~(call.op = "mount" /\ call.path.segs = <<>>)
  BY ZenonT(30) DEF TInv, TrueWalk, IsRootPath
<1> RootOf(entries, mounts) # FileTree!NoNode
  BY ZenonT(30), RootThere DEF Known, IInv, Good, GoodControl
<1> FileTree!Absolute(call)
  BY ZenonT(30) DEF FileTree!Absolute
<1> FileTree!Call(call)
  BY ZenonT(30), SameCalls DEF FileTree!Call, Running
<1> QED
  BY ZenonT(30) DEF FileTree!Next

-----------------------------------------------------------------------------
(* New objects.                                                            *)

\* Zenon proves most of the steps from here on, and a leaf that needs arithmetic
\* or records says SMT.  A step without a name is known to all that follow it.
USE ZenonT(30)

(* The id of a new entry is neither alive nor in the table.                *)
LEMMA FreshNotInTable ==
  ASSUME Known
  PROVE  \A k \in DOMAIN table : table[k] # FreshEntry
BY DEF Known, NewIdsFresh

LEMMA FreshIn ==
  ASSUME Known, NEW p \in DOMAIN entries, NEW n, NEW name
  PROVE  LET r == NewEntry(p, n, name)
         IN NewIn(entries, table, p, name, FreshEntry, r,
                  Extend(entries, FreshEntry, r), Extend(table, <<p, name>>, FreshEntry))
<1> p # NULL /\ FreshEntry \notin DOMAIN entries
  BY NewIds DEF Known, IInv, Good, GoodEntries
<1> NewEntry(p, n, name).parent = p /\ NewEntry(p, n, name).name = name
  BY SMTT(30) DEF NewEntry
<1> QED
  BY FreshNotInTable DEF NewIn

(* The new entry's chain consists of entries.                              *)
LEMMA NewChain ==
  ASSUME Known, NEW p \in DOMAIN entries, NEW n, NEW name
  PROVE  NewEntry(p, n, name).chain \subseteq DOMAIN entries /\ NewEntry(p, n, name).node = n
<1> entries[p].chain \subseteq DOMAIN entries /\ p # NULL
  BY DEF Known, IInv, Good, GoodEntries, GoodEntry
<1> QED
  BY SMTT(30) DEF NewEntry

LEMMA OldChains ==
  ASSUME Known, NEW e \in DOMAIN entries
  PROVE  entries[e].chain \subseteq DOMAIN entries
BY DEF Known, IInv, Good, GoodEntries, GoodEntry

(* The id of a new node is within the bound, if there is room.             *)
LEMMA FreshNodeFits ==
  ASSUME Known, Cardinality(DOMAIN nodes) < MaxNodes
  PROVE  FreshNode \in 1..MaxNodes /\ FreshNode \notin DOMAIN nodes /\ FreshNode # NULL
<1> FreshNode \notin DOMAIN nodes /\ FreshNode \in Nat \ {NULL}
  BY NewIds
<1> FreshNode \in 1..MaxNodes
  BY DEF Known, NodesCounted
<1> QED
  OBVIOUS

-----------------------------------------------------------------------------
(* Calls that change files, nodes or mounts.                               *)

(* What FileTree sees after a step that ends with Settle.                  *)
LEMMA SettleTrue ==
  ASSUME NEW ns, NEW es, NEW tb, NEW ms, NEW fs, NEW hs, NEW st, IInv',
         Settle(ns, es, ms, fs, hs, st), table' = tb, TrueStore(ns, es, tb, ms),
         \A e \in DOMAIN es : es[e].chain \subseteq DOMAIN es,
         \A m \in DOMAIN ms : ms[m].root \in DOMAIN es,
         hs \subseteq DOMAIN es, \A i \in DOMAIN st : st[i] \in DOMAIN es
  PROVE  /\ TrueStore(nodes', entries', table', mounts')
         /\ TreeOf(nodes', mounts') = TreeOf(ns, ms)
         /\ RootOf(entries', mounts') = RootOf(es, ms)
         /\ PointsOf(entries', mounts') = PointsOf(es, ms)
         /\ FilesOf(nodes', files') = FilesOf(ns, fs)
<1>1. Left(ns, es, ms, fs, st, nodes', entries') /\ mounts' = ms /\ files' = fs
  BY SettleLeft
<1>2. ms \in Seq(MountRecord)
  BY <1>1 DEF Known, IInv, Good, GoodRefs
<1>3. TrueStore(nodes', entries', tb, ms)
  BY <1>1, LeftTrue
<1>4. /\ TreeOf(nodes', ms) = TreeOf(ns, ms)
      /\ RootOf(entries', ms) = RootOf(es, ms)
      /\ PointsOf(entries', ms) = PointsOf(es, ms)
      /\ FilesOf(nodes', fs) = FilesOf(ns, fs)
  <2>1. TrueStore(ns, es, tb, ms)
    OBVIOUS
  <2> QED
    BY ONLY SMTT(30), <1>1, <1>2, <2>1, LeftSame
<1> QED
  BY <1>1, <1>3, <1>4

(* The same, if the entries and mounts stay.                               *)
LEMMA SettleNodes ==
  ASSUME Known, IInv', NEW ns, NEW tb, NEW fs, NEW st,
         Settle(ns, entries, mounts, fs, held, st), table' = tb,
         TrueStore(ns, entries, tb, mounts), \A i \in DOMAIN st : st[i] \in DOMAIN entries
  PROVE  /\ TrueStore(nodes', entries', table', mounts')
         /\ TreeOf(nodes', mounts') = TreeOf(ns, mounts)
         /\ RootOf(entries', mounts') = RootOf(entries, mounts)
         /\ PointsOf(entries', mounts') = PointsOf(entries, mounts)
         /\ FilesOf(nodes', files') = FilesOf(ns, fs)
<1>1. /\ \A e \in DOMAIN entries : entries[e].chain \subseteq DOMAIN entries
      /\ \A m \in DOMAIN mounts : mounts[m].root \in DOMAIN entries
      /\ held \subseteq DOMAIN entries
  BY OldChains DEF Known, IInv, Good, GoodRefs
<1> QED
  BY <1>1, SettleTrue

\* Nodes that differ in what FileTree does not see.
SameNodes(ns, ns2) ==
  /\ DOMAIN ns2 = DOMAIN ns
  /\ \A n \in DOMAIN ns : /\ ns2[n].mount = ns[n].mount /\ ns2[n].kind = ns[n].kind
                          /\ ns2[n].device = ns[n].device /\ ns2[n].data = ns[n].data
                          /\ ns2[n].kids = ns[n].kids

LEMMA SameNodesTree ==
  ASSUME NEW ns, NEW ns2, SameNodes(ns, ns2), NEW ms
  PROVE  TreeOf(ns2, ms) = TreeOf(ns, ms)
<1> TreeNodes(ns2) = TreeNodes(ns) /\ \A n \in TreeNodes(ns) : n \in DOMAIN ns
  BY DEF SameNodes, TreeNodes
<1> DEFINE F(n) == [kind |-> ns[n].kind, fs |-> ms[ns[n].mount].fs,
                    data |-> ns[n].data, kids |-> ns[n].kids]
           G(n) == [kind |-> ns2[n].kind, fs |-> ms[ns2[n].mount].fs,
                    data |-> ns2[n].data, kids |-> ns2[n].kids]
           T == TreeNodes(ns)
<1> \A n \in T : G(n) = F(n)
  BY DEF SameNodes
<1> TreeOf(ns2, ms) = [n \in T |-> G(n)] /\ TreeOf(ns, ms) = [n \in T |-> F(n)]
  BY DEF TreeOf
<1> HIDE DEF F, G, T
<1> [n \in T |-> G(n)] = [n \in T |-> F(n)]
  BY SMTT(30)
<1> QED
  OBVIOUS

\* Nodes that stay what they are.
KeptNodes(ns, ns2) ==
  \A n \in DOMAIN ns : /\ n \in DOMAIN ns2 /\ ns2[n].kind = ns[n].kind
                       /\ ns2[n].device = ns[n].device

LEMMA KeptPlace ==
  ASSUME NEW ns, NEW ns2, KeptNodes(ns, ns2), NEW n \in DOMAIN ns
  PROVE  PlaceOf(ns2, n) = PlaceOf(ns, n)
BY DEF KeptNodes, PlaceOf, TreeNodes

LEMMA KeptFiles ==
  ASSUME Known, NEW ns2, KeptNodes(nodes, ns2)
  PROVE  FilesOf(ns2, files) = FilesOf(nodes, files)
<1> \A f \in DOMAIN files : files[f].node \in DOMAIN nodes
  BY DEF Known, IInv, Good, GoodFiles, GoodFile
<1> \A f \in DOMAIN files : PlaceOf(ns2, files[f].node) = PlaceOf(nodes, files[f].node)
  BY KeptPlace
<1> QED
  BY SMTT(30) DEF FilesOf

LEMMA SameNodesKept ==
  ASSUME NEW ns, NEW ns2, SameNodes(ns, ns2)
  PROVE  KeptNodes(ns, ns2)
BY DEF SameNodes, KeptNodes

LEMMA SameNodesTrue ==
  ASSUME NEW ns, NEW es, NEW tb, NEW ms, NEW ns2, SameNodes(ns, ns2),
         GoodStore(ns, es, tb, ms), TrueStore(ns, es, tb, ms)
  PROVE  TrueStore(ns2, es, tb, ms)
<1> \A e \in DOMAIN es : es[e].parent # NULL => es[es[e].parent].node \in DOMAIN ns
  BY DEF GoodStore, GoodEntries, GoodEntry
<1> SameDisk(ns, es, ns2)
  BY DEF SameDisk, SameNodes
<1> QED
  BY SameDiskTrue

LEMMA LinksSame ==
  ASSUME NEW ns, NEW n \in DOMAIN ns, DOMAIN ns[n] = NodeFields, NEW k
  PROVE  SameNodes(ns, [ns EXCEPT ![n].links = k])
<1> DEFINE ns2 == [ns EXCEPT ![n].links = k]
<1>1. DOMAIN ns2 = DOMAIN ns /\ \A x \in DOMAIN ns : x # n => ns2[x] = ns[x]
  BY SMTT(30)
<1>2. ns2[n] = [ns[n] EXCEPT !.links = k]
  BY SMTT(30)
<1>3. /\ ns2[n].mount = ns[n].mount /\ ns2[n].kind = ns[n].kind
      /\ ns2[n].device = ns[n].device /\ ns2[n].data = ns[n].data
      /\ ns2[n].kids = ns[n].kids
  BY SMTT(30), <1>2 DEF NodeFields
<1> HIDE DEF ns2
<1>4. SameNodes(ns, ns2)
  BY SMTT(30), <1>1, <1>3 DEF SameNodes
<1> QED
  BY <1>4 DEF ns2

(* A file more, as FileTree sees it.                                       *)
LEMMA FilesExtend ==
  ASSUME NEW ns, NEW fs, NEW fd, NEW n, NEW mode, NEW pos
  PROVE  FilesOf(ns, Extend(fs, fd, [node |-> n, mode |-> mode, pos |-> pos]))
           = FileTree!Extend(FilesOf(ns, fs), fd,
                             [at |-> PlaceOf(ns, n), mode |-> mode, pos |-> pos])
<1> DEFINE r == [node |-> n, mode |-> mode, pos |-> pos]
           fs2 == Extend(fs, fd, r)
           v == [at |-> PlaceOf(ns, n), mode |-> mode, pos |-> pos]
           A(g, f) == [at |-> PlaceOf(ns, g[f].node), mode |-> g[f].mode, pos |-> g[f].pos]
<1> DOMAIN fs2 = DOMAIN fs \cup {fd}
  BY DEF Extend
<1> fs2[fd] = r /\ \A f \in DOMAIN fs : f # fd => fs2[f] = fs[f]
  BY DEF Extend
<1> r.node = n /\ r.mode = mode /\ r.pos = pos
  BY SMTT(30)
<1> A(fs2, fd) = v
  OBVIOUS
<1> \A f \in DOMAIN fs : f # fd => A(fs2, f) = A(fs, f)
  OBVIOUS
<1> /\ FilesOf(ns, fs2) = [f \in DOMAIN fs2 |-> A(fs2, f)]
    /\ FilesOf(ns, fs) = [f \in DOMAIN fs |-> A(fs, f)]
  BY DEF FilesOf
<1> HIDE DEF A, v, fs2
<1> FilesOf(ns, fs2) = [f \in DOMAIN fs \cup {fd} |-> IF f = fd THEN v ELSE FilesOf(ns, fs)[f]]
  BY SMTT(30)
<1> DOMAIN FilesOf(ns, fs) = DOMAIN fs
  BY SMTT(30)
<1> QED
  BY DEF FileTree!Extend, v, fs2

(* A file is opened on the node n: FileTree's OpenAt.                      *)
LEMMA OpenIs ==
  ASSUME Known, NEW ns2, KeptNodes(nodes, ns2), NEW n, NEW mode, next_fd' = next_fd + 1,
         FilesOf(nodes', files')
           = FilesOf(ns2, Extend(files, next_fd, [node |-> n, mode |-> mode, pos |-> 0]))
  PROVE  FileTree!OpenAt(PlaceOf(ns2, n), mode)
<1> FilesOf(ns2, files) = FilesOf(nodes, files)
  BY KeptFiles
<1> FilesOf(ns2, Extend(files, next_fd, [node |-> n, mode |-> mode, pos |-> 0]))
      = FileTree!Extend(FilesOf(ns2, files), next_fd,
                        [at |-> PlaceOf(ns2, n), mode |-> mode, pos |-> 0])
  BY SMTT(30), FilesExtend
<1> FilesOf(nodes', files')
      = FileTree!Extend(FilesOf(nodes, files), next_fd,
                        [at |-> PlaceOf(ns2, n), mode |-> mode, pos |-> 0])
  OBVIOUS
<1> QED
  BY DEF FileTree!OpenAt

-----------------------------------------------------------------------------
(* Calls on descriptors, and the other calls without a path.               *)

\* What a call on a descriptor does, as FileTree sees it.
FileStep(r, ns, fs) ==
  /\ panic = "none" /\ ret' = Result(r) /\ next_fd' = next_fd /\ panic' = panic
  /\ TreeOf(nodes', mounts') = TreeOf(ns, mounts)
  /\ RootOf(entries', mounts') = RootOf(entries, mounts)
  /\ PointsOf(entries', mounts') = PointsOf(entries, mounts)
  /\ FilesOf(nodes', files') = FilesOf(ns, fs)

LEMMA OnFileTrue ==
  ASSUME Known, IInv', NEW r, NEW ns, NEW fs, Idle, OnFile(r, ns, fs),
         TrueStore(ns, entries, table, mounts)
  PROVE  TInv' /\ FileStep(r, ns, fs)
<1> /\ panic = "none" /\ walk' = "none" /\ ret' = Result(r) /\ next_fd' = next_fd
    /\ panic' = panic /\ table' = table
    /\ Settle(ns, entries, mounts, fs, held, stack)
  BY DEF OnFile, Idle, Running
<1> \A i \in DOMAIN stack : stack[i] \in DOMAIN entries
  BY DEF Known, IInv, Good, GoodRefs
<1> /\ TrueStore(nodes', entries', table', mounts')
    /\ TreeOf(nodes', mounts') = TreeOf(ns, mounts)
    /\ RootOf(entries', mounts') = RootOf(entries, mounts)
    /\ PointsOf(entries', mounts') = PointsOf(entries, mounts)
    /\ FilesOf(nodes', files') = FilesOf(ns, fs)
  BY SettleNodes
<1> QED
  BY EndTrue DEF FileStep

LEMMA FileReturns ==
  ASSUME NEW r, FileStep(r, nodes, files)
  PROVE  FileTree!Return(r)
BY SameCalls DEF FileStep, FileTree!Return

LEMMA StoreIsTrue ==
  ASSUME Known, TInv
  PROVE  TrueStore(nodes, entries, table, mounts) /\ GoodStore(nodes, entries, table, mounts)
BY StoreOfGood DEF Known, IInv, TInv

\* An open file, as FileTree sees it.
SeenFile(fd) ==
  LET n == files[fd].node
      f == FilesOf(nodes, files)[fd]
  IN /\ fd \in DOMAIN FilesOf(nodes, files) /\ n \in DOMAIN nodes
     /\ f.at = PlaceOf(nodes, n) /\ f.mode = files[fd].mode /\ f.pos = files[fd].pos
     /\ FileTree!IsDir(f.at) <=> nodes[n].kind = "Directory"
     /\ FileTree!OnDevice(fd) <=> nodes[n].kind = "CharDevice"
     /\ nodes[n].kind = "CharDevice" => f.at[2] = nodes[n].device
     /\ nodes[n].kind # "CharDevice" =>
          /\ f.at[2] = n /\ n \in DOMAIN TreeOf(nodes, mounts)
          /\ TreeOf(nodes, mounts)[n].data = nodes[n].data

LEMMA FileSeen ==
  ASSUME Known, NEW fd \in DOMAIN files
  PROVE  SeenFile(fd)
<1> DEFINE n == files[fd].node
           f == FilesOf(nodes, files)[fd]
<1>1. n \in DOMAIN nodes
  BY DEF Known, IInv, Good, GoodFiles, GoodFile
<1>2. fd \in DOMAIN FilesOf(nodes, files)
  BY DEF FilesOf
<1>3. f.at = PlaceOf(nodes, n) /\ f.mode = files[fd].mode /\ f.pos = files[fd].pos
  BY SMTT(30) DEF FilesOf
<1> HIDE DEF n
<1>4. FileTree!IsDir(f.at) <=> nodes[n].kind = "Directory"
  BY <1>1, <1>3, PlaceIsDirectory DEF FileTree!IsDir
<1>5. CASE nodes[n].kind = "CharDevice"
  <2>1. f.at = <<"device", nodes[n].device>>
    BY <1>3, <1>5 DEF PlaceOf, TreeNodes
  <2>2. f.at[1] = "device" /\ f.at[2] = nodes[n].device
    BY SMTT(30), <2>1
  <2> QED
    BY <1>1, <1>2, <1>3, <1>4, <1>5, <2>2 DEF SeenFile, FileTree!OnDevice, n
<1>6. CASE nodes[n].kind # "CharDevice"
  <2>1. f.at = <<"node", n>>
    BY <1>1, <1>3, <1>6 DEF PlaceOf, TreeNodes
  <2>2. f.at[1] # "device" /\ f.at[2] = n
    BY SMTT(30), <2>1
  <2>3. n \in DOMAIN TreeOf(nodes, mounts) /\ TreeOf(nodes, mounts)[n].data = nodes[n].data
    BY <1>1, <1>6, TreeNode
  <2> QED
    BY <1>1, <1>2, <1>3, <1>4, <1>6, <2>2, <2>3 DEF SeenFile, FileTree!OnDevice, n
<1> QED
  BY <1>5, <1>6

\* A call on the descriptor fd is a step of FileTree.
LEMMA OnFileNext ==
  ASSUME NEW fd \in 1..MaxFd, FileTree!OnDescriptor(fd)
  PROVE  Abstract
BY DEF Abstract, FileTree!Next

LEMMA BadDescriptorTrue ==
  ASSUME Known, IInv', TInv, NEW fd \in 1..MaxFd, BadDescriptor(fd)
  PROVE  TInv' /\ Abstract
<1> Idle /\ fd \notin DOMAIN files /\ OnFile("InvalidFile", nodes, files)
  BY DEF BadDescriptor
<1> TInv' /\ FileStep("InvalidFile", nodes, files)
  BY StoreIsTrue, OnFileTrue
<1> fd \notin DOMAIN FilesOf(nodes, files)
  BY DEF FilesOf
<1> FileTree!BadDescriptor(fd)
  BY FileReturns DEF FileTree!BadDescriptor, FileStep
<1> QED
  BY OnFileNext DEF FileTree!OnDescriptor

LEMMA DirectoryIoTrue ==
  ASSUME Known, IInv', TInv, NEW fd \in 1..MaxFd, DirectoryIo(fd)
  PROVE  TInv' /\ Abstract
<1> /\ panic = "none" /\ fd \in DOMAIN files /\ Panic("assert")
    /\ nodes[files[fd].node].kind = "Directory"
  BY DEF DirectoryIo, Idle, Running
<1> TInv' /\ FileTree!Panic("assert")
  BY PanicTrue
<1> FileTree!DirectoryIo(fd)
  BY FileSeen DEF FileTree!DirectoryIo, FileTree!IsOpen, SeenFile
<1> QED
  BY OnFileNext DEF FileTree!OnDescriptor

LEMMA WrongModeTrue ==
  ASSUME Known, IInv', TInv, NEW fd \in 1..MaxFd, NEW mode \in {"Read", "Write"},
         WrongMode(fd, mode)
  PROVE  TInv' /\ Abstract
<1> /\ Idle /\ fd \in DOMAIN files /\ nodes[files[fd].node].kind # "Directory"
    /\ files[fd].mode # mode /\ OnFile("InvalidMode", nodes, files)
  BY DEF WrongMode
<1> TInv' /\ FileStep("InvalidMode", nodes, files)
  BY StoreIsTrue, OnFileTrue
<1> panic = "none" /\ FileTree!Return("InvalidMode")
  BY FileReturns DEF FileStep
<1> FileTree!WrongMode(fd, mode)
  BY FileSeen DEF FileTree!WrongMode, FileTree!Ready, FileTree!IsOpen, SeenFile
<1> QED
  BY OnFileNext DEF FileTree!OnDescriptor

LEMMA DeviceUnsupportedTrue ==
  ASSUME Known, IInv', TInv, NEW fd \in 1..MaxFd, DeviceUnsupported(fd)
  PROVE  TInv' /\ Abstract
<1> DEFINE n == files[fd].node
<1> /\ Idle /\ fd \in DOMAIN files /\ nodes[n].kind # "Directory"
    /\ nodes[n].kind = "CharDevice"
    /\ \/ files[fd].mode = "Read" /\ ~HasRead(nodes[n].device)
       \/ files[fd].mode = "Write" /\ ~HasWrite(nodes[n].device)
    /\ OnFile("OperationNotSupported", nodes, files)
  BY DEF DeviceUnsupported, IoReady, CanRead, CanWrite
<1> TInv' /\ FileStep("OperationNotSupported", nodes, files)
  BY StoreIsTrue, OnFileTrue
<1> panic = "none" /\ FileTree!Return("OperationNotSupported")
  BY FileReturns DEF FileStep
<1> FileTree!Unsupported(fd)
  BY FileSeen, SameCalls DEF FileTree!Unsupported, FileTree!Ready, FileTree!IsOpen,
     SeenFile
<1> QED
  BY OnFileNext DEF FileTree!OnDescriptor

LEMMA CloseTrue ==
  ASSUME Known, IInv', TInv, NEW fd \in 1..MaxFd, Close(fd)
  PROVE  TInv' /\ Abstract
<1> DEFINE n == files[fd].node
           k == nodes[n].links - 1
           ns2 == [nodes EXCEPT ![n].links = k]
           D == DOMAIN files \ {fd}
           fs2 == Restrict(files, D)
<1> Idle /\ fd \in DOMAIN files /\ OnFile("ok", ns2, fs2)
  BY SMTT(30) DEF Close
<1> n \in DOMAIN nodes /\ DOMAIN nodes[n] = NodeFields
  BY DEF Known, IInv, Good, GoodFiles, GoodFile, GoodNodes, GoodNode
<1> HIDE DEF k
<1> SameNodes(nodes, ns2)
  BY LinksSame
<1> HIDE DEF ns2
<1> TrueStore(ns2, entries, table, mounts)
  BY StoreIsTrue, SameNodesTrue
<1> HIDE DEF fs2
<1> TInv' /\ FileStep("ok", ns2, fs2)
  BY OnFileTrue
<1> TreeOf(ns2, mounts) = TreeOf(nodes, mounts)
  BY SameNodesTree
<1> FilesOf(ns2, fs2)
      = FileTree!Restrict(FilesOf(nodes, files), DOMAIN FilesOf(nodes, files) \ {fd})
  <2> DOMAIN fs2 = D /\ \A f \in D : fs2[f] = files[f]
    BY DEF fs2, Restrict
  <2> \A f \in D : files[f].node \in DOMAIN nodes
    BY DEF Known, IInv, Good, GoodFiles, GoodFile
  <2> \A f \in D : PlaceOf(ns2, files[f].node) = PlaceOf(nodes, files[f].node)
    BY SameNodesKept, KeptPlace
  <2> DOMAIN FilesOf(nodes, files) = DOMAIN files
    BY DEF FilesOf
  <2> \A f \in D : FilesOf(nodes, files)[f]
                     = [at |-> PlaceOf(nodes, files[f].node), mode |-> files[f].mode,
                        pos |-> files[f].pos]
    BY DEF FilesOf
  <2> FilesOf(ns2, fs2) = [f \in D |-> FilesOf(nodes, files)[f]]
    BY DEF FilesOf
  <2> QED
    BY DEF FileTree!Restrict
<1> FileTree!IsOpen(fd) /\ FileTree!Ok
  BY FileSeen, SameCalls DEF FileStep, SeenFile, FileTree!IsOpen, FileTree!Ok
<1> FileTree!Close(fd)
  BY DEF FileStep, FileTree!Close
<1> QED
  BY OnFileNext DEF FileTree!OnDescriptor

(* The position moves, as FileTree sees it.                                *)
LEMMA AdvanceSeen ==
  ASSUME Known, NEW ns2, KeptNodes(nodes, ns2), NEW fd \in DOMAIN files, NEW k
  PROVE  FilesOf(ns2, [files EXCEPT ![fd].pos = @ + k])
           = [FilesOf(nodes, files) EXCEPT ![fd].pos = @ + k]
<1> DEFINE fs2 == [files EXCEPT ![fd].pos = @ + k]
           v == files[fd].pos + k
           A(ns, r) == [at |-> PlaceOf(ns, r.node), mode |-> r.mode, pos |-> r.pos]
<1>1. DOMAIN files[fd] = {"node", "mode", "pos"}
  BY DEF Known, IInv, Good, GoodFiles, GoodFile
<1>2. /\ DOMAIN fs2 = DOMAIN files /\ \A f \in DOMAIN files : f # fd => fs2[f] = files[f]
      /\ fs2[fd] = [files[fd] EXCEPT !.pos = v]
  BY SMTT(30)
<1> HIDE DEF fs2, v
<1>3. fs2[fd].node = files[fd].node /\ fs2[fd].mode = files[fd].mode /\ fs2[fd].pos = v
  BY SMTT(30), <1>1, <1>2
<1>4. \A f \in DOMAIN files : PlaceOf(ns2, files[f].node) = PlaceOf(nodes, files[f].node)
  BY KeptPlace DEF Known, IInv, Good, GoodFiles, GoodFile
<1>5. /\ FilesOf(ns2, fs2) = [f \in DOMAIN files |-> A(ns2, fs2[f])]
      /\ FilesOf(nodes, files) = [f \in DOMAIN files |-> A(nodes, files[f])]
  BY <1>2 DEF FilesOf
<1>6. \A f \in DOMAIN files : f # fd => A(ns2, fs2[f]) = A(nodes, files[f])
  BY <1>2, <1>4
<1>7. A(ns2, fs2[fd]) = [A(nodes, files[fd]) EXCEPT !.pos = v]
  <2>1. A(ns2, fs2[fd]) = [at |-> PlaceOf(nodes, files[fd].node), mode |-> files[fd].mode,
                           pos |-> v]
    BY <1>3, <1>4
  <2> QED
    BY SMTT(30), <2>1
<1>8. A(nodes, files[fd]).pos + k = v
  BY SMTT(30) DEF v
<1> HIDE DEF A
<1>9. [FilesOf(nodes, files) EXCEPT ![fd].pos = @ + k]
        = [f \in DOMAIN files |-> IF f = fd THEN [A(nodes, files[fd]) EXCEPT !.pos = v]
                                  ELSE A(nodes, files[f])]
  BY SMTT(30), <1>5, <1>8
<1>10. FilesOf(ns2, fs2) = [FilesOf(nodes, files) EXCEPT ![fd].pos = @ + k]
  BY SMTT(30), <1>5, <1>6, <1>7, <1>9
<1> QED
  BY <1>10 DEF fs2

LEMMA ReadTrue ==
  ASSUME Known, IInv', TInv, NEW fd \in 1..MaxFd, NEW k \in ReadSizes, Read(fd, k)
  PROVE  TInv' /\ Abstract
<1> DEFINE n == files[fd].node
           j == ReadCount(files[fd], k)
           fs2 == [files EXCEPT ![fd].pos = @ + j]
<1> /\ Idle /\ fd \in DOMAIN files /\ nodes[n].kind # "Directory"
    /\ files[fd].mode = "Read" /\ (nodes[n].kind = "CharDevice" => HasRead(nodes[n].device))
    /\ OnFile("ok", nodes, fs2)
  BY DEF Read, IoReady, CanRead
<1> KeptNodes(nodes, nodes)
  BY DEF KeptNodes
<1> HIDE DEF j
<1> FilesOf(nodes, fs2) = [FilesOf(nodes, files) EXCEPT ![fd].pos = @ + j]
  BY SMTT(30), AdvanceSeen
<1> HIDE DEF fs2
<1> TInv' /\ FileStep("ok", nodes, fs2)
  BY StoreIsTrue, OnFileTrue
<1> /\ panic = "none" /\ FileTree!Ok /\ FileTree!Advance(fd, j)
    /\ UNCHANGED <<TreeOf(nodes, mounts), RootOf(entries, mounts),
                   PointsOf(entries, mounts), next_fd>>
  BY SameCalls DEF FileStep, FileTree!Ok, FileTree!Advance
<1> FileTree!Ready(fd) /\ FilesOf(nodes, files)[fd].mode = "Read"
  BY FileSeen DEF SeenFile, FileTree!Ready, FileTree!IsOpen
<1> CASE nodes[n].kind = "CharDevice"
  <2> j = k
    BY DEF j, ReadCount
  <2> FileTree!OnDevice(fd) /\ FileTree!HasRead(FilesOf(nodes, files)[fd].at[2])
    BY FileSeen, SameCalls DEF SeenFile
  <2> FileTree!Read(fd, k)
    BY DEF FileTree!Read
  <2> QED
    BY OnFileNext DEF FileTree!OnDescriptor
<1> CASE nodes[n].kind # "CharDevice"
  <2> j = Available(nodes[n].data, files[fd].pos, k)
    BY DEF j, ReadCount
  <2> /\ ~FileTree!OnDevice(fd) /\ FilesOf(nodes, files)[fd].pos = files[fd].pos
      /\ TreeOf(nodes, mounts)[FilesOf(nodes, files)[fd].at[2]].data = nodes[n].data
    BY FileSeen DEF SeenFile
  <2> \A data, pos, x : FileTree!Available(data, pos, x) = Available(data, pos, x)
    BY DEF FileTree!Available, Available, FileTree!Min, Min
  <2> FileTree!Read(fd, k)
    BY DEF FileTree!Read
  <2> QED
    BY OnFileNext DEF FileTree!OnDescriptor
<1> QED
  OBVIOUS

\* The nodes ns2 are the nodes with other data in the file n.
WithData(ns2, n, data) ==
  /\ DOMAIN ns2 = DOMAIN nodes
  /\ \A x \in DOMAIN nodes :
       /\ ns2[x].mount = nodes[x].mount /\ ns2[x].kind = nodes[x].kind
       /\ ns2[x].device = nodes[x].device /\ ns2[x].kids = nodes[x].kids
       /\ x # n => ns2[x].data = nodes[x].data
  /\ ns2[n].data = data

LEMMA DataWith ==
  ASSUME Known, NEW n \in DOMAIN nodes, NEW data
  PROVE  WithData([nodes EXCEPT ![n].data = data], n, data)
<1> DEFINE ns2 == [nodes EXCEPT ![n].data = data]
<1>1. DOMAIN nodes[n] = NodeFields
  BY DEF Known, IInv, Good, GoodNodes, GoodNode
<1>2. DOMAIN ns2 = DOMAIN nodes /\ \A x \in DOMAIN nodes : x # n => ns2[x] = nodes[x]
  BY SMTT(30)
<1>3. ns2[n] = [nodes[n] EXCEPT !.data = data]
  BY SMTT(30)
<1>4. /\ ns2[n].mount = nodes[n].mount /\ ns2[n].kind = nodes[n].kind
      /\ ns2[n].device = nodes[n].device /\ ns2[n].kids = nodes[n].kids
      /\ ns2[n].data = data
  BY SMTT(30), <1>1, <1>3 DEF NodeFields
<1> HIDE DEF ns2
<1>5. WithData(ns2, n, data)
  BY SMTT(30), <1>2, <1>4 DEF WithData
<1> QED
  BY <1>5 DEF ns2

LEMMA DataTrue ==
  ASSUME Known, TInv, NEW ns2, NEW n, NEW data, WithData(ns2, n, data)
  PROVE  TrueStore(ns2, entries, table, mounts) /\ KeptNodes(nodes, ns2)
<1> \A e \in DOMAIN entries :
      entries[e].parent # NULL => entries[entries[e].parent].node \in DOMAIN nodes
  BY DEF Known, IInv, Good, GoodEntries, GoodEntry
<1> SameDisk(nodes, entries, ns2)
  BY DEF SameDisk, WithData
<1> KeptNodes(nodes, ns2)
  BY DEF KeptNodes, WithData
<1> QED
  BY StoreIsTrue, SameDiskTrue

LEMMA DataTree ==
  ASSUME Known, NEW n \in DOMAIN nodes, nodes[n].kind # "CharDevice", NEW ns2, NEW data,
         WithData(ns2, n, data)
  PROVE  TreeOf(ns2, mounts) = [TreeOf(nodes, mounts) EXCEPT ![n].data = data]
<1> DEFINE t == TreeOf(nodes, mounts)
           T == TreeNodes(nodes)
           V(m, x) == [kind |-> m[x].kind, fs |-> mounts[m[x].mount].fs,
                       data |-> m[x].data, kids |-> m[x].kids]
<1> t = [x \in T |-> V(nodes, x)] /\ n \in T /\ T \subseteq DOMAIN nodes
  BY DEF TreeOf, TreeNodes
<1> TreeNodes(ns2) = T
  BY DEF TreeNodes, WithData
<1> TreeOf(ns2, mounts) = [x \in T |-> V(ns2, x)]
  BY DEF TreeOf
<1> \A x \in T : x # n => V(ns2, x) = V(nodes, x)
  BY DEF WithData
<1> V(ns2, n) = [V(nodes, n) EXCEPT !.data = data]
  <2> V(ns2, n) = [kind |-> nodes[n].kind, fs |-> mounts[nodes[n].mount].fs,
                   data |-> data, kids |-> nodes[n].kids]
    BY DEF WithData
  <2> QED
    BY SMTT(30)
<1> HIDE DEF V, T, t
<1> [t EXCEPT ![n].data = data]
      = [x \in T |-> IF x = n THEN [V(nodes, n) EXCEPT !.data = data] ELSE V(nodes, x)]
  BY SMTT(30)
<1> TreeOf(ns2, mounts) = [t EXCEPT ![n].data = data]
  BY SMTT(30)
<1> QED
  BY DEF t

LEMMA WriteTrue ==
  ASSUME Known, IInv', TInv, NEW fd \in 1..MaxFd, NEW b \in Buffers, Write(fd, b)
  PROVE  TInv' /\ Abstract
<1> DEFINE n == files[fd].node
           j == Len(b)
           data == Overwrite(nodes[n].data, files[fd].pos, b)
           ns2 == [nodes EXCEPT ![n].data = data]
           fs2 == [files EXCEPT ![fd].pos = @ + j]
<1>1. /\ Idle /\ fd \in DOMAIN files /\ nodes[n].kind # "Directory"
      /\ files[fd].mode = "Write" /\ (nodes[n].kind = "CharDevice" => HasWrite(nodes[n].device))
  BY DEF Write, IoReady, CanWrite
<1>2. n \in DOMAIN nodes
  BY <1>1 DEF Known, IInv, Good, GoodFiles, GoodFile
<1>3. SeenFile(fd) /\ panic = "none"
  BY <1>1, FileSeen DEF Idle, Running
<1>4. FileTree!Ready(fd) /\ FilesOf(nodes, files)[fd].mode = "Write"
  BY <1>1, <1>3 DEF SeenFile, FileTree!Ready, FileTree!IsOpen
<1>5. ASSUME NEW ns, OnFile("ok", ns, fs2), TrueStore(ns, entries, table, mounts),
             KeptNodes(nodes, ns)
      PROVE  /\ TInv' /\ FileTree!Ok /\ FileTree!Advance(fd, j)
             /\ TreeOf(nodes', mounts') = TreeOf(ns, mounts)
             /\ UNCHANGED <<RootOf(entries, mounts), PointsOf(entries, mounts), next_fd>>
  <2> HIDE DEF j
  <2>1. FilesOf(ns, fs2) = [FilesOf(nodes, files) EXCEPT ![fd].pos = @ + j]
    BY SMTT(30), <1>1, <1>5, AdvanceSeen
  <2> HIDE DEF fs2
  <2>2. TInv' /\ FileStep("ok", ns, fs2)
    BY <1>1, <1>5, OnFileTrue
  <2> QED
    BY <2>1, <2>2, SameCalls DEF FileStep, FileTree!Ok, FileTree!Advance
<1>6. CASE nodes[n].kind = "CharDevice"
  <2>1. OnFile("ok", nodes, fs2) /\ KeptNodes(nodes, nodes)
    BY <1>6 DEF Write, KeptNodes
  <2> HIDE DEF fs2, j
  <2>2. /\ TInv' /\ FileTree!Ok /\ FileTree!Advance(fd, j)
        /\ TreeOf(nodes', mounts') = TreeOf(nodes, mounts)
        /\ UNCHANGED <<RootOf(entries, mounts), PointsOf(entries, mounts), next_fd>>
    BY <1>5, <2>1, StoreIsTrue
  <2>3. FileTree!OnDevice(fd) /\ FileTree!HasWrite(FilesOf(nodes, files)[fd].at[2])
    BY <1>1, <1>3, <1>6, SameCalls DEF SeenFile
  <2>4. FileTree!Write(fd, b)
    BY <1>4, <2>2, <2>3 DEF FileTree!Write, j
  <2> QED
    BY <2>2, <2>4, OnFileNext DEF FileTree!OnDescriptor
<1>7. CASE nodes[n].kind # "CharDevice"
  <2>1. OnFile("ok", ns2, fs2)
    <3>1. OnFile("ok", [nodes EXCEPT ![n].data = Overwrite(@, files[fd].pos, b)], fs2)
      BY <1>7 DEF Write
    <3>2. [nodes EXCEPT ![n].data = Overwrite(@, files[fd].pos, b)] = ns2
      BY SMTT(30)
    <3> HIDE DEF ns2, fs2
    <3> QED
      BY <3>1, <3>2
  <2> HIDE DEF data
  <2>2. WithData(ns2, n, data)
    BY <1>2, DataWith
  <2> HIDE DEF ns2
  <2>3. TrueStore(ns2, entries, table, mounts) /\ KeptNodes(nodes, ns2)
    BY <2>2, DataTrue
  <2> HIDE DEF fs2, j
  <2>4. /\ TInv' /\ FileTree!Ok /\ FileTree!Advance(fd, j)
        /\ TreeOf(nodes', mounts') = TreeOf(ns2, mounts)
        /\ UNCHANGED <<RootOf(entries, mounts), PointsOf(entries, mounts), next_fd>>
    BY <1>5, <2>1, <2>3
  <2>5. TreeOf(nodes', mounts') = [TreeOf(nodes, mounts) EXCEPT ![n].data = data]
    <3> HIDE DEF n
    <3>1. TreeOf(ns2, mounts) = [TreeOf(nodes, mounts) EXCEPT ![n].data = data]
      BY SMTT(30), <1>2, <1>7, <2>2, DataTree
    <3> QED
      BY <2>4, <3>1
  <2>6. /\ ~FileTree!OnDevice(fd) /\ FilesOf(nodes, files)[fd].pos = files[fd].pos
        /\ FilesOf(nodes, files)[fd].at[2] = n
        /\ TreeOf(nodes, mounts)[n].data = nodes[n].data
    BY <1>3, <1>7 DEF SeenFile
  <2>7. FileTree!Overwrite(TreeOf(nodes, mounts)[n].data, FilesOf(nodes, files)[fd].pos, b) = data
    BY <2>6 DEF FileTree!Overwrite, Overwrite, FileTree!Max, Max, data
  <2>8. [TreeOf(nodes, mounts) EXCEPT ![FilesOf(nodes, files)[fd].at[2]].data =
           FileTree!Overwrite(@, FilesOf(nodes, files)[fd].pos, b)]
          = [TreeOf(nodes, mounts) EXCEPT ![n].data = data]
    <3> HIDE DEF n
    <3> QED
      BY SMTT(30), <2>6, <2>7
  <2>9. FileTree!Write(fd, b)
    BY <1>4, <2>4, <2>5, <2>6, <2>8 DEF FileTree!Write, j
  <2> QED
    BY <2>4, <2>9, OnFileNext DEF FileTree!OnDescriptor
<1> QED
  BY <1>6, <1>7

LEMMA DropEntryTrue ==
  ASSUME Known, IInv', TInv, NEW e \in held, DropEntry(e)
  PROVE  TInv' /\ Abstract
<1> /\ walk' = "none" /\ table' = table /\ UNCHANGED <<next_fd, ret, panic>>
    /\ Settle(nodes, entries, mounts, files, held \ {e}, stack)
  BY DEF DropEntry, Idle
<1> /\ held \ {e} \subseteq DOMAIN entries /\ stack \in Seq(Nat)
    /\ \A i \in DOMAIN stack : stack[i] \in DOMAIN entries
  BY DEF Known, IInv, Good, GoodRefs
<1> TrueStore(nodes', entries', table', mounts') /\ SameTree
  BY SettleSame
<1> QED
  BY SameStutters, EndTrue DEF Abstract

LEMMA PruneTrue ==
  ASSUME Known, IInv', TInv, Prune
  PROVE  TInv' /\ Abstract
<1> DEFINE S == {k \in DOMAIN table : table[k] \in DOMAIN entries}
<1> /\ walk' = "none" /\ table' = Restrict(table, S)
    /\ UNCHANGED <<nodes, entries, mounts, files, next_fd, ret, panic>>
  BY DEF Prune, Idle
<1> DOMAIN table' = S /\ \A k \in S : table'[k] = table[k]
  BY DEF Restrict
<1> \A k \in S : TrueKey(entries, table', k)
  BY DEF TInv, TrueStore, TrueCache, TrueKey
<1> TrueStore(nodes', entries', table', mounts')
  BY DEF TInv, TrueStore, TrueCache
<1> QED
  BY StoreSame, SameStutters, EndTrue DEF Abstract

LEMMA NothingTrue ==
  ASSUME TInv, UNCHANGED vars
  PROVE  TInv' /\ Abstract
<1> /\ UNCHANGED <<nodes, entries, table, mounts, files, next_fd>>
    /\ UNCHANGED <<call, walk, segs, stack, ret, panic>>
  BY DEF vars, store
<1> TInv'
  BY DEF TInv, TrueWalk, RoomLeft, IsDirectory, NodeOf, Top
<1> QED
  BY StoreSame, SameStutters DEF Abstract

=============================================================================
