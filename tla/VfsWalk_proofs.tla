--------------------------- MODULE VfsWalk_proofs ---------------------------
(***************************************************************************)
(* The steps of Vfs that walk, look up, list, open and fail keep the cache *)
(* true, and are steps of FileTree or none.                                *)
(***************************************************************************)
EXTENDS VfsTree_proofs

\* Zenon proves most of the steps here, and a leaf that needs arithmetic or
\* records says SMT.  A step without a name is known to all that follow it.
USE ZenonT(30)

(* The steps of a walk.                                                    *)

LEMMA WalkDotTrue ==
  ASSUME Known, IInv', TInv, WalkDot
  PROVE  TInv' /\ Abstract
<1> DEFINE here == Places(nodes, entries, stack)
<1> /\ walk = "resolve" /\ segs # <<>> /\ IsDirectory(Top)
    /\ Seg = "." \/ (Seg = ".." /\ Len(stack) = 1)
    /\ segs' = Tail(segs)
    /\ UNCHANGED <<nodes, entries, table, mounts, files, next_fd, call, walk, stack, ret, panic>>
  BY DEF WalkDot, Resolving, store
<1> SameTree
  BY StoreSame
<1> Len(here) = Len(stack)
  BY TopThere, PlacesLength
<1> NextPlaces = here
  <2> Seg \in Dots
    BY SMTT(30) DEF Dots
  <2> FileTree!AtDots("resolve", here, Seg) = here
    BY SMTT(30) DEF FileTree!AtDots
  <2> QED
    BY DEF NextPlaces
<1> TrueWalk'
  BY WalkOn
<1> RoomLeft'
  BY RoomKept
<1> QED
  BY SameStutters DEF TInv, Abstract

LEMMA WalkDotDotTrue ==
  ASSUME Known, IInv', TInv, WalkDotDot
  PROVE  TInv' /\ Abstract
<1> DEFINE here == Places(nodes, entries, stack)
           st == SubSeq(stack, 1, Len(stack) - 1)
<1> /\ walk = "resolve" /\ segs # <<>> /\ IsDirectory(Top)
    /\ Seg = ".." /\ Len(stack) > 1 /\ segs' = Tail(segs)
    /\ Settle(nodes, entries, mounts, files, held, st)
    /\ UNCHANGED <<table, next_fd, call, walk, ret, panic>>
  BY DEF WalkDotDot, Resolving
<1> /\ stack \in Seq(Nat) /\ stack # <<>> /\ held \subseteq DOMAIN entries
    /\ \A i \in DOMAIN stack : stack[i] \in DOMAIN entries
  BY TopThere DEF Known, IInv, Good, GoodRefs
<1> st \in Seq(Nat) /\ \A i \in DOMAIN st : st[i] \in DOMAIN entries
  BY SMTT(30), Popped
<1> Len(here) = Len(stack)
  BY PlacesLength
<1> NextPlaces = Places(nodes, entries, st)
  <2> Seg \in Dots
    BY SMTT(30) DEF Dots
  <2> FileTree!AtDots("resolve", here, Seg) = FileTree!Back(here)
    <3> Len(stack) # 1 /\ Seg # "."
      BY SMTT(30)
    <3> QED
      BY DEF FileTree!AtDots
  <2> QED
    BY PopPlace DEF NextPlaces
<1> HIDE DEF st
<1> /\ TrueStore(nodes', entries', table', mounts') /\ SameTree /\ stack' = st
    /\ Places(nodes', entries', st) = Places(nodes, entries, st)
    /\ DOMAIN nodes' \subseteq DOMAIN nodes
  BY SettleSame
<1> TrueWalk'
  BY WalkOn
<1> RoomLeft'
  BY RoomKept
<1> QED
  BY SameStutters DEF TInv, Abstract

(* A step down to an entry that exists.                                    *)
LEMMA PushTrue ==
  ASSUME Known, IInv', TInv, walk \in {"resolve", "parent"}, segs # <<>>,
         walk = "parent" => Len(segs) > 1, IsDirectory(Top), Seg \notin Dots,
         NEW e \in DOMAIN entries, <<Top, Seg>> \in DOMAIN table, table[<<Top, Seg>>] = e,
         stack' = Append(stack, e), segs' = Tail(segs),
         UNCHANGED <<nodes, entries, table, mounts, files, next_fd, call, walk, ret, panic>>
  PROVE  TInv' /\ Abstract
<1> DEFINE here == Places(nodes, entries, stack)
           child == ChildOf(nodes, entries, mounts, entries[Top].node, Seg)
           place == PlaceOf(nodes, entries[e].node)
<1> GoodStore(nodes, entries, table, mounts) /\ TrueStore(nodes, entries, table, mounts)
  BY StoreOfGood DEF Known, IInv, TInv
<1> Top \in DOMAIN entries /\ nodes[entries[Top].node].kind = "Directory"
  BY TopThere DEF IsDirectory, NodeOf
<1> child = place
  BY SMTT(30), ChildCached
<1> place # FileTree!Missing
  BY PlaceIsSomewhere DEF FileTree!Nowhere
<1> stack \in Seq(Nat) /\ e \in Nat
  BY TopThere DEF Known, IInv, Good, GoodEntries
<1> Places(nodes, entries, Append(stack, e)) = Append(here, place)
  BY PushPlace
<1> NextPlaces = Append(here, place)
  BY DEF NextPlaces
<1> Places(nodes', entries', stack') = NextPlaces
  OBVIOUS
<1> SameTree
  BY StoreSame
<1> TrueWalk'
  BY WalkOn
<1> RoomLeft'
  BY RoomKept
<1> QED
  BY SameStutters DEF TInv, Abstract

(* What is common to the steps that look a name up.                        *)
LEMMA LooksUp ==
  ASSUME TInv, LookingUp
  PROVE  /\ Running /\ walk \in {"resolve", "parent"} /\ segs # <<>>
         /\ walk = "parent" => Len(segs) > 1
         /\ IsDirectory(Top) /\ Seg \notin Dots
<1> CASE Resolving
  BY DEF Resolving, LookingUp
<1> CASE Descending
  BY DEF Descending, LookingUp, TInv, TrueWalk
<1> QED
  BY DEF LookingUp

LEMMA WalkMountTrue ==
  ASSUME Known, IInv', TInv, WalkMount
  PROVE  TInv' /\ Abstract
<1> DEFINE m == Min(MountsAt(Top, Seg))
           e == mounts[m].root
<1> /\ walk = "resolve" /\ segs # <<>> /\ IsDirectory(Top) /\ Seg \notin Dots
    /\ MountsAt(Top, Seg) # {} /\ stack' = Append(stack, e) /\ segs' = Tail(segs)
    /\ UNCHANGED <<nodes, entries, table, mounts, files, next_fd, call, walk, ret, panic>>
  BY DEF WalkMount, Resolving, store
<1> m \in MountsAt(Top, Seg)
  BY DEF Known, FirstMountIn
<1> m \in DOMAIN mounts /\ entries[e].parent = Top /\ entries[e].name = Seg
  BY DEF MountsAt
<1> e \in DOMAIN entries
  BY DEF Known, IInv, Good, GoodRefs
<1> <<Top, Seg>> \in DOMAIN table /\ table[<<Top, Seg>>] = e
  BY DEF Known, IInv, Good, GoodEntries, GoodEntry
<1> HIDE DEF e, m
<1> QED
  BY PushTrue

LEMMA WalkCachedTrue ==
  ASSUME Known, IInv', TInv, WalkCached
  PROVE  TInv' /\ Abstract
<1> DEFINE e == table[<<Top, Seg>>]
<1> /\ LookingUp /\ <<Top, Seg>> \in DOMAIN table /\ e \in DOMAIN entries
    /\ stack' = Append(stack, e) /\ segs' = Tail(segs)
    /\ UNCHANGED <<nodes, entries, table, mounts, files, next_fd, call, walk, ret, panic>>
  BY DEF WalkCached, Cached, store
<1> QED
  BY LooksUp, PushTrue

LEMMA OnDiskIs ==
  ASSUME NEW p, NEW name
  PROVE  OnDisk(p, name) <=> NameOnDisk(nodes, mounts, entries[p].node, name)
BY DEF OnDisk, FileSystemOf, InRamfs, InDevfs, NodeOf, NameOnDisk

(* Neither the cache nor the file system has the name.                     *)
LEMMA MissingHere ==
  ASSUME Known, TInv, LookingUp, ~Cached(Top, Seg), ~OnDisk(Top, Seg)
  PROVE  NextPlaces = <<FileTree!Missing>>
<1> DEFINE d == entries[Top].node
<1> GoodStore(nodes, entries, table, mounts) /\ TrueStore(nodes, entries, table, mounts)
  BY StoreOfGood DEF Known, IInv, TInv
<1> Top \in DOMAIN entries /\ nodes[d].kind = "Directory"
  BY LooksUp, TopThere DEF IsDirectory, NodeOf
<1> Unknown(entries, table, Top, Seg)
  BY DEF Cached, Unknown
<1> ChildOf(nodes, entries, mounts, d, Seg) = DiskChild(nodes, mounts, d, Seg)
  BY SMTT(30), ChildNotCached
<1> DiskChild(nodes, mounts, d, Seg) = FileTree!Missing
  BY OnDiskIs, OnDiskIsSomewhere
<1> QED
  BY LooksUp DEF NextPlaces

LEMMA WalkMissingTrue ==
  ASSUME Known, IInv', TInv, WalkMissing
  PROVE  TInv' /\ Abstract
<1> /\ LookingUp /\ walk = "resolve" /\ ~Cached(Top, Seg) /\ ~OnDisk(Top, Seg)
    /\ walk' = "missing" /\ Settle(nodes, entries, mounts, files, held, <<>>)
    /\ UNCHANGED <<table, next_fd, call, ret, panic>>
  BY DEF WalkMissing
<1> FileTree!Target(call.path) = FileTree!Missing
  <2> NextPlaces = <<FileTree!Missing>> /\ segs # <<>>
    BY MissingHere, LooksUp
  <2> FileTree!Missing \in FileTree!Nowhere
    BY DEF FileTree!Nowhere
  <2> QED
    BY TargetNowhere
<1> held \subseteq DOMAIN entries
  BY DEF Known, IInv, Good, GoodRefs
<1> /\ TrueStore(nodes', entries', table', mounts') /\ SameTree
    /\ DOMAIN nodes' \subseteq DOMAIN nodes
  BY NoEntries, SettleSame
<1> Absent(nodes', entries', mounts', call.path)
  BY TargetIs, SamePassed DEF Absent
<1> TrueWalk'
  <2> /\ call \in Calls /\ call.path.kind = "absolute" /\ ~UnknownType(call)
      /\ ~(call.op = "mount" /\ IsRootPath(call.path))
    BY DEF TInv, TrueWalk
  <2> QED
    BY DEF TrueWalk
<1> RoomLeft'
  BY LooksUp, RoomKept
<1> QED
  BY SameStutters DEF TInv, Abstract

(* A walk starts at the root.                                              *)
LEMMA RootPlace ==
  ASSUME Known, TInv, mounts # <<>>
  PROVE  /\ Root \in DOMAIN entries
         /\ PlaceOf(nodes, entries[Root].node) = <<"node", RootOf(entries, mounts)>>
<1> Root \in DOMAIN entries /\ 1 \in DOMAIN mounts
  BY SMTT(30), RootEntry DEF Known, IInv, Good, GoodRefs
<1> Root = mounts[1].root
  BY DEF Known, IInv, Good, GoodTable, Root, RootKey
<1> GoodMount(nodes, entries, mounts, 1)
  BY DEF TInv, TrueStore, GoodMounts
<1> entries[Root].node \in DOMAIN nodes /\ nodes[entries[Root].node].kind = "Directory"
  BY DEF Known, IInv, Good, GoodMount, GoodEntries, GoodEntry
<1> PlaceOf(nodes, entries[Root].node) = <<"node", entries[Root].node>>
  BY TreeNode
<1> QED
  BY DEF RootOf

LEMMA StartAt ==
  ASSUME Known, TInv, mounts # <<>>, NEW mode, NEW path, path.segs \in Seq(STRING)
  PROVE  /\ At(nodes, entries, mounts, <<Root>>, mode, path, path.segs)
         /\ Passed(nodes, entries, mounts, mode, path)[0]
              = <<FileTree!Node(RootOf(entries, mounts))>>
<1> DEFINE P == path.segs
           w == Passed(nodes, entries, mounts, mode, path)
           place == PlaceOf(nodes, entries[Root].node)
           root == Root
<1> w[0] = <<FileTree!Node(RootOf(entries, mounts))>>
  BY SMTT(30), WalkSteps DEF Passed
<1> Places(nodes, entries, <<Root>>) = <<place>>
  <2> HIDE DEF root
  <2> Len(<<root>>) = 1 /\ <<root>>[1] = root /\ 1..1 = {1}
    BY SMTT(30)
  <2> [i \in 1..Len(<<root>>) |-> PlaceOf(nodes, entries[<<root>>[i]].node)]
         = <<PlaceOf(nodes, entries[root].node)>>
    BY SMTT(30)
  <2> QED
    BY DEF Places, root
<1> w[0] = Places(nodes, entries, <<Root>>)
  BY RootPlace DEF FileTree!Node
<1> 0 \in 0..Len(P) /\ P = SubSeq(P, 0 + 1, Len(P))
  BY SMTT(30)
<1> HIDE DEF P, w
<1> \E c \in 0..Len(P) : P = SubSeq(P, c + 1, Len(P)) /\ w[c] = Places(nodes, entries, <<Root>>)
  OBVIOUS
<1> QED
  BY DEF At, P, w

LEMMA StartParentWalkTrue ==
  ASSUME Known, IInv', TInv, StartParentWalk
  PROVE  TInv' /\ Abstract
<1> DEFINE P == call.path.segs
<1> /\ walk = "missing" /\ Creates(call) /\ walk' = "parent" /\ segs' = P
    /\ stack' = <<Root>>
    /\ UNCHANGED <<nodes, entries, table, mounts, files, next_fd, call, ret, panic>>
  BY DEF StartParentWalk, Missing, store
<1> P \in Seq(STRING) /\ mounts # <<>>
  BY PathSegs DEF Known, IInv, Good, GoodControl
<1> At(nodes, entries, mounts, <<Root>>, "parent", call.path, P)
  BY StartAt
<1> Absent(nodes, entries, mounts, call.path)
  BY DEF TInv, TrueWalk
<1> P # <<>>
  <2> SUFFICES ASSUME Len(P) = 0
               PROVE  FALSE
    BY SMTT(30)
  <2> FileTree!End(Passed(nodes, entries, mounts, "resolve", call.path)[0]) = FileTree!Missing
    BY DEF Absent
  <2> FileTree!Node(RootOf(entries, mounts)) = FileTree!Missing
    BY StartAt, LastOfOne
  <2> QED
    BY SMTT(30) DEF FileTree!Node, FileTree!Missing
<1> TrueWalk'
  <2> /\ call \in Calls /\ call.path.kind = "absolute" /\ ~UnknownType(call)
      /\ ~(call.op = "mount" /\ IsRootPath(call.path))
    BY DEF TInv, TrueWalk
  <2> QED
    BY DEF TrueWalk
<1> RoomLeft'
  BY RoomKept
<1> QED
  BY StoreSame, SameStutters DEF TInv, Abstract

LEMMA BeginTrue ==
  ASSUME Known, IInv', TInv, NEW c \in Calls, Begin(c)
  PROVE  TInv' /\ Abstract
<1> /\ ~UnknownType(c) /\ c.path.kind = "absolute" /\ ~(c.op = "mount" /\ IsRootPath(c.path))
    /\ HasRoot /\ Room(c) /\ call' = c /\ walk' = "resolve" /\ segs' = c.path.segs
    /\ stack' = <<Root>>
    /\ UNCHANGED <<nodes, entries, table, mounts, files, next_fd, ret, panic>>
  BY DEF Begin, store
<1> c.path.segs \in Seq(STRING) /\ mounts # <<>>
  BY RootEntry, CallsAssumption
<1> At(nodes, entries, mounts, <<Root>>, "resolve", c.path, c.path.segs)
  BY StartAt
<1> TrueWalk'
  BY DEF TrueWalk
<1> RoomLeft'
  BY DEF RoomLeft, Room
<1> QED
  BY StoreSame, SameStutters DEF TInv, Abstract

-----------------------------------------------------------------------------
(* Calls that fail, and panics.                                            *)

(* The call as FileTree sees it at the end of resolve_path and at the end  *)
(* of resolve_path_parent_directory.                                       *)
LEMMA OnFound ==
  ASSUME Known, TInv, Found, FileTree!Existing(call, PlaceOf(nodes, entries[Top].node))
  PROVE  FileTree!Next
<1> Running /\ walk = "resolve" /\ segs = <<>>
  BY DEF Found
<1> FileTree!Target(call.path) = PlaceOf(nodes, entries[Top].node)
  BY TargetFound
<1> FileTree!OnPath(call, FileTree!Target(call.path))
  BY PlaceIsSomewhere DEF FileTree!OnPath
<1> QED
  BY SMTT(30), CallOf

LEMMA FoundDirectory ==
  ASSUME Known, walk \in {"resolve", "parent"}
  PROVE  FileTree!IsDir(PlaceOf(nodes, entries[Top].node)) <=> IsDirectory(Top)
BY TopThere, PlaceIsDirectory DEF FileTree!IsDir, IsDirectory, NodeOf

LEMMA InParent ==
  ASSUME Known, TInv, Running, walk = "parent",
         FileTree!CreateIn(call, FileTree!ParentOf(call.path))
  PROVE  FileTree!Next
<1> walk # "none" /\ Creates(call)
  BY SMTT(30) DEF TInv, TrueWalk
<1> FileTree!Target(call.path) = FileTree!Missing
  BY TargetMissing
<1> FileTree!OnPath(call, FileTree!Target(call.path))
  BY SameCalls DEF FileTree!OnPath
<1> QED
  BY CallOf

LEMMA InDirectory ==
  ASSUME Known, TInv, AtParent, FileTree!Create(call, entries[Top].node, Seg)
  PROVE  FileTree!Next
<1> DEFINE d == entries[Top].node
<1> Running /\ walk = "parent" /\ Len(segs) = 1 /\ IsDirectory(Top) /\ Seg \notin Dots
  BY DEF AtParent
<1> d \in DOMAIN nodes /\ nodes[d].kind = "Directory"
  BY TopThere DEF IsDirectory, NodeOf
<1> PlaceOf(nodes, d) = <<"node", d>>
  BY DEF PlaceOf, TreeNodes
<1> /\ FileTree!ParentOf(call.path) = PlaceOf(nodes, d)
    /\ Seg = FileTree!End(call.path.segs)
  BY ParentHere
<1> <<"node", d>>[2] = d
  BY SMTT(30)
<1> FileTree!CreateIn(call, FileTree!ParentOf(call.path))
  BY PlaceIsSomewhere DEF FileTree!CreateIn
<1> QED
  BY InParent

(* On the way to the parent there is a segment left.                       *)
LEMMA ParentSegments ==
  ASSUME Known, TInv, walk = "parent"
  PROVE  segs # <<>> /\ (Len(segs) > 1 \/ Len(segs) = 1)
<1> DEFINE P == call.path.segs
<1> segs # <<>> /\ P \in Seq(STRING)
  BY SMTT(30), PathSegs DEF TInv, TrueWalk
<1> PICK c \in 0..Len(P) : segs = SubSeq(P, c + 1, Len(P))
  BY WalkAt
<1> segs \in Seq(STRING)
  BY SMTT(30)
<1> Len(segs) # 0 /\ Len(segs) \in Nat
  BY SMTT(30), EmptyLength
<1> \A k \in Nat : k # 0 => k > 1 \/ k = 1
  BY SMTT(30)
<1> QED
  OBVIOUS

LEMMA WalkNotADirectoryTrue ==
  ASSUME Known, IInv', TInv, WalkNotADirectory
  PROVE  TInv' /\ Abstract
<1> TInv' /\ FileTree!Return("NotADirectory") /\ ~IsDirectory(Top) /\ Running
  BY FailTrue DEF WalkNotADirectory, Resolving
<1> NextPlaces = <<FileTree!NotDir>> /\ FileTree!NotDir \in FileTree!Nowhere
  BY DEF NextPlaces, FileTree!Nowhere
<1> CASE walk = "resolve" /\ segs # <<>>
  <2> FileTree!Target(call.path) = FileTree!NotDir
    BY TargetNowhere
  <2> FileTree!OnPath(call, FileTree!Target(call.path))
    BY DEF FileTree!OnPath
  <2> walk # "none"
    BY SMTT(30)
  <2> QED
    BY CallOf DEF Abstract
<1> CASE walk = "parent"
  <2> FileTree!ParentOf(call.path) = FileTree!NotDir
    BY ParentSegments, ParentHere, ParentNowhere
  <2> FileTree!CreateIn(call, FileTree!ParentOf(call.path))
    BY DEF FileTree!CreateIn
  <2> QED
    BY InParent DEF Abstract
<1> QED
  BY DEF WalkNotADirectory, Resolving

LEMMA ParentMissingTrue ==
  ASSUME Known, IInv', TInv, ParentMissing
  PROVE  TInv' /\ Abstract
<1> /\ LookingUp /\ walk = "parent" /\ ~Cached(Top, Seg) /\ ~OnDisk(Top, Seg)
    /\ Running /\ Len(segs) > 1
  BY LooksUp DEF ParentMissing
<1> TInv' /\ FileTree!Return("EntryNotFound")
  BY FailTrue DEF ParentMissing
<1> NextPlaces = <<FileTree!Missing>> /\ FileTree!Missing \in FileTree!Nowhere
  BY MissingHere DEF FileTree!Nowhere
<1> FileTree!ParentOf(call.path) = FileTree!Missing
  BY ParentNowhere
<1> FileTree!CreateIn(call, FileTree!ParentOf(call.path))
  BY DEF FileTree!CreateIn
<1> QED
  BY InParent DEF Abstract

LEMMA ParentWalkDotsTrue ==
  ASSUME Known, IInv', TInv, ParentWalkDots
  PROVE  TInv' /\ Abstract
<1> /\ Running /\ walk = "parent" /\ IsDirectory(Top) /\ Seg \in Dots
    /\ TInv' /\ FileTree!Panic("todo")
  BY PanicTrue DEF ParentWalkDots
<1> NextPlaces = <<FileTree!Unhandled>> /\ FileTree!Unhandled \in FileTree!Nowhere
  BY DEF NextPlaces, FileTree!AtDots, FileTree!Nowhere
<1> FileTree!ParentOf(call.path) = FileTree!Unhandled
  BY ParentSegments, ParentHere, ParentNowhere
<1> FileTree!CreateIn(call, FileTree!ParentOf(call.path))
  BY DEF FileTree!CreateIn
<1> QED
  BY InParent DEF Abstract

LEMMA NotFoundTrue ==
  ASSUME Known, IInv', TInv, NotFound
  PROVE  TInv' /\ Abstract
<1> /\ Running /\ walk = "missing" /\ ~Creates(call)
    /\ TInv' /\ FileTree!Return("EntryNotFound")
  BY FailTrue DEF NotFound, Missing
<1> FileTree!Target(call.path) = FileTree!Missing /\ walk # "none"
  BY SMTT(30), TargetMissing
<1> FileTree!OnPath(call, FileTree!Target(call.path))
  BY SameCalls DEF FileTree!OnPath
<1> QED
  BY CallOf DEF Abstract

LEMMA ReadFileTrue ==
  ASSUME Known, IInv', TInv, ReadFile
  PROVE  TInv' /\ Abstract
<1> /\ Found /\ call.op = "read_directory" /\ ~IsDirectory(Top) /\ walk = "resolve"
    /\ TInv' /\ FileTree!Return("NotADirectory")
  BY FailTrue DEF ReadFile, Found
<1> FileTree!Existing(call, PlaceOf(nodes, entries[Top].node))
  BY FoundDirectory DEF FileTree!Existing
<1> QED
  BY OnFound DEF Abstract

LEMMA OpenDirectoryTrue ==
  ASSUME Known, IInv', TInv, OpenDirectory
  PROVE  TInv' /\ Abstract
<1> /\ Found /\ call.op = "open" /\ is_mutating(call.arg) /\ IsDirectory(Top)
    /\ walk = "resolve" /\ TInv' /\ FileTree!Return("NotAFile")
  BY FailTrue DEF OpenDirectory, Found
<1> FileTree!Existing(call, PlaceOf(nodes, entries[Top].node))
  BY FoundDirectory, SameCalls DEF FileTree!Existing
<1> QED
  BY OnFound DEF Abstract

LEMMA MkdirExistsTrue ==
  ASSUME Known, IInv', TInv, MkdirExists
  PROVE  TInv' /\ Abstract
<1> /\ Found /\ call.op = "create_directory" /\ TInv' /\ FileTree!Return("AlreadyExists")
  BY FailTrue DEF MkdirExists
<1> FileTree!Existing(call, PlaceOf(nodes, entries[Top].node))
  BY DEF FileTree!Existing
<1> QED
  BY OnFound DEF Abstract

LEMMA MountOverTrue ==
  ASSUME Known, IInv', TInv, MountOver
  PROVE  TInv' /\ Abstract
<1> Found /\ call.op = "mount" /\ TInv' /\ FileTree!Panic("todo")
  BY PanicTrue DEF MountOver
<1> FileTree!Existing(call, PlaceOf(nodes, entries[Top].node))
  BY DEF FileTree!Existing
<1> QED
  BY OnFound DEF Abstract

LEMMA StatFoundTrue ==
  ASSUME Known, IInv', TInv, StatFound
  PROVE  TInv' /\ Abstract
<1> /\ Found /\ call.op = "stat" /\ walk = "resolve" /\ walk' = "none"
    /\ ret' = Result("ok") /\ Settle(nodes, entries, mounts, files, held \cup {Top}, <<>>)
    /\ UNCHANGED <<table, next_fd, panic>>
  BY DEF StatFound, Found, Return
<1> held \cup {Top} \subseteq DOMAIN entries
  BY TopThere DEF Known, IInv, Good, GoodRefs
<1> TrueStore(nodes', entries', table', mounts') /\ SameTree
  BY NoEntries, SettleSame
<1> TInv' /\ FileTree!Return("ok")
  BY EndTrue, ReturnSame
<1> FileTree!Existing(call, PlaceOf(nodes, entries[Top].node))
  BY DEF FileTree!Existing
<1> QED
  BY OnFound DEF Abstract

(* The directory in which a call creates something, as FileTree sees it.   *)
LEMMA ParentNode ==
  ASSUME Known, AtParent
  PROVE  LET d == entries[Top].node
         IN /\ d \in DOMAIN nodes /\ nodes[d].kind = "Directory"
            /\ d \in DOMAIN TreeOf(nodes, mounts)
            /\ TreeOf(nodes, mounts)[d].fs = FileSystemOf(d)
            /\ TreeOf(nodes, mounts)[d].kids = nodes[d].kids
<1> DEFINE d == entries[Top].node
<1> d \in DOMAIN nodes /\ nodes[d].kind = "Directory"
  BY TopThere DEF AtParent, IsDirectory, NodeOf
<1> HIDE DEF d
<1> /\ d \in DOMAIN TreeOf(nodes, mounts)
    /\ TreeOf(nodes, mounts)[d].fs = mounts[nodes[d].mount].fs
    /\ TreeOf(nodes, mounts)[d].kids = nodes[d].kids
  BY SMTT(30), TreeNode
<1> QED
  BY DEF d, FileSystemOf

LEMMA CreateUnsupportedTrue ==
  ASSUME Known, IInv', TInv, CreateUnsupported
  PROVE  TInv' /\ Abstract
<1> /\ AtParent /\ call.op \in {"open", "create_directory"}
    /\ FileSystemOf(entries[Top].node) = "devfs"
    /\ TInv' /\ FileTree!Return("OperationNotSupported")
  BY FailTrue DEF CreateUnsupported
<1> call.op # "mount"
  BY SMTT(30)
<1> FileTree!Create(call, entries[Top].node, Seg)
  BY ParentNode DEF FileTree!Create
<1> QED
  BY InDirectory DEF Abstract

LEMMA RelativePathTrue ==
  ASSUME Known, IInv', TInv, NEW c \in Calls, RelativePath(c)
  PROVE  TInv' /\ Abstract
<1> /\ Running /\ ~UnknownType(c) /\ c.path.kind = "relative"
    /\ TInv' /\ FileTree!Panic("todo")
  BY PanicTrue DEF RelativePath, Idle
<1> FileTree!Call(c)
  BY SameCalls DEF FileTree!Call, Running
<1> QED
  BY DEF Abstract, FileTree!Next

LEMMA RejectTrue ==
  ASSUME Known, IInv', TInv, NEW c \in Calls, Reject(c)
  PROVE  TInv' /\ Abstract
<1> /\ panic = "none" /\ walk' = "none"
    /\ UNCHANGED <<nodes, entries, table, mounts, files, next_fd, panic>>
  BY DEF Reject, Idle, Running, store
<1> TInv' /\ SameTree
  BY StoreSame, EndTrue DEF TInv
<1> SUFFICES FileTree!Call(c)
  BY DEF Abstract, FileTree!Next
<1> HasRoot <=> RootOf(entries, mounts) # FileTree!NoNode
  <2> mounts = <<>> => RootOf(entries, mounts) = FileTree!NoNode
    BY DEF RootOf, NULL, FileTree!NoNode
  <2> QED
    BY RootEntry, RootThere
<1> CASE UnknownType(c) /\ ret' = Result("FileSystemTypeNotFound")
  BY ReturnSame, SameCalls DEF FileTree!Call
<1> CASE ~UnknownType(c) /\ c.path.kind = "empty" /\ ret' = Result("InvalidPath")
  BY ReturnSame, SameCalls DEF FileTree!Call
<1> CASE /\ ~UnknownType(c) /\ c.path.kind = "absolute"
         /\ ~(c.op = "mount" /\ IsRootPath(c.path))
         /\ ~HasRoot /\ ret' = Result("NoRootDirectory")
  <2> FileTree!Return("NoRootDirectory")
    BY ReturnSame
  <2> FileTree!Absolute(c)
    BY DEF FileTree!Absolute, IsRootPath
  <2> QED
    BY SameCalls DEF FileTree!Call
<1> CASE /\ ~UnknownType(c) /\ c.op = "mount" /\ IsRootPath(c.path)
         /\ HasRoot /\ ret' = Result("AlreadyExists")
  <2> FileTree!Return("AlreadyExists")
    BY ReturnSame
  <2> FileTree!Absolute(c)
    BY DEF FileTree!Absolute, FileTree!MountRoot, IsRootPath
  <2> QED
    BY SameCalls DEF FileTree!Call, IsRootPath
<1> QED
  BY DEF Reject

-----------------------------------------------------------------------------
(* New objects.                                                            *)

(* One more node changes nothing on disk.                                  *)
LEMMA MoreNodesTrue ==
  ASSUME Known, TInv, NEW n, n \notin DOMAIN nodes, NEW r
  PROVE  TrueStore(Extend(nodes, n, r), entries, table, mounts)
<1> DEFINE ns2 == Extend(nodes, n, r)
<1>1. /\ DOMAIN ns2 = DOMAIN nodes \cup {n} /\ ns2[n] = r
      /\ \A x \in DOMAIN nodes : ns2[x] = nodes[x]
  BY DEF Extend
<1>2. GoodStore(nodes, entries, table, mounts) /\ TrueStore(nodes, entries, table, mounts)
  BY StoreOfGood DEF Known, IInv, TInv
<1>3. \A e \in DOMAIN entries : entries[e].parent # NULL =>
        entries[entries[e].parent].node \in DOMAIN nodes
  BY <1>2 DEF GoodStore, GoodEntries, GoodEntry
<1>4. SameDisk(nodes, entries, ns2)
  BY <1>1, <1>3 DEF SameDisk
<1> QED
  BY <1>2, <1>4, SameDiskTrue

\* A name the file system has is looked up: n is its node, ns2 are the nodes
\* with n, which is new only if it is a device's.
Looked(n, e, ns2, es2, tb2, st2) ==
  /\ LookingUp /\ ~Cached(Top, Seg) /\ OnDisk(Top, Seg)
  /\ TrueStore(ns2, entries, table, mounts) /\ n \in DOMAIN ns2
  /\ \A x \in DOMAIN nodes : x \in DOMAIN ns2 /\ ns2[x] = nodes[x]
  /\ TreeNodes(ns2) \subseteq DOMAIN nodes
  /\ IF FileSystemOf(entries[Top].node) = "ramfs"
     THEN n = nodes[entries[Top].node].kids[Seg]
     ELSE ns2[n].kind = "CharDevice" /\ ns2[n].device = Seg
  /\ e = FreshEntry /\ es2 = Extend(entries, e, NewEntry(Top, n, Seg))
  /\ tb2 = Extend(table, <<Top, Seg>>, e) /\ st2 = Append(stack, e)
  /\ table' = tb2 /\ Settle(ns2, es2, mounts, files, held, st2) /\ segs' = Tail(segs)
  /\ UNCHANGED <<next_fd, call, walk, ret, panic>>

LEMMA LookupTrue ==
  ASSUME Known, IInv', TInv, NEW n, NEW e, NEW ns2, NEW es2, NEW tb2, NEW st2,
         Looked(n, e, ns2, es2, tb2, st2)
  PROVE  /\ TrueStore(nodes', entries', table', mounts') /\ TrueWalk'
         /\ UNCHANGED FileTree!vars /\ DOMAIN nodes' \subseteq DOMAIN ns2
         /\ stack' = st2 /\ entries'[e].node = n /\ nodes'[n] = ns2[n]
<1> DEFINE d == entries[Top].node
           here == Places(nodes, entries, stack)
           r == NewEntry(Top, n, Seg)
<1>1. /\ Top \in DOMAIN entries /\ d \in DOMAIN nodes /\ nodes[d].kind = "Directory"
      /\ stack \in Seq(Nat) /\ walk \in {"resolve", "parent"} /\ IsDirectory(Top)
      /\ Seg \notin Dots /\ segs # <<>> /\ (walk = "parent" => Len(segs) > 1)
  BY LooksUp, TopThere DEF IsDirectory, NodeOf, Looked
<1>2. GoodStore(nodes, entries, table, mounts) /\ TrueStore(nodes, entries, table, mounts)
  BY StoreOfGood DEF Known, IInv, TInv
<1>3. NewIn(entries, table, Top, Seg, e, r, es2, tb2) /\ e \in Nat
  BY <1>1, FreshIn, NewIds DEF Looked
<1>4. e \notin DOMAIN entries
  BY <1>3 DEF NewIn
<1>5. /\ DOMAIN es2 = DOMAIN entries \cup {e} /\ es2[e] = r
      /\ \A x \in DOMAIN entries : es2[x] = entries[x]
      /\ \A x \in DOMAIN es2 : es2[x].chain \subseteq DOMAIN es2
      /\ es2[e].node = n
  <2>1. es2 = Extend(entries, e, NewEntry(Top, n, Seg))
    BY DEF Looked
  <2>2. /\ DOMAIN es2 = DOMAIN entries \cup {e} /\ es2[e] = r
        /\ \A x \in DOMAIN entries : es2[x] = entries[x]
    BY <1>4, <2>1 DEF Extend
  <2>3. r.chain \subseteq DOMAIN entries /\ r.node = n
    BY <1>1, NewChain
  <2> HIDE DEF r
  <2> QED
    BY <2>2, <2>3, OldChains
<1>6. ns2[d] = nodes[d] /\ FileSystemOf(d) = mounts[nodes[d].mount].fs
  BY <1>1 DEF FileSystemOf, Looked
<1>7. NameOnDisk(nodes, mounts, d, Seg) /\ NameOnDisk(ns2, mounts, d, Seg)
  BY <1>6, OnDiskIs DEF NameOnDisk, Looked
<1>8. TrueStore(ns2, es2, tb2, mounts)
  <2>1. IF mounts[ns2[d].mount].fs = "ramfs" THEN r.node = ns2[d].kids[Seg]
        ELSE ns2[r.node].kind = "CharDevice" /\ ns2[r.node].device = Seg
    <3>1. r.node = n
      BY <1>5
    <3> HIDE DEF r, d
    <3> QED
      BY <1>6, <3>1 DEF d, Looked
  <2>2. Closed(entries, mounts)
    BY <1>2, StoreClosed
  <2>3. TrueStore(ns2, entries, table, mounts)
    BY DEF Looked
  <2> HIDE DEF r
  <2> QED
    BY <1>3, <1>7, <2>1, <2>2, <2>3, EntryTrue
<1>9. \A m \in DOMAIN mounts : mounts[m].root \in DOMAIN es2
  BY <1>2, <1>5 DEF GoodStore
<1>10. st2 \in Seq(Nat) /\ \A i \in DOMAIN st2 : st2[i] \in DOMAIN es2
  <2>1. \A i \in DOMAIN stack : stack[i] \in DOMAIN entries
    BY DEF Known, IInv, Good, GoodRefs
  <2> QED
    BY <1>1, <1>3, <1>5, <2>1, Pushed DEF Looked
<1>11. /\ Left(ns2, es2, mounts, files, st2, nodes', entries')
       /\ mounts' = mounts /\ files' = files /\ stack' = st2
  <2>1. held \subseteq DOMAIN es2
    BY <1>5 DEF Known, IInv, Good, GoodRefs
  <2>2. Settle(ns2, es2, mounts, files, held, st2)
    BY DEF Looked
  <2> QED
    BY <1>5, <1>9, <1>10, <2>1, <2>2, SettleLeft
<1>12. Left(ns2, es2, mounts, files, stack, nodes, entries)
  <2>1. \A x \in DOMAIN entries : /\ entries[x].node \in DOMAIN nodes
                                  /\ entries[x].parent # NULL => entries[x].parent \in DOMAIN entries
    BY <1>2 DEF GoodStore, GoodEntries, GoodEntry
  <2>2. /\ \A m \in DOMAIN mounts : mounts[m].root \in DOMAIN entries
        /\ \A i \in DOMAIN stack : stack[i] \in DOMAIN entries
        /\ \A f \in DOMAIN files : files[f].node \in DOMAIN nodes
    BY DEF Known, IInv, Good, GoodRefs, GoodFiles, GoodFile
  <2> QED
    BY <1>5, <2>1, <2>2 DEF Left, Looked
<1>13. mounts \in Seq(MountRecord)
  BY <1>2 DEF GoodStore
<1>14. /\ TreeOf(nodes', mounts) = TreeOf(ns2, mounts)
       /\ RootOf(entries', mounts) = RootOf(es2, mounts)
       /\ PointsOf(entries', mounts) = PointsOf(es2, mounts)
       /\ FilesOf(nodes', files) = FilesOf(ns2, files)
       /\ Places(nodes', entries', st2) = Places(ns2, es2, st2)
  BY SMTT(30), <1>8, <1>10, <1>11, <1>13, LeftSame
<1>15. /\ TreeOf(nodes, mounts) = TreeOf(ns2, mounts)
       /\ RootOf(entries, mounts) = RootOf(es2, mounts)
       /\ PointsOf(entries, mounts) = PointsOf(es2, mounts)
       /\ FilesOf(nodes, files) = FilesOf(ns2, files)
       /\ here = Places(ns2, es2, stack)
  BY SMTT(30), <1>1, <1>8, <1>12, <1>13, LeftSame
<1>16. SameTree
  BY <1>11, <1>14, <1>15 DEF SameTree
<1>17. PlaceOf(ns2, n) = DiskChild(nodes, mounts, d, Seg)
  <2>1. CASE FileSystemOf(d) = "ramfs"
    <3>1. n \in DOMAIN nodes /\ nodes[n].kind # "CharDevice"
      <4>1. Seg \in DOMAIN nodes[d].kids
        BY <1>6, <1>7, <2>1 DEF NameOnDisk
      <4>2. GoodNode(nodes, mounts, files, d) /\ n = nodes[d].kids[Seg]
        BY <1>1, <2>1 DEF Known, IInv, Good, GoodNodes, Looked
      <4> QED
        BY <4>1, <4>2 DEF GoodNode
    <3>2. PlaceOf(ns2, n) = <<"node", n>>
      BY <3>1 DEF PlaceOf, TreeNodes, Looked
    <3> QED
      BY <1>6, <1>7, <2>1, <3>2 DEF DiskChild, Looked
  <2>2. CASE FileSystemOf(d) # "ramfs"
    BY <1>6, <1>7, <2>2 DEF DiskChild, PlaceOf, TreeNodes, Looked
  <2> QED
    BY <2>1, <2>2
<1>18. ChildOf(nodes, entries, mounts, d, Seg) = PlaceOf(ns2, n)
  <2>1. Unknown(entries, table, Top, Seg)
    BY DEF Unknown, Cached, Looked
  <2> QED
    BY SMTT(30), <1>1, <1>2, <1>17, <2>1, ChildNotCached
<1>19. NextPlaces = Append(here, PlaceOf(ns2, n))
  <2>1. PlaceOf(ns2, n) # FileTree!Missing
    BY PlaceIsSomewhere DEF FileTree!Nowhere
  <2> QED
    BY <1>1, <1>18, <2>1 DEF NextPlaces
<1>20. Places(ns2, es2, st2) = Append(Places(ns2, es2, stack), PlaceOf(ns2, n))
  <2>1. /\ stack \in Seq(Nat) /\ e \in Nat /\ es2[e].node = n
        /\ Append(stack, e) = st2
    BY <1>1, <1>3, <1>5 DEF Looked
  <2>2. Places(ns2, es2, Append(stack, e))
          = Append(Places(ns2, es2, stack), PlaceOf(ns2, es2[e].node))
    BY <2>1, PushPlace
  <2> QED
    BY <2>1, <2>2
<1>21. Places(nodes', entries', stack') = NextPlaces
  BY <1>11, <1>14, <1>15, <1>19, <1>20
<1>22. TrueWalk'
  BY <1>1, <1>16, <1>21, WalkOn DEF Looked
<1>23. TrueStore(nodes', entries', table', mounts')
  BY <1>8, <1>11, LeftTrue DEF Looked
<1>24. e \in DOMAIN entries'
  <2>1. Len(st2) \in DOMAIN st2 /\ st2[Len(st2)] = e
    BY SMTT(30), <1>1, <1>3 DEF Looked
  <2> QED
    BY <1>11, <2>1 DEF Left
<1>25. entries'[e].node = n /\ nodes'[n] = ns2[n] /\ DOMAIN nodes' \subseteq DOMAIN ns2
  BY <1>5, <1>11, <1>24 DEF Left
<1> QED
  BY <1>11, <1>16, <1>22, <1>23, <1>25, SameStutters DEF Looked

LEMMA WalkLookupTrue ==
  ASSUME Known, IInv', TInv, WalkLookup
  PROVE  TInv' /\ Abstract
<1> DEFINE d == entries[Top].node
           e == FreshEntry
           tb2 == Extend(table, <<Top, Seg>>, e)
           st2 == Append(stack, e)
           Ent(n) == Extend(entries, e, NewEntry(Top, n, Seg))
<1> /\ LookingUp /\ ~Cached(Top, Seg) /\ OnDisk(Top, Seg) /\ table' = tb2
    /\ segs' = Tail(segs) /\ UNCHANGED <<next_fd, call, walk, ret, panic>>
  BY DEF WalkLookup
<1> /\ d \in DOMAIN nodes /\ GoodNode(nodes, mounts, files, d)
    /\ IsDirectory(Top) /\ walk \in {"resolve", "parent"}
  BY LooksUp, TopThere DEF Known, IInv, Good, GoodNodes
<1> CASE FileSystemOf(d) = "ramfs"
  <2> DEFINE n == nodes[d].kids[Seg]
  <2> Settle(nodes, Ent(n), mounts, files, held, st2)
    BY DEF WalkLookup, NodeOf
  <2> n \in DOMAIN nodes
    BY DEF GoodNode, OnDisk, InRamfs, NodeOf
  <2> TrueStore(nodes, entries, table, mounts) /\ TreeNodes(nodes) \subseteq DOMAIN nodes
    BY DEF TInv, TreeNodes
  <2> Looked(n, e, nodes, Ent(n), tb2, st2)
    BY DEF Looked
  <2> /\ TrueStore(nodes', entries', table', mounts') /\ TrueWalk'
      /\ UNCHANGED FileTree!vars /\ DOMAIN nodes' \subseteq DOMAIN nodes
    BY LookupTrue
  <2> RoomLeft'
    <3> walk # "none"
      BY SMTT(30)
    <3> QED
      BY RoomKept
  <2> QED
    BY DEF TInv, Abstract
<1> CASE FileSystemOf(d) # "ramfs"
  <2> DEFINE n == FreshNode
             r == DeviceNode(NodeOf(Top).mount, Seg)
             ns2 == Extend(nodes, n, r)
  <2> Settle(ns2, Ent(n), mounts, files, held, st2)
    BY DEF WalkLookup
  <2> n \notin DOMAIN nodes
    BY NewIds
  <2> r.kind = "CharDevice" /\ r.device = Seg
    BY SMTT(30) DEF DeviceNode, NewNode
  <2> HIDE DEF r, n
  <2> /\ TrueStore(ns2, entries, table, mounts)
      /\ DOMAIN ns2 = DOMAIN nodes \cup {n} /\ ns2[n] = r
      /\ \A x \in DOMAIN nodes : ns2[x] = nodes[x]
    BY MoreNodesTrue DEF Extend
  <2> HIDE DEF ns2
  <2> TreeNodes(ns2) \subseteq DOMAIN nodes
    BY DEF TreeNodes
  <2> Looked(n, e, ns2, Ent(n), tb2, st2)
    BY DEF Looked
  <2> /\ TrueStore(nodes', entries', table', mounts') /\ TrueWalk'
      /\ UNCHANGED FileTree!vars /\ DOMAIN nodes' \subseteq DOMAIN ns2
      /\ stack' = st2 /\ entries'[e].node = n /\ nodes'[n] = ns2[n]
    BY LookupTrue
  <2> RoomLeft'
    <3> ~IsDirectory(Top)'
      <4> st2[Len(st2)] = e
        BY SMTT(30), TopThere, NewIds
      <4> ns2[n].kind # "Directory"
        BY SMTT(30)
      <4> QED
        BY DEF IsDirectory, NodeOf, Top
    <3> Cardinality(DOMAIN nodes') < MaxNodes
      <4> walk # "none"
        BY SMTT(30)
      <4> Cardinality(DOMAIN nodes) + 1 < MaxNodes
        BY RoomAtDirectory
      <4> DOMAIN nodes' \subseteq DOMAIN nodes \cup {n}
        OBVIOUS
      <4> /\ Cardinality(DOMAIN nodes') \in Nat
          /\ Cardinality(DOMAIN nodes') =< Cardinality(DOMAIN nodes) + 1
        BY DEF Known, NodesCounted
      <4> QED
        BY SMTT(30), NodeCount
    <3> QED
      BY DEF RoomLeft
  <2> QED
    BY DEF TInv, Abstract
<1> QED
  OBVIOUS

-----------------------------------------------------------------------------
(* Listings.                                                               *)

(* At most one mount has its root under a name.                            *)
LEMMA OneMountAt ==
  ASSUME NEW ns, NEW es, NEW tb, NEW ms, GoodStore(ns, es, tb, ms),
         GoodMounts(ns, es, ms), NEW m \in DOMAIN ms, NEW k \in DOMAIN ms,
         es[ms[m].root].parent = es[ms[k].root].parent,
         es[ms[m].root].name = es[ms[k].root].name
  PROVE  m = k
<1> tb[<<es[ms[m].root].parent, es[ms[m].root].name>>] = ms[m].root
  BY SMTT(30), MountIsEntry
<1> tb[<<es[ms[k].root].parent, es[ms[k].root].name>>] = ms[k].root
  BY SMTT(30), MountIsEntry
<1> ms[k].root = ms[m].root
  OBVIOUS
<1> QED
  BY DEF GoodMounts, GoodMount

LEMMA MaxOfOne ==
  ASSUME NEW m \in Nat
  PROVE  Max({m}) = m
BY SMTT(30) DEF Max

LEMMA KindOfNode ==
  ASSUME NEW n \in DOMAIN nodes, nodes[n].kind # "CharDevice"
  PROVE  FileTree!Kind(FileTree!Node(n)) = nodes[n].kind
<1> TreeOf(nodes, mounts)[n].kind = nodes[n].kind
  BY TreeNode
<1> <<"node", n>>[1] # "device" /\ <<"node", n>>[2] = n
  BY SMTT(30)
<1> QED
  BY DEF FileTree!Kind, FileTree!Node

(* The names under which something is mounted in a directory.              *)
LEMMA MountedNames ==
  ASSUME Known, TInv, NEW p \in DOMAIN entries, NEW name
  PROVE  LET d == entries[p].node
             pts == PointsOf(entries, mounts)
         IN name \in {k[2] : k \in {j \in DOMAIN pts : j[1] = d}} <=> MountsAt(p, name) # {}
<1> DEFINE d == entries[p].node
           pts == PointsOf(entries, mounts)
<1> GoodStore(nodes, entries, table, mounts) /\ GoodMounts(nodes, entries, mounts)
  BY StoreOfGood DEF Known, IInv, TInv, TrueStore
<1> <<d, name>> \in DOMAIN pts <=> MountsAt(p, name) # {}
  <2> <<d, name>> \in DOMAIN pts =>
        \E m \in DOMAIN mounts : /\ entries[mounts[m].root].parent = p
                                 /\ entries[mounts[m].root].name = name
    BY SMTT(30), PointsAt
  <2> \A m \in DOMAIN mounts :
        entries[mounts[m].root].parent = p /\ entries[mounts[m].root].name = name =>
          <<d, name>> \in DOMAIN pts
    BY SMTT(30), PointsAt
  <2> QED
    BY DEF MountsAt
<1> \A k \in DOMAIN pts : k = <<k[1], k[2]>>
  <2> \A k \in DOMAIN pts : \E m \in 2..Len(mounts) : k = MountPoint(entries, mounts, m)
    BY DEF PointsOf
  <2> \A m : MountPoint(entries, mounts, m)
               = <<entries[entries[mounts[m].root].parent].node, entries[mounts[m].root].name>>
    BY DEF MountPoint
  <2> QED
    BY SMTT(30)
<1> <<d, name>>[1] = d /\ <<d, name>>[2] = name
  BY SMTT(30)
<1> HIDE DEF pts, d
<1> name \in {k[2] : k \in {j \in DOMAIN pts : j[1] = d}} <=> <<d, name>> \in DOMAIN pts
  OBVIOUS
<1> QED
  BY DEF pts, d

(* What a name in a directory is: a mount's root, or what the file system  *)
(* says it is.                                                             *)
LEMMA KindMounted ==
  ASSUME Known, TInv, NEW p \in DOMAIN entries, NEW name, MountsAt(p, name) # {}
  PROVE  NodeOf(mounts[Max(MountsAt(p, name))].root).kind
           = FileTree!Kind(FileTree!Child(entries[p].node, name))
<1> DEFINE d == entries[p].node
           pts == PointsOf(entries, mounts)
<1> GoodStore(nodes, entries, table, mounts) /\ GoodMounts(nodes, entries, mounts)
  BY StoreOfGood DEF Known, IInv, TInv, TrueStore
<1> PICK m \in DOMAIN mounts : /\ entries[mounts[m].root].parent = p
                               /\ entries[mounts[m].root].name = name
  BY DEF MountsAt
<1> DEFINE n == entries[mounts[m].root].node
<1> MountsAt(p, name) = {m}
  <2> \A k \in MountsAt(p, name) : k = m
    <3> SUFFICES ASSUME NEW k \in MountsAt(p, name)
                 PROVE  k = m
      BY SMTT(30)
    <3> /\ k \in DOMAIN mounts
        /\ entries[mounts[m].root].parent = entries[mounts[k].root].parent
        /\ entries[mounts[m].root].name = entries[mounts[k].root].name
      BY DEF MountsAt
    <3> QED
      BY SMTT(30), OneMountAt
  <2> m \in MountsAt(p, name)
    BY DEF MountsAt
  <2> QED
    OBVIOUS
<1> Max(MountsAt(p, name)) = m
  <2> m \in Nat
    BY SMTT(30) DEF Known, IInv, Good, GoodRefs
  <2> QED
    BY MaxOfOne
<1> <<d, name>> \in DOMAIN pts /\ pts[<<d, name>>] = n
  BY SMTT(30), PointsAt
<1> n \in TreeNodes(nodes)
  BY ZenonT(30), MountIsEntry
<1> n \in DOMAIN nodes /\ nodes[n].kind # "CharDevice"
  BY DEF TreeNodes
<1> HIDE DEF n
<1> FileTree!Child(d, name) = FileTree!Node(n)
  BY DEF FileTree!Child, FileTree!ChildIn
<1> FileTree!Kind(FileTree!Node(n)) = nodes[n].kind
  BY KindOfNode
<1> QED
  BY DEF NodeOf, n

LEMMA KindOnDisk ==
  ASSUME Known, TInv, NEW p \in DOMAIN entries, nodes[entries[p].node].kind = "Directory",
         NEW name \in DOMAIN ListOnDisk(p), MountsAt(p, name) = {}
  PROVE  ListOnDisk(p)[name] = FileTree!Kind(FileTree!Child(entries[p].node, name))
<1> DEFINE d == entries[p].node
           t == TreeOf(nodes, mounts)
<1> GoodStore(nodes, entries, table, mounts) /\ GoodMounts(nodes, entries, mounts)
  BY StoreOfGood DEF Known, IInv, TInv, TrueStore
<1> <<d, name>> \notin DOMAIN PointsOf(entries, mounts)
  <2> <<d, name>> \in DOMAIN PointsOf(entries, mounts) =>
        \E m \in DOMAIN mounts : /\ entries[mounts[m].root].parent = p
                                 /\ entries[mounts[m].root].name = name
    BY SMTT(30), PointsAt
  <2> QED
    BY DEF MountsAt
<1> d \in DOMAIN nodes /\ nodes[d].kind # "CharDevice" /\ GoodNode(nodes, mounts, files, d)
  <2> d \in DOMAIN nodes
    BY DEF Known, IInv, Good, GoodEntries, GoodEntry
  <2> QED
    BY SMTT(30) DEF Known, IInv, Good, GoodNodes
<1> HIDE DEF d
<1> t[d].fs = mounts[nodes[d].mount].fs /\ t[d].kids = nodes[d].kids
  BY SMTT(30), TreeNode
<1> mounts[nodes[d].mount].fs \in {"ramfs", "devfs"}
  BY SMTT(30), NodeFs
<1> CASE mounts[nodes[d].mount].fs = "ramfs"
  <2> DEFINE n == nodes[d].kids[name]
  <2> name \in DOMAIN nodes[d].kids /\ ListOnDisk(p)[name] = nodes[n].kind
    BY DEF ListOnDisk, FileSystemOf, NodeOf, d
  <2> n \in DOMAIN nodes /\ nodes[n].kind # "CharDevice"
    BY DEF GoodNode
  <2> t[d].fs # "devfs"
    BY SMTT(30)
  <2> FileTree!Child(d, name) = FileTree!Node(n)
    BY DEF FileTree!Child, FileTree!ChildIn, d
  <2> FileTree!Kind(FileTree!Node(n)) = nodes[n].kind
    BY KindOfNode
  <2> QED
    BY DEF d
<1> CASE mounts[nodes[d].mount].fs = "devfs"
  <2> name \in Devices /\ ListOnDisk(p)[name] = "CharDevice"
    <3> FileSystemOf(entries[p].node) # "ramfs"
      BY SMTT(30) DEF FileSystemOf, d
    <3> ListOnDisk(p) = [x \in Devices |-> "CharDevice"]
      BY DEF ListOnDisk
    <3> QED
      OBVIOUS
  <2> FileTree!Child(d, name) = FileTree!Device(name)
    BY SameCalls DEF FileTree!Child, FileTree!ChildIn, d
  <2> FileTree!Kind(FileTree!Device(name)) = "CharDevice"
    BY SMTT(30) DEF FileTree!Kind, FileTree!Device
  <2> QED
    BY DEF d
<1> QED
  OBVIOUS

(* A listing of the directory p is what FileTree lists.                    *)
LEMMA ListIs ==
  ASSUME Known, TInv, NEW p \in DOMAIN entries, nodes[entries[p].node].kind = "Directory"
  PROVE  List(p) = FileTree!List(entries[p].node)
<1> DEFINE d == entries[p].node
           t == TreeOf(nodes, mounts)
           pts == PointsOf(entries, mounts)
           names == {entries[mounts[m].root].name :
                       m \in {k \in DOMAIN mounts : entries[mounts[k].root].parent = p}}
           disk == DOMAIN ListOnDisk(p)
           over == {k[2] : k \in {j \in DOMAIN pts : j[1] = d}}
           F(name) == IF name \in names THEN NodeOf(mounts[Max(MountsAt(p, name))].root).kind
                      ELSE ListOnDisk(p)[name]
           G(name) == FileTree!Kind(FileTree!Child(d, name))
<1> \A name : name \in names <=> MountsAt(p, name) # {}
  BY DEF MountsAt
<1> \A name : name \in over <=> MountsAt(p, name) # {}
  BY MountedNames
<1> names = over
  OBVIOUS
<1> FileTree!Names(d) = disk \cup over
  <2> d \in DOMAIN nodes /\ nodes[d].kind # "CharDevice"
    <3> d \in DOMAIN nodes
      BY DEF Known, IInv, Good, GoodEntries, GoodEntry
    <3> QED
      BY SMTT(30)
  <2> t[d].fs = FileSystemOf(d) /\ t[d].kids = nodes[d].kids
    <3> HIDE DEF d
    <3> t[d].fs = mounts[nodes[d].mount].fs /\ t[d].kids = nodes[d].kids
      BY SMTT(30), TreeNode
    <3> QED
      BY DEF FileSystemOf
  <2> FileSystemOf(d) \in {"ramfs", "devfs"}
    <3> GoodStore(nodes, entries, table, mounts)
      BY StoreOfGood DEF Known, IInv
    <3> HIDE DEF d
    <3> mounts[nodes[d].mount].fs \in {"ramfs", "devfs"}
      BY SMTT(30), NodeFs
    <3> QED
      BY DEF FileSystemOf
  <2> CASE FileSystemOf(d) = "ramfs"
    <3> disk = DOMAIN nodes[d].kids
      BY DEF ListOnDisk, NodeOf
    <3> t[d].fs # "devfs"
      BY SMTT(30)
    <3> HIDE DEF t, disk, d
    <3> QED
      BY DEF FileTree!Names, t
  <2> CASE FileSystemOf(d) = "devfs"
    <3> FileSystemOf(d) # "ramfs"
      BY SMTT(30)
    <3> ListOnDisk(p) = [x \in Devices |-> "CharDevice"]
      BY DEF ListOnDisk
    <3> disk = Devices
      OBVIOUS
    <3> HIDE DEF t, disk, d
    <3> QED
      BY SameCalls DEF FileTree!Names, t
  <2> QED
    OBVIOUS
<1> \A name \in disk \cup names : F(name) = G(name)
  <2> SUFFICES ASSUME NEW name \in disk \cup names
               PROVE  F(name) = G(name)
    BY SMTT(30)
  <2> CASE name \in names
    BY KindMounted
  <2> CASE name \notin names
    <3> name \in DOMAIN ListOnDisk(p) /\ MountsAt(p, name) = {}
      OBVIOUS
    <3> QED
      BY KindOnDisk
  <2> QED
    OBVIOUS
<1> List(p) = [name \in disk \cup names |-> F(name)]
  BY DEF List
<1> FileTree!List(d) = [name \in disk \cup names |-> G(name)]
  BY DEF FileTree!List
<1> HIDE DEF disk, names, F, G
<1> [name \in disk \cup names |-> F(name)] = [name \in disk \cup names |-> G(name)]
  BY SMTT(30)
<1> QED
  OBVIOUS

LEMMA ReadDirectoryTrue ==
  ASSUME Known, IInv', TInv, ReadDirectory
  PROVE  TInv' /\ Abstract
<1> DEFINE d == entries[Top].node
<1> /\ Found /\ call.op = "read_directory" /\ IsDirectory(Top) /\ walk = "resolve"
    /\ ret' = Listing(List(Top)) /\ walk' = "none"
    /\ Settle(nodes, entries, mounts, files, held, <<>>)
    /\ UNCHANGED <<table, next_fd, panic>>
  BY DEF ReadDirectory, Found
<1> held \subseteq DOMAIN entries
  BY DEF Known, IInv, Good, GoodRefs
<1> TrueStore(nodes', entries', table', mounts') /\ SameTree
  BY NoEntries, SettleSame
<1> Top \in DOMAIN entries /\ d \in DOMAIN nodes /\ nodes[d].kind = "Directory"
  BY TopThere DEF IsDirectory, NodeOf
<1> List(Top) = FileTree!List(d)
  BY ListIs
<1> PlaceOf(nodes, d)[2] = d
  <2> PlaceOf(nodes, d) = <<"node", d>>
    BY DEF PlaceOf, TreeNodes
  <2> QED
    BY SMTT(30)
<1> /\ ret' = FileTree!Listing(FileTree!List(PlaceOf(nodes, d)[2]))
    /\ UNCHANGED <<TreeOf(nodes, mounts), RootOf(entries, mounts),
                   PointsOf(entries, mounts), FilesOf(nodes, files), next_fd, panic>>
  BY SameCalls DEF SameTree
<1> FileTree!IsDir(PlaceOf(nodes, d))
  BY FoundDirectory
<1> FileTree!Existing(call, PlaceOf(nodes, d))
  BY DEF FileTree!Existing
<1> QED
  BY EndTrue, OnFound DEF Abstract

-----------------------------------------------------------------------------
(* Opening what is there.                                                  *)

LEMMA OpenFoundTrue ==
  ASSUME Known, IInv', TInv, OpenFound
  PROVE  TInv' /\ Abstract
<1> DEFINE n == entries[Top].node
           k == nodes[n].links + 1
           ns2 == [nodes EXCEPT ![n].links = k]
           fs2 == Extend(files, next_fd, [node |-> n, mode |-> call.arg, pos |-> 0])
<1> /\ Found /\ call.op = "open" /\ walk = "resolve" /\ walk' = "none"
    /\ is_mutating(call.arg) => ~IsDirectory(Top)
    /\ table' = table /\ ret' = Result("ok") /\ panic' = panic /\ next_fd' = next_fd + 1
  BY DEF OpenFound, OpenNode, Found, Return
<1> Settle(ns2, entries, mounts, fs2, held, <<>>)
  <2> [nodes EXCEPT ![n].links = @ + 1] = ns2
    BY SMTT(30)
  <2> QED
    BY DEF OpenFound, OpenNode
<1> n \in DOMAIN nodes /\ DOMAIN nodes[n] = NodeFields
  BY TopThere DEF Known, IInv, Good, GoodNodes, GoodNode
<1> SameNodes(nodes, ns2)
  <2> HIDE DEF n, k
  <2> QED
    BY LinksSame
<1> TrueStore(ns2, entries, table, mounts)
  BY StoreOfGood, SameNodesTrue DEF Known, IInv, TInv
<1> HIDE DEF ns2, fs2
<1> /\ TrueStore(nodes', entries', table', mounts')
    /\ TreeOf(nodes', mounts') = TreeOf(ns2, mounts)
    /\ RootOf(entries', mounts') = RootOf(entries, mounts)
    /\ PointsOf(entries', mounts') = PointsOf(entries, mounts)
    /\ FilesOf(nodes', files') = FilesOf(ns2, fs2)
  BY NoEntries, SettleNodes
<1> TreeOf(nodes', mounts') = TreeOf(nodes, mounts)
  BY SameNodesTree
<1> FileTree!OpenAt(PlaceOf(nodes, n), call.arg)
  <2> KeptNodes(nodes, ns2) /\ PlaceOf(ns2, n) = PlaceOf(nodes, n)
    BY SameNodesKept, KeptPlace
  <2> FileTree!OpenAt(PlaceOf(ns2, n), call.arg)
    BY OpenIs DEF fs2
  <2> QED
    OBVIOUS
<1> FileTree!Ok
  BY SameCalls DEF FileTree!Ok
<1> ~(FileTree!is_mutating(call.arg) /\ FileTree!IsDir(PlaceOf(nodes, n)))
  BY FoundDirectory, SameCalls
<1> FileTree!Existing(call, PlaceOf(nodes, n))
  <2> UNCHANGED <<TreeOf(nodes, mounts), RootOf(entries, mounts), PointsOf(entries, mounts)>>
    OBVIOUS
  <2> QED
    BY DEF FileTree!Existing
<1> QED
  BY EndTrue, OnFound DEF Abstract

-----------------------------------------------------------------------------
(* Creating.                                                               *)

\* The nodes ns are those there are, and n, which the directory d has as name.
HasChild(ns, d, name, n, kind) ==
  /\ DOMAIN ns = DOMAIN nodes \cup {n} /\ n \notin DOMAIN nodes
  /\ ns[n].mount = nodes[d].mount /\ ns[n].kind = kind /\ ns[n].data = <<>>
  /\ ns[n].kids = Empty /\ DOMAIN ns[n] = NodeFields
  /\ \A x \in DOMAIN nodes :
       /\ ns[x].mount = nodes[x].mount /\ ns[x].kind = nodes[x].kind
       /\ ns[x].device = nodes[x].device /\ ns[x].data = nodes[x].data
       /\ x # d => ns[x].kids = nodes[x].kids
  /\ ns[d].kids = Extend(nodes[d].kids, name, n)

(* ramfs's new child, and the new node.                                    *)
LEMMA AddChildHas ==
  ASSUME Known, NEW d \in DOMAIN nodes, NEW name, NEW n, n \notin DOMAIN nodes, NEW kind
  PROVE  HasChild(AddChild(d, name, n, kind), d, name, n, kind)
<1> DEFINE kids2 == Extend(nodes[d].kids, name, n)
           ns1 == [nodes EXCEPT ![d].kids = kids2]
           r == NewNode(nodes[d].mount, kind, "")
           ns == Extend(ns1, n, r)
<1>1. AddChild(d, name, n, kind) = ns
  BY SMTT(30) DEF AddChild
<1>2. DOMAIN nodes[d] = NodeFields
  BY DEF Known, IInv, Good, GoodNodes, GoodNode
<1> HIDE DEF kids2, r
<1>3. DOMAIN ns1 = DOMAIN nodes /\ \A x \in DOMAIN nodes : x # d => ns1[x] = nodes[x]
  BY SMTT(30)
<1>4. /\ ns1[d].mount = nodes[d].mount /\ ns1[d].kind = nodes[d].kind
      /\ ns1[d].device = nodes[d].device /\ ns1[d].data = nodes[d].data
      /\ ns1[d].kids = kids2
  <2>1. ns1[d] = [nodes[d] EXCEPT !.kids = kids2]
    BY SMTT(30)
  <2> QED
    BY SMTT(30), <1>2, <2>1 DEF NodeFields
<1> HIDE DEF ns1
<1>5. /\ DOMAIN ns = DOMAIN nodes \cup {n} /\ ns[n] = r
      /\ \A x \in DOMAIN nodes : ns[x] = ns1[x]
  BY <1>3 DEF Extend
<1> HIDE DEF ns
<1>6. /\ \A x \in DOMAIN nodes : x # d => ns[x] = nodes[x]
      /\ ns[d] = ns1[d]
  BY <1>3, <1>5
<1>7. /\ DOMAIN ns = DOMAIN nodes \cup {n} /\ ns[n] = r
      /\ \A x \in DOMAIN nodes : x # d => ns[x] = nodes[x]
      /\ ns[d].mount = nodes[d].mount /\ ns[d].kind = nodes[d].kind
      /\ ns[d].device = nodes[d].device /\ ns[d].data = nodes[d].data
      /\ ns[d].kids = kids2
  BY <1>4, <1>5, <1>6
<1>8. /\ r.mount = nodes[d].mount /\ r.kind = kind /\ r.data = <<>>
      /\ r.kids = Empty /\ DOMAIN r = NodeFields
  BY SMTT(30) DEF r, NewNode, NodeFields
<1>9. \A x \in DOMAIN nodes :
        /\ ns[x].mount = nodes[x].mount /\ ns[x].kind = nodes[x].kind
        /\ ns[x].device = nodes[x].device /\ ns[x].data = nodes[x].data
        /\ x # d => ns[x].kids = nodes[x].kids
  BY <1>7
<1>10. HasChild(ns, d, name, n, kind)
  BY <1>7, <1>8, <1>9 DEF HasChild, kids2
<1> QED
  BY <1>1, <1>10

(* FileTree sees the same change.                                          *)
LEMMA ChildTree ==
  ASSUME Known, NEW d \in DOMAIN nodes, nodes[d].kind # "CharDevice", FileSystemOf(d) = "ramfs",
         NEW ns, NEW name, NEW n, NEW kind, kind # "CharDevice", HasChild(ns, d, name, n, kind)
  PROVE  TreeOf(ns, mounts) = FileTree!WithChild(d, name, n, kind)
<1> DEFINE t == TreeOf(nodes, mounts)
           T == TreeNodes(nodes)
           kids2 == Extend(nodes[d].kids, name, n)
           t2 == [t EXCEPT ![d].kids = kids2]
           V(m, x) == [kind |-> m[x].kind, fs |-> mounts[m[x].mount].fs,
                       data |-> m[x].data, kids |-> m[x].kids]
<1>1. t = [x \in T |-> V(nodes, x)] /\ d \in T
  BY DEF TreeOf, TreeNodes
<1>2. TreeNodes(ns) = T \cup {n} /\ n \notin T
  BY DEF TreeNodes, HasChild
<1>3. TreeOf(ns, mounts) = [x \in T \cup {n} |-> V(ns, x)]
  BY <1>2 DEF TreeOf
<1>4. V(ns, n) = FileTree!NewNode(kind, "ramfs")
  BY SameCalls DEF HasChild, FileSystemOf, FileTree!NewNode
<1>5. \A x \in T : x # d => V(ns, x) = V(nodes, x)
  <2>1. T \subseteq DOMAIN nodes
    BY DEF TreeNodes
  <2> QED
    BY <2>1 DEF HasChild
<1>6. V(ns, d) = [V(nodes, d) EXCEPT !.kids = kids2]
  <2>1. V(ns, d) = [kind |-> nodes[d].kind, fs |-> mounts[nodes[d].mount].fs,
                    data |-> nodes[d].data, kids |-> kids2]
    BY DEF HasChild
  <2> HIDE DEF kids2
  <2> QED
    BY SMTT(30), <2>1
<1>7. t[d].kids = nodes[d].kids
  BY SMTT(30), <1>1
<1> HIDE DEF V, T, kids2, t
<1>8. t2 = [x \in T |-> IF x = d THEN [V(nodes, d) EXCEPT !.kids = kids2] ELSE V(nodes, x)]
  BY SMTT(30), <1>1
<1> HIDE DEF t2
<1>9. \A x \in T : V(ns, x) = t2[x]
  BY SMTT(30), <1>5, <1>6, <1>8
<1>10. DOMAIN t2 = T
  BY SMTT(30), <1>8
<1>11. TreeOf(ns, mounts)
         = [x \in DOMAIN t2 \cup {n} |->
              IF x = n THEN FileTree!NewNode(kind, "ramfs") ELSE t2[x]]
  BY SMTT(30), <1>2, <1>3, <1>4, <1>9, <1>10
<1>12. FileTree!WithChild(d, name, n, kind)
         = FileTree!Extend(t2, n, FileTree!NewNode(kind, "ramfs"))
  <2>1. FileTree!Extend(t[d].kids, name, n) = kids2
    BY <1>7 DEF FileTree!Extend, Extend, kids2
  <2>2. [t EXCEPT ![d].kids = FileTree!Extend(@, name, n)] = t2
    BY SMTT(30), <2>1 DEF t2
  <2> QED
    BY <2>2 DEF FileTree!WithChild, t
<1> QED
  BY <1>11, <1>12 DEF FileTree!Extend

(* A name that was not cached is new to all entries.                       *)
LEMMA ChildTrue ==
  ASSUME Known, TInv, NEW p \in DOMAIN entries, NEW name, ~Cached(p, name),
         NEW n, NEW kind, NEW ns, HasChild(ns, entries[p].node, name, n, kind)
  PROVE  TrueStore(ns, entries, table, mounts)
<1> DEFINE d == entries[p].node
<1> GoodStore(nodes, entries, table, mounts) /\ TrueStore(nodes, entries, table, mounts)
  BY StoreOfGood DEF Known, IInv, TInv
<1> ASSUME NEW e \in DOMAIN entries, entries[e].parent # NULL
    PROVE  LET old == nodes[entries[entries[e].parent].node].kids
               new == ns[entries[entries[e].parent].node].kids
           IN /\ entries[e].name \in DOMAIN new <=> entries[e].name \in DOMAIN old
              /\ entries[e].name \in DOMAIN old => new[entries[e].name] = old[entries[e].name]
  <2> DEFINE q == entries[e].parent
             c == entries[q].node
             x == entries[e].name
             old == nodes[c].kids
             new == ns[c].kids
  <2> q \in DOMAIN entries /\ c \in DOMAIN nodes
    BY DEF GoodStore, GoodEntries, GoodEntry
  <2> CASE c # d
    <3> new = old
      BY DEF HasChild
    <3> QED
      OBVIOUS
  <2> CASE c = d
    <3> q = p
      BY DEF Known, IInv, Good, Tidy
    <3> <<q, x>> \in DOMAIN table /\ table[<<q, x>>] = e
      BY DEF GoodStore, GoodEntries, GoodEntry
    <3> x # name
      BY DEF Cached
    <3> new = Extend(old, name, n)
      BY DEF HasChild
    <3> HIDE DEF new, old, x
    <3> /\ x \in DOMAIN new <=> x \in DOMAIN old
        /\ x \in DOMAIN old => new[x] = old[x]
      BY DEF Extend
    <3> QED
      BY DEF new, old, x
  <2> QED
    OBVIOUS
<1> SameDisk(nodes, entries, ns)
  BY DEF SameDisk, HasChild
<1> QED
  BY SameDiskTrue

(* The same with the link counts changed.                                  *)
LEMMA HasChildLinks ==
  ASSUME NEW ns, NEW ns2, NEW d \in DOMAIN nodes, NEW name, NEW n, NEW kind,
         HasChild(ns, d, name, n, kind), NEW k, ns2 = [ns EXCEPT ![n].links = k]
  PROVE  HasChild(ns2, d, name, n, kind)
<1> n \in DOMAIN ns /\ DOMAIN ns[n] = NodeFields /\ n \notin DOMAIN nodes
  BY DEF HasChild
<1> SameNodes(ns, ns2)
  BY LinksSame
<1> DOMAIN ns2[n] = NodeFields
  <2> ns2[n] = [ns[n] EXCEPT !.links = k]
    BY SMTT(30)
  <2> QED
    BY SMTT(30)
<1> \A x \in DOMAIN nodes : x \in DOMAIN ns
  BY DEF HasChild
<1> QED
  BY DEF HasChild, SameNodes

LEMMA HasChildKept ==
  ASSUME NEW ns, NEW d, NEW name, NEW n, NEW kind, kind # "CharDevice",
         HasChild(ns, d, name, n, kind)
  PROVE  KeptNodes(nodes, ns) /\ PlaceOf(ns, n) = FileTree!Node(n)
BY DEF HasChild, KeptNodes, PlaceOf, TreeNodes, FileTree!Node

(* A node for what a call creates.                                         *)
LEMMA NodeToCreate ==
  ASSUME Known, TInv, AtParent
  PROVE  FreshNode \in (1..MaxNodes) \ DOMAIN TreeOf(nodes, mounts) /\ FreshNode \notin DOMAIN nodes
<1> walk # "none" /\ walk \in {"resolve", "parent"} /\ IsDirectory(Top)
  BY SMTT(30) DEF AtParent
<1> Cardinality(DOMAIN nodes) < MaxNodes
  <2> Cardinality(DOMAIN nodes) + 1 < MaxNodes
    BY RoomAtDirectory
  <2> QED
    BY SMTT(30), NodeCount
<1> FreshNode \in 1..MaxNodes /\ FreshNode \notin DOMAIN nodes
  BY FreshNodeFits
<1> DOMAIN TreeOf(nodes, mounts) \subseteq DOMAIN nodes
  BY DEF TreeOf, TreeNodes
<1> QED
  OBVIOUS

LEMMA CreateFileTrue ==
  ASSUME Known, IInv', TInv, CreateFile
  PROVE  TInv' /\ Abstract
<1> DEFINE d == entries[Top].node
           n == FreshNode
           ns1 == AddChild(d, Seg, n, "File")
           k == ns1[n].links + 1
           ns2 == [ns1 EXCEPT ![n].links = k]
           fs2 == Extend(files, next_fd, [node |-> n, mode |-> call.arg, pos |-> 0])
           tb2 == Extend(table, <<Top, Seg>>, FreshEntry)
<1> AtParent /\ call.op = "open" /\ FileSystemOf(d) = "ramfs"
  BY DEF CreateFile
<1> ~Cached(Top, Seg)
  BY ParentFree
<1> /\ table' = tb2 /\ walk' = "none" /\ ret' = Result("ok") /\ panic' = panic
    /\ next_fd' = next_fd + 1
  BY DEF CreateFile, OpenNode, Return
<1>4. Settle(ns2, entries, mounts, fs2, held, <<>>)
  <2>1. [ns1 EXCEPT ![n].links = @ + 1] = ns2
    BY SMTT(30)
  <2> HIDE DEF ns2
  <2> QED
    BY <2>1 DEF CreateFile, OpenNode
<1> /\ n \in (1..MaxNodes) \ DOMAIN TreeOf(nodes, mounts) /\ n \notin DOMAIN nodes
    /\ d \in DOMAIN nodes /\ nodes[d].kind = "Directory"
    /\ TreeOf(nodes, mounts)[d].fs = FileSystemOf(d)
  BY NodeToCreate, ParentNode
<1>6. Top \in DOMAIN entries /\ FreshEntry \notin DOMAIN entries
  BY TopThere, NewIds DEF AtParent
<1> HIDE DEF n, k
<1>7. HasChild(ns1, d, Seg, n, "File")
  BY AddChildHas
<1> HIDE DEF ns1
<1> HasChild(ns2, d, Seg, n, "File")
  BY <1>7, HasChildLinks
<1> HIDE DEF ns2
<1>9. TrueStore(ns2, entries, tb2, mounts)
  BY <1>6, ChildTrue, KeyTrue
<1> HIDE DEF tb2, fs2
<1> /\ TrueStore(nodes', entries', table', mounts')
    /\ TreeOf(nodes', mounts') = TreeOf(ns2, mounts)
    /\ RootOf(entries', mounts') = RootOf(entries, mounts)
    /\ PointsOf(entries', mounts') = PointsOf(entries, mounts)
    /\ FilesOf(nodes', files') = FilesOf(ns2, fs2)
  BY <1>4, <1>9, NoEntries, SettleNodes
<1> "File" # "CharDevice" /\ nodes[d].kind # "CharDevice" /\ call.op # "mount"
  BY SMTT(30)
<1>12. TreeOf(nodes', mounts') = FileTree!WithChild(d, Seg, n, "File")
  <2> HIDE DEF d
  <2>1. TreeOf(ns2, mounts) = FileTree!WithChild(d, Seg, n, "File")
    BY SMTT(30), ChildTree
  <2> QED
    BY <2>1
<1>13. FileTree!OpenAt(FileTree!Node(n), call.arg)
  <2>1. KeptNodes(nodes, ns2) /\ PlaceOf(ns2, n) = FileTree!Node(n)
    BY HasChildKept
  <2>2. FileTree!OpenAt(PlaceOf(ns2, n), call.arg)
    BY <2>1, OpenIs DEF fs2
  <2> QED
    BY <2>1, <2>2
<1>14. FileTree!Ok /\ UNCHANGED <<RootOf(entries, mounts), PointsOf(entries, mounts)>>
  BY SameCalls DEF FileTree!Ok
<1>15. FileTree!Create(call, d, Seg)
  BY <1>12, <1>13, <1>14 DEF FileTree!Create
<1> QED
  BY <1>15, EndTrue, InDirectory DEF Abstract

\* The entries es2 are the old ones and a new one.
WithEntry(es2, e, p, n, name) ==
  /\ DOMAIN es2 = DOMAIN entries \cup {e} /\ e \notin DOMAIN entries
  /\ \A x \in DOMAIN entries : es2[x] = entries[x]
  /\ \A x \in DOMAIN es2 : es2[x].chain \subseteq DOMAIN es2
  /\ es2[e].parent = p /\ es2[e].node = n /\ es2[e].name = name

LEMMA FreshWithEntry ==
  ASSUME Known, NEW p \in DOMAIN entries, NEW n, NEW name
  PROVE  WithEntry(Extend(entries, FreshEntry, NewEntry(p, n, name)), FreshEntry, p, n, name)
<1> DEFINE e == FreshEntry
           r == NewEntry(p, n, name)
           es2 == Extend(entries, e, r)
<1> e \notin DOMAIN entries
  BY NewIds
<1> r.chain \subseteq DOMAIN entries /\ r.node = n
  BY NewChain
<1> r.parent = p /\ r.name = name
  BY SMTT(30) DEF NewEntry
<1> HIDE DEF e, r
<1> /\ DOMAIN es2 = DOMAIN entries \cup {e} /\ es2[e] = r
    /\ \A x \in DOMAIN entries : es2[x] = entries[x]
  BY DEF Extend
<1> HIDE DEF es2
<1> WithEntry(es2, e, p, n, name)
  BY OldChains DEF WithEntry
<1> QED
  BY DEF es2, e, r

(* The root and the mount points are where they were.                      *)
LEMMA WithEntryPoints ==
  ASSUME Known, TInv, NEW es2, NEW e, NEW p, NEW n, NEW name, WithEntry(es2, e, p, n, name)
  PROVE  /\ RootOf(es2, mounts) = RootOf(entries, mounts)
         /\ PointsOf(es2, mounts) = PointsOf(entries, mounts)
<1>1. GoodStore(nodes, entries, table, mounts) /\ GoodMounts(nodes, entries, mounts)
  BY StoreOfGood DEF Known, IInv, TInv, TrueStore
<1>2. mounts \in Seq(MountRecord)
  BY <1>1 DEF GoodStore
<1>3. \A m \in DOMAIN mounts : /\ mounts[m].root \in DOMAIN entries
                               /\ m # 1 => entries[mounts[m].root].parent \in DOMAIN entries
  BY <1>1, MountIsEntry
<1>4. \A m \in DOMAIN mounts : es2[mounts[m].root] = entries[mounts[m].root]
  BY <1>3 DEF WithEntry
<1>5. \A m \in 2..Len(mounts) : m \in DOMAIN mounts /\ m # 1
  BY SMTT(30), <1>2
<1>6. \A m \in 2..Len(mounts) : MountPoint(es2, mounts, m) = MountPoint(entries, mounts, m)
  BY <1>3, <1>4, <1>5 DEF MountPoint, WithEntry
<1>7. mounts # <<>> => 1 \in DOMAIN mounts
  BY SMTT(30), <1>2
<1>8. RootOf(es2, mounts) = RootOf(entries, mounts)
  BY <1>4, <1>7 DEF RootOf
<1>9. PointsOf(es2, mounts) = PointsOf(entries, mounts)
  <2> DEFINE S == 2..Len(mounts)
             A(m) == MountPoint(es2, mounts, m)
             B(m) == MountPoint(entries, mounts, m)
             P(m) == es2[mounts[m].root].node
             Q(m) == entries[mounts[m].root].node
  <2>1. \A m \in S : A(m) = B(m) /\ P(m) = Q(m)
    BY <1>4, <1>5, <1>6
  <2>2. /\ PointsOf(es2, mounts) = [k \in {A(m) : m \in S} |-> P(CHOOSE m \in S : A(m) = k)]
        /\ PointsOf(entries, mounts) = [k \in {B(m) : m \in S} |-> Q(CHOOSE m \in S : B(m) = k)]
    BY DEF PointsOf
  <2> HIDE DEF A, B, P, Q, S
  <2>3. {A(m) : m \in S} = {B(m) : m \in S}
    BY <2>1
  <2>4. \A k \in {B(m) : m \in S} :
          P(CHOOSE m \in S : A(m) = k) = Q(CHOOSE m \in S : B(m) = k)
    <3> SUFFICES ASSUME NEW k \in {B(m) : m \in S}
                 PROVE  P(CHOOSE m \in S : A(m) = k) = Q(CHOOSE m \in S : B(m) = k)
      OBVIOUS
    <3>1. \E m \in S : B(m) = k
      OBVIOUS
    <3>2. (CHOOSE m \in S : A(m) = k) = (CHOOSE m \in S : B(m) = k)
      BY SMTT(30), <2>1
    <3>3. (CHOOSE m \in S : B(m) = k) \in S
      BY <3>1
    <3> QED
      BY <2>1, <3>2, <3>3
  <2> QED
    BY <2>2, <2>3, <2>4
<1> QED
  BY <1>8, <1>9

LEMMA CreateDirectoryTrue ==
  ASSUME Known, IInv', TInv, CreateDirectory
  PROVE  TInv' /\ Abstract
<1> DEFINE d == entries[Top].node
           n == FreshNode
           e == FreshEntry
           r == NewEntry(Top, n, Seg)
           ns2 == AddChild(d, Seg, n, "Directory")
           es2 == Extend(entries, e, r)
           tb2 == Extend(table, <<Top, Seg>>, e)
<1> AtParent /\ call.op = "create_directory" /\ FileSystemOf(d) = "ramfs"
  BY DEF CreateDirectory
<1>2. ~Cached(Top, Seg)
  BY ParentFree
<1> /\ table' = tb2 /\ walk' = "none" /\ ret' = Result("ok") /\ panic' = panic
    /\ next_fd' = next_fd
    /\ Settle(ns2, es2, mounts, files, held \cup {e}, <<>>)
  BY <1>2 DEF CreateDirectory, Return
<1> /\ n \in (1..MaxNodes) \ DOMAIN TreeOf(nodes, mounts) /\ n \notin DOMAIN nodes
    /\ d \in DOMAIN nodes /\ nodes[d].kind = "Directory"
    /\ TreeOf(nodes, mounts)[d].fs = FileSystemOf(d)
  BY NodeToCreate, ParentNode
<1> Top \in DOMAIN entries
  BY TopThere DEF AtParent
<1> HIDE DEF n
<1>6. NewIn(entries, table, Top, Seg, e, r, es2, tb2) /\ r.node = n
  <2>1. r.node = n
    BY SMTT(30), NewChain
  <2>2. NewIn(entries, table, Top, Seg, e, r, es2, tb2)
    BY FreshIn
  <2> QED
    BY <2>1, <2>2
<1> WithEntry(es2, e, Top, n, Seg)
  BY FreshWithEntry
<1> HasChild(ns2, d, Seg, n, "Directory")
  BY AddChildHas
<1> HIDE DEF ns2, es2, tb2, e, r
<1>9. TrueStore(ns2, entries, table, mounts)
  BY <1>2, ChildTrue
<1>10. /\ mounts[ns2[d].mount].fs = "ramfs" /\ r.node = ns2[d].kids[Seg]
       /\ NameOnDisk(ns2, mounts, d, Seg)
  <2>1. ns2[d].mount = nodes[d].mount /\ ns2[d].kids = Extend(nodes[d].kids, Seg, n)
    BY DEF HasChild
  <2>2. Seg \in DOMAIN ns2[d].kids /\ ns2[d].kids[Seg] = n
    BY <2>1 DEF Extend
  <2> HIDE DEF d
  <2> QED
    BY <1>6, <2>1, <2>2 DEF NameOnDisk, FileSystemOf
<1>11. TrueStore(ns2, es2, tb2, mounts)
  <2>1. Closed(entries, mounts)
    BY StoreOfGood, StoreClosed DEF Known, IInv
  <2> QED
    BY <1>6, <1>9, <1>10, <2>1, EntryTrue
<1> /\ TrueStore(nodes', entries', table', mounts')
    /\ TreeOf(nodes', mounts') = TreeOf(ns2, mounts)
    /\ RootOf(entries', mounts') = RootOf(es2, mounts)
    /\ PointsOf(entries', mounts') = PointsOf(es2, mounts)
    /\ FilesOf(nodes', files') = FilesOf(ns2, files)
  <2>1. held \cup {e} \subseteq DOMAIN es2 /\ \A m \in DOMAIN mounts : mounts[m].root \in DOMAIN es2
    BY DEF Known, IInv, Good, GoodRefs, WithEntry
  <2>2. \A x \in DOMAIN es2 : es2[x].chain \subseteq DOMAIN es2
    BY DEF WithEntry
  <2>3. \A i \in DOMAIN <<>> : <<>>[i] \in DOMAIN es2
    BY SMTT(30)
  <2> QED
    BY <1>11, <2>1, <2>2, <2>3, SettleTrue
<1> "Directory" # "CharDevice" /\ nodes[d].kind # "CharDevice" /\ call.op # "mount"
  BY SMTT(30)
<1>14. TreeOf(nodes', mounts') = FileTree!WithChild(d, Seg, n, "Directory")
  <2> HIDE DEF d
  <2>1. TreeOf(ns2, mounts) = FileTree!WithChild(d, Seg, n, "Directory")
    BY SMTT(30), ChildTree
  <2> QED
    BY <2>1
<1>15. FilesOf(nodes', files') = FilesOf(nodes, files)
  BY HasChildKept, KeptFiles
<1>16. FileTree!Ok /\ UNCHANGED <<RootOf(entries, mounts), PointsOf(entries, mounts)>>
  BY SameCalls, WithEntryPoints DEF FileTree!Ok
<1>17. FileTree!Create(call, d, Seg)
  BY <1>14, <1>15, <1>16 DEF FileTree!Create
<1> QED
  BY <1>17, EndTrue, InDirectory DEF Abstract

=============================================================================
