---------------------------- MODULE Memory_proofs ----------------------------
(***************************************************************************)
(* Proofs about Memory, for every set of valid memory maps, every place    *)
(* and size of the heap and everything that may be mapped at boot.         *)
(***************************************************************************)
EXTENDS Memory, FiniteSetTheorems, WellFoundedInduction, TLAPS

\* f was handed out: it is the frame of an item of rank less than n.
Issued(map, f, n) ==
  \E s \in Items(map) : Rank(map, s) \in 0..n - 1 /\ f = FrameOf(map, s)

(* Behind the invariants: what is in use or in hand was handed out, so     *)
(* that the next frame is a new one, and the pages before the current one  *)
(* are mapped.                                                             *)
IInv ==
  /\ TypeOK
  /\ OneUsePerFrame
  /\ \A o \in DOMAIN use : Issued(memory_map, use[o], next)
  /\ frame # NoFrame => Issued(memory_map, frame, next)
  /\ pc = "map_to" => frame # NoFrame /\ page =< LastPage
  /\ \A p \in FirstPage..page - 1 : Object(0, p) \in DOMAIN use
  /\ pc = "ready" => page > LastPage

-----------------------------------------------------------------------------

(* The frame of an item lies in its region, which is usable, and the       *)
(* arithmetic on addresses does nothing but count frames.                  *)
LEMMA FrameOfItem ==
  ASSUME NEW map \in MemoryMaps, NEW s \in Items(map)
  PROVE  /\ s = <<s[1], s[2]>> /\ s[1] \in DOMAIN map /\ s[2] \in Nat
         /\ map[s[1]].usable
         /\ FrameOf(map, s) = map[s[1]].start + s[2]
         /\ FrameOf(map, s) \in Nat
         /\ FrameOf(map, s) < map[s[1]].end
  <1>1. PICK i \in DOMAIN map : \E k \in 0..Steps(map[i]) - 1 : s = <<i, k>>
    BY DEF Items
  <1> PICK k \in 0..Steps(map[i]) - 1 : s = <<i, k>>
    BY <1>1
  <1>2. /\ map[i].start \in Nat /\ map[i].end \in Nat /\ map[i].usable \in BOOLEAN
    BY MapAssumption
  <1>3. map[i].usable /\ start_addr(map[i]) < end_addr(map[i])
    <2>1. k \in Int /\ 0 =< k /\ k =< Steps(map[i]) - 1
      BY <1>2 DEF Steps, start_addr, end_addr
    <2> QED BY <2>1, <1>2 DEF Steps
  <1>4. k < (map[i].end * 4096 - map[i].start * 4096 + 4095) \div 4096
    BY <1>2, <1>3 DEF Steps, start_addr, end_addr
  <1>5. k \in Nat /\ map[i].start + k < map[i].end
    BY <1>2, <1>4
  <1>6. FrameOf(map, s) = (map[i].start * 4096 + 4096 * k) \div 4096
    BY DEF FrameOf, start_addr, containing_address
  <1>7. FrameOf(map, s) = map[i].start + k
    BY <1>2, <1>5, <1>6
  <1> QED BY <1>2, <1>3, <1>5, <1>7

(* Two items with the same frame are the same item.                        *)
LEMMA FramesDiffer ==
  ASSUME NEW map \in MemoryMaps, NEW s \in Items(map), NEW t \in Items(map),
         FrameOf(map, s) = FrameOf(map, t)
  PROVE  s = t
  <1>0. /\ s[1] \in DOMAIN map /\ s[2] \in Nat /\ FrameOf(map, s) = map[s[1]].start + s[2]
        /\ FrameOf(map, s) \in Nat /\ FrameOf(map, s) < map[s[1]].end
        /\ t[1] \in DOMAIN map /\ t[2] \in Nat /\ FrameOf(map, t) = map[t[1]].start + t[2]
        /\ FrameOf(map, t) < map[t[1]].end
    BY Zenon, FrameOfItem
  <1>1. /\ map[s[1]].start \in Nat /\ map[s[1]].end \in Nat
        /\ map[t[1]].start \in Nat /\ map[t[1]].end \in Nat
    BY Zenon, <1>0, MapAssumption
  <1>2. /\ s[1] \in DOMAIN map /\ map[s[1]].start =< FrameOf(map, s)
        /\ FrameOf(map, s) \in Nat /\ FrameOf(map, s) < map[s[1]].end
        /\ t[1] \in DOMAIN map /\ map[t[1]].start =< FrameOf(map, t)
        /\ FrameOf(map, t) < map[t[1]].end
    BY ONLY <1>0, <1>1
  <1>3. \/ s[1] = t[1] \/ map[s[1]].end =< map[t[1]].start
        \/ map[t[1]].end =< map[s[1]].start
    BY Zenon, <1>0, MapAssumption
  <1>4. s[1] = t[1]
    BY <1>1, <1>2, <1>3
  <1> QED BY <1>1, <1>4, FrameOfItem

(* allocate_frame returns the frame of the item whose rank is next.        *)
LEMMA NthIsIssued ==
  ASSUME NEW n \in Nat, HasNth(n)
  PROVE  \E s \in Items(memory_map) : Rank(memory_map, s) = n /\ Nth(n) = FrameOf(memory_map, s)
  BY Zenon DEF HasNth, Nth

(* A frame that was handed out is another than the next one.               *)
LEMMA NextIsNew ==
  ASSUME memory_map \in MemoryMaps, next \in Nat, HasNth(next), NEW f,
         Issued(memory_map, f, next)
  PROVE  f # Nth(next)
  <1>1. PICK s \in Items(memory_map) :
               Rank(memory_map, s) = next /\ Nth(next) = FrameOf(memory_map, s)
    BY NthIsIssued
  <1>2. PICK t \in Items(memory_map) :
               Rank(memory_map, t) \in 0..next - 1 /\ f = FrameOf(memory_map, t)
    BY DEF Issued
  <1>3. s # t
    BY <1>1, <1>2
  <1> QED BY <1>1, <1>2, <1>3, FramesDiffer

(* What was handed out stays so, and the next frame becomes so.            *)
LEMMA IssuedMore ==
  ASSUME memory_map \in MemoryMaps, next \in Nat
  PROVE  /\ \A f : Issued(memory_map, f, next) => Issued(memory_map, f, next + 1)
         /\ HasNth(next) => Issued(memory_map, Nth(next), next + 1)
         /\ HasNth(next) => Nth(next) # NoFrame
  <1>1. \A f : Issued(memory_map, f, next) => Issued(memory_map, f, next + 1)
    BY DEF Issued
  <1>2. ASSUME HasNth(next)
        PROVE Issued(memory_map, Nth(next), next + 1) /\ Nth(next) # NoFrame
    <2>1. PICK s \in Items(memory_map) :
               Rank(memory_map, s) = next /\ Nth(next) = FrameOf(memory_map, s)
      BY <1>2, NthIsIssued
    <2>2. Nth(next) \in Nat
      BY <2>1, FrameOfItem
    <2> QED BY <2>1, <2>2 DEF Issued, NoFrame
  <1> QED BY <1>1, <1>2

(* The pages are naturals, the last not before the first.                  *)
LEMMA Pages ==
  /\ FirstPage \in Nat /\ LastPage \in Nat /\ FirstPage =< LastPage
  BY HeapAssumption DEF FirstPage, LastPage, containing_address

-----------------------------------------------------------------------------

LEMMA InitIInv == Init => IInv
  BY Pages DEF Init, IInv, TypeOK, OneUsePerFrame, InHand, NoFrame

(* A step that puts f, which was handed out and is in no use, to use as o. *)
LEMMA UseKeeps ==
  ASSUME OneUsePerFrame, NEW o, o \notin DOMAIN use, NEW f, f \notin Range(use),
         use' = WithUse(o, f), frame' \in {frame, NoFrame}, f # frame'
  PROVE  /\ OneUsePerFrame'
         /\ DOMAIN use' = DOMAIN use \cup {o} /\ use'[o] = f
         /\ \A q \in DOMAIN use : use'[q] = use[q]
  <1>1. /\ DOMAIN use' = DOMAIN use \cup {o} /\ use'[o] = f
        /\ \A q \in DOMAIN use : use'[q] = use[q]
    BY DEF WithUse
  <1>2. \A q \in DOMAIN use : f # use[q]
    BY DEF Range
  <1>3. OneUsePerFrame'
    BY <1>1, <1>2 DEF OneUsePerFrame, InHand
  <1> QED BY <1>1, <1>3

LEMMA FailIInv ==
  ASSUME IInv, NEW e, FailWith(e), next' \in {next, next + 1},
         e \in {"FrameAllocationFailed", "ParentEntryHugePage", "PageAlreadyMapped"}
  PROVE  IInv'
  <1>1. /\ UNCHANGED <<memory_map, boot, use, page, level, frame>>
        /\ pc' = "panic" /\ error' = e
    BY DEF FailWith
  <1>2. memory_map \in MemoryMaps /\ next \in Nat
    BY DEF IInv, TypeOK
  <1>3. TypeOK' /\ OneUsePerFrame'
    BY <1>1, <1>2, Pages DEF IInv, TypeOK, OneUsePerFrame, InHand, Object
  <1>4. \A f : Issued(memory_map, f, next) => Issued(memory_map, f, next')
    BY <1>2, IssuedMore
  <1> QED BY <1>1, <1>3, <1>4 DEF IInv, Object

LEMMA NextIInv == IInv /\ [Next]_vars => IInv'
  <1> SUFFICES ASSUME IInv, [Next]_vars PROVE IInv'
    OBVIOUS
  <1> USE Pages
  <1>0. /\ memory_map \in MemoryMaps /\ next \in Nat /\ page \in Nat /\ level \in 0..3
        /\ TypeOK /\ OneUsePerFrame
    BY DEF IInv, TypeOK
  <1>1. CASE TakeFrame
    <2>1. CASE OutOfFrames
      BY <2>1, FailIInv DEF OutOfFrames
    <2>2. CASE Allocate /\ ~OutOfFrames
      <3>1. /\ frame' = Nth(next) /\ next' = next + 1 /\ HasNth(next)
            /\ pc' = "map_to" /\ level' = 3 /\ page =< LastPage
            /\ UNCHANGED <<memory_map, boot, use, page, error>>
        BY <1>1, <2>2 DEF TakeFrame, Allocate
      <3>2. \A o \in DOMAIN use : use[o] # frame'
        BY <3>1, <1>0, NextIsNew DEF IInv
      <3>3. OneUsePerFrame'
        BY <3>1, <3>2 DEF IInv, OneUsePerFrame, InHand
      <3>4. /\ \A f : Issued(memory_map, f, next) => Issued(memory_map, f, next')
            /\ Issued(memory_map, frame', next') /\ frame' # NoFrame
        BY <3>1, <1>0, IssuedMore
      <3>5. TypeOK'
        BY <3>1, <1>0 DEF TypeOK, Object
      <3> QED BY <3>1, <3>3, <3>4, <3>5 DEF IInv, Object, NoFrame
    <2> QED BY <1>1, <2>1, <2>2 DEF TakeFrame
  <1>2. CASE UseTable
    <2>1. /\ level > 0 /\ level' = level - 1
          /\ UNCHANGED <<memory_map, next, boot, use, pc, page, frame, error>>
      BY <1>2 DEF UseTable
    <2>2. TypeOK' /\ OneUsePerFrame'
      BY <2>1, <1>0 DEF TypeOK, OneUsePerFrame, InHand, Object
    <2> QED BY <2>1, <2>2 DEF IInv, Object
  <1>3. CASE HugePage
    BY <1>3, FailIInv DEF HugePage
  <1>4. CASE CreateTable
    <2>1. CASE OutOfFrames
      BY <2>1, FailIInv DEF OutOfFrames
    <2>2. CASE Allocate /\ ~OutOfFrames
      <3>1. /\ use' = WithUse(Object(level, page), Nth(next))
            /\ next' = next + 1 /\ HasNth(next)
            /\ level > 0 /\ level' = level - 1 /\ pc = "map_to"
            /\ Object(level, page) \notin DOMAIN use
            /\ UNCHANGED <<memory_map, boot, pc, page, frame, error>>
        BY <1>4, <2>2 DEF CreateTable, Allocate, Exists
      <3>2. Nth(next) \notin Range(use) /\ Nth(next) # frame
        BY <3>1, <1>0, NextIsNew DEF IInv, Range
      <3>3. /\ OneUsePerFrame'
            /\ DOMAIN use' = DOMAIN use \cup {Object(level, page)}
            /\ use'[Object(level, page)] = Nth(next)
            /\ \A q \in DOMAIN use : use'[q] = use[q]
        BY Zenon, <3>1, <3>2, <1>0, UseKeeps
      <3>4. /\ \A f : Issued(memory_map, f, next) => Issued(memory_map, f, next')
            /\ Issued(memory_map, Nth(next), next')
        BY <3>1, <1>0, IssuedMore
      <3>5. page \in FirstPage..LastPage
        BY <3>1 DEF IInv, TypeOK
      <3>6. DOMAIN use' \subseteq {Object(l, p) : l \in 0..3, p \in FirstPage..LastPage}
        BY <3>3, <3>5, <1>0 DEF TypeOK
      <3>7. TypeOK'
        BY <3>1, <3>6, <1>0 DEF TypeOK, Object
      <3> QED BY <3>1, <3>3, <3>4, <3>7 DEF IInv, Object
    <2> QED BY <1>4, <2>1, <2>2 DEF CreateTable
  <1>5. CASE AlreadyMapped
    BY <1>5, FailIInv DEF AlreadyMapped
  <1>6. CASE MapPage
    <2>1. /\ use' = WithUse(Object(0, page), frame)
          /\ frame' = NoFrame /\ page' = page + 1 /\ pc' = "loop"
          /\ pc = "map_to" /\ level = 0 /\ Object(0, page) \notin DOMAIN use
          /\ UNCHANGED <<memory_map, next, boot, level, error>>
      BY <1>6 DEF MapPage, Exists
    <2>2. frame # NoFrame /\ page =< LastPage /\ Issued(memory_map, frame, next)
      BY <2>1 DEF IInv
    <2>3. frame \notin Range(use)
      BY <2>2, <1>0 DEF OneUsePerFrame, InHand, Range
    <2>4. /\ OneUsePerFrame'
          /\ DOMAIN use' = DOMAIN use \cup {Object(0, page)}
          /\ use'[Object(0, page)] = frame
          /\ \A q \in DOMAIN use : use'[q] = use[q]
      BY <2>1, <2>2, <2>3, <1>0, UseKeeps
    <2>5. page \in FirstPage..LastPage
      BY <2>2 DEF IInv, TypeOK
    <2>6. DOMAIN use' \subseteq {Object(l, p) : l \in 0..3, p \in FirstPage..LastPage}
      BY <2>4, <2>5, <1>0 DEF TypeOK
    <2>7. TypeOK'
      BY <2>1, <2>5, <2>6, <1>0 DEF TypeOK, Object
    <2>8. \A p \in FirstPage..page' - 1 : Object(0, p) \in DOMAIN use'
      BY <2>1, <2>4, <2>5 DEF IInv
    <2> QED BY <2>1, <2>2, <2>4, <2>7, <2>8 DEF IInv, Object
  <1>7. CASE InitHeap
    BY <1>7, <1>0 DEF InitHeap, IInv, TypeOK, OneUsePerFrame, InHand, Object
  <1>8. CASE Stop \/ UNCHANGED vars
    BY <1>8, <1>0 DEF Stop, vars, IInv, TypeOK, OneUsePerFrame, InHand, Object
  <1> QED BY <1>1, <1>2, <1>3, <1>4, <1>5, <1>6, <1>7, <1>8 DEF Next, Boot

-----------------------------------------------------------------------------

LEMMA Invariance == Spec => []IInv
  BY InitIInv, NextIInv, PTL DEF Spec

(* init_heap's variables keep their types: page never runs past the page   *)
(* after the heap, and map_to never leaves its four levels.                *)
THEOREM TypeCorrect == Spec => []TypeOK
  <1>1. IInv => TypeOK
    BY DEF IInv
  <1> QED BY <1>1, Invariance, PTL

(* allocate_frame never hands out a frame twice, so no frame serves two    *)
(* pages, two tables, or a page and a table.                               *)
THEOREM FramesNotShared == Spec => []OneUsePerFrame
  <1>1. IInv => OneUsePerFrame
    BY DEF IInv
  <1> QED BY <1>1, Invariance, PTL

(* allocate_frame hands out nothing but frames of usable regions.          *)
THEOREM FramesAreUsable == Spec => []FramesUsable
  <1>1. IInv => FramesUsable
    <2> SUFFICES ASSUME IInv, NEW f \in Range(use) \cup InHand
                 PROVE  \E i \in DOMAIN memory_map :
                          /\ memory_map[i].usable
                          /\ memory_map[i].start =< f /\ f < memory_map[i].end
      BY DEF FramesUsable
    <2>1. memory_map \in MemoryMaps
      BY DEF IInv, TypeOK
    <2>2. Issued(memory_map, f, next)
      BY DEF IInv, Range, InHand
    <2>3. PICK s \in Items(memory_map) : f = FrameOf(memory_map, s)
      BY <2>2 DEF Issued
    <2> QED BY <2>1, <2>3, FrameOfItem, MapAssumption
  <1> QED BY <1>1, Invariance, PTL

(* ALLOCATOR.init is reached only when every byte of the heap is on a page *)
(* that has a frame of its own.                                            *)
THEOREM HeapIsBacked == Spec => []HeapBacked
  <1>1. IInv => HeapBacked
    <2> SUFFICES ASSUME IInv, pc = "ready",
                        NEW addr \in HEAP_START..HEAP_START + HEAP_SIZE - 1
                 PROVE  Object(0, addr \div 4096) \in DOMAIN use
      BY DEF HeapBacked
    <2>1. addr \div 4096 \in FirstPage..LastPage
      BY HeapAssumption DEF FirstPage, LastPage, containing_address
    <2>2. page \in Nat /\ page > LastPage
      BY Pages DEF IInv, TypeOK
    <2>3. addr \div 4096 \in FirstPage..page - 1
      BY <2>1, <2>2, Pages
    <2> QED BY <2>3 DEF IInv
  <1> QED BY <1>1, Invariance, PTL

-----------------------------------------------------------------------------
(* Nothing is skipped.                                                     *)

(* A set of naturals has a least element.                                  *)
LEMMA LeastOf ==
  ASSUME NEW S, S \subseteq Nat, S # {}
  PROVE  \E x \in S : \A y \in S : x =< y
  <1>1. PICK x \in S : \A y \in S : ~ (<<y, x>> \in OpToRel(<, Nat))
    BY Zenon, NatLessThanWellFounded, WFMin
  <1>2. ASSUME NEW y \in S PROVE x =< y
    <2>1. <<y, x>> \in Nat \X Nat /\ <<y, x>>[1] = y /\ <<y, x>>[2] = x
      OBVIOUS
    <2>2. ~ (<<y, x>> \in {ss \in Nat \X Nat : ss[1] < ss[2]})
      BY <1>1, Zenon DEF OpToRel
    <2>3. ~ (y < x)
      BY <2>1, <2>2
    <2> QED BY <2>3
  <1> QED BY <1>2

(* A memory map has finitely many usable frames.                           *)
LEMMA ItemsFinite ==
  ASSUME NEW map \in MemoryMaps
  PROVE  IsFiniteSet(Items(map))
  <1> DEFINE Of(i) == {<<i, k>> : k \in 0..Steps(map[i]) - 1}
             T == {Of(i) : i \in DOMAIN map}
  <1>1. ASSUME NEW i \in DOMAIN map PROVE IsFiniteSet(Of(i))
    <2> DEFINE K == 0..Steps(map[i]) - 1
               g == [k \in K |-> <<i, k>>]
    <2>1. Steps(map[i]) - 1 \in Int
      <3>1. map[i].start \in Nat /\ map[i].end \in Nat
        BY Zenon, MapAssumption
      <3>2. start_addr(map[i]) \in Int /\ end_addr(map[i]) \in Int
        BY ONLY <3>1 DEF start_addr, end_addr
      <3> QED BY ONLY <3>2 DEF Steps
    <2>2. IsFiniteSet(K)
      BY <2>1, FS_Interval
    <2> HIDE DEF K
    <2>3. g \in Surjection(K, {<<i, k>> : k \in K})
      BY DEF Surjection
    <2>4. IsFiniteSet({<<i, k>> : k \in K})
      BY <2>2, <2>3, FS_Surjection
    <2> QED BY <2>4 DEF K
  <1>2. IsFiniteSet(DOMAIN map)
    BY MapAssumption, FS_Interval
  <1> DEFINE h == [i \in DOMAIN map |-> Of(i)]
  <1>3. Items(map) = UNION T
    BY DEF Items
  <1> HIDE DEF Of
  <1>4. h \in Surjection(DOMAIN map, T)
    BY DEF Surjection
  <1>5. IsFiniteSet(T)
    BY <1>2, <1>4, FS_Surjection
  <1>6. IsFiniteSet(UNION T)
    BY <1>1, <1>5, FS_UNION
  <1> QED BY <1>3, <1>6

(* Of two items one comes before the other, and has the smaller rank.      *)
LEMMA Ranks ==
  ASSUME NEW map \in MemoryMaps, NEW s \in Items(map), NEW t \in Items(map), s # t
  PROVE  /\ Rank(map, s) \in Nat /\ Rank(map, t) \in Nat
         /\ Before(s, t) \/ Before(t, s)
         /\ Before(s, t) => Rank(map, s) < Rank(map, t)
  <1> DEFINE B(x) == {y \in Items(map) : Before(y, x)}
  <1>1. ASSUME NEW x \in Items(map)
        PROVE  /\ x = <<x[1], x[2]>> /\ x[1] \in Nat /\ x[2] \in Nat
    BY FrameOfItem, MapAssumption
  <1>2. Before(s, t) \/ Before(t, s)
    BY <1>1 DEF Before
  <1>3. IsFiniteSet(B(s)) /\ IsFiniteSet(B(t))
    BY ItemsFinite, FS_Subset
  <1>4. Cardinality(B(s)) \in Nat /\ Cardinality(B(t)) \in Nat
    BY <1>3, FS_CardinalityType
  <1>5. ASSUME Before(s, t) PROVE Cardinality(B(s)) < Cardinality(B(t))
    <2>1. B(s) \subseteq B(t)
      BY <1>1, <1>5 DEF Before
    <2>2. s \in B(t) /\ s \notin B(s)
      BY <1>1, <1>5 DEF Before
    <2>3. B(s) # B(t)
      BY <2>2
    <2> HIDE DEF B
    <2> QED BY <2>1, <2>3, <1>3, <1>4, FS_Subset
  <1> QED BY <1>2, <1>4, <1>5 DEF Rank

(* Where one item has rank r > 0, another has rank r - 1.                  *)
LEMMA RankBefore ==
  ASSUME NEW map \in MemoryMaps, NEW s \in Items(map), Rank(map, s) > 0
  PROVE  \E t \in Items(map) : Rank(map, t) = Rank(map, s) - 1
  <1> DEFINE B == {y \in Items(map) : Before(y, s)}
             r == Rank(map, s)
             D == {r - Rank(map, y) : y \in B}
  <1>1. /\ IsFiniteSet(B) /\ Cardinality(B) = r /\ r \in Nat /\ r > 0
    BY ItemsFinite, FS_Subset, FS_CardinalityType DEF Rank
  <1>2. ASSUME NEW y \in B PROVE y # s /\ Rank(map, y) \in Nat /\ Rank(map, y) < r
    <2>1. y # s
      BY FrameOfItem, MapAssumption DEF Before
    <2> QED BY <2>1, Ranks
  <1>3. D \subseteq Nat
    BY <1>1, <1>2
  <1>4. B # {}
    BY <1>1, FS_EmptySet
  <1>5. PICK d \in D : \A y \in D : d =< y
    BY Zenon, <1>3, <1>4, LeastOf
  <1>6. PICK t \in B : d = r - Rank(map, t)
    BY <1>5
  <1>7. ASSUME NEW y \in B, y # t PROVE Before(y, t)
    <2>1. r - Rank(map, t) =< r - Rank(map, y)
      BY <1>5, <1>6
    <2>2. Rank(map, y) =< Rank(map, t)
      BY <2>1, <1>1, <1>2
    <2>3. ~Before(t, y)
      BY <2>2, <1>2, <1>7, Ranks
    <2> QED BY <2>3, <1>7, Ranks
  <1>8. {y \in Items(map) : Before(y, t)} = B \ {t}
    <2>1. ASSUME NEW y \in Items(map), Before(y, t) PROVE y \in B /\ y # t
      <3>1. \A x \in Items(map) : x[1] \in Nat /\ x[2] \in Nat
        <4>1. \A x \in Items(map) : x[1] \in DOMAIN map /\ x[2] \in Nat
          BY Zenon, FrameOfItem
        <4>2. DOMAIN map = 1..Len(map) /\ Len(map) \in Nat
          BY Zenon, MapAssumption
        <4>3. DOMAIN map \subseteq Nat
          BY ONLY <4>2
        <4> QED BY Zenon, <4>1, <4>3
      <3> QED BY ONLY <2>1, <3>1, y \in Items(map), t \in B DEF Before
    <2> QED BY <2>1, <1>7
  <1>9. Rank(map, t) = Cardinality(B \ {t})
    BY Zenon, <1>8 DEF Rank
  <1> HIDE DEF B, r
  <1>10. Cardinality(B \ {t}) = r - 1
    BY Zenon, <1>1, FS_RemoveElement
  <1> QED BY <1>9, <1>10 DEF B, r

(* When nth(n) is None every usable frame has a rank below n.              *)
LEMMA NoneAbove ==
  ASSUME NEW map \in MemoryMaps, NEW n \in Nat,
         \A s \in Items(map) : Rank(map, s) # n
  PROVE  \A s \in Items(map) : Rank(map, s) \in 0..n - 1
  <1>1. \A s \in Items(map) : Rank(map, s) \in Nat
    BY ItemsFinite, FS_Subset, FS_CardinalityType DEF Rank
  <1> DEFINE S == {Rank(map, s) : s \in {x \in Items(map) : Rank(map, x) > n}}
  <1>2. S = {}
    <2> SUFFICES ASSUME S # {} PROVE FALSE
      OBVIOUS
    <2>1. S \subseteq Nat
      BY <1>1
    <2>2. PICK x \in S : \A y \in S : x =< y
      BY Zenon, <2>1, LeastOf
    <2>3. PICK s \in Items(map) : x = Rank(map, s) /\ Rank(map, s) > n
      BY <2>2
    <2>4. PICK t \in Items(map) : Rank(map, t) = x - 1
      BY <2>3, <1>1, RankBefore
    <2>5. x - 1 # n /\ x - 1 >= n
      BY <2>3, <2>4, <1>1
    <2>6. x - 1 \in S
      BY <2>3, <2>4, <2>5, <1>1
    <2> HIDE DEF S
    <2>7. x \in Nat /\ x =< x - 1
      BY <2>1, <2>2, <2>6
    <2> QED BY <2>7
  <1> QED BY <1>1, <1>2

(* Every usable frame of the memory map is the frame of an item.           *)
LEMMA FrameHasItem ==
  ASSUME NEW map \in MemoryMaps, NEW i \in DOMAIN map, map[i].usable,
         NEW f \in map[i].start..map[i].end - 1
  PROVE  \E s \in Items(map) : FrameOf(map, s) = f
  <1> DEFINE k == f - map[i].start
             s == <<i, k>>
  <1>1. /\ map[i].start \in Nat /\ map[i].end \in Nat /\ f \in Nat /\ k \in Nat
        /\ k < map[i].end - map[i].start /\ map[i].start < map[i].end
    BY MapAssumption
  <1>2. Steps(map[i]) = (map[i].end * 4096 - map[i].start * 4096 + 4095) \div 4096
    BY <1>1 DEF Steps, start_addr, end_addr
  <1>3. Steps(map[i]) = map[i].end - map[i].start
    BY <1>1, <1>2
  <1>4. k \in 0..Steps(map[i]) - 1
    BY <1>1, <1>3
  <1>5. s \in Items(map)
    BY <1>4 DEF Items
  <1>6. FrameOf(map, s) = (map[i].start * 4096 + 4096 * k) \div 4096
    BY DEF FrameOf, start_addr, containing_address
  <1>7. (map[i].start * 4096 + 4096 * k) \div 4096 = f
    BY <1>1
  <1> QED BY <1>5, <1>6, <1>7

InUse == Range(use) \cup InHand
Taken(map, n, U) ==
  \A s \in Items(map) : Rank(map, s) \in 0..n - 1 => FrameOf(map, s) \in U

\* What was handed out is still in use or in hand, init_heap drops no frame, and
\* when it ends for want of frames there was none left.
CInv ==
  /\ pc # "panic" => Taken(memory_map, next, InUse) /\ error = "none"
  /\ pc = "loop" => frame = NoFrame
  /\ error = "FrameAllocationFailed" =>
       \A s \in Items(memory_map) : FrameOf(memory_map, s) \in InUse

(* The next frame is taken, and nothing given back.                        *)
LEMMA TakenMore ==
  ASSUME memory_map \in MemoryMaps, NEW n \in Nat, HasNth(n), NEW U, NEW V,
         Taken(memory_map, n, U), U \subseteq V, Nth(n) \in V
  PROVE  Taken(memory_map, n + 1, V)
  <1> SUFFICES ASSUME NEW s \in Items(memory_map), Rank(memory_map, s) \in 0..n + 1 - 1
               PROVE  FrameOf(memory_map, s) \in V
    BY DEF Taken
  <1>1. CASE Rank(memory_map, s) = n
    <2>1. PICK t \in Items(memory_map) :
                 Rank(memory_map, t) = n /\ Nth(n) = FrameOf(memory_map, t)
      BY NthIsIssued
    <2>2. s = t
      <3>1. s # t => Before(s, t) \/ Before(t, s)
        BY Ranks
      <3>2. s # t /\ Before(s, t) => Rank(memory_map, s) < Rank(memory_map, t)
        BY Ranks
      <3>3. s # t /\ Before(t, s) => Rank(memory_map, t) < Rank(memory_map, s)
        BY Ranks
      <3> QED BY <3>1, <3>2, <3>3, <1>1, <2>1
    <2> QED BY <2>1, <2>2
  <1>2. CASE Rank(memory_map, s) # n
    <2>1. Rank(memory_map, s) \in 0..n - 1
      BY <1>2
    <2> QED BY Zenon, <2>1 DEF Taken
  <1> QED BY <1>1, <1>2

(* init_heap fails: it is out of frames, or gives up with some left.       *)
LEMMA FailCInv ==
  ASSUME IInv, CInv, pc # "panic", NEW e, FailWith(e),
         e = "FrameAllocationFailed" => ~HasNth(next)
  PROVE  CInv'
  <1>1. /\ UNCHANGED <<memory_map, use, frame>> /\ pc' = "panic" /\ error' = e
    BY DEF FailWith
  <1>2. InUse' = InUse
    BY Zenon, <1>1 DEF InUse, InHand
  <1>3. memory_map \in MemoryMaps /\ next \in Nat /\ Taken(memory_map, next, InUse)
    BY DEF IInv, TypeOK, CInv
  <1>4. ASSUME e = "FrameAllocationFailed", NEW s \in Items(memory_map)
        PROVE  FrameOf(memory_map, s) \in InUse
    <2>1. \A t \in Items(memory_map) : Rank(memory_map, t) # next
      BY Zenon, <1>4 DEF HasNth
    <2>2. Rank(memory_map, s) \in 0..next - 1
      BY <2>1, <1>3, NoneAbove
    <2> QED BY Zenon, <2>2, <1>3 DEF Taken
  <1> QED BY Zenon, <1>1, <1>2, <1>4 DEF CInv

LEMMA NextCInv == IInv /\ CInv /\ [Next]_vars => CInv'
  <1> SUFFICES ASSUME IInv, CInv, [Next]_vars PROVE CInv'
    OBVIOUS
  <1>0. /\ memory_map \in MemoryMaps /\ next \in Nat
        /\ pc # "panic" => Taken(memory_map, next, InUse) /\ error = "none"
    BY DEF IInv, TypeOK, CInv
  \* A step that takes the next frame and keeps the others.
  <1>a. ASSUME pc # "panic", pc' # "panic", Allocate, UNCHANGED <<memory_map, error>>,
               InUse \subseteq InUse', Nth(next) \in InUse',
               pc' = "loop" => frame' = NoFrame
        PROVE  CInv'
    <2>1. next' = next + 1 /\ HasNth(next)
      BY Zenon, <1>a DEF Allocate
    <2>2. Taken(memory_map, next + 1, InUse')
      BY <1>0, <1>a, <2>1, TakenMore
    <2>3. error' = "none"
      BY <1>0, <1>a
    <2> QED BY <1>a, <2>1, <2>2, <2>3 DEF CInv
  \* A step that takes none.
  <1>b. ASSUME UNCHANGED <<memory_map, next, error>>, InUse' = InUse,
               pc = "panic" <=> pc' = "panic", pc' = "loop" => frame' = NoFrame
        PROVE  CInv'
    BY Zenon, <1>b DEF CInv
  <1>1. CASE TakeFrame
    <2>1. pc = "loop"
      BY <1>1 DEF TakeFrame
    <2>2. CASE OutOfFrames
      BY <2>1, <2>2, FailCInv DEF OutOfFrames
    <2>3. CASE Allocate /\ ~OutOfFrames
      <3>1. /\ frame' = Nth(next) /\ pc' = "map_to" /\ HasNth(next)
            /\ UNCHANGED <<memory_map, use, error>>
        BY <1>1, <2>3 DEF TakeFrame, Allocate
      <3>2. frame = NoFrame /\ Nth(next) # NoFrame
        BY <2>1, <3>1, <1>0, IssuedMore DEF CInv
      <3>3. InUse \subseteq InUse' /\ Nth(next) \in InUse'
        BY <3>1, <3>2 DEF InUse, InHand
      <3> QED BY <1>a, <2>1, <2>3, <3>1, <3>3
    <2> QED BY <1>1, <2>2, <2>3 DEF TakeFrame
  <1>2. CASE UseTable
    <2>1. /\ UNCHANGED <<memory_map, next, use, pc, frame, error>> /\ pc = "map_to"
      BY <1>2 DEF UseTable
    <2>2. InUse' = InUse
      BY Zenon, <2>1 DEF InUse, InHand
    <2> QED BY <1>b, <2>1, <2>2
  <1>3. CASE HugePage
    BY <1>3, FailCInv DEF HugePage
  <1>4. CASE CreateTable
    <2>1. pc = "map_to"
      BY <1>4 DEF CreateTable
    <2>2. CASE OutOfFrames
      BY <2>1, <2>2, FailCInv DEF OutOfFrames
    <2>3. CASE Allocate /\ ~OutOfFrames
      <3> DEFINE o == Object(level, page)
      <3>1. /\ use' = WithUse(o, Nth(next)) /\ o \notin DOMAIN use
            /\ UNCHANGED <<memory_map, pc, frame, error>>
        BY <1>4, <2>3 DEF CreateTable, Exists
      <3> HIDE DEF o
      <3>2. Range(use') = Range(use) \cup {Nth(next)}
        BY <3>1 DEF WithUse, Range
      <3>3. InUse \subseteq InUse' /\ Nth(next) \in InUse'
        BY <3>1, <3>2 DEF InUse, InHand
      <3> QED BY <1>a, <2>1, <2>3, <3>1, <3>3
    <2> QED BY <1>4, <2>2, <2>3 DEF CreateTable
  <1>5. CASE AlreadyMapped
    BY <1>5, FailCInv DEF AlreadyMapped
  <1>6. CASE MapPage
    <2> DEFINE o == Object(0, page)
    <2>1. /\ use' = WithUse(o, frame) /\ frame' = NoFrame /\ pc' = "loop"
          /\ pc = "map_to" /\ o \notin DOMAIN use
          /\ UNCHANGED <<memory_map, next, error>>
      BY <1>6 DEF MapPage, Exists
    <2>2. frame # NoFrame
      BY <2>1 DEF IInv
    <2> HIDE DEF o
    <2>3. Range(use') = Range(use) \cup {frame}
      BY <2>1 DEF WithUse, Range
    <2>4. InUse' = InUse
      BY <2>1, <2>2, <2>3 DEF InUse, InHand
    <2> QED BY <1>b, <2>1, <2>4
  <1>7. CASE InitHeap
    <2>1. /\ UNCHANGED <<memory_map, next, use, frame, error>>
          /\ pc = "loop" /\ pc' = "ready"
      BY <1>7 DEF InitHeap
    <2>2. InUse' = InUse
      BY Zenon, <2>1 DEF InUse, InHand
    <2> QED BY <1>b, <2>1, <2>2
  <1>8. CASE Stop \/ UNCHANGED vars
    <2>1. UNCHANGED <<memory_map, next, use, pc, frame, error>>
      BY <1>8 DEF Stop, vars
    <2>2. InUse' = InUse
      BY Zenon, <2>1 DEF InUse, InHand
    <2> QED BY Zenon, <2>1, <2>2 DEF CInv
  <1> QED BY <1>1, <1>2, <1>3, <1>4, <1>5, <1>6, <1>7, <1>8 DEF Next, Boot

(* init_heap fails for want of frames only when every usable frame of the  *)
(* memory map is in use or in hand: nth(next), with a counter that grows   *)
(* by one for each call, skips none, whatever the regions.                 *)
THEOREM NoFrameSkipped == Spec => []FailsOnlyWhenOut
  <1>1. Init => CInv
    <2> SUFFICES ASSUME Init PROVE CInv
      OBVIOUS
    <2>1. next = 0 /\ frame = NoFrame /\ error = "none"
      BY DEF Init
    <2>2. Taken(memory_map, next, InUse)
      BY <2>1 DEF Taken
    <2> QED BY <2>1, <2>2 DEF CInv
  <1>2. IInv /\ CInv => FailsOnlyWhenOut
    <2> SUFFICES ASSUME IInv, CInv, error = "FrameAllocationFailed",
                        NEW i \in DOMAIN memory_map, memory_map[i].usable,
                        NEW f \in memory_map[i].start..memory_map[i].end - 1
                 PROVE  f \in InUse
      BY DEF FailsOnlyWhenOut, InUse
    <2>1. memory_map \in MemoryMaps
      BY DEF IInv, TypeOK
    <2>2. PICK s \in Items(memory_map) : FrameOf(memory_map, s) = f
      BY <2>1, FrameHasItem
    <2> QED BY Zenon, <2>2 DEF CInv
  <1> QED BY <1>1, <1>2, Invariance, NextCInv, PTL DEF Spec

=============================================================================
