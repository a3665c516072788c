------------------------------- MODULE Memory --------------------------------
(***************************************************************************)
(* Physical frames and the kernel heap: BootInfoFrameAllocator hands out   *)
(* the usable frames of the bootloader's memory map one after the other,   *)
(* and init_heap maps every page of the heap to one of them.               *)
(*                                                                         *)
(* Mapper::map_to (crate x86_64, external) walks the page tables of levels *)
(* 3, 2 and 1 and takes a frame from the same allocator for each table     *)
(* that is missing.  So the two users of the allocator take turns.         *)
(***************************************************************************)
EXTENDS Integers, Sequences, FiniteSets, Functions

CONSTANTS
  MemoryMaps,  \* the memory maps the bootloader may pass
  HEAP_START, HEAP_SIZE,
  Span,        \* pages under a table of level 1, 2, 3: powers of 512
  Boots        \* what may be mapped at boot: records [tables, huge, pages]

(* A memory map is a list of regions.  A region is a FrameRange, of frame  *)
(* numbers and without its end, and whether its type is Usable.  "The      *)
(* caller must guarantee that the passed memory map is valid": regions do  *)
(* not overlap.                                                            *)
ASSUME MapAssumption ==
  \A map \in MemoryMaps :
    /\ Len(map) \in Nat /\ DOMAIN map = 1..Len(map)
    /\ \A i \in DOMAIN map : /\ map[i].start \in Nat /\ map[i].end \in Nat
                             /\ map[i].usable \in BOOLEAN
    /\ \A i, j \in DOMAIN map :
         i = j \/ map[i].end =< map[j].start \/ map[j].end =< map[i].start

ASSUME HeapAssumption ==
  /\ HEAP_START \in Nat /\ HEAP_SIZE \in Nat \ {0}
  /\ Span \in [1..3 -> Nat \ {0}]

VARIABLES
  memory_map,  \* BootInfoFrameAllocator::memory_map
  next,        \* BootInfoFrameAllocator::next
  boot,        \* what was mapped at boot
  use,         \* tables and pages made since then: object -> frame
  pc,          \* where init_heap is
  page,        \* the page it maps
  level,       \* the table map_to looks for; 0 is the page's own entry
  frame,       \* the frame for the page, or NoFrame
  error        \* the MapToError that init_heap returned, or "none"

vars == <<memory_map, next, boot, use, pc, page, level, frame, error>>

NoFrame == -1

-----------------------------------------------------------------------------
(* The frame allocator.                                                    *)

start_addr(r) == r.start * 4096
end_addr(r) == r.end * 4096
containing_address(addr) == addr \div 4096

MutantSteps(r) == IF r.usable THEN (end_addr(r) - start_addr(r) + 8191) \div 4096 ELSE 0

\* Number of items of (start_addr..end_addr).step_by(4096) of a usable region.
Steps(r) ==
  IF r.usable /\ start_addr(r) < end_addr(r)
  THEN (end_addr(r) - start_addr(r) + 4095) \div 4096 ELSE 0

\* The items of the iterator usable_frames: the k-th of the i-th region, and
\* the order they come in.
Items(map) == UNION {{<<i, k>> : k \in 0..Steps(map[i]) - 1} : i \in DOMAIN map}
Before(s, t) == s[1] < t[1] \/ (s[1] = t[1] /\ s[2] < t[2])
Rank(map, s) == Cardinality({t \in Items(map) : Before(t, s)})
FrameOf(map, s) == containing_address(start_addr(map[s[1]]) + 4096 * s[2])

\* usable_frames().nth(n)
HasNth(n) == \E s \in Items(memory_map) : Rank(memory_map, s) = n
Nth(n) == FrameOf(memory_map, CHOOSE s \in Items(memory_map) : Rank(memory_map, s) = n)

\* init_heap returns an error and kernel_main's expect panics.
FailWith(e) ==
  /\ pc' = "panic" /\ error' = e
  /\ UNCHANGED <<memory_map, boot, use, page, level, frame>>

MutantOutOfFrames == /\ ~HasNth(next + 1) /\ next' = next + 1
                     /\ FailWith("FrameAllocationFailed")

\* allocate_frame returns None ...
OutOfFrames == /\ ~HasNth(next) /\ next' = next + 1
               /\ FailWith("FrameAllocationFailed")

MutantAllocate == HasNth(next) /\ UNCHANGED next

\* ... or the frame Nth(next).
Allocate == HasNth(next) /\ next' = next + 1

-----------------------------------------------------------------------------
(* init_heap.                                                              *)

FirstPage == containing_address(HEAP_START)

MutantLastPage == containing_address(HEAP_START + HEAP_SIZE) - 1

\* Page::range_inclusive ends with the page of the heap's last byte.
LastPage == containing_address(HEAP_START + HEAP_SIZE - 1)

\* The table of a level that leads to page p; level 0 is the page itself.
Object(l, p) == <<l, IF l = 0 THEN p ELSE p \div Span[l]>>

WithUse(o, f) == [q \in DOMAIN use \cup {o} |-> IF q = o THEN f ELSE use[q]]

Exists(o) == o \in boot.tables \cup boot.pages \cup DOMAIN use

Init ==
  /\ memory_map \in MemoryMaps
  /\ boot \in Boots
  /\ next = 0
  /\ use = [o \in {} |-> NoFrame]
  /\ pc = "loop" /\ page = FirstPage /\ level = 3 /\ frame = NoFrame /\ error = "none"

\* The loop takes a frame for the next page and calls map_to.
TakeFrame ==
  /\ pc = "loop" /\ page =< LastPage
  /\ \/ OutOfFrames
     \/ /\ Allocate /\ frame' = Nth(next)
        /\ pc' = "map_to" /\ level' = 3
        /\ UNCHANGED <<memory_map, boot, use, page, error>>


\* map_to finds the table of this level, ...
UseTable ==
  /\ pc = "map_to" /\ level > 0 /\ Exists(Object(level, page))
  /\ Object(level, page) \notin boot.huge
  /\ level' = level - 1
  /\ UNCHANGED <<memory_map, next, boot, use, pc, page, frame, error>>

\* ... or finds a huge page in its place, ...
HugePage ==
  /\ pc = "map_to" /\ level > 0 /\ Object(level, page) \in boot.huge
  /\ FailWith("ParentEntryHugePage") /\ UNCHANGED next

\* ... or makes it.
CreateTable ==
  /\ pc = "map_to" /\ level > 0 /\ ~Exists(Object(level, page))
  /\ \/ OutOfFrames
     \/ /\ Allocate /\ use' = WithUse(Object(level, page), Nth(next))
        /\ level' = level - 1
        /\ UNCHANGED <<memory_map, boot, pc, page, frame, error>>

AlreadyMapped ==
  /\ pc = "map_to" /\ level = 0 /\ Exists(Object(0, page))
  /\ FailWith("PageAlreadyMapped") /\ UNCHANGED next

MapPage ==
  /\ pc = "map_to" /\ level = 0 /\ ~Exists(Object(0, page))
  /\ use' = WithUse(Object(0, page), frame)
  /\ frame' = NoFrame /\ page' = page + 1 /\ pc' = "loop"
  /\ UNCHANGED <<memory_map, next, boot, level, error>>

\* ALLOCATOR.init gives the heap its address and size.
InitHeap ==
  /\ pc = "loop" /\ page > LastPage
  /\ pc' = "ready"
  /\ UNCHANGED <<memory_map, next, boot, use, page, level, frame, error>>

Stop == pc \in {"ready", "panic"} /\ UNCHANGED vars

Boot == TakeFrame \/ UseTable \/ HugePage \/ CreateTable \/ AlreadyMapped \/ MapPage
          \/ InitHeap

Next == Boot \/ Stop

\* Nothing but interrupt handlers, which end, runs beside the boot code.
Spec == Init /\ [][Next]_vars /\ WF_vars(Boot)

-----------------------------------------------------------------------------
(* Properties.                                                             *)

(* Every variable has its type.                                            *)
TypeOK ==
  /\ memory_map \in MemoryMaps /\ boot \in Boots
  /\ next \in Nat
  /\ pc \in {"loop", "map_to", "ready", "panic"}
  /\ page \in FirstPage..LastPage + 1
  /\ level \in 0..3
  /\ DOMAIN use \subseteq {Object(l, p) : l \in 0..3, p \in FirstPage..LastPage}
  /\ error \in {"none", "FrameAllocationFailed", "ParentEntryHugePage",
                "PageAlreadyMapped"}

InHand == IF frame = NoFrame THEN {} ELSE {frame}

(* No frame serves two purposes: allocate_frame's counter is shared by the *)
(* pages of the heap and the tables that map_to makes in between.          *)
OneUsePerFrame ==
  /\ \A o, q \in DOMAIN use : use[o] = use[q] => o = q
  /\ \A o \in DOMAIN use : use[o] \notin InHand

(* Every frame in use lies in a region the bootloader calls usable.        *)
FramesUsable ==
  \A f \in Range(use) \cup InHand :
    \E i \in DOMAIN memory_map :
      memory_map[i].usable /\ memory_map[i].start =< f /\ f < memory_map[i].end

(* When the heap allocator gets the heap, each byte from HEAP_START to     *)
(* HEAP_START + HEAP_SIZE is on a page that init_heap has mapped itself.   *)
HeapBacked ==
  pc = "ready" =>
    \A addr \in HEAP_START..HEAP_START + HEAP_SIZE - 1 :
      Object(0, addr \div 4096) \in DOMAIN use

(* "heap initialization failed" for want of frames only when every usable  *)
(* frame is in use or in hand: the counter skips none.                     *)
FailsOnlyWhenOut ==
  error = "FrameAllocationFailed" =>
    \A i \in DOMAIN memory_map : memory_map[i].usable =>
      \A f \in memory_map[i].start..memory_map[i].end - 1 : f \in Range(use) \cup InHand


=============================================================================
