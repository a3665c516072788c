------------------------------- MODULE MCMemory ------------------------------
(***************************************************************************)
(* An instance of Memory for model checking, and the reference that the    *)
(* order of the frames is checked against.                                 *)
(***************************************************************************)
EXTENDS Memory, SequencesExt

R(s, e, u) == [start |-> s, end |-> e, usable |-> u]

\* Enough memory or too little, in one region or in several, with regions that
\* are not usable or empty among them and in any order.
SomeMaps ==
  { <<R(0, n, TRUE)>> : n \in 0..10 } \cup
  { <<R(0, 2, FALSE), R(2, 2 + a, TRUE), R(9, 9 + b, FALSE), R(20, 20 + c, TRUE)>> :
      a \in 0..4, b \in 0..1, c \in 0..5 } \cup
  { <<R(8, 12, TRUE), R(4, 4, TRUE), R(0, 3, TRUE)>> }

\* Tables with two entries: a heap of a few pages needs several.
SmallSpan == <<2, 4, 8>>

Parents(p) == {Object(l, p) : l \in 1..3}

\* Nothing on the way to the heap, its top tables, all tables of its first
\* page, a huge page, and a page of the heap itself.
SomeBoots ==
  { [tables |-> {}, huge |-> {}, pages |-> {}],
    [tables |-> {Object(3, 5)}, huge |-> {}, pages |-> {}],
    [tables |-> Parents(5), huge |-> {}, pages |-> {}],
    [tables |-> Parents(5), huge |-> {Object(2, 5)}, pages |-> {}],
    [tables |-> Parents(6), huge |-> {}, pages |-> {Object(0, 6)}] }

\* usable_frames, item by item.
RegionFrames(r) == [k \in 1..r.end - r.start |-> r.start + k - 1]
UsableFrames ==
  FlattenSeq([i \in DOMAIN memory_map |->
                IF memory_map[i].usable THEN RegionFrames(memory_map[i]) ELSE <<>>])


=============================================================================
