------------------------------- MODULE MCPath --------------------------------
(***************************************************************************)
(* Path parsing over every string of up to MaxTokens tokens: the state is  *)
(* the string, which grows by one token at a time.                         *)
(***************************************************************************)
EXTENDS Path

CONSTANTS Names, MaxTokens

VARIABLE s

Init == s = <<>>

Next ==
  /\ Len(s) < MaxTokens
  /\ \E t \in Names \cup {"/"} :
       /\ (t # "/" /\ s # <<>>) => Last(s) = "/"
       /\ s' = Append(s, t)

Spec == Init /\ [][Next]_s

Run(name) == IF name = "" THEN <<>> ELSE <<name>>

\* The segments with a slash between each two.
Join(segs) == FoldLeft(LAMBDA text, x : text \o <<"/">> \o Run(x), Run(segs[1]), Tail(segs))

(* Path::from_str loses nothing: the segments, the leading slash one of    *)
(* them, spell the string, and different strings never give one path.      *)
SegmentsSpellString ==
  ~PathError(s) =>
    LET segs == segments(s)
    IN IF is_absolute(segs)
       THEN s = <<"/">> \o IF Len(segs) = 1 THEN <<>> ELSE Join(Tail(segs))
       ELSE s = Join(segs)

(* What resolve_path builds on: a path has a first segment (is_absolute    *)
(* unwraps it); it is "/" exactly when the string starts with a slash; no  *)
(* later segment is "/"; and a name is empty only below another segment,   *)
(* so that the root directory never gets a nameless entry.                 *)
SegmentsWellFormed ==
  ~PathError(s) =>
    LET segs == segments(s)
    IN /\ segs # <<>>
       /\ is_absolute(segs) <=> s[1] = "/"
       /\ \A i \in 2..Len(segs) : segs[i] # "/"
       /\ from_str(s).segs # <<"">>

=============================================================================
