-------------------------------- MODULE Path ---------------------------------
(***************************************************************************)
(* fs::path.  A string is a sequence of tokens, "/" or a run of other      *)
(* characters, and no two runs stand next to each other; a segment is such *)
(* a run, or "" where nothing stands between two slashes.                  *)
(***************************************************************************)
EXTENDS Naturals, Sequences, SequencesExt

CONSTANT MAX_PATH_LENGTH     \* counted in tokens; 4096 characters in the code

MutantSplitToken(done, t) ==
  IF t # "/" THEN [done EXCEPT ![Len(done)] = t]
  ELSE IF Last(done) = "" THEN done ELSE Append(done, "")

\* str::split on "/": a slash ends the segment before it.
SplitToken(done, t) ==
  IF t = "/" THEN Append(done, "") ELSE [done EXCEPT ![Len(done)] = t]
split(s) == FoldLeft(SplitToken, <<"">>, s)

MutantSegments(s) ==
  IF s[1] = "/" THEN <<"/">> \o split(Tail(s)) ELSE split(s)

\* The segments of a string that is neither empty nor too long: the leading
\* slash is a segment of its own, and nothing after it gives no segment.
segments(s) ==
  LET first == IF s[1] = "/" THEN <<"/">> ELSE <<>>
      rest == SubSeq(s, Len(first) + 1, Len(s))
  IN first \o IF rest = <<>> THEN <<>> ELSE split(rest)

PathError(s) == s = <<>> \/ Len(s) > MAX_PATH_LENGTH

is_absolute(segs) == segs[1] = "/"

\* What resolve_path makes of the string: an error, a relative path, or the
\* segments after the root.
from_str(s) ==
  IF PathError(s) THEN [kind |-> "empty", segs |-> <<>>]
  ELSE IF is_absolute(segments(s))
       THEN [kind |-> "absolute", segs |-> Tail(segments(s))]
  ELSE [kind |-> "relative", segs |-> segments(s)]

=============================================================================
