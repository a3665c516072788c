------------------------------ MODULE Tokenizer ------------------------------
(***************************************************************************)
(* Parser, the iterator that splits a command line into arguments, and the *)
(* loop of parse_and_execute that collects them.  One step is one          *)
(* character looked at by Parser::next; calls of next follow each other    *)
(* until one returns None.                                                 *)
(*                                                                         *)
(* Positions count from 0, as in the source.  A token is the slice of the  *)
(* input it points to, <<start, end>>, end excluded.  The editor's         *)
(* keyboard layout decodes to ASCII only, so Parser::new's assertion is    *)
(* left out.                                                               *)
(***************************************************************************)
EXTENDS Naturals, Sequences, FiniteSets

CONSTANT Inputs  \* command lines: sequences of characters

ASSUME InputsAssumption == \A s \in Inputs : s \in Seq(STRING)

Quote == "quote"
Blanks == {"space", "tab"}

VARIABLES
  input,
  position,        \* Parser::position
  start,           \* next's local: where the token begins
  parsing_string,  \* next's local: inside quotes
  at,              \* "call": next is to be called; "scan": in its loop; "done"
  tokens           \* args: what next has returned

vars == <<input, position, start, parsing_string, at, tokens>>

Init ==
  /\ input \in Inputs
  /\ position = 0 /\ start = 0 /\ parsing_string = FALSE
  /\ at = "call" /\ tokens = <<>>

-----------------------------------------------------------------------------

CharAt(i) == input[i + 1]
Here == CharAt(position)

\* next's loop looks at one more character.
Scanning == at = "scan" /\ position < Len(input)

\* next returns the slice from start to position.
Emit ==
  /\ tokens' = Append(tokens, <<start, position>>)
  /\ at' = "call"
  /\ UNCHANGED <<input, start, parsing_string>>

Munch ==
  /\ position' = position + 1
  /\ UNCHANGED <<input, start, parsing_string, at, tokens>>

NextCall ==
  /\ at = "call"
  /\ start' = position /\ parsing_string' = FALSE /\ at' = "scan"
  /\ UNCHANGED <<input, position, tokens>>

MutantQuoteAfterText ==
  /\ Scanning /\ ~parsing_string /\ Here = Quote
  /\ position > start
  /\ Emit /\ position' = position + 1

\* A quote ends the token before it, and is left for the next call.
QuoteAfterText ==
  /\ Scanning /\ ~parsing_string /\ Here = Quote
  /\ position > start
  /\ Emit /\ UNCHANGED position

MutantOpenQuote ==
  /\ Scanning /\ ~parsing_string /\ Here = Quote
  /\ ~(position > start)
  /\ start' = start + 2 /\ position' = position + 1 /\ parsing_string' = TRUE
  /\ UNCHANGED <<input, at, tokens>>

OpenQuote ==
  /\ Scanning /\ ~parsing_string /\ Here = Quote
  /\ ~(position > start)
  /\ start' = start + 1 /\ position' = position + 1 /\ parsing_string' = TRUE
  /\ UNCHANGED <<input, at, tokens>>

MutantCloseQuote ==
  /\ Scanning /\ parsing_string /\ Here = Quote
  /\ Emit /\ position' = position + 2

\* The closing quote: the string may be empty.
CloseQuote ==
  /\ Scanning /\ parsing_string /\ Here = Quote
  /\ Emit /\ position' = position + 1

BlankInString == Scanning /\ parsing_string /\ Here \in Blanks /\ Munch

BlankEndsToken ==
  /\ Scanning /\ ~parsing_string /\ Here \in Blanks
  /\ position # start
  /\ Emit /\ position' = position + 1

MutantSkipBlank ==
  /\ Scanning /\ ~parsing_string /\ Here \in Blanks
  /\ position = start
  /\ at' = "call"
  /\ UNCHANGED <<input, start, position, parsing_string, tokens>>

SkipBlank ==
  /\ Scanning /\ ~parsing_string /\ Here \in Blanks
  /\ position = start
  /\ position' = position + 1 /\ start' = position + 1
  /\ UNCHANGED <<input, parsing_string, at, tokens>>

OtherChar == Scanning /\ Here \notin Blanks \cup {Quote} /\ Munch

\* The end of the input ends a token, even one in an open string.
EndOfInput ==
  /\ at = "scan" /\ position >= Len(input) /\ position > start
  /\ Emit /\ UNCHANGED position

ReturnNone ==
  /\ at = "scan" /\ position >= Len(input) /\ ~(position > start)
  /\ at' = "done"
  /\ UNCHANGED <<input, position, start, parsing_string, tokens>>

Parse ==
  \/ NextCall
  \/ QuoteAfterText \/ OpenQuote \/ CloseQuote
  \/ BlankInString \/ BlankEndsToken \/ SkipBlank
  \/ OtherChar \/ EndOfInput \/ ReturnNone

Finished == at = "done" /\ UNCHANGED vars

Next == Parse \/ Finished

Spec == Init /\ [][Next]_vars /\ WF_vars(Parse)

-----------------------------------------------------------------------------
(* What a command line means, without an algorithm.                        *)

Positions == 0..Len(input)

\* The character before position i is one of cs, or i is the beginning.
After(i, cs) == i = 0 \/ CharAt(i - 1) \in cs
Before(i, cs) == i = Len(input) \/ CharAt(i) \in cs
NoneOf(a, b, cs) == \A i \in a..b : i < b => CharAt(i) \notin cs

\* Position i is inside a string: an odd number of quotes stand before it.
InString(i) ==
  Cardinality({j \in Positions : j < i /\ CharAt(j) = Quote}) % 2 = 1

IsWord(a, b) ==
  /\ a < b /\ ~InString(a)
  /\ NoneOf(a, b, Blanks \cup {Quote})
  /\ After(a, Blanks \cup {Quote}) /\ Before(b, Blanks \cup {Quote})

IsString(a, b) ==
  /\ a =< b /\ a > 0 /\ CharAt(a - 1) = Quote /\ InString(a)
  /\ NoneOf(a, b, {Quote}) /\ Before(b, {Quote})
  /\ a = b => b < Len(input)

Expected == {t \in Positions \X Positions : IsWord(t[1], t[2]) \/ IsString(t[1], t[2])}

-----------------------------------------------------------------------------
(* Properties.                                                             *)

(* Every variable has its type; next's slice of the input from position on *)
(* is never out of range.                                                  *)
TypeOK ==
  /\ input \in Inputs
  /\ position \in 0..Len(input) /\ start \in Nat
  /\ parsing_string \in BOOLEAN
  /\ at \in {"call", "scan", "done"}
  /\ tokens \in Seq(Nat \X Nat)

(* "We know this string slice is valid": the four from_raw_parts calls get *)
(* a start and a length (position - start, in usize) inside the input, and *)
(* so does everything next has returned.                                   *)
SlicesValid ==
  /\ at = "scan" => start =< position /\ position =< Len(input)
  /\ \A i \in DOMAIN tokens :
       tokens[i][1] =< tokens[i][2] /\ tokens[i][2] =< Len(input)

(* No character is part of two arguments, and the arguments come in the    *)
(* order of the line.                                                      *)
TokensInOrder ==
  \A i, j \in DOMAIN tokens : i < j => tokens[i][2] =< tokens[j][1]

(* The arguments are the words and the quoted strings of the line, all of  *)
(* them and nothing else: an empty string in quotes counts, an unclosed    *)
(* quote reaches to the end of the line, and a quote ends the word it      *)
(* touches.                                                                *)
TokensExact ==
  /\ \A i \in DOMAIN tokens : tokens[i] \in Expected
  /\ at = "done" => \A t \in Expected : \E i \in DOMAIN tokens : tokens[i] = t

(* The loop over the parser ends for every line.                           *)
Terminates == <>(at = "done")

=============================================================================
