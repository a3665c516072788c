--------------------------- MODULE Tokenizer_proofs ---------------------------
(***************************************************************************)
(* Proofs about Tokenizer, for every set of command lines.                 *)
(***************************************************************************)
EXTENDS Tokenizer, FiniteSetTheorems, TLAPS

\* While next scans, what was returned before lies to the left of its token.
IInv ==
  /\ TypeOK
  /\ SlicesValid
  /\ TokensInOrder
  /\ \A i \in DOMAIN tokens : /\ tokens[i][2] =< position
                              /\ at = "scan" => tokens[i][2] =< start

(* A command line has a length.                                            *)
LEMMA LineLength == TypeOK => input \in Seq(STRING) /\ Len(input) \in Nat
  BY InputsAssumption DEF TypeOK

(* Parser::new, before the first call of next.                             *)
LEMMA InitIInv == Init => IInv
  <1> SUFFICES ASSUME Init PROVE IInv
    OBVIOUS
  <1>1. parsing_string \in BOOLEAN
    BY Zenon DEF Init
  <1>2. TypeOK
    BY <1>1 DEF Init, TypeOK
  <1>3. SlicesValid /\ TokensInOrder
    BY <1>2, LineLength DEF Init, SlicesValid, TokensInOrder
  <1> QED
    BY <1>2, <1>3 DEF Init, IInv

(* Returning a slice keeps the invariant if the new position is not before *)
(* the slice's end and not past the input's.                               *)
LEMMA EmitIInv ==
  ASSUME IInv, Emit, at = "scan", position' \in Nat,
         position =< position', position' =< Len(input)
  PROVE IInv'
  <1> DEFINE n == Len(tokens)
             t == <<start, position>>
  <1>1. /\ tokens \in Seq(Nat \X Nat) /\ n \in Nat
        /\ start \in Nat /\ position \in Nat /\ start =< position
        /\ t \in Nat \X Nat
    BY DEF IInv, TypeOK, SlicesValid
  <1>2. /\ tokens' = Append(tokens, t) /\ at' = "call" /\ input' = input
        /\ start' = start /\ parsing_string' = parsing_string
    BY DEF Emit
  <1>3. /\ tokens' \in Seq(Nat \X Nat)
        /\ DOMAIN tokens' = 1..n + 1 /\ DOMAIN tokens = 1..n
        /\ tokens'[n + 1] = t
        /\ \A i \in 1..n : tokens'[i] = tokens[i]
    BY <1>1, <1>2
  <1>4. TypeOK'
    BY <1>2, <1>3 DEF IInv, TypeOK
  <1>5. \A i \in 1..n : /\ tokens[i][1] \in Nat /\ tokens[i][2] \in Nat
                        /\ tokens[i][1] =< tokens[i][2]
                        /\ tokens[i][2] =< start
    <2>1. \A i \in 1..n : tokens[i] \in Nat \X Nat
      BY <1>1
    <2>2. \A i \in 1..n : tokens[i][1] =< tokens[i][2] /\ tokens[i][2] =< start
      BY Zenon, <1>3 DEF IInv, SlicesValid
    <2> QED
      BY <2>1, <2>2
  <1>6. t[1] = start /\ t[2] = position
    OBVIOUS
  <1> HIDE DEF n, t
  <1>7. SlicesValid' /\ \A i \in DOMAIN tokens' : tokens'[i][2] =< position'
    <2>1. ASSUME NEW i \in 1..n + 1
          PROVE /\ tokens'[i][2] \in Nat /\ tokens'[i][1] =< tokens'[i][2]
                /\ tokens'[i][2] =< position'
      <3>1. CASE i = n + 1
        BY <3>1, <1>1, <1>3, <1>6
      <3>2. CASE i # n + 1
        <4>1. i \in 1..n
          BY <3>2, <1>1
        <4>2. tokens'[i] = tokens[i]
          BY <4>1, <1>3
        <4> QED
          BY <4>1, <4>2, <1>1, <1>5
      <3> QED
        BY <3>1, <3>2
    <2>2. Len(input) \in Nat
      BY LineLength DEF IInv
    <2>3. \A i \in 1..n + 1 : tokens'[i][1] =< tokens'[i][2] /\ tokens'[i][2] =< Len(input)
      BY <2>1, <2>2
    <2> QED
      BY Zenon, <2>1, <2>3, <1>2, <1>3 DEF SlicesValid
  <1>8. TokensInOrder'
    <2>1. ASSUME NEW i \in 1..n + 1, NEW j \in 1..n + 1, i < j
          PROVE tokens'[i][2] =< tokens'[j][1]
      <3>1. i \in 1..n /\ tokens'[i] = tokens[i]
        BY <2>1, <1>1, <1>3
      <3>2. CASE j = n + 1
        BY <3>1, <3>2, <1>3, <1>5, <1>6
      <3>3. CASE j # n + 1
        <4>1. j \in 1..n /\ tokens'[j] = tokens[j]
          BY <3>3, <1>1, <1>3
        <4> QED
          BY Zenon, <2>1, <3>1, <4>1, <1>3 DEF IInv, TokensInOrder
      <3> QED
        BY <3>2, <3>3
    <2> QED
      BY <2>1, <1>3 DEF TokensInOrder
  <1> QED
    BY <1>2, <1>4, <1>7, <1>8 DEF IInv

(* Every step of the iterator keeps the invariant.                         *)
LEMMA ParseIInv == IInv /\ Parse => IInv'
  <1> SUFFICES ASSUME IInv, Parse PROVE IInv'
    OBVIOUS
  <1>0. /\ Len(input) \in Nat /\ position \in Nat /\ start \in Nat
        /\ position =< Len(input)
        /\ at = "scan" => start =< position
    BY LineLength DEF IInv, TypeOK, SlicesValid
  <1> DEFINE Bounds == \A i \in DOMAIN tokens : /\ tokens[i][1] \in Nat
                                                /\ tokens[i][2] \in Nat
  <1>t. Bounds
    BY DEF IInv, TypeOK
  \* Steps that return nothing move position and start to the right.
  <1>a. ASSUME UNCHANGED <<input, tokens>>, parsing_string' \in BOOLEAN,
               at' \in {"call", "scan", "done"}, position' \in Nat, start' \in Nat,
               position =< position', position' =< Len(input),
               at' = "scan" => start' =< position' /\
                               (start' = position \/ (at = "scan" /\ start =< start'))
        PROVE IInv'
    <2>1. TypeOK'
      BY <1>a DEF IInv, TypeOK
    <2>2. SlicesValid'
      BY <1>a, <1>0, <1>t DEF IInv, SlicesValid
    <2>3. TokensInOrder'
      BY <1>a DEF IInv, TokensInOrder
    <2>4. \A i \in DOMAIN tokens' : /\ tokens'[i][2] =< position'
                                    /\ at' = "scan" => tokens'[i][2] =< start'
      BY <1>a, <1>0, <1>t DEF IInv
    <2> QED
      BY <2>1, <2>2, <2>3, <2>4 DEF IInv
  <1>b. parsing_string \in BOOLEAN /\ at \in {"call", "scan", "done"}
    BY DEF IInv, TypeOK
  <1>1. CASE NextCall
    <2>1. parsing_string' \in BOOLEAN
      BY <1>1, Zenon DEF NextCall
    <2> QED
      BY <1>1, <2>1, <1>0, <1>a DEF NextCall
  <1>2. CASE QuoteAfterText
    BY <1>2, <1>0, EmitIInv DEF QuoteAfterText, Scanning
  <1>3. CASE OpenQuote
    <2>1. parsing_string' \in BOOLEAN
      BY <1>3, Zenon DEF OpenQuote
    <2>2. /\ position < Len(input) /\ at = "scan" /\ at' = at
          /\ start' = start + 1 /\ position' = position + 1
          /\ ~(position > start) /\ UNCHANGED <<input, tokens>>
      BY <1>3 DEF OpenQuote, Scanning
    <2> QED
      BY <2>1, <2>2, <1>0, <1>a
  <1>4. CASE CloseQuote
    BY <1>4, <1>0, EmitIInv DEF CloseQuote, Scanning
  <1>5. CASE BlankInString
    BY <1>5, <1>0, <1>a, <1>b DEF BlankInString, Munch, Scanning
  <1>6. CASE BlankEndsToken
    BY <1>6, <1>0, EmitIInv DEF BlankEndsToken, Scanning
  <1>7. CASE SkipBlank
    <2>1. /\ position < Len(input) /\ at = "scan" /\ position = start
          /\ position' = position + 1 /\ start' = position + 1
          /\ UNCHANGED <<input, parsing_string, at, tokens>>
      BY <1>7 DEF SkipBlank, Scanning
    <2> QED
      BY <2>1, <1>0, <1>a, <1>b
  <1>8. CASE OtherChar
    BY <1>8, <1>0, <1>a, <1>b DEF OtherChar, Munch, Scanning
  <1>9. CASE EndOfInput
    BY <1>9, <1>0, EmitIInv DEF EndOfInput
  <1>10. CASE ReturnNone
    BY <1>10, <1>0, <1>a, <1>b DEF ReturnNone
  <1> QED
    BY <1>1, <1>2, <1>3, <1>4, <1>5, <1>6, <1>7, <1>8, <1>9, <1>10 DEF Parse

(* The invariant holds throughout the loop over the parser.                *)
LEMMA Invariance == Spec => []IInv
  <1>1. IInv /\ [Next]_vars => IInv'
    <2> SUFFICES ASSUME IInv, [Next]_vars PROVE IInv'
      OBVIOUS
    <2>1. CASE Parse
      BY <2>1, ParseIInv
    <2>2. CASE Finished \/ UNCHANGED vars
      BY <2>2 DEF Finished, vars, IInv, TypeOK, SlicesValid, TokensInOrder
    <2> QED
      BY <2>1, <2>2 DEF Next
  <1> QED
    BY InitIInv, <1>1, PTL DEF Spec

(* The position stays inside the line, so that next's slice of the rest of *)
(* the input cannot panic.                                                 *)
THEOREM TypeCorrect == Spec => []TypeOK
  <1>1. IInv => TypeOK
    BY DEF IInv
  <1> QED
    BY <1>1, Invariance, PTL

(* The SAFETY comments of Parser::next are right for every command line:   *)
(* no slice starts after it ends or reaches past the line.                 *)
THEOREM SlicesAreValid == Spec => []SlicesValid
  <1>1. IInv => SlicesValid
    BY DEF IInv
  <1> QED
    BY <1>1, Invariance, PTL

(* The arguments of every command line are disjoint and in order.          *)
THEOREM TokensAreOrdered == Spec => []TokensInOrder
  <1>1. IInv => TokensInOrder
    BY DEF IInv
  <1> QED
    BY <1>1, Invariance, PTL

-----------------------------------------------------------------------------
(* The arguments are the right ones.                                       *)

Ends == Blanks \cup {Quote}

\* A word may begin here, or a quote stands here, or the line ends.
MayBegin(i) == After(i, Ends) \/ i = Len(input) \/ CharAt(i) = Quote

\* What next has returned are arguments, and all that begin before f.
AllArguments(ts) == \A i \in DOMAIN ts : ts[i] \in Expected
AllBefore(ts, f) == \A t \in Expected : t[1] < f => \E i \in DOMAIN ts : ts[i] = t

\* next, at p in a token from s: outside of strings, and in a string.
InWord(p, s) ==
  /\ p < Len(input) => ~InString(p)
  /\ MayBegin(s)
  /\ s < p => ~InString(s) /\ NoneOf(s, p, Ends)
InQuotes(p, s) ==
  /\ p < Len(input) => InString(p)
  /\ s > 0 /\ CharAt(s - 1) = Quote /\ InString(s)
  /\ NoneOf(s, p, {Quote})

(* Behind TokensExact: next knows whether it is in a string, its token is  *)
(* the beginning of a word or of a string, and every argument that begins  *)
(* further to the left has been returned.                                  *)
EAt(p, s, ps, a, ts) ==
  /\ AllArguments(ts)
  /\ a # "scan" => InWord(p, p) /\ AllBefore(ts, p)
  /\ a = "scan" => AllBefore(ts, s)
  /\ a = "scan" /\ ~ps => InWord(p, s)
  /\ a = "scan" /\ ps => InQuotes(p, s)
  /\ a = "done" => p = Len(input)

EInv == EAt(position, start, parsing_string, at, tokens)

(* A quote is the border between inside and outside.                       *)
LEMMA StringParity ==
  ASSUME input \in Seq(STRING), NEW i \in Nat, i < Len(input)
  PROVE  InString(i + 1) <=> (InString(i) <=> CharAt(i) # Quote)
  <1> DEFINE Q(k) == {j \in Positions : j < k /\ CharAt(j) = Quote}
  <1>1. Len(input) \in Nat
    OBVIOUS
  <1>2. IsFiniteSet(Positions)
    BY <1>1, FS_Interval DEF Positions
  <1>3. IsFiniteSet(Q(i))
    BY <1>2, FS_Subset
  <1>4. Cardinality(Q(i)) \in Nat
    BY <1>3, FS_CardinalityType
  <1>5. CASE CharAt(i) = Quote
    <2>1. Q(i + 1) = Q(i) \cup {i} /\ i \notin Q(i)
      BY <1>1, <1>5 DEF Positions
    <2>2. InString(i + 1) <=> Cardinality(Q(i) \cup {i}) % 2 = 1
      BY Zenon, <2>1 DEF InString
    <2>3. InString(i) <=> Cardinality(Q(i)) % 2 = 1
      BY Zenon DEF InString
    <2> HIDE DEF Q
    <2>4. Cardinality(Q(i) \cup {i}) = Cardinality(Q(i)) + 1
      BY Zenon, <2>1, <1>3, FS_AddElement
    <2> QED
      BY <2>2, <2>3, <2>4, <1>4, <1>5
  <1>6. CASE CharAt(i) # Quote
    <2>1. Q(i + 1) = Q(i)
      BY <1>1, <1>6 DEF Positions
    <2> QED
      BY Zenon, <1>6, <2>1 DEF InString
  <1> QED
    BY <1>5, <1>6

LEMMA StringSame ==
  ASSUME input \in Seq(STRING), NEW a \in Nat, NEW b \in Nat, a =< b, b =< Len(input),
         NoneOf(a, b, {Quote})
  PROVE  InString(b) <=> InString(a)
  <1>1. Len(input) \in Nat
    OBVIOUS
  <1>2. ASSUME NEW j \in Positions, j < b, CharAt(j) = Quote
        PROVE  j < a
    <2>1. j \in a..b => CharAt(j) # Quote
      BY Zenon, <1>2 DEF NoneOf
    <2> QED
      BY <1>1, <1>2, <2>1 DEF Positions
  <1>3. \A j \in Positions : j < a => j < b
    BY <1>1 DEF Positions
  <1>4. {j \in Positions : j < b /\ CharAt(j) = Quote}
          = {j \in Positions : j < a /\ CharAt(j) = Quote}
    BY Zenon, <1>2, <1>3
  <1> QED
    BY Zenon, <1>4 DEF InString

LEMMA InStringBoolean == ASSUME NEW i PROVE InString(i) \in BOOLEAN
  BY Zenon DEF InString

(* The text from a to b is a word, and no other argument begins in it.     *)
LEMMA WordOnly ==
  ASSUME input \in Seq(STRING), NEW a \in Nat, NEW b \in Nat, a < b, b =< Len(input),
         ~InString(a), NoneOf(a, b, Ends), After(a, Ends), Before(b, Ends)
  PROVE  /\ <<a, b>> \in Expected
         /\ \A t \in Expected : a =< t[1] /\ t[1] < b => t = <<a, b>>
         /\ b < Len(input) /\ CharAt(b) \in Blanks => \A t \in Expected : t[1] # b
  <1>1. Len(input) \in Nat /\ a \in Positions /\ b \in Positions
    BY DEF Positions
  <1>2. <<a, b>> \in Expected
    BY <1>1 DEF Expected, IsWord, Ends
  <1>3. ASSUME NEW i \in a..b, i < b PROVE CharAt(i) \notin Blanks /\ CharAt(i) # Quote
    BY Zenon, <1>3 DEF NoneOf, Ends
  <1>4. ASSUME NEW t \in Expected, a =< t[1], t[1] =< b
        PROVE  /\ t[1] < b => t = <<a, b>>
               /\ b < Len(input) /\ CharAt(b) \in Blanks => t[1] # b
    <2>1. /\ t[1] \in Nat /\ t[2] \in Nat /\ t[2] =< Len(input) /\ t = <<t[1], t[2]>>
          /\ IsWord(t[1], t[2]) \/ IsString(t[1], t[2])
      BY <1>1 DEF Expected, Positions
    <2>2. CASE IsWord(t[1], t[2])
      <3>1. /\ t[1] < t[2] /\ \A i \in t[1]..t[2] : i < t[2] => CharAt(i) \notin Ends
            /\ t[1] = 0 \/ CharAt(t[1] - 1) \in Ends
            /\ t[2] = Len(input) \/ CharAt(t[2]) \in Ends
        BY Zenon, <2>2 DEF IsWord, NoneOf, After, Before, Ends
      <3>2. t[1] < b => t[1] = a
        <4> SUFFICES ASSUME t[1] < b, t[1] # a PROVE FALSE
          OBVIOUS
        <4>1. t[1] # 0 /\ t[1] - 1 \in a..b /\ t[1] - 1 < b
          BY <2>1, <1>4
        <4> QED
          BY <4>1, <3>1, <1>3 DEF Ends
      <3>3. t[1] = a => t[2] = b
        <4> SUFFICES ASSUME t[1] = a, t[2] # b PROVE FALSE
          OBVIOUS
        <4>1. CASE t[2] < b
          <5>1. t[2] \in a..b /\ t[2] # Len(input)
            BY <4>1, <3>1, <2>1, <1>1
          <5> QED
            BY <5>1, <4>1, <3>1, <1>3 DEF Ends
        <4>2. CASE b < t[2]
          <5>1. b \in t[1]..t[2] /\ b # Len(input)
            BY <4>2, <2>1, <1>1
          <5> QED
            BY <5>1, <4>2, <3>1 DEF Before, Ends
        <4> QED
          BY <4>1, <4>2, <2>1
      <3>4. CharAt(b) \in Blanks => t[1] # b
        <4>1. t[1] \in t[1]..t[2]
          BY <2>1, <3>1
        <4> QED
          BY <4>1, <3>1 DEF Ends
      <3> QED
        BY <2>1, <3>2, <3>3, <3>4
    <2>3. CASE IsString(t[1], t[2])
      <3>1. t[1] > 0 /\ CharAt(t[1] - 1) = Quote /\ InString(t[1])
        BY Zenon, <2>3 DEF IsString
      <3>2. t[1] # a
        BY <3>1
      <3>3. t[1] - 1 \in a..b /\ t[1] - 1 < b
        BY <2>1, <3>2, <1>4
      <3> QED
        BY <3>1, <3>3, <1>3
    <2> QED
      BY <2>1, <2>2, <2>3
  <1>5. \A t \in Expected : t[1] \in Nat
    BY <1>1 DEF Expected, Positions
  <1>6. \A t \in Expected : a =< t[1] /\ t[1] < b => t = <<a, b>>
    BY <1>4, <1>5
  <1>7. b < Len(input) /\ CharAt(b) \in Blanks => \A t \in Expected : t[1] # b
    BY <1>4, <1>5
  <1> QED
    BY <1>2, <1>6, <1>7

(* The text from a to b is a string, and no other argument begins in it,   *)
(* nor at the quote that closes it.                                        *)
LEMMA StringOnly ==
  ASSUME input \in Seq(STRING), NEW a \in Nat, NEW b \in Nat, a =< b, b =< Len(input),
         a > 0, CharAt(a - 1) = Quote, InString(a), NoneOf(a, b, {Quote}),
         Before(b, {Quote}), a = b => b < Len(input)
  PROVE  /\ <<a, b>> \in Expected
         /\ \A t \in Expected :
              a =< t[1] /\ t[1] =< b /\ (t[1] = b => b < Len(input)) => t = <<a, b>>
  <1>1. Len(input) \in Nat /\ a \in Positions /\ b \in Positions
    BY DEF Positions
  <1>2. <<a, b>> \in Expected
    BY <1>1 DEF Expected, IsString
  <1>3. ASSUME NEW i \in a..b, i < b PROVE CharAt(i) # Quote
    BY Zenon, <1>3 DEF NoneOf
  <1>4. ASSUME NEW t \in Expected, a =< t[1], t[1] =< b, t[1] = b => b < Len(input)
        PROVE  t = <<a, b>>
    <2>1. /\ t[1] \in Nat /\ t[2] \in Nat /\ t[2] =< Len(input) /\ t = <<t[1], t[2]>>
          /\ IsWord(t[1], t[2]) \/ IsString(t[1], t[2])
      BY <1>1 DEF Expected, Positions
    <2>2. ~IsWord(t[1], t[2])
      <3>1. NoneOf(a, t[1], {Quote})
        <4>1. \A i \in a..t[1] : i < t[1] => i \in a..b /\ i < b
          BY <2>1, <1>4
        <4> QED
          BY <4>1, <1>3 DEF NoneOf
      <3>2. t[1] \in Nat /\ a =< t[1] /\ t[1] =< Len(input)
        BY <2>1, <1>1, <1>4
      <3>3. InString(t[1]) <=> InString(a)
        BY Zenon, <3>1, <3>2, StringSame
      <3> QED
        BY Zenon, <3>3 DEF IsWord
    <2>3. /\ t[1] =< t[2] /\ t[1] > 0 /\ CharAt(t[1] - 1) = Quote
          /\ \A i \in t[1]..t[2] : i < t[2] => CharAt(i) # Quote
          /\ t[2] = Len(input) \/ CharAt(t[2]) = Quote
      <3>1. IsString(t[1], t[2])
        BY Zenon, <2>1, <2>2
      <3> QED
        BY Zenon, <3>1 DEF IsString, NoneOf, Before
    <2>4. t[1] = a
      <3> SUFFICES ASSUME t[1] # a PROVE FALSE
        OBVIOUS
      <3>1. t[1] - 1 \in a..b /\ t[1] - 1 < b
        BY <2>1, <1>4
      <3> QED
        BY <3>1, <2>3, <1>3
    <2>5. t[2] = b
      <3> SUFFICES ASSUME t[2] # b PROVE FALSE
        OBVIOUS
      <3>1. CASE t[2] < b
        <4>1. t[2] \in a..b /\ t[2] # Len(input)
          BY <3>1, <2>1, <2>3, <2>4, <1>1
        <4> QED
          BY <4>1, <3>1, <2>3, <1>3
      <3>2. CASE b < t[2]
        <4>1. b \in t[1]..t[2] /\ b # Len(input)
          BY <3>2, <2>1, <2>4, <1>1
        <4> QED
          BY <4>1, <3>2, <2>3 DEF Before
      <3> QED
        BY <3>1, <3>2, <2>1
    <2> QED
      BY <2>1, <2>4, <2>5
  <1> QED
    BY Zenon, <1>2, <1>4

(* No argument begins at a quote or a blank outside of a string, or at the *)
(* end of the line.                                                        *)
LEMMA NothingBegins ==
  ASSUME input \in Seq(STRING), NEW i \in Nat,
         i = Len(input) \/ (~InString(i) /\ i < Len(input) /\ CharAt(i) \in Ends)
  PROVE  \A t \in Expected : t[1] # i
  <1> SUFFICES ASSUME NEW t \in Expected, t[1] = i PROVE FALSE
    OBVIOUS
  <1>1. /\ Len(input) \in Nat
        /\ t[1] \in Nat /\ t[2] \in Nat /\ t[2] =< Len(input)
        /\ IsWord(t[1], t[2]) \/ IsString(t[1], t[2])
    BY DEF Expected, Positions
  <1>2. CASE IsWord(t[1], t[2])
    <2>1. t[1] < t[2] /\ \A j \in t[1]..t[2] : j < t[2] => CharAt(j) \notin Ends
      BY Zenon, <1>2 DEF IsWord, NoneOf, Ends
    <2> QED
      BY <2>1, <1>1
  <1>3. CASE IsString(t[1], t[2])
    <2>1. t[1] =< t[2] /\ InString(t[1]) /\ (t[1] = t[2] => t[2] < Len(input))
      BY Zenon, <1>3 DEF IsString
    <2>2. i = Len(input)
      BY Zenon, <2>1
    <2> QED
      BY <2>1, <2>2, <1>1
  <1> QED
    BY <1>1, <1>2, <1>3

(* Stepping over a character that is none of cs.                           *)
LEMMA NoneMore ==
  ASSUME NEW s \in Nat, NEW p \in Nat, NEW cs, s =< p, NoneOf(s, p, cs), CharAt(p) \notin cs
  PROVE  NoneOf(s, p + 1, cs)
  <1>1. ASSUME NEW i \in s..p + 1, i < p + 1 PROVE CharAt(i) \notin cs
    <2>1. CASE i = p
      BY <2>1
    <2>2. CASE i # p
      <3>1. i \in s..p /\ i < p
        BY <1>1, <2>2
      <3> QED
        BY Zenon, <3>1 DEF NoneOf
    <2> QED
      BY <2>1, <2>2
  <1> QED
    BY Zenon, <1>1 DEF NoneOf

LEMMA NoneYet ==
  ASSUME NEW s \in Nat, NEW cs PROVE NoneOf(s, s, cs)
  BY DEF NoneOf

(* Returning the one argument that begins from f on and before g.          *)
LEMMA Returned ==
  ASSUME NEW ts \in Seq(Nat \X Nat), NEW e \in Expected, NEW f \in Nat, NEW g \in Nat,
         input \in Seq(STRING),
         AllArguments(ts), AllBefore(ts, f),
         \A t \in Expected : f =< t[1] /\ t[1] < g => t = e,
         e \in Nat \X Nat
  PROVE  AllArguments(Append(ts, e)) /\ AllBefore(Append(ts, e), g)
  <1> DEFINE us == Append(ts, e)
             n == Len(ts)
  <1>1. /\ n \in Nat /\ DOMAIN ts = 1..n /\ DOMAIN us = 1..n + 1
        /\ us[n + 1] = e /\ \A i \in 1..n : us[i] = ts[i]
    OBVIOUS
  <1> HIDE DEF us, n
  <1>2. /\ n + 1 \in 1..n + 1 /\ \A i \in 1..n : i \in 1..n + 1
        /\ \A i \in 1..n + 1 : i = n + 1 \/ i \in 1..n
    BY <1>1
  <1>3. AllArguments(us)
    BY Zenon, <1>1, <1>2 DEF AllArguments
  <1>4. ASSUME NEW t \in Expected, t[1] < g
        PROVE  \E i \in DOMAIN us : us[i] = t
    <2>1. t[1] \in Nat
      BY DEF Expected, Positions
    <2>2. t[1] < f \/ f =< t[1]
      BY <2>1
    <2>3. CASE t[1] < f
      <3>1. PICK i \in DOMAIN ts : ts[i] = t
        BY Zenon, <2>3 DEF AllBefore
      <3> QED
        BY Zenon, <3>1, <1>1, <1>2
    <2>4. CASE f =< t[1]
      BY Zenon, <2>4, <1>4, <1>1, <1>2
    <2> QED
      BY <2>2, <2>3, <2>4
  <1>5. AllBefore(us, g)
    BY Zenon, <1>4 DEF AllBefore
  <1> QED
    BY <1>3, <1>5 DEF us

(* A word ends before p: it is returned.                                   *)
LEMMA ReturnWord ==
  ASSUME NEW ts \in Seq(Nat \X Nat), NEW p \in Nat, NEW s \in Nat, input \in Seq(STRING),
         s < p, p =< Len(input), InWord(p, s), AllArguments(ts), AllBefore(ts, s),
         Before(p, Ends)
  PROVE  /\ AllArguments(Append(ts, <<s, p>>)) /\ AllBefore(Append(ts, <<s, p>>), p)
         /\ p < Len(input) /\ CharAt(p) \in Blanks
              => AllBefore(Append(ts, <<s, p>>), p + 1)
  <1>1. Len(input) \in Nat
    OBVIOUS
  <1>2. ~InString(s) /\ NoneOf(s, p, Ends) /\ MayBegin(s)
    BY Zenon DEF InWord
  <1>3. After(s, Ends)
    <2>1. s \in s..p /\ s # Len(input)
      BY <1>1
    <2>2. CharAt(s) # Quote
      BY Zenon, <2>1, <1>2 DEF NoneOf, Ends
    <2> QED
      BY Zenon, <2>1, <2>2, <1>2 DEF MayBegin
  <1> DEFINE e == <<s, p>>
  <1>4. e \in Nat \X Nat
    OBVIOUS
  <1>5. /\ e \in Expected
        /\ \A t \in Expected : s =< t[1] /\ t[1] < p => t = e
        /\ p < Len(input) /\ CharAt(p) \in Blanks => \A t \in Expected : t[1] # p
    BY Zenon, <1>2, <1>3, WordOnly
  <1> HIDE DEF e
  <1>6. AllArguments(Append(ts, e)) /\ AllBefore(Append(ts, e), p)
    BY Zenon, <1>4, <1>5, Returned
  <1>7. ASSUME p < Len(input), CharAt(p) \in Blanks
        PROVE  AllBefore(Append(ts, e), p + 1)
    <2>1. \A t \in Expected : t[1] \in Nat
      BY DEF Expected, Positions
    <2>2. \A t \in Expected : t[1] # p
      BY Zenon, <1>5, <1>7
    <2>3. \A t \in Expected : t[1] < p + 1 => t[1] < p
      BY <2>1, <2>2
    <2> QED
      BY Zenon, <2>3, <1>6 DEF AllBefore
  <1> QED
    BY Zenon, <1>6, <1>7 DEF e

(* A string ends before p, at a quote or at the end of the line: it is     *)
(* returned.                                                               *)
LEMMA ReturnString ==
  ASSUME NEW ts \in Seq(Nat \X Nat), NEW p \in Nat, NEW s \in Nat, input \in Seq(STRING),
         s =< p, p =< Len(input), InQuotes(p, s), AllArguments(ts), AllBefore(ts, s),
         Before(p, {Quote}), s < p \/ p < Len(input)
  PROVE  /\ AllArguments(Append(ts, <<s, p>>)) /\ AllBefore(Append(ts, <<s, p>>), p)
         /\ p < Len(input) => AllBefore(Append(ts, <<s, p>>), p + 1)
  <1>1. Len(input) \in Nat
    OBVIOUS
  <1>2. s > 0 /\ CharAt(s - 1) = Quote /\ InString(s) /\ NoneOf(s, p, {Quote})
    BY Zenon DEF InQuotes
  <1>3. s = p => p < Len(input)
    OBVIOUS
  <1> DEFINE e == <<s, p>>
  <1>4. e \in Nat \X Nat
    OBVIOUS
  <1>5. /\ e \in Expected
        /\ \A t \in Expected :
             s =< t[1] /\ t[1] =< p /\ (t[1] = p => p < Len(input)) => t = e
    BY Zenon, <1>2, <1>3, StringOnly
  <1> HIDE DEF e
  <1>6. \A t \in Expected : t[1] \in Nat
    BY DEF Expected, Positions
  <1>7. \A t \in Expected : s =< t[1] /\ t[1] < p => t = e
    BY <1>5, <1>6
  <1>8. AllArguments(Append(ts, e)) /\ AllBefore(Append(ts, e), p)
    BY Zenon, <1>4, <1>5, <1>7, Returned
  <1>9. ASSUME p < Len(input)
        PROVE  AllBefore(Append(ts, e), p + 1)
    <2>1. \A t \in Expected : s =< t[1] /\ t[1] < p + 1 => t = e
      BY <1>5, <1>6, <1>9
    <2>2. p + 1 \in Nat
      OBVIOUS
    <2> QED
      BY Zenon, <1>4, <1>5, <2>1, <2>2, Returned
  <1> QED
    BY Zenon, <1>8, <1>9 DEF e

(* next passes a character at which nothing begins.                        *)
LEMMA NothingPassed ==
  ASSUME NEW ts, NEW p \in Nat, input \in Seq(STRING), AllBefore(ts, p),
         ~InString(p), p < Len(input), CharAt(p) \in Ends
  PROVE  AllBefore(ts, p + 1)
  <1>1. \A t \in Expected : t[1] # p
    BY Zenon, NothingBegins
  <1>2. \A t \in Expected : t[1] \in Nat
    BY DEF Expected, Positions
  <1>3. \A t \in Expected : t[1] < p + 1 => t[1] < p
    BY <1>1, <1>2
  <1> QED
    BY Zenon, <1>3 DEF AllBefore

(* Right after a blank or a closing quote the next argument may begin.     *)
LEMMA Fresh ==
  ASSUME NEW p \in Nat, input \in Seq(STRING), p < Len(input), CharAt(p) \in Ends,
         InString(p) <=> CharAt(p) = Quote
  PROVE  InWord(p + 1, p + 1)
  <1>1. ~InString(p + 1)
    BY Zenon, StringParity
  <1>2. MayBegin(p + 1)
    <2>1. CharAt((p + 1) - 1) = CharAt(p)
      BY DEF CharAt
    <2> QED
      BY <2>1 DEF MayBegin, After
  <1>3. ~(p + 1 < p + 1)
    OBVIOUS
  <1> QED
    BY Zenon, <1>1, <1>2, <1>3 DEF InWord

(* The line does not change, nor what it means.                            *)
LEMMA SameLine ==
  ASSUME input' = input
  PROVE  EInv' <=> EAt(position', start', parsing_string', at', tokens')
  <1>1. \A i : CharAt(i)' = CharAt(i)
    BY DEF CharAt
  <1>2. Positions' = Positions
    BY DEF Positions
  <1>3. ASSUME NEW i PROVE InString(i)' <=> InString(i)
    <2>1. {j \in Positions' : j < i /\ CharAt(j)' = Quote}
            = {j \in Positions : j < i /\ CharAt(j) = Quote}
      BY Zenon, <1>1, <1>2
    <2> QED
      BY Zenon, <2>1 DEF InString
  <1>4. \A a, b, cs : NoneOf(a, b, cs)' <=> NoneOf(a, b, cs)
    BY Zenon, <1>1 DEF NoneOf
  <1>5. \A i, cs : (After(i, cs)' <=> After(i, cs)) /\ (Before(i, cs)' <=> Before(i, cs))
    BY Zenon, <1>1 DEF After, Before
  <1>6. \A a, b : IsWord(a, b)' <=> IsWord(a, b)
    BY Zenon, <1>3, <1>4, <1>5 DEF IsWord
  <1>7. \A a, b : IsString(a, b)' <=> IsString(a, b)
    BY Zenon, <1>1, <1>3, <1>4, <1>5 DEF IsString
  <1>8. Expected' = Expected
    BY Zenon, <1>2, <1>6, <1>7 DEF Expected
  <1>9. \A i : MayBegin(i)' <=> MayBegin(i)
    BY Zenon, <1>1, <1>5 DEF MayBegin
  <1>10. \A p, s : (InWord(p, s)' <=> InWord(p, s)) /\ (InQuotes(p, s)' <=> InQuotes(p, s))
    BY Zenon, <1>1, <1>3, <1>4, <1>9 DEF InWord, InQuotes
  <1>11. /\ \A ts : AllArguments(ts)' <=> AllArguments(ts)
         /\ \A ts, f : AllBefore(ts, f)' <=> AllBefore(ts, f)
    BY Zenon, <1>8 DEF AllArguments, AllBefore
  <1> QED
    BY Zenon, <1>10, <1>11 DEF EInv, EAt

(* Before the first call nothing has been looked at.                       *)
LEMMA InitEInv == Init => EInv
  <1> SUFFICES ASSUME Init PROVE EInv
    OBVIOUS
  <1>1. /\ position = 0 /\ at = "call" /\ tokens = <<>>
        /\ input \in Seq(STRING) /\ Len(input) \in Nat
    BY InputsAssumption DEF Init
  <1>2. ~InString(0)
    <2>1. {j \in Positions : j < 0 /\ CharAt(j) = Quote} = {}
      BY <1>1 DEF Positions
    <2>2. Cardinality({}) = 0
      BY FS_EmptySet
    <2>3. Cardinality({j \in Positions : j < 0 /\ CharAt(j) = Quote}) = 0
      BY Zenon, <2>1, <2>2
    <2>4. 0 % 2 # 1
      OBVIOUS
    <2> QED
      BY Zenon, <2>3, <2>4 DEF InString
  <1>3. InWord(0, 0)
    <2>1. ~(0 < 0)
      OBVIOUS
    <2> QED
      BY Zenon, <1>2, <2>1 DEF InWord, MayBegin, After
  <1>4. AllBefore(tokens, 0)
    <2>1. \A t \in Expected : t[1] \in Nat
      BY <1>1 DEF Expected, Positions
    <2>2. \A t \in Expected : ~(t[1] < 0)
      BY <2>1
    <2> QED
      BY Zenon, <2>2 DEF AllBefore
  <1>5. AllArguments(tokens)
    BY <1>1 DEF AllArguments
  <1>6. "call" # "scan" /\ "call" # "done"
    OBVIOUS
  <1> QED
    BY Zenon, <1>1, <1>3, <1>4, <1>5, <1>6 DEF EInv, EAt

(* Every step of the iterator keeps what it knows about the line.          *)
LEMMA ParseEInv == IInv /\ EInv /\ Parse => EInv'
  <1> SUFFICES ASSUME IInv, EInv, Parse PROVE EInv'
    OBVIOUS
  <1> DEFINE p == position
             s == start
             ts == tokens
             us == Append(ts, <<s, p>>)
  <1>1. /\ input \in Seq(STRING) /\ Len(input) \in Nat /\ p \in Nat /\ s \in Nat
        /\ p =< Len(input) /\ ts \in Seq(Nat \X Nat) /\ p + 1 \in Nat
        /\ at = "scan" => s =< p
    BY LineLength DEF IInv, TypeOK, SlicesValid
  <1>2. /\ AllArguments(ts)
        /\ at # "scan" => InWord(p, p) /\ AllBefore(ts, p)
        /\ at = "scan" => AllBefore(ts, s)
        /\ at = "scan" /\ ~parsing_string => InWord(p, s)
        /\ at = "scan" /\ parsing_string => InQuotes(p, s)
    BY Zenon DEF EInv, EAt
  <1>3. "call" # "scan" /\ "call" # "done" /\ "scan" # "done" /\ "done" # "scan"
    OBVIOUS
  <1>4. Quote \notin Blanks /\ \A c : c \in Ends <=> c \in Blanks \/ c = Quote
    BY DEF Quote, Blanks, Ends
  \* next returns.
  <1>a. ASSUME input' = input, at' = "call", tokens' = us, AllArguments(us),
               AllBefore(us, position'), InWord(position', position')
        PROVE  EInv'
    <2> HIDE DEF us
    <2> QED
      BY Zenon, <1>a, <1>3, SameLine DEF EAt
  \* next goes on.
  <1>b. ASSUME input' = input, at' = "scan", tokens' = ts, AllBefore(ts, start'),
               parsing_string' = TRUE => InQuotes(position', start'),
               parsing_string' = FALSE => InWord(position', start'),
               parsing_string' \in BOOLEAN
        PROVE  EInv'
    <2>1. parsing_string' = TRUE \/ parsing_string' = FALSE
      BY Zenon, <1>b
    <2> QED
      BY Zenon, <1>b, <1>2, <1>3, <2>1, SameLine DEF EAt
  <1>c. /\ parsing_string \in BOOLEAN /\ (parsing_string = TRUE <=> parsing_string)
        /\ (parsing_string = FALSE <=> ~parsing_string)
    BY Zenon DEF IInv, TypeOK
  <1> HIDE DEF p, s, ts
  \* A string goes on.
  <1>d. ASSUME InQuotes(p, s), s =< p, p < Len(input), CharAt(p) # Quote
        PROVE  InQuotes(p + 1, s)
    <2>1. InString(p + 1)
      BY Zenon, <1>d, <1>1, StringParity DEF InQuotes
    <2>2. CharAt(p) \notin {Quote}
      BY Zenon, <1>d
    <2>3. NoneOf(s, p + 1, {Quote})
      BY Zenon, <1>d, <2>2, <1>1, NoneMore DEF InQuotes
    <2> QED
      BY Zenon, <1>d, <2>1, <2>3 DEF InQuotes
  <1>5. CASE NextCall
    <2>1. /\ at = "call" /\ start' = p /\ parsing_string' = FALSE /\ at' = "scan"
          /\ input' = input /\ position' = p /\ tokens' = ts
      BY Zenon, <1>5 DEF NextCall, p, ts
    <2>2. FALSE # TRUE /\ FALSE \in BOOLEAN
      OBVIOUS
    <2> QED
      BY Zenon, <2>1, <2>2, <1>2, <1>3, <1>b
  <1>6. CASE QuoteAfterText
    <2>1. /\ at = "scan" /\ p < Len(input) /\ ~parsing_string /\ CharAt(p) = Quote /\ p > s
          /\ input' = input /\ position' = p /\ tokens' = us /\ at' = "call"
      BY Zenon, <1>6 DEF QuoteAfterText, Scanning, Here, Emit, p, s, ts
    <2>2. s < p /\ ~(p < p)
      BY <2>1, <1>1
    <2>3. Before(p, Ends)
      BY Zenon, <2>1, <1>4 DEF Before
    <2>4. InWord(p, s)
      BY Zenon, <2>1, <1>2
    <2>5. AllArguments(us) /\ AllBefore(us, p)
      BY Zenon, <2>1, <2>2, <2>3, <2>4, <1>1, <1>2, ReturnWord
    <2>6. InWord(p, p)
      BY Zenon, <2>1, <2>2, <2>4 DEF InWord, MayBegin
    <2> QED
      BY Zenon, <2>1, <2>5, <2>6, <1>a
  <1>7. CASE OpenQuote
    <2>1. /\ at = "scan" /\ p < Len(input) /\ ~parsing_string /\ CharAt(p) = Quote /\ ~(p > s)
          /\ input' = input /\ position' = p + 1 /\ start' = s + 1 /\ tokens' = ts
          /\ parsing_string' = TRUE /\ at' = at
      BY Zenon, <1>7 DEF OpenQuote, Scanning, Here, p, s, ts
    <2>2. s = p
      BY <2>1, <1>1
    <2>3. ~InString(p)
      BY Zenon, <2>1, <1>2 DEF InWord
    <2>4. InString(p + 1)
      BY Zenon, <2>1, <2>3, <1>1, StringParity
    <2>5. p + 1 > 0 /\ CharAt((p + 1) - 1) = Quote
      BY <2>1, <1>1 DEF CharAt
    <2>6. InQuotes(p + 1, p + 1)
      <3>1. NoneOf(p + 1, p + 1, {Quote})
        BY Zenon, <1>1, NoneYet
      <3> QED
        BY Zenon, <2>4, <2>5, <3>1 DEF InQuotes
    <2>7. AllBefore(ts, p + 1)
      BY Zenon, <2>1, <2>2, <2>3, <1>1, <1>2, <1>4, NothingPassed
    <2>8. TRUE # FALSE /\ TRUE \in BOOLEAN
      OBVIOUS
    <2> QED
      BY Zenon, <2>1, <2>2, <2>6, <2>7, <2>8, <1>b
  <1>8. CASE CloseQuote
    <2>1. /\ at = "scan" /\ p < Len(input) /\ parsing_string /\ CharAt(p) = Quote
          /\ input' = input /\ position' = p + 1 /\ tokens' = us /\ at' = "call"
      BY Zenon, <1>8 DEF CloseQuote, Scanning, Here, Emit, p, s, ts
    <2>2. InQuotes(p, s) /\ s =< p /\ Before(p, {Quote})
      BY Zenon, <2>1, <1>1, <1>2 DEF Before
    <2>3. AllArguments(us) /\ AllBefore(us, p + 1)
      BY Zenon, <2>1, <2>2, <1>1, <1>2, ReturnString
    <2>4. InWord(p + 1, p + 1)
      <3>1. InString(p)
        BY Zenon, <2>1, <2>2 DEF InQuotes
      <3> QED
        BY Zenon, <3>1, <2>1, <1>1, <1>4, Fresh
    <2> QED
      BY Zenon, <2>1, <2>3, <2>4, <1>a
  <1>9. CASE BlankInString
    <2>1. /\ at = "scan" /\ p < Len(input) /\ parsing_string /\ CharAt(p) \in Blanks
          /\ input' = input /\ position' = p + 1 /\ start' = s /\ tokens' = ts
          /\ parsing_string' = parsing_string /\ at' = at
      BY Zenon, <1>9 DEF BlankInString, Scanning, Here, Munch, p, s, ts
    <2>2. CharAt(p) # Quote
      BY Zenon, <2>1, <1>4
    <2>3. InQuotes(p + 1, s)
      BY Zenon, <2>1, <2>2, <1>1, <1>2, <1>d
    <2> QED
      BY Zenon, <2>1, <2>3, <1>2, <1>b, <1>c
  <1>10. CASE BlankEndsToken
    <2>1. /\ at = "scan" /\ p < Len(input) /\ ~parsing_string /\ CharAt(p) \in Blanks /\ p # s
          /\ input' = input /\ position' = p + 1 /\ tokens' = us /\ at' = "call"
      BY Zenon, <1>10 DEF BlankEndsToken, Scanning, Here, Emit, p, s, ts
    <2>2. s < p
      BY <2>1, <1>1
    <2>3. InWord(p, s) /\ Before(p, Ends)
      BY Zenon, <2>1, <1>2, <1>4 DEF Before
    <2>4. AllArguments(us) /\ AllBefore(us, p + 1)
      BY Zenon, <2>1, <2>2, <2>3, <1>1, <1>2, ReturnWord
    <2>5. InWord(p + 1, p + 1)
      <3>1. ~InString(p) /\ CharAt(p) # Quote
        BY Zenon, <2>1, <2>3, <1>4 DEF InWord
      <3> QED
        BY Zenon, <3>1, <2>1, <1>1, <1>4, Fresh
    <2> QED
      BY Zenon, <2>1, <2>4, <2>5, <1>a
  <1>11. CASE SkipBlank
    <2>1. /\ at = "scan" /\ p < Len(input) /\ ~parsing_string /\ CharAt(p) \in Blanks /\ p = s
          /\ input' = input /\ position' = p + 1 /\ start' = p + 1 /\ tokens' = ts
          /\ parsing_string' = parsing_string /\ at' = at
      BY Zenon, <1>11 DEF SkipBlank, Scanning, Here, p, s, ts
    <2>2. ~InString(p) /\ CharAt(p) # Quote /\ CharAt(p) \in Ends
      BY Zenon, <2>1, <1>2, <1>4 DEF InWord
    <2>3. InWord(p + 1, p + 1)
      BY Zenon, <2>1, <2>2, <1>1, Fresh
    <2>4. AllBefore(ts, p + 1)
      BY Zenon, <2>1, <2>2, <1>1, <1>2, NothingPassed
    <2> QED
      BY Zenon, <2>1, <2>3, <2>4, <1>b, <1>c
  <1>12. CASE OtherChar
    <2>1. /\ at = "scan" /\ p < Len(input) /\ CharAt(p) \notin Ends
          /\ input' = input /\ position' = p + 1 /\ start' = s /\ tokens' = ts
          /\ parsing_string' = parsing_string /\ at' = at
      BY Zenon, <1>12 DEF OtherChar, Scanning, Here, Munch, Ends, p, s, ts
    <2>2. CharAt(p) # Quote
      BY Zenon, <2>1, <1>4
    <2>3. parsing_string => InQuotes(p + 1, s)
      BY Zenon, <2>1, <2>2, <1>1, <1>2, <1>d
    <2>4. ASSUME ~parsing_string PROVE InWord(p + 1, s)
      <3>1. InWord(p, s)
        BY Zenon, <2>1, <2>4, <1>2
      <3>2. ~InString(p)
        BY Zenon, <3>1, <2>1 DEF InWord
      <3>3. ~InString(p + 1)
        BY Zenon, <3>2, <2>1, <2>2, <1>1, StringParity
      <3>4. s < p \/ s = p
        BY <2>1, <1>1
      <3>5. ~InString(s) /\ NoneOf(s, p, Ends)
        BY Zenon, <3>1, <3>2, <3>4, <1>1, NoneYet DEF InWord
      <3>6. NoneOf(s, p + 1, Ends)
        BY Zenon, <3>5, <2>1, <1>1, NoneMore
      <3> QED
        BY Zenon, <3>1, <3>3, <3>5, <3>6 DEF InWord
    <2> QED
      BY Zenon, <2>1, <2>3, <2>4, <1>2, <1>b, <1>c
  <1>13. CASE EndOfInput
    <2>1. /\ at = "scan" /\ p >= Len(input) /\ p > s
          /\ input' = input /\ position' = p /\ tokens' = us /\ at' = "call"
      BY Zenon, <1>13 DEF EndOfInput, Emit, p, s, ts
    <2>2. p = Len(input) /\ s < p /\ ~(p < p)
      BY <2>1, <1>1
    <2>3. Before(p, Ends) /\ Before(p, {Quote})
      BY Zenon, <2>2 DEF Before
    <2>4. AllArguments(us) /\ AllBefore(us, p)
      <3>1. CASE parsing_string
        BY Zenon, <3>1, <2>1, <2>2, <2>3, <1>1, <1>2, ReturnString
      <3>2. CASE ~parsing_string
        BY Zenon, <3>2, <2>1, <2>2, <2>3, <1>1, <1>2, ReturnWord
      <3> QED
        BY <3>1, <3>2
    <2>5. InWord(p, p)
      BY Zenon, <2>2 DEF InWord, MayBegin
    <2> QED
      BY Zenon, <2>1, <2>4, <2>5, <1>a
  <1>14. CASE ReturnNone
    <2>1. /\ at = "scan" /\ p >= Len(input) /\ ~(p > s) /\ at' = "done"
          /\ input' = input /\ position' = p /\ tokens' = ts
      BY Zenon, <1>14 DEF ReturnNone, p, s, ts
    <2>2. p = Len(input) /\ s = p /\ ~(p < p)
      BY <2>1, <1>1
    <2>3. InWord(p, p)
      BY Zenon, <2>2 DEF InWord, MayBegin
    <2> QED
      BY Zenon, <2>1, <2>2, <2>3, <1>2, <1>3, SameLine DEF EAt
  <1> QED
    BY Zenon, <1>5, <1>6, <1>7, <1>8, <1>9, <1>10, <1>11, <1>12, <1>13, <1>14 DEF Parse

(* What next returns for every command line is exactly its words and its   *)
(* quoted strings: none is lost, split, joined or returned twice in part,  *)
(* wherever the quotes and blanks stand, and at the end all are there.     *)
THEOREM TokensAreExact == Spec => []TokensExact
  <1>1. IInv /\ EInv /\ [Next]_vars => EInv'
    <2> SUFFICES ASSUME IInv, EInv, [Next]_vars PROVE EInv'
      OBVIOUS
    <2>1. CASE Parse
      BY Zenon, <2>1, ParseEInv
    <2>2. CASE Finished \/ UNCHANGED vars
      <3>1. /\ input' = input /\ position' = position /\ start' = start
            /\ parsing_string' = parsing_string /\ at' = at /\ tokens' = tokens
        BY Zenon, <2>2 DEF Finished, vars
      <3> QED
        BY Zenon, <3>1, SameLine DEF EInv
    <2> QED
      BY Zenon, <2>1, <2>2 DEF Next
  <1>2. IInv /\ EInv => TokensExact
    <2> SUFFICES ASSUME IInv, EInv PROVE TokensExact
      OBVIOUS
    <2>1. /\ input \in Seq(STRING) /\ Len(input) \in Nat
      BY LineLength DEF IInv
    <2>2. AllArguments(tokens)
      BY Zenon DEF EInv, EAt
    <2>3. ASSUME at = "done", NEW t \in Expected
          PROVE  \E i \in DOMAIN tokens : tokens[i] = t
      <3>1. AllBefore(tokens, Len(input))
        <4>1. at # "scan"
          BY <2>3
        <4> QED
          BY Zenon, <4>1, <2>3 DEF EInv, EAt
      <3>2. t[1] # Len(input)
        BY Zenon, <2>1, <2>3, NothingBegins
      <3>3. t[1] < Len(input)
        BY <3>2, <2>1 DEF Expected, Positions
      <3> QED
        BY Zenon, <3>1, <3>3 DEF AllBefore
    <2> QED
      BY Zenon, <2>2, <2>3 DEF TokensExact, AllArguments
  <1> QED
    BY InitEInv, Invariance, <1>1, <1>2, PTL DEF Spec

=============================================================================
