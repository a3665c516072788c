---------------------------- MODULE Console_proofs ----------------------------
(***************************************************************************)
(* Proofs about Console, for every width, prompt, history and set of       *)
(* commands' outputs.                                                      *)
(***************************************************************************)
EXTENDS Console, SequenceTheorems, TLAPS

\* Who is inside a critical section: at most one user, with interrupts off.
Sections ==
  /\ handler => ~interrupts /\ stage["main"] = "out"
  /\ ~handler => stage["irq"] = "out" /\ work["irq"] = <<>>
  /\ \A u \in Users : stage[u] # "out" => ~interrupts /\ work[u] # <<>>
  /\ stage["irq"] # "out" => ~saved["irq"]
  /\ lock => \E u \in Users : stage[u] \in {"body", "unlock"} /\ Locks(Current(u))

\* Where the cursor is, or what will put it there: the last operation.
Tracked ==
  /\ cursor_position = Len(input_buffer)
  /\ shell \in {"boot", "start"} => input_buffer = <<>>
  /\ \A i \in DOMAIN work["irq"] : work["irq"][i].kind = "print"
  /\ shell = "run" =>
       LET w == work["main"]
       IN /\ w = <<>> => cursor = Column
          /\ w # <<>> => w[Len(w)] = SetCursor(Column)
          /\ Len(w) = 1 /\ stage["main"] \in {"unlock", "leave"} => cursor = Column

IInv == TypeOK /\ Sections /\ Tracked

(* What the proofs use of the sizes.                                       *)
LEMMA Sizes == /\ BUFFER_WIDTH \in Nat /\ BUFFER_WIDTH > 0 /\ Len(Prompt) \in Nat
               /\ HistoryCap \in Nat /\ HistoryCap > 0
               /\ Prompt \in Seq(Bytes) /\ Outputs \subseteq Seq(Ops)
               /\ INPUT_BUFFER_LEN \in Nat /\ Len(Prompt) + INPUT_BUFFER_LEN < BUFFER_WIDTH
  BY SizeAssumption, TextAssumption DEF INPUT_BUFFER_LEN

(* What is printed at each point is a sequence of operations.              *)
LEMMA OpsTyped ==
  /\ \A b \in Seq(Bytes) : Fmt(b) \in Ops /\ Println(b) \in Ops
  /\ \A c \in Colors : SetColor(c) \in Ops
  /\ \A n \in Nat : SetColumn(n) \in Ops /\ SetCursor(n) \in Ops
  /\ \A c \in Colors, ops \in Seq(Ops) : with_color(c, ops) \in Seq(Ops)
  <1>1. \A b \in Seq(Bytes) : Fmt(b) \in Ops
    BY DEF Fmt, Op, Ops, Kinds, Colors
  <1>2. \A b \in Seq(Bytes) : Append(b, Newline) \in Seq(Bytes)
    <2>1. Newline \in Bytes
      BY DEF Newline, Bytes
    <2> QED
      BY <2>1, AppendProperties
  <1>3. \A b \in Seq(Bytes) : Println(b) \in Ops
    BY Zenon, <1>1, <1>2 DEF Println
  <1>4. \A c \in Colors : SetColor(c) \in Ops
    BY DEF SetColor, Op, Ops, Kinds, Colors
  <1>5. \A n \in Nat : SetColumn(n) \in Ops /\ SetCursor(n) \in Ops
    BY DEF SetColumn, SetCursor, Op, Ops, Kinds, Colors
  <1>6. ASSUME NEW c \in Colors, NEW ops \in Seq(Ops)
        PROVE with_color(c, ops) \in Seq(Ops)
    <2>1. /\ Op("swap_in", <<>>, c, 0) \in Ops
          /\ Op("swap_out", <<>>, "White", 0) \in Ops
      BY DEF Op, Ops, Kinds, Colors
    <2> QED
      BY <2>1 DEF with_color
  <1> QED
    BY <1>1, <1>3, <1>4, <1>5, <1>6

(* The last operation stays the last when the first is done, and the list  *)
(* of a single operation becomes empty.                                    *)
LEMMA LastOfTail ==
  ASSUME NEW s \in Seq(Ops), s # <<>>
  PROVE  /\ Len(s) = 1 => Tail(s) = <<>>
         /\ Len(s) # 1 => /\ Len(s) \in 2..Len(s) /\ Tail(s) # <<>>
                          /\ Len(Tail(s)) \in Nat
                          /\ Tail(s)[Len(Tail(s))] = s[Len(s)]
  <1>1. Len(s) \in Nat /\ Len(s) > 0
    OBVIOUS
  <1>2. /\ Tail(s) \in Seq(Ops) /\ Len(Tail(s)) = Len(s) - 1
        /\ \A i \in 1..Len(Tail(s)) : Tail(s)[i] = s[i + 1]
    BY HeadTailProperties
  <1>3. CASE Len(s) = 1
    <2>1. Len(Tail(s)) = 0
      BY <1>2, <1>3
    <2>2. Tail(s) = <<>>
      BY Zenon, <1>2, <2>1, EmptySeq
    <2> QED
      BY <1>3, <2>2
  <1>4. CASE Len(s) # 1
    <2>1. Len(s) \in 2..Len(s) /\ Len(Tail(s)) \in 1..Len(Tail(s))
      BY <1>1, <1>2, <1>4
    <2>2. Tail(s)[Len(Tail(s))] = s[Len(Tail(s)) + 1]
      BY <1>2, <2>1
    <2>3. Len(Tail(s)) + 1 = Len(s)
      BY <1>1, <1>2
    <2>4. Len(Tail(s)) # 0 /\ Len(Tail(s)) \in Nat
      BY <1>1, <1>2, <1>4
    <2>5. Tail(s) # <<>>
      BY <1>2, <2>4, EmptySeq
    <2> QED
      BY <1>4, <2>1, <2>2, <2>3, <2>4, <2>5
  <1> QED
    BY <1>3, <1>4

(* The console before kernel_main prints its first line.                   *)
LEMMA InitIInv == Init => IInv
  <1> SUFFICES ASSUME Init PROVE IInv
    OBVIOUS
  <1>1. <<Println(<<"t">>)>> \in Seq(Ops)
    <2>1. <<"t">> \in Seq(Bytes)
      BY DEF Bytes
    <2>2. Println(<<"t">>) \in Ops
      BY Zenon, <2>1, OpsTyped
    <2> QED
      BY <2>2
  <1>2. lock = FALSE /\ interrupts = FALSE /\ handler = FALSE
    BY Zenon DEF Init
  <1>a. /\ column_position = 0 /\ color_code = "White" /\ outer = <<>>
        /\ cursor = 0 /\ shell = "boot" /\ input_buffer = <<>>
        /\ cursor_position = 0 /\ history = 0 /\ noise = 0
    BY Zenon DEF Init
  <1>b. work = [u \in Users |-> IF u = "main" THEN <<Println(<<"t">>)>> ELSE <<>>]
    BY Zenon DEF Init
  <1>3. work \in [Users -> Seq(Ops)] /\ work["irq"] = <<>>
    <2>1. <<>> \in Seq(Ops)
      OBVIOUS
    <2> DEFINE first == <<Println(<<"t">>)>>
    <2>2. first \in Seq(Ops) /\ work = [u \in Users |-> IF u = "main" THEN first ELSE <<>>]
      BY <1>1, <1>b
    <2> HIDE DEF first
    <2> QED
      BY <2>1, <2>2 DEF Users
  <1>4. stage \in [Users -> Stages] /\ \A u \in Users : stage[u] = "out"
    BY Zenon DEF Init, Stages
  <1>5. saved \in [Users -> BOOLEAN]
    BY Zenon DEF Init
  <1>6. row \in [Columns -> Bytes]
    BY Zenon DEF Init, Bytes
  <1>7. TypeOK
    <2>1. lock \in BOOLEAN /\ interrupts \in BOOLEAN /\ handler \in BOOLEAN
      BY <1>2, Zenon
    <2>2. /\ column_position \in 0..BUFFER_WIDTH /\ color_code \in Colors
          /\ outer \in Seq(Colors) /\ cursor \in Nat
          /\ shell \in {"boot", "start", "run", "exited", "panic", "halted"}
          /\ cursor_position \in Nat /\ history \in 0..HistoryCap /\ noise \in Nat
      BY <1>a, Sizes DEF Colors
    <2>3. input_buffer \in Seq(Keys) /\ Len(input_buffer) =< INPUT_BUFFER_LEN
      BY <1>a, Sizes
    <2> QED
      BY <1>3, <1>4, <1>5, <1>6, <2>1, <2>2, <2>3 DEF TypeOK
  <1>8. Sections
    BY <1>2, <1>3, <1>4 DEF Sections, Users
  <1>9. Tracked
    BY <1>a, <1>3 DEF Tracked
  <1> QED
    BY <1>7, <1>8, <1>9 DEF IInv

(* without_interrupts begins: no one else is inside a section.             *)
LEMMA EnterIInv ==
  ASSUME IInv, NEW u \in Users, Enter(u)
  PROVE  IInv'
  <1>1. /\ stage' = [stage EXCEPT ![u] = "lock"]
        /\ saved' = [saved EXCEPT ![u] = interrupts]
        /\ UNCHANGED <<lock, handler, work, column_position, color_code, row, cursor,
                       outer, shell, input_buffer, cursor_position, history, noise>>
    BY DEF Enter, Goto, screen, editor
  <1>2. interrupts' = FALSE
    BY Zenon DEF Enter
  <1>3. Running(u) /\ work[u] # <<>> /\ stage[u] = "out"
    BY DEF Enter, At
  <1>4. TypeOK'
    <2>1. interrupts' \in BOOLEAN /\ lock' \in BOOLEAN /\ handler' \in BOOLEAN
      BY <1>1, <1>2, Zenon DEF IInv, TypeOK
    <2>2. stage' \in [Users -> Stages] /\ saved' \in [Users -> BOOLEAN]
      BY <1>1 DEF IInv, TypeOK, Stages
    <2> QED
      BY <1>1, <2>1, <2>2 DEF IInv, TypeOK
  <1>5. Sections'
    BY <1>1, <1>2, <1>3 DEF IInv, TypeOK, Sections, Users, Stages, Running, Current
  <1>6. Tracked'
    BY <1>1, <1>3 DEF IInv, TypeOK, Tracked, Column, Users
  <1> QED
    BY <1>4, <1>5, <1>6 DEF IInv

(* The lock is taken: it was free, so nothing else holds it.               *)
LEMMA LockIInv ==
  ASSUME IInv, NEW u \in Users, Lock(u)
  PROVE  IInv'
  <1>1. /\ stage' = [stage EXCEPT ![u] = "body"]
        /\ UNCHANGED <<interrupts, handler, work, saved, column_position, color_code,
                       row, cursor, outer, shell, input_buffer, cursor_position,
                       history, noise>>
    BY DEF Lock, Goto, screen, editor
  <1>2. lock' = IF Locks(Current(u)) THEN TRUE ELSE lock
    BY Zenon DEF Lock
  <1>3. Running(u) /\ work[u] # <<>> /\ stage[u] = "lock"
    BY DEF Lock, At
  <1>4. TypeOK'
    <2>1. lock' \in BOOLEAN
      BY <1>2, Zenon DEF IInv, TypeOK
    <2>2. stage' \in [Users -> Stages]
      BY <1>1 DEF IInv, TypeOK, Stages
    <2> QED
      BY <1>1, <2>1, <2>2 DEF IInv, TypeOK
  <1>5. Sections'
    <2>1. CASE Locks(Current(u))
      <3>1. stage'[u] = "body" /\ Locks(Current(u))'
        BY <1>1, <2>1 DEF IInv, TypeOK, Locks, Current
      <3> QED
        BY <3>1, <1>1, <1>3 DEF IInv, TypeOK, Sections, Users, Stages, Running
    <2>2. CASE ~Locks(Current(u))
      BY <1>1, <1>2, <1>3, <2>2
      DEF IInv, TypeOK, Sections, Users, Stages, Running, Locks, Current
    <2> QED
      BY <2>1, <2>2
  <1>6. Tracked'
    BY <1>1, <1>3 DEF IInv, TypeOK, Tracked, Column, Users
  <1> QED
    BY <1>4, <1>5, <1>6 DEF IInv

(* write_byte stays on the row.                                            *)
LEMMA WriteByteTyped ==
  ASSUME TypeOK, NEW b \in Bytes, WriteByte(b)
  PROVE  column_position' \in 0..BUFFER_WIDTH /\ row' \in [Columns -> Bytes]
  <1>1. Blank \in [Columns -> Bytes]
    BY Zenon DEF Blank, Bytes
  <1>2. CASE b = Newline
    BY <1>1, <1>2, Sizes DEF WriteByte
  <1>3. CASE b # Newline
    <2> DEFINE full == column_position >= BUFFER_WIDTH
               col == IF full THEN 0 ELSE column_position
               old == IF full THEN Blank ELSE row
    <2>1. col \in 0..BUFFER_WIDTH - 1
      BY Sizes DEF TypeOK
    <2>2. old \in [Columns -> Bytes]
      BY <1>1 DEF TypeOK
    <2>3. row' = [old EXCEPT ![col] = b] /\ column_position' = col + 1
      BY <1>3 DEF WriteByte
    <2> HIDE DEF col, old
    <2> QED
      BY <2>1, <2>2, <2>3, Sizes DEF Columns
  <1> QED
    BY <1>2, <1>3

(* A print writes its next byte.                                           *)
LEMMA PrintByteIInv ==
  ASSUME IInv, NEW u \in Users, PrintByte(u)
  PROVE  IInv'
  <1> DEFINE w == work[u]
             b == Head(w[1].bytes)
             p == Fmt(Tail(w[1].bytes))
  <1>1. /\ Running(u) /\ w # <<>> /\ stage[u] = "body"
        /\ w \in Seq(Ops) /\ Current(u) = w[1] /\ w[1] \in Ops
        /\ w[1].kind = "print" /\ w[1].bytes # <<>>
    BY DEF PrintByte, At, Current, IInv, TypeOK
  <1>2. w[1].bytes \in Seq(Bytes)
    BY <1>1 DEF Ops
  <1>3. b \in Bytes /\ p \in Ops /\ p.kind = "print"
    <2>1. b \in Bytes /\ Tail(w[1].bytes) \in Seq(Bytes)
      BY <1>1, <1>2, HeadTailProperties
    <2>2. p \in Ops
      BY Zenon, <2>1, OpsTyped
    <2> QED
      BY <2>1, <2>2 DEF Fmt, Op
  <1>4. /\ WriteByte(Glyph(b))
        /\ noise' = IF u = "irq" THEN noise + 1 ELSE IF b = Newline THEN 0 ELSE noise
        /\ work' = [work EXCEPT ![u] = <<p>> \o Tail(w)]
        /\ UNCHANGED <<color_code, cursor, outer, lock, interrupts, handler, stage,
                       saved, shell, input_buffer, cursor_position, history>>
    BY <1>1 DEF PrintByte, editor
  <1> HIDE DEF p, b
  <1>5. /\ <<p>> \o Tail(w) \in Seq(Ops)
        /\ Len(<<p>> \o Tail(w)) = Len(w)
        /\ (<<p>> \o Tail(w))[1] = p
        /\ \A i \in 2..Len(w) : (<<p>> \o Tail(w))[i] = w[i]
    BY <1>1, <1>3
  <1> DEFINE v == <<p>> \o Tail(w)
  <1>6. /\ work'[u] = v /\ v \in Seq(Ops) /\ Len(v) = Len(w) /\ v[1] = p
        /\ \A i \in 2..Len(w) : v[i] = w[i]
        /\ Len(w) \in Nat /\ Len(w) > 0 /\ v # <<>>
    BY <1>1, <1>4, <1>5 DEF IInv, TypeOK
  <1>7. work' = [work EXCEPT ![u] = v]
    BY <1>4
  <1> HIDE DEF v
  <1>8. TypeOK'
    <2>1. Glyph(b) \in Bytes
      BY Zenon, <1>3 DEF Glyph, Bytes
    <2>2. column_position' \in 0..BUFFER_WIDTH /\ row' \in [Columns -> Bytes]
      BY <1>4, <2>1, WriteByteTyped DEF IInv
    <2>3. work' \in [Users -> Seq(Ops)]
      BY <1>6, <1>7 DEF IInv, TypeOK
    <2>4. noise' \in Nat
      BY <1>4 DEF IInv, TypeOK
    <2> QED
      BY <1>4, <2>2, <2>3, <2>4 DEF IInv, TypeOK
  <1>9. Sections'
    <2>1. \A x \in Users : x # u => work'[x] = work[x]
      BY <1>7 DEF IInv, TypeOK
    <2>2. Locks(Current(u))' <=> Locks(Current(u))
      BY <1>1, <1>3, <1>6 DEF Locks, Current
    <2>3. \A x \in Users : Locks(Current(x))' <=> Locks(Current(x))
      BY <2>1, <2>2 DEF Locks, Current
    <2> QED
      BY <1>1, <1>4, <1>6, <2>1, <2>3 DEF IInv, TypeOK, Sections, Users, Running
  <1>10. Tracked'
    <2>1. \A i \in DOMAIN work'["irq"] : work'["irq"][i].kind = "print"
      <3>1. CASE u = "irq"
        BY <3>1, <1>1, <1>3, <1>6 DEF IInv, Tracked
      <3>2. CASE u = "main"
        BY <3>2, <1>7 DEF IInv, TypeOK, Tracked, Users
      <3> QED
        BY <3>1, <3>2 DEF Users
    <2>2. CASE u = "irq"
      BY <2>1, <2>2, <1>4, <1>7 DEF IInv, TypeOK, Tracked, Column, Users
    <2>3. CASE u = "main" /\ shell = "run"
      <3>1. w[Len(w)] = SetCursor(Column)
        BY <1>1, <2>3 DEF IInv, Tracked
      <3>2. w[Len(w)].kind = "cursor"
        BY <3>1 DEF SetCursor, Op
      <3>3. Len(w) # 1
        BY <3>2, <1>1
      <3>4. v[Len(v)] = SetCursor(Column)
        <4>1. Len(w) \in 2..Len(w)
          BY <3>3, <1>1, LastOfTail
        <4>2. v[Len(w)] = w[Len(w)] /\ Len(v) = Len(w)
          BY <4>1, <1>6
        <4> QED
          BY <4>2, <3>1
      <3>5. Column' = Column
        BY <1>4 DEF Column
      <3>6. SetCursor(Column)' = SetCursor(Column)
        BY <3>5 DEF SetCursor
      <3>7. work'["main"] = v /\ v # <<>> /\ Len(v) # 1
        BY <1>6, <2>3, <3>3
      <3> QED
        BY <2>1, <1>4, <3>4, <3>6, <3>7 DEF IInv, Tracked
    <2>4. CASE u = "main" /\ shell # "run"
      BY <2>1, <2>4, <1>4 DEF IInv, Tracked
    <2> QED
      BY <2>2, <2>3, <2>4 DEF Users
  <1> QED
    BY <1>8, <1>9, <1>10 DEF IInv

(* The operation is done; only the shell's operations move the cursor.     *)
LEMMA ActIInv ==
  ASSUME IInv, NEW u \in Users, Act(u)
  PROVE  IInv'
  <1> DEFINE op == Current(u)
  <1>1. /\ stage' = [stage EXCEPT ![u] = "unlock"]
        /\ UNCHANGED <<lock, interrupts, handler, work, saved, shell, input_buffer,
                       cursor_position, history, noise>>
    BY DEF Act, Goto, editor
  <1>2. /\ Running(u) /\ work[u] # <<>> /\ stage[u] = "body"
        /\ work[u] \in Seq(Ops) /\ op = work[u][1] /\ op \in Ops
    BY DEF Act, At, Current, IInv, TypeOK
  <1>3. TypeOK'
    <2>1. op.color \in Colors /\ op.to \in Nat
      BY <1>2 DEF Ops
    <2>2. stage' \in [Users -> Stages]
      BY <1>1 DEF IInv, TypeOK, Stages
    <2>3. /\ column_position' \in 0..BUFFER_WIDTH /\ color_code' \in Colors
          /\ row' = row /\ cursor' \in Nat /\ outer' \in Seq(Colors)
      <3>1. CASE UNCHANGED screen
        BY <3>1 DEF screen, IInv, TypeOK
      <3>2. CASE op.kind = "swap_out"
        <4>1. /\ outer # <<>> /\ color_code' = outer[Len(outer)]
              /\ outer' = SubSeq(outer, 1, Len(outer) - 1)
              /\ UNCHANGED <<column_position, row, cursor>>
          BY <3>2 DEF Act
        <4>2. outer \in Seq(Colors) /\ Len(outer) \in Nat /\ Len(outer) > 0
          BY <4>1 DEF IInv, TypeOK
        <4>3. \A i \in 1..Len(outer) - 1 : outer[i] \in Colors
          BY <4>2
        <4>4. outer' \in Seq(Colors)
          BY <4>1, <4>2, <4>3, SubSeqProperties
        <4> QED
          BY <4>1, <4>2, <4>4 DEF IInv, TypeOK
      <3>3. CASE op.kind = "swap_in"
        <4>1. /\ color_code' = op.color /\ outer' = Append(outer, color_code)
              /\ UNCHANGED <<column_position, row, cursor>>
          BY <3>3 DEF Act
        <4> QED
          BY <4>1, <2>1, AppendProperties DEF IInv, TypeOK
      <3>4. CASE op.kind = "column"
        BY <3>4, <2>1, Sizes DEF Act, Min2, IInv, TypeOK
      <3>5. CASE op.kind \in {"color", "cursor"}
        BY <3>5, <2>1 DEF Act, IInv, TypeOK
      <3> QED
        BY <3>1, <3>2, <3>3, <3>4, <3>5 DEF Act
    <2> QED
      BY <1>1, <2>2, <2>3 DEF IInv, TypeOK
  <1>4. Sections'
    <2>1. \A x \in Users : Locks(Current(x))' <=> Locks(Current(x))
      BY <1>1 DEF Locks, Current
    <2> QED
      BY <1>1, <1>2, <2>1 DEF IInv, TypeOK, Sections, Users, Stages, Running
  <1>5. Tracked'
    <2>1. op.kind # "cursor" => cursor' = cursor
      BY DEF Act, screen
    <2>2. op.kind = "cursor" => cursor' = op.to
      BY DEF Act, screen
    <2>3. CASE u = "irq"
      <3>1. op.kind = "print"
        BY <1>2, <2>3 DEF IInv, Tracked
      <3> QED
        BY <3>1, <2>1, <2>3, <1>1 DEF IInv, TypeOK, Tracked, Column, Users
    <2>4. CASE u = "main"
      <3>1. shell = "run" /\ Len(work["main"]) = 1 => cursor' = Column
        <4>1. SetCursor(Column).kind = "cursor" /\ SetCursor(Column).to = Column
          BY DEF SetCursor, Op
        <4> QED
          BY <4>1, <1>2, <2>2, <2>4 DEF IInv, Tracked
      <3> QED
        BY <3>1, <2>4, <1>1, <1>2 DEF IInv, TypeOK, Tracked, Column
    <2> QED
      BY <2>3, <2>4 DEF Users
  <1> QED
    BY <1>3, <1>4, <1>5 DEF IInv

(* The guard of WRITER is dropped.                                         *)
LEMMA UnlockIInv ==
  ASSUME IInv, NEW u \in Users, Unlock(u)
  PROVE  IInv'
  <1>1. /\ stage' = [stage EXCEPT ![u] = "leave"]
        /\ UNCHANGED <<interrupts, handler, work, saved, column_position, color_code,
                       row, cursor, outer, shell, input_buffer, cursor_position,
                       history, noise>>
    BY DEF Unlock, Goto, screen, editor
  <1>2. lock' = IF Locks(Current(u)) THEN FALSE ELSE lock
    BY Zenon DEF Unlock
  <1>3. Running(u) /\ work[u] # <<>> /\ stage[u] = "unlock"
    BY DEF Unlock, At
  <1>4. TypeOK'
    <2>1. lock' \in BOOLEAN
      BY <1>2, Zenon DEF IInv, TypeOK
    <2>2. stage' \in [Users -> Stages]
      BY <1>1 DEF IInv, TypeOK, Stages
    <2> QED
      BY <1>1, <2>1, <2>2 DEF IInv, TypeOK
  <1>5. Sections'
    <2>1. \A x \in Users : Locks(Current(x))' <=> Locks(Current(x))
      BY <1>1 DEF Locks, Current
    <2>2. lock' => lock /\ ~Locks(Current(u))
      BY <1>2, Zenon
    <2> QED
      BY <1>1, <1>3, <2>1, <2>2 DEF IInv, TypeOK, Sections, Users, Stages, Running
  <1>6. Tracked'
    BY <1>1, <1>3 DEF IInv, TypeOK, Tracked, Column, Users
  <1> QED
    BY <1>4, <1>5, <1>6 DEF IInv

(* without_interrupts ends; a handler's flag stays off.                    *)
LEMMA LeaveIInv ==
  ASSUME IInv, NEW u \in Users, Leave(u)
  PROVE  IInv'
  <1> DEFINE w == work[u]
  <1>1. /\ stage' = [stage EXCEPT ![u] = "out"]
        /\ work' = [work EXCEPT ![u] = Tail(w)]
        /\ UNCHANGED <<lock, handler, saved, column_position, color_code, row,
                       cursor, outer, shell, input_buffer, cursor_position, history,
                       noise>>
    BY DEF Leave, Goto, screen, editor
  <1>2. interrupts' = saved[u]
    BY Zenon DEF Leave
  <1>3. /\ Running(u) /\ w # <<>> /\ stage[u] = "leave"
        /\ w \in Seq(Ops) /\ Len(w) \in Nat /\ Len(w) > 0
    BY DEF Leave, At, IInv, TypeOK
  <1>4. /\ Tail(w) \in Seq(Ops) /\ Len(Tail(w)) = Len(w) - 1
        /\ \A i \in 1..Len(w) - 1 : Tail(w)[i] = w[i + 1]
    BY <1>3, HeadTailProperties
  <1>5. TypeOK'
    <2>1. interrupts' \in BOOLEAN
      BY <1>2, Zenon DEF IInv, TypeOK
    <2>2. stage' \in [Users -> Stages] /\ work' \in [Users -> Seq(Ops)]
      BY <1>1, <1>4 DEF IInv, TypeOK, Stages
    <2> QED
      BY <1>1, <2>1, <2>2 DEF IInv, TypeOK
  <1>6. Sections'
    <2>1. \A x \in Users : x # u => stage[x] = "out" /\ work'[x] = work[x]
      BY <1>1, <1>3 DEF IInv, TypeOK, Sections, Users, Running
    <2>2. ~lock /\ \A x \in Users : stage'[x] = "out"
      BY <1>1, <1>3, <2>1 DEF IInv, TypeOK, Sections, Users
    <2>3. u = "irq" => ~interrupts'
      BY <1>2, <1>3 DEF IInv, Sections
    <2>4. u = "main" => ~handler /\ work'["irq"] = work["irq"]
      BY <1>3, <2>1 DEF Running, Users
    <2>5. u = "irq" => handler
      BY <1>3 DEF Running
    <2> QED
      BY <1>1, <2>2, <2>3, <2>4, <2>5 DEF IInv, TypeOK, Sections, Users
  <1>7. Tracked'
    <2>1. CASE u = "irq"
      <3>1. \A i \in DOMAIN Tail(w) : Tail(w)[i].kind = "print"
        <4>1. \A i \in 1..Len(w) : w[i].kind = "print"
          BY <1>3, <2>1 DEF IInv, Tracked
        <4> QED
          BY <4>1, <1>3, <1>4
      <3> QED
        BY <3>1, <2>1, <1>1 DEF IInv, TypeOK, Tracked, Column, Users
    <2>2. CASE u = "main"
      <3>1. work'["main"] = Tail(w) /\ work'["irq"] = work["irq"]
        BY <1>1, <2>2 DEF IInv, TypeOK, Users
      <3>2. Column' = Column /\ SetCursor(Column)' = SetCursor(Column)
        BY <1>1 DEF Column, SetCursor
      <3>3. stage'["main"] = "out"
        BY <1>1, <2>2 DEF IInv, TypeOK
      <3>4. CASE Len(w) = 1
        <4>1. Tail(w) = <<>>
          BY <3>4, <1>3, LastOfTail
        <4>2. shell = "run" => cursor = Column
          BY <3>4, <1>3, <2>2 DEF IInv, Tracked
        <4> QED
          BY <4>1, <4>2, <3>1, <3>2, <3>3, <1>1 DEF IInv, Tracked
      <3>5. CASE Len(w) # 1
        <4>1. /\ Tail(w)[Len(Tail(w))] = w[Len(w)]
              /\ Tail(w) # <<>>
          BY <3>5, <1>3, LastOfTail
        <4>2. shell = "run" => w[Len(w)] = SetCursor(Column)
          BY <1>3, <2>2 DEF IInv, Tracked
        <4> QED
          BY <4>1, <4>2, <3>1, <3>2, <3>3, <1>1 DEF IInv, Tracked
      <3> QED
        BY <3>4, <3>5
    <2> QED
      BY <2>1, <2>2 DEF Users
  <1> QED
    BY <1>5, <1>6, <1>7 DEF IInv

(* The last operation of a list that ends with t is t's last.              *)
LEMMA LastOfConcat ==
  ASSUME NEW s \in Seq(Ops), NEW t \in Seq(Ops), t # <<>>
  PROVE  /\ s \o t \in Seq(Ops) /\ s \o t # <<>>
         /\ (s \o t)[Len(s \o t)] = t[Len(t)]
  <1>1. Len(s) \in Nat /\ Len(t) \in Nat /\ Len(t) > 0
    OBVIOUS
  <1>2. /\ s \o t \in Seq(Ops) /\ Len(s \o t) = Len(s) + Len(t)
        /\ \A i \in 1..Len(s) + Len(t) :
             (s \o t)[i] = IF i <= Len(s) THEN s[i] ELSE t[i - Len(s)]
    BY ConcatProperties
  <1>3. /\ Len(s) + Len(t) \in 1..Len(s) + Len(t) /\ ~(Len(s) + Len(t) <= Len(s))
        /\ Len(s) + Len(t) - Len(s) = Len(t)
    BY <1>1
  <1>4. (s \o t)[Len(s) + Len(t)] = t[Len(t)]
    BY <1>2, <1>3
  <1>5. s \o t # <<>>
    BY <1>1, <1>2, ConcatEqualIffEmpty
  <1> QED
    BY <1>2, <1>4, <1>5

(* The kernel thread, between operations, starts on a list of them that,   *)
(* if it goes back to await a key, ends with the cursor after the line.    *)
LEMMA DoIInv ==
  ASSUME IInv, Thread, NEW ops \in Seq(Ops), Do(ops),
         UNCHANGED <<screen, lock, interrupts, handler, stage, saved, noise>>,
         shell' \in {"run", "exited", "panic"},
         input_buffer' \in Seq(Keys), Len(input_buffer') =< INPUT_BUFFER_LEN,
         cursor_position' = Len(input_buffer'), history' \in 0..HistoryCap,
         shell' = "run" =>
           ops # <<>> /\ ops[Len(ops)] = SetCursor(Len(Prompt) + cursor_position')
  PROVE  IInv'
  <1>1. /\ work' = [work EXCEPT !["main"] = ops]
        /\ UNCHANGED <<column_position, color_code, row, cursor, outer, lock,
                       interrupts, handler, stage, saved, noise>>
    BY DEF Do, screen
  <1>2. /\ work'["main"] = ops /\ work'["irq"] = work["irq"]
        /\ work' \in [Users -> Seq(Ops)]
    BY <1>1 DEF IInv, TypeOK, Users
  <1>3. ~handler /\ stage["main"] = "out" /\ stage["irq"] = "out"
    BY DEF Thread, IInv, Sections, Users
  <1>4. TypeOK'
    <2>1. cursor_position' \in Nat
      OBVIOUS
    <2> QED
      BY <1>1, <1>2, <2>1 DEF IInv, TypeOK
  <1>5. Sections'
    <2>1. ~lock
      BY <1>3 DEF IInv, Sections, Users
    <2> QED
      BY <1>1, <1>2, <1>3, <2>1 DEF IInv, Sections, Users
  <1>6. Tracked'
    <2>1. Column' = Len(Prompt) + cursor_position'
      BY DEF Column
    <2>2. SetCursor(Column)' = SetCursor(Len(Prompt) + cursor_position')
      BY <2>1 DEF SetCursor
    <2>3. stage'["main"] = "out"
      BY <1>1, <1>3
    <2> QED
      BY <1>2, <2>2, <2>3 DEF IInv, Tracked
  <1> QED
    BY <1>4, <1>5, <1>6 DEF IInv

(* The thread turns interrupts on or off between operations.               *)
LEMMA FlagIInv ==
  ASSUME IInv, Thread, interrupts' \in BOOLEAN, shell' \in {"start", "halted"},
         shell' = "start" => shell = "boot",
         UNCHANGED <<screen, lock, handler, work, stage, saved, input_buffer,
                     cursor_position, history, noise>>
  PROVE  IInv'
  <1>1. ~handler /\ stage["main"] = "out" /\ stage["irq"] = "out"
    BY DEF Thread, IInv, Sections, Users
  <1>2. ~lock
    BY <1>1 DEF IInv, Sections, Users
  <1>3. TypeOK'
    BY DEF IInv, TypeOK, screen
  <1>4. Sections'
    BY <1>1, <1>2 DEF IInv, Sections, Users
  <1>5. Tracked'
    BY DEF IInv, Tracked
  <1> QED
    BY <1>3, <1>4, <1>5 DEF IInv

(* print_prompt leaves the cursor after the prompt.                        *)
LEMMA PromptOps ==
  /\ print_prompt \in Seq(Ops) /\ print_prompt # <<>>
  /\ print_prompt[Len(print_prompt)] = SetCursor(Len(Prompt))
  <1>1. Fmt(Prompt) \in Ops /\ SetCursor(Len(Prompt)) \in Ops
    BY OpsTyped, Sizes
  <1> QED
    BY <1>1 DEF print_prompt

(* What Enter prints first, and the panic handler's report, are lists of   *)
(* operations.                                                             *)
LEMMA ReportOps ==
  /\ Submitted \in Seq(Ops)
  /\ panic_report \in Seq(Ops)
  <1>1. <<>> \in Seq(Bytes) /\ <<"t">> \in Seq(Bytes) /\ <<"=">> \in Seq(Bytes)
    BY DEF Bytes
  <1>2. /\ "White" \in Colors /\ "LightGray" \in Colors /\ "DarkGray" \in Colors
        /\ "LightRed" \in Colors
    BY DEF Colors
  <1>3. /\ Println(<<>>) \in Ops /\ Fmt(<<"t">>) \in Ops /\ Println(<<"t">>) \in Ops
        /\ Fmt(<<"=">>) \in Ops /\ SetColor("White") \in Ops
    BY Zenon, <1>1, <1>2, OpsTyped
  <1>4. Submitted \in Seq(Ops)
    <2>1. <<Println(<<"t">>)>> \in Seq(Ops) /\ <<Println(<<>>)>> \in Seq(Ops)
      BY <1>3
    <2>2. with_color("LightGray", <<Println(<<"t">>)>>) \in Seq(Ops)
      BY Zenon, <1>2, <2>1, OpsTyped
    <2> QED
      BY <2>1, <2>2, ConcatProperties DEF Submitted
  <1>5. panic_report \in Seq(Ops)
    <2> DEFINE a == <<SetColor("White")>>
               b == <<Println(<<>>), Fmt(<<"=">>), Println(<<>>), Println(<<>>)>>
               c == <<Fmt(<<"t">>)>>
               d == <<Println(<<"t">>), Println(<<>>)>>
               e == <<Println(<<"t">>)>>
    <2>1. a \in Seq(Ops) /\ b \in Seq(Ops) /\ c \in Seq(Ops) /\ d \in Seq(Ops) /\ e \in Seq(Ops)
      BY <1>3
    <2>2. panic_report = a \o with_color("DarkGray", b) \o with_color("LightRed", c) \o c
                           \o with_color("LightGray", c) \o d \o with_color("LightGray", e)
      BY DEF panic_report
    <2> HIDE DEF a, b, c, d, e
    <2>3. /\ with_color("DarkGray", b) \in Seq(Ops) /\ with_color("LightRed", c) \in Seq(Ops)
          /\ with_color("LightGray", c) \in Seq(Ops) /\ with_color("LightGray", e) \in Seq(Ops)
      BY <1>2, <2>1, OpsTyped
    <2> QED
      BY <2>1, <2>2, <2>3, ConcatProperties
  <1> QED
    BY <1>4, <1>5

(* Erasing is a list of operations that ends with the cursor at the column *)
(* it starts from.                                                         *)
LEMMA EraseOps ==
  ASSUME NEW col \in Nat, col < BUFFER_WIDTH
  PROVE  /\ EraseFrom(col) \in Seq(Ops) /\ EraseFrom(col) # <<>>
         /\ EraseFrom(col)[Len(EraseFrom(col))] = SetCursor(col)
  <1> DEFINE a == <<SetColumn(col)>>
             b == [i \in 1..BUFFER_WIDTH - col |-> Fmt(<<" ">>)]
             c == <<SetColumn(col), SetCursor(col)>>
  <1>1. SetColumn(col) \in Ops /\ SetCursor(col) \in Ops
    BY OpsTyped
  <1>2. Fmt(<<" ">>) \in Ops
    <2>1. <<" ">> \in Seq(Bytes)
      BY DEF Bytes
    <2> QED
      BY Zenon, <2>1, OpsTyped
  <1>3. a \in Seq(Ops) /\ c \in Seq(Ops) /\ c # <<>> /\ c[Len(c)] = SetCursor(col)
    BY <1>1
  <1>4. b \in Seq(Ops)
    <2>1. BUFFER_WIDTH - col \in Nat
      BY Sizes
    <2>2. b \in [1..BUFFER_WIDTH - col -> Ops]
      BY Zenon, <1>2
    <2> HIDE DEF b
    <2> QED
      BY <2>1, <2>2, SeqDef
  <1>5. EraseFrom(col) = (a \o b) \o c
    BY DEF EraseFrom
  <1> HIDE DEF a, b, c
  <1>6. a \o b \in Seq(Ops)
    BY <1>3, <1>4, ConcatProperties
  <1> QED
    BY <1>3, <1>5, <1>6, LastOfConcat

(* Every key keeps the invariant.                                          *)
LEMMA KeyIInv == IInv /\ KeyPress => IInv'
  <1> SUFFICES ASSUME IInv, KeyPress PROVE IInv'
    OBVIOUS
  <1>1. /\ input_buffer \in Seq(Keys) /\ Len(input_buffer) \in Nat
        /\ Len(input_buffer) =< INPUT_BUFFER_LEN
        /\ cursor_position = Len(input_buffer) /\ history \in 0..HistoryCap
    BY DEF IInv, TypeOK, Tracked
  <1>2. ASSUME NEW k \in Keys, KeyChar(k) PROVE IInv'
    <2> DEFINE ops == <<Fmt(<<k>>), SetCursor(Column + 1)>>
               col == Len(Prompt) + cursor_position'
    <2>1. /\ Thread /\ shell = "run" /\ Do(ops)
          /\ Len(input_buffer) < INPUT_BUFFER_LEN
          /\ input_buffer' = Append(input_buffer, k)
          /\ cursor_position' = cursor_position + 1
          /\ UNCHANGED <<screen, lock, interrupts, handler, stage, saved, noise>>
          /\ UNCHANGED <<shell, history>>
      BY <1>2 DEF KeyChar, Awaiting
    <2>2. /\ input_buffer' \in Seq(Keys) /\ Len(input_buffer') = Len(input_buffer) + 1
      BY <1>1, <2>1, AppendProperties
    <2>3. Column + 1 = col /\ Column + 1 \in Nat
      BY <1>1, <2>1, Sizes DEF Column
    <2>4. Fmt(<<k>>) \in Ops /\ SetCursor(Column + 1) \in Ops
      <3>1. k \in Bytes
        BY Zenon DEF Bytes
      <3>2. <<k>> \in Seq(Bytes)
        BY <3>1
      <3> QED
        BY Zenon, <3>2, <2>3, OpsTyped
    <2>5. ops \in Seq(Ops) /\ ops # <<>> /\ ops[Len(ops)] = SetCursor(col)
      BY <2>3, <2>4
    <2> HIDE DEF ops
    <2>6. /\ Len(input_buffer') =< INPUT_BUFFER_LEN
          /\ cursor_position' = Len(input_buffer') /\ history' \in 0..HistoryCap
      BY <1>1, <2>1, <2>2, Sizes
    <2>7. shell' \in {"run", "exited", "panic"}
      BY <2>1
    <2> QED
      BY Zenon, <2>1, <2>2, <2>5, <2>6, <2>7, DoIInv
  <1>3. CASE Backspace
    <2> DEFINE col == Len(Prompt) + cursor_position'
    <2>1. /\ Thread /\ shell = "run" /\ Do(EraseFrom(col))
          /\ input_buffer' = IF input_buffer = <<>> THEN <<>>
                             ELSE SubSeq(input_buffer, 1, Len(input_buffer) - 1)
          /\ cursor_position' = IF cursor_position = 0 THEN 0 ELSE cursor_position - 1
          /\ UNCHANGED <<screen, lock, interrupts, handler, stage, saved, noise>>
          /\ UNCHANGED <<shell, history>>
      BY <1>3 DEF Backspace, Awaiting
    <2>2. /\ input_buffer' \in Seq(Keys) /\ cursor_position' = Len(input_buffer')
          /\ cursor_position' \in Nat /\ cursor_position' =< INPUT_BUFFER_LEN
      <3>1. CASE input_buffer = <<>>
        BY <3>1, <1>1, <2>1, Sizes
      <3>2. CASE input_buffer # <<>>
        <4>1. Len(input_buffer) > 0
          BY <3>2, <1>1, EmptySeq
        <4>2. \A i \in 1..Len(input_buffer) - 1 : input_buffer[i] \in Keys
          BY <1>1
        <4>3. /\ SubSeq(input_buffer, 1, Len(input_buffer) - 1) \in Seq(Keys)
              /\ Len(SubSeq(input_buffer, 1, Len(input_buffer) - 1)) = Len(input_buffer) - 1
          BY <1>1, <4>1, <4>2, SubSeqProperties
        <4> QED
          BY <3>2, <4>1, <4>3, <1>1, <2>1, Sizes
      <3> QED
        BY <3>1, <3>2
    <2>3. col \in Nat /\ col < BUFFER_WIDTH
      BY <2>2, Sizes
    <2>4. /\ EraseFrom(col) \in Seq(Ops) /\ EraseFrom(col) # <<>>
          /\ EraseFrom(col)[Len(EraseFrom(col))] = SetCursor(col)
      BY <2>3, EraseOps
    <2> QED
      BY <1>1, <2>1, <2>2, <2>4, DoIInv
  <1>4. CASE CtrlBackspace
    <2>1. /\ Thread /\ shell = "run" /\ Do(EraseFrom(Len(Prompt)))
          /\ input_buffer' = <<>> /\ cursor_position' = 0
          /\ UNCHANGED <<screen, lock, interrupts, handler, stage, saved, noise>>
          /\ UNCHANGED <<shell, history>>
      BY <1>4 DEF CtrlBackspace, Awaiting
    <2>2. /\ input_buffer' \in Seq(Keys) /\ Len(input_buffer') = 0
          /\ Len(Prompt) + cursor_position' = Len(Prompt)
      BY <2>1, Sizes
    <2>3. /\ EraseFrom(Len(Prompt)) \in Seq(Ops) /\ EraseFrom(Len(Prompt)) # <<>>
          /\ EraseFrom(Len(Prompt))[Len(EraseFrom(Len(Prompt)))] = SetCursor(Len(Prompt))
      BY EraseOps, Sizes
    <2> QED
      BY <1>1, <2>1, <2>2, <2>3, DoIInv, Sizes
  <1>5. ASSUME NEW o \in Outputs, KeyEnter(o) PROVE IInv'
    <2> DEFINE ops == Submitted \o o \o print_prompt
    <2>1. /\ Thread /\ shell = "run" /\ Do(ops)
          /\ input_buffer' = <<>> /\ cursor_position' = 0
          /\ history' = (IF history = HistoryCap THEN history - 1 ELSE history) + 1
          /\ UNCHANGED <<screen, lock, interrupts, handler, stage, saved, noise>>
          /\ UNCHANGED shell
      BY <1>5 DEF KeyEnter, Awaiting
    <2>2. /\ input_buffer' \in Seq(Keys) /\ Len(input_buffer') = 0
          /\ Len(Prompt) + cursor_position' = Len(Prompt)
      BY <2>1, Sizes
    <2>3. history' \in 0..HistoryCap
      BY <1>1, <2>1, Sizes
    <2>4. Submitted \in Seq(Ops) /\ o \in Seq(Ops)
      BY <1>1, ReportOps, Sizes
    <2>5. Submitted \o o \in Seq(Ops)
      BY <2>4, ConcatProperties
    <2>6. ops \in Seq(Ops) /\ ops # <<>> /\ ops[Len(ops)] = SetCursor(Len(Prompt))
      BY <2>5, PromptOps, LastOfConcat
    <2> HIDE DEF ops
    <2> QED
      BY <2>1, <2>2, <2>3, <2>6, DoIInv, Sizes
  <1>6. ASSUME NEW o \in Outputs, KeyEnterPanic(o) PROVE IInv'
    <2> DEFINE ops == Submitted \o o \o panic_report
    <2>1. /\ Thread /\ Do(ops) /\ shell' = "panic"
          /\ UNCHANGED <<screen, lock, interrupts, handler, stage, saved, noise>>
          /\ UNCHANGED <<input_buffer, cursor_position, history>>
      BY <1>6 DEF KeyEnterPanic
    <2>2. Submitted \in Seq(Ops) /\ o \in Seq(Ops) /\ panic_report \in Seq(Ops)
      BY <1>1, ReportOps, Sizes
    <2>3. ops \in Seq(Ops)
      BY <2>2, ConcatProperties
    <2> HIDE DEF ops
    <2> QED
      BY <1>1, <2>1, <2>3, DoIInv
  <1>7. CASE KeyEnterExit
    <2>1. /\ Thread /\ Do(Submitted) /\ shell' = "exited"
          /\ UNCHANGED <<screen, lock, interrupts, handler, stage, saved, noise>>
          /\ UNCHANGED <<input_buffer, cursor_position, history>>
      BY <1>7 DEF KeyEnterExit
    <2>2. Submitted \in Seq(Ops)
      BY <1>1, ReportOps
    <2> QED
      BY <1>1, <2>1, <2>2, DoIInv
  <1> QED
    BY <1>2, <1>3, <1>4, <1>5, <1>6, <1>7 DEF KeyPress

(* An interrupt finds everyone outside of the critical sections.           *)
LEMMA InterruptIInv ==
  ASSUME IInv, NEW op \in Ops, op.kind = "print", Interrupt(op)
  PROVE  IInv'
  <1>2. /\ interrupts /\ work' = [work EXCEPT !["irq"] = <<op>>]
        /\ UNCHANGED <<column_position, color_code, row, cursor, outer, lock, stage,
                       saved, shell, input_buffer, cursor_position, history, noise>>
    BY DEF Interrupt, screen, editor
  <1>3. handler' = TRUE /\ interrupts' = FALSE
    BY Zenon DEF Interrupt
  <1>4. /\ work'["irq"] = <<op>> /\ work'["main"] = work["main"]
        /\ work' \in [Users -> Seq(Ops)]
    BY <1>2 DEF IInv, TypeOK, Users
  <1>5. stage["main"] = "out" /\ stage["irq"] = "out" /\ ~lock
    BY <1>2 DEF IInv, Sections, Users
  <1>6. TypeOK'
    <2>1. handler' \in BOOLEAN /\ interrupts' \in BOOLEAN
      BY <1>3, Zenon
    <2> QED
      BY <1>2, <1>4, <2>1 DEF IInv, TypeOK
  <1>7. Sections'
    BY <1>2, <1>3, <1>4, <1>5 DEF IInv, Sections, Users
  <1>8. Tracked'
    <2>1. \A i \in DOMAIN work'["irq"] : work'["irq"][i].kind = "print"
      BY <1>4
    <2> QED
      BY <1>2, <1>4, <2>1 DEF IInv, Tracked, Column
  <1> QED
    BY <1>6, <1>7, <1>8 DEF IInv

(* The handler returns to the thread, which is outside of every section.   *)
LEMMA IretIInv == IInv /\ Iret => IInv'
  <1> SUFFICES ASSUME IInv, Iret PROVE IInv'
    OBVIOUS
  <1>1. /\ handler /\ work["irq"] = <<>>
        /\ UNCHANGED <<column_position, color_code, row, cursor, outer, lock, work,
                       stage, saved, shell, input_buffer, cursor_position, history,
                       noise>>
    BY DEF Iret, screen, editor
  <1>2. handler' = FALSE /\ interrupts' = TRUE
    BY Zenon DEF Iret
  <1>3. stage["main"] = "out" /\ stage["irq"] = "out" /\ ~lock
    BY <1>1 DEF IInv, Sections, Users
  <1>4. TypeOK'
    <2>1. handler' \in BOOLEAN /\ interrupts' \in BOOLEAN
      BY <1>2, Zenon
    <2> QED
      BY <1>1, <2>1 DEF IInv, TypeOK
  <1>5. Sections'
    BY <1>1, <1>2, <1>3 DEF IInv, Sections, Users
  <1>6. Tracked'
    BY <1>1 DEF IInv, Tracked, Column
  <1> QED
    BY <1>4, <1>5, <1>6 DEF IInv

(* The inductive invariant holds in every reachable state.                 *)
LEMMA Invariance == Spec => []IInv
  <1>1. IInv /\ [Next]_vars => IInv'
    <2> SUFFICES ASSUME IInv, [Next]_vars PROVE IInv'
      OBVIOUS
    <2>1. ASSUME NEW u \in Users, Operate(u) PROVE IInv'
      BY <2>1, EnterIInv, LockIInv, PrintByteIInv, ActIInv, UnlockIInv, LeaveIInv
      DEF Operate
    <2>2. CASE EnableAtBoot \/ PanicHalt
      <3>1. interrupts' \in BOOLEAN
        BY <2>2, Zenon DEF EnableAtBoot, PanicHalt
      <3>2. /\ Thread /\ shell' \in {"start", "halted"}
            /\ shell' = "start" => shell = "boot"
            /\ UNCHANGED <<screen, lock, handler, work, stage, saved, input_buffer,
                           cursor_position, history, noise>>
        BY <2>2 DEF EnableAtBoot, PanicHalt
      <3> QED
        BY <3>1, <3>2, FlagIInv
    <2>3. CASE StartShell
      <3>1. /\ Thread /\ Do(print_prompt) /\ shell = "start" /\ shell' = "run"
            /\ UNCHANGED <<screen, lock, interrupts, handler, stage, saved, noise>>
            /\ UNCHANGED <<input_buffer, cursor_position, history>>
        BY <2>3 DEF StartShell
      <3>2. cursor_position' = 0
        BY <3>1 DEF IInv, Tracked
      <3>3. /\ input_buffer' \in Seq(Keys) /\ Len(input_buffer') =< INPUT_BUFFER_LEN
            /\ cursor_position' = Len(input_buffer') /\ history' \in 0..HistoryCap
        BY <3>1 DEF IInv, TypeOK, Tracked
      <3> QED
        BY <3>1, <3>2, <3>3, PromptOps, DoIInv, Sizes
    <2>4. CASE KeyPress
      BY <2>4, KeyIInv
    <2>5. CASE TimerInterrupt \/ DroppedKey
      <3>1. <<".">> \in Seq(Bytes) /\ <<"t">> \in Seq(Bytes)
        BY DEF Bytes
      <3>2. Fmt(<<".">>) \in Ops /\ Println(<<"t">>) \in Ops
        BY Zenon, <3>1, OpsTyped
      <3>3. Fmt(<<".">>).kind = "print" /\ Println(<<"t">>).kind = "print"
        BY DEF Println, Fmt, Op
      <3> QED
        BY <2>5, <3>2, <3>3, InterruptIInv DEF TimerInterrupt, DroppedKey
    <2>6. CASE Iret
      BY <2>6, IretIInv
    <2>7. CASE Hlt \/ UNCHANGED vars
      <3>1. UNCHANGED <<column_position, color_code, row, cursor, outer, lock, interrupts,
                        handler, work, stage, saved, shell, input_buffer,
                        cursor_position, history, noise>>
        BY <2>7 DEF Hlt, vars, screen, editor
      <3>2. TypeOK'
        BY <3>1 DEF IInv, TypeOK
      <3>3. Sections'
        BY <3>1 DEF IInv, Sections, Locks, Current
      <3>4. Tracked'
        BY <3>1 DEF IInv, Tracked, Column
      <3> QED
        BY <3>2, <3>3, <3>4 DEF IInv
    <2> QED
      BY <2>1, <2>2, <2>3, <2>4, <2>5, <2>6, <2>7 DEF Next, Main, Handler, Users
  <1> QED
    BY InitIInv, <1>1, PTL DEF Spec

(* Type correctness: whatever is printed, write_byte's access to the row   *)
(* is in bounds, the editor's line fits its buffer and the history never   *)
(* overflows.                                                              *)
THEOREM TypeCorrect == Spec => []TypeOK
  <1>1. IInv => TypeOK
    BY DEF IInv
  <1> QED
    BY <1>1, Invariance, PTL

(* WRITER is free whenever it is about to be locked, so that printing from *)
(* an interrupt handler cannot deadlock the kernel.                        *)
THEOREM WriterNeverSpins == Spec => []NeverSpins
  <1>1. IInv => NeverSpins
    BY DEF IInv, TypeOK, Sections, NeverSpins, At, Running, Users
  <1> QED
    BY <1>1, Invariance, PTL

(* No console function called in a handler enables interrupts there.       *)
THEOREM NoNesting == Spec => []HandlersDoNotNest
  <1>1. IInv => HandlersDoNotNest
    BY DEF IInv, Sections, HandlersDoNotNest
  <1> QED
    BY <1>1, Invariance, PTL

(* Whenever the shell awaits a key the cursor is right after the line and  *)
(* on the screen, for every width, prompt and sequence of keys.            *)
THEOREM CursorIsAfterLine == Spec => []CursorAfterLine
  <1>1. IInv => CursorAfterLine
    <2> SUFFICES ASSUME IInv, Awaiting
                 PROVE  /\ cursor = Len(Prompt) + Len(input_buffer)
                        /\ cursor < BUFFER_WIDTH
      BY DEF CursorAfterLine
    <2>1. cursor = Len(Prompt) + Len(input_buffer)
      BY DEF IInv, Tracked, Awaiting, Column
    <2>2. Len(input_buffer) \in Nat /\ Len(input_buffer) =< INPUT_BUFFER_LEN
      BY DEF IInv, TypeOK
    <2> QED
      BY <2>1, <2>2, Sizes
  <1> QED
    BY <1>1, Invariance, PTL

=============================================================================
