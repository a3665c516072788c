------------------------------- MODULE Console -------------------------------
(***************************************************************************)
(* The VGA text console and its users: the shell's line editor, the        *)
(* commands' output and the panic handler on the kernel thread, and the    *)
(* interrupt handlers: the timer's prints a dot each time, the keyboard's  *)
(* a warning when it must drop a key.                                      *)
(*                                                                         *)
(* Each console function is a critical section: without_interrupts saves   *)
(* and clears the interrupt flag, WRITER (a spin lock) is taken, the       *)
(* operation is done, the lock is released and the flag restored.  A user  *)
(* of the console is a list of such operations; one step is one stage of   *)
(* one operation, and a print writes one byte per step.                    *)
(*                                                                         *)
(* Only the last row is written to; new_line moves it out of the model.    *)
(* The wording of what is printed is abstracted to short byte sequences.   *)
(***************************************************************************)
EXTENDS Naturals, Sequences

CONSTANTS
  BUFFER_WIDTH,  \* 80 in the kernel
  Prompt,        \* the prompt's bytes ("root@riptide> ")
  HistoryCap,    \* capacity of the history (16 in the kernel)
  Keys,          \* the characters that are neither Enter nor Backspace
  Outputs,       \* what commands print: sequences of console operations
  MaxNoise       \* bound: what handlers print between two newlines of the thread

MutantLen == BUFFER_WIDTH - Len(Prompt)

\* The length of the longest line the editor accepts.
INPUT_BUFFER_LEN == BUFFER_WIDTH - Len(Prompt) - 1

Newline == "nl"
Colors == {"White", "LightGray", "DarkGray", "LightRed", "LightBlue",
           "LightCyan", "Yellow"}

Kinds == {"print", "color", "column", "cursor", "swap_in", "swap_out"}

\* What is printed; "t" stands for the text of messages.
Bytes == Keys \cup {Newline, " ", ">", ".", "=", "t", "box"}
Ops == [kind : Kinds, bytes : Seq(Bytes), color : Colors, to : Nat]

ASSUME SizeAssumption ==
  /\ BUFFER_WIDTH \in Nat /\ HistoryCap \in Nat \ {0} /\ MaxNoise \in Nat
  /\ Prompt \in Seq(Bytes) /\ Len(Prompt) + 1 < BUFFER_WIDTH

ASSUME TextAssumption ==
  /\ Newline \notin Keys
  /\ Outputs \subseteq Seq(Ops)

VARIABLES
  column_position,  \* Writer::column_position
  color_code,       \* Writer::color_code
  row,              \* the last row of Writer::buffer
  lock,             \* WRITER is locked
  interrupts,       \* the CPU's interrupt flag
  handler,          \* an interrupt handler is running
  work,             \* the console operations each user still has to do
  stage,            \* how far each user is in the first of them
  saved,            \* the flag each user's without_interrupts saved
  outer,            \* with_color's locals: the colours to go back to
  cursor,           \* the column of the hardware cursor
  shell,            \* what the kernel thread is doing
  input_buffer,     \* the line being edited
  cursor_position,  \* the editor's idea of its length
  history,          \* the number of lines in the history
  noise             \* bytes handlers printed since the thread's last newline

screen == <<column_position, color_code, row, cursor, outer>>
editor == <<shell, input_buffer, cursor_position, history>>
vars == <<screen, lock, interrupts, handler, work, stage, saved, editor, noise>>

Users == {"main", "irq"}
Stages == {"out", "lock", "body", "unlock", "leave"}
Columns == 0..BUFFER_WIDTH - 1
Blank == [x \in Columns |-> " "]

-----------------------------------------------------------------------------
(* The operations.                                                         *)

Op(kind, bytes, color, to) ==
  [kind |-> kind, bytes |-> bytes, color |-> color, to |-> to]
Fmt(bytes) == Op("print", bytes, "White", 0)
Println(bytes) == Fmt(Append(bytes, Newline))
SetColor(color) == Op("color", <<>>, color, 0)
SetColumn(to) == Op("column", <<>>, "White", to)
SetCursor(to) == Op("cursor", <<>>, "White", to)

MutantWithColor(color, ops) == <<Op("swap_in", <<>>, color, 0)>> \o ops

\* with_color: swap the colour in, call the function, swap it out again.
with_color(color, ops) ==
  <<Op("swap_in", <<>>, color, 0)>> \o ops \o <<Op("swap_out", <<>>, "White", 0)>>

\* The cursor is a matter of I/O ports: WRITER is not locked for it.
Locks(op) == op.kind # "cursor"

\* enable_cursor and disable_cursor touch the cursor's shape only: not modelled.
print_prompt == <<Fmt(Prompt), SetCursor(Len(Prompt))>>

Init ==
  /\ column_position = 0 /\ color_code = "White" /\ outer = <<>>
  /\ \E c \in {" ", "t"} : row = [x \in Columns |-> c]
  /\ cursor = 0
  /\ lock = FALSE /\ interrupts = FALSE /\ handler = FALSE
  /\ work = [u \in Users |-> IF u = "main" THEN <<Println(<<"t">>)>> ELSE <<>>]
  /\ stage = [u \in Users |-> "out"]
  /\ saved = [u \in Users |-> FALSE]
  /\ shell = "boot" /\ input_buffer = <<>> /\ cursor_position = 0 /\ history = 0
  /\ noise = 0

-----------------------------------------------------------------------------
(* A console function, stage by stage.                                     *)

Running(u) == IF u = "irq" THEN handler ELSE ~handler
Current(u) == Head(work[u])
At(u, s) == Running(u) /\ work[u] # <<>> /\ stage[u] = s
Goto(u, s) == stage' = [stage EXCEPT ![u] = s]

MutantEnter(u) ==
  /\ At(u, "out")
  /\ saved' = [saved EXCEPT ![u] = interrupts]
  /\ Goto(u, "lock")
  /\ UNCHANGED <<interrupts, screen, lock, handler, work, editor, noise>>

\* without_interrupts begins.
Enter(u) ==
  /\ At(u, "out")
  /\ saved' = [saved EXCEPT ![u] = interrupts]
  /\ interrupts' = FALSE
  /\ Goto(u, "lock")
  /\ UNCHANGED <<screen, lock, handler, work, editor, noise>>

\* WRITER.lock() spins until the lock is free.
Lock(u) ==
  /\ At(u, "lock")
  /\ Locks(Current(u)) => ~lock
  /\ lock' = IF Locks(Current(u)) THEN TRUE ELSE lock
  /\ Goto(u, "body")
  /\ UNCHANGED <<screen, interrupts, handler, work, saved, editor, noise>>

MutantWriteByte(b) ==
  IF b = Newline
  THEN row' = Blank /\ column_position' = 0
  ELSE /\ row' = [x \in Columns |->
                    IF x = column_position THEN b
                    ELSE IF column_position > BUFFER_WIDTH THEN " " ELSE row[x]]
       /\ column_position' = 1 + IF column_position > BUFFER_WIDTH THEN 0
                                 ELSE column_position

\* Writer::write_byte.  A byte that does not fit on the row starts a new one.
WriteByte(b) ==
  IF b = Newline
  THEN row' = Blank /\ column_position' = 0
  ELSE LET full == column_position >= BUFFER_WIDTH
           col == IF full THEN 0 ELSE column_position
       IN /\ row' = [(IF full THEN Blank ELSE row) EXCEPT ![col] = b]
          /\ column_position' = col + 1

\* Writer::write_string shows control characters as a box.
Unprintable == {"tab", "esc", "del"}
Glyph(b) == IF b \in Unprintable THEN "box" ELSE b

MutantPrintByte(u) ==
  /\ At(u, "body") /\ Current(u).kind = "print" /\ Current(u).bytes # <<>>
  /\ IF column_position < BUFFER_WIDTH \/ Head(Current(u).bytes) = Newline
     THEN /\ WriteByte(Head(Current(u).bytes))
          /\ work' = [work EXCEPT ![u] = <<Fmt(Tail(Current(u).bytes))>> \o Tail(@)]
     ELSE row' = Blank /\ UNCHANGED <<column_position, work>>
  /\ UNCHANGED <<color_code, cursor, outer, lock, interrupts, handler, stage,
                 saved, editor, noise>>

\* The next byte of a print.
PrintByte(u) ==
  /\ At(u, "body") /\ Current(u).kind = "print" /\ Current(u).bytes # <<>>
  /\ LET b == Head(Current(u).bytes)
     IN /\ WriteByte(Glyph(b))
        /\ noise' = IF u = "irq" THEN noise + 1
                   ELSE IF b = Newline THEN 0 ELSE noise
  /\ work' = [work EXCEPT ![u] = <<Fmt(Tail(Current(u).bytes))>> \o Tail(@)]
  /\ UNCHANGED <<color_code, cursor, outer, lock, interrupts, handler, stage,
                 saved, editor>>

Min2(a, b) == IF a < b THEN a ELSE b

\* The other operations; a print is over when its bytes are written.
Act(u) ==
  /\ At(u, "body") /\ Current(u).bytes = <<>>
  /\ Goto(u, "unlock")
  /\ LET op == Current(u)
     IN \/ op.kind = "print" /\ UNCHANGED screen
        \/ /\ op.kind = "color" /\ color_code' = op.color
           /\ UNCHANGED <<column_position, row, cursor, outer>>
        \/ /\ op.kind = "column" /\ column_position' = Min2(op.to, BUFFER_WIDTH)
           /\ UNCHANGED <<color_code, row, cursor, outer>>
        \/ /\ op.kind = "cursor" /\ cursor' = op.to
           /\ UNCHANGED <<color_code, column_position, row, outer>>
        \/ /\ op.kind = "swap_in"
           /\ color_code' = op.color /\ outer' = Append(outer, color_code)
           /\ UNCHANGED <<column_position, row, cursor>>
        \/ /\ op.kind = "swap_out" /\ outer # <<>>
           /\ color_code' = outer[Len(outer)]
           /\ outer' = SubSeq(outer, 1, Len(outer) - 1)
           /\ UNCHANGED <<column_position, row, cursor>>
  /\ UNCHANGED <<lock, interrupts, handler, work, saved, editor, noise>>

\* The lock's guard is dropped.
Unlock(u) ==
  /\ At(u, "unlock")
  /\ lock' = IF Locks(Current(u)) THEN FALSE ELSE lock
  /\ Goto(u, "leave")
  /\ UNCHANGED <<screen, interrupts, handler, work, saved, editor, noise>>

\* without_interrupts ends: interrupts are enabled again if they were before.
Leave(u) ==
  /\ At(u, "leave")
  /\ interrupts' = saved[u]
  /\ work' = [work EXCEPT ![u] = Tail(@)]
  /\ Goto(u, "out")
  /\ UNCHANGED <<screen, lock, handler, saved, editor, noise>>

Operate(u) == Enter(u) \/ Lock(u) \/ PrintByte(u) \/ Act(u) \/ Unlock(u) \/ Leave(u)

-----------------------------------------------------------------------------
(* The kernel thread.                                                      *)

Thread == ~handler /\ work["main"] = <<>>
Do(ops) == work' = [work EXCEPT !["main"] = ops]

\* kernel_main enables interrupts after its first line of output.
EnableAtBoot ==
  /\ Thread /\ shell = "boot"
  /\ interrupts' = TRUE /\ shell' = "start"
  /\ UNCHANGED <<screen, lock, handler, work, stage, saved, input_buffer,
                 cursor_position, history, noise>>

\* The shell's task is polled for the first time.
StartShell ==
  /\ Thread /\ shell = "start"
  /\ shell' = "run" /\ Do(print_prompt)
  /\ UNCHANGED <<screen, lock, interrupts, handler, stage, saved, input_buffer,
                 cursor_position, history, noise>>

\* The shell awaits a key.
Awaiting == shell = "run" /\ work["main"] = <<>>

Column == Len(Prompt) + cursor_position

\* A normal character.  On a full line the key is ignored.
KeyChar(c) ==
  /\ Thread /\ Awaiting
  /\ Len(input_buffer) < INPUT_BUFFER_LEN
  /\ input_buffer' = Append(input_buffer, c)
  /\ cursor_position' = cursor_position + 1
  /\ Do(<<Fmt(<<c>>), SetCursor(Column + 1)>>)
  /\ UNCHANGED <<screen, lock, interrupts, handler, stage, saved, shell, history,
                 noise>>

\* Blank the row from the column to its end, one print for each cell.
EraseFrom(col) ==
  <<SetColumn(col)>> \o [i \in 1..BUFFER_WIDTH - col |-> Fmt(<<" ">>)]
    \o <<SetColumn(col), SetCursor(col)>>

MutantBackspace ==
  /\ Thread /\ Awaiting
  /\ input_buffer' = SubSeq(input_buffer, 1, Len(input_buffer) - 1)
  /\ cursor_position' = IF cursor_position = 0 THEN 0 ELSE cursor_position - 1
  /\ Do(EraseFrom(Column))
  /\ UNCHANGED <<screen, lock, interrupts, handler, stage, saved, shell, history,
                 noise>>

\* Backspace: String::pop and saturating_sub do nothing on an empty line.
Backspace ==
  /\ Thread /\ Awaiting
  /\ input_buffer' = IF input_buffer = <<>> THEN <<>>
                     ELSE SubSeq(input_buffer, 1, Len(input_buffer) - 1)
  /\ cursor_position' = IF cursor_position = 0 THEN 0 ELSE cursor_position - 1
  /\ Do(EraseFrom(Len(Prompt) + cursor_position'))
  /\ UNCHANGED <<screen, lock, interrupts, handler, stage, saved, shell, history,
                 noise>>

CtrlBackspace ==
  /\ Thread /\ Awaiting
  /\ input_buffer' = <<>> /\ cursor_position' = 0
  /\ Do(EraseFrom(Len(Prompt)))
  /\ UNCHANGED <<screen, lock, interrupts, handler, stage, saved, shell, history,
                 noise>>

\* What Enter prints before the command runs: the end of the line, the input and
\* the arguments.
Submitted ==
  <<Println(<<>>)>> \o with_color("LightGray", <<Println(<<"t">>)>>)
                    \o with_color("LightGray", <<Println(<<"t">>)>>)

\* The command runs, and the line moves into the history: if that is full, the
\* oldest line is dropped for it.
KeyEnter(o) ==
  /\ Thread /\ Awaiting
  /\ Do(Submitted \o o \o print_prompt)
  /\ input_buffer' = <<>> /\ cursor_position' = 0
  /\ history' = (IF history = HistoryCap THEN history - 1 ELSE history) + 1
  /\ UNCHANGED <<screen, lock, interrupts, handler, stage, saved, shell, noise>>

\* The command is exit: the shell's task ends.
KeyEnterExit ==
  /\ Thread /\ Awaiting
  /\ Do(Submitted)
  /\ shell' = "exited"
  /\ UNCHANGED <<screen, lock, interrupts, handler, stage, saved, input_buffer,
                 cursor_position, history, noise>>

\* The panic handler's report.  Its separator of 60 prints is one print here.
panic_report ==
  <<SetColor("White")>>
  \o with_color("DarkGray", <<Println(<<>>), Fmt(<<"=">>), Println(<<>>), Println(<<>>)>>)
  \o with_color("LightRed", <<Fmt(<<"t">>)>>) \o <<Fmt(<<"t">>)>>
  \o with_color("LightGray", <<Fmt(<<"t">>)>>) \o <<Println(<<"t">>), Println(<<>>)>>
  \o with_color("LightGray", <<Println(<<"t">>)>>)

\* The command panics, after some output.
KeyEnterPanic(o) ==
  /\ Thread /\ Awaiting
  /\ Do(Submitted \o o \o panic_report)
  /\ shell' = "panic"
  /\ UNCHANGED <<screen, lock, interrupts, handler, stage, saved, input_buffer,
                 cursor_position, history, noise>>

\* The panic handler disables interrupts and halts.
PanicHalt ==
  /\ Thread /\ shell = "panic"
  /\ interrupts' = FALSE /\ shell' = "halted"
  /\ UNCHANGED <<screen, lock, handler, work, stage, saved, input_buffer,
                 cursor_position, history, noise>>

-----------------------------------------------------------------------------
(* Interrupt handlers.                                                     *)

Interrupt(op) ==
  /\ interrupts /\ noise < MaxNoise
  /\ handler' = TRUE /\ interrupts' = FALSE
  /\ work' = [work EXCEPT !["irq"] = <<op>>]
  /\ UNCHANGED <<screen, lock, stage, saved, editor, noise>>

TimerInterrupt == Interrupt(Fmt(<<".">>))

\* The scancode queue is full or not there yet: the keyboard's handler drops the
\* key with a warning.  (Without one it prints nothing.)
DroppedKey == Interrupt(Println(<<"t">>))

\* The interrupt is acknowledged, and iret restores the flag.
Iret ==
  /\ handler /\ work["irq"] = <<>>
  /\ handler' = FALSE /\ interrupts' = TRUE
  /\ UNCHANGED <<screen, lock, work, stage, saved, editor, noise>>

-----------------------------------------------------------------------------

\* Steps that need no key.
Main == Operate("main") \/ EnableAtBoot \/ StartShell \/ PanicHalt
Handler == Operate("irq") \/ Iret

KeyPress ==
  \/ \E c \in Keys : KeyChar(c)
  \/ Backspace \/ CtrlBackspace
  \/ \E o \in Outputs : KeyEnter(o) \/ KeyEnterPanic(o)
  \/ KeyEnterExit

\* The CPU sleeps: in the panic handler or, with no task left, in the executor.
Hlt == shell \in {"halted", "exited"} /\ work["main"] = <<>> /\ UNCHANGED vars

Next == Main \/ Handler \/ KeyPress \/ TimerInterrupt \/ DroppedKey \/ Hlt

\* The CPU runs on; interrupts are further apart than a handler is long, so the
\* kernel thread gets on between them.
Spec == Init /\ [][Next]_vars /\ SF_vars(Main) /\ WF_vars(Handler)

-----------------------------------------------------------------------------
(* Properties.                                                             *)

(* Every variable has its type; write_byte's column is on the row or just  *)
(* past it, so that its array access is in bounds.                         *)
TypeOK ==
  /\ column_position \in 0..BUFFER_WIDTH
  /\ color_code \in Colors /\ outer \in Seq(Colors)
  /\ row \in [Columns -> Bytes] /\ cursor \in Nat
  /\ lock \in BOOLEAN /\ interrupts \in BOOLEAN /\ handler \in BOOLEAN
  /\ work \in [Users -> Seq(Ops)]
  /\ stage \in [Users -> Stages] /\ saved \in [Users -> BOOLEAN]
  /\ shell \in {"boot", "start", "run", "exited", "panic", "halted"}
  /\ input_buffer \in Seq(Keys) /\ Len(input_buffer) =< INPUT_BUFFER_LEN
  /\ cursor_position \in Nat /\ history \in 0..HistoryCap
  /\ noise \in Nat

(* WRITER is free whenever someone is about to lock it: the spin lock      *)
(* never spins, in a handler in particular, where it would spin for ever.  *)
NeverSpins == \A u \in Users : At(u, "lock") => ~lock

(* Nothing a handler prints with enables interrupts before its iret        *)
(* (without_interrupts restores the flag, it does not set it).             *)
HandlersDoNotNest == handler => ~interrupts

(* Whenever the shell awaits a key the hardware cursor is right after the  *)
(* line being edited, and on the screen: it is never moved past the last   *)
(* cell, however long the line, whatever handlers print.                   *)
CursorAfterLine ==
  Awaiting => /\ cursor = Len(Prompt) + Len(input_buffer)
              /\ cursor < BUFFER_WIDTH

(* If no handler has printed, the row shows the prompt and the line and    *)
(* nothing else, and output goes on after it: echo, both ways of erasing   *)
(* (which print up to the last cell and must not scroll) and a command's   *)
(* wrapped output add up to this.                                          *)
RowShowsLine ==
  Awaiting /\ noise = 0 =>
    /\ column_position = Len(Prompt) + Len(input_buffer)
    /\ LET text == Prompt \o input_buffer
       IN \A x \in Columns :
            row[x] = IF x < Len(text) THEN Glyph(text[x + 1]) ELSE " "

(* Between commands, after exit and after a panic's report the colour is   *)
(* white again: every with_color is undone, as it is for the panic handler.*)
ColorRestored ==
  shell # "boot" /\ work["main"] = <<>> => color_code = "White" /\ outer = <<>>

(* What the kernel thread prints gets printed, whatever handlers do.       *)
OutputFinishes == work["main"] # <<>> ~> work["main"] = <<>>

=============================================================================
