------------------------------ MODULE EventLoop ------------------------------
(***************************************************************************)
(* What the input path promises, without its mechanism: a bounded buffer   *)
(* of keys, a shell that takes them, and a CPU that sleeps only when there *)
(* is nothing to take.  There is no run queue, no waker and no interrupt   *)
(* flag here; InputPath implements this specification with them.           *)
(***************************************************************************)
EXTENDS Naturals

CONSTANT Cap   \* keys the buffer holds

VARIABLES
  unread,      \* keys accepted and not yet taken
  shell,       \* "none" before it listens, "up", "gone" after exit
  cpu          \* "awake", "asleep", or "dead" after a panic

vars == <<unread, shell, cpu>>

Init == unread = 0 /\ shell = "none" /\ cpu = "awake"

\* The shell starts to listen.
Start == shell = "none" /\ cpu = "awake" /\ shell' = "up" /\ UNCHANGED <<unread, cpu>>

\* A key is accepted, and wakes the CPU.  It may be one key too many (a panic).
Key ==
  /\ shell # "none" /\ unread < Cap
  /\ unread' = unread + 1
  /\ cpu' \in IF cpu = "dead" THEN {"dead"} ELSE {"awake", "dead"}
  /\ UNCHANGED shell

\* Something else wakes the CPU: the timer, or a key that is dropped.
Disturb == cpu = "asleep" /\ cpu' = "awake" /\ UNCHANGED <<unread, shell>>

Take ==
  /\ shell = "up" /\ cpu = "awake" /\ unread > 0
  /\ unread' = unread - 1
  /\ UNCHANGED <<shell, cpu>>

\* Nothing to do: the shell is gone, or has taken every key.
Sleep ==
  /\ cpu = "awake"
  /\ shell = "gone" \/ (shell = "up" /\ unread = 0)
  /\ cpu' = "asleep"
  /\ UNCHANGED <<unread, shell>>

Exit == shell = "up" /\ cpu = "awake" /\ shell' = "gone" /\ UNCHANGED <<unread, cpu>>

Panic == shell = "up" /\ cpu = "awake" /\ cpu' = "dead" /\ UNCHANGED <<unread, shell>>

Next == Start \/ Key \/ Disturb \/ Take \/ Sleep \/ Exit \/ Panic

Safety == Init /\ [][Next]_vars

\* A key that can be taken is not left lying: keys go on being taken.
Spec == Safety /\ WF_vars(Take)

=============================================================================
