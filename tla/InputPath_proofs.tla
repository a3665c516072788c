--------------------------- MODULE InputPath_proofs ---------------------------
(***************************************************************************)
(* Proofs about InputPath, for every capacity of the two queues.  The      *)
(* inductive invariant is TypeOK /\ WakeProtocol.                          *)
(***************************************************************************)
EXTENDS InputPath, TLAPS

IInv == TypeOK /\ WakeProtocol

USE DEF Points, PollPoints, Panics, WakerStates, InPoll, stream, executor

(* What the proofs use of the capacities.                                  *)
LEMMA Caps == /\ ScancodeCap \in Nat /\ ScancodeCap > 0
              /\ TaskCap \in Nat /\ TaskCap > 0
  BY CapAssumption

(* The kernel as it is started satisfies the wake protocol.                *)
LEMMA InitIInv == Init => IInv
  <1> SUFFICES ASSUME Init PROVE TypeOK /\ WakeProtocol
    BY DEF IInv
  <1>1. TypeOK
    <2>1. pc \in Points /\ waker_state \in WakerStates
      BY DEF Init
    <2>2. interrupts \in BOOLEAN /\ queue_init \in BOOLEAN /\ waker \in BOOLEAN
      BY Zenon DEF Init
    <2>3. scancodes \in 0..ScancodeCap
      BY Caps DEF Init
    <2>4. task_queue \in 0..TaskCap
      BY Caps DEF Init
    <2>5. tasks \in BOOLEAN /\ waker_cache \in BOOLEAN
      BY Zenon DEF Init
    <2> QED
      BY <2>1, <2>2, <2>3, <2>4, <2>5 DEF TypeOK
  <1>2. WakeProtocol
    BY DEF Init, WakeProtocol
  <1> QED
    BY <1>1, <1>2

(* No step of the kernel thread (kernel_main, Executor::run, the shell's   *)
(* poll) breaks the wake protocol.                                         *)
LEMMA MainIInv == IInv /\ Main => IInv'
  <1> SUFFICES ASSUME IInv, Main PROVE IInv'
    OBVIOUS
  <1> USE Caps DEF IInv
  <1>1. CASE EnableAtBoot
    BY <1>1 DEF TypeOK, WakeProtocol, EnableAtBoot, Goto
  <1>2. CASE Spawn
    <2>1. /\ interrupts' \in BOOLEAN /\ queue_init' \in BOOLEAN
          /\ waker' \in BOOLEAN /\ tasks' \in BOOLEAN /\ waker_cache' \in BOOLEAN
      BY <1>2, Zenon DEF TypeOK, Spawn, PushTask
    <2>2. pc' \in Points /\ waker_state' \in WakerStates
      BY <1>2 DEF TypeOK, Spawn, PushTask
    <2>3. scancodes' \in 0..ScancodeCap /\ task_queue' \in 0..TaskCap
      BY <1>2 DEF TypeOK, Spawn, PushTask
    <2>4. TypeOK'
      BY <2>1, <2>2, <2>3 DEF TypeOK
    <2>5. WakeProtocol'
      <3>1. CASE task_queue < TaskCap
        <4>1. /\ task_queue' = task_queue + 1 /\ pc' = "pop"
              /\ UNCHANGED interrupts
          BY <1>2, <3>1 DEF TypeOK, Spawn, PushTask
        <4> QED
          BY <1>2, <3>1, <4>1 DEF TypeOK, WakeProtocol, Spawn
      <3>2. CASE task_queue = TaskCap
        <4>1. pc' = "queue_panic" /\ UNCHANGED <<interrupts, task_queue>>
          BY <1>2, <3>2 DEF TypeOK, Spawn, PushTask
        <4> QED
          BY <1>2, <3>2, <4>1 DEF TypeOK, WakeProtocol, Spawn
      <3> QED
        BY <3>1, <3>2 DEF TypeOK
    <2> QED
      BY <2>4, <2>5
  <1>3. CASE PopTask
    BY <1>3 DEF TypeOK, WakeProtocol, PopTask, Goto
  <1>4. CASE PopFinished
    BY <1>4 DEF TypeOK, WakeProtocol, PopFinished, Goto
  <1>5. CASE PopNone
    BY <1>5 DEF TypeOK, WakeProtocol, PopNone, Goto
  <1>6. CASE Disable
    BY Zenon, <1>6 DEF TypeOK, WakeProtocol, Disable, Goto
  <1>7. CASE CheckIdle
    BY <1>7 DEF TypeOK, WakeProtocol, CheckIdle
  <1>8. CASE EnableAndHlt
    BY <1>8 DEF TypeOK, WakeProtocol, EnableAndHlt, Goto
  <1>9. CASE Enable
    BY <1>9 DEF TypeOK, WakeProtocol, Enable, Goto
  <1>10. CASE StartShell
    BY <1>10 DEF TypeOK, WakeProtocol, StartShell, Goto
  <1>11. CASE ResumeShell
    BY <1>11 DEF TypeOK, WakeProtocol, ResumeShell, Goto
  <1>12. CASE FastPop
    BY <1>12 DEF TypeOK, WakeProtocol, FastPop, Goto
  <1>13. CASE FastEmpty
    BY <1>13 DEF TypeOK, WakeProtocol, FastEmpty, Goto
  <1>14. CASE RegisterBegin
    BY <1>14 DEF TypeOK, WakeProtocol, RegisterBegin, Goto
  <1>15. CASE RegisterStore
    BY <1>15 DEF TypeOK, WakeProtocol, RegisterStore, Goto
  <1>16. CASE RegisterEnd
    BY <1>16 DEF TypeOK, WakeProtocol, RegisterEnd, Goto
  <1>17. CASE RegisterRaced
    BY Zenon, <1>17 DEF TypeOK, WakeProtocol, RegisterRaced, Goto
  <1>18. CASE SelfWake
    <2>1. /\ interrupts' \in BOOLEAN /\ queue_init' \in BOOLEAN
          /\ waker' \in BOOLEAN /\ tasks' \in BOOLEAN /\ waker_cache' \in BOOLEAN
      BY <1>18, Zenon DEF TypeOK, SelfWake, PushTask
    <2>2. pc' \in Points /\ waker_state' \in WakerStates
      BY <1>18 DEF TypeOK, SelfWake, PushTask
    <2>3. scancodes' \in 0..ScancodeCap /\ task_queue' \in 0..TaskCap
      BY <1>18 DEF TypeOK, SelfWake, PushTask
    <2>4. TypeOK'
      BY <2>1, <2>2, <2>3 DEF TypeOK
    <2>5. WakeProtocol'
      <3>1. CASE task_queue < TaskCap
        <4>1. /\ task_queue' = task_queue + 1 /\ pc' = "recheck"
              /\ UNCHANGED interrupts
          BY <1>18, <3>1 DEF TypeOK, SelfWake, PushTask
        <4> QED
          BY <1>18, <3>1, <4>1 DEF TypeOK, WakeProtocol, SelfWake
      <3>2. CASE task_queue = TaskCap
        <4>1. pc' = "queue_panic" /\ UNCHANGED <<interrupts, task_queue>>
          BY <1>18, <3>2 DEF TypeOK, SelfWake, PushTask
        <4> QED
          BY <1>18, <3>2, <4>1 DEF TypeOK, WakeProtocol, SelfWake
      <3> QED
        BY <3>1, <3>2 DEF TypeOK
    <2> QED
      BY <2>4, <2>5
  <1>19. CASE RecheckEmpty
    BY <1>19 DEF TypeOK, WakeProtocol, RecheckEmpty, Goto
  <1>20. CASE RecheckPop
    BY <1>20 DEF TypeOK, WakeProtocol, RecheckPop, Goto
  <1>21. CASE TakeBegin
    BY <1>21 DEF TypeOK, WakeProtocol, TakeBegin, Goto
  <1>22. CASE TakeEnd
    BY Zenon, <1>22 DEF TypeOK, WakeProtocol, TakeEnd, Goto
  <1>23. CASE Process
    BY <1>23 DEF TypeOK, WakeProtocol, Process, Goto
  <1>24. CASE ShellExit
    BY Zenon, <1>24 DEF TypeOK, WakeProtocol, ShellExit, Goto
  <1>25. CASE ShellPanic
    BY <1>25 DEF TypeOK, WakeProtocol, ShellPanic, Goto
  <1>26. CASE PanicDisable
    BY Zenon, <1>26 DEF TypeOK, WakeProtocol, PanicDisable
  <1> QED
    BY <1>1, <1>2, <1>3, <1>4, <1>5, <1>6, <1>7, <1>8, <1>9, <1>10, <1>11, <1>12, <1>13, <1>14, <1>15, <1>16, <1>17, <1>18, <1>19, <1>20, <1>21, <1>22, <1>23, <1>24, <1>25, <1>26 DEF Main

(* No interrupt handler breaks it, wherever it interrupts main.            *)
LEMMA InterruptIInv == IInv /\ Interrupt => IInv'
  <1> SUFFICES ASSUME IInv, Interrupt PROVE IInv'
    OBVIOUS
  <1> USE Caps DEF IInv
  <1>1. CASE KeyAccepted
    <2>1. /\ interrupts /\ queue_init /\ scancodes < ScancodeCap
          /\ scancodes' = scancodes + 1
          /\ UNCHANGED <<queue_init, tasks, waker_cache>>
      BY <1>1 DEF KeyAccepted
    <2>2. CASE waker_state = "WAITING" /\ waker
      \* The handler wakes the shell: one more id, or the panic on a full queue.
      <3>1. ~waker' /\ UNCHANGED waker_state /\ PushTask(Resumed, FALSE)
        BY Zenon, <1>1, <2>2 DEF KeyAccepted, Wake
      <3>2. CASE task_queue < TaskCap
        <4>1. /\ task_queue' = task_queue + 1 /\ pc' = Resumed
              /\ UNCHANGED interrupts
          BY <3>1, <3>2 DEF TypeOK, PushTask
        <4>2. waker' = FALSE
          BY <1>1, <2>2, Zenon DEF KeyAccepted, Wake
        <4>3. TypeOK'
          <5>1. interrupts' \in BOOLEAN /\ waker' \in BOOLEAN
            BY <4>1, <4>2, Zenon DEF TypeOK
          <5> QED
            BY <2>1, <3>1, <3>2, <4>1, <5>1 DEF TypeOK, Resumed
        <4>4. WakeProtocol'
          BY <2>1, <2>2, <3>1, <3>2, <4>1 DEF TypeOK, WakeProtocol, Resumed
        <4> QED
          BY <4>3, <4>4
      <3>3. CASE task_queue = TaskCap
        <4>1. pc' = "queue_panic" /\ interrupts' = FALSE /\ UNCHANGED task_queue
          BY <3>1, <3>3 DEF TypeOK, PushTask
        <4>2. waker' = FALSE
          BY <1>1, <2>2, Zenon DEF KeyAccepted, Wake
        <4>3. TypeOK'
          <5>1. interrupts' \in BOOLEAN /\ waker' \in BOOLEAN
            BY <4>1, <4>2, Zenon DEF TypeOK
          <5> QED
            BY <2>1, <3>1, <3>3, <4>1, <5>1 DEF TypeOK
        <4>4. WakeProtocol'
          BY <2>1, <2>2, <3>1, <3>3, <4>1 DEF TypeOK, WakeProtocol
        <4> QED
          BY <4>3, <4>4
      <3> QED
        BY <3>2, <3>3 DEF TypeOK
    <2>3. CASE ~(waker_state = "WAITING" /\ waker)
      \* No waker to take, or main is inside register or take.
      <3>1. /\ pc' = Resumed /\ UNCHANGED <<interrupts, waker, task_queue>>
            /\ waker_state' = IF waker_state = "REGISTERING"
                               THEN "REGISTERING|WAKING" ELSE waker_state
        BY Zenon, <1>1, <2>3 DEF KeyAccepted, Wake
      <3> QED
        BY <2>1, <2>3, <3>1 DEF TypeOK, WakeProtocol, Resumed
    <2> QED
      BY <2>2, <2>3
  <1>2. CASE KeyDropped
    BY <1>2 DEF TypeOK, WakeProtocol, KeyDropped, Resumed
  <1>3. CASE TimerInterrupt
    BY <1>3 DEF TypeOK, WakeProtocol, TimerInterrupt, Goto
  <1> QED
    BY <1>1, <1>2, <1>3 DEF Interrupt

(* The inductive invariant holds in every reachable state.                 *)
LEMMA Invariance == Spec => []IInv
  <1>1. IInv /\ [Next]_vars => IInv'
    <2> SUFFICES ASSUME IInv, [Next]_vars PROVE IInv'
      OBVIOUS
    <2>1. CASE Main
      BY <2>1, MainIInv
    <2>2. CASE Interrupt
      BY <2>2, InterruptIInv
    <2>3. CASE Hang \/ UNCHANGED vars
      BY <2>3 DEF Hang, vars, IInv, TypeOK, WakeProtocol
    <2> QED
      BY <2>1, <2>2, <2>3 DEF Next
  <1> QED
    BY InitIInv, <1>1, PTL DEF Spec

(* The wake protocol between add_scancode, poll_next and the executor      *)
(* holds in every reachable state, whatever the capacities of the queues.  *)
THEOREM Protocol == Spec => []WakeProtocol
  <1>1. IInv => WakeProtocol
    BY DEF IInv
  <1> QED
    BY <1>1, Invariance, PTL

(* Type correctness: neither ArrayQueue exceeds its capacity.              *)
THEOREM TypeCorrect == Spec => []TypeOK
  <1>1. IInv => TypeOK
    BY DEF IInv
  <1> QED
    BY <1>1, Invariance, PTL

(* A key press is never stranded: outside a poll, unread input implies     *)
(* that the shell is in the run queue.                                     *)
THEOREM WakeupsNotLost == Spec => []NoLostWakeup
  <1>1. IInv => NoLostWakeup
    BY DEF IInv, WakeProtocol, NoLostWakeup
  <1> QED
    BY <1>1, Invariance, PTL

(* sleep_if_idle halts the CPU only with an empty run queue and, while the *)
(* shell lives, an empty scancode queue.                                   *)
THEOREM SleepIsSafe == Spec => []SleepsOnlyWhenIdle
  <1>1. IInv => SleepsOnlyWhenIdle
    BY DEF IInv, TypeOK, WakeProtocol, SleepsOnlyWhenIdle
  <1> QED
    BY <1>1, Invariance, PTL

(* WAKER.wake() in the interrupt handler never drops the last reference to *)
(* the shell's waker.                                                      *)
THEOREM HandlerDoesNotFree == Spec => []HandlerNeverFreesWaker
  <1>1. IInv => HandlerNeverFreesWaker
    BY DEF IInv, WakeProtocol, HandlerNeverFreesWaker
  <1> QED
    BY <1>1, Invariance, PTL

-----------------------------------------------------------------------------
(* InputPath implements EventLoop.                                         *)

(* A step that keeps the scancodes, the stream, the task and does not      *)
(* enter or leave hlt or a panic is no step of the event loop.             *)
LEMMA Stutter ==
  ASSUME UNCHANGED <<scancodes, queue_init, tasks>>,
         pc' = pc \/ {pc, pc'} \cap ({"halted"} \cup Panics) = {}
  PROVE  UNCHANGED EventLoop!vars
  BY Zenon DEF EventLoop!vars, ShellState, CpuState

(* Every step of the kernel thread is one of the event loop or none.       *)
LEMMA MainRefines == IInv /\ Main => EventLoop!Next \/ UNCHANGED EventLoop!vars
  <1> SUFFICES ASSUME IInv, Main PROVE EventLoop!Next \/ UNCHANGED EventLoop!vars
    OBVIOUS
  <1> USE Caps DEF IInv, Goto
  <1>1. CASE EnableAtBoot \/ PopTask \/ PopFinished \/ PopNone \/ Disable
               \/ CheckIdle \/ Enable
    BY <1>1, Stutter DEF EnableAtBoot, PopTask, PopFinished, PopNone, Disable,
                         CheckIdle, Enable
  <1>2. CASE ResumeShell \/ FastEmpty \/ RegisterBegin \/ RegisterStore
               \/ RegisterEnd \/ RegisterRaced \/ RecheckEmpty
    BY <1>2, Stutter DEF ResumeShell, FastEmpty, RegisterBegin, RegisterStore,
                         RegisterEnd, RegisterRaced, RecheckEmpty
  <1>3. CASE TakeBegin \/ TakeEnd \/ Process \/ PanicDisable
    BY <1>3, Stutter DEF TakeBegin, TakeEnd, Process, PanicDisable
  <1>4. CASE Spawn
    \* The run queue is empty, so that the push succeeds.
    <2>1. ~queue_init /\ task_queue < TaskCap /\ pc = "spawn"
      BY <1>4 DEF Spawn, WakeProtocol, TypeOK
    <2>2. pc' = "pop" /\ UNCHANGED <<scancodes, queue_init>>
      BY <1>4, <2>1 DEF Spawn, PushTask, TypeOK
    <2> QED
      BY <2>1, <2>2 DEF EventLoop!vars, ShellState, CpuState
  <1>5. CASE EnableAndHlt
    \* The run queue is empty here, so by the protocol no input waits.
    <2>1. pc = "sleep" /\ pc' = "halted" /\ UNCHANGED <<scancodes, queue_init, tasks>>
      BY <1>5 DEF EnableAndHlt
    <2>2. tasks => queue_init /\ scancodes = 0
      BY <2>1 DEF WakeProtocol, TypeOK
    <2>3. queue_init
      BY <2>1, <2>2 DEF WakeProtocol, TypeOK
    <2>4. EventLoop!Sleep
      BY <2>1, <2>2, <2>3 DEF EventLoop!Sleep, ShellState, CpuState
    <2> QED
      BY <2>4 DEF EventLoop!Next
  <1>6. CASE StartShell
    <2>1. tasks /\ ~queue_init /\ pc = "poll" /\ pc' = "next"
          /\ UNCHANGED <<scancodes, tasks>>
      BY <1>6 DEF StartShell, WakeProtocol
    <2>2. queue_init' = TRUE
      BY <1>6, Zenon DEF StartShell
    <2>3. EventLoop!Start
      BY <2>1, <2>2 DEF EventLoop!Start, ShellState, CpuState
    <2> QED
      BY <2>3 DEF EventLoop!Next
  <1>7. CASE FastPop \/ RecheckPop
    <2>1. /\ tasks /\ queue_init /\ scancodes > 0 /\ scancodes' = scancodes - 1
          /\ UNCHANGED <<queue_init, tasks>>
          /\ pc \in {"next", "recheck"} /\ pc' \in {"process", "take"}
      BY <1>7 DEF FastPop, RecheckPop, WakeProtocol
    <2>2. EventLoop!Take
      BY <2>1 DEF EventLoop!Take, ShellState, CpuState
    <2> QED
      BY <2>2 DEF EventLoop!Next
  <1>8. CASE SelfWake
    <2>1. /\ pc = "self_wake" /\ tasks /\ queue_init /\ pc' \in {"recheck", "queue_panic"}
          /\ UNCHANGED <<scancodes, queue_init, tasks>>
      BY Zenon, <1>8 DEF SelfWake, PushTask, WakeProtocol
    <2>2. CASE pc' = "recheck"
      BY <2>1, <2>2, Stutter
    <2>3. CASE pc' = "queue_panic"
      <3>1. EventLoop!Panic
        BY <2>1, <2>3 DEF EventLoop!Panic, ShellState, CpuState
      <3> QED
        BY <3>1 DEF EventLoop!Next
    <2> QED
      BY <2>1, <2>2, <2>3
  <1>9. CASE ShellExit
    <2>1. /\ pc = "process" /\ pc' = "pop" /\ tasks /\ queue_init
          /\ UNCHANGED <<scancodes, queue_init>>
      BY <1>9 DEF ShellExit, WakeProtocol
    <2>2. tasks' = FALSE
      BY <1>9, Zenon DEF ShellExit
    <2>3. EventLoop!Exit
      BY <2>1, <2>2 DEF EventLoop!Exit, ShellState, CpuState
    <2> QED
      BY <2>3 DEF EventLoop!Next
  <1>10. CASE ShellPanic
    <2>1. /\ pc = "process" /\ pc' = "shell_panic" /\ tasks /\ queue_init
          /\ UNCHANGED <<scancodes, queue_init, tasks>>
      BY <1>10 DEF ShellPanic, WakeProtocol
    <2>2. EventLoop!Panic
      BY <2>1 DEF EventLoop!Panic, ShellState, CpuState
    <2> QED
      BY <2>2 DEF EventLoop!Next
  <1> QED
    BY <1>1, <1>2, <1>3, <1>4, <1>5, <1>6, <1>7, <1>8, <1>9, <1>10 DEF Main

(* So is every interrupt: an accepted key, or something else that may end  *)
(* a hlt.                                                                  *)
LEMMA InterruptRefines ==
  IInv /\ Interrupt => EventLoop!Next \/ UNCHANGED EventLoop!vars
  <1> SUFFICES ASSUME IInv, Interrupt
               PROVE EventLoop!Next \/ UNCHANGED EventLoop!vars
    OBVIOUS
  <1> USE Caps DEF IInv, Goto
  <1>1. CASE KeyAccepted
    <2>1. /\ queue_init /\ scancodes < ScancodeCap /\ scancodes' = scancodes + 1
          /\ UNCHANGED <<queue_init, tasks>>
      BY <1>1 DEF KeyAccepted
    <2>2. pc' \in {Resumed, "queue_panic"}
      BY Zenon, <1>1 DEF KeyAccepted, Wake, PushTask
    <2>3. EventLoop!Key
      BY <2>1, <2>2 DEF EventLoop!Key, ShellState, CpuState, Resumed, TypeOK
    <2> QED
      BY <2>3 DEF EventLoop!Next
  <1>2. CASE KeyDropped \/ TimerInterrupt
    <2>1. pc' = Resumed /\ UNCHANGED <<scancodes, queue_init, tasks>>
      BY <1>2 DEF KeyDropped, TimerInterrupt, Resumed
    <2>2. CASE pc = "halted"
      <3>1. EventLoop!Disturb
        BY <2>1, <2>2 DEF EventLoop!Disturb, ShellState, CpuState, Resumed
      <3> QED
        BY <3>1 DEF EventLoop!Next
    <2>3. CASE pc # "halted"
      BY <2>1, <2>3, Stutter DEF Resumed
    <2> QED
      BY <2>2, <2>3
  <1> QED
    BY <1>1, <1>2 DEF Interrupt

(* The safety half of ImplementsEventLoop, for every capacity: the kernel  *)
(* thread and the handlers only do what the event loop may do.  Among      *)
(* other things hlt is reached only when every key has been taken.         *)
THEOREM EventLoopRefined == Spec => EventLoop!Safety
  <1>1. Init => EventLoop!Init
    BY DEF Init, EventLoop!Init, ShellState, CpuState
  <1>2. IInv /\ [Next]_vars => [EventLoop!Next]_EventLoop!vars
    <2> SUFFICES ASSUME IInv, [Next]_vars
                 PROVE EventLoop!Next \/ UNCHANGED EventLoop!vars
      OBVIOUS
    <2>1. CASE Hang \/ UNCHANGED vars
      BY <2>1, Stutter DEF Hang, vars
    <2> QED
      BY <2>1, MainRefines, InterruptRefines DEF Next
  <1> QED
    BY <1>1, <1>2, Invariance, PTL DEF Spec, EventLoop!Safety

=============================================================================
