------------------------------ MODULE InputPath ------------------------------
(***************************************************************************)
(* The path of a key press through the kernel: the keyboard interrupt      *)
(* handler, the scancode queue and its AtomicWaker, the stream the shell   *)
(* awaits, and the executor that polls the shell and puts the CPU to sleep.*)
(*                                                                         *)
(* Two actors share the state.  "Main" is the kernel thread: kernel_main,  *)
(* then Executor::run and, inside a poll, the shell's future; pc says      *)
(* where it is.  The other actor is the interrupt controller: a handler    *)
(* may run between any two steps of main while the interrupt flag is set,  *)
(* and runs to completion, because the CPU clears the flag on entry and    *)
(* there is one CPU.                                                       *)
(*                                                                         *)
(* Only the shell is ever spawned (main.rs), so the queue of TaskIds is    *)
(* the number of copies of the shell's id it holds, and the executor's     *)
(* maps are Booleans.  Scancodes are not told apart here, so their queue   *)
(* is its length.                                                          *)
(***************************************************************************)
EXTENDS Naturals

CONSTANTS
  ScancodeCap,  \* capacity of SCANCODE_QUEUE (100 in the kernel)
  TaskCap       \* capacity of Executor::task_queue (100 in the kernel)

ASSUME CapAssumption == ScancodeCap \in Nat \ {0} /\ TaskCap \in Nat \ {0}

VARIABLES
  pc,           \* where main is
  interrupts,   \* the CPU's interrupt flag
  queue_init,   \* SCANCODE_QUEUE has been initialised
  scancodes,    \* number of scancodes in SCANCODE_QUEUE
  waker_state,  \* AtomicWaker::state of WAKER
  waker,        \* WAKER holds a clone of the shell's waker
  task_queue,   \* number of entries of Executor::task_queue
  tasks,        \* the shell is in Executor::tasks
  waker_cache   \* the shell's waker is in Executor::waker_cache

vars == <<pc, interrupts, queue_init, scancodes, waker_state, waker,
          task_queue, tasks, waker_cache>>

\* The variables of shell/keyboard.rs, and those of the executor.
stream == <<queue_init, scancodes, waker_state, waker>>
executor == <<task_queue, tasks, waker_cache>>

\* Main is inside Task::poll, that is, inside the shell's future.
PollPoints == {"poll", "next", "register", "reg_store", "reg_end", "self_wake",
               "recheck", "take", "take_end", "process"}

\* The panic handler runs: a TaskId found the queue full, or the shell panicked.
Panics == {"queue_panic", "shell_panic"}

Points == PollPoints \cup {"boot", "spawn", "pop", "disable", "check", "sleep",
                           "enable", "halted"} \cup Panics

WakerStates == {"WAITING", "REGISTERING", "REGISTERING|WAKING", "WAKING"}

InPoll == pc \in PollPoints

Init ==
  /\ pc = "boot"
  /\ interrupts = FALSE
  /\ queue_init = FALSE
  /\ scancodes = 0
  /\ waker_state = "WAITING"
  /\ waker = FALSE
  /\ task_queue = 0
  /\ tasks = FALSE
  /\ waker_cache = FALSE

-----------------------------------------------------------------------------
(* Helpers.                                                                *)

Goto(from, to) == pc = from /\ pc' = to

\* Push of a TaskId.  ArrayQueue::push fails on a full queue and the caller's
\* expect panics, with the interrupt flag as it is there.
PushTask(next, flag) ==
  \/ /\ task_queue < TaskCap
     /\ task_queue' = task_queue + 1
     /\ pc' = next
     /\ UNCHANGED interrupts
  \/ /\ task_queue = TaskCap
     /\ pc' = "queue_panic"
     /\ interrupts' = flag
     /\ UNCHANGED task_queue

-----------------------------------------------------------------------------
(* kernel_main.                                                            *)

\* gdt, IDT and PICs are set up, then interrupts are enabled.
EnableAtBoot ==
  /\ Goto("boot", "spawn")
  /\ interrupts' = TRUE
  /\ UNCHANGED <<stream, executor>>

\* Heap, drivers and file systems are initialised and the shell is spawned.
Spawn ==
  /\ pc = "spawn"
  /\ tasks' = TRUE
  /\ PushTask("pop", interrupts)
  /\ UNCHANGED <<stream, waker_cache>>

-----------------------------------------------------------------------------
(* Executor::run.                                                          *)

\* run_ready_tasks pops an id and polls the task, creating its waker once.
PopTask ==
  /\ Goto("pop", "poll")
  /\ task_queue > 0
  /\ tasks
  /\ task_queue' = task_queue - 1
  /\ waker_cache' = TRUE
  /\ UNCHANGED <<stream, interrupts, tasks>>

\* The popped id is that of a task that has finished.
PopFinished ==
  /\ Goto("pop", "pop")
  /\ task_queue > 0
  /\ ~tasks
  /\ task_queue' = task_queue - 1
  /\ UNCHANGED <<stream, interrupts, tasks, waker_cache>>

PopNone ==
  /\ Goto("pop", "disable")
  /\ task_queue = 0
  /\ UNCHANGED <<stream, executor, interrupts>>

MutantDisable ==
  /\ Goto("disable", "check")
  /\ UNCHANGED <<stream, executor, interrupts>>

\* sleep_if_idle, first instruction.
Disable ==
  /\ Goto("disable", "check")
  /\ interrupts' = FALSE
  /\ UNCHANGED <<stream, executor>>

CheckIdle ==
  /\ pc = "check"
  /\ pc' = IF task_queue = 0 THEN "sleep" ELSE "enable"
  /\ UNCHANGED <<stream, executor, interrupts>>

\* sti; hlt: the CPU takes no interrupt between the two instructions.
EnableAndHlt ==
  /\ Goto("sleep", "halted")
  /\ interrupts' = TRUE
  /\ UNCHANGED <<stream, executor>>

Enable ==
  /\ Goto("enable", "pop")
  /\ interrupts' = TRUE
  /\ UNCHANGED <<stream, executor>>

-----------------------------------------------------------------------------
(* The shell's future.                                                     *)

\* First poll: shell::run creates the ScancodeStream and prints the prompt.
StartShell ==
  /\ Goto("poll", "next")
  /\ ~queue_init
  /\ queue_init' = TRUE
  /\ UNCHANGED <<executor, interrupts, scancodes, waker_state, waker>>

\* Later polls resume at the await in the shell's loop.
ResumeShell ==
  /\ Goto("poll", "next")
  /\ queue_init
  /\ UNCHANGED <<stream, executor, interrupts>>

\* poll_next, fast path.
FastPop ==
  /\ Goto("next", "process")
  /\ scancodes > 0
  /\ scancodes' = scancodes - 1
  /\ UNCHANGED <<executor, interrupts, queue_init, waker_state, waker>>

FastEmpty ==
  /\ Goto("next", "register")
  /\ scancodes = 0
  /\ UNCHANGED <<stream, executor, interrupts>>

\* AtomicWaker::register: WAITING -> REGISTERING, ...
RegisterBegin ==
  /\ Goto("register", "reg_store")
  /\ waker_state = "WAITING"
  /\ waker_state' = "REGISTERING"
  /\ UNCHANGED <<executor, interrupts, queue_init, scancodes, waker>>

\* ... the waker is stored, ...
RegisterStore ==
  /\ Goto("reg_store", "reg_end")
  /\ waker' = TRUE
  /\ UNCHANGED <<executor, interrupts, queue_init, scancodes, waker_state>>

\* ... and REGISTERING -> WAITING, ...
RegisterEnd ==
  /\ Goto("reg_end", "recheck")
  /\ waker_state = "REGISTERING"
  /\ waker_state' = "WAITING"
  /\ UNCHANGED <<executor, interrupts, queue_init, scancodes, waker>>

MutantRegisterRaced ==
  /\ Goto("reg_end", "recheck")
  /\ waker_state = "REGISTERING|WAKING"
  /\ waker_state' = "WAITING"
  /\ waker' = FALSE
  /\ UNCHANGED <<executor, interrupts, queue_init, scancodes>>

\* ... unless a wake came in between: then register takes the waker back ...
RegisterRaced ==
  /\ Goto("reg_end", "self_wake")
  /\ waker_state = "REGISTERING|WAKING"
  /\ waker_state' = "WAITING"
  /\ waker' = FALSE
  /\ UNCHANGED <<executor, interrupts, queue_init, scancodes>>

\* ... and wakes it.
SelfWake ==
  /\ pc = "self_wake"
  /\ PushTask("recheck", interrupts)
  /\ UNCHANGED <<stream, tasks, waker_cache>>

MutantRecheckEmpty ==
  /\ Goto("recheck", "pop")
  /\ UNCHANGED <<stream, executor, interrupts>>

\* poll_next, second pop: nothing there, Poll::Pending.
RecheckEmpty ==
  /\ Goto("recheck", "pop")
  /\ scancodes = 0
  /\ UNCHANGED <<stream, executor, interrupts>>

RecheckPop ==
  /\ Goto("recheck", "take")
  /\ scancodes > 0
  /\ scancodes' = scancodes - 1
  /\ UNCHANGED <<executor, interrupts, queue_init, waker_state, waker>>

\* AtomicWaker::take: WAITING -> WAKING, the waker is dropped, -> WAITING.
TakeBegin ==
  /\ Goto("take", "take_end")
  /\ waker_state = "WAITING"
  /\ waker_state' = "WAKING"
  /\ UNCHANGED <<executor, interrupts, queue_init, scancodes, waker>>

MutantTakeEnd ==
  /\ Goto("take_end", "process")
  /\ waker_state' = "WAITING"
  /\ UNCHANGED <<executor, interrupts, queue_init, scancodes, waker>>

TakeEnd ==
  /\ Goto("take_end", "process")
  /\ waker_state' = "WAITING"
  /\ waker' = FALSE
  /\ UNCHANGED <<executor, interrupts, queue_init, scancodes>>

\* The shell handles a scancode and goes back to its await, ...
Process ==
  /\ Goto("process", "next")
  /\ UNCHANGED <<stream, executor, interrupts>>

\* ... or it was the end of an "exit" command: run returns, and the executor
\* drops the task and its waker.
ShellExit ==
  /\ Goto("process", "pop")
  /\ tasks' = FALSE
  /\ waker_cache' = FALSE
  /\ UNCHANGED <<stream, interrupts, task_queue>>

\* ... or the command panics (unwrap and todo! in parse_and_execute).
ShellPanic ==
  /\ Goto("process", "shell_panic")
  /\ UNCHANGED <<stream, executor, interrupts>>

\* The panic handler prints its report before it disables interrupts.
PanicDisable ==
  /\ pc \in Panics /\ interrupts
  /\ interrupts' = FALSE
  /\ UNCHANGED <<pc, stream, executor>>

-----------------------------------------------------------------------------
(* Interrupt handlers.  Each runs whole between two steps of main.         *)

\* hlt is left after an interrupt; sleep_if_idle then returns to the loop.
Resumed == IF pc = "halted" THEN "pop" ELSE pc

\* AtomicWaker::wake, in the handler.
Wake ==
  \/ /\ waker_state = "WAITING" /\ waker
     /\ waker' = FALSE
     /\ PushTask(Resumed, FALSE)
     /\ UNCHANGED waker_state
  \/ /\ waker_state = "WAITING" /\ ~waker
     /\ pc' = Resumed
     /\ UNCHANGED <<interrupts, waker_state, waker, task_queue>>
  \/ /\ waker_state = "REGISTERING"
     /\ waker_state' = "REGISTERING|WAKING"
     /\ pc' = Resumed
     /\ UNCHANGED <<interrupts, waker, task_queue>>
  \/ /\ waker_state \in {"REGISTERING|WAKING", "WAKING"}
     /\ pc' = Resumed
     /\ UNCHANGED <<interrupts, waker_state, waker, task_queue>>

MutantKeyAccepted ==
  /\ interrupts
  /\ queue_init /\ scancodes =< ScancodeCap
  /\ scancodes' = scancodes + 1
  /\ Wake
  /\ UNCHANGED <<queue_init, tasks, waker_cache>>

MutantKeyNoWake ==
  /\ interrupts
  /\ queue_init /\ scancodes < ScancodeCap
  /\ scancodes' = scancodes + 1
  /\ pc' = Resumed
  /\ UNCHANGED <<interrupts, queue_init, waker_state, waker, executor>>

\* add_scancode with room in the queue.
KeyAccepted ==
  /\ interrupts
  /\ queue_init /\ scancodes < ScancodeCap
  /\ scancodes' = scancodes + 1
  /\ Wake
  /\ UNCHANGED <<queue_init, tasks, waker_cache>>

\* add_scancode before the stream exists or with a full queue: a warning.
KeyDropped ==
  /\ interrupts
  /\ ~queue_init \/ scancodes = ScancodeCap
  /\ pc' = Resumed
  /\ UNCHANGED <<stream, executor, interrupts>>

\* The timer handler prints a dot; here it matters only that it ends a hlt.
TimerInterrupt ==
  /\ interrupts
  /\ Goto("halted", "pop")
  /\ UNCHANGED <<stream, executor, interrupts>>

\* The panic handler's last loop: interrupts are off, hlt never returns.
Hang == pc \in Panics /\ ~interrupts /\ UNCHANGED vars

-----------------------------------------------------------------------------

Main ==
  \/ EnableAtBoot \/ Spawn
  \/ PopTask \/ PopFinished \/ PopNone
  \/ Disable \/ CheckIdle \/ EnableAndHlt \/ Enable
  \/ StartShell \/ ResumeShell
  \/ FastPop \/ FastEmpty
  \/ RegisterBegin \/ RegisterStore \/ RegisterEnd \/ RegisterRaced \/ SelfWake
  \/ RecheckEmpty \/ RecheckPop
  \/ TakeBegin \/ TakeEnd
  \/ Process \/ ShellExit \/ ShellPanic \/ PanicDisable

Interrupt == KeyAccepted \/ KeyDropped \/ TimerInterrupt

Next == Main \/ Interrupt \/ Hang

\* Main is never descheduled: while it has a step and is not halted, it takes
\* one.  No interrupt is assumed to arrive.
Spec == Init /\ [][Next]_vars /\ WF_vars(Main)

-----------------------------------------------------------------------------
(* Properties.                                                             *)

(* Every variable has its type; in particular neither ArrayQueue ever      *)
(* holds more than its capacity (keyboard.rs, executor.rs).                *)
TypeOK ==
  /\ pc \in Points
  /\ interrupts \in BOOLEAN
  /\ queue_init \in BOOLEAN
  /\ scancodes \in 0..ScancodeCap
  /\ waker_state \in WakerStates
  /\ waker \in BOOLEAN
  /\ task_queue \in 0..TaskCap
  /\ tasks \in BOOLEAN
  /\ waker_cache \in BOOLEAN

(* No lost wakeup: whenever there is unread input, the shell is alive and  *)
(* main is not inside a poll of it, the shell's id is in the run queue.    *)
(* This is what poll_next's second pop after WAKER.register is for.        *)
NoLostWakeup ==
  (tasks /\ scancodes > 0 /\ ~InPoll /\ pc \notin Panics) => task_queue > 0

(* The CPU is halted only when nothing is runnable and, while the shell    *)
(* lives, no input is waiting: Executor::sleep_if_idle disables interrupts *)
(* before it looks at the queue.                                           *)
SleepsOnlyWhenIdle ==
  pc = "halted" => task_queue = 0 /\ (tasks => scancodes = 0)

(* add_scancode "must not block or allocate": the Arc that WAKER.wake()    *)
(* consumes in the interrupt handler is never the last one, so the handler *)
(* never frees it and never takes the heap's lock.  The executor's         *)
(* waker_cache always holds another, also around the shell's exit.         *)
HandlerNeverFreesWaker == waker => waker_cache

(* The protocol behind the three invariants above, strong enough to be     *)
(* inductive.  Interrupts are off where the code turned them off;          *)
(* AtomicWaker is busy only inside register and take; and outside a poll   *)
(* a live shell is reachable either through its registered waker or       *)
(* through an id in the run queue, through the latter if input waits.      *)
WakeProtocol ==
  /\ pc \notin Panics =>
       (interrupts <=> pc \notin {"boot", "check", "sleep", "enable"})
  /\ pc \in {"boot", "spawn"} => ~tasks /\ ~queue_init /\ task_queue = 0
  /\ pc \notin {"boot", "spawn"} => tasks \/ queue_init
  /\ waker => waker_cache /\ queue_init
  /\ waker_cache => tasks
  /\ scancodes > 0 => queue_init
  /\ InPoll => tasks /\ waker_cache /\ (queue_init \/ pc = "poll")
  /\ waker_state # "WAITING" =>
       \/ pc \in {"reg_store", "reg_end"}
            /\ waker_state \in {"REGISTERING", "REGISTERING|WAKING"}
       \/ pc = "take_end" /\ waker_state = "WAKING"
  /\ waker /\ scancodes > 0 =>
       pc \in {"reg_store", "reg_end", "recheck", "take", "take_end"}
  /\ pc \in {"reg_store", "reg_end"} => waker_state # "WAITING"
  /\ pc = "reg_end" => waker
  /\ pc = "take_end" => waker_state = "WAKING"
  /\ pc \in {"self_wake", "process"} \cup Panics => ~waker
  /\ pc = "recheck" => waker \/ task_queue > 0
  /\ (tasks /\ ~InPoll /\ pc \notin Panics) =>
       /\ waker \/ task_queue > 0
       /\ ~queue_init \/ scancodes > 0 => task_queue > 0
  /\ pc \in {"sleep", "halted"} => task_queue = 0

(* Input accepted while the shell lives is followed by the shell handling  *)
(* a scancode, even if no further interrupt ever arrives (unless the       *)
(* kernel panics or the shell exits).                                      *)
InputEventuallyRead ==
  (scancodes > 0) ~> (pc = "process" \/ pc \in Panics \/ ~tasks)

(* TaskWaker::wake_task expects the push to succeed ("task_queue full").   *)
TaskQueueNeverFull == pc # "queue_panic"

-----------------------------------------------------------------------------
(* The event loop that this implements.                                    *)

ShellState == IF ~queue_init THEN "none" ELSE IF tasks THEN "up" ELSE "gone"
CpuState ==
  IF pc \in Panics THEN "dead" ELSE IF pc = "halted" THEN "asleep" ELSE "awake"

EventLoop ==
  INSTANCE EventLoop WITH
    Cap <- ScancodeCap, unread <- scancodes, shell <- ShellState, cpu <- CpuState

(* The executor, the wakers and the interrupt flag together give the shell *)
(* a queue of keys and a CPU that sleeps only when no key waits: hlt is    *)
(* reached only where EventLoop allows Sleep, and while keys wait the      *)
(* shell goes on taking them.                                              *)
ImplementsEventLoop == EventLoop!Spec

=============================================================================
