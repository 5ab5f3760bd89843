------------------------------- MODULE Tasks -------------------------------
(***************************************************************************)
(* Tasks, processes and their lifecycle in the rum kernel:                 *)
(* kernel/process/task.c with the callers that drive it, process.c and     *)
(* syscall.c, the supervisor in kernel/core/init.c, and the two interrupt  *)
(* handlers, hal/pc/pit.c and drivers/input/keyboard.c.                    *)
(*                                                                         *)
(* There is one CPU.  Kernel code is never preempted: it gives the CPU up  *)
(* by calling schedule(), and a user program is preempted only on its way  *)
(* back to user mode.  An interrupt handler runs between two steps of the  *)
(* current task whenever interrupts are enabled.  A step below is the code *)
(* from one point where an interrupt can be seen to the next; what runs    *)
(* with interrupts disabled is one step.                                   *)
(*                                                                         *)
(* Tasks are the slots of the table: boot is 0, idle is 1, and the rest    *)
(* are the process records, the Members of module Console.  The console's  *)
(* cancelled flag stands for process_state.cancellation_requested too,     *)
(* since the code always sets both.                                        *)
(***************************************************************************)
EXTENDS Console

CONSTANTS
  TIME_SLICE_TICKS,  \* ticks a task may run before it is marked for rescheduling
  QueueCapacity,     \* characters the keyboard queue holds
  MaxSleep,          \* the longest sleep, in ticks
  Calls              \* the system calls that programs make; "snake" also lets the
                     \* recovery shell play

Boot == 0
Idle == 1
TASK_SLOTS == Cardinality(Member) + 2
Task == 0..(TASK_SLOTS - 1)

ASSUME TaskAssumption ==
  /\ Member = 2..(TASK_SLOTS - 1) /\ Session \subseteq Nat
  /\ TIME_SLICE_TICKS \in Nat \ {0} /\ QueueCapacity \in Nat \ {0}
  /\ MaxSleep \in Nat \ {0, 1}
  /\ Calls \subseteq {"run", "command", "spawn", "wait", "nohang", "terminate",
                      "session", "read", "snake", "sleep", "yield"}

VARIABLES
  state,     \* task.state
  parent,    \* process_state.parent; NoMember is the boot task
  orphaned,  \* process_state.orphaned
  pc,        \* where the task continues
  op, child, \* what it launches or waits for (NoMember: any child)
  event,     \* the event it has observed and that was not signalled since
  deadline,  \* ticks left until its wait times out, 0 if none
  current,   \* the task that runs
  slice,     \* current->slice_ticks; current->reschedule is slice = 0
  switched,  \* it was just switched to: interrupts are off, exited tasks unreaped
  keys,      \* characters in the keyboard queue
  game       \* snake_active(): somebody plays Snake

taskVars == <<state, parent, orphaned, pc, op, child, event, deadline,
              current, slice, switched, keys, game>>
vars == <<consoleVars, taskVars>>

(* After task_initialize: only boot and idle.  The supervisor starts a shell, *)
(* or the boot options ask for the recovery shell.                            *)
TasksInit ==
  /\ ConsoleInit
  /\ state = [t \in Task |-> IF t = Boot THEN "RUNNING" ELSE IF t = Idle THEN "RUNNABLE" ELSE "UNUSED"]
  /\ parent = [m \in Member |-> NoMember]
  /\ orphaned = [m \in Member |-> FALSE]
  /\ \E start \in {"supervise", "recover"} :
       pc = [t \in Task |-> IF t = Boot THEN start ELSE IF t = Idle THEN "idle" ELSE "dead"]
  /\ op = [t \in Task |-> "none"]
  /\ child = [t \in Task |-> NoMember]
  /\ event = [t \in Task |-> "none"]
  /\ deadline = [t \in Task |-> 0]
  /\ current = Boot
  /\ slice = TIME_SLICE_TICKS
  /\ switched = FALSE
  /\ keys = 0
  /\ game = FALSE

-----------------------------------------------------------------------------
(* Helpers. *)

(* The console record of a task that is a process. *)
ConsoleOf(t) == IF t = Boot THEN NoMember ELSE t

Cancelled(t) == t \in Member /\ cancelled[t]

Free == {m \in Member : state[m] = "UNUSED"}

(* The task that collects m's exit status. *)
ParentOf(m) == IF parent[m] = NoMember THEN Boot ELSE parent[m]

(* The uncollected children of a task, dead or alive. *)
Children(t) == {m \in Member \ Free : ~orphaned[m] /\ ParentOf(m) = t}

Exited(S) == {m \in S : state[m] = "EXITED"}

(* The event that announces keys to a process: task_shell_input_event for a *)
(* shell, keyboard_input_event for the others.                              *)
InputEvent(m) == IF IsShell(m) THEN "console" ELSE "input"

(* Mutant: the wait ignores which child it is for. *)
AwaitedAny(t) == Children(t)

(* The children that the task's wait is for. *)
Awaited(t) == {c \in Children(t) : child[t] \in {NoMember, c}}

(* Mutant: background processes may fill the table. *)
NoReserve(t) == t \in Task

(* background_capacity: a process leaves one record free for a foreground tool. *)
BackgroundCapacity(t) == t = Boot \/ Cardinality(Free) > 1

(* task_process_creation_status *)
CanCreate(t, foreground) ==
  /\ CanLaunch(ConsoleOf(t), foreground)
  /\ Free # {}
  /\ foreground \/ BackgroundCapacity(t)

(* Mutant: wake_task without a look at the state. *)
BlockedOrNot(S) == S

Blocked(S) == {t \in S : state[t] = "BLOCKED"}

(* wake_task for a set of blocked tasks. *)
Wake(st, S) == [t \in Task |-> IF t \in S THEN "RUNNABLE" ELSE st[t]]

(* The waits of a set of tasks are over. *)
ClearWait(S) ==
  /\ event' = [t \in Task |-> IF t \in S THEN "none" ELSE event[t]]
  /\ deadline' = [t \in Task |-> IF t \in S THEN 0 ELSE deadline[t]]

(* Mutant: the search always starts at the first slot. *)
NextTaskFirst(p, st) ==
  LET ready == {t \in Task \ {Idle} : st[t] = "RUNNABLE"}
  IN IF ready = {} THEN Idle ELSE CHOOSE t \in ready : \A u \in ready : t <= u

(* The circular search of schedule(), from the slot after p round to p. *)
NextTask(p, st) ==
  LET ready == {t \in Task \ {Idle} : st[t] = "RUNNABLE"}
      Distance(t) == (t - p - 1 + TASK_SLOTS) % TASK_SLOTS
      Nearest(t) == \A u \in ready : Distance(t) <= Distance(u)
  IN IF \E t \in ready : Nearest(t) THEN CHOOSE t \in ready : Nearest(t) ELSE Idle

(* schedule(), up to the context switch, with the states st. *)
Schedule(st) ==
  LET left == [st EXCEPT ![current] = IF @ = "RUNNING" THEN "RUNNABLE" ELSE @]
      next == NextTask(current, left)
  IN /\ state' = [left EXCEPT ![next] = "RUNNING"]
     /\ current' = next
     /\ slice' = TIME_SLICE_TICKS
     /\ switched' = (next # current)

Running(t, label) == current = t /\ ~switched /\ pc[t] = label

Goto(t, label) == pc' = [pc EXCEPT ![t] = label]

KeepsCPU == UNCHANGED <<state, current, slice, switched>>

-----------------------------------------------------------------------------
(* Reaping. *)

(* reap_slot's conditions on a record, apart from the console's. *)
Reapable(m) == state[m] = "EXITED" /\ m # current /\ references[m] = 0 /\ ~live[m]

(* Mutant: one record is reaped per switch. *)
UnclaimedFirst ==
  {m \in Member : /\ orphaned[m] /\ Reapable(m)
                  /\ \A other \in Member : orphaned[other] /\ Reapable(other) => m <= other}

(* Mutant: cancelled processes are left to the parent, which is gone. *)
UnclaimedUncancelled == {m \in Member : orphaned[m] /\ ~cancelled[m] /\ Reapable(m)}

(* reap_exited(false): records that nobody will collect. *)
Unclaimed == {m \in Member : orphaned[m] /\ Reapable(m)}

(* The records become zero, apart from the task's state. *)
Release(R) ==
  /\ Detach(R)
  /\ parent' = [m \in Member |-> IF m \in R THEN NoMember ELSE parent[m]]
  /\ orphaned' = [m \in Member |-> orphaned[m] /\ m \notin R]

Reaped(R) == [t \in Task |-> IF t \in R THEN "UNUSED" ELSE state[t]]

(* A task that was switched to first reaps, in schedule() or start_task(). *)
Resume ==
  /\ switched
  /\ Release(Unclaimed)
  /\ state' = Reaped(Unclaimed)
  /\ switched' = FALSE
  /\ UNCHANGED <<pc, op, child, event, deadline, current, slice, keys, game>>

(* idle_loop: reap, then schedule if a task is ready, else halt until the *)
(* next interrupt.                                                        *)
IdleLoop ==
  /\ Running(Idle, "idle")
  /\ \E t \in Task \ {Idle} : state[t] = "RUNNABLE"
  /\ Release(Unclaimed)
  /\ Schedule(Reaped(Unclaimed))
  /\ UNCHANGED <<pc, op, child, event, deadline, keys, game>>

-----------------------------------------------------------------------------
(* Interrupt handlers. *)

InterruptsEnabled == ~switched /\ pc[current] # "uret"

(* An interrupt from user mode returns through task_on_user_return. *)
InterruptReturn ==
  pc' = IF pc[current] = "user" THEN [pc EXCEPT ![current] = "uret"] ELSE pc

(* Mutant: the timer looks only at tasks that wait for an event as well. *)
ExpiredEvent(t) == state[t] = "BLOCKED" /\ event[t] # "none" /\ deadline[t] = 1

(* timer_deadline_reached, for a wait with deadline[t] ticks left before this one. *)
Expired(t) == state[t] = "BLOCKED" /\ deadline[t] = 1

(* task_timer_tick, apart from waking the expired waits; the slice stops at 0. *)
CountTick ==
  /\ deadline' = [t \in Task |-> IF deadline[t] > 0 THEN deadline[t] - 1 ELSE 0]
  /\ slice' = IF slice > 0 THEN slice - 1 ELSE 0

(* Whom a signal of an event concerns: who waits for it is woken, and who has *)
(* only observed it will see that its sequence has changed.                   *)
Waiters(e) == {t \in Task : event[t] = e}

(* timer_interrupt: expired waits end, and whoever waits for work is woken. *)
Tick ==
  LET done == {t \in Task : Expired(t)} \cup Waiters("work")
  IN
  /\ InterruptsEnabled
  /\ CountTick
  /\ state' = Wake(state, Blocked(done))
  /\ event' = [t \in Task |-> IF t \in done THEN "none" ELSE event[t]]
  /\ InterruptReturn
  /\ UNCHANGED <<parent, orphaned, op, child, current, switched, keys, game, consoleVars>>

(* task_notify_shell_input: the shells at their prompt. *)
PromptedShells == {m \in Member \ Free : IsShell(m) /\ Owns(m)} \cap Waiters("console")

(* keyboard_interrupt, for a character that goes to the queue: when it is not *)
(* Ctrl+C, or there is nobody for Ctrl+C to cancel.  A full queue drops it.   *)
Key ==
  LET signalled == Waiters("input") \cup Waiters("work") \cup PromptedShells
  IN
  /\ InterruptsEnabled
  /\ IF keys = QueueCapacity
     THEN UNCHANGED <<keys, state, event, deadline>>
     ELSE /\ keys' = keys + 1
          /\ state' = Wake(state, Blocked(signalled))
          /\ ClearWait(signalled)
  /\ InterruptReturn
  /\ UNCHANGED <<parent, orphaned, op, child, current, slice, switched, game, consoleVars>>

(* keyboard_interrupt for Ctrl+C: task_cancel_foreground. *)
CtrlC ==
  \E target \in Member \cap {CancellationTarget} :
    LET signalled == Blocked({target}) \cup Waiters("work")
    IN
    /\ InterruptsEnabled
    /\ state[target] \notin {"EXITED", "UNUSED"}
    /\ CancelMembers({target})
    /\ state' = Wake(state, Blocked(signalled))
    /\ ClearWait(signalled)
    /\ InterruptReturn
    /\ UNCHANGED <<parent, orphaned, op, child, current, slice, switched, keys, game>>

-----------------------------------------------------------------------------
(* Launching a process, for a system call or for the boot task. *)

(* process_spawn starts in the background, the others in the foreground. *)
Foreground(call) == call # "spawn"

(* Where a task goes on after a launch or a wait: a process returns from its *)
(* system call, and the boot task goes on with its next.  Before it falls    *)
(* back to the recovery shell it drops what was typed for the other one.     *)
Finish(t, next) ==
  IF t = Boot
  THEN Goto(Boot, next) /\ keys' = IF op[Boot] = "shell" /\ next = "recover" THEN 0 ELSE keys
  ELSE Goto(t, "sysret") /\ UNCHANGED keys

(* The first part of start_process: may the call create a process at all? *)
(* Reading and loading the program then runs with interrupts enabled.     *)
StartProcess(t, call) ==
  /\ op' = [op EXCEPT ![t] = call]
  /\ IF CanCreate(t, Foreground(call)) /\ (call = "command" => IsShell(t))
     THEN Goto(t, "construct")
     ELSE Goto(t, IF t = Boot THEN "recover" ELSE "sysret")

(* The program cannot be loaded, memory runs out, or Ctrl+C arrived meanwhile. *)
LaunchFails(t) ==
  /\ Running(t, "construct")
  /\ Finish(t, "recover")
  /\ KeepsCPU
  /\ UNCHANGED <<parent, orphaned, op, child, event, deadline, game, consoleVars>>

(* What the launcher does next: run_foreground waits for the child, a spawn *)
(* returns at once.                                                         *)
AfterLaunch(call) ==
  CASE call = "command" -> "mark"
    [] call = "spawn" -> "sysret"
    [] OTHER -> "look"

(* The end of create_process: the first free record is published and attached *)
(* to the console in one step, unless the caller was cancelled meanwhile.  A  *)
(* new session takes the first free structure.                                *)
Publish(t) ==
  \E m \in Free :
  /\ Running(t, "construct")
  /\ \A other \in Free : m <= other
  /\ CanLaunch(ConsoleOf(t), Foreground(op[t])) /\ ~Cancelled(t)
  /\ Attach(m, ConsoleOf(t), Foreground(op[t]), op[t] = "shell")
  /\ active' # active => \A s \in Session : Available(s) => active' <= s
  /\ state' = [state EXCEPT ![m] = "RUNNABLE"]
  /\ parent' = [parent EXCEPT ![m] = ConsoleOf(t)]
  /\ orphaned' = [orphaned EXCEPT ![m] = FALSE]
  /\ pc' = [pc EXCEPT ![m] = "uret", ![t] = AfterLaunch(op[t])]
  /\ child' = [child EXCEPT ![t] = IF op[t] = "spawn" THEN NoMember ELSE m]
  /\ UNCHANGED <<op, event, deadline, current, slice, switched, keys, game>>

(* task_mark_shell_command *)
MarkCommand(m) ==
  \E c \in Member :
    /\ Running(m, "mark")
    /\ c = child[m] /\ parent[c] = m /\ state[c] = "RUNNABLE"
    /\ GrantCommand(m, c)
    /\ Goto(m, "look")
    /\ KeepsCPU
    /\ UNCHANGED <<parent, orphaned, op, child, event, deadline, keys, game>>

-----------------------------------------------------------------------------
(* Waiting for children: task_wait_child, task_collect_child. *)

(* The top of task_wait_child's loop: cancellation, then the event's sequence. *)
Look(t) ==
  /\ Running(t, "look")
  /\ IF Cancelled(t)
     THEN Finish(t, "recover") /\ UNCHANGED event
     ELSE /\ event' = [event EXCEPT ![t] = "children"]
          /\ Goto(t, "scan")
          /\ UNCHANGED keys
  /\ KeepsCPU
  /\ UNCHANGED <<parent, orphaned, op, child, deadline, game, consoleVars>>

(* Its rest: the table is read, and then interrupts are enabled again. *)
Scan(t) ==
  LET awaited == Awaited(t)
      fruitless == awaited = {} \/ (op[t] = "nohang" /\ Exited(awaited) = {})
  IN
  /\ Running(t, "scan")
  /\ KeepsCPU
  /\ UNCHANGED <<parent, orphaned, op, deadline, game, consoleVars>>
  /\ event' = IF fruitless \/ Exited(awaited) # {} THEN [event EXCEPT ![t] = "none"] ELSE event
  /\ IF fruitless
     THEN Finish(t, "recover") /\ UNCHANGED child
     ELSE IF Exited(awaited) # {}
     THEN /\ child' = [child EXCEPT ![t] = CHOOSE c \in Exited(awaited) :
                                             \A other \in Exited(awaited) : c <= other]
          /\ Goto(t, "collect")
          /\ UNCHANGED keys
     ELSE Goto(t, "wait") /\ UNCHANGED <<child, keys>>

(* Mutant: the sequence is observed when the task goes to sleep, after its *)
(* look at the condition.                                                 *)
WaitEventLate(t, label, again) ==
  /\ Running(t, label)
  /\ Goto(t, again)
  /\ IF Cancelled(t)
     THEN event' = [event EXCEPT ![t] = "none"] /\ KeepsCPU
     ELSE /\ event' = [event EXCEPT ![t] =
                         CASE label = "wait" -> "children"
                           [] label = "rwait" -> InputEvent(t)
                           [] OTHER -> "work"]
          /\ Schedule([state EXCEPT ![t] = "BLOCKED"])
  /\ UNCHANGED <<parent, orphaned, op, child, deadline, keys, game, consoleVars>>

(* Mutant: cancellation is only looked for before the wait. *)
WaitEventDeaf(t, label, again) ==
  /\ Running(t, label)
  /\ Goto(t, again)
  /\ IF event[t] = "none"
     THEN UNCHANGED event /\ KeepsCPU
     ELSE UNCHANGED event /\ Schedule([state EXCEPT ![t] = "BLOCKED"])
  /\ UNCHANGED <<parent, orphaned, op, child, deadline, keys, game, consoleVars>>

(* wait_common, for an event: the task blocks unless it is cancelled or the *)
(* event was signalled after it was observed; then it looks again.          *)
WaitEvent(t, label, again) ==
  /\ Running(t, label)
  /\ Goto(t, again)
  /\ IF Cancelled(t) \/ event[t] = "none"
     THEN event' = [event EXCEPT ![t] = "none"] /\ KeepsCPU
     ELSE UNCHANGED event /\ Schedule([state EXCEPT ![t] = "BLOCKED"])
  /\ UNCHANGED <<parent, orphaned, op, child, deadline, keys, game, consoleVars>>

(* task_collect_child: the record is free again.  The supervisor restarts the *)
(* shell, or gives up on it.                                                  *)
Collect(t) ==
  LET c == child[t]
  IN
  /\ Running(t, "collect")
  /\ c \in Children(t) /\ Reapable(c)
  /\ Release({c})
  /\ state' = Reaped({c})
  /\ child' = [child EXCEPT ![t] = NoMember]
  /\ \E next \in {"recover"} \cup (IF op[t] = "shell" THEN {"supervise"} ELSE {}) : Finish(t, next)
  /\ UNCHANGED <<op, event, deadline, current, slice, switched, game>>

-----------------------------------------------------------------------------
(* The boot task. *)

(* userspace_session starts a shell. *)
Supervise ==
  /\ Running(Boot, "supervise")
  /\ StartProcess(Boot, "shell")
  /\ keys' = IF CanCreate(Boot, TRUE) THEN keys ELSE 0
  /\ KeepsCPU
  /\ UNCHANGED <<parent, orphaned, child, event, deadline, game, consoleVars>>

(* One turn of recovery_session.  A character goes to the game, and may end  *)
(* it; else to the line, and may complete a command that starts a program or *)
(* the game.  Without one the loop waits for work.                           *)
Recover ==
  /\ Running(Boot, "recover")
  /\ IF keys > 0
     THEN /\ keys' = keys - 1
          /\ UNCHANGED event
          /\ \/ ~game /\ StartProcess(Boot, "run") /\ UNCHANGED game
             \/ (game' = game \/ (game' = ~game /\ "snake" \in Calls)) /\ UNCHANGED <<op, pc>>
     ELSE /\ event' = [event EXCEPT ![Boot] = "work"]
          /\ Goto(Boot, "rest")
          /\ UNCHANGED <<op, keys, game>>
  /\ KeepsCPU
  /\ UNCHANGED <<parent, orphaned, child, deadline, consoleVars>>

BootStep ==
  \/ Supervise
  \/ Recover
  \/ LaunchFails(Boot)
  \/ Publish(Boot)
  \/ Look(Boot)
  \/ Scan(Boot)
  \/ WaitEvent(Boot, "wait", "look")
  \/ Collect(Boot)
  \/ WaitEvent(Boot, "rest", "recover")

-----------------------------------------------------------------------------
(* System calls of the running process m, from syscall_dispatch.  A process *)
(* that is cancelled never gets here: see UserReturn.                       *)

(* What every call leaves alone that goes on to label without more ado. *)
Enters(m, label) ==
  /\ Goto(m, label)
  /\ KeepsCPU
  /\ UNCHANGED <<parent, orphaned, event, deadline, keys, game>>

(* RUM_SYS_EXIT, and a fault in user mode. *)
SysExit(m) ==
  /\ Running(m, "user")
  /\ Enters(m, "closing")
  /\ UNCHANGED <<op, child, consoleVars>>

SysLaunch(m) ==
  \E call \in Calls \cap {"run", "command", "spawn"} :
    /\ Running(m, "user")
    /\ StartProcess(m, call)
    /\ KeepsCPU
    /\ UNCHANGED <<parent, orphaned, child, event, deadline, keys, game, consoleVars>>

(* wait_child: for one process or for any. *)
SysWait(m) ==
  \E call \in Calls \cap {"wait", "nohang"}, target \in AnyMember \ {m} :
    /\ Running(m, "user")
    /\ op' = [op EXCEPT ![m] = call]
    /\ child' = [child EXCEPT ![m] = target]
    /\ Enters(m, "look")
    /\ UNCHANGED consoleVars

(* task_request_termination of a child or, by a command of the shell's, of *)
(* the shell's child.                                                      *)
MayTerminate(m, target) ==
  /\ \/ parent[target] = m
     \/ /\ parent[m] # NoMember /\ IsShell(parent[m])
        /\ CommandShell(m) = parent[m]
        /\ SameSession(target, parent[m])
        /\ parent[target] = parent[m]
  /\ target # m /\ ~shell[target] /\ ~orphaned[target] /\ state[target] # "EXITED"

SysTerminate(m) ==
  \E target \in Member \ Free :
    /\ "terminate" \in Calls
    /\ Running(m, "user")
    /\ MayTerminate(m, target)
    /\ CancelMembers({target})
    /\ state' = Wake(state, Blocked({target}))
    /\ ClearWait(Blocked({target}))
    /\ Goto(m, "sysret")
    /\ UNCHANGED <<parent, orphaned, op, child, current, slice, switched, keys, game>>

(* task_session_control: a command asks the shell that waits for it to exit. *)
SysSession(m) ==
  /\ "session" \in Calls
  /\ Running(m, "user")
  /\ CommandShell(m) # NoMember /\ CommandShell(m) = parent[m]
  /\ state[parent[m]] = "BLOCKED" /\ event[parent[m]] = "children"
  /\ RequestExit(m)
  /\ Enters(m, "sysret")
  /\ UNCHANGED <<op, child>>

SysRead(m) ==
  /\ "read" \in Calls
  /\ Running(m, "user")
  /\ Enters(m, "read")
  /\ UNCHANGED <<op, child, consoleVars>>

(* The top of stream_read's loop: cancellation, the console, the sequence. *)
Read(m) ==
  /\ Running(m, "read")
  /\ IF cancelled[m] \/ orphaned[m] \/ ~Owns(m)
     THEN Goto(m, IF cancelled[m] THEN "closing" ELSE "sysret") /\ UNCHANGED event
     ELSE Goto(m, "take") /\ event' = [event EXCEPT ![m] = InputEvent(m)]
  /\ KeepsCPU
  /\ UNCHANGED <<parent, orphaned, op, child, deadline, keys, game, consoleVars>>

(* Its rest: a finished child interrupts a shell; else some of the queue is *)
(* read; else the task waits.                                               *)
Take(m) ==
  LET interrupted == IsShell(m) /\ Exited(Children(m)) # {}
  IN
  /\ Running(m, "take")
  /\ IF interrupted \/ keys > 0
     THEN Goto(m, "sysret") /\ event' = [event EXCEPT ![m] = "none"]
     ELSE Goto(m, "rwait") /\ UNCHANGED event
  /\ IF interrupted \/ keys = 0 THEN UNCHANGED keys ELSE keys' \in 0..(keys - 1)
  /\ KeepsCPU
  /\ UNCHANGED <<parent, orphaned, op, child, deadline, game, consoleVars>>

(* console_action for Snake: one game at a time, for the console's owner. *)
SysSnake(m) ==
  /\ "snake" \in Calls
  /\ Running(m, "user")
  /\ Owns(m) /\ ~orphaned[m] /\ ~game
  /\ game' = TRUE
  /\ Goto(m, "snake")
  /\ KeepsCPU
  /\ UNCHANGED <<parent, orphaned, op, child, event, deadline, keys, consoleVars>>

(* Mutant: a cancelled player leaves without ending the game. *)
SnakeAway(m) ==
  /\ Running(m, "snake")
  /\ IF cancelled[m] \/ ~game
     THEN UNCHANGED <<keys, game>>
     ELSE keys' = 0 /\ (game' = TRUE \/ (keys > 0 /\ game' = FALSE))
  /\ IF game' /\ ~cancelled[m]
     THEN Goto(m, "swait") /\ event' = [event EXCEPT ![m] = "work"]
     ELSE Goto(m, IF game /\ cancelled[m] THEN "closing" ELSE "sysret") /\ UNCHANGED event
  /\ KeepsCPU
  /\ UNCHANGED <<parent, orphaned, op, child, deadline, consoleVars>>

(* One turn of its loop.  A cancelled player ends the game and exits.  Else the *)
(* whole queue goes to the game, which a character in it may end; while the     *)
(* game goes on the player waits for work.                                      *)
Snake(m) ==
  /\ Running(m, "snake")
  /\ IF cancelled[m] \/ ~game
     THEN game' = FALSE /\ UNCHANGED keys
     ELSE keys' = 0 /\ (game' = TRUE \/ (keys > 0 /\ game' = FALSE))
  /\ IF game'
     THEN Goto(m, "swait") /\ event' = [event EXCEPT ![m] = "work"]
     ELSE Goto(m, IF game /\ cancelled[m] THEN "closing" ELSE "sysret") /\ UNCHANGED event
  /\ KeepsCPU
  /\ UNCHANGED <<parent, orphaned, op, child, deadline, consoleVars>>

SysSleep(m) ==
  /\ "sleep" \in Calls
  /\ Running(m, "user")
  /\ Enters(m, "sleep")
  /\ UNCHANGED <<op, child, consoleVars>>

(* wait_common for a time only: of two ticks or more, since                *)
(* timer_duration_ticks adds one for the tick that has already begun.      *)
Sleep(m) ==
  /\ Running(m, "sleep")
  /\ Goto(m, "sysret")
  /\ IF cancelled[m]
     THEN UNCHANGED deadline /\ KeepsCPU
     ELSE /\ \E ticks \in 2..MaxSleep : deadline' = [deadline EXCEPT ![m] = ticks]
          /\ Schedule([state EXCEPT ![m] = "BLOCKED"])
  /\ UNCHANGED <<parent, orphaned, op, child, event, keys, game, consoleVars>>

(* task_yield, also for a sleep of no time. *)
SysYield(m) ==
  /\ "yield" \in Calls
  /\ Running(m, "user")
  /\ Goto(m, "sysret")
  /\ Schedule(state)
  /\ UNCHANGED <<parent, orphaned, op, child, event, deadline, keys, game, consoleVars>>

(* A call that fails, or that concerns ids, files or text output only. *)
SysOther(m) ==
  /\ Running(m, "user")
  /\ Enters(m, "sysret")
  /\ UNCHANGED <<op, child, consoleVars>>

(* The end of syscall_dispatch: task_exit_shell_if_requested. *)
SysReturn(m) ==
  /\ Running(m, "sysret")
  /\ op' = [op EXCEPT ![m] = "none"]
  /\ child' = [child EXCEPT ![m] = NoMember]
  /\ Enters(m, IF IsShell(m) /\ exitRequested[session[m]] THEN "closing" ELSE "uret")
  /\ UNCHANGED consoleVars

(* Mutant: cancellation that arrives while the task is away is overlooked. *)
UserReturnUnchecked(m) ==
  /\ Running(m, "uret")
  /\ IF slice = 0 THEN UNCHANGED pc /\ Schedule(state) ELSE Goto(m, "user") /\ KeepsCPU
  /\ UNCHANGED <<parent, orphaned, op, child, event, deadline, keys, game, consoleVars>>

(* task_on_user_return, and start_task for a new process: no user code runs *)
(* once cancellation is requested, and a used-up slice gives the CPU away.  *)
UserReturn(m) ==
  /\ Running(m, "uret")
  /\ IF cancelled[m] THEN Goto(m, "closing") /\ KeepsCPU
     ELSE IF slice = 0 THEN UNCHANGED pc /\ Schedule(state)
     ELSE Goto(m, "user") /\ KeepsCPU
  /\ UNCHANGED <<parent, orphaned, op, child, event, deadline, keys, game, consoleVars>>

-----------------------------------------------------------------------------
(* terminate_current, after the file handles were closed with interrupts     *)
(* enabled.  The descendants, and a root's whole session, are adopted by the *)
(* boot task, cancelled and woken; the console changes hands; the parent     *)
(* learns of it; and another task gets the CPU.                              *)

(* Mutant: finished children are left alone. *)
DescendantsAlive(m) ==
  {x \in Member \ (Free \cup {m}) : live[x] /\ \E k \in 1..Limit : Chain(parent, x)[k] = m}

(* The least set with the children of m and of its elements. *)
Descendants(m) ==
  LET others == Member \ (Free \cup {m})
      Closed(S) == \A x \in others : parent[x] \in S \cup {m} => x \in S
  IN {x \in others : \A S \in SUBSET others : Closed(S) => x \in S}

(* Mutant: only the direct children are abandoned. *)
AbandonedChildren(m) == {x \in Member \ Free : parent[x] = m}

Abandoned(m) ==
  Descendants(m) \cup
    (IF IsRoot(m) THEN {x \in Member \ (Free \cup {m}) : SameSession(x, m)} ELSE {})

Terminate(m) ==
  LET D == Abandoned(m)
      up == ParentOf(m)
      signalled == {t \in {up} : event[t] = "children" \/ (event[t] = "console" /\ IsShell(t))}
  IN
  /\ Running(m, "closing")
  /\ MemberExit(m, D)
  /\ parent' = [x \in Member |-> IF x \in D THEN NoMember ELSE parent[x]]
  /\ orphaned' = [x \in Member |-> orphaned[x] \/ x \in D]
  /\ keys' = IF IsRoot(m) /\ shell[m] THEN 0 ELSE keys
  /\ ClearWait(Blocked(D) \cup signalled \cup {m})
  /\ Schedule([Wake(state, Blocked(D \cup signalled)) EXCEPT ![m] = "EXITED"])
  /\ pc' = [pc EXCEPT ![m] = "dead"]
  /\ op' = [op EXCEPT ![m] = "none"]
  /\ child' = [child EXCEPT ![m] = NoMember]
  /\ UNCHANGED game

-----------------------------------------------------------------------------
(* What the running process does in the kernel, and what it chooses to do. *)
KernelStep(m) ==
  \/ LaunchFails(m)
  \/ Publish(m)
  \/ MarkCommand(m)
  \/ Look(m)
  \/ Scan(m)
  \/ WaitEvent(m, "wait", "look")
  \/ Collect(m)
  \/ Read(m)
  \/ Take(m)
  \/ WaitEvent(m, "rwait", "read")
  \/ Snake(m)
  \/ WaitEvent(m, "swait", "snake")
  \/ Sleep(m)
  \/ SysReturn(m)
  \/ UserReturn(m)
  \/ Terminate(m)

UserStep(m) ==
  \/ SysExit(m)
  \/ SysLaunch(m)
  \/ SysWait(m)
  \/ SysTerminate(m)
  \/ SysSession(m)
  \/ SysRead(m)
  \/ SysSnake(m)
  \/ SysSleep(m)
  \/ SysYield(m)
  \/ SysOther(m)

Kernel == Resume \/ IdleLoop \/ BootStep \/ \E m \in Member : KernelStep(m)

TasksNext == Kernel \/ (\E m \in Member : UserStep(m)) \/ Tick \/ Key \/ CtrlC

TasksSpec == TasksInit /\ [][TasksNext]_vars

(* The recovery loop or a player goes to sleep. *)
Rests ==
  /\ WaitEvent(Boot, "rest", "recover") \/ \E m \in Member : WaitEvent(m, "swait", "snake")
  /\ state'[current] = "BLOCKED"

(* The CPU executes kernel code, and the timer interrupts it again and again: *)
(* a pending interrupt is taken as soon as interrupts are enabled.  The two   *)
(* loops that every tick wakes take less than a tick for a turn, so that not  *)
(* every one of their attempts to sleep is forestalled.  Programs and people  *)
(* need not do anything.                                                      *)
FairTasksSpec == TasksSpec /\ WF_vars(Kernel) /\ SF_vars(Tick) /\ SF_vars(Rests)

-----------------------------------------------------------------------------
Labels ==
  {"idle", "supervise", "recover", "rest", "uret", "user", "construct", "mark", "scan",
   "look", "wait", "collect", "read", "take", "rwait", "snake", "swait",
   "sleep", "sysret", "closing", "dead"}

(* The table agrees with the console: exactly one task runs, the one that is *)
(* current, and a record is live for the console until its process exits.    *)
TasksTypeOK ==
  /\ state \in [Task -> {"UNUSED", "RUNNABLE", "RUNNING", "BLOCKED", "EXITED"}]
  /\ parent \in [Member -> AnyMember]
  /\ orphaned \in [Member -> BOOLEAN]
  /\ pc \in [Task -> Labels]
  /\ op \in [Task -> Calls \cup {"none", "shell", "run"}]
  /\ child \in [Task -> AnyMember]
  /\ event \in [Task -> {"none", "children", "console", "input", "work"}]
  /\ deadline \in [Task -> 0..MaxSleep]
  /\ current \in Task
  /\ slice \in 0..TIME_SLICE_TICKS
  /\ switched \in BOOLEAN
  /\ keys \in 0..QueueCapacity
  /\ game \in BOOLEAN
  /\ \A t \in Task : state[t] = "RUNNING" <=> t = current
  /\ \A m \in Member : live[m] <=> state[m] \notin {"UNUSED", "EXITED"}

(* No wakeup is lost.  A task is asleep only while what it waits for has not *)
(* happened, whatever interrupt came between its look at the condition and   *)
(* its registration as a waiter: a reader sleeps only on an empty queue that *)
(* it owns, a parent only on children that still run, a shell at its prompt  *)
(* also only while no child's result waits; a player only on an empty queue, *)
(* and it still owns the console, which it does not look at again; and no    *)
(* one who is cancelled.                                                     *)
NoLostWakeup ==
  \A t \in Blocked(Task) :
    /\ ~Cancelled(t)
    /\ event[t] = "none" => deadline[t] > 0
    /\ event[t] = "children" => Awaited(t) # {} /\ Exited(Awaited(t)) = {}
    /\ event[t] \in {"console", "input", "work"} => keys = 0
    /\ event[t] \in {"console", "input", "work"} => t = Boot \/ Owns(t)
    /\ event[t] = "console" => Exited(Children(t)) = {}

(* A parent outlives its children in the table: whoever is responsible for a *)
(* process can still collect it.  This is why an id names the right process. *)
ParentPresent ==
  \A m \in Member \ Free :
    /\ parent[m] # NoMember => live[parent[m]]
    /\ orphaned[m] => parent[m] = NoMember /\ cancelled[m]

(* A process that nobody will collect is reclaimed before any other code runs. *)
OrphansReapedPromptly ==
  \A m \in Member : state[m] = "EXITED" /\ orphaned[m] => switched

(* The conditions whose failure halts the machine never fail: collecting a   *)
(* child that was found (process.c:101, syscall.c:266, init.c:120), reaping  *)
(* (task.c:598), attaching the record that was picked before the program was *)
(* loaded (task.c:308), marking a command (process.c:95), and the boot task  *)
(* finding the shell it started.                                             *)
NeverHalts ==
  /\ pc[current] = "collect" =>
       child[current] \in Children(current) /\ Reapable(child[current]) /\ Detachable(child[current])
  /\ switched => \A m \in Unclaimed : Detachable(m)
  /\ pc[current] = "construct" => Free # {} /\ \A m \in Free : Unattached(m)
  /\ pc[current] = "mark" =>
       /\ state[child[current]] = "RUNNABLE" /\ parent[child[current]] = current
       /\ CanGrant(current, child[current])
  /\ pc[Boot] \in {"look", "scan"} => \E c \in Children(Boot) : c = child[Boot]

(* No user code of a cancelled process runs, and an interrupt that requests *)
(* the cancellation is not overlooked on the way back to user mode.         *)
CancelledStaysInKernel ==
  \A m \in Member : pc[m] = "user" => ~cancelled[m]

(* The one game has a player.  However a player leaves, by its own key, by     *)
(* Ctrl+C or with its session, it ends the game; one left behind would refuse  *)
(* every later game and swallow what is typed to the recovery shell.           *)
GameHasPlayer ==
  game => \/ \E m \in Member : pc[m] \in {"snake", "swait"}
          \/ pc[Boot] \in {"recover", "rest"}

(* A shell is cancelled by nobody, so that it always survives its commands. *)
ShellNeverCancelled ==
  \A m \in Member : live[m] /\ shell[m] => ~cancelled[m] /\ ~orphaned[m]

(* Whoever handed the console to a child waits for that child.  A command   *)
(* may therefore work on its shell's directory and exit state: the shell    *)
(* neither runs user code nor is reaped meanwhile (task.c:398).             *)
LauncherWaits ==
  \A m \in Member : live[m] /\ ~cancelled[m] /\ restore[m] # NoMember =>
    LET p == restore[m] IN
    p = parent[m] /\ (cancelled[p] \/ (pc[p] \in {"mark", "look", "scan", "wait"} /\ child[p] = m))

(* At a prompt there is room for a program: background processes cannot use *)
(* up the table, and what a foreground program leaves behind cannot either. *)
PromptHasSlot ==
  \A m \in Member : pc[m] = "user" /\ IsShell(m) => Free # {}

(* The supervisor can always restart the shell, even while what the last one *)
(* left behind is still being cleaned up.                                    *)
SupervisorCanRestart ==
  pc[Boot] = "supervise" => CanCreate(Boot, TRUE)

-----------------------------------------------------------------------------
(* Liveness. *)

(* No task starves: one that is ready gets the CPU, although programs may *)
(* compute for ever.                                                      *)
ReadyRuns ==
  \A t \in Task \ {Idle} : state[t] = "RUNNABLE" ~> state[t] = "RUNNING"

(* Cancellation works: a process that Ctrl+C, its parent or the end of its *)
(* session cancelled is gone eventually, be it launching, waiting, reading, *)
(* playing, asleep or in user mode.                                        *)
CancelledExits ==
  \A m \in Member : (live[m] /\ cancelled[m]) ~> ~live[m]

(* A record that was abandoned is free again eventually. *)
OrphansFreed ==
  \A m \in Member : orphaned[m] ~> state[m] = "UNUSED"

(* A sleep ends. *)
SleepersWake ==
  \A m \in Member : deadline[m] > 0 ~> state[m] = "RUNNING"

=============================================================================
