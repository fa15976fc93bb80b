----------------------------- MODULE Scheduler -----------------------------
(***************************************************************************)
(* The multitasking of task.c with the wake-up of queue.c and the timer    *)
(* interrupt of pit.c.  Tasks live in priority levels; a level is a ring   *)
(* of tasks of which one is the level's current task, and the level of the *)
(* running task is the current level.                                      *)
(*                                                                         *)
(* Every switch happens between cli_task() and sti_task(), so an action    *)
(* runs from one point where interrupts are enabled to the next.  What     *)
(* interleaves are the tasks and the interrupts: an interrupt handler runs *)
(* on the stack of the task it interrupts, and a task switched out by the  *)
(* first half of the timer's handler has the second half still to do when  *)
(* it is dispatched again.                                                 *)
(***************************************************************************)
EXTENDS Integers, Sequences, FiniteSets

CONSTANTS
  Pool,            (* the tasks that are created and closed                 *)
  main_task,       (* the kernel's main task                                *)
  idle_task,       (* the task that only executes hlt                       *)
  MaxProhibition,  (* bound: how deeply prohibit_switch_task() is nested    *)
  ElapsedModulus,  (* 256: elapsed_time is an unsigned char                 *)
  TaskPriorities,  (* bound: the priorities of the tasks that are created   *)
  NULL             (* no task                                               *)

Task == Pool \cup {main_task, idle_task}

(* TASK_PRIORITY_IDLE, _USER, _SHELL and _KERNEL: only their order matters *)
IDLE == 0
USER == 1
SHELL == 2
KERNEL == 3
Priority == IDLE .. KERNEL

ASSUME SchedulerAssumption ==
  /\ main_task \notin Pool /\ idle_task \notin Pool /\ main_task # idle_task
  /\ NULL \notin Task
  /\ IsFiniteSet(Pool)
  /\ MaxProhibition \in Nat \ {0}
  /\ ElapsedModulus \in Nat /\ ElapsedModulus > 2
  /\ TaskPriorities \subseteq {USER, SHELL}

(* Every task is started with an occupancy time of one tick.               *)
occupancy_time == 1

(* The three of task.h, and two for the memory of a Task that does not     *)
(* exist: FREE, or LOST to a close_task() that never finished.             *)
Status == {"SLEEP", "WAIT", "RUN", "FREE", "LOST"}

VARIABLES
  sched,     (* what task.c keeps, a record: see TypeOK                     *)
  queue,     (* each task's event queue: "NONE", "EMPTY" or "EVENTS"        *)
  parent,    (* who is told when the task is closed; NULL: a freed task     *)
  creating,  (* the task created and not yet started by each task           *)
  drained,   (* tasks that saw their queue empty and will call sleep_task() *)
  in_pit     (* tasks whose pit_interrupt_handler() has yet to switch_task()*)

vars == <<sched, queue, parent, creating, drained, in_pit>>
-----------------------------------------------------------------------------
(* The ring of a level is listed in the order it is searched: from the     *)
(* task after the level's current task to that current task itself.        *)
Current(s) == s.ring[s.level][Len(s.ring[s.level])]

(* Mutant: the search starts one task too late, and misses the next one.   *)
WaitingAfterNext(s, p) ==
  {i \in DOMAIN s.ring[p] : s.status[s.ring[p][i]] = "WAIT" /\ (i > 1 \/ Len(s.ring[p]) = 1)}

Waiting(s, p) == {i \in DOMAIN s.ring[p] : s.status[s.ring[p][i]] = "WAIT"}

Least(S) == CHOOSE i \in S : \A j \in S : i <= j

Greatest(S) == CHOOSE i \in S : \A j \in S : j <= i

(* The ring after its i-th task has become the level's current task.       *)
Rotate(r, i) ==
  [k \in 1 .. Len(r) |-> IF i + k <= Len(r) THEN r[i + k] ELSE r[i + k - Len(r)]]

(* The levels, not below floor, where the search finds a waiting task.     *)
ReadyLevels(s, floor) == {p \in Priority : floor <= p /\ Waiting(s, p) # {}}

(* Mutant: the task that is switched out keeps its status.                 *)
DispatchKeepingStatus(s, floor, status) ==
  LET p == Greatest(ReadyLevels(s, floor))
      i == Least(Waiting(s, p))
  IN [s EXCEPT !.status[s.ring[p][i]] = "RUN", !.ring[p] = Rotate(@, i),
               !.level = p, !.fresh = @ \ {s.ring[p][i]}]

(* The running task gets a new status, and the first waiting task of the   *)
(* highest ready level runs in its place (the ljmp to its TSS).            *)
Dispatch(s, floor, status) ==
  LET p == Greatest(ReadyLevels(s, floor))
      i == Least(Waiting(s, p))
      t == s.ring[p][i]
  IN [s EXCEPT !.status = [@ EXCEPT ![Current(s)] = status, ![t] = "RUN"],
               !.ring[p] = Rotate(@, i),
               !.level = p,
               !.fresh = @ \ {t}]

(* Mutants of switch_task(): it puts the running task to sleep; it ignores *)
(* the prohibition.                                                        *)
SwitchTaskToSleep(s) ==
  IF s.switch_prohibition_level[Current(s)] > 0
  THEN [s EXCEPT !.pending = @ \cup {Current(s)}]
  ELSE IF ReadyLevels(s, s.level) = {} THEN s ELSE Dispatch(s, s.level, "SLEEP")

SwitchTaskAnyway(s) ==
  IF ReadyLevels(s, s.level) = {} THEN s ELSE Dispatch(s, s.level, "WAIT")

(* switch_task(): elapsed_time counts the calls and wraps, so one call in  *)
(* ElapsedModulus comes too early and does nothing.                        *)
SwitchTask(s0) ==
  LET c == Current(s0)
      s == [s0 EXCEPT !.elapsed_time[c] = (@ + 1) % ElapsedModulus]
  IN IF s.elapsed_time[c] < occupancy_time THEN s
     ELSE IF s.switch_prohibition_level[c] > 0
       THEN [s EXCEPT !.pending = @ \cup {c}]
       ELSE IF ReadyLevels(s, s.level) = {} THEN s
       ELSE Dispatch(s, s.level, "WAIT")

Prohibit(s) == [s EXCEPT !.switch_prohibition_level[Current(s)] = @ + 1]

(* Mutant: the pending switch is made up for, and stays pending.           *)
AllowKeepingPending(s0) ==
  LET s == [s0 EXCEPT !.switch_prohibition_level[Current(s0)] = @ - 1]
  IN IF s.switch_prohibition_level[Current(s)] = 0 /\ Current(s) \in s.pending
     THEN SwitchTask(s) ELSE s

(* allow_switch_task(): the outermost one makes up for a pending switch.   *)
Allow(s0) ==
  LET c == Current(s0)
      s == [s0 EXCEPT !.switch_prohibition_level[c] = @ - 1]
  IN IF s.switch_prohibition_level[c] = 0 /\ c \in s.pending
     THEN SwitchTask([s EXCEPT !.pending = @ \ {c}])
     ELSE s

(* Mutant: whoever wakes a task never gives way to it.                     *)
ContinueTaskLater(s, t) == [s EXCEPT !.status[t] = "WAIT"]

(* continue_task() of a sleeping task.                                     *)
ContinueTask(s, t) ==
  LET woken == [Prohibit(s) EXCEPT !.status[t] = "WAIT"]
  IN Allow(IF s.level < s.priority[t] THEN SwitchTask(woken) ELSE woken)

(* The wake-up at the end of enqueue().                                    *)
WakeUp(s, t) == IF s.status[t] = "SLEEP" THEN ContinueTask(s, t) ELSE s

Post(t) == queue' = [queue EXCEPT ![t] = "EVENTS"]
-----------------------------------------------------------------------------
(* init_task() and the boot of main(): the main task runs, with an empty   *)
(* event queue, and the idle task has been started.                        *)
Init ==
  /\ sched =
       [ring  |-> [p \in Priority |-> CASE p = KERNEL -> <<main_task>>
                                        [] p = IDLE -> <<idle_task>>
                                        [] OTHER -> << >>],
        level |-> KERNEL,
        priority |-> [t \in Task |-> IF t = main_task THEN KERNEL ELSE IDLE],
        status |-> [t \in Task |-> CASE t = main_task -> "RUN"
                                     [] t = idle_task -> "WAIT"
                                     [] OTHER -> "FREE"],
        switch_prohibition_level |-> [t \in Task |-> 0],
        pending |-> {},
        elapsed_time |-> [t \in Task |-> 0],
        fresh |-> {idle_task}]
  /\ queue = [t \in Task |-> IF t = main_task THEN "EMPTY" ELSE "NONE"]
  /\ parent = [t \in Task |-> IF t = idle_task THEN main_task ELSE NULL]
  /\ creating = [t \in Task |-> NULL]
  /\ drained = {}
  /\ in_pit = {}

(* A close_task() lost the processor half way through.  The task before    *)
(* the one it closes keeps an interrupt_prohibition_level of 1 while it is *)
(* interruptible: its cli_task() masks nothing any more, and its code is   *)
(* no sequence of the actions below.  From there on the model follows the  *)
(* interrupts only, whose gates mask all the same.                         *)
Broken == \E t \in Task : sched.status[t] = "LOST"

(* Task c executes its own code, not the rest of an interrupt handler.     *)
Runs(c) == /\ c = Current(sched)
           /\ c # idle_task
           /\ c \notin in_pit
           /\ ~Broken

(* ... and is not between an empty dequeue() and sleep_task().             *)
Works(c) == Runs(c) /\ c \notin drained

ProhibitSwitchTask(c) ==
  /\ Works(c)
  /\ sched.switch_prohibition_level[c] < MaxProhibition
  /\ sched' = Prohibit(sched)
  /\ UNCHANGED <<queue, parent, creating, drained, in_pit>>

(* Mutant: the ERROR() "already allowed" is dropped.                       *)
AllowSwitchTaskUnchecked(c) ==
  /\ Works(c)
  /\ sched' = Allow(sched)
  /\ UNCHANGED <<queue, parent, creating, drained, in_pit>>

AllowSwitchTask(c) ==
  /\ Works(c)
  /\ sched.switch_prohibition_level[c] > 0
  /\ sched' = Allow(sched)
  /\ UNCHANGED <<queue, parent, creating, drained, in_pit>>

(* enqueue() of an event for t, which has created its queue by then.       *)
Send(c, t) ==
  /\ Works(c)
  /\ queue[t] # "NONE"
  /\ Post(t)
  /\ sched' = WakeUp(sched, t)
  /\ UNCHANGED <<parent, creating, drained, in_pit>>

CreateEventQueue(c) ==
  /\ Works(c)
  /\ queue[c] = "NONE"
  /\ queue' = [queue EXCEPT ![c] = "EMPTY"]
  /\ UNCHANGED <<sched, parent, creating, drained, in_pit>>

(* dequeue() at the top of an event loop, where all is balanced.  How many *)
(* events there are is abstracted: more may or may not be left.            *)
InLoop(c) == /\ Works(c)
             /\ sched.switch_prohibition_level[c] = 0
             /\ creating[c] = NULL

Dequeue(c) ==
  /\ InLoop(c)
  /\ queue[c] = "EVENTS"
  /\ \E left \in {"EMPTY", "EVENTS"} : queue' = [queue EXCEPT ![c] = left]
  /\ UNCHANGED <<sched, parent, creating, drained, in_pit>>

DequeueNothing(c) ==
  /\ InLoop(c)
  /\ queue[c] = "EMPTY"
  /\ drained' = drained \cup {c}
  /\ UNCHANGED <<sched, queue, parent, creating, in_pit>>

(* CPU_COMMAND_HLT: a command looks at its queue and will sleep inside the *)
(* system call, where it prohibits switching.  (What it dequeues inside a  *)
(* system call is dequeued in a Dequeue here: nobody else gets at its      *)
(* queue in between.)                                                      *)
HaltInSystemCall(c) ==
  /\ Works(c)
  /\ c \in Pool
  /\ sched.switch_prohibition_level[c] = 1
  /\ creating[c] = NULL
  /\ queue[c] = "EMPTY"
  /\ drained' = drained \cup {c}
  /\ UNCHANGED <<sched, queue, parent, creating, in_pit>>

(* sleep_task() of the running task: it looks at no queue.                 *)
SleepTask(c) ==
  /\ Runs(c)
  /\ c \in drained
  /\ ReadyLevels(sched, IDLE) # {}
  /\ sched' = Dispatch(sched, IDLE, "SLEEP")
  /\ drained' = drained \ {c}
  /\ UNCHANGED <<queue, parent, creating, in_pit>>

(* The end of the search order, just before the level's current task.      *)
Insert(r, t) ==
  IF r = << >> THEN <<t>>
  ELSE [k \in 1 .. Len(r) + 1 |-> IF k < Len(r) THEN r[k]
                                  ELSE IF k = Len(r) THEN t ELSE r[Len(r)]]

(* A task creates and starts another inside distribute_event(), where it   *)
(* prohibits switching; the serial shell of the main task does so outside. *)
Holds(c) == sched.switch_prohibition_level[c] > 0 \/ c = main_task

(* create_task() by the main task (a console, a command of the serial      *)
(* shell, or its test task) or by a console (a command, whose parent is    *)
(* the main task if it runs in the background).                            *)
CreateTask(c, t, p, owner) ==
  /\ Works(c)
  /\ Holds(c)
  /\ creating[c] = NULL
  /\ sched.status[t] = "FREE"
  /\ p < sched.priority[c]
  /\ queue[c] # "NONE"
  /\ sched' = [sched EXCEPT !.ring[p] = Insert(@, t),
                            !.priority[t] = p,
                            !.status[t] = "SLEEP",
                            !.switch_prohibition_level[t] = 0,
                            !.pending = @ \ {t},
                            !.elapsed_time[t] = 0,
                            !.fresh = @ \cup {t}]
  /\ parent' = [parent EXCEPT ![t] = owner]
  /\ creating' = [creating EXCEPT ![c] = t]
  /\ UNCHANGED <<queue, drained, in_pit>>

(* start_task(): the task is made ready, and nobody is switched out.       *)
StartTask(c) ==
  /\ Works(c)
  /\ Holds(c)
  /\ creating[c] # NULL
  /\ sched' = [sched EXCEPT !.status[creating[c]] = "WAIT",
                            !.elapsed_time[creating[c]] = 0]
  /\ queue' = [queue EXCEPT ![creating[c]] = "NONE"]
  /\ creating' = [creating EXCEPT ![c] = NULL]
  /\ UNCHANGED <<parent, drained, in_pit>>

(* Mutant: the task is not unlinked.                                       *)
WithCurrent(r) == r

(* The ring without its last task, the level's current task.               *)
WithoutCurrent(r) == [k \in 1 .. Len(r) - 1 |-> r[k]]

(* What close_task() leaves of the bookkeeping of task c.                  *)
Forget(s, c) == [s EXCEPT !.switch_prohibition_level[c] = 0,
                          !.pending = @ \ {c},
                          !.elapsed_time[c] = 0,
                          !.priority[c] = IDLE]

(* close_task() of the running task: the events its parent and everybody   *)
(* else may have for it end here.  A console may close before a command of *)
(* its own (console.c:21 looks at the commands that have started only):    *)
(* the command is then left with a pointer to a freed task.  A close_task()*)
(* that goes through such a pointer may do anything, and is left out.      *)
MayClose(c) ==
  /\ InLoop(c)
  /\ c \in Pool
  /\ queue[c] # "NONE"
  /\ parent[c] # NULL

(* The parents when c is freed. *)
Bereave(c) == [t \in Task |-> IF t = c \/ parent[t] = c THEN NULL ELSE parent[t]]

(* The parent is told, the task is unlinked and freed, and the first       *)
(* waiting task of the highest level runs.                                 *)
CloseTask(c) ==
  /\ MayClose(c)
  /\ LET told == WakeUp(Prohibit(sched), parent[c])
         next == Dispatch(told, IDLE, "FREE")
         unlink(r) == IF next.level = sched.level
                      THEN Rotate(WithoutCurrent(told.ring[sched.level]),
                                  Least(Waiting(told, sched.level)))
                      ELSE WithoutCurrent(r)
     IN /\ ReadyLevels(told, IDLE) # {}
        /\ sched' = Forget([next EXCEPT !.ring[sched.level] = unlink(@)], c)
  /\ queue' = [queue EXCEPT ![parent[c]] = "EVENTS", ![c] = "NONE"]
  /\ parent' = Bereave(c)
  /\ UNCHANGED <<creating, drained, in_pit>>

(* Once c is unlinked, the task before it is the level's current task, and *)
(* the cli_task() and sti_task() of free() count on that one.  A task that *)
(* has run is suspended with its count above 0.  One that never ran is     *)
(* not: sti_task() then lets interrupts in, the tick switches from that    *)
(* task to the main task, and nobody ever comes back to free the rest.  (A *)
(* tick in which elapsed_time wraps switches nobody: close_task() goes on.)*)
CloseTaskInterrupted(c) ==
  /\ MayClose(c)
  /\ LET told == WakeUp(Prohibit(sched), parent[c])
         ring == WithoutCurrent(told.ring[sched.level])
         unlinked == Forget([told EXCEPT !.ring[sched.level] = ring,
                                         !.status[c] = "LOST"], c)
         woken == WakeUp(unlinked, main_task)
     IN /\ ring # << >>
        /\ ring[Len(ring)] \in sched.fresh
        /\ sched' = IF woken.level = sched.level THEN SwitchTask(woken) ELSE woken
        /\ sched'.status[main_task] = "RUN"
  /\ queue' = [queue EXCEPT ![parent[c]] = "EVENTS", ![main_task] = "EVENTS",
                            ![c] = "NONE"]
  /\ parent' = Bereave(c)
  /\ UNCHANGED <<creating, drained, in_pit>>
-----------------------------------------------------------------------------
(* A keyboard, mouse, RTC or serial interrupt: an event for the main task. *)
DeviceInterrupt ==
  /\ Current(sched) \notin in_pit
  /\ Post(main_task)
  /\ sched' = WakeUp(sched, main_task)
  /\ UNCHANGED <<parent, creating, drained, in_pit>>

(* Mutant: the handler switches tasks without an event for the main task.  *)
PitInterruptWithoutEvent ==
  /\ Current(sched) \notin in_pit
  /\ sched' = SwitchTask(sched)
  /\ UNCHANGED <<queue, parent, creating, drained, in_pit>>

(* pit_interrupt_handler(): an event for the main task, then switch_task() *)
(* by the interrupted task, unless the event has it switched out first.    *)
PitInterrupt ==
  LET c == Current(sched)
      woken == WakeUp(sched, main_task)
  IN /\ c \notin in_pit
     /\ Post(main_task)
     /\ IF Current(woken) = c
        THEN sched' = SwitchTask(woken) /\ UNCHANGED in_pit
        ELSE sched' = woken /\ in_pit' = in_pit \cup {c}
     /\ UNCHANGED <<parent, creating, drained>>

(* The interrupted task is back in the handler, which calls switch_task(). *)
PitSwitch ==
  /\ Current(sched) \in in_pit
  /\ in_pit' = in_pit \ {Current(sched)}
  /\ sched' = SwitchTask(sched)
  /\ UNCHANGED <<queue, parent, creating, drained>>

(* Of the tasks, only the one that runs does anything.                     *)
Next ==
  \/ \E c \in Task :
       /\ c = Current(sched)
       /\ \/ ProhibitSwitchTask(c) \/ AllowSwitchTask(c)
          \/ CreateEventQueue(c) \/ Dequeue(c) \/ DequeueNothing(c)
          \/ HaltInSystemCall(c)
          \/ SleepTask(c) \/ StartTask(c)
          \/ CloseTask(c) \/ CloseTaskInterrupted(c)
          \/ \E t \in Task : Send(c, t)
          \/ \E t \in Pool, p \in TaskPriorities, owner \in {c, main_task} :
               CreateTask(c, t, p, owner)
  \/ DeviceInterrupt \/ PitInterrupt \/ PitSwitch

Spec == Init /\ [][Next]_vars

(* The timer keeps ticking, a handler runs to its end, and so do a region  *)
(* where a task prohibits switching and the way from an empty dequeue() to *)
(* sleep_task(): weak fairness, with the guard of each action written out  *)
(* in place of ENABLED.  The last conjunct is strong fairness of the ticks *)
(* outside the regions: a program does not run in step with the timer.     *)
Prohibits(c) == Works(c) /\ sched.switch_prohibition_level[c] > 0

GoesToSleep(c) == Runs(c) /\ c \in drained

Free(c) == Current(sched) = c /\ c \notin in_pit
             /\ sched.switch_prohibition_level[c] = 0

Fairness ==
  /\ []<>(Current(sched) \in in_pit) \/ []<><<PitInterrupt>>_vars
  /\ []<>(Current(sched) \notin in_pit) \/ []<><<PitSwitch>>_vars
  /\ []<>~Prohibits(Current(sched)) \/ []<><<AllowSwitchTask(Current(sched))>>_vars
  /\ []<>~GoesToSleep(Current(sched)) \/ []<><<SleepTask(Current(sched))>>_vars
  /\ \A c \in Pool : <>[]~Free(c) \/ []<><<Free(c) /\ PitInterrupt>>_vars

FairSpec == Spec /\ Fairness
-----------------------------------------------------------------------------
TypeOK ==
  /\ sched \in [ring : [Priority -> Seq(Task)],
                level : Priority,
                priority : [Task -> Priority],
                status : [Task -> Status],
                switch_prohibition_level : [Task -> 0 .. MaxProhibition],
                pending : SUBSET Task,
                elapsed_time : [Task -> 0 .. ElapsedModulus - 1],
                fresh : SUBSET Task]
  /\ sched.ring[sched.level] # << >>
  /\ queue \in [Task -> {"NONE", "EMPTY", "EVENTS"}]
  /\ parent \in [Task -> Task \cup {NULL}]
  /\ creating \in [Task -> Pool \cup {NULL}]
  /\ drained \subseteq Task
  /\ in_pit \subseteq Task

(* One processor: exactly one task has status RUN, and it is the current   *)
(* task of the current level, whichever way the last switch came about.    *)
OneRunning ==
  \A t \in Task : sched.status[t] = "RUN" <=> t = Current(sched)

(* Each task that exists is linked exactly once, in the ring of its own    *)
(* priority: none is lost by a create, close or switch, and none is found  *)
(* twice.                                                                  *)
Places(t) == {x \in UNION {{p} \X DOMAIN sched.ring[p] : p \in Priority} :
                sched.ring[x[1]][x[2]] = t}

LinkedOnce ==
  \A t \in Task :
    IF sched.status[t] \in {"FREE", "LOST"} THEN Places(t) = {}
    ELSE \E i \in DOMAIN sched.ring[sched.priority[t]] :
           Places(t) = {<<sched.priority[t], i>>}

(* sleep_task() and close_task() always find a task to run: their ERROR()s *)
(* "Next task is not found" and "The other tasks are sleeping" are dead.   *)
SomeoneElseIsReady ==
  Current(sched) # idle_task => ReadyLevels(sched, IDLE) # {}

(* A ready task waits for a task of lower priority only while the lower    *)
(* one owes a switch for when it allows switching again, or in the tick    *)
(* where its elapsed_time wraps to 0.                                      *)
NoInversion ==
  \A t \in Task :
    sched.status[t] = "WAIT" /\ sched.level < sched.priority[t] =>
      \/ Current(sched) \in sched.pending
      \/ sched.elapsed_time[Current(sched)] < occupancy_time

(* A switch is pending only for a task that prohibits switching: no task   *)
(* carries a stale request into code that is free to be switched.          *)
PendingWhileProhibited ==
  \A t \in sched.pending : sched.switch_prohibition_level[t] > 0

(* close_task() frees the task it closes ("free the task", task.c:93),     *)
(* and does not lose the processor half way through.                       *)
ClosedTasksAreFreed == \A t \in Task : sched.status[t] # "LOST"

(* Nobody takes the processor from a task that prohibits switching and     *)
(* goes on prohibiting it: only the task itself, by allowing a switch, by  *)
(* going to sleep or by closing, lets another one run.                     *)
ProhibitedStaysCurrent ==
  [][LET c == Current(sched)
     IN /\ sched.switch_prohibition_level[c] > 0
        /\ sched'.switch_prohibition_level[c] > 0
        => Current(sched') = c \/ (c \in drained /\ sched'.status[c] = "SLEEP")]_vars

(* Events are not lost on the main task: an event that arrived between its *)
(* last look at the queue and sleep_task() is picked up, with the next     *)
(* tick at the latest.                                                     *)
MainWakes ==
  (sched.status[main_task] = "SLEEP" /\ queue[main_task] = "EVENTS")
    ~> sched.status[main_task] = "RUN"

(* Round robin: a ready command gets to execute its own code, past the     *)
(* rest of the interrupt handler it was stopped in, provided that again    *)
(* and again no task of higher priority is running or ready, and that new  *)
(* tasks, which are searched before the level's current task, do not keep  *)
(* coming.                                                                 *)
Quiet(p) == \A t \in Task : sched.priority[t] > p =>
              sched.status[t] \notin {"RUN", "WAIT"}

NobodyCreates == \A t \in Task : creating[t] = NULL

Executes(t) == Current(sched) = t /\ t \notin in_pit

RoundRobin ==
  ([]<>Quiet(USER) /\ <>[]NobodyCreates) =>
    \A t \in Pool : sched.status[t] = "WAIT" /\ sched.priority[t] = USER
                      ~> Executes(t)
=============================================================================
