----------------------------- MODULE Scheduler ------------------------------
(***************************************************************************)
(* The scheduler of the task system (hev-task-system-schedule.c) and its   *)
(* timers (hev-task-timer.c), on which every task of the engine runs.      *)
(*                                                                         *)
(* The cached red-black trees are sequences in the order of the tree;      *)
(* ListDel stands for the erasure of a node.                               *)
(* Keys are kept relative to the first task of the run queue, so that they *)
(* stay bounded: only their differences matter.  Times are the time units  *)
(* that remain, 0 when the timer expired.                                  *)
(***************************************************************************)
EXTENDS Integers, Sequences, FiniteSets, Lists

CONSTANTS
  Task,           \* places for tasks
  Main,           \* the task hev_task_system_run starts with
  priority(_),    \* of a task, set before it runs
  MaxRuntime,     \* bound: what a turn adds to the runtime; 1 for CLOCK_NONE
  MaxDelay        \* bound: time units of a sleep

ASSUME SchedulerAssumption ==
  /\ Main \in Task /\ IsFiniteSet(Task)
  /\ \A t \in Task : priority(t) \in 1..15
  /\ MaxRuntime \in Nat \ {0} /\ MaxDelay \in Nat

VARIABLES
  pc,             \* "run": the current task runs; "resume": inside
                  \* hev_task_timer_wait; "pick", "poll", "idle", "end"
  current,        \* ctx->current_task
  state,          \* HevTaskState
  sched_key,
  running_tasks,  \* the run queue
  running_task_count, total_task_count,
  sort_tree,      \* tasks with a timer, first to expire first
  leftmost,       \* of hev_task_timer_wait, per task
  rest,           \* time that remains of the timer of a task
  io              \* tasks with an event in the reactor

sched == <<state, sched_key, running_tasks, running_task_count>>
timer == <<sort_tree, leftmost, rest>>
vars == <<pc, current, sched, total_task_count, timer, io>>

Members(q) == {q[i] : i \in 1..Len(q)}

(* t comes behind the first n.                                             *)
InsertAt(q, n, t) ==
  [i \in 1..(Len(q) + 1) |-> IF i <= n THEN q[i] ELSE IF i = n + 1 THEN t ELSE q[i - 1]]

Init ==
  /\ pc = "pick" /\ current = Main
  /\ state = [t \in Task |-> IF t = Main THEN "RUNNING" ELSE "STOPPED"]
  /\ sched_key = [t \in Task |-> 0]
  /\ running_tasks = <<Main>> /\ running_task_count = 1 /\ total_task_count = 1
  /\ sort_tree = <<>> /\ leftmost = [t \in Task |-> FALSE] /\ rest = [t \in Task |-> 0]
  /\ io = {}

-----------------------------------------------------------------------------
(* The run queue.                                                          *)

(* The keys k relative to the first task of the queue q.                   *)
Rebase(k, q) ==
  [t \in Task |-> IF t \in Members(q) THEN k[t] - k[q[1]] ELSE k[t]]

(* _hev_task_system_insert_task: after the tasks with the same key.        *)
Insert(q, k, t) ==
  \E n \in 0..Len(q) :
    /\ \A i \in 1..n : k[q[i]] <= k[t]
    /\ \A i \in (n + 1)..Len(q) : k[t] < k[q[i]]
    /\ running_tasks' = InsertAt(q, n, t)
    /\ sched_key' = Rebase(k, running_tasks')

(* hev_task_system_insert_task of a task with key k above the first one.   *)
InsertTask(t, k) ==
  /\ state' = [state EXCEPT ![t] = "RUNNING"]
  /\ running_task_count' = running_task_count + 1
  /\ Insert(running_tasks, [sched_key EXCEPT ![t] = k], t)

(* Mutant: the state is not looked at.                                     *)
Wakeup_Always(t) == InsertTask(t, sched_key[t])

(* hev_task_system_wakeup_task_with_context; a stopped task would abort.   *)
Wakeup(t) ==
  \/ state[t] = "RUNNING" /\ UNCHANGED sched
  \/ state[t] = "WAITING" /\ InsertTask(t, sched_key[t])

-----------------------------------------------------------------------------
(* What the current task does in its turn.                                 *)

Turn == pc = "run"

(* hev_task_new, hev_task_run                                              *)
Run(t) ==
  /\ Turn /\ state[t] = "STOPPED"
  /\ InsertTask(t, priority(t))
  /\ total_task_count' = total_task_count + 1
  /\ UNCHANGED <<pc, current, timer, io>>

(* hev_task_wakeup                                                         *)
Wake(t) ==
  /\ Turn /\ state[t] # "STOPPED"
  /\ Wakeup(t)
  /\ UNCHANGED <<pc, current, total_task_count, timer, io>>

(* Mutant: a turn shorter than the resolution of the clock is free.        *)
Runtime_Free == 0..MaxRuntime

(* hev_task_system_update_sched_key                                        *)
Runtime == 1..MaxRuntime

(* HEV_TASK_YIELD: hev_task_system_reinsert_current_task                   *)
Yield(r) ==
  /\ Turn /\ pc' = "pick"
  /\ Insert(ListDel(running_tasks, current),
            [sched_key EXCEPT ![current] = @ + r * priority(current)], current)
  /\ UNCHANGED <<current, state, running_task_count, total_task_count, timer, io>>

(* hev_task_system_remove_current_task                                     *)
Remove(s) ==
  /\ pc' = "pick"
  /\ state' = [state EXCEPT ![current] = s]
  /\ running_tasks' = ListDel(running_tasks, current)
  /\ running_task_count' = running_task_count - 1
  /\ sched_key' = Rebase([sched_key EXCEPT ![current] = priority(current)], running_tasks')
  /\ UNCHANGED current

(* HEV_TASK_WAITIO                                                         *)
Wait ==
  /\ Turn /\ Remove("WAITING")
  /\ UNCHANGED <<total_task_count, timer, io>>

(* hev_task_sleep: timers of the same time are in the order of their       *)
(* addresses, which may be any.                                            *)
Sleep(d) ==
  /\ Turn /\ Remove("WAITING")
  /\ \E n \in 0..Len(sort_tree) :
       /\ \A i \in 1..n : rest[sort_tree[i]] <= d
       /\ \A i \in (n + 1)..Len(sort_tree) : d <= rest[sort_tree[i]]
       /\ sort_tree' = InsertAt(sort_tree, n, current)
       /\ leftmost' = [leftmost EXCEPT ![current] = (n = 0)]
  /\ rest' = [rest EXCEPT ![current] = d]
  /\ UNCHANGED <<total_task_count, io>>

(* hev_task_executer: the entry returns, its descriptors closed.           *)
Exit ==
  /\ Turn /\ Remove("STOPPED")
  /\ total_task_count' = total_task_count - 1
  /\ io' = io \ {current}
  /\ UNCHANGED timer

(* The end of hev_task_timer_wait: the timer goes, and a task that was or  *)
(* is the first one wakes the next.                                        *)
Resume ==
  /\ pc = "resume" /\ pc' = "run"
  /\ sort_tree' = ListDel(sort_tree, current)
  /\ IF (leftmost[current] \/ sort_tree[1] = current)
          /\ sort_tree' # <<>> /\ rest[sort_tree'[1]] = 0
     THEN Wakeup(sort_tree'[1])
     ELSE UNCHANGED sched
  /\ leftmost' = [leftmost EXCEPT ![current] = FALSE]
  /\ rest' = [rest EXCEPT ![current] = 0]
  /\ UNCHANGED <<current, total_task_count, io>>

-----------------------------------------------------------------------------
(* hev_task_system_schedule, in the context of the kernel.                 *)

(* The current task is the first one, and continues.                       *)
Choose ==
  /\ current' = running_tasks'[1]
  /\ pc' = IF running_tasks'[1] \in Members(sort_tree) THEN "resume" ELSE "run"

(* Mutant: the reactor is asked only when no task can run.                 *)
Pick_Busy ==
  /\ pc = "pick" /\ total_task_count > 0
  /\ UNCHANGED sched
  /\ IF running_task_count = 0
     THEN pc' = "idle" /\ UNCHANGED current
     ELSE Choose
  /\ UNCHANGED <<total_task_count, timer, io>>

(* hev_task_system_pick_current_task                                       *)
Pick ==
  /\ pc = "pick" /\ total_task_count > 0
  /\ UNCHANGED sched
  /\ IF running_task_count < total_task_count
     THEN pc' = (IF running_task_count = 0 THEN "idle" ELSE "poll") /\ UNCHANGED current
     ELSE Choose
  /\ UNCHANGED <<total_task_count, timer, io>>

Stop ==
  /\ pc = "pick" /\ total_task_count = 0
  /\ pc' = "end"
  /\ UNCHANGED <<current, sched, total_task_count, timer, io>>

Expired == sort_tree # <<>> /\ rest[sort_tree[1]] = 0

(* hev_task_io_reactor_wait returns: an event, or the first timer.         *)
IdleEnds ==
  /\ pc = "idle" /\ (io # {} \/ Expired)
  /\ pc' = "poll"
  /\ UNCHANGED <<current, sched, total_task_count, timer, io>>

(* hev_task_system_io_poll: the events, then hev_task_timer_wake.          *)
PollEvent(t) ==
  /\ pc = "poll" /\ t \in io
  /\ Wakeup(t) /\ io' = io \ {t}
  /\ UNCHANGED <<pc, current, total_task_count, timer>>

(* Mutant: the timers are asked only when there was no event to handle.    *)
PollTimer_Idle ==
  /\ pc = "poll" /\ io = {}
  /\ IF Expired /\ running_task_count = 0 THEN Wakeup(sort_tree[1]) ELSE UNCHANGED sched
  /\ IF running_task_count' = 0 THEN pc' = "idle" /\ UNCHANGED current ELSE Choose
  /\ UNCHANGED <<total_task_count, timer, io>>

PollTimer ==
  /\ pc = "poll" /\ io = {}
  /\ IF Expired THEN Wakeup(sort_tree[1]) ELSE UNCHANGED sched
  /\ IF running_task_count' = 0 THEN pc' = "idle" /\ UNCHANGED current ELSE Choose
  /\ UNCHANGED <<total_task_count, timer, io>>

-----------------------------------------------------------------------------
(* Time and events.                                                        *)

Tick ==
  /\ \E t \in Members(sort_tree) : rest[t] > 0
  /\ rest' = [t \in Task |-> IF rest[t] > 0 THEN rest[t] - 1 ELSE 0]
  /\ UNCHANGED <<pc, current, sched, total_task_count, sort_tree, leftmost, io>>

Event(t) ==
  /\ pc # "poll" /\ state[t] # "STOPPED" /\ t \notin io
  /\ io' = io \cup {t}
  /\ UNCHANGED <<pc, current, sched, total_task_count, timer>>

-----------------------------------------------------------------------------
TurnEnds == (\E r \in Runtime : Yield(r)) \/ Wait \/ (\E d \in 1..MaxDelay : Sleep(d)) \/ Exit
Kernel == Resume \/ Pick \/ Stop \/ IdleEnds \/ PollTimer \/ \E t \in Task : PollEvent(t)
Halted == pc = "end" /\ UNCHANGED vars

Next ==
  \/ TurnEnds \/ Kernel
  \/ \E t \in Task : Wake(t) \/ Run(t)
  \/ Tick \/ (\E t \in Task : Event(t))
  \/ Halted

Spec == Init /\ [][Next]_vars

(* The kernel runs, and every turn ends.                                   *)
FairSpec == Spec /\ WF_vars(Kernel) /\ WF_vars(TurnEnds)

-----------------------------------------------------------------------------
(* Properties.                                                             *)

(* Types of the state; no key is more than one turn ahead of the first.    *)
TypeOK ==
  /\ pc \in {"run", "resume", "pick", "poll", "idle", "end"}
  /\ current \in Task
  /\ state \in [Task -> {"RUNNING", "WAITING", "STOPPED"}]
  /\ \A t \in Task : \E p \in Task : sched_key[t] \in 0..(priority(p) * MaxRuntime)
  /\ running_task_count \in 0..Cardinality(Task) /\ total_task_count \in 0..Cardinality(Task)
  /\ rest \in [Task -> 0..MaxDelay] /\ leftmost \in [Task -> BOOLEAN] /\ io \subseteq Task

(* The run queue holds each task that can run once, in the order of the    *)
(* keys, the counters agree with it, the kernel sleeps only when no task   *)
(* can run, and the task whose turn it is comes first, as the computation  *)
(* of new keys from the first one takes for granted.                       *)
QueueExact ==
  /\ Members(running_tasks) = {t \in Task : state[t] = "RUNNING"}
  /\ Len(running_tasks) = running_task_count
  /\ Cardinality(Members(running_tasks)) = running_task_count
  /\ \A i, j \in DOMAIN running_tasks :
       i < j => sched_key[running_tasks[i]] <= sched_key[running_tasks[j]]
  /\ total_task_count = Cardinality({t \in Task : state[t] # "STOPPED"})
  /\ pc = "idle" => running_tasks = <<>>
  /\ pc \in {"run", "resume"} => running_tasks # <<>> /\ running_tasks[1] = current

(* The nodes of the timers are on the stacks of their tasks: each belongs  *)
(* to a task inside its sleep, and the first to expire comes first.        *)
TimersExact ==
  /\ Cardinality(Members(sort_tree)) = Len(sort_tree)
  /\ \A t \in Members(sort_tree) : state[t] # "STOPPED" /\ (pc = "run" => t # current)
  /\ \A i, j \in DOMAIN sort_tree : i < j => rest[sort_tree[i]] <= rest[sort_tree[j]]

(* Both trees are exact in every step of tasks, timers and the kernel.     *)
QueuesExact == TypeOK /\ QueueExact /\ TimersExact

(* A task that can run gets its turn, whatever the others do: yield, wake  *)
(* each other up or start new tasks.                                       *)
NoStarvation == \A t \in Task : state[t] = "RUNNING" ~> current = t

(* A task whose timer expired gets its turn, even if the first timer       *)
(* belongs to a task that was woken already, and tasks never stop running. *)
TimersFire ==
  \A t \in Task : t \in Members(sort_tree) /\ rest[t] = 0 ~> t \notin Members(sort_tree)

(* A task that waits for an event is woken when it comes, although other   *)
(* tasks never wait.                                                       *)
EventsServed == \A t \in Task : state[t] = "WAITING" /\ t \in io ~> state[t] # "WAITING"
=============================================================================
