------------------------------ MODULE DnsProxy ------------------------------
(***************************************************************************)
(* The DNS proxy of the task system (hev-task-dns-proxy.c), through which  *)
(* every session resolves the name of the SOCKS5 server, with the task     *)
(* mutex that serialises its callers (hev-task-mutex.c) and the resolver   *)
(* thread (hev-task-aide.c).                                               *)
(*                                                                         *)
(* The tasks share one thread; an action of a task is its code up to the   *)
(* next yield, except that a call is cut between its write and its read:   *)
(* the resolver runs in a thread of its own and may answer in between.     *)
(* Both ends of the socket pair report events edge-triggered: `edge' and   *)
(* `wedge' are the events not yet collected by epoll.                      *)
(***************************************************************************)
EXTENDS Integers, Sequences, Lists

CONSTANTS
  Task,           \* session tasks
  dummy_task,     \* the always running task that absorbs events
  null,           \* no task: sched_entity.task of a new proxy
  MaxCalls        \* bound: calls a task makes

ASSUME DummyAssumption ==
  dummy_task \notin Task /\ null \notin Task /\ dummy_task # null
ASSUME CallsAssumption == MaxCalls \in Nat

VARIABLES
  state,          \* HevTaskState
  pc,             \* "idle", "lock" (waits for the mutex), "read" (owns it), "done"
  calls,          \* calls a task still makes
  locker, waiters,        \* HevTaskMutex
  call,           \* proxy->call, named by the task whose stack holds it
  entity,         \* proxy->sched_entity.task
  req, rsp,       \* bytes on their way to and from the resolver
  edge, wedge,    \* events pending for proxy->fd and for proxy->work.fd
  rpc,            \* the resolver: "poll", "read", "work", "reply"
  ret,            \* the result of a task's call has been stored
  alive           \* the proxy exists

mutex    == <<locker, waiters>>
proxy    == <<call, entity, alive>>
sockets  == <<req, rsp, edge, wedge>>
vars     == <<state, pc, calls, mutex, proxy, sockets, rpc, ret>>

TypeOK ==
  /\ state \in [Task -> {"STOPPED", "RUNNING", "WAITING"}]
  /\ pc \in [Task -> {"idle", "lock", "read", "done"}]
  /\ calls \in [Task -> Nat]
  /\ locker \in BOOLEAN /\ waiters \in Seq(Task)
  /\ call \in Task \cup {null} /\ entity \in Task \cup {dummy_task, null}
  /\ req \in {0, 1} /\ rsp \in {0, 1}
  /\ edge \in BOOLEAN /\ wedge \in BOOLEAN
  /\ rpc \in {"poll", "read", "work", "reply"}
  /\ ret \in [Task -> BOOLEAN]
  /\ alive \in BOOLEAN

(* The proxy is created by the first call.                                 *)
Init ==
  /\ state = [t \in Task |-> "RUNNING"]
  /\ pc = [t \in Task |-> "idle"]
  /\ calls = [t \in Task |-> MaxCalls]
  /\ locker = FALSE /\ waiters = <<>>
  /\ call = null /\ entity = null
  /\ req = 0 /\ rsp = 0 /\ edge = FALSE /\ wedge = FALSE
  /\ rpc = "poll"
  /\ ret = [t \in Task |-> FALSE]
  /\ alive = FALSE

-----------------------------------------------------------------------------
(* hev_task_wakeup on every task of T; none of them is ever stopped, see   *)
(* WakesLiveTask.                                                          *)
Woken(st, T) ==
  [t \in Task |-> IF t \in T /\ st[t] = "WAITING" THEN "RUNNING" ELSE st[t]]

(* Mutant: the events still go to the dummy task.                          *)
Publish_NoEntity(t) ==
  /\ locker' = TRUE
  /\ call' = t /\ entity' = dummy_task
  /\ req' = req + 1 /\ wedge' = TRUE
  /\ pc' = [pc EXCEPT ![t] = "read"]
  /\ UNCHANGED <<rsp, rpc, state>>

(* hev_task_dns_proxy_call with the mutex: publish the call, write a byte. *)
Publish(t) ==
  /\ locker' = TRUE
  /\ call' = t /\ entity' = t
  /\ req' = req + 1 /\ wedge' = TRUE
  /\ pc' = [pc EXCEPT ![t] = "read"]
  /\ UNCHANGED <<rsp, rpc, state>>

(* hev_task_dns_proxy_get and hev_task_dns_proxy_new: the first call makes *)
(* the proxy, whose fd reports that it is writable.                        *)
Get == alive' = TRUE /\ edge' = (edge \/ ~alive)

(* hev_task_dns_proxy_new failed: the call returns EAI_SYSTEM.             *)
NewFails(t) ==
  /\ state[t] = "RUNNING" /\ pc[t] = "idle" /\ calls[t] > 0 /\ ~alive
  /\ calls' = [calls EXCEPT ![t] = @ - 1]
  /\ UNCHANGED <<state, pc, mutex, proxy, sockets, rpc, ret>>

(* hev_task_mutex_lock finds the mutex free.                               *)
Call(t) ==
  /\ state[t] = "RUNNING" /\ pc[t] = "idle" /\ calls[t] > 0
  /\ ~locker
  /\ Get
  /\ ret' = [ret EXCEPT ![t] = FALSE]
  /\ calls' = [calls EXCEPT ![t] = @ - 1]
  /\ Publish(t)
  /\ UNCHANGED waiters

(* hev_task_mutex_lock finds the mutex taken: the newest waiter is first.  *)
LockWait(t) ==
  /\ state[t] = "RUNNING" /\ pc[t] = "idle" /\ calls[t] > 0
  /\ locker
  /\ ret' = [ret EXCEPT ![t] = FALSE]
  /\ waiters' = Push(waiters, t)
  /\ pc' = [pc EXCEPT ![t] = "lock"]
  /\ state' = [state EXCEPT ![t] = "WAITING"]
  /\ calls' = [calls EXCEPT ![t] = @ - 1]
  /\ UNCHANGED <<locker, proxy, sockets, rpc>>

(* Mutant: the waiter does not look at its place.                          *)
MayLock_Anyone(t) == ~locker

(* A waiter runs again, because of an unlock or for another reason.        *)
MayLock(t) == ~locker /\ Head(waiters) = t

LockAgain(t) ==
  /\ state[t] = "RUNNING" /\ pc[t] = "lock" /\ ~MayLock(t)
  /\ state' = [state EXCEPT ![t] = "WAITING"]
  /\ UNCHANGED <<pc, calls, mutex, proxy, sockets, rpc, ret>>

Locked(t) ==
  /\ state[t] = "RUNNING" /\ pc[t] = "lock" /\ MayLock(t)
  /\ waiters' = Tail(waiters)
  /\ Publish(t)
  /\ UNCHANGED <<edge, alive, ret, calls>>

(* read finds no answer.                                                   *)
ReadWait(t) ==
  /\ state[t] = "RUNNING" /\ pc[t] = "read" /\ rsp = 0
  /\ state' = [state EXCEPT ![t] = "WAITING"]
  /\ UNCHANGED <<pc, calls, mutex, proxy, sockets, rpc, ret>>

(* Mutants: a call that returns when it is woken, answer or not, and one   *)
(* that leaves itself as the task to wake.                                 *)
Return_WhenWoken(t) ==
  /\ state[t] = "RUNNING" /\ pc[t] = "read"
  /\ rsp' = 0
  /\ entity' = dummy_task
  /\ locker' = FALSE
  /\ state' = state
  /\ pc' = [pc EXCEPT ![t] = "idle"]
  /\ UNCHANGED <<calls, waiters, call, req, edge, wedge, rpc, ret, alive>>
Return_KeepsEntity(t) ==
  /\ state[t] = "RUNNING" /\ pc[t] = "read" /\ rsp > 0
  /\ rsp' = rsp - 1
  /\ locker' = FALSE
  /\ state' = state
  /\ pc' = [pc EXCEPT ![t] = "idle"]
  /\ UNCHANGED <<calls, waiters, call, entity, req, edge, wedge, rpc, ret, alive>>

(* read finds the answer; hev_task_mutex_unlock wakes the first waiter.    *)
Unlocked == IF waiters = <<>> THEN {} ELSE {Head(waiters)}

Return(t) ==
  /\ state[t] = "RUNNING" /\ pc[t] = "read" /\ rsp > 0
  /\ rsp' = rsp - 1
  /\ entity' = dummy_task
  /\ locker' = FALSE
  /\ state' = Woken(state, Unlocked)
  /\ pc' = [pc EXCEPT ![t] = "idle"]
  /\ UNCHANGED <<calls, waiters, call, req, edge, wedge, rpc, ret, alive>>

(* The session ends.                                                       *)
End(t) ==
  /\ state[t] = "RUNNING" /\ pc[t] = "idle"
  /\ pc' = [pc EXCEPT ![t] = "done"]
  /\ state' = [state EXCEPT ![t] = "STOPPED"]
  /\ UNCHANGED <<calls, mutex, proxy, sockets, rpc, ret>>

(* Any wakeup that has nothing to do with the call, such as                *)
(* hev_socks5_session_terminate or tcp_recv_handler.                       *)
Wake(t) ==
  /\ state[t] = "WAITING"
  /\ state' = Woken(state, {t})
  /\ UNCHANGED <<pc, calls, mutex, proxy, sockets, rpc, ret>>

(* hev_task_system_io_poll collects the event of proxy->fd.                *)
Poll ==
  /\ edge /\ alive
  /\ edge' = FALSE
  /\ state' = Woken(state, {entity})
  /\ UNCHANGED <<pc, calls, mutex, proxy, req, rsp, wedge, rpc, ret>>

(* hev_task_system_fini, when all tasks have ended: the proxy is destroyed *)
(* and its fds are closed.                                                 *)
Destroy ==
  /\ alive /\ \A t \in Task : pc[t] = "done"
  /\ alive' = FALSE /\ edge' = FALSE /\ wedge' = FALSE
  /\ UNCHANGED <<state, pc, calls, mutex, call, entity, req, rsp, rpc, ret>>

-----------------------------------------------------------------------------
(* The resolver thread: hev_task_aide_entry, hev_task_dns_server_handler.  *)

AidePoll ==
  /\ rpc = "poll" /\ wedge
  /\ wedge' = FALSE
  /\ rpc' = "read"
  /\ UNCHANGED <<state, pc, calls, mutex, proxy, req, rsp, edge, ret>>

(* Mutant: the answer is sent before the call is made.                     *)
ServerRead_NoWork ==
  /\ rpc = "read" /\ req > 0
  /\ req' = req - 1
  /\ edge' \in {edge, TRUE}
  /\ rpc' = "reply"
  /\ UNCHANGED <<state, pc, calls, mutex, proxy, rsp, wedge, ret>>

(* Reading may free room in the socket, an event for the writer.           *)
ServerRead ==
  /\ rpc = "read" /\ req > 0
  /\ req' = req - 1
  /\ edge' \in {edge, TRUE}
  /\ rpc' = "work"
  /\ UNCHANGED <<state, pc, calls, mutex, proxy, rsp, wedge, ret>>

ServerIdle ==
  /\ rpc = "read" /\ req = 0
  /\ rpc' = "poll"
  /\ UNCHANGED <<state, pc, calls, mutex, proxy, sockets, ret>>

(* getaddrinfo returned; the result goes to proxy->call.                   *)
ServerWork ==
  /\ rpc = "work"
  /\ ret' = [ret EXCEPT ![call] = TRUE]
  /\ rpc' = "reply"
  /\ UNCHANGED <<state, pc, calls, mutex, proxy, sockets>>

(* Mutant: the resolver goes on without an answer, as after a failed write.*)
ServerReply_Lost ==
  /\ rpc = "reply"
  /\ rpc' = "read"
  /\ UNCHANGED <<state, pc, calls, mutex, proxy, sockets, ret>>

ServerReply ==
  /\ rpc = "reply"
  /\ rsp' = rsp + 1 /\ edge' = TRUE
  /\ rpc' = "read"
  /\ UNCHANGED <<state, pc, calls, mutex, proxy, req, wedge, ret>>

-----------------------------------------------------------------------------
TaskStep(t) ==
  \/ NewFails(t) \/ Call(t) \/ LockWait(t) \/ LockAgain(t) \/ Locked(t)
  \/ ReadWait(t) \/ Return(t) \/ End(t)

Server == AidePoll \/ ServerRead \/ ServerIdle \/ ServerWork \/ ServerReply

Finished ==
  /\ ~alive /\ rpc = "poll" /\ \A t \in Task : pc[t] = "done"
  /\ UNCHANGED vars

Next ==
  \/ \E t \in Task : TaskStep(t) \/ Wake(t)
  \/ Poll \/ Destroy \/ Server \/ Finished

Spec == Init /\ [][Next]_vars

(* A running task gets its turn, the scheduler polls, getaddrinfo returns. *)
Fairness ==
  /\ \A t \in Task : WF_vars(TaskStep(t))
  /\ WF_vars(Poll) /\ WF_vars(Server)

FairSpec == Spec /\ Fairness

-----------------------------------------------------------------------------
(* Properties.                                                             *)

(* The mutex is held by exactly the task that is between the write and the *)
(* end of its call, and the waiters are the tasks that wait for it, each   *)
(* once: a node on the stack of a task that no longer waits would dangle.  *)
MutexExact ==
  /\ locker <=> \E t \in Task : pc[t] = "read"
  /\ \A t, u \in Task : pc[t] = "read" /\ pc[u] = "read" => t = u
  /\ Distinct(waiters)
  /\ \A t \in Task : InList(waiters, t) <=> pc[t] = "lock"

(* When the mutex is free its first waiter has been woken, although a task *)
(* may have taken and left the mutex in between, and although waiters are  *)
(* woken for other reasons and go back to sleep.                           *)
NoLostUnlock ==
  ~locker /\ waiters # <<>> => state[Head(waiters)] = "RUNNING"

(* An answer is never left unread by a sleeping task: its edge-triggered   *)
(* event is still pending and goes to that task.                           *)
NoLostAnswer ==
  \A t \in Task : pc[t] = "read" /\ state[t] = "WAITING" /\ rsp > 0
                    => edge /\ entity = t

(* While the resolver thread may follow proxy->call, the call is on the    *)
(* stack of a task that is inside hev_task_dns_proxy_call, the proxy       *)
(* exists, and exactly one request, call or answer is under way.           *)
CallIsLive ==
  req > 0 \/ rsp > 0 \/ rpc \in {"work", "reply"} =>
    /\ alive
    /\ call \in Task /\ pc[call] = "read" /\ entity = call
    /\ req + rsp + (IF rpc \in {"work", "reply"} THEN 1 ELSE 0) = 1

(* The task that an event of the proxy would wake is never NULL, as it is  *)
(* in a new proxy, and never stopped, which would abort the process.       *)
WakesLiveTask ==
  alive => entity # null /\ (entity \in Task => state[entity] # "STOPPED")

(* A call returns only with the result of its own request.                 *)
OwnAnswer == [][\A t \in Task : pc[t] = "read" /\ pc'[t] = "idle" => ret[t]]_vars

(* Whoever waits for the mutex gets it and every call returns, as long as  *)
(* the number of further calls is finite: the waiters are served last in   *)
(* first out, so endless new callers could starve an old one.              *)
CallReturns == \A t \in Task : pc[t] \in {"lock", "read"} ~> pc[t] = "idle"

(* The inductive invariant.                                                *)
Owner ==
  /\ locker => /\ call \in Task /\ pc[call] = "read" /\ entity = call
               /\ req + rsp + (IF rpc \in {"work", "reply"} THEN 1 ELSE 0) = 1
  /\ ~locker => /\ entity = (IF call = null THEN null ELSE dummy_task)
                /\ req = 0 /\ rsp = 0 /\ rpc \notin {"work", "reply"}
  /\ ~alive => ~locker /\ waiters = <<>>
  /\ alive => call # null
Answered == rsp > 0 \/ rpc = "reply" => ret[call]
Stopped == \A t \in Task : state[t] = "STOPPED" <=> pc[t] = "done"
ProxyInv ==
  /\ TypeOK /\ MutexExact /\ NoLostUnlock /\ NoLostAnswer
  /\ Owner /\ Answered /\ Stopped
=============================================================================
