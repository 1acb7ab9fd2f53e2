------------------------------- MODULE Tunnel -------------------------------
(***************************************************************************)
(* The tunnel of the engine: hev-socks5-tunnel.c with the task scheduler   *)
(* it runs on and the control flow of its sessions.                        *)
(*                                                                         *)
(* All tasks share one thread and a task runs until it yields.  An action  *)
(* of a task is enabled when the task is RUNNING and stands for its code   *)
(* up to the next yield, or to the next phase of the session where one     *)
(* turn runs through several: then tasks may interleave in the model where *)
(* they cannot in the program, never the other way round.  Three tasks     *)
(* live as long as the tunnel: "event" (stop request), "io" (packets of    *)
(* the TUN device, lwIP input) and "timer" (lwIP timers).  Every proxied   *)
(* flow has a session task.                                                *)
(***************************************************************************)
EXTENDS Integers, Sequences, Lists

CONSTANTS
  TcpSession,     \* slots for HevSocks5SessionTCP objects
  UdpSession,     \* slots for HevSocks5SessionUDP objects
  MaxSession,     \* misc.max-session-count, 0: unlimited
  ServerIsName,   \* socks5.address is a host name, not an IP literal
  UdpIsName       \* UDP in UDP, and socks5.udp-address is a host name

Session == TcpSession \cup UdpSession
Daemon  == {"event", "io", "timer"}
Task    == Daemon \cup Session

ASSUME SessionAssumption ==
  /\ TcpSession \cap UdpSession = {}
  /\ Session \cap Daemon = {}
ASSUME MaxSessionAssumption == MaxSession \in Nat
ASSUME ServerAssumption == ServerIsName \in BOOLEAN /\ UdpIsName \in BOOLEAN

VARIABLES
  state,          \* HevTaskState of every task
  run,            \* static int run
  quit,           \* a byte is waiting in event_fds[0]
  evpc,           \* where event_task_entry is
  nap,            \* how the timer task waits: "tick" (sleep) or "park" (WAITIO)
  session_set,    \* the list of sessions, least recently active first
  session_count,
  pc,             \* where a session task is; "free": no session in this slot
  timeout,        \* HevSocks5.timeout: 0, 1 (a time limit) or -1 (not set)
  sleep,          \* the session's last yield and what ended it
  half,           \* a UDP direction was closed by a call that had waited
  pcb,            \* the lwIP pcb of the session exists
  aborted         \* abort () was called

globals  == <<run, quit, evpc, nap>>
set      == <<session_set, session_count>>
sessions == <<pc, timeout, sleep, half, pcb>>
vars     == <<state, globals, set, sessions, aborted>>

(* A UDP session waits inside a call of hev-socks5-udp.c in "fwd" while    *)
(* the call has moved no byte, and in "part" once it has moved some.       *)
Phase   == {"free", "start", "resolve", "connect", "handshake", "lookup",
            "splice", "fwd", "part", "drain"}
Timed   == {"connect", "handshake", "splice", "fwd", "part", "drain"}

TypeOK ==
  /\ state \in [Task -> {"STOPPED", "RUNNING", "WAITING"}]
  /\ run \in BOOLEAN /\ quit \in BOOLEAN
  /\ evpc \in {"read", "join_io", "join_timer", "done"}
  /\ nap \in {"tick", "park"}
  /\ session_set \in Seq(Session)
  /\ session_count \in Nat
  /\ pc \in [Session -> Phase]
  /\ timeout \in [Session -> {-1, 0, 1}]
  /\ sleep \in [Session -> {"no", "yield", "forever", "limit", "expired",
                         "answered"}]
  /\ half \in [Session -> BOOLEAN]
  /\ pcb \in [Session -> BOOLEAN]
  /\ aborted \in BOOLEAN

(* hev_socks5_tunnel_run: the three tasks are started, then run = 1.       *)
Init ==
  /\ state = [t \in Task |-> IF t \in Daemon THEN "RUNNING" ELSE "STOPPED"]
  /\ run = TRUE /\ quit = FALSE
  /\ evpc = "read" /\ nap = "park"
  /\ session_set = <<>> /\ session_count = 0
  /\ pc = [s \in Session |-> "free"]
  /\ timeout = [s \in Session |-> -1]
  /\ sleep = [s \in Session |-> "no"]
  /\ half = [s \in Session |-> FALSE]
  /\ pcb = [s \in Session |-> FALSE]
  /\ aborted = FALSE

-----------------------------------------------------------------------------
(* Lists and tasks.                                                        *)

(* Mutant: the node is added again without being taken out.                *)
Updated_NoDel(list, node) ==
  IF MaxSession = 0 THEN list ELSE Append(list, node)

(* hev_socks5_tunnel_update_session                                        *)
Updated(list, node) ==
  IF MaxSession = 0 THEN list ELSE Append(ListDel(list, node), node)

(* hev_task_system_wakeup_task_with_context on every task of T.            *)
Woken(st, T) ==
  [t \in Task |-> IF t \in T /\ st[t] = "WAITING" THEN "RUNNING" ELSE st[t]]
WakeAborts(st, T) == \E t \in T : st[t] = "STOPPED"

(* Task t yields HEV_TASK_WAITIO, or its entry function returned.          *)
Leave(t, st) == state' = [state EXCEPT ![t] = st]

(* hev_socks5_session_terminate on every session of S: timeout 0, wakeup.  *)
Cut(S) == timeout' = [s \in Session |-> IF s \in S THEN 0 ELSE timeout[s]]
Terminate(S) ==
  /\ Cut(S)
  /\ state' = Woken(state, S)
  /\ aborted' = WakeAborts(state, S)

-----------------------------------------------------------------------------
(* The scheduler.                                                          *)

(* hev_task_system_io_poll: an fd of task t became ready.                  *)
FdReady(t) ==
  /\ state[t] = "WAITING"
  /\ \/ t = "io"
     \/ t = "event" /\ quit /\ evpc = "read"
     \/ t \in Session /\ pc[t] \in Timed \cup {"lookup"}
  /\ state' = Woken(state, {t})
  /\ UNCHANGED <<globals, set, sessions, aborted>>

(* hev_task_timer_wake: the time limit of a sleeping session ran out.      *)
Expire(s) ==
  /\ sleep[s] = "limit"
  /\ sleep' = [sleep EXCEPT ![s] = "expired"]
  /\ state' = Woken(state, {s})
  /\ UNCHANGED <<globals, set, pc, timeout, half, pcb, aborted>>

(* hev_task_timer_wake: TCP_TMR_INTERVAL of the timer task is over.        *)
Tick ==
  /\ state["timer"] = "WAITING" /\ nap = "tick"
  /\ state' = Woken(state, {"timer"})
  /\ UNCHANGED <<globals, set, sessions, aborted>>

(* The resolver thread answered the getaddrinfo call of session s.         *)
DnsAnswer(s) ==
  /\ pc[s] \in {"resolve", "lookup"} /\ sleep[s] = "forever"
  /\ sleep' = [sleep EXCEPT ![s] = "answered"]
  /\ state' = Woken(state, {s})
  /\ UNCHANGED <<globals, set, pc, timeout, half, pcb, aborted>>

-----------------------------------------------------------------------------
(* The event task.                                                         *)

(* hev_socks5_tunnel_stop, from another thread: write to event_fds[1].     *)
Stop ==
  /\ ~quit /\ quit' = TRUE
  /\ UNCHANGED <<state, run, evpc, nap, set, sessions, aborted>>

EventWait ==
  /\ state["event"] = "RUNNING" /\ evpc = "read" /\ ~quit
  /\ Leave("event", "WAITING")
  /\ UNCHANGED <<globals, set, sessions, aborted>>

EventStop ==
  /\ state["event"] = "RUNNING" /\ evpc = "read" /\ quit
  /\ run' = FALSE
  /\ Terminate({s \in Session : InList(session_set, s)})
  /\ evpc' = "join_io"
  /\ UNCHANGED <<quit, nap, set, pc, sleep, half, pcb>>

(* hev_task_join: wake the task and wait until it has stopped.             *)
JoinWait(t, at) ==
  /\ state["event"] = "RUNNING" /\ evpc = at /\ state[t] # "STOPPED"
  /\ state' = [Woken(state, {t}) EXCEPT !["event"] = "WAITING"]
  /\ UNCHANGED <<globals, set, sessions, aborted>>

IoJoined ==
  /\ state["event"] = "RUNNING" /\ evpc = "join_io" /\ state["io"] = "STOPPED"
  /\ evpc' = "join_timer"
  /\ UNCHANGED <<state, run, quit, nap, set, sessions, aborted>>

EventExit ==
  /\ state["event"] = "RUNNING" /\ evpc = "join_timer" /\ state["timer"] = "STOPPED"
  /\ evpc' = "done"
  /\ Leave("event", "STOPPED")
  /\ UNCHANGED <<run, quit, nap, set, sessions, aborted>>

(* hev_task_executer: the entry of t returned; its joiner is woken.        *)
Exit(t, joined) ==
  /\ state' = [(IF joined THEN Woken(state, {"event"}) ELSE state)
                 EXCEPT ![t] = "STOPPED"]
  /\ aborted' = (joined /\ WakeAborts(state, {"event"}))
  /\ UNCHANGED <<globals, set, sessions>>

-----------------------------------------------------------------------------
(* The io task: one packet after the other until the TUN device is empty.  *)

IoWait ==
  /\ state["io"] = "RUNNING" /\ run
  /\ Leave("io", "WAITING")
  /\ UNCHANGED <<globals, set, sessions, aborted>>

IoExit ==
  /\ state["io"] = "RUNNING" /\ ~run
  /\ Exit("io", evpc # "read")

(* Mutant: the newest session is terminated, whose task has not started.   *)
Victims_Newest(list, count) ==
  IF MaxSession = 0 \/ count < MaxSession THEN {} ELSE {list[Len(list)]}

(* hev_socks5_tunnel_insert_session                                        *)
Victims(list, count) ==
  IF MaxSession = 0 \/ count < MaxSession THEN {} ELSE {Head(list)}

(* tcp_accept_handler and udp_recv_handler for a new flow: the session is  *)
(* inserted, one session may be terminated, then its task starts and the   *)
(* timer task is woken.  Failing constructors leave no trace here.         *)
Accept(s) ==
  /\ state["io"] = "RUNNING" /\ run /\ pc[s] = "free"
  /\ session_set' = Append(session_set, s)
  /\ session_count' = session_count + 1
  /\ LET victims == Victims(session_set', session_count')
     IN  /\ Cut(victims)
         /\ aborted' = (\/ WakeAborts(state, victims)
                        \/ WakeAborts(state, {"timer"}))
         /\ state' = [Woken(state, victims \cup {"timer"})
                        EXCEPT ![s] = "RUNNING"]
  /\ pc' = [pc EXCEPT ![s] = "start"]
  /\ pcb' = [pcb EXCEPT ![s] = TRUE]
  /\ UNCHANGED <<globals, sleep, half>>

(* tcp_recv_handler, tcp_sent_handler, the udp_recv_handler of a session:  *)
(* data is queued or released and the session task is woken.               *)
Input(s) ==
  /\ state["io"] = "RUNNING" /\ run /\ pc[s] # "free" /\ pcb[s]
  /\ state' = Woken(state, {s})
  /\ aborted' = WakeAborts(state, {s})
  /\ UNCHANGED <<globals, set, sessions>>

(* tcp_err_handler, called by lwIP on input or from tcp_tmr.               *)
TcpErr(s) ==
  /\ run /\ \E t \in {"io", "timer"} : state[t] = "RUNNING"
  /\ s \in TcpSession /\ pc[s] # "free" /\ pcb[s]
  /\ pcb' = [pcb EXCEPT ![s] = FALSE]
  /\ Terminate({s})
  /\ UNCHANGED <<globals, set, pc, sleep, half>>

-----------------------------------------------------------------------------
(* The timer task.                                                         *)

(* Mutant: the last session is forgotten.                                  *)
TimerSleep_OffByOne ==
  /\ state["timer"] = "RUNNING" /\ run
  /\ nap' = IF session_count > 1 THEN "tick" ELSE "park"
  /\ Leave("timer", "WAITING")
  /\ UNCHANGED <<run, quit, evpc, set, sessions, aborted>>

TimerSleep ==
  /\ state["timer"] = "RUNNING" /\ run
  /\ nap' = IF session_set # <<>> THEN "tick" ELSE "park"
  /\ Leave("timer", "WAITING")
  /\ UNCHANGED <<run, quit, evpc, set, sessions, aborted>>

TimerExit ==
  /\ state["timer"] = "RUNNING" /\ ~run
  /\ Exit("timer", evpc \in {"join_timer", "done"})

-----------------------------------------------------------------------------
(* Session tasks.                                                          *)

(* hev_socks5_session_task_entry after hev_socks5_session_run: the session *)
(* leaves the set, is destructed and its task ends.                        *)
End(s) ==
  /\ session_set' = ListDel(session_set, s)
  /\ session_count' = session_count - 1
  /\ Leave(s, "STOPPED")
  /\ pc' = [pc EXCEPT ![s] = "free"]
  /\ timeout' = [timeout EXCEPT ![s] = -1]
  /\ sleep' = [sleep EXCEPT ![s] = "no"]
  /\ half' = [half EXCEPT ![s] = FALSE]
  /\ pcb' = [pcb EXCEPT ![s] = FALSE]
  /\ UNCHANGED <<globals, aborted>>

(* The yielders of the two splicers call hev_socks5_tunnel_update_session  *)
(* when they resume; the yielder of hev-socks5-udp.c does not.             *)
Touch(s) ==
  /\ session_set' = IF pc[s] \in {"splice", "drain"} /\ sleep[s] # "no"
                    THEN Updated(session_set, s) ELSE session_set
  /\ UNCHANGED session_count

(* The session goes on in phase p without yielding.                        *)
Enter(s, p) ==
  /\ pc' = [pc EXCEPT ![s] = p]
  /\ sleep' = [sleep EXCEPT ![s] = "no"]
  /\ Touch(s)
  /\ UNCHANGED <<state, globals, pcb, aborted>>

(* Mutant: a yielder that sleeps again with a time limit of 0.             *)
Fails_ExpiredOnly(s) == sleep[s] = "expired"

(* hev_socks5_task_io_yielder returns -1 when the time limit is 0 or ran   *)
(* out, otherwise it sleeps until an event or the time limit.              *)
Fails(s) == timeout[s] = 0 \/ sleep[s] = "expired"
Sleep(s, p) ==
  /\ ~Fails(s)
  /\ pc' = [pc EXCEPT ![s] = p]
  /\ sleep' = [sleep EXCEPT ![s] = "limit"]
  /\ Leave(s, "WAITING")
  /\ Touch(s)
  /\ UNCHANGED <<globals, timeout, half, pcb, aborted>>

At(s, phases) == state[s] = "RUNNING" /\ pc[s] \in phases

(* hev_task_dns_getaddrinfo: the session waits for the resolver thread.    *)
Lookup(s, p) ==
  /\ pc' = [pc EXCEPT ![s] = p]
  /\ sleep' = [sleep EXCEPT ![s] = "forever"]
  /\ Leave(s, "WAITING")
  /\ UNCHANGED <<globals, set, pcb, aborted>>

(* hev_socks5_client_connect: the connect timeout is set, then the server  *)
(* name is resolved.                                                       *)
SessionStart(s) ==
  /\ At(s, {"start"})
  /\ timeout' = [timeout EXCEPT ![s] = 1]
  /\ UNCHANGED half
  /\ \/ ~ServerIsName /\ Enter(s, "connect")
     \/ ServerIsName /\ Lookup(s, "resolve")

(* hev_task_dns_proxy_call reads again: the wait has no time limit.        *)
ResolveWait(s) ==
  /\ At(s, {"resolve", "lookup"}) /\ sleep[s] = "forever"
  /\ Leave(s, "WAITING")
  /\ UNCHANGED <<globals, set, sessions, aborted>>

Resolved(s) ==
  /\ At(s, {"resolve"}) /\ sleep[s] = "answered"
  /\ Enter(s, "connect")
  /\ UNCHANGED <<timeout, half>>

ResolveFail(s) ==
  /\ At(s, {"resolve", "lookup"}) /\ sleep[s] = "answered"
  /\ End(s)

(* A connect or handshake call that cannot go on.                          *)
OpenWait(s) ==
  /\ At(s, {"connect", "handshake"})
  /\ Sleep(s, pc[s])

(* An error, a refusal of the server, or the yielder returned -1.          *)
OpenFail(s) ==
  /\ At(s, {"connect", "handshake"})
  /\ End(s)

(* The connect of hev_socks5_client_connect succeeded;                     *)
(* hev_socks5_client_handshake sets the TCP time limit.                    *)
Connected(s) ==
  /\ At(s, {"connect"}) /\ sleep[s] # "expired"
  /\ timeout' = [timeout EXCEPT ![s] = 1]
  /\ Enter(s, "handshake")
  /\ UNCHANGED half

(* The response was read; set_upstream_addr of a UDP session replaces the  *)
(* address in it by the configured name, which is resolved first.          *)
UpstreamLookup(s) ==
  /\ s \in UdpSession /\ UdpIsName
  /\ At(s, {"handshake"}) /\ sleep[s] # "expired"
  /\ Lookup(s, "lookup")
  /\ UNCHANGED <<timeout, half>>

(* The handshake succeeded.  hev_socks5_session_tcp_splice returns at once *)
(* if the pcb is gone; a UDP session sets the UDP time limit.              *)
TcpHandshakeDone(s) ==
  /\ s \in TcpSession
  /\ At(s, {"handshake"}) /\ sleep[s] # "expired"
  /\ \/ ~pcb[s] /\ End(s)
     \/ pcb[s] /\ Enter(s, "splice") /\ UNCHANGED <<timeout, half>>

UdpHandshakeDone(s) ==
  /\ s \in UdpSession
  /\ \/ At(s, {"handshake"}) /\ ~UdpIsName /\ sleep[s] # "expired"
     \/ At(s, {"lookup"}) /\ sleep[s] = "answered"
  /\ timeout' = [timeout EXCEPT ![s] = 1]
  /\ Enter(s, "splice")
  /\ UNCHANGED half

(* A direction moved data: HEV_TASK_YIELD, the time limit is not looked at.*)
SpliceBusy(s) ==
  /\ At(s, {"splice"}) /\ sleep[s] # "expired"
  /\ sleep' = [sleep EXCEPT ![s] = "yield"]
  /\ Touch(s)
  /\ UNCHANGED <<state, globals, pc, timeout, half, pcb, aborted>>

(* No direction moved data, at least one is open: HEV_TASK_WAITIO.         *)
SpliceWait(s) ==
  /\ At(s, {"splice"})
  /\ Sleep(s, "splice")

(* Both directions are closed, or the yielder returned -1: a TCP session   *)
(* goes on to drain its ring buffer.                                       *)
SpliceEnd(s) ==
  /\ At(s, {"splice"})
  /\ \/ /\ s \in TcpSession
        /\ Enter(s, "drain")
        /\ UNCHANGED <<timeout, half>>
     \/ /\ s \in UdpSession
        /\ End(s)

(* A UDP send or receive waits inside hev-socks5-udp.c.                    *)
FwdWait(s) ==
  /\ s \in UdpSession
  /\ \/ At(s, {"splice", "fwd"}) /\ \E p \in {"fwd", "part"} : Sleep(s, p)
     \/ At(s, {"part"}) /\ Sleep(s, "part")

(* Mutant: a send that moved nothing before its time limit reports success.*)
FwdResume_NoHalf(s) ==
  /\ At(s, {"fwd", "part"})
  /\ Enter(s, "splice")
  /\ UNCHANGED <<timeout, half>>

(* The call returns and the loop goes on.  Its direction is closed if the  *)
(* yielder returned -1 before any byte was moved, and may be closed by an  *)
(* error; a call that was cut after it had moved bytes may report what it  *)
(* moved instead, and then its direction stays open.                       *)
FwdResume(s) ==
  /\ At(s, {"fwd", "part"})
  /\ \E closed \in BOOLEAN :
       /\ Fails(s) /\ pc[s] = "fwd" => closed
       /\ closed => ~half[s]
       /\ half' = [half EXCEPT ![s] = closed \/ half[s]]
  /\ Enter(s, "splice")
  /\ UNCHANGED timeout

(* The call failed and the other direction is closed too.                  *)
FwdEnd(s) ==
  /\ At(s, {"fwd", "part"})
  /\ End(s)

(* The ring buffer still holds unacknowledged data.                        *)
DrainWait(s) ==
  /\ At(s, {"drain"}) /\ pcb[s]
  /\ Sleep(s, "drain")

(* The pcb is gone, the buffer is empty, or the yielder returned -1.       *)
DrainEnd(s) ==
  /\ At(s, {"drain"})
  /\ End(s)

SessionStep(s) ==
  \/ SessionStart(s) \/ ResolveWait(s) \/ Resolved(s) \/ ResolveFail(s)
  \/ OpenWait(s) \/ OpenFail(s) \/ Connected(s)
  \/ UpstreamLookup(s) \/ TcpHandshakeDone(s) \/ UdpHandshakeDone(s)
  \/ SpliceBusy(s) \/ SpliceWait(s) \/ SpliceEnd(s)
  \/ FwdWait(s) \/ FwdResume(s) \/ FwdEnd(s) \/ DrainWait(s) \/ DrainEnd(s)

-----------------------------------------------------------------------------
(* hev_task_system_run returns when every task has stopped.                *)
Finished == \A t \in Task : state[t] = "STOPPED"

(* The thread goes on to hev_socks5_tunnel_fini.                           *)
Return == Finished /\ UNCHANGED vars

EventStep ==
  \/ EventWait \/ EventStop \/ IoJoined \/ EventExit
  \/ JoinWait("io", "join_io") \/ JoinWait("timer", "join_timer")

IoStep ==
  \/ IoWait \/ IoExit
  \/ \E s \in Session : Accept(s) \/ Input(s)

TimerStep == TimerSleep \/ TimerExit

Next ==
  /\ ~aborted
  /\ \/ \E t \in Task : FdReady(t)
     \/ \E s \in Session : Expire(s) \/ DnsAnswer(s)
     \/ Tick \/ Stop
     \/ EventStep \/ IoStep \/ TimerStep
     \/ \E s \in TcpSession : TcpErr(s)
     \/ \E s \in Session : SessionStep(s)
     \/ Return

Spec == Init /\ [][Next]_vars

(***************************************************************************)
(* Fairness.  The scheduler picks the running task with the least virtual  *)
(* run time, so a task that is RUNNING gets its turn; the read of the TUN  *)
(* device finds it empty at some point; the resolver thread answers.  The  *)
(* last lines are about the peers once the tunnel has stopped: a session   *)
(* is not kept busy, and not woken inside its time limit, for ever, and    *)
(* not every time limit runs out in a call that has moved data.            *)
(***************************************************************************)
IdleAfterStop(s)   == ~run /\ (SpliceWait(s) \/ SpliceEnd(s))
SilentAfterStop(s) == ~run /\ Expire(s)
StuckAfterStop(s)  == SilentAfterStop(s) /\ pc[s] # "part"

Fairness ==
  /\ WF_vars(FdReady("event"))
  /\ WF_vars(EventStep) /\ WF_vars(IoWait \/ IoExit) /\ WF_vars(TimerStep)
  /\ \A s \in Session : WF_vars(SessionStep(s)) /\ WF_vars(DnsAnswer(s))
  /\ \A s \in Session : /\ SF_vars(IdleAfterStop(s))
                        /\ SF_vars(SilentAfterStop(s))
                        /\ SF_vars(StuckAfterStop(s))

FairSpec == Spec /\ Fairness

-----------------------------------------------------------------------------
(* Properties.                                                             *)

(* The session list and the counter describe exactly the sessions whose    *)
(* task exists, each once: insert, delete and the move to the tail by the  *)
(* yielders never lose or duplicate a node.                                *)
SessionSetExact ==
  /\ session_count = Len(session_set)
  /\ Distinct(session_set)
  /\ \A s \in Session : /\ InList(session_set, s) <=> pc[s] # "free"
                        /\ state[s] = "STOPPED" <=> pc[s] = "free"

(* No call of hev_task_wakeup meets a stopped task, which would abort the  *)
(* process (hev-task-system-schedule.c).                                   *)
NoAbort == ~aborted

(* A session whose time limit is 0, because it was terminated, is never    *)
(* left waiting in a timed wait: it is woken, or it sees the 0 before it   *)
(* would sleep.  Otherwise stop and eviction would wait for a packet.      *)
TerminatedIsAwake ==
  \A s \in Session : timeout[s] = 0 /\ pc[s] \in Timed => state[s] = "RUNNING"

(* While sessions exist the lwIP timer task is never parked without a      *)
(* wakeup on its way, so retransmission and the TCP timers keep going.     *)
TimerNotParked ==
  session_set # <<>> => ~(state["timer"] = "WAITING" /\ nap = "park")

(* The event task is the last of the three daemons to end, and from then   *)
(* on no session is started that nobody would terminate.                   *)
EventEndsLast ==
  state["event"] = "STOPPED" =>
    /\ state["io"] = "STOPPED" /\ state["timer"] = "STOPPED"
    /\ ~run

(* What the others rest on: the event task has cleared `run' exactly when  *)
(* it has left its read, and joins the io task before the timer task.      *)
StopProtocol ==
  /\ run <=> evpc = "read"
  /\ state["event"] = "STOPPED" <=> evpc = "done"
  /\ run => state["io"] # "STOPPED" /\ state["timer"] # "STOPPED"
  /\ evpc \in {"join_timer", "done"} => state["io"] = "STOPPED"
  /\ evpc = "done" => state["timer"] = "STOPPED"

(* The inductive invariant of the tunnel, for a limit other than 1.        *)
TunnelInv ==
  /\ TypeOK /\ StopProtocol /\ SessionSetExact
  /\ NoAbort /\ TerminatedIsAwake /\ TimerNotParked

(* Once stop was requested hev_task_system_run returns: every task ends.   *)
StopReturns == quit ~> Finished
=============================================================================
