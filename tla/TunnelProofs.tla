---------------------------- MODULE TunnelProofs ----------------------------
(***************************************************************************)
(* Proofs about Tunnel, for every set of session slots and every limit     *)
(* other than 1.                                                           *)
(***************************************************************************)
EXTENDS TunnelLimits, TLAPS

(* Removing the node at one position keeps the order and the distinctness  *)
(* of the others.                                                          *)
LEMMA ListDelLemma ==
  ASSUME NEW S, NEW q \in Seq(S), NEW node \in S,
         Distinct(q), InList(q, node)
  PROVE  /\ ListDel(q, node) \in Seq(S)
         /\ Len(ListDel(q, node)) = Len(q) - 1
         /\ Distinct(ListDel(q, node))
         /\ \A x \in S : InList(ListDel(q, node), x)
                            <=> InList(q, x) /\ x # node
<1> DEFINE n == Len(q)
           i == CHOOSE j \in 1..n : q[j] = node
           del == [j \in 1..(n - 1) |-> IF j < i THEN q[j] ELSE q[j + 1]]
<1>1. n \in Nat /\ \A j \in 1..n : q[j] \in S
  OBVIOUS
<1>2. i \in 1..n /\ q[i] = node
  BY DEF InList
<1>3. ListDel(q, node) = del
  BY DEF ListDel
<1> HIDE DEF i
<1>4. n - 1 \in Nat
  BY <1>1, <1>2
<1>5. \A j \in 1..(n - 1) : del[j] \in S
  BY <1>1, <1>2
<1>6. del \in Seq(S) /\ Len(del) = n - 1
  BY <1>4, <1>5
<1>7. Distinct(del)
  BY <1>1, <1>2, <1>4, <1>6 DEF Distinct
<1>8. ASSUME NEW x \in S
      PROVE  InList(del, x) <=> InList(q, x) /\ x # node
  <2>1. ASSUME NEW k \in 1..(n - 1), del[k] = x
        PROVE  InList(q, x) /\ x # node
    BY <1>1, <1>2, <2>1 DEF InList, Distinct
  <2>2. ASSUME NEW k \in 1..n, q[k] = x, x # node
        PROVE  InList(del, x)
    <3>1. CASE k < i
      <4>1. k \in 1..(n - 1) /\ del[k] = x
        BY <1>1, <1>2, <2>2, <3>1
      <4> QED BY <4>1, <1>6 DEF InList
    <3>2. CASE k > i
      <4>1. k - 1 \in 1..(n - 1) /\ del[k - 1] = x
        BY <1>1, <1>2, <2>2, <3>2
      <4> QED BY <4>1, <1>6 DEF InList
    <3> QED BY <1>2, <2>2, <3>1, <3>2
  <2> QED BY <2>1, <2>2, <1>6 DEF InList
<1> QED BY <1>3, <1>6, <1>7, <1>8

(* What appending a node that is not in the list does.                     *)
LEMMA AppendLemma ==
  ASSUME NEW S, NEW q \in Seq(S), NEW node \in S,
         Distinct(q), ~InList(q, node)
  PROVE  /\ Append(q, node) \in Seq(S)
         /\ Len(Append(q, node)) = Len(q) + 1
         /\ Distinct(Append(q, node))
         /\ \A x \in S : InList(Append(q, node), x)
                            <=> InList(q, x) \/ x = node
<1> DEFINE app == Append(q, node)
<1>1. /\ app \in Seq(S) /\ Len(app) = Len(q) + 1 /\ Len(q) \in Nat
      /\ \A j \in 1..Len(q) : app[j] = q[j]
      /\ app[Len(q) + 1] = node
  OBVIOUS
<1> HIDE DEF app
<1>2. Distinct(app)
  BY <1>1 DEF Distinct, InList
<1>3. ASSUME NEW x \in S
      PROVE  InList(app, x) <=> InList(q, x) \/ x = node
  BY <1>1 DEF InList
<1> QED BY <1>1, <1>2, <1>3 DEF app

-----------------------------------------------------------------------------
(* Moving a session to the tail changes no membership and no length.       *)
LEMMA UpdatedLemma ==
  ASSUME NEW S, NEW list \in Seq(S), NEW node \in S,
         Distinct(list), InList(list, node)
  PROVE  /\ Updated(list, node) \in Seq(S)
         /\ Len(Updated(list, node)) = Len(list)
         /\ Distinct(Updated(list, node))
         /\ \A x \in S : InList(Updated(list, node), x) <=> InList(list, x)
<1> DEFINE del == ListDel(list, node)
<1>1. /\ del \in Seq(S) /\ Len(del) = Len(list) - 1 /\ Distinct(del)
      /\ \A x \in S : InList(del, x) <=> InList(list, x) /\ x # node
  BY ListDelLemma
<1>2. ~InList(del, node)
  BY <1>1
<1> HIDE DEF del
<1>3. /\ Append(del, node) \in Seq(S)
      /\ Len(Append(del, node)) = Len(del) + 1
      /\ Distinct(Append(del, node))
      /\ \A x \in S : InList(Append(del, node), x) <=> InList(del, x) \/ x = node
  BY <1>1, <1>2, AppendLemma
<1>4. Len(list) \in Nat
  OBVIOUS
<1>5. Updated(list, node) = IF MaxSession = 0 THEN list ELSE Append(del, node)
  BY DEF Updated, del
<1> QED BY <1>1, <1>3, <1>4, <1>5

-----------------------------------------------------------------------------
(* The tasks are what they are called.                                     *)
LEMMA TaskFacts ==
  /\ "event" \in Task /\ "io" \in Task /\ "timer" \in Task
  /\ \A s \in Session : s \in Task /\ s # "event" /\ s # "io" /\ s # "timer"
  /\ \A s \in TcpSession : s \in Session
BY SessionAssumption DEF Task, Daemon, Session

(* Waking tasks that are not stopped changes no task but waiting ones.     *)
LEMMA WokenLemma ==
  ASSUME NEW T, state \in [Task -> {"STOPPED", "RUNNING", "WAITING"}]
  PROVE  /\ Woken(state, T) \in [Task -> {"STOPPED", "RUNNING", "WAITING"}]
         /\ \A t \in Task :
              /\ (Woken(state, T)[t] = "STOPPED") <=> (state[t] = "STOPPED")
              /\ Woken(state, T)[t] = "WAITING" => state[t] = "WAITING"
              /\ t \in T => Woken(state, T)[t] # "WAITING"
              /\ t \notin T => Woken(state, T)[t] = state[t]
BY DEF Woken

(* The tunnel starts in the invariant.                                     *)
LEMMA InitInv == Init => TunnelInv
<1> SUFFICES ASSUME Init PROVE TunnelInv
  OBVIOUS
<1> USE TaskFacts DEF Init
<1>1. TypeOK
  <2>1. half \in [Session -> BOOLEAN] /\ pcb \in [Session -> BOOLEAN]
    BY Zenon
  <2>2. /\ run \in BOOLEAN /\ quit \in BOOLEAN /\ aborted \in BOOLEAN
        /\ evpc \in {"read", "join_io", "join_timer", "done"}
        /\ nap \in {"tick", "park"}
    OBVIOUS
  <2>3. /\ state \in [Task -> {"STOPPED", "RUNNING", "WAITING"}]
        /\ session_set \in Seq(Session) /\ session_count \in Nat
        /\ pc \in [Session -> Phase]
        /\ timeout \in [Session -> {-1, 0, 1}]
    BY DEF Phase
  <2>4. sleep \in [Session -> {"no", "yield", "forever", "limit", "expired",
                               "answered"}]
    OBVIOUS
  <2> QED BY <2>1, <2>2, <2>3, <2>4 DEF TypeOK
<1>2. StopProtocol
  BY DEF StopProtocol, Daemon
<1>3. SessionSetExact
  BY SessionAssumption DEF SessionSetExact, Distinct, InList, Daemon
<1>4. NoAbort /\ TimerNotParked
  BY DEF NoAbort, TimerNotParked
<1>5. TerminatedIsAwake
  BY DEF TerminatedIsAwake
<1> QED BY <1>1, <1>2, <1>3, <1>4, <1>5 DEF TunnelInv

(* A session of the list can be moved to the tail by its yielder.          *)
LEMMA TouchLemma ==
  ASSUME TypeOK, SessionSetExact, NEW s \in Session, pc[s] # "free", Touch(s)
  PROVE  /\ session_set' \in Seq(Session)
         /\ session_count' = Len(session_set')
         /\ session_count' \in Nat
         /\ Distinct(session_set')
         /\ \A x \in Session : InList(session_set', x) <=> InList(session_set, x)
         /\ session_set # <<>>
<1>1. InList(session_set, s)
  BY DEF SessionSetExact
<1>2. session_set # <<>>
  BY <1>1 DEF InList
<1>3. CASE session_set' = session_set
  BY <1>2, <1>3 DEF Touch, TypeOK, SessionSetExact
<1>4. CASE session_set' = Updated(session_set, s)
  BY <1>1, <1>2, <1>4, UpdatedLemma DEF Touch, TypeOK, SessionSetExact
<1> QED BY <1>3, <1>4 DEF Touch

(* The end of a session takes exactly its node from the list.              *)
LEMMA EndLemma ==
  ASSUME TunnelInv, NEW s \in Session, pc[s] # "free", End(s)
  PROVE  TunnelInv'
<1> USE TaskFacts
<1>0. TypeOK /\ StopProtocol /\ SessionSetExact /\ NoAbort /\ TerminatedIsAwake
      /\ TimerNotParked
  BY DEF TunnelInv
<1>1. InList(session_set, s) /\ session_set # <<>>
  BY <1>0 DEF SessionSetExact, InList
<1>2. /\ session_set' \in Seq(Session)
      /\ Len(session_set') = Len(session_set) - 1
      /\ Distinct(session_set')
      /\ \A x \in Session : InList(session_set', x) <=> InList(session_set, x) /\ x # s
  BY <1>0, <1>1, ListDelLemma DEF End, TypeOK, SessionSetExact
<1>a. session_count' \in Nat
  BY <1>0, <1>1, <1>2 DEF TypeOK, SessionSetExact, End
<1>3. TypeOK'
  BY <1>0, <1>2, <1>a DEF TypeOK, End, Leave, Phase, globals
<1>4. StopProtocol'
  BY <1>0 DEF StopProtocol, End, Leave, globals, TypeOK
<1>5. SessionSetExact'
  BY <1>0, <1>2 DEF SessionSetExact, End, Leave, TypeOK
<1>6. TerminatedIsAwake'
  BY <1>0 DEF TerminatedIsAwake, End, Leave, TypeOK, Timed
<1>7. NoAbort' /\ TimerNotParked'
  BY <1>0, <1>1 DEF NoAbort, TimerNotParked, End, Leave, TypeOK, globals
<1> QED BY <1>3, <1>4, <1>5, <1>6, <1>7 DEF TunnelInv

(* A step of a session that keeps its task, its place in the list and the  *)
(* state of the others; it may sleep only if its time limit is not 0.      *)
LEMMA SessionKeeps ==
  ASSUME TunnelInv, NEW s \in Session, pc[s] # "free", state[s] = "RUNNING",
         TypeOK',
         UNCHANGED <<globals, aborted>>,
         Touch(s) \/ UNCHANGED set,
         \A t \in Task \ {s} : state'[t] = state[t],
         \A t \in Session \ {s} : pc'[t] = pc[t] /\ timeout'[t] = timeout[t],
         pc'[s] # "free", state'[s] # "STOPPED",
         state'[s] = "WAITING" => timeout'[s] # 0 \/ pc'[s] \notin Timed
  PROVE  TunnelInv'
<1> USE TaskFacts
<1>0. TypeOK /\ StopProtocol /\ SessionSetExact /\ NoAbort /\ TerminatedIsAwake
      /\ TimerNotParked
  BY DEF TunnelInv
<1>1. /\ session_set' \in Seq(Session)
      /\ session_count' = Len(session_set')
      /\ Distinct(session_set')
      /\ \A x \in Session : InList(session_set', x) <=> InList(session_set, x)
      /\ session_set' # <<>> => session_set # <<>>
  <2>1. CASE Touch(s)
    BY <1>0, <2>1, TouchLemma
  <2>2. CASE UNCHANGED set
    BY <1>0, <2>2 DEF set, TypeOK, SessionSetExact
  <2> QED BY <2>1, <2>2
<1>2. StopProtocol'
  BY <1>0 DEF StopProtocol, globals
<1>3. SessionSetExact'
  BY <1>0, <1>1 DEF SessionSetExact
<1>4. TerminatedIsAwake'
  BY <1>0 DEF TerminatedIsAwake, TypeOK
<1>5. NoAbort' /\ TimerNotParked'
  BY <1>0, <1>1 DEF NoAbort, TimerNotParked, globals
<1> QED BY <1>2, <1>3, <1>4, <1>5 DEF TunnelInv

(* A session goes on to another phase without yielding.                    *)
LEMMA EnterLemma ==
  ASSUME TunnelInv, NEW s \in Session, pc[s] # "free", state[s] = "RUNNING",
         NEW p \in Phase \ {"free"}, Enter(s, p),
         half' \in [Session -> BOOLEAN],
         timeout' \in [Session -> {-1, 0, 1}],
         \A t \in Session \ {s} : timeout'[t] = timeout[t]
  PROVE  TunnelInv'
<1> USE TaskFacts
<1>0. TypeOK /\ SessionSetExact
  BY DEF TunnelInv
<1>1. Touch(s)
  BY DEF Enter
<1>2. session_set' \in Seq(Session) /\ session_count' \in Nat
  BY <1>0, <1>1, TouchLemma
<1>3. TypeOK'
  BY <1>0, <1>2 DEF TypeOK, Enter, globals
<1>4. /\ UNCHANGED <<globals, aborted>>
      /\ \A t \in Task \ {s} : state'[t] = state[t]
      /\ \A t \in Session \ {s} : pc'[t] = pc[t]
      /\ pc'[s] # "free" /\ state'[s] = "RUNNING"
  BY <1>0 DEF Enter, TypeOK
<1> QED BY <1>1, <1>3, <1>4, SessionKeeps

(* A session sleeps under its time limit.                                  *)
LEMMA SleepLemma ==
  ASSUME TunnelInv, NEW s \in Session, pc[s] # "free", state[s] = "RUNNING",
         NEW p \in Phase \ {"free"}, Sleep(s, p)
  PROVE  TunnelInv'
<1> USE TaskFacts
<1>0. TypeOK /\ SessionSetExact
  BY DEF TunnelInv
<1>1. Touch(s)
  BY DEF Sleep
<1>2. session_set' \in Seq(Session) /\ session_count' \in Nat
  BY <1>0, <1>1, TouchLemma
<1>3. TypeOK'
  BY <1>0, <1>2 DEF TypeOK, Sleep, Leave, globals
<1>4. /\ UNCHANGED <<globals, aborted>>
      /\ \A t \in Task \ {s} : state'[t] = state[t]
      /\ \A t \in Session \ {s} : pc'[t] = pc[t] /\ timeout'[t] = timeout[t]
      /\ pc'[s] # "free" /\ state'[s] = "WAITING" /\ timeout'[s] # 0
  BY <1>0 DEF Sleep, Leave, Fails, TypeOK
<1> QED BY <1>1, <1>3, <1>4, SessionKeeps

(* A session waits for the resolver thread, without a time limit.          *)
LEMMA LookupLemma ==
  ASSUME TunnelInv, NEW s \in Session, pc[s] # "free", state[s] = "RUNNING",
         NEW p \in {"resolve", "lookup"}, Lookup(s, p), UNCHANGED half,
         timeout' \in [Session -> {-1, 0, 1}],
         \A t \in Session \ {s} : timeout'[t] = timeout[t]
  PROVE  TunnelInv'
<1> USE TaskFacts
<1>0. TypeOK
  BY DEF TunnelInv
<1>1. TypeOK'
  BY <1>0 DEF TypeOK, Lookup, Leave, Phase, globals, set
<1>2. /\ UNCHANGED <<globals, aborted>>
      /\ UNCHANGED set
      /\ \A t \in Task \ {s} : state'[t] = state[t]
      /\ \A t \in Session \ {s} : pc'[t] = pc[t]
      /\ pc'[s] = p /\ state'[s] = "WAITING"
  BY <1>0 DEF Lookup, Leave, TypeOK
<1>3. pc'[s] # "free" /\ pc'[s] \notin Timed
  BY <1>2 DEF Timed
<1> QED BY <1>1, <1>2, <1>3, SessionKeeps

(* One turn of a session task.                                             *)
LEMMA SessionStepInv ==
  ASSUME TunnelInv, NEW s \in Session, SessionStep(s)
  PROVE  TunnelInv'
<1> USE TaskFacts
<1>0. TypeOK
  BY DEF TunnelInv
<1>a. /\ half \in [Session -> BOOLEAN]
      /\ timeout \in [Session -> {-1, 0, 1}]
      /\ [timeout EXCEPT ![s] = 1] \in [Session -> {-1, 0, 1}]
      /\ \A t \in Session \ {s} : [timeout EXCEPT ![s] = 1][t] = timeout[t]
  BY <1>0 DEF TypeOK
<1>b. {"connect", "handshake", "splice", "fwd", "part", "drain"}
        \subseteq Phase \ {"free"}
  BY DEF Phase
<1>1. CASE SessionStart(s)
  <2>1. pc[s] # "free" /\ state[s] = "RUNNING"
    BY <1>1 DEF SessionStart, At
  <2>2. CASE Enter(s, "connect")
    BY <1>1, <1>a, <1>b, <2>1, <2>2, EnterLemma DEF SessionStart
  <2>3. CASE Lookup(s, "resolve")
    BY <1>1, <1>a, <2>1, <2>3, LookupLemma DEF SessionStart
  <2> QED BY <1>1, <2>2, <2>3 DEF SessionStart
<1>2. CASE ResolveWait(s)
  <2>1. pc[s] \in {"resolve", "lookup"} /\ state[s] = "RUNNING"
    BY <1>2 DEF ResolveWait, At
  <2>2. TypeOK'
    BY <1>0, <1>2 DEF TypeOK, ResolveWait, Leave, globals, set, sessions
  <2>3. /\ UNCHANGED <<globals, aborted>>
        /\ UNCHANGED set
        /\ \A t \in Task \ {s} : state'[t] = state[t]
        /\ \A t \in Session \ {s} : pc'[t] = pc[t] /\ timeout'[t] = timeout[t]
        /\ pc'[s] \in {"resolve", "lookup"} /\ state'[s] = "WAITING"
    BY <1>0, <1>2, <2>1 DEF ResolveWait, Leave, TypeOK, sessions
  <2>4. pc'[s] # "free" /\ state'[s] # "STOPPED" /\ pc'[s] \notin Timed
    BY <2>3 DEF Timed
  <2> QED BY <2>1, <2>2, <2>3, <2>4, SessionKeeps
<1>3. CASE Resolved(s)
  BY <1>3, <1>a, <1>b, EnterLemma DEF Resolved, At
<1>4. CASE ResolveFail(s)
  BY <1>4, EndLemma DEF ResolveFail, At
<1>5. CASE OpenWait(s)
  BY <1>5, <1>b, SleepLemma DEF OpenWait, At
<1>6. CASE OpenFail(s)
  BY <1>6, EndLemma DEF OpenFail, At
<1>7. CASE Connected(s)
  BY <1>7, <1>a, <1>b, EnterLemma DEF Connected, At
<1>8. CASE UpstreamLookup(s)
  <2>1. \A t \in Session \ {s} : timeout'[t] = timeout[t]
    BY <1>8 DEF UpstreamLookup
  <2> QED BY <1>8, <1>a, <2>1, LookupLemma DEF UpstreamLookup, At
<1>8a. CASE TcpHandshakeDone(s)
  <2>1. pc[s] # "free" /\ state[s] = "RUNNING"
    BY <1>8a DEF TcpHandshakeDone, At
  <2>2. CASE End(s)
    BY <2>1, <2>2, EndLemma
  <2>3. CASE ~End(s)
    BY <1>8a, <1>a, <1>b, <2>1, <2>3, EnterLemma DEF TcpHandshakeDone
  <2> QED BY <2>2, <2>3
<1>8b. CASE UdpHandshakeDone(s)
  BY <1>8b, <1>a, <1>b, EnterLemma DEF UdpHandshakeDone, At
<1>9. CASE SpliceBusy(s)
  <2>1. pc[s] = "splice" /\ state[s] = "RUNNING" /\ Touch(s)
    BY <1>9 DEF SpliceBusy, At
  <2>2. session_set' \in Seq(Session) /\ session_count' \in Nat
    BY <1>0, <2>1, TouchLemma DEF TunnelInv
  <2>3. TypeOK'
    BY <1>0, <1>9, <2>2 DEF TypeOK, SpliceBusy, globals
  <2> QED BY <1>0, <1>9, <2>1, <2>3, SessionKeeps DEF SpliceBusy, TypeOK
<1>10. CASE SpliceWait(s)
  BY <1>10, <1>b, SleepLemma DEF SpliceWait, At
<1>11. CASE SpliceEnd(s)
  <2>1. CASE End(s)
    BY <1>11, <2>1, EndLemma DEF SpliceEnd, At
  <2>2. CASE Enter(s, "drain")
    <3>1. pc[s] # "free" /\ state[s] = "RUNNING"
      BY <1>11 DEF SpliceEnd, At
    <3>2. CASE End(s)
      BY <3>1, <3>2, EndLemma
    <3>3. CASE ~End(s)
      BY <1>11, <1>a, <1>b, <2>2, <3>1, <3>3, EnterLemma DEF SpliceEnd
    <3> QED BY <3>2, <3>3
  <2> QED BY <1>11, <2>1, <2>2 DEF SpliceEnd
<1>12. CASE FwdWait(s)
  <2>1. PICK p \in {"fwd", "part"} : Sleep(s, p)
    BY <1>12 DEF FwdWait
  <2> QED BY <1>12, <1>b, <2>1, SleepLemma DEF FwdWait, At
<1>13. CASE FwdResume(s)
  <2>1. PICK closed \in BOOLEAN : half' = [half EXCEPT ![s] = closed \/ half[s]]
    BY <1>13 DEF FwdResume
  <2>2. (closed \/ half[s]) \in BOOLEAN
    OBVIOUS
  <2>3. half' \in [Session -> BOOLEAN]
    BY <1>a, <2>1, <2>2, Zenon
  <2> QED BY <1>13, <1>a, <1>b, <2>3, EnterLemma DEF FwdResume, At
<1>14. CASE FwdEnd(s)
  BY <1>14, EndLemma DEF FwdEnd, At
<1>15. CASE DrainWait(s)
  BY <1>15, <1>b, SleepLemma DEF DrainWait, At
<1>16. CASE DrainEnd(s)
  BY <1>16, EndLemma DEF DrainEnd, At
<1> QED BY <1>1, <1>2, <1>3, <1>4, <1>5, <1>6, <1>7, <1>8, <1>8a, <1>8b, <1>9,
           <1>10, <1>11, <1>12, <1>13, <1>14, <1>15, <1>16 DEF SessionStep

(* A wakeup that meets no stopped task, without any other change.          *)
LEMMA WakeKeeps ==
  ASSUME TunnelInv, NEW T, state' = Woken(state, T), TypeOK',
         UNCHANGED <<globals, set, pc, timeout, aborted>>
  PROVE  TunnelInv'
<1> USE TaskFacts, WokenLemma
<1>0. TypeOK /\ StopProtocol /\ SessionSetExact /\ NoAbort /\ TerminatedIsAwake
      /\ TimerNotParked
  BY DEF TunnelInv
<1>1. StopProtocol'
  BY <1>0 DEF StopProtocol, globals, TypeOK
<1>2. SessionSetExact'
  BY <1>0 DEF SessionSetExact, TypeOK, set
<1>3. TerminatedIsAwake'
  BY <1>0 DEF TerminatedIsAwake, TypeOK
<1>4. NoAbort' /\ TimerNotParked'
  BY <1>0 DEF NoAbort, TimerNotParked, TypeOK, globals, set
<1> QED BY <1>1, <1>2, <1>3, <1>4 DEF TunnelInv

(* A terminated session is awake afterwards.                               *)
LEMMA TerminateKeeps ==
  ASSUME TunnelInv, NEW S, \A s \in S : s \in Session /\ pc[s] # "free",
         Terminate(S)
  PROVE  /\ state' \in [Task -> {"STOPPED", "RUNNING", "WAITING"}]
         /\ timeout' \in [Session -> {-1, 0, 1}]
         /\ aborted' = FALSE
         /\ \A t \in Task : (state'[t] = "STOPPED") <=> (state[t] = "STOPPED")
         /\ \A t \in Daemon : state'[t] = state[t]
         /\ pc' = pc => TerminatedIsAwake'
<1> USE TaskFacts, WokenLemma
<1>0. TypeOK /\ SessionSetExact /\ TerminatedIsAwake
  BY DEF TunnelInv
<1>1. /\ state' \in [Task -> {"STOPPED", "RUNNING", "WAITING"}]
      /\ \A t \in Task : (state'[t] = "STOPPED") <=> (state[t] = "STOPPED")
  BY <1>0 DEF Terminate, TypeOK
<1>2. \A t \in Daemon : t \notin S /\ t \in Task
  BY SessionAssumption DEF Daemon, Session, Task
<1>3. \A t \in Daemon : state'[t] = state[t]
  BY <1>0, <1>2 DEF Terminate, TypeOK
<1>4. timeout' \in [Session -> {-1, 0, 1}]
  BY <1>0 DEF Terminate, Cut, TypeOK
<1>5. aborted' = FALSE
  BY <1>0 DEF Terminate, WakeAborts, SessionSetExact
<1>6. ASSUME pc' = pc PROVE TerminatedIsAwake'
  <2> SUFFICES ASSUME NEW s \in Session, timeout'[s] = 0, pc[s] \in Timed
               PROVE  state'[s] = "RUNNING"
    BY <1>6 DEF TerminatedIsAwake
  <2>1. state[s] # "STOPPED"
    BY <1>0 DEF SessionSetExact, Timed
  <2>2. CASE s \in S
    BY <1>0, <1>1, <2>1, <2>2 DEF Terminate, TypeOK
  <2>3. CASE s \notin S
    <3>1. timeout[s] = 0
      BY <2>3 DEF Terminate, Cut
    <3>2. state[s] = "RUNNING"
      BY <1>0, <3>1 DEF TerminatedIsAwake
    <3> QED BY <1>0, <2>3, <3>2 DEF Terminate, TypeOK
  <2> QED BY <2>2, <2>3
<1> QED BY <1>1, <1>3, <1>4, <1>5, <1>6

(* The head of the list after an insertion is an older session, unless the *)
(* limit is 1.                                                             *)
LEMMA VictimsLemma ==
  ASSUME TunnelInv, MaxSession # 1, NEW s \in Session, pc[s] = "free"
  PROVE  \A v \in Victims(Append(session_set, s), session_count + 1) :
            v \in Session /\ pc[v] # "free"
<1>0. TypeOK /\ SessionSetExact
  BY DEF TunnelInv
<1> SUFFICES ASSUME ~(MaxSession = 0 \/ session_count + 1 < MaxSession)
             PROVE  LET v == Head(Append(session_set, s))
                    IN  v \in Session /\ pc[v] # "free"
  BY DEF Victims
<1>1. session_count = Len(session_set) /\ Len(session_set) \in Nat /\ MaxSession \in Nat
  BY <1>0, MaxSessionAssumption DEF SessionSetExact, TypeOK
<1>2. Len(session_set) > 0
  BY <1>1
<1>3. Head(Append(session_set, s)) = session_set[1] /\ session_set[1] \in Session
  BY <1>0, <1>2 DEF TypeOK
<1>4. InList(session_set, session_set[1])
  BY <1>1, <1>2 DEF InList
<1> QED BY <1>0, <1>3, <1>4 DEF SessionSetExact

(* A new flow: its node joins the list, an older session may be cut.       *)
LEMMA AcceptInv ==
  ASSUME TunnelInv, MaxSession # 1, NEW s \in Session, Accept(s)
  PROVE  TunnelInv'
<1> DEFINE victims == Victims(Append(session_set, s), session_count + 1)
           woken == Woken(state, victims \cup {"timer"})
<1> USE TaskFacts
<1>0. TypeOK /\ StopProtocol /\ SessionSetExact /\ NoAbort /\ TerminatedIsAwake
      /\ TimerNotParked
  BY DEF TunnelInv
<1>1. pc[s] = "free" /\ run
  BY DEF Accept
<1>2. /\ session_set' = Append(session_set, s)
      /\ session_count' = session_count + 1
      /\ Cut(victims)
      /\ aborted' = (WakeAborts(state, victims) \/ WakeAborts(state, {"timer"}))
      /\ state' = [woken EXCEPT ![s] = "RUNNING"]
      /\ pc' = [pc EXCEPT ![s] = "start"]
      /\ pcb' = [pcb EXCEPT ![s] = TRUE]
      /\ UNCHANGED <<run, quit, evpc, nap, sleep, half>>
  BY DEF Accept, globals
<1>3. \A v \in victims : v \in Session /\ pc[v] # "free"
  BY <1>1, VictimsLemma
<1>4. s \notin victims
  BY <1>1, <1>3
<1> HIDE DEF victims
<1>5. /\ woken \in [Task -> {"STOPPED", "RUNNING", "WAITING"}]
      /\ \A t \in Task :
           /\ (woken[t] = "STOPPED") <=> (state[t] = "STOPPED")
           /\ woken[t] = "WAITING" => state[t] = "WAITING"
           /\ t \in victims \cup {"timer"} => woken[t] # "WAITING"
           /\ t \notin victims \cup {"timer"} => woken[t] = state[t]
  BY <1>0, WokenLemma DEF TypeOK
<1> HIDE DEF woken
<1>6. ~InList(session_set, s) /\ Distinct(session_set) /\ session_count = Len(session_set)
  BY <1>0, <1>1 DEF SessionSetExact
<1>7. /\ session_set' \in Seq(Session)
      /\ Len(session_set') = Len(session_set) + 1
      /\ Distinct(session_set')
      /\ \A x \in Session : InList(session_set', x) <=> InList(session_set, x) \/ x = s
  BY <1>0, <1>2, <1>6, AppendLemma DEF TypeOK
<1>8. aborted' = FALSE
  BY <1>0, <1>1, <1>2, <1>3 DEF WakeAborts, SessionSetExact, StopProtocol
<1>9. TypeOK'
  <2>1. timeout' \in [Session -> {-1, 0, 1}]
    BY <1>0, <1>2 DEF Cut, TypeOK
  <2>2. pcb' \in [Session -> BOOLEAN]
    BY <1>0, <1>2 DEF TypeOK
  <2>3. pc' \in [Session -> Phase]
    BY <1>0, <1>2 DEF TypeOK, Phase
  <2>4. state' \in [Task -> {"STOPPED", "RUNNING", "WAITING"}]
    BY <1>2, <1>5
  <2> QED BY <1>0, <1>2, <1>7, <1>8, <2>1, <2>2, <2>3, <2>4 DEF TypeOK
<1>10. StopProtocol'
  BY <1>0, <1>1, <1>2, <1>5 DEF StopProtocol
<1>11. SessionSetExact'
  BY <1>0, <1>2, <1>5, <1>6, <1>7 DEF SessionSetExact, TypeOK
<1>12. TerminatedIsAwake'
  <2> SUFFICES ASSUME NEW x \in Session, timeout'[x] = 0, pc'[x] \in Timed
               PROVE  state'[x] = "RUNNING"
    BY DEF TerminatedIsAwake
  <2>1. x # s /\ pc[x] \in Timed
    BY <1>0, <1>2 DEF TypeOK, Timed
  <2>2. state[x] # "STOPPED"
    BY <1>0, <2>1 DEF SessionSetExact, Timed
  <2>3. state'[x] = woken[x]
    BY <1>2, <1>5, <2>1
  <2>4. CASE x \in victims
    BY <1>5, <2>2, <2>3, <2>4
  <2>5. CASE x \notin victims
    BY <1>0, <1>2, <1>5, <2>1, <2>3, <2>5 DEF Cut, TerminatedIsAwake
  <2> QED BY <2>4, <2>5
<1>13. NoAbort' /\ TimerNotParked'
  BY <1>2, <1>5, <1>8 DEF NoAbort, TimerNotParked
<1> QED BY <1>9, <1>10, <1>11, <1>12, <1>13 DEF TunnelInv

(* A step of a daemon that changes no session and no list.                 *)
LEMMA DaemonKeeps ==
  ASSUME TunnelInv, TypeOK', StopProtocol', aborted' = FALSE,
         UNCHANGED <<set, sessions>>,
         \A s \in Session : state'[s] = state[s],
         TimerNotParked'
  PROVE  TunnelInv'
<1>1. SessionSetExact'
  BY DEF TunnelInv, SessionSetExact, set, sessions
<1>2. TerminatedIsAwake'
  BY DEF TunnelInv, TerminatedIsAwake, sessions
<1> QED BY <1>1, <1>2 DEF TunnelInv, NoAbort

(* The event task.                                                         *)
LEMMA EventStepInv ==
  ASSUME TunnelInv, EventStep
  PROVE  TunnelInv'
<1> USE TaskFacts
<1>0. TypeOK /\ StopProtocol /\ SessionSetExact /\ NoAbort /\ TerminatedIsAwake
      /\ TimerNotParked
  BY DEF TunnelInv
<1>1. CASE EventWait
  <2>1. TypeOK' /\ StopProtocol' /\ aborted' = FALSE
    BY <1>0, <1>1 DEF EventWait, Leave, TypeOK, StopProtocol, NoAbort, globals,
                      set, sessions
  <2>2. (\A s \in Session : state'[s] = state[s]) /\ TimerNotParked'
    BY <1>0, <1>1 DEF EventWait, Leave, TypeOK, TimerNotParked, globals, set
  <2> QED BY <1>1, <2>1, <2>2, DaemonKeeps DEF EventWait
<1>2. CASE EventStop
  <2> DEFINE S == {s \in Session : InList(session_set, s)}
  <2>1. Terminate(S) /\ \A s \in S : s \in Session /\ pc[s] # "free"
    BY <1>0, <1>2 DEF EventStop, SessionSetExact
  <2>2. /\ state' \in [Task -> {"STOPPED", "RUNNING", "WAITING"}]
        /\ timeout' \in [Session -> {-1, 0, 1}]
        /\ aborted' = FALSE
        /\ \A t \in Task : (state'[t] = "STOPPED") <=> (state[t] = "STOPPED")
        /\ \A t \in Daemon : state'[t] = state[t]
        /\ pc' = pc => TerminatedIsAwake'
    BY <2>1, TerminateKeeps
  <2>3. TypeOK' /\ StopProtocol'
    BY <1>0, <1>2, <2>2 DEF EventStop, TypeOK, StopProtocol, set
  <2>4. SessionSetExact'
    BY <1>0, <1>2, <2>2 DEF EventStop, SessionSetExact, set
  <2>5. NoAbort' /\ TimerNotParked'
    BY <1>0, <1>2, <2>2 DEF EventStop, NoAbort, TimerNotParked, set, Daemon
  <2>6. TerminatedIsAwake'
    BY <1>2, <2>2 DEF EventStop
  <2> QED BY <2>3, <2>4, <2>5, <2>6 DEF TunnelInv
<1>3. CASE IoJoined
  <2>1. TypeOK' /\ StopProtocol' /\ aborted' = FALSE
    BY <1>0, <1>3 DEF IoJoined, TypeOK, StopProtocol, NoAbort, set, sessions
  <2>2. (\A s \in Session : state'[s] = state[s]) /\ TimerNotParked'
    BY <1>0, <1>3 DEF IoJoined, TimerNotParked, set
  <2> QED BY <1>3, <2>1, <2>2, DaemonKeeps DEF IoJoined
<1>4. CASE EventExit
  <2>1. TypeOK' /\ StopProtocol' /\ aborted' = FALSE
    BY <1>0, <1>4 DEF EventExit, Leave, TypeOK, StopProtocol, NoAbort, set,
                      sessions
  <2>2. (\A s \in Session : state'[s] = state[s]) /\ TimerNotParked'
    BY <1>0, <1>4 DEF EventExit, Leave, TypeOK, TimerNotParked, set
  <2> QED BY <1>4, <2>1, <2>2, DaemonKeeps DEF EventExit
<1>5. ASSUME NEW t \in {"io", "timer"}, NEW at \in {"join_io", "join_timer"},
             JoinWait(t, at)
      PROVE  TunnelInv'
  <2>1. Woken(state, {t}) \in [Task -> {"STOPPED", "RUNNING", "WAITING"}]
        /\ \A x \in Task :
             /\ (Woken(state, {t})[x] = "STOPPED") <=> (state[x] = "STOPPED")
             /\ Woken(state, {t})[x] = "WAITING" => state[x] = "WAITING"
             /\ x \notin {t} => Woken(state, {t})[x] = state[x]
    BY <1>0, WokenLemma DEF TypeOK
  <2>2. state' = [Woken(state, {t}) EXCEPT !["event"] = "WAITING"]
        /\ UNCHANGED <<globals, set, sessions, aborted>>
        /\ evpc = at
    BY <1>5 DEF JoinWait
  <2>3. TypeOK'
    BY <1>0, <2>1, <2>2 DEF TypeOK, globals, set, sessions
  <2>4. StopProtocol'
    BY <1>0, <2>1, <2>2 DEF StopProtocol, globals
  <2>5. (\A s \in Session : state'[s] = state[s]) /\ TimerNotParked'
    BY <1>0, <2>1, <2>2 DEF TimerNotParked, globals, set
  <2>6. aborted' = FALSE
    BY <1>0, <2>2 DEF NoAbort, TypeOK
  <2> QED BY <2>2, <2>3, <2>4, <2>5, <2>6, DaemonKeeps
<1> QED BY <1>1, <1>2, <1>3, <1>4, <1>5 DEF EventStep

(* The end of the io or the timer task wakes the event task if it joins.   *)
LEMMA ExitKeeps ==
  ASSUME TunnelInv, NEW t \in {"io", "timer"}, NEW joined \in BOOLEAN,
         Exit(t, joined), ~run, state[t] = "RUNNING"
  PROVE  TunnelInv'
<1> DEFINE woken == IF joined THEN Woken(state, {"event"}) ELSE state
<1> USE TaskFacts
<1>0. TypeOK /\ StopProtocol /\ NoAbort /\ TimerNotParked
  BY DEF TunnelInv
<1>1. /\ woken \in [Task -> {"STOPPED", "RUNNING", "WAITING"}]
      /\ \A x \in Task : /\ (woken[x] = "STOPPED") <=> (state[x] = "STOPPED")
                         /\ x # "event" => woken[x] = state[x]
  BY <1>0, WokenLemma DEF TypeOK
<1>2. /\ state' = [woken EXCEPT ![t] = "STOPPED"]
      /\ aborted' = (joined /\ WakeAborts(state, {"event"}))
      /\ UNCHANGED <<globals, set, sessions>>
  BY DEF Exit
<1> HIDE DEF woken
<1>3. state["event"] # "STOPPED"
  BY <1>0 DEF StopProtocol
<1>4. aborted' = FALSE
  BY <1>2, <1>3 DEF WakeAborts
<1>5. TypeOK'
  BY <1>0, <1>1, <1>2, <1>4 DEF TypeOK, globals, set, sessions
<1>6. StopProtocol'
  BY <1>0, <1>1, <1>2 DEF StopProtocol, globals, TypeOK
<1>7. (\A s \in Session : state'[s] = state[s]) /\ TimerNotParked'
  BY <1>0, <1>1, <1>2 DEF TimerNotParked, globals, set
<1> QED BY <1>2, <1>4, <1>5, <1>6, <1>7, DaemonKeeps

(* The io task, when no flow begins, and the timer task.                   *)
LEMMA IoTimerInv ==
  ASSUME TunnelInv,
         \/ IoWait \/ IoExit \/ TimerStep
         \/ \E s \in Session : Input(s)
  PROVE  TunnelInv'
<1> USE TaskFacts
<1>0. TypeOK /\ StopProtocol /\ SessionSetExact /\ NoAbort /\ TimerNotParked
  BY DEF TunnelInv
<1>1. CASE IoWait
  <2>1. TypeOK' /\ StopProtocol' /\ aborted' = FALSE
    BY <1>0, <1>1 DEF IoWait, Leave, TypeOK, StopProtocol, NoAbort, globals,
                      set, sessions
  <2>2. (\A s \in Session : state'[s] = state[s]) /\ TimerNotParked'
    BY <1>0, <1>1 DEF IoWait, Leave, TypeOK, TimerNotParked, globals, set
  <2> QED BY <1>1, <2>1, <2>2, DaemonKeeps DEF IoWait
<1>2. CASE IoExit
  <2>1. (evpc # "read") \in BOOLEAN
    OBVIOUS
  <2> QED BY <1>2, <2>1, ExitKeeps DEF IoExit
<1>3. CASE TimerSleep
  <2>1. TypeOK' /\ StopProtocol' /\ aborted' = FALSE
    BY <1>0, <1>3 DEF TimerSleep, Leave, TypeOK, StopProtocol, NoAbort, set,
                      sessions
  <2>2. (\A s \in Session : state'[s] = state[s]) /\ TimerNotParked'
    BY <1>0, <1>3 DEF TimerSleep, Leave, TypeOK, TimerNotParked, set
  <2> QED BY <1>3, <2>1, <2>2, DaemonKeeps DEF TimerSleep
<1>4. CASE TimerExit
  <2>1. (evpc \in {"join_timer", "done"}) \in BOOLEAN
    OBVIOUS
  <2> QED BY <1>4, <2>1, ExitKeeps DEF TimerExit
<1>5. ASSUME NEW s \in Session, Input(s)
      PROVE  TunnelInv'
  <2>1. state[s] # "STOPPED"
    BY <1>0, <1>5 DEF Input, SessionSetExact
  <2>2. UNCHANGED aborted
    BY <1>0, <1>5, <2>1 DEF Input, WakeAborts, NoAbort, TypeOK
  <2>3. state' = Woken(state, {s}) /\ UNCHANGED <<globals, set, sessions>>
    BY <1>5 DEF Input
  <2>4. TypeOK'
    BY <1>0, <2>2, <2>3, WokenLemma DEF TypeOK, globals, set, sessions
  <2> QED BY <2>2, <2>3, <2>4, WakeKeeps DEF sessions
<1> QED BY <1>1, <1>2, <1>3, <1>4, <1>5 DEF TimerStep

(* lwIP reports that the connection of a TCP session is gone.              *)
LEMMA TcpErrInv ==
  ASSUME TunnelInv, NEW s \in TcpSession, TcpErr(s)
  PROVE  TunnelInv'
<1> USE TaskFacts
<1>0. TypeOK /\ StopProtocol /\ SessionSetExact /\ NoAbort /\ TimerNotParked
  BY DEF TunnelInv
<1>1. /\ state' \in [Task -> {"STOPPED", "RUNNING", "WAITING"}]
      /\ timeout' \in [Session -> {-1, 0, 1}]
      /\ aborted' = FALSE
      /\ \A t \in Task : (state'[t] = "STOPPED") <=> (state[t] = "STOPPED")
      /\ \A t \in Daemon : state'[t] = state[t]
      /\ pc' = pc => TerminatedIsAwake'
  <2>1. Terminate({s}) /\ \A x \in {s} : x \in Session /\ pc[x] # "free"
    BY DEF TcpErr
  <2> QED BY <2>1, TerminateKeeps
<1>2. TypeOK'
  BY <1>0, <1>1 DEF TcpErr, TypeOK, globals, set
<1>3. StopProtocol' /\ SessionSetExact'
  BY <1>0, <1>1 DEF TcpErr, StopProtocol, SessionSetExact, globals, set
<1>4. NoAbort' /\ TimerNotParked' /\ TerminatedIsAwake'
  BY <1>0, <1>1 DEF TcpErr, NoAbort, TimerNotParked, globals, set, Daemon
<1> QED BY <1>2, <1>3, <1>4 DEF TunnelInv

(* Wakeups by the kernel's events and by time.                             *)
LEMMA SchedulerInv ==
  ASSUME TunnelInv,
         \/ \E t \in Task : FdReady(t)
         \/ \E s \in Session : Expire(s) \/ DnsAnswer(s)
         \/ Tick
  PROVE  TunnelInv'
<1> USE TaskFacts
<1>0. TypeOK
  BY DEF TunnelInv
<1>1. ASSUME NEW t \in Task, FdReady(t) PROVE TunnelInv'
  <2>1. state' = Woken(state, {t}) /\ UNCHANGED <<globals, set, sessions, aborted>>
    BY <1>1 DEF FdReady
  <2>2. TypeOK'
    BY <1>0, <2>1, WokenLemma DEF TypeOK, globals, set, sessions
  <2> QED BY <2>1, <2>2, WakeKeeps DEF sessions
<1>2. ASSUME NEW s \in Session, Expire(s) \/ DnsAnswer(s) PROVE TunnelInv'
  <2>1. state' = Woken(state, {s})
        /\ UNCHANGED <<globals, set, pc, timeout, half, pcb, aborted>>
    BY <1>2 DEF Expire, DnsAnswer
  <2>2. sleep' = [sleep EXCEPT ![s] = "expired"]
        \/ sleep' = [sleep EXCEPT ![s] = "answered"]
    BY <1>2 DEF Expire, DnsAnswer
  <2>3. TypeOK'
    BY <1>0, <2>1, <2>2, WokenLemma DEF TypeOK, globals, set
  <2> QED BY <2>1, <2>3, WakeKeeps
<1>3. CASE Tick
  <2>1. state' = Woken(state, {"timer"})
        /\ UNCHANGED <<globals, set, sessions, aborted>>
    BY <1>3 DEF Tick
  <2>2. TypeOK'
    BY <1>0, <2>1, WokenLemma DEF TypeOK, globals, set, sessions
  <2> QED BY <2>1, <2>2, WakeKeeps DEF sessions
<1> QED BY <1>1, <1>2, <1>3

(* Every step of the tunnel keeps it.                                      *)
LEMMA NextInv ==
  ASSUME MaxSession # 1, TunnelInv, [Next]_vars
  PROVE  TunnelInv'
<1>1. CASE UNCHANGED vars
  BY <1>1 DEF vars, globals, set, sessions, TunnelInv, TypeOK, StopProtocol,
              SessionSetExact, NoAbort, TerminatedIsAwake, TimerNotParked
<1>2. CASE Stop
  BY <1>2 DEF Stop, set, sessions, TunnelInv, TypeOK, StopProtocol,
              SessionSetExact, NoAbort, TerminatedIsAwake, TimerNotParked
<1>3. CASE \E s \in Session : Accept(s)
  BY <1>3, AcceptInv
<1>4. CASE \E s \in Session : SessionStep(s)
  BY <1>4, SessionStepInv
<1>5. CASE \E s \in TcpSession : TcpErr(s)
  BY <1>5, TcpErrInv
<1> QED BY <1>1, <1>2, <1>3, <1>4, <1>5, SchedulerInv, EventStepInv, IoTimerInv
        DEF Next, IoStep, Return

-----------------------------------------------------------------------------
(* For every number of sessions and every max-session-count but 1, the     *)
(* inductive invariant of the tunnel holds.                                *)
THEOREM TunnelInvariant == MaxSession # 1 => (Spec => []TunnelInv)
<1> SUFFICES ASSUME MaxSession # 1 PROVE Spec => []TunnelInv
  OBVIOUS
<1>1. Init => TunnelInv
  BY InitInv
<1>2. TunnelInv /\ [Next]_vars => TunnelInv'
  BY NextInv
<1> QED BY <1>1, <1>2, PTL DEF Spec

(* insert, delete and update keep the session list and its counter exact.  *)
THEOREM SetIsExact == MaxSession # 1 => (Spec => [](TypeOK /\ SessionSetExact))
<1> SUFFICES ASSUME MaxSession # 1 PROVE Spec => [](TypeOK /\ SessionSetExact)
  OBVIOUS
<1>1. TunnelInv => TypeOK /\ SessionSetExact
  BY DEF TunnelInv
<1>2. Spec => []TunnelInv
  BY TunnelInvariant
<1> QED BY <1>1, <1>2, PTL

(* No task is woken after it has stopped, so the engine never calls        *)
(* abort (); with a limit of 1 the first session is its own victim and it  *)
(* does.                                                                   *)
THEOREM NeverAborts == MaxSession # 1 => (Spec => []NoAbort)
<1> SUFFICES ASSUME MaxSession # 1 PROVE Spec => []NoAbort
  OBVIOUS
<1>1. TunnelInv => NoAbort
  BY DEF TunnelInv
<1>2. Spec => []TunnelInv
  BY TunnelInvariant
<1> QED BY <1>1, <1>2, PTL

(* Termination of a session is never lost in a timed wait.                 *)
THEOREM TerminationIsSeen == MaxSession # 1 => (Spec => []TerminatedIsAwake)
<1> SUFFICES ASSUME MaxSession # 1 PROVE Spec => []TerminatedIsAwake
  OBVIOUS
<1>1. TunnelInv => TerminatedIsAwake
  BY DEF TunnelInv
<1>2. Spec => []TunnelInv
  BY TunnelInvariant
<1> QED BY <1>1, <1>2, PTL

(* The lwIP timers run while there are sessions.                           *)
THEOREM TimersRun == MaxSession # 1 => (Spec => []TimerNotParked)
<1> SUFFICES ASSUME MaxSession # 1 PROVE Spec => []TimerNotParked
  OBVIOUS
<1>1. TunnelInv => TimerNotParked
  BY DEF TunnelInv
<1>2. Spec => []TunnelInv
  BY TunnelInvariant
<1> QED BY <1>1, <1>2, PTL

(* The event task ends after the io and the timer task.                    *)
THEOREM StopOrder == MaxSession # 1 => (Spec => []EventEndsLast)
<1> SUFFICES ASSUME MaxSession # 1 PROVE Spec => []EventEndsLast
  OBVIOUS
<1>1. TunnelInv => EventEndsLast
  BY DEF TunnelInv, StopProtocol, EventEndsLast
<1>2. Spec => []TunnelInv
  BY TunnelInvariant
<1> QED BY <1>1, <1>2, PTL

-----------------------------------------------------------------------------
(* The time limits after a terminate.  No assumption on max-session-count  *)
(* is needed: only what a session does with its own limits matters.        *)

(* A session that a step leaves alone, but for its time limit and the      *)
(* state of its task, stays where it was.                                  *)
LEMMA SlotQuiet ==
  ASSUME LimitsInv, NEW x \in Session,
         late'[x] = LateNext(x),
         pc'[x] = pc[x], sleep'[x] = sleep[x], half'[x] = half[x]
  PROVE  SlotOK(x)'
BY DEF LimitsInv, SlotOK, IdleExpired, LastLimit, LateNext, RanOut

(* A step of one session: only its own slot has to be looked at.           *)
LEMMA OneSlot ==
  ASSUME LimitsInv, NEW s \in Session,
         late' = [x \in Session |-> LateNext(x)],
         NEW p \in Phase, pc' = [pc EXCEPT ![s] = p],
         NEW w \in {"no", "yield", "forever", "limit", "expired", "answered"},
         sleep' = [sleep EXCEPT ![s] = w],
         NEW h \in BOOLEAN, half' = [half EXCEPT ![s] = h],
         SlotOK(s)'
  PROVE  LimitsInv'
<1>1. pc \in [Session -> Phase] /\ half \in [Session -> BOOLEAN]
      /\ sleep \in [Session -> {"no", "yield", "forever", "limit", "expired",
                                "answered"}]
  BY DEF LimitsInv
<1>2. pc' \in [Session -> Phase]
  BY <1>1
<1>3. half' \in [Session -> BOOLEAN]
  BY <1>1, Zenon
<1>4. sleep' \in [Session -> {"no", "yield", "forever", "limit", "expired",
                              "answered"}]
  BY <1>1
<1>5. ASSUME NEW x \in Session, x # s PROVE SlotOK(x)'
  <2>1. pc'[x] = pc[x] /\ sleep'[x] = sleep[x] /\ half'[x] = half[x]
    BY <1>1, <1>5
  <2>2. late'[x] = LateNext(x)
    OBVIOUS
  <2> QED BY <2>1, <2>2, SlotQuiet
<1> QED BY <1>2, <1>3, <1>4, <1>5 DEF LimitsInv

(* A session that ends leaves a slot like a fresh one.                     *)
LEMMA EndSlot ==
  ASSUME LimitsInv, NEW s \in Session, End(s),
         late' = [x \in Session |-> LateNext(x)]
  PROVE  LimitsInv'
<1>1. /\ pc \in [Session -> Phase]
      /\ sleep \in [Session -> {"no", "yield", "forever", "limit", "expired",
                                "answered"}]
  BY DEF LimitsInv
<1>2. pc'[s] = "free" /\ sleep'[s] = "no"
  BY <1>1 DEF End
<1>3. late'[s] = -1
  BY <1>2 DEF LateNext
<1>4. SlotOK(s)'
  BY <1>2, <1>3 DEF SlotOK
<1> QED BY <1>4, OneSlot DEF End, Phase

(* A session that goes on without yielding has used up the limit that ran  *)
(* out: it stands in its last one.                                         *)
LEMMA EnterSlot ==
  ASSUME LimitsInv, NEW s \in Session, NEW p \in Phase \ {"free", "start"},
         Enter(s, p), NEW h \in BOOLEAN, half' = [half EXCEPT ![s] = h],
         late' = [x \in Session |-> LateNext(x)],
         p = "drain" => s \in TcpSession,
         p \in {"lookup", "fwd", "part"} => s \in UdpSession,
         late[s] >= 1 => LastLimit(s)',
         late[s] < 2
  PROVE  LimitsInv'
<1>1. /\ pc \in [Session -> Phase]
      /\ sleep \in [Session -> {"no", "yield", "forever", "limit", "expired",
                                "answered"}]
      /\ SlotOK(s)
  BY DEF LimitsInv
<1>2. pc'[s] = p /\ sleep'[s] = "no"
  BY <1>1 DEF Enter
<1>3. late'[s] = LateNext(s)
  OBVIOUS
<1>4. SlotOK(s)'
  BY <1>1, <1>2, <1>3 DEF SlotOK, LateNext, RanOut
<1> QED BY <1>4, OneSlot DEF Enter

(* A session that sleeps did not let a limit run out without seeing it.    *)
LEMMA SleepSlot ==
  ASSUME LimitsInv, NEW s \in Session, NEW p \in Phase \ {"free", "start"},
         Sleep(s, p),
         \/ p = pc[s]
         \/ /\ s \in UdpSession
            /\ p \in {"fwd", "part"} /\ pc[s] \in {"splice", "fwd"},
         late' = [x \in Session |-> LateNext(x)]
  PROVE  LimitsInv'
<1>1. /\ pc \in [Session -> Phase] /\ half \in [Session -> BOOLEAN]
      /\ sleep \in [Session -> {"no", "yield", "forever", "limit", "expired",
                                "answered"}]
      /\ SlotOK(s)
  BY DEF LimitsInv
<1>2. /\ pc'[s] = p /\ sleep'[s] = "limit" /\ sleep[s] # "expired"
      /\ half' = [half EXCEPT ![s] = half[s]] /\ half'[s] = half[s]
  <2>1. half' = half
    BY DEF Sleep
  <2>2. half = [half EXCEPT ![s] = half[s]]
    BY <1>1, Zenon
  <2> QED BY <1>1, <2>1, <2>2 DEF Sleep, Fails
<1>3. late'[s] = LateNext(s)
  OBVIOUS
<1>4. late'[s] \in {-1, 0} \/ (late'[s] = late[s] /\ late[s] = 1)
  BY <1>1, <1>2, <1>3 DEF SlotOK, IdleExpired, LateNext, RanOut
<1>5. late[s] = 1 => LastLimit(s)
  BY <1>1, <1>2 DEF SlotOK, IdleExpired
<1>6. LastLimit(s) => LastLimit(s)'
  BY <1>1, <1>2, SessionAssumption DEF LastLimit
<1>7. SlotOK(s)'
  BY <1>1, <1>2, <1>4, <1>5, <1>6 DEF SlotOK
<1>8. half[s] \in BOOLEAN
  BY <1>1
<1> QED BY <1>2, <1>7, <1>8, OneSlot DEF Sleep

(* A session that waits for the resolver has let no limit run out.         *)
LEMMA LookupSlot ==
  ASSUME LimitsInv, NEW s \in Session, NEW p \in {"resolve", "lookup"},
         Lookup(s, p), UNCHANGED half, p = "lookup" => s \in UdpSession,
         late' = [x \in Session |-> LateNext(x)],
         late[s] < 1
  PROVE  LimitsInv'
<1>1. /\ pc \in [Session -> Phase] /\ half \in [Session -> BOOLEAN]
      /\ sleep \in [Session -> {"no", "yield", "forever", "limit", "expired",
                                "answered"}]
      /\ SlotOK(s)
  BY DEF LimitsInv
<1>2. half[s] \in BOOLEAN /\ half' = [half EXCEPT ![s] = half[s]]
  BY <1>1, Zenon
<1>3. pc'[s] = p /\ sleep'[s] = "forever"
  BY <1>1 DEF Lookup
<1>4. late'[s] = LateNext(s)
  OBVIOUS
<1>5. SlotOK(s)'
  BY <1>1, <1>3, <1>4 DEF SlotOK, LateNext, RanOut
<1>6. p \in Phase
  BY DEF Phase
<1> QED BY <1>2, <1>5, <1>6, OneSlot DEF Lookup

(* One turn of a session task.                                             *)
LEMMA SessionStepSlot ==
  ASSUME LimitsInv, NEW s \in Session, SessionStep(s),
         late' = [x \in Session |-> LateNext(x)]
  PROVE  LimitsInv'
<1>1. /\ pc \in [Session -> Phase] /\ half \in [Session -> BOOLEAN]
      /\ sleep \in [Session -> {"no", "yield", "forever", "limit", "expired",
                                "answered"}]
      /\ SlotOK(s)
  BY DEF LimitsInv
<1>2. half[s] \in BOOLEAN /\ half = [half EXCEPT ![s] = half[s]]
  BY <1>1, Zenon
<1>3. late'[s] = LateNext(s)
  OBVIOUS
<1>4. {"connect", "handshake", "splice", "fwd", "part", "drain"}
        \subseteq Phase \ {"free", "start"}
  BY DEF Phase
<1>5. late[s] \in -1..2
  BY <1>1 DEF SlotOK
<1>6. CASE SessionStart(s)
  <2>1. pc[s] = "start" /\ sleep[s] = "no" /\ half' = half
    BY <1>1, <1>6 DEF SessionStart, At, SlotOK
  <2>2. late[s] < 1
    BY <1>1, <1>5, <2>1 DEF SlotOK, IdleExpired, LastLimit
  <2>3. CASE Enter(s, "connect")
    BY <1>2, <1>4, <1>5, <2>1, <2>2, <2>3, EnterSlot
  <2>4. CASE Lookup(s, "resolve")
    BY <2>1, <2>2, <2>4, LookupSlot
  <2> QED BY <1>6, <2>3, <2>4 DEF SessionStart
<1>7. CASE ResolveWait(s)
  <2>1. pc' = pc /\ sleep' = sleep /\ half' = half
    BY <1>7 DEF ResolveWait, sessions
  <2>2. \A x \in Session : SlotOK(x)'
    BY <2>1, SlotQuiet
  <2> QED BY <2>1, <2>2 DEF LimitsInv
<1>8. CASE Resolved(s)
  <2>1. pc[s] = "resolve" /\ sleep[s] = "answered" /\ half' = half /\ Enter(s, "connect")
    BY <1>8 DEF Resolved, At
  <2>2. late[s] < 1
    BY <1>1, <1>5, <2>1 DEF SlotOK, IdleExpired, LastLimit
  <2> QED BY <1>2, <1>4, <1>5, <2>1, <2>2, EnterSlot
<1>9. CASE Connected(s)
  <2>1. pc[s] = "connect" /\ sleep[s] # "expired" /\ half' = half /\ Enter(s, "handshake")
    BY <1>9 DEF Connected, At
  <2>2. late[s] < 1
    BY <1>1, <1>5, <2>1 DEF SlotOK, IdleExpired, LastLimit
  <2> QED BY <1>2, <1>4, <1>5, <2>1, <2>2, EnterSlot
<1>10. CASE UpstreamLookup(s)
  <2>1. /\ pc[s] = "handshake" /\ sleep[s] # "expired" /\ half' = half
        /\ s \in UdpSession /\ Lookup(s, "lookup")
    BY <1>10 DEF UpstreamLookup, At
  <2>2. late[s] < 1
    BY <1>1, <1>5, <2>1 DEF SlotOK, IdleExpired, LastLimit
  <2> QED BY <2>1, <2>2, LookupSlot
<1>10a. CASE TcpHandshakeDone(s) \/ UdpHandshakeDone(s)
  <2>1. CASE End(s)
    BY <2>1, EndSlot
  <2>2. CASE ~End(s)
    <3>1. /\ pc[s] \in {"handshake", "lookup"} /\ sleep[s] # "expired"
          /\ half' = half /\ Enter(s, "splice")
      BY <1>10a, <2>2 DEF TcpHandshakeDone, UdpHandshakeDone, At
    <3>2. late[s] < 1
      BY <1>1, <1>5, <3>1 DEF SlotOK, IdleExpired, LastLimit
    <3> QED BY <1>2, <1>4, <1>5, <3>1, <3>2, EnterSlot
  <2> QED BY <2>1, <2>2
<1>11. CASE SpliceBusy(s)
  <2>1. /\ pc[s] = "splice" /\ sleep[s] # "expired" /\ half' = half /\ pc' = pc
        /\ sleep' = [sleep EXCEPT ![s] = "yield"]
    BY <1>11 DEF SpliceBusy, At
  <2>2. sleep'[s] = "yield" /\ pc = [pc EXCEPT ![s] = "splice"]
    BY <1>1, <2>1
  <2>3. SlotOK(s)'
    BY <1>1, <1>3, <2>1, <2>2 DEF SlotOK, IdleExpired, LateNext, RanOut, LastLimit
  <2> QED BY <1>2, <1>4, <2>1, <2>2, <2>3, OneSlot
<1>12. CASE SpliceEnd(s)
  <2>1. CASE End(s)
    BY <2>1, EndSlot
  <2>2. CASE ~End(s)
    <3>1. pc[s] = "splice" /\ s \in TcpSession /\ half' = half /\ Enter(s, "drain")
      BY <1>12, <2>2 DEF SpliceEnd, At
    <3>2. late[s] < 2
      BY <1>1, <3>1, SessionAssumption DEF SlotOK, LastLimit
    <3>3. pc'[s] = "drain"
      BY <1>1, <3>1 DEF Enter
    <3>4. LastLimit(s)'
      BY <3>1, <3>3 DEF LastLimit
    <3> QED BY <1>2, <1>4, <1>5, <3>1, <3>2, <3>4, EnterSlot
  <2> QED BY <2>1, <2>2
<1>13. CASE FwdResume(s)
  <2>0. PICK closed \in BOOLEAN :
          /\ Fails(s) /\ pc[s] = "fwd" => closed
          /\ closed => ~half[s]
          /\ half' = [half EXCEPT ![s] = closed \/ half[s]]
    BY <1>13 DEF FwdResume
  <2> DEFINE h == closed \/ half[s]
  <2>1. /\ pc[s] \in {"fwd", "part"} /\ s \in UdpSession /\ Enter(s, "splice")
        /\ half' = [half EXCEPT ![s] = h] /\ h \in BOOLEAN
    BY <1>1, <1>2, <1>13, <2>0 DEF FwdResume, At, SlotOK
  <2>2. s \notin TcpSession
    BY <2>1, SessionAssumption
  <2>3. late[s] < 2
    BY <1>1, <1>5, <2>0, <2>1, <2>2 DEF SlotOK, IdleExpired, LastLimit, Fails
  <2>4. late[s] = 1 => h
    BY <1>1, <2>0, <2>1, <2>2 DEF SlotOK, IdleExpired, LastLimit, Fails
  <2> HIDE DEF h
  <2>5. pc'[s] = "splice" /\ half'[s] = h
    <3>1. pc'[s] = "splice"
      BY <1>1, <2>1 DEF Enter
    <3>2. half'[s] = h
      BY <1>1, <2>1, Zenon
    <3> QED BY <3>1, <3>2
  <2>6. late[s] >= 1 => LastLimit(s)'
    BY <1>5, <2>1, <2>3, <2>4, <2>5 DEF LastLimit
  <2> QED BY <1>4, <2>1, <2>3, <2>6, EnterSlot
<1>14. CASE OpenWait(s)
  BY <1>4, <1>14, SleepSlot DEF OpenWait, At
<1>15. CASE SpliceWait(s)
  BY <1>4, <1>15, SleepSlot DEF SpliceWait, At
<1>16. CASE FwdWait(s)
  <2>1. PICK p \in {"fwd", "part"} :
          Sleep(s, p) /\ (pc[s] \in {"splice", "fwd"} \/ pc[s] = p)
    BY <1>16 DEF FwdWait, At
  <2> QED BY <1>4, <1>16, <2>1, SleepSlot DEF FwdWait
<1>17. CASE DrainWait(s)
  BY <1>4, <1>17, SleepSlot DEF DrainWait, At
<1>18. CASE ResolveFail(s) \/ OpenFail(s) \/ FwdEnd(s) \/ DrainEnd(s)
  BY <1>18, EndSlot DEF ResolveFail, OpenFail, FwdEnd, DrainEnd
<1> QED BY <1>6, <1>7, <1>8, <1>9, <1>10, <1>10a, <1>11, <1>12, <1>13, <1>14, <1>15,
           <1>16, <1>17, <1>18 DEF SessionStep

(* Every step of the tunnel keeps the invariant of the limits.             *)
LEMMA LimitsNextInv ==
  ASSUME LimitsInv, [LimitsNext]_<<vars, late>>
  PROVE  LimitsInv'
<1>0. /\ pc \in [Session -> Phase] /\ half \in [Session -> BOOLEAN]
      /\ sleep \in [Session -> {"no", "yield", "forever", "limit", "expired",
                                "answered"}]
      /\ \A s \in Session : SlotOK(s)
  BY DEF LimitsInv
<1>1. CASE UNCHANGED <<vars, late>>
  BY <1>1 DEF vars, sessions, LimitsInv, SlotOK, IdleExpired, LastLimit
<1>2. CASE LimitsNext
  <2>1. late' = [x \in Session |-> LateNext(x)]
    BY <1>2 DEF LimitsNext
  <2>2. CASE UNCHANGED <<pc, sleep, half>>
    <3>1. \A x \in Session : SlotOK(x)'
      BY <2>1, <2>2, SlotQuiet
    <3> QED BY <1>0, <2>2, <3>1 DEF LimitsInv
  <2>3. ASSUME NEW s \in Session, Expire(s) PROVE LimitsInv'
    <3>1. sleep[s] = "limit" /\ sleep' = [sleep EXCEPT ![s] = "expired"]
          /\ pc' = pc /\ half' = half
      BY <2>3 DEF Expire
    <3>2. sleep'[s] = "expired" /\ pc = [pc EXCEPT ![s] = pc[s]] /\ pc[s] \in Phase
      BY <1>0, <3>1
    <3>3. half[s] \in BOOLEAN /\ half = [half EXCEPT ![s] = half[s]]
      BY <1>0, Zenon
    <3>4. SlotOK(s)'
      BY <1>0, <2>1, <3>1, <3>2 DEF SlotOK, IdleExpired, LastLimit, LateNext,
                                          RanOut, LateMax
    <3> QED BY <2>1, <3>1, <3>2, <3>3, <3>4, OneSlot
  <2>4. ASSUME NEW s \in Session, DnsAnswer(s) PROVE LimitsInv'
    <3>1. pc[s] \in {"resolve", "lookup"} /\ sleep[s] = "forever"
          /\ sleep' = [sleep EXCEPT ![s] = "answered"] /\ pc' = pc /\ half' = half
      BY <2>4 DEF DnsAnswer
    <3>2. sleep'[s] = "answered" /\ pc = [pc EXCEPT ![s] = pc[s]] /\ pc[s] \in Phase
      BY <1>0, <3>1
    <3>3. half[s] \in BOOLEAN /\ half = [half EXCEPT ![s] = half[s]]
      BY <1>0, Zenon
    <3>4. SlotOK(s)'
      BY <1>0, <2>1, <3>1, <3>2 DEF SlotOK, IdleExpired, LastLimit, LateNext, RanOut
    <3> QED BY <2>1, <3>1, <3>2, <3>3, <3>4, OneSlot
  <2>5. ASSUME NEW s \in Session, Accept(s) PROVE LimitsInv'
    <3>1. pc[s] = "free" /\ pc' = [pc EXCEPT ![s] = "start"] /\ sleep' = sleep
          /\ half' = half
      BY <2>5 DEF Accept
    <3>2. pc'[s] = "start" /\ sleep[s] = "no"
      BY <1>0, <3>1 DEF SlotOK
    <3>3. sleep = [sleep EXCEPT ![s] = "no"]
      BY <1>0, <3>2
    <3>4. half[s] \in BOOLEAN /\ half = [half EXCEPT ![s] = half[s]]
      BY <1>0, Zenon
    <3>5. SlotOK(s)'
      BY <1>0, <2>1, <3>1, <3>2 DEF SlotOK, IdleExpired, LastLimit, LateNext, RanOut
    <3> QED BY <2>1, <3>1, <3>3, <3>4, <3>5, OneSlot DEF Phase
  <2>6. ASSUME NEW s \in Session, SessionStep(s) PROVE LimitsInv'
    BY <2>1, <2>6, SessionStepSlot
  <2>7. Next
    BY <1>2 DEF LimitsNext
  <2>8. \/ UNCHANGED <<pc, sleep, half>>
        \/ \E s \in Session : Expire(s) \/ DnsAnswer(s) \/ Accept(s) \/ SessionStep(s)
    <3>1. ASSUME NEW t \in Task, FdReady(t) PROVE UNCHANGED <<pc, sleep, half>>
      BY <3>1 DEF FdReady, sessions
    <3>2. ASSUME EventStep PROVE UNCHANGED <<pc, sleep, half>>
      BY <3>2 DEF EventStep, EventWait, EventStop, IoJoined, EventExit, JoinWait,
                  sessions
    <3>3. ASSUME TimerStep \/ IoWait \/ IoExit PROVE UNCHANGED <<pc, sleep, half>>
      BY <3>3 DEF TimerStep, TimerSleep, TimerExit, IoWait, IoExit, Exit, sessions
    <3>4. ASSUME Tick \/ Stop \/ Return PROVE UNCHANGED <<pc, sleep, half>>
      BY <3>4 DEF Tick, Stop, Return, vars, sessions
    <3>5. ASSUME NEW s \in Session, Input(s) PROVE UNCHANGED <<pc, sleep, half>>
      BY <3>5 DEF Input, sessions
    <3>6. ASSUME NEW s \in TcpSession, TcpErr(s) PROVE UNCHANGED <<pc, sleep, half>>
      BY <3>6 DEF TcpErr
    <3> QED BY <2>7, <3>1, <3>2, <3>3, <3>4, <3>5, <3>6 DEF Next, IoStep
  <2> QED BY <2>2, <2>3, <2>4, <2>5, <2>6, <2>8
<1> QED BY <1>1, <1>2

(* For every number of sessions and every max-session-count: a session     *)
(* that was terminated sees a limit that ran out with nothing moved before *)
(* it sleeps again, and then stands in its last one.                       *)
THEOREM LimitsInvariant == LimitsSpec => []LimitsInv
<1>1. LimitsInit => LimitsInv
  <2> SUFFICES ASSUME LimitsInit PROVE LimitsInv
    OBVIOUS
  <2> USE DEF LimitsInit, Init
  <2>1. half \in [Session -> BOOLEAN]
    BY Zenon
  <2>2. \A s \in Session : SlotOK(s)
    BY DEF SlotOK
  <2> QED BY <2>1, <2>2 DEF LimitsInv, Phase
<1>2. LimitsInv /\ [LimitsNext]_<<vars, late>> => LimitsInv'
  BY LimitsNextInv
<1> QED BY <1>1, <1>2, PTL DEF LimitsSpec

(* native_stop_service waits for at most two time limits in which a        *)
(* session moved nothing, although connect and handshake overwrite the 0   *)
(* of hev_socks5_session_terminate; any other limit of the session ran out *)
(* in a UDP call that had moved data.                                      *)
THEOREM TwoIdleLimitsSuffice == LimitsSpec => []AtMostTwoIdleLimits
<1>1. LimitsInv => AtMostTwoIdleLimits
  BY DEF LimitsInv, SlotOK, AtMostTwoIdleLimits
<1> QED BY <1>1, LimitsInvariant, PTL

=============================================================================
