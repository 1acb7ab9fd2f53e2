--------------------------- MODULE DnsProxyProofs ---------------------------
(***************************************************************************)
(* Proofs about DnsProxy, for every set of tasks and every number of calls *)
(* they make.                                                              *)
(***************************************************************************)
EXTENDS DnsProxy, TLAPS

(* What pushing a node that is not in the list at its head does.           *)
LEMMA PushLemma ==
  ASSUME NEW S, NEW q \in Seq(S), NEW node \in S,
         Distinct(q), ~InList(q, node)
  PROVE  /\ Push(q, node) \in Seq(S)
         /\ Len(Push(q, node)) = Len(q) + 1
         /\ Head(Push(q, node)) = node
         /\ Push(q, node) # <<>>
         /\ Distinct(Push(q, node))
         /\ \A x \in S : InList(Push(q, node), x)
                            <=> InList(q, x) \/ x = node
<1> DEFINE new == Push(q, node)
<1>1. /\ new \in Seq(S) /\ Len(new) = Len(q) + 1 /\ Len(q) \in Nat
      /\ new[1] = node /\ Head(new) = node /\ new # <<>>
      /\ \A j \in 1..Len(q) : new[j + 1] = q[j]
  BY DEF Push
<1> HIDE DEF new
<1>2. \A j \in 2..Len(new) : j - 1 \in 1..Len(q) /\ new[j] = q[j - 1]
  <2> TAKE j \in 2..Len(new)
  <2>1. j - 1 \in 1..Len(q) /\ (j - 1) + 1 = j
    BY <1>1
  <2> QED BY <1>1, <2>1
<1>3. Distinct(new)
  <2> SUFFICES ASSUME NEW i \in 1..Len(new), NEW j \in 1..Len(new), new[i] = new[j]
               PROVE  i = j
    BY DEF Distinct
  <2>1. \A k \in 2..Len(new) : new[k] # node
    BY <1>2 DEF InList
  <2>2. CASE i = 1 \/ j = 1
    BY <1>1, <2>1, <2>2
  <2>3. CASE i \in 2..Len(new) /\ j \in 2..Len(new)
    <3>1. q[i - 1] = q[j - 1] /\ i - 1 \in 1..Len(q) /\ j - 1 \in 1..Len(q)
      BY <1>2, <2>3
    <3>2. i - 1 = j - 1
      BY <3>1 DEF Distinct
    <3> QED BY <3>2
  <2> QED BY <1>1, <2>2, <2>3
<1>4. ASSUME NEW x \in S
      PROVE  InList(new, x) <=> InList(q, x) \/ x = node
  <2>1. ASSUME NEW j \in 1..Len(new), new[j] = x
        PROVE  InList(q, x) \/ x = node
    <3>1. CASE j = 1
      BY <1>1, <2>1, <3>1
    <3>2. CASE j # 1
      BY <1>1, <1>2, <2>1, <3>2 DEF InList
    <3> QED BY <3>1, <3>2
  <2>2. ASSUME NEW j \in 1..Len(q), q[j] = x
        PROVE  InList(new, x)
    <3>1. j + 1 \in 1..Len(new) /\ new[j + 1] = x
      BY <1>1, <2>2
    <3> QED BY <3>1 DEF InList
  <2>3. InList(new, node)
    BY <1>1 DEF InList
  <2> QED BY <2>1, <2>2, <2>3 DEF InList
<1> QED BY <1>1, <1>3, <1>4 DEF new

(* What taking the first node from a list does.                            *)
LEMMA TailLemma ==
  ASSUME NEW S, NEW q \in Seq(S), q # <<>>, Distinct(q)
  PROVE  /\ Tail(q) \in Seq(S)
         /\ Len(Tail(q)) = Len(q) - 1
         /\ Head(q) \in S /\ InList(q, Head(q))
         /\ Distinct(Tail(q))
         /\ \A x \in S : InList(Tail(q), x)
                            <=> InList(q, x) /\ x # Head(q)
<1> DEFINE new == Tail(q)
<1>1. /\ new \in Seq(S) /\ Len(new) = Len(q) - 1
      /\ Len(q) \in Nat /\ Len(q) >= 1
      /\ Head(q) = q[1] /\ Head(q) \in S
      /\ \A j \in 1..Len(new) : new[j] = q[j + 1]
  OBVIOUS
<1> HIDE DEF new
<1>2. Distinct(new)
  BY <1>1 DEF Distinct
<1>3. InList(q, Head(q))
  BY <1>1 DEF InList
<1>4. ASSUME NEW x \in S
      PROVE  InList(new, x) <=> InList(q, x) /\ x # Head(q)
  <2>1. ASSUME NEW j \in 1..Len(new), new[j] = x
        PROVE  InList(q, x) /\ x # Head(q)
    <3>1. j + 1 \in 1..Len(q) /\ q[j + 1] = x
      BY <1>1, <2>1
    <3>2. j + 1 # 1
      OBVIOUS
    <3> QED BY <1>1, <3>1, <3>2 DEF InList, Distinct
  <2>2. ASSUME NEW j \in 1..Len(q), q[j] = x, x # Head(q)
        PROVE  InList(new, x)
    <3>1. j # 1
      BY <1>1, <2>2
    <3>2. j - 1 \in 1..Len(new) /\ (j - 1) + 1 = j
      BY <1>1, <3>1
    <3> QED BY <1>1, <2>2, <3>2 DEF InList
  <2> QED BY <2>1, <2>2 DEF InList
<1> QED BY <1>1, <1>2, <1>3, <1>4 DEF new

-----------------------------------------------------------------------------
(* Waking tasks changes no task but waiting ones.                          *)
LEMMA WokenFacts ==
  ASSUME NEW T, state \in [Task -> {"STOPPED", "RUNNING", "WAITING"}]
  PROVE  /\ Woken(state, T) \in [Task -> {"STOPPED", "RUNNING", "WAITING"}]
         /\ \A t \in Task :
              /\ (Woken(state, T)[t] = "STOPPED") <=> (state[t] = "STOPPED")
              /\ Woken(state, T)[t] = "WAITING" => state[t] = "WAITING"
              /\ state[t] = "RUNNING" => Woken(state, T)[t] = "RUNNING"
              /\ t \in T => Woken(state, T)[t] # "WAITING"
BY DEF Woken

LEMMA ProxyInit == Init => ProxyInv
<1> SUFFICES ASSUME Init PROVE ProxyInv
  OBVIOUS
<1> USE DEF Init
<1>1. ret \in [Task -> BOOLEAN]
  BY Zenon
<1>a. calls \in [Task -> Nat] /\ waiters \in Seq(Task)
  BY CallsAssumption
<1>b. /\ state \in [Task -> {"STOPPED", "RUNNING", "WAITING"}]
      /\ pc \in [Task -> {"idle", "lock", "read", "done"}]
  OBVIOUS
<1>2. TypeOK
  <2>1. /\ locker \in BOOLEAN /\ edge \in BOOLEAN /\ wedge \in BOOLEAN
        /\ alive \in BOOLEAN /\ req \in {0, 1} /\ rsp \in {0, 1}
        /\ rpc \in {"poll", "read", "work", "reply"}
        /\ call \in Task \cup {null} /\ entity \in Task \cup {dummy_task, null}
    OBVIOUS
  <2> QED BY <1>1, <1>a, <1>b, <2>1 DEF TypeOK
<1>3. MutexExact
  BY DEF MutexExact, Distinct, InList
<1>4. NoLostUnlock /\ NoLostAnswer /\ Owner /\ Answered /\ Stopped
  BY DEF NoLostUnlock, NoLostAnswer, Owner, Answered, Stopped
<1> QED BY <1>2, <1>3, <1>4 DEF ProxyInv

(* A step that only wakes tasks.                                           *)
LEMMA WakeInv ==
  ASSUME ProxyInv, NEW T, state' = Woken(state, T),
         UNCHANGED <<pc, calls, mutex, proxy, req, rsp, wedge, rpc, ret>>,
         edge' \in BOOLEAN,
         edge' = edge \/ entity \in T
  PROVE  ProxyInv'
<1> USE WokenFacts
<1>0. TypeOK /\ MutexExact /\ NoLostUnlock /\ NoLostAnswer /\ Owner /\ Answered
      /\ Stopped
  BY DEF ProxyInv
<1>1. TypeOK'
  BY <1>0 DEF TypeOK, mutex, proxy
<1>2. MutexExact'
  BY <1>0 DEF MutexExact, mutex
<1>3. NoLostUnlock'
  <2>1. waiters # <<>> => Head(waiters) \in Task
    BY <1>0 DEF TypeOK
  <2> QED BY <1>0, <2>1 DEF NoLostUnlock, TypeOK, mutex
<1>4. NoLostAnswer'
  BY <1>0 DEF NoLostAnswer, TypeOK, proxy
<1>5. Owner' /\ Answered'
  BY <1>0 DEF Owner, Answered, mutex, proxy
<1>6. Stopped'
  BY <1>0 DEF Stopped, TypeOK
<1> QED BY <1>1, <1>2, <1>3, <1>4, <1>5, <1>6 DEF ProxyInv

(* A task that goes back to sleep, unless it is the first waiter of a free *)
(* mutex or the owner with an answer to read.                              *)
LEMMA SleepInv ==
  ASSUME ProxyInv, NEW t \in Task, state[t] = "RUNNING",
         state' = [state EXCEPT ![t] = "WAITING"],
         \/ pc[t] = "lock" /\ ~MayLock(t)
         \/ pc[t] = "read" /\ rsp = 0,
         UNCHANGED <<pc, calls, mutex, proxy, sockets, rpc, ret>>
  PROVE  ProxyInv'
<1>0. TypeOK /\ MutexExact /\ NoLostUnlock /\ NoLostAnswer /\ Owner /\ Answered
      /\ Stopped
  BY DEF ProxyInv
<1>1. TypeOK'
  BY <1>0 DEF TypeOK, mutex, proxy, sockets
<1>2. MutexExact'
  BY <1>0 DEF MutexExact, mutex
<1>3. NoLostUnlock'
  <2>1. waiters # <<>> => /\ Head(waiters) \in Task
                          /\ InList(waiters, Head(waiters))
    BY <1>0, TailLemma DEF TypeOK, MutexExact
  <2> QED BY <1>0, <2>1 DEF NoLostUnlock, MutexExact, MayLock, TypeOK, mutex
<1>4. NoLostAnswer'
  BY <1>0 DEF NoLostAnswer, TypeOK, proxy, sockets
<1>5. Owner' /\ Answered'
  BY <1>0 DEF Owner, Answered, mutex, proxy, sockets
<1>6. Stopped'
  BY <1>0 DEF Stopped, TypeOK
<1> QED BY <1>1, <1>2, <1>3, <1>4, <1>5, <1>6 DEF ProxyInv

(* A task takes the free mutex, as a newcomer or as the first waiter.      *)
LEMMA PublishInv ==
  ASSUME ProxyInv, NEW t \in Task, state[t] = "RUNNING", ~locker, Publish(t),
         alive' = TRUE, edge' \in BOOLEAN, ret' \in [Task -> BOOLEAN],
         calls' \in [Task -> Nat],
         \/ pc[t] = "idle" /\ waiters' = waiters
         \/ pc[t] = "lock" /\ waiters # <<>> /\ Head(waiters) = t /\ waiters' = Tail(waiters)
  PROVE  ProxyInv'
<1>0. TypeOK /\ MutexExact /\ Owner /\ Stopped
  BY DEF ProxyInv
<1>1. /\ req = 0 /\ rsp = 0 /\ rpc \notin {"work", "reply"}
      /\ \A u \in Task : pc[u] # "read"
  BY <1>0 DEF Owner, MutexExact
<1>2. /\ locker' = TRUE /\ call' = t /\ entity' = t
      /\ req' = 1 /\ wedge' = TRUE
      /\ pc' = [pc EXCEPT ![t] = "read"]
      /\ UNCHANGED <<rsp, rpc, state>>
  BY <1>1 DEF Publish
<1>3. /\ waiters' \in Seq(Task) /\ Distinct(waiters')
      /\ \A u \in Task : InList(waiters', u) <=> InList(waiters, u) /\ u # t
  <2>1. CASE pc[t] = "idle" /\ waiters' = waiters
    BY <1>0, <2>1 DEF TypeOK, MutexExact
  <2>2. CASE waiters # <<>> /\ Head(waiters) = t /\ waiters' = Tail(waiters)
    BY <1>0, <2>2, TailLemma DEF TypeOK, MutexExact
  <2> QED BY <2>1, <2>2
<1>4. TypeOK'
  BY <1>0, <1>1, <1>2, <1>3 DEF TypeOK
<1>5. MutexExact'
  BY <1>0, <1>1, <1>2, <1>3 DEF MutexExact, TypeOK
<1>6. NoLostUnlock' /\ Answered'
  BY <1>1, <1>2 DEF NoLostUnlock, Answered
<1>7. NoLostAnswer'
  BY <1>1, <1>2 DEF NoLostAnswer
<1>8. Owner'
  BY <1>0, <1>1, <1>2, DummyAssumption DEF Owner, TypeOK
<1>9. Stopped'
  BY <1>0, <1>2 DEF Stopped, TypeOK
<1> QED BY <1>4, <1>5, <1>6, <1>7, <1>8, <1>9 DEF ProxyInv

(* A task that finds the mutex taken.                                      *)
LEMMA LockWaitInv ==
  ASSUME ProxyInv, NEW t \in Task, LockWait(t)
  PROVE  ProxyInv'
<1>0. TypeOK /\ MutexExact /\ NoLostUnlock /\ NoLostAnswer /\ Owner /\ Answered
      /\ Stopped
  BY DEF ProxyInv
<1>1. /\ state[t] = "RUNNING" /\ pc[t] = "idle" /\ locker
      /\ ret' = [ret EXCEPT ![t] = FALSE]
      /\ waiters' = Push(waiters, t)
      /\ pc' = [pc EXCEPT ![t] = "lock"]
      /\ state' = [state EXCEPT ![t] = "WAITING"]
      /\ calls' = [calls EXCEPT ![t] = @ - 1] /\ calls[t] > 0
      /\ UNCHANGED <<locker, call, entity, alive, req, rsp, edge, wedge, rpc>>
  BY DEF LockWait, proxy, sockets
<1>2. ~InList(waiters, t) /\ call # t
  BY <1>0, <1>1 DEF MutexExact, Owner
<1>3. /\ waiters' \in Seq(Task) /\ Distinct(waiters')
      /\ \A u \in Task : InList(waiters', u) <=> InList(waiters, u) \/ u = t
  BY <1>0, <1>1, <1>2, PushLemma DEF TypeOK, MutexExact
<1>4. TypeOK'
  BY <1>0, <1>1, <1>3 DEF TypeOK
<1>5. MutexExact'
  BY <1>0, <1>1, <1>3 DEF MutexExact, TypeOK
<1>6. NoLostUnlock'
  BY <1>1 DEF NoLostUnlock
<1>7. NoLostAnswer'
  BY <1>0, <1>1 DEF NoLostAnswer, TypeOK
<1>8. Owner' /\ Answered'
  BY <1>0, <1>1, <1>2 DEF Owner, Answered, TypeOK
<1>9. Stopped'
  BY <1>0, <1>1 DEF Stopped, TypeOK
<1> QED BY <1>4, <1>5, <1>6, <1>7, <1>8, <1>9 DEF ProxyInv

(* The owner reads its answer and unlocks.                                 *)
LEMMA ReturnInv ==
  ASSUME ProxyInv, NEW t \in Task, Return(t)
  PROVE  ProxyInv' /\ ret[t]
<1>0. TypeOK /\ MutexExact /\ NoLostUnlock /\ NoLostAnswer /\ Owner /\ Answered
      /\ Stopped
  BY DEF ProxyInv
<1>1. /\ state[t] = "RUNNING" /\ pc[t] = "read" /\ rsp > 0
      /\ rsp' = rsp - 1 /\ entity' = dummy_task /\ locker' = FALSE
      /\ state' = Woken(state, Unlocked)
      /\ pc' = [pc EXCEPT ![t] = "idle"]
      /\ UNCHANGED <<calls, waiters, call, req, edge, wedge, rpc, ret, alive>>
  BY DEF Return
<1>2. /\ locker /\ call = t /\ call \in Task
      /\ rsp = 1 /\ req = 0 /\ rpc \notin {"work", "reply"}
  BY <1>0, <1>1 DEF MutexExact, Owner, TypeOK
<1>3. ret[t]
  BY <1>0, <1>1, <1>2 DEF Answered
<1>4. /\ state' \in [Task -> {"STOPPED", "RUNNING", "WAITING"}]
      /\ \A u \in Task : /\ (state'[u] = "STOPPED") <=> (state[u] = "STOPPED")
                         /\ u \in Unlocked => state'[u] # "WAITING"
  BY <1>0, <1>1, WokenFacts DEF TypeOK
<1>6. TypeOK'
  <2>1. pc' \in [Task -> {"idle", "lock", "read", "done"}] /\ rsp' = 0
    BY <1>0, <1>1, <1>2 DEF TypeOK
  <2>2. entity' \in Task \cup {dummy_task, null} /\ locker' \in BOOLEAN
    BY <1>1
  <2> QED BY <1>0, <1>1, <1>4, <2>1, <2>2 DEF TypeOK
<1>7. MutexExact'
  BY <1>0, <1>1 DEF MutexExact, TypeOK
<1>8. NoLostUnlock'
  <2> SUFFICES ASSUME waiters # <<>> PROVE state'[Head(waiters)] = "RUNNING"
    BY <1>1 DEF NoLostUnlock
  <2>1. Head(waiters) \in Task /\ pc[Head(waiters)] = "lock"
    BY <1>0, TailLemma DEF TypeOK, MutexExact
  <2>2. state[Head(waiters)] # "STOPPED"
    BY <1>0, <2>1 DEF Stopped
  <2> QED BY <1>4, <2>1, <2>2 DEF Unlocked
<1>9. NoLostAnswer'
  BY <1>0, <1>1, <1>2 DEF NoLostAnswer, TypeOK
<1>10. Owner' /\ Answered'
  BY <1>0, <1>1, <1>2, DummyAssumption DEF Owner, Answered, TypeOK
<1>11. Stopped'
  BY <1>0, <1>1, <1>4 DEF Stopped, TypeOK
<1> QED BY <1>3, <1>6, <1>7, <1>8, <1>9, <1>10, <1>11 DEF ProxyInv

(* The resolver thread.                                                    *)
LEMMA ServerInv ==
  ASSUME ProxyInv, Server
  PROVE  ProxyInv'
<1>0. TypeOK /\ MutexExact /\ NoLostUnlock /\ NoLostAnswer /\ Owner /\ Answered
      /\ Stopped
  BY DEF ProxyInv
<1>1. UNCHANGED <<state, pc, calls, mutex, proxy>>
  BY DEF Server, AidePoll, ServerRead, ServerIdle, ServerWork, ServerReply
<1>2. MutexExact' /\ NoLostUnlock' /\ Stopped'
  BY <1>0, <1>1 DEF MutexExact, NoLostUnlock, Stopped, mutex
<1>3. CASE AidePoll \/ ServerIdle
  BY <1>0, <1>1, <1>2, <1>3
  DEF AidePoll, ServerIdle, ProxyInv, TypeOK, NoLostAnswer, Owner, Answered,
      mutex, proxy, sockets
<1>4. CASE ServerRead
  <2>1. locker /\ rsp = 0 /\ req = 1 /\ rpc = "read"
    BY <1>0, <1>4 DEF ServerRead, Owner, TypeOK
  <2>2. TypeOK'
    <3>1. req' = 0 /\ rpc' = "work" /\ UNCHANGED <<rsp, wedge, ret>>
      BY <1>4, <2>1 DEF ServerRead
    <3>2. edge' \in BOOLEAN
      BY <1>0, <1>4, Zenon DEF ServerRead, TypeOK
    <3> QED BY <1>0, <1>1, <3>1, <3>2 DEF TypeOK, mutex, proxy
  <2>3. NoLostAnswer' /\ Answered'
    BY <1>4, <2>1 DEF ServerRead, NoLostAnswer, Answered
  <2>4. Owner'
    BY <1>0, <1>1, <1>4, <2>1 DEF ServerRead, Owner, mutex, proxy
  <2> QED BY <1>2, <2>2, <2>3, <2>4 DEF ProxyInv
<1>5. CASE ServerWork
  <2>1. locker /\ rsp = 0 /\ req = 0 /\ call \in Task
    BY <1>0, <1>5 DEF ServerWork, Owner, TypeOK
  <2>2. ret' = [ret EXCEPT ![call] = TRUE] /\ rpc' = "reply" /\ UNCHANGED sockets
    BY <1>5 DEF ServerWork
  <2>3. TypeOK'
    BY <1>0, <1>1, <2>1, <2>2 DEF TypeOK, mutex, proxy, sockets
  <2>4. NoLostAnswer'
    BY <1>0, <1>1, <2>2 DEF NoLostAnswer, proxy, sockets
  <2>5. Answered'
    BY <1>0, <1>1, <2>1, <2>2 DEF Answered, TypeOK, proxy
  <2>6. Owner'
    BY <1>0, <1>1, <1>5, <2>1, <2>2 DEF ServerWork, Owner, mutex, proxy, sockets
  <2> QED BY <1>2, <2>3, <2>4, <2>5, <2>6 DEF ProxyInv
<1>6. CASE ServerReply
  <2>1. locker /\ rsp = 0 /\ req = 0
    BY <1>0, <1>6 DEF ServerReply, Owner, TypeOK
  <2>2. /\ rpc = "reply" /\ rpc' = "read" /\ rsp' = 1 /\ edge' = TRUE
        /\ UNCHANGED <<req, wedge, ret>>
    BY <1>6, <2>1 DEF ServerReply
  <2>3. TypeOK'
    BY <1>0, <1>1, <2>2 DEF TypeOK, mutex, proxy
  <2>4. NoLostAnswer'
    BY <1>0, <1>1, <2>1, <2>2 DEF NoLostAnswer, Owner, MutexExact, proxy
  <2>5. Answered'
    BY <1>0, <1>1, <2>2 DEF Answered, proxy
  <2>6. Owner'
    BY <1>0, <1>1, <2>1, <2>2 DEF Owner, mutex, proxy
  <2> QED BY <1>2, <2>3, <2>4, <2>5, <2>6 DEF ProxyInv
<1> QED BY <1>3, <1>4, <1>5, <1>6 DEF Server

(* One turn of a task.                                                     *)
LEMMA TaskStepInv ==
  ASSUME ProxyInv, NEW t \in Task, TaskStep(t)
  PROVE  ProxyInv'
<1>0. TypeOK /\ MutexExact /\ NoLostUnlock /\ NoLostAnswer /\ Owner /\ Answered
      /\ Stopped
  BY DEF ProxyInv
<1>1. CASE NewFails(t)
  <2>1. calls' \in [Task -> Nat]
    BY <1>0, <1>1 DEF NewFails, TypeOK
  <2>2. UNCHANGED <<state, pc, locker, waiters, call, entity, alive, req, rsp,
                    edge, wedge, rpc, ret>>
    BY <1>1 DEF NewFails, mutex, proxy, sockets
  <2>3. TypeOK' /\ MutexExact' /\ NoLostUnlock'
    BY <1>0, <2>1, <2>2 DEF TypeOK, MutexExact, NoLostUnlock
  <2>4. NoLostAnswer' /\ Owner' /\ Answered' /\ Stopped'
    BY <1>0, <2>2 DEF NoLostAnswer, Owner, Answered, Stopped
  <2> QED BY <2>3, <2>4 DEF ProxyInv
<1>2. CASE Call(t)
  <2>1. calls' \in [Task -> Nat] /\ ret' \in [Task -> BOOLEAN]
    BY <1>0, <1>2 DEF Call, TypeOK
  <2>2. alive' = TRUE /\ edge' \in BOOLEAN
    BY <1>2 DEF Call, Get
  <2> QED BY <1>2, <2>1, <2>2, PublishInv DEF Call
<1>3. CASE LockWait(t)
  BY <1>3, LockWaitInv
<1>4. CASE LockAgain(t)
  <2>1. pc[t] = "lock" /\ ~MayLock(t)
    BY <1>4 DEF LockAgain
  <2> QED BY <1>4, <2>1, SleepInv DEF LockAgain
<1>5. CASE Locked(t)
  <2>1. InList(waiters, t)
    BY <1>0, <1>5 DEF Locked, MutexExact
  <2>2. waiters # <<>>
    BY <2>1 DEF InList
  <2>3. alive' = TRUE
    BY <1>0, <1>5, <2>2 DEF Locked, Owner, TypeOK
  <2> QED BY <1>0, <1>5, <2>2, <2>3, PublishInv DEF Locked, MayLock, TypeOK
<1>6. CASE ReadWait(t)
  BY <1>6, SleepInv DEF ReadWait
<1>7. CASE Return(t)
  BY <1>7, ReturnInv
<1>8. CASE End(t)
  <2>1. /\ state[t] = "RUNNING" /\ pc[t] = "idle"
        /\ pc' = [pc EXCEPT ![t] = "done"]
        /\ state' = [state EXCEPT ![t] = "STOPPED"]
        /\ UNCHANGED <<calls, locker, waiters, call, entity, alive, req, rsp,
                       edge, wedge, rpc, ret>>
    BY <1>8 DEF End, mutex, proxy, sockets
  <2>2. TypeOK' /\ MutexExact'
    BY <1>0, <2>1 DEF TypeOK, MutexExact
  <2>3. NoLostUnlock'
    <3>1. waiters # <<>> => /\ Head(waiters) \in Task
                            /\ pc[Head(waiters)] = "lock"
      BY <1>0, TailLemma DEF TypeOK, MutexExact
    <3> QED BY <1>0, <2>1, <3>1 DEF NoLostUnlock, TypeOK
  <2>4. NoLostAnswer' /\ Stopped'
    BY <1>0, <2>1 DEF NoLostAnswer, Stopped, TypeOK
  <2>5. Owner' /\ Answered'
    BY <1>0, <2>1 DEF Owner, Answered, TypeOK
  <2> QED BY <2>2, <2>3, <2>4, <2>5 DEF ProxyInv
<1> QED BY <1>1, <1>2, <1>3, <1>4, <1>5, <1>6, <1>7, <1>8 DEF TaskStep

LEMMA ProxyNext == ProxyInv /\ [Next]_vars => ProxyInv'
<1> SUFFICES ASSUME ProxyInv, [Next]_vars PROVE ProxyInv'
  OBVIOUS
<1>0. TypeOK /\ MutexExact /\ NoLostUnlock /\ NoLostAnswer /\ Owner /\ Answered
      /\ Stopped
  BY DEF ProxyInv
<1>1. CASE UNCHANGED vars
  BY <1>1 DEF vars, mutex, proxy, sockets, ProxyInv, TypeOK, MutexExact,
              NoLostUnlock, NoLostAnswer, Owner, Answered, Stopped
<1>2. ASSUME NEW t \in Task, Wake(t) PROVE ProxyInv'
  <2>1. edge' = edge /\ edge' \in BOOLEAN
    BY <1>0, <1>2 DEF Wake, sockets, TypeOK
  <2>2. edge' = edge \/ entity \in {t}
    BY <2>1
  <2> QED BY <1>2, <2>1, <2>2, WakeInv DEF Wake, sockets
<1>3. CASE Poll
  <2>1. edge' \in BOOLEAN /\ entity \in {entity}
    BY <1>3 DEF Poll
  <2> QED BY <1>3, <2>1, WakeInv DEF Poll
<1>4. CASE Destroy
  <2>1. ~locker /\ alive' = FALSE /\ edge' = FALSE /\ wedge' = FALSE
    BY <1>0, <1>4 DEF Destroy, MutexExact
  <2>2. UNCHANGED <<state, pc, calls, locker, waiters, call, entity, req, rsp,
                    rpc, ret>>
    BY <1>4 DEF Destroy, mutex
  <2>3. TypeOK' /\ MutexExact' /\ NoLostUnlock'
    BY <1>0, <2>1, <2>2 DEF TypeOK, MutexExact, NoLostUnlock
  <2>4. NoLostAnswer'
    BY <1>0, <2>1, <2>2 DEF NoLostAnswer, MutexExact
  <2>a. waiters = <<>>
    <3>1. waiters # <<>> => /\ Head(waiters) \in Task
                            /\ InList(waiters, Head(waiters))
      BY <1>0, TailLemma DEF TypeOK, MutexExact
    <3> QED BY <1>0, <1>4, <3>1 DEF Destroy, MutexExact
  <2>5. Owner' /\ Answered' /\ Stopped'
    BY <1>0, <2>1, <2>2, <2>a DEF Owner, Answered, Stopped
  <2> QED BY <2>3, <2>4, <2>5 DEF ProxyInv
<1> QED BY <1>1, <1>2, <1>3, <1>4, TaskStepInv, ServerInv DEF Next, Finished

-----------------------------------------------------------------------------
(* The inductive invariant of mutex, proxy and resolver.                   *)
THEOREM ProxyInvariant == Spec => []ProxyInv
BY ProxyInit, ProxyNext, PTL DEF Spec

(* Mutual exclusion, and the list of waiters is exact.                     *)
THEOREM MutualExclusion == Spec => []MutexExact
<1>1. ProxyInv => MutexExact
  BY DEF ProxyInv
<1> QED BY <1>1, ProxyInvariant, PTL

(* No unlock and no answer of the resolver is lost.                        *)
THEOREM NoLostWakeup == Spec => [](NoLostUnlock /\ NoLostAnswer)
<1>1. ProxyInv => NoLostUnlock /\ NoLostAnswer
  BY DEF ProxyInv
<1> QED BY <1>1, ProxyInvariant, PTL

(* The resolver thread follows proxy->call only while the call is live.    *)
THEOREM CallLive == Spec => []CallIsLive
<1>1. ProxyInv => CallIsLive
  BY DEF ProxyInv, Owner, CallIsLive, TypeOK
<1> QED BY <1>1, ProxyInvariant, PTL

(* Events of the proxy wake no stopped task and no NULL.                   *)
THEOREM WakesLive == Spec => []WakesLiveTask
<1>1. ProxyInv => WakesLiveTask
  BY DummyAssumption DEF ProxyInv, Owner, Stopped, WakesLiveTask, TypeOK
<1> QED BY <1>1, ProxyInvariant, PTL

(* A call returns with the result of its own request.                      *)
THEOREM AnswerIsOwn == Spec => OwnAnswer
<1>1. ProxyInv /\ [Next]_vars
        => [\A t \in Task : pc[t] = "read" /\ pc'[t] = "idle" => ret[t]]_vars
  <2> SUFFICES ASSUME ProxyInv, Next, NEW t \in Task,
                      pc[t] = "read", pc'[t] = "idle"
               PROVE  ret[t]
    OBVIOUS
  <2>1. TypeOK
    BY DEF ProxyInv
  <2>2. PICK u \in Task : TaskStep(u)
    BY DEF Next, Wake, Poll, Destroy, Server, AidePoll, ServerRead, ServerIdle,
           ServerWork, ServerReply, Finished, vars
  <2>3. CASE Return(u)
    <3>1. ret[u] /\ t = u
      BY <2>1, <2>3, ReturnInv DEF Return, TypeOK
    <3> QED BY <3>1
  <2>4. CASE ~Return(u)
    BY <2>1, <2>2, <2>4 DEF TaskStep, NewFails, Call, LockWait, LockAgain,
       Locked, ReadWait, End, Publish, TypeOK
  <2> QED BY <2>3, <2>4
<1> QED BY <1>1, ProxyInvariant, PTL DEF Spec, OwnAnswer
=============================================================================
