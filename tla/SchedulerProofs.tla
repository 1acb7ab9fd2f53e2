--------------------------- MODULE SchedulerProofs --------------------------
(***************************************************************************)
(* Proofs about Scheduler, for every finite set of tasks, all priorities   *)
(* and every bound on runtimes and delays.                                 *)
(*                                                                         *)
(* New keys are computed from the first task of the run queue, taken for   *)
(* the current one.  That it is rests on the order of the queue, which     *)
(* rests in turn on the new keys: SchedInv carries both, with the sequence *)
(* facts (each task once, the queue is what its state says) behind them.   *)
(***************************************************************************)
EXTENDS Scheduler, FiniteSetTheorems, TLAPS

(* Removing the node at one position keeps the order and the distinctness  *)
(* of the others.                                                          *)
LEMMA ListDelLemma ==
  ASSUME NEW S, NEW q \in Seq(S), NEW node \in S,
         Distinct(q), InList(q, node)
  PROVE  /\ ListDel(q, node) \in Seq(S)
         /\ Len(ListDel(q, node)) = Len(q) - 1
         /\ Distinct(ListDel(q, node))
         /\ \A x \in S : InList(ListDel(q, node), x)
                            <=> InList(q, x) /\ x # node
<1> DEFINE n == Len(q)
           i == CHOOSE j \in 1..n : q[j] = node
           del == [j \in 1..(n - 1) |-> IF j < i THEN q[j] ELSE q[j + 1]]
<1>1. n \in Nat /\ \A j \in 1..n : q[j] \in S
  OBVIOUS
<1>2. i \in 1..n /\ q[i] = node
  BY DEF InList
<1>3. ListDel(q, node) = del
  BY DEF ListDel
<1> HIDE DEF i
<1>4. n - 1 \in Nat
  BY <1>1, <1>2
<1>5. \A j \in 1..(n - 1) : del[j] \in S
  BY <1>1, <1>2
<1>6. del \in Seq(S) /\ Len(del) = n - 1
  BY <1>4, <1>5
<1>7. Distinct(del)
  BY <1>1, <1>2, <1>4, <1>6 DEF Distinct
<1>8. ASSUME NEW x \in S
      PROVE  InList(del, x) <=> InList(q, x) /\ x # node
  <2>1. ASSUME NEW k \in 1..(n - 1), del[k] = x
        PROVE  InList(q, x) /\ x # node
    BY <1>1, <1>2, <2>1 DEF InList, Distinct
  <2>2. ASSUME NEW k \in 1..n, q[k] = x, x # node
        PROVE  InList(del, x)
    <3>1. CASE k < i
      <4>1. k \in 1..(n - 1) /\ del[k] = x
        BY <1>1, <1>2, <2>2, <3>1
      <4> QED BY <4>1, <1>6 DEF InList
    <3>2. CASE k > i
      <4>1. k - 1 \in 1..(n - 1) /\ del[k - 1] = x
        BY <1>1, <1>2, <2>2, <3>2
      <4> QED BY <4>1, <1>6 DEF InList
    <3> QED BY <1>2, <2>2, <3>1, <3>2
  <2> QED BY <2>1, <2>2, <1>6 DEF InList
<1> QED BY <1>3, <1>6, <1>7, <1>8

(* Removing a node does not change the order of the others.                *)
LEMMA DelOrder ==
  ASSUME NEW S, NEW q \in Seq(S), NEW node \in S, Distinct(q),
         InList(q, node), NEW x, NEW y, Before(ListDel(q, node), x, y)
  PROVE  Before(q, x, y)
<1> DEFINE n == Len(q)
           i == CHOOSE j \in 1..n : q[j] = node
           del == [j \in 1..(n - 1) |-> IF j < i THEN q[j] ELSE q[j + 1]]
<1>1. n \in Nat /\ i \in 1..n /\ ListDel(q, node) = del
  BY DEF InList, ListDel
<1> HIDE DEF i
<1>2. Len(del) = n - 1
  BY <1>1, ListDelLemma
<1>3. PICK a, b \in 1..(n - 1) : a < b /\ del[a] = x /\ del[b] = y
  BY <1>1, <1>2 DEF Before
<1> DEFINE c == IF a < i THEN a ELSE a + 1
           d == IF b < i THEN b ELSE b + 1
<1>4. c \in 1..n /\ d \in 1..n /\ c < d /\ q[c] = x /\ q[d] = y
  BY <1>1, <1>3
<1> QED BY <1>4 DEF Before

-----------------------------------------------------------------------------
(* The nodes of q are in the order of their keys.                          *)
Sorted(q, key) == \A x, y \in Task : Before(q, x, y) => key[x] <= key[y]

(* Keys are at most one turn ahead.                                        *)
Bounded(key) == \A t \in Task : \E p \in Task : key[t] <= priority(p) * MaxRuntime

Alive == {t \in Task : state[t] # "STOPPED"}

(* The run queue.                                                          *)
RunOK ==
  /\ state \in [Task -> {"RUNNING", "WAITING", "STOPPED"}]
  /\ running_tasks \in Seq(Task) /\ Distinct(running_tasks)
  /\ \A t \in Task : InList(running_tasks, t) <=> state[t] = "RUNNING"
  /\ running_task_count = Len(running_tasks)
  /\ sched_key \in [Task -> Nat] /\ Bounded(sched_key)
  /\ Sorted(running_tasks, sched_key)
  /\ running_tasks # <<>> => sched_key[running_tasks[1]] = 0

(* The timers.                                                             *)
TimerOK ==
  /\ sort_tree \in Seq(Task) /\ Distinct(sort_tree)
  /\ \A t \in Task : InList(sort_tree, t) => t \in Alive
  /\ rest \in [Task -> 0..MaxDelay] /\ leftmost \in [Task -> BOOLEAN]
  /\ Sorted(sort_tree, rest)

(* Whose turn it is.                                                       *)
TurnOK ==
  /\ pc \in {"run", "resume", "pick", "poll", "idle", "end"}
  /\ current \in Task /\ io \subseteq Task
  /\ pc = "idle" => running_tasks = <<>>
  /\ pc \in {"run", "resume"} => running_tasks # <<>> /\ running_tasks[1] = current
  /\ pc = "resume" => InList(sort_tree, current)
  /\ pc = "run" => ~InList(sort_tree, current)

(* The inductive invariant.                                                *)
SchedInv == RunOK /\ TimerOK /\ TurnOK /\ total_task_count = Cardinality(Alive)

-----------------------------------------------------------------------------
(* Sequences and keys.                                                     *)

(* A sequence without repetition has as many members as nodes.             *)
LEMMA DistinctCount ==
  ASSUME NEW S, NEW q \in Seq(S), Distinct(q)
  PROVE  Cardinality(Members(q)) = Len(q)
<1>1. Len(q) \in Nat /\ DOMAIN q = 1..Len(q)
  OBVIOUS
<1>2. q \in [1..Len(q) -> Members(q)]
  BY <1>1 DEF Members
<1>3. q \in Injection(1..Len(q), Members(q))
  BY <1>1, <1>2 DEF Injection, IsInjective, Distinct
<1>4. q \in Surjection(1..Len(q), Members(q))
  BY <1>2 DEF Surjection, Members
<1>5. ExistsBijection(1..Len(q), Members(q))
  BY <1>3, <1>4 DEF ExistsBijection, Bijection
<1>6. IsFiniteSet(1..Len(q)) /\ Cardinality(1..Len(q)) = Len(q)
  BY <1>1, FS_Interval
<1> QED BY <1>5, <1>6, FS_Bijection

(* A node comes behind the first n.                                        *)
LEMMA InsertAtLemma ==
  ASSUME NEW S, NEW q \in Seq(S), NEW t \in S, NEW n \in 0..Len(q),
         Distinct(q), ~InList(q, t)
  PROVE  LET p == InsertAt(q, n, t)
         IN  /\ p \in Seq(S) /\ Len(p) = Len(q) + 1 /\ Distinct(p)
             /\ \A x \in S : InList(p, x) <=> InList(q, x) \/ x = t
             /\ n > 0 => p[1] = q[1]
             /\ \A i \in 1..Len(p) :
                  /\ i <= n => p[i] = q[i] /\ i \in 1..Len(q)
                  /\ i = n + 1 => p[i] = t
                  /\ i > n + 1 => p[i] = q[i - 1] /\ i - 1 \in 1..Len(q)
<1> DEFINE p == [i \in 1..(Len(q) + 1) |-> IF i <= n THEN q[i] ELSE IF i = n + 1 THEN t ELSE q[i - 1]]
<1>1. Len(q) \in Nat /\ \A i \in 1..Len(q) : q[i] \in S /\ q[i] # t
  BY DEF InList
<1>2. n \in Nat /\ n <= Len(q) /\ Len(q) + 1 \in Nat
  BY <1>1
<1>3. \A i \in 1..(Len(q) + 1) : p[i] \in S
  BY <1>1, <1>2
<1>4. p \in Seq(S) /\ Len(p) = Len(q) + 1
  BY <1>2, <1>3
<1>5. ASSUME NEW i \in 1..Len(p)
      PROVE  /\ i <= n => p[i] = q[i] /\ i \in 1..Len(q)
             /\ i = n + 1 => p[i] = t
             /\ i > n + 1 => p[i] = q[i - 1] /\ i - 1 \in 1..Len(q)
  BY <1>1, <1>2, <1>4
<1> HIDE DEF p
<1>6. Distinct(p)
  <2> SUFFICES ASSUME NEW i \in 1..Len(p), NEW j \in 1..Len(p), p[i] = p[j], i < j
               PROVE  FALSE
    BY <1>4 DEF Distinct
  <2>1. CASE j <= n
    <3>1. p[i] = q[i] /\ i \in 1..Len(q) /\ p[j] = q[j] /\ j \in 1..Len(q) /\ i # j
      BY <1>2, <1>4, <1>5, <2>1
    <3> QED BY <3>1 DEF Distinct
  <2>2. CASE j = n + 1
    <3>1. p[i] = q[i] /\ i \in 1..Len(q) /\ p[j] = t
      BY <1>2, <1>4, <1>5, <2>2
    <3> QED BY <1>1, <3>1
  <2>3. CASE i <= n /\ j > n + 1
    <3>1. p[i] = q[i] /\ i \in 1..Len(q) /\ p[j] = q[j - 1] /\ j - 1 \in 1..Len(q) /\ i # j - 1
      BY <1>2, <1>4, <1>5, <2>3
    <3> QED BY <3>1 DEF Distinct
  <2>4. CASE i = n + 1
    <3>1. p[i] = t /\ p[j] = q[j - 1] /\ j - 1 \in 1..Len(q)
      BY <1>2, <1>4, <1>5, <2>4
    <3> QED BY <1>1, <3>1
  <2>5. CASE i > n + 1
    <3>1. /\ p[i] = q[i - 1] /\ i - 1 \in 1..Len(q) /\ p[j] = q[j - 1] /\ j - 1 \in 1..Len(q)
          /\ i - 1 # j - 1
      BY <1>2, <1>4, <1>5, <2>5
    <3> QED BY <3>1 DEF Distinct
  <2> QED BY <1>2, <1>4, <2>1, <2>2, <2>3, <2>4, <2>5
<1>7. ASSUME NEW x \in S PROVE InList(p, x) <=> InList(q, x) \/ x = t
  <2>1. ASSUME NEW i \in 1..Len(p), p[i] = x PROVE InList(q, x) \/ x = t
    BY <1>1, <1>2, <1>4, <1>5, <2>1 DEF InList
  <2>2. ASSUME NEW i \in 1..Len(q), q[i] = x PROVE InList(p, x)
    <3>1. CASE i <= n
      <4>1. i \in 1..Len(p) /\ p[i] = x
        BY <1>1, <1>2, <1>4, <1>5, <2>2, <3>1
      <4> QED BY <4>1 DEF InList
    <3>2. CASE i > n
      <4>1. i + 1 \in 1..Len(p) /\ i + 1 > n + 1 /\ (i + 1) - 1 = i
        BY <1>1, <1>2, <1>4, <3>2
      <4>2. p[i + 1] = x
        BY <1>2, <1>5, <2>2, <4>1
      <4> QED BY <4>1, <4>2 DEF InList
    <3> QED BY <1>2, <3>1, <3>2
  <2>3. InList(p, t)
    <3>1. n + 1 \in 1..Len(p) /\ p[n + 1] = t
      BY <1>1, <1>2, <1>4, <1>5
    <3> QED BY <3>1 DEF InList
  <2> QED BY <2>1, <2>2, <2>3 DEF InList
<1>8. n > 0 => p[1] = q[1]
  BY <1>1, <1>2, <1>4, <1>5
<1>9. InsertAt(q, n, t) = p
  BY DEF InsertAt, p
<1> QED BY <1>4, <1>5, <1>6, <1>7, <1>8, <1>9

(* A node put behind those that are not greater and before those that are  *)
(* not smaller leaves the order.                                           *)
LEMMA SortedInsert ==
  ASSUME NEW q \in Seq(Task), NEW t \in Task, NEW n \in 0..Len(q),
         Distinct(q), ~InList(q, t), NEW key \in [Task -> Nat], Sorted(q, key),
         \A i \in 1..n : key[q[i]] <= key[t],
         \A i \in (n + 1)..Len(q) : key[t] <= key[q[i]]
  PROVE  Sorted(InsertAt(q, n, t), key)
<1> DEFINE p == InsertAt(q, n, t)
<1>1. /\ p \in Seq(Task) /\ Len(p) = Len(q) + 1
      /\ \A i \in 1..Len(p) :
           /\ i <= n => p[i] = q[i] /\ i \in 1..Len(q)
           /\ i = n + 1 => p[i] = t
           /\ i > n + 1 => p[i] = q[i - 1] /\ i - 1 \in 1..Len(q)
  BY InsertAtLemma
<1>2. n \in Nat /\ Len(q) \in Nat /\ n <= Len(q)
  OBVIOUS
<1> HIDE DEF p
<1>3. \A i, j \in 1..Len(q) : i < j => key[q[i]] <= key[q[j]]
  <2>1. \A i \in 1..Len(q) : q[i] \in Task
    OBVIOUS
  <2> QED BY <2>1 DEF Sorted, Before
<1>4. ASSUME NEW i \in 1..Len(p), NEW j \in 1..Len(p), i < j
      PROVE  key[p[i]] <= key[p[j]]
  <2> i \in Nat /\ j \in Nat
    BY <1>1, <1>2
  <2>1. CASE j <= n
    <3>1. p[i] = q[i] /\ i \in 1..Len(q) /\ p[j] = q[j] /\ j \in 1..Len(q)
      BY <1>1, <1>2, <1>4, <2>1
    <3> QED BY <1>3, <1>4, <3>1
  <2>2. CASE j = n + 1
    <3>1. p[i] = q[i] /\ i \in 1..n /\ p[j] = t
      BY <1>1, <1>2, <1>4, <2>2
    <3> QED BY <3>1
  <2>3. CASE i <= n /\ j > n + 1
    <3>1. p[i] = q[i] /\ i \in 1..Len(q) /\ p[j] = q[j - 1] /\ j - 1 \in 1..Len(q) /\ i < j - 1
      BY <1>1, <1>2, <2>3
    <3> QED BY <1>3, <3>1
  <2>4. CASE i = n + 1
    <3>1. p[i] = t /\ p[j] = q[j - 1] /\ j - 1 \in (n + 1)..Len(q)
      BY <1>1, <1>2, <1>4, <2>4
    <3> QED BY <3>1
  <2>5. CASE i > n + 1
    <3>1. /\ p[i] = q[i - 1] /\ i - 1 \in 1..Len(q) /\ p[j] = q[j - 1] /\ j - 1 \in 1..Len(q)
          /\ i - 1 < j - 1
      BY <1>1, <1>2, <1>4, <2>5
    <3> QED BY <1>3, <3>1
  <2> QED BY <1>2, <1>4, <2>1, <2>2, <2>3, <2>4, <2>5
<1> QED BY <1>4 DEF Sorted, Before, p

(* A node that is taken out leaves the order.                              *)
LEMMA SortedDel ==
  ASSUME NEW q \in Seq(Task), NEW t \in Task, Distinct(q), InList(q, t),
         NEW key, Sorted(q, key)
  PROVE  Sorted(ListDel(q, t), key)
BY DelOrder DEF Sorted

(* The order depends on the keys of the members only.                      *)
LEMMA SortedKeys ==
  ASSUME NEW q \in Seq(Task), NEW key, NEW new, Sorted(q, key),
         \A t \in Task : InList(q, t) => new[t] = key[t]
  PROVE  Sorted(q, new)
BY DEF Sorted, Before, InList

(* A turn adds at most what the bound allows.                              *)
LEMMA OneTurn ==
  ASSUME NEW t \in Task
  PROVE  /\ priority(t) \in Nat /\ priority(t) <= priority(t) * MaxRuntime
         /\ priority(t) * MaxRuntime \in Nat
         /\ \A r \in Runtime : r * priority(t) \in Nat /\ r * priority(t) <= priority(t) * MaxRuntime
<1> DEFINE a == priority(t)
<1>1. a \in Nat /\ MaxRuntime \in Nat /\ MaxRuntime >= 1
  BY SchedulerAssumption
<1> HIDE DEF a
<1>2. ASSUME NEW r \in Nat, NEW m \in Nat, r <= m
      PROVE  r * a \in Nat /\ a * m \in Nat /\ r * a <= a * m
  <2>1. m = r + (m - r) /\ m - r \in Nat
    BY <1>2
  <2> DEFINE d == m - r
  <2>2. m = r + d /\ d \in Nat
    BY <2>1
  <2> HIDE DEF d
  <2>3. a * m = r * a + d * a
    BY <1>1, <2>2
  <2>4. r * a \in Nat /\ d * a \in Nat /\ a * m \in Nat
    BY <1>1, <2>2
  <2> QED BY <2>3, <2>4
<1>3. 1 * a = a
  BY <1>1
<1>4. a <= a * MaxRuntime /\ a * MaxRuntime \in Nat
  BY <1>1, <1>2, <1>3
<1>5. \A r \in Runtime : r \in Nat /\ r <= MaxRuntime
  BY <1>1 DEF Runtime
<1>6. \A r \in Runtime : r * a \in Nat /\ r * a <= a * MaxRuntime
  BY <1>1, <1>2, <1>5
<1> QED BY <1>1, <1>4, <1>6 DEF a

(* Keys relative to the first task: the first one is 0, the others keep    *)
(* their distance, and none grows.                                         *)
LEMMA RebaseLemma ==
  ASSUME NEW q \in Seq(Task), NEW key \in [Task -> Nat], Sorted(q, key), Bounded(key)
  PROVE  LET new == Rebase(key, q)
         IN  /\ new \in [Task -> Nat] /\ Bounded(new) /\ Sorted(q, new)
             /\ q # <<>> => new[q[1]] = 0
<1> DEFINE new == Rebase(key, q)
<1>1. Len(q) \in Nat /\ \A i \in 1..Len(q) : q[i] \in Task
  OBVIOUS
<1>2. new = [t \in Task |-> IF t \in Members(q) THEN key[t] - key[q[1]] ELSE key[t]]
  BY DEF Rebase
<1> HIDE DEF new
<1>3. ASSUME NEW t \in Members(q)
      PROVE  /\ t \in Task /\ q[1] \in Task /\ key[t] \in Nat /\ key[q[1]] \in Nat
             /\ key[q[1]] <= key[t] /\ new[t] = key[t] - key[q[1]]
  <2>1. PICK i \in 1..Len(q) : t = q[i]
    BY DEF Members
  <2>2. 1 \in 1..Len(q) /\ t \in Task /\ q[1] \in Task
    BY <1>1, <2>1
  <2>3. key[t] \in Nat /\ key[q[1]] \in Nat
    BY <2>2
  <2>4. CASE i = 1
    BY <1>2, <2>1, <2>2, <2>3, <2>4
  <2>5. CASE i > 1
    <3>1. Before(q, q[1], t)
      BY <2>1, <2>2, <2>5 DEF Before
    <3>2. key[q[1]] <= key[t]
      BY <2>2, <3>1 DEF Sorted
    <3> QED BY <1>2, <2>2, <2>3, <3>2
  <2> QED BY <1>1, <2>4, <2>5
<1>4. ASSUME NEW t \in Task, t \notin Members(q) PROVE new[t] = key[t]
  BY <1>2, <1>4
<1>5. ASSUME NEW t \in Task PROVE new[t] \in Nat /\ new[t] <= key[t] /\ key[t] \in Nat
  BY <1>3, <1>4
<1>6. new \in [Task -> Nat]
  BY <1>2, <1>5
<1>7. Bounded(new)
  <2> SUFFICES ASSUME NEW t \in Task PROVE \E p \in Task : new[t] <= priority(p) * MaxRuntime
    BY DEF Bounded
  <2>1. PICK p \in Task : key[t] <= priority(p) * MaxRuntime
    BY DEF Bounded
  <2>2. priority(p) * MaxRuntime \in Nat
    BY OneTurn
  <2>3. new[t] <= priority(p) * MaxRuntime
    BY <1>5, <2>1, <2>2
  <2> QED BY <2>3
<1>8. Sorted(q, new)
  <2> SUFFICES ASSUME NEW x \in Task, NEW y \in Task, Before(q, x, y) PROVE new[x] <= new[y]
    BY DEF Sorted
  <2>1. x \in Members(q) /\ y \in Members(q)
    BY DEF Before, Members
  <2>2. key[x] <= key[y]
    BY DEF Sorted
  <2> QED BY <1>3, <2>1, <2>2
<1>9. q # <<>> => new[q[1]] = 0
  <2> SUFFICES ASSUME q # <<>> PROVE new[q[1]] = 0
    OBVIOUS
  <2>1. 1 \in 1..Len(q)
    OBVIOUS
  <2>2. q[1] \in Members(q)
    BY <2>1 DEF Members
  <2> QED BY <1>3, <2>2
<1> QED BY <1>6, <1>7, <1>8, <1>9 DEF new

(* A task enters the run queue.                                            *)
LEMMA InsertLemma ==
  ASSUME NEW q \in Seq(Task), Distinct(q), NEW t \in Task, ~InList(q, t),
         NEW key \in [Task -> Nat], Bounded(key), Sorted(q, key), Insert(q, key, t)
  PROVE  /\ running_tasks' \in Seq(Task) /\ Distinct(running_tasks')
         /\ Len(running_tasks') = Len(q) + 1 /\ running_tasks' # <<>>
         /\ \A x \in Task : InList(running_tasks', x) <=> InList(q, x) \/ x = t
         /\ sched_key' \in [Task -> Nat] /\ Bounded(sched_key')
         /\ Sorted(running_tasks', sched_key') /\ sched_key'[running_tasks'[1]] = 0
         /\ q # <<>> /\ key[q[1]] <= key[t] => running_tasks'[1] = q[1]
<1>1. PICK n \in 0..Len(q) :
        /\ \A i \in 1..n : key[q[i]] <= key[t]
        /\ \A i \in (n + 1)..Len(q) : key[t] < key[q[i]]
        /\ running_tasks' = InsertAt(q, n, t)
        /\ sched_key' = Rebase(key, running_tasks')
  BY DEF Insert
<1>2. /\ running_tasks' \in Seq(Task) /\ Len(running_tasks') = Len(q) + 1
      /\ Distinct(running_tasks')
      /\ \A x \in Task : InList(running_tasks', x) <=> InList(q, x) \/ x = t
      /\ n > 0 => running_tasks'[1] = q[1]
  BY <1>1, InsertAtLemma
<1>3. ASSUME NEW i \in 1..Len(q) PROVE key[q[i]] \in Nat /\ key[t] \in Nat
  <2>1. q[i] \in Task
    OBVIOUS
  <2> QED BY <2>1
<1>4. Sorted(running_tasks', key)
  <2>1. \A i \in (n + 1)..Len(q) : key[t] <= key[q[i]]
    <3> SUFFICES ASSUME NEW i \in (n + 1)..Len(q) PROVE key[t] <= key[q[i]]
      OBVIOUS
    <3>1. i \in 1..Len(q)
      OBVIOUS
    <3> QED BY <1>1, <1>3, <3>1
  <2> QED BY <1>1, <2>1, SortedInsert
<1>5. running_tasks' # <<>>
  BY <1>2
<1>6. /\ sched_key' \in [Task -> Nat] /\ Bounded(sched_key')
      /\ Sorted(running_tasks', sched_key') /\ sched_key'[running_tasks'[1]] = 0
  BY <1>1, <1>2, <1>4, <1>5, RebaseLemma
<1>7. ASSUME q # <<>>, key[q[1]] <= key[t] PROVE running_tasks'[1] = q[1]
  <2>1. 1 \in 1..Len(q) /\ n \in Nat
    BY <1>7
  <2>2. ~(key[t] < key[q[1]])
    BY <1>3, <1>7, <2>1
  <2>3. n > 0
    BY <1>1, <2>1, <2>2
  <2> QED BY <1>2, <2>3
<1> QED BY <1>2, <1>5, <1>6, <1>7

-----------------------------------------------------------------------------
(* What the operations do to the run queue.                                *)

(* The first task of the queue.                                            *)
LEMMA FirstTask ==
  ASSUME NEW q \in Seq(Task), q # <<>>
  PROVE  1 \in 1..Len(q) /\ q[1] \in Task /\ InList(q, q[1])
<1>1. 1 \in 1..Len(q)
  OBVIOUS
<1> QED BY <1>1 DEF InList

(* A task that was not running is inserted: the first one stays the first. *)
LEMMA InsertTaskRun ==
  ASSUME RunOK, NEW t \in Task, state[t] # "RUNNING", NEW k \in Nat,
         NEW p \in Task, k <= priority(p) * MaxRuntime, InsertTask(t, k)
  PROVE  /\ RunOK' /\ running_tasks' # <<>> /\ state' = [state EXCEPT ![t] = "RUNNING"]
         /\ running_tasks # <<>> => running_tasks'[1] = running_tasks[1]
<1> DEFINE key == [sched_key EXCEPT ![t] = k]
<1>1. /\ state' = [state EXCEPT ![t] = "RUNNING"]
      /\ running_task_count' = running_task_count + 1
      /\ Insert(running_tasks, key, t)
  BY DEF InsertTask
<1>2. /\ state \in [Task -> {"RUNNING", "WAITING", "STOPPED"}]
      /\ running_tasks \in Seq(Task) /\ Distinct(running_tasks) /\ ~InList(running_tasks, t)
      /\ \A x \in Task : InList(running_tasks, x) <=> state[x] = "RUNNING"
      /\ running_task_count = Len(running_tasks)
      /\ sched_key \in [Task -> Nat] /\ Bounded(sched_key) /\ Sorted(running_tasks, sched_key)
  BY DEF RunOK
<1>3. key \in [Task -> Nat] /\ key[t] = k /\ \A x \in Task : x # t => key[x] = sched_key[x]
  BY <1>2
<1> HIDE DEF key
<1>4. Bounded(key)
  BY <1>2, <1>3 DEF Bounded
<1>5. Sorted(running_tasks, key)
  BY <1>2, <1>3, SortedKeys
<1>6. /\ running_tasks' \in Seq(Task) /\ Distinct(running_tasks')
      /\ Len(running_tasks') = Len(running_tasks) + 1 /\ running_tasks' # <<>>
      /\ \A x \in Task : InList(running_tasks', x) <=> InList(running_tasks, x) \/ x = t
      /\ sched_key' \in [Task -> Nat] /\ Bounded(sched_key')
      /\ Sorted(running_tasks', sched_key') /\ sched_key'[running_tasks'[1]] = 0
      /\ running_tasks # <<>> /\ key[running_tasks[1]] <= key[t]
           => running_tasks'[1] = running_tasks[1]
  BY <1>1, <1>2, <1>3, <1>4, <1>5, InsertLemma
<1>7. running_tasks # <<>> => running_tasks'[1] = running_tasks[1]
  <2> SUFFICES ASSUME running_tasks # <<>> PROVE running_tasks'[1] = running_tasks[1]
    OBVIOUS
  <2>1. running_tasks[1] \in Task /\ running_tasks[1] # t
    BY <1>2, FirstTask
  <2>2. key[running_tasks[1]] = 0
    BY <1>3, <2>1 DEF RunOK
  <2> QED BY <1>3, <1>6, <2>2
<1>8. /\ state' \in [Task -> {"RUNNING", "WAITING", "STOPPED"}]
      /\ \A x \in Task : InList(running_tasks', x) <=> state'[x] = "RUNNING"
  BY <1>1, <1>2, <1>6
<1>9. running_task_count' = Len(running_tasks')
  BY <1>1, <1>2, <1>6
<1> QED BY <1>1, <1>6, <1>7, <1>8, <1>9 DEF RunOK

(* A wakeup.                                                               *)
LEMMA WakeupRun ==
  ASSUME RunOK, NEW t \in Task, Wakeup(t)
  PROVE  /\ RunOK' /\ Alive' = Alive
         /\ running_tasks # <<>> => running_tasks' # <<>> /\ running_tasks'[1] = running_tasks[1]
<1>1. CASE state[t] = "RUNNING" /\ UNCHANGED sched
  <2>1. UNCHANGED <<state, sched_key, running_tasks, running_task_count>>
    BY <1>1 DEF sched
  <2> QED BY <2>1 DEF RunOK, Alive
<1>2. CASE state[t] = "WAITING" /\ InsertTask(t, sched_key[t])
  <2>1. sched_key[t] \in Nat /\ state[t] # "RUNNING"
    BY <1>2 DEF RunOK
  <2>2. PICK p \in Task : sched_key[t] <= priority(p) * MaxRuntime
    BY DEF RunOK, Bounded
  <2>3. /\ RunOK' /\ running_tasks' # <<>> /\ state' = [state EXCEPT ![t] = "RUNNING"]
        /\ running_tasks # <<>> => running_tasks'[1] = running_tasks[1]
    BY <1>2, <2>1, <2>2, InsertTaskRun
  <2>4. Alive' = Alive
    BY <1>2, <2>3 DEF RunOK, Alive
  <2> QED BY <2>3, <2>4
<1> QED BY <1>1, <1>2 DEF Wakeup

(* The current task leaves the queue.                                      *)
LEMMA RemoveRun ==
  ASSUME RunOK, running_tasks # <<>>, running_tasks[1] = current,
         NEW s \in {"WAITING", "STOPPED"}, Remove(s)
  PROVE  RunOK' /\ state' = [state EXCEPT ![current] = s]
<1> DEFINE key == [sched_key EXCEPT ![current] = priority(current)]
<1>1. /\ state' = [state EXCEPT ![current] = s]
      /\ running_tasks' = ListDel(running_tasks, current)
      /\ running_task_count' = running_task_count - 1
      /\ sched_key' = Rebase(key, running_tasks')
  BY DEF Remove
<1>2. /\ state \in [Task -> {"RUNNING", "WAITING", "STOPPED"}]
      /\ running_tasks \in Seq(Task) /\ Distinct(running_tasks)
      /\ \A x \in Task : InList(running_tasks, x) <=> state[x] = "RUNNING"
      /\ running_task_count = Len(running_tasks)
      /\ sched_key \in [Task -> Nat] /\ Bounded(sched_key) /\ Sorted(running_tasks, sched_key)
  BY DEF RunOK
<1>3. current \in Task /\ InList(running_tasks, current)
  BY <1>2, FirstTask
<1>4. /\ running_tasks' \in Seq(Task) /\ Len(running_tasks') = Len(running_tasks) - 1
      /\ Distinct(running_tasks')
      /\ \A x \in Task : InList(running_tasks', x) <=> InList(running_tasks, x) /\ x # current
  BY <1>1, <1>2, <1>3, ListDelLemma
<1>5. /\ priority(current) \in Nat /\ priority(current) <= priority(current) * MaxRuntime
  BY <1>3, OneTurn
<1>6. /\ key \in [Task -> Nat] /\ key[current] = priority(current)
      /\ \A x \in Task : x # current => key[x] = sched_key[x]
  BY <1>2, <1>5
<1> HIDE DEF key
<1>7. Bounded(key)
  BY <1>2, <1>3, <1>5, <1>6 DEF Bounded
<1>8. Sorted(running_tasks', key)
  <2>1. Sorted(running_tasks', sched_key)
    BY <1>1, <1>2, <1>3, SortedDel
  <2> QED BY <1>4, <1>6, <2>1, SortedKeys
<1>9. /\ sched_key' \in [Task -> Nat] /\ Bounded(sched_key') /\ Sorted(running_tasks', sched_key')
      /\ running_tasks' # <<>> => sched_key'[running_tasks'[1]] = 0
  BY <1>1, <1>4, <1>6, <1>7, <1>8, RebaseLemma
<1>10. /\ state' \in [Task -> {"RUNNING", "WAITING", "STOPPED"}]
       /\ \A x \in Task : InList(running_tasks', x) <=> state'[x] = "RUNNING"
  BY <1>1, <1>2, <1>3, <1>4
<1>11. running_task_count' = Len(running_tasks')
  BY <1>1, <1>2, <1>4
<1> QED BY <1>1, <1>4, <1>9, <1>10, <1>11 DEF RunOK

(* The current task goes behind the others it is no longer ahead of.       *)
LEMMA YieldRun ==
  ASSUME RunOK, running_tasks # <<>>, running_tasks[1] = current,
         NEW r \in Runtime, Yield(r)
  PROVE  RunOK' /\ running_tasks' # <<>>
<1> DEFINE q == ListDel(running_tasks, current)
           key == [sched_key EXCEPT ![current] = @ + r * priority(current)]
<1>1. Insert(q, key, current) /\ UNCHANGED <<state, running_task_count>>
  BY DEF Yield
<1>2. /\ running_tasks \in Seq(Task) /\ Distinct(running_tasks)
      /\ \A x \in Task : InList(running_tasks, x) <=> state[x] = "RUNNING"
      /\ running_task_count = Len(running_tasks)
      /\ sched_key \in [Task -> Nat] /\ Bounded(sched_key) /\ Sorted(running_tasks, sched_key)
      /\ sched_key[current] = 0
  BY DEF RunOK
<1>3. current \in Task /\ InList(running_tasks, current)
  BY <1>2, FirstTask
<1>4. /\ q \in Seq(Task) /\ Len(q) = Len(running_tasks) - 1 /\ Distinct(q)
      /\ \A x \in Task : InList(q, x) <=> InList(running_tasks, x) /\ x # current
  BY <1>2, <1>3, ListDelLemma
<1>5. /\ r * priority(current) \in Nat
      /\ r * priority(current) <= priority(current) * MaxRuntime
  BY <1>3, OneTurn
<1>6. key[current] = r * priority(current)
  <2>1. key[current] = sched_key[current] + r * priority(current)
    BY <1>2, <1>3
  <2> QED BY <1>2, <1>5, <2>1
<1>7. key \in [Task -> Nat] /\ \A x \in Task : x # current => key[x] = sched_key[x]
  <2>1. sched_key[current] + r * priority(current) \in Nat
    BY <1>2, <1>5
  <2> QED BY <1>2, <2>1
<1> HIDE DEF key, q
<1>8. Bounded(key)
  BY <1>2, <1>3, <1>5, <1>6, <1>7 DEF Bounded
<1>9. Sorted(q, key)
  <2>1. Sorted(q, sched_key)
    BY <1>2, <1>3, SortedDel DEF q
  <2>2. \A x \in Task : InList(q, x) => key[x] = sched_key[x]
    BY <1>4, <1>7
  <2> QED BY <1>4, <2>1, <2>2, SortedKeys
<1>10. ~InList(q, current)
  BY <1>3, <1>4
<1>11. /\ running_tasks' \in Seq(Task) /\ Distinct(running_tasks')
       /\ Len(running_tasks') = Len(q) + 1 /\ running_tasks' # <<>>
       /\ \A x \in Task : InList(running_tasks', x) <=> InList(q, x) \/ x = current
       /\ sched_key' \in [Task -> Nat] /\ Bounded(sched_key')
       /\ Sorted(running_tasks', sched_key') /\ sched_key'[running_tasks'[1]] = 0
  BY <1>1, <1>3, <1>4, <1>7, <1>8, <1>9, <1>10, InsertLemma
<1>12. \A x \in Task : InList(running_tasks', x) <=> InList(running_tasks, x)
  BY <1>3, <1>4, <1>11
<1>13. Len(running_tasks') = Len(running_tasks)
  BY <1>2, <1>4, <1>11
<1> QED BY <1>1, <1>2, <1>11, <1>12, <1>13 DEF RunOK

-----------------------------------------------------------------------------
(* The actions.                                                            *)

(* Timers stay as they are, while no task that has one stops.              *)
LEMMA TimerFrame ==
  ASSUME TimerOK, UNCHANGED timer, Alive \subseteq Alive'
  PROVE  TimerOK' /\ sort_tree' = sort_tree
<1>1. UNCHANGED <<sort_tree, leftmost, rest>>
  BY DEF timer
<1> QED BY <1>1 DEF TimerOK

(* The set of tasks that are not stopped is finite.                        *)
LEMMA AliveFinite ==
  IsFiniteSet(Alive) /\ Cardinality(Alive) \in Nat /\ Cardinality(Alive) <= Cardinality(Task)
<1>1. IsFiniteSet(Task) /\ Alive \in SUBSET Task
  BY SchedulerAssumption DEF Alive
<1>2. IsFiniteSet(Alive) /\ Cardinality(Alive) <= Cardinality(Task)
  BY <1>1, FS_Subset
<1> QED BY <1>2, FS_CardinalityType

(* A new task.                                                             *)
LEMMA RunInv ==
  ASSUME SchedInv, NEW t \in Task, Run(t)
  PROVE  SchedInv'
<1>1. /\ pc = "run" /\ state[t] = "STOPPED" /\ InsertTask(t, priority(t))
      /\ total_task_count' = total_task_count + 1 /\ UNCHANGED <<pc, current, timer, io>>
  BY DEF Run, Turn
<1>2. priority(t) \in Nat /\ priority(t) <= priority(t) * MaxRuntime
  BY OneTurn
<1>3. running_tasks # <<>> /\ running_tasks[1] = current
  BY <1>1 DEF SchedInv, TurnOK
<1>4. /\ RunOK' /\ running_tasks' # <<>> /\ state' = [state EXCEPT ![t] = "RUNNING"]
      /\ running_tasks'[1] = running_tasks[1]
  BY <1>1, <1>2, <1>3, InsertTaskRun DEF SchedInv
<1>5. Alive' = Alive \cup {t} /\ t \notin Alive
  BY <1>1, <1>4 DEF SchedInv, RunOK, Alive
<1>6. TimerOK' /\ sort_tree' = sort_tree
  BY <1>1, <1>5, TimerFrame DEF SchedInv
<1>7. total_task_count' = Cardinality(Alive')
  <2>1. Cardinality(Alive \cup {t}) = Cardinality(Alive) + 1
    BY <1>5, AliveFinite, FS_AddElement
  <2> QED BY <1>1, <1>5, <2>1 DEF SchedInv
<1>8. TurnOK'
  BY <1>1, <1>3, <1>4, <1>6 DEF SchedInv, TurnOK
<1> QED BY <1>4, <1>6, <1>7, <1>8 DEF SchedInv

(* The current task wakes another one.                                     *)
LEMMA WakeInv ==
  ASSUME SchedInv, NEW t \in Task, Wake(t)
  PROVE  SchedInv'
<1>1. pc = "run" /\ Wakeup(t) /\ UNCHANGED <<pc, current, total_task_count, timer, io>>
  BY DEF Wake, Turn
<1>2. /\ RunOK' /\ Alive' = Alive
      /\ running_tasks # <<>> => running_tasks' # <<>> /\ running_tasks'[1] = running_tasks[1]
  BY <1>1, WakeupRun DEF SchedInv
<1>3. TimerOK' /\ sort_tree' = sort_tree
  BY <1>1, <1>2, TimerFrame DEF SchedInv
<1>4. TurnOK'
  BY <1>1, <1>2, <1>3 DEF SchedInv, TurnOK
<1> QED BY <1>1, <1>2, <1>3, <1>4 DEF SchedInv

(* The turn ends with a yield.                                             *)
LEMMA YieldInv ==
  ASSUME SchedInv, NEW r \in Runtime, Yield(r)
  PROVE  SchedInv'
<1>1. pc = "run" /\ pc' = "pick" /\ UNCHANGED <<current, state, total_task_count, timer, io>>
  BY DEF Yield, Turn
<1>2. running_tasks # <<>> /\ running_tasks[1] = current
  BY <1>1 DEF SchedInv, TurnOK
<1>3. RunOK'
  BY <1>2, YieldRun DEF SchedInv
<1>4. Alive' = Alive
  BY <1>1 DEF Alive
<1>5. TimerOK' /\ sort_tree' = sort_tree
  BY <1>1, <1>4, TimerFrame DEF SchedInv
<1>6. TurnOK'
  BY <1>1, <1>5 DEF SchedInv, TurnOK
<1> QED BY <1>1, <1>3, <1>4, <1>5, <1>6 DEF SchedInv

(* A task that waits leaves the queue and stays alive.                     *)
LEMMA WaitingRun ==
  ASSUME SchedInv, pc = "run", Remove("WAITING")
  PROVE  /\ RunOK' /\ Alive' = Alive /\ current \in Alive
         /\ pc' = "pick" /\ current' = current
<1>1. running_tasks # <<>> /\ running_tasks[1] = current /\ current \in Task
  BY DEF SchedInv, TurnOK
<1>2. RunOK' /\ state' = [state EXCEPT ![current] = "WAITING"]
  BY <1>1, RemoveRun DEF SchedInv
<1>3. state[current] = "RUNNING"
  <2>1. InList(running_tasks, current)
    BY <1>1, FirstTask DEF SchedInv, RunOK
  <2> QED BY <1>1, <2>1 DEF SchedInv, RunOK
<1>4. Alive' = Alive /\ current \in Alive
  BY <1>1, <1>2, <1>3 DEF Alive, SchedInv, RunOK
<1> QED BY <1>2, <1>4 DEF Remove

(* The turn ends with a wait.                                              *)
LEMMA WaitInv ==
  ASSUME SchedInv, Wait
  PROVE  SchedInv'
<1>1. pc = "run" /\ Remove("WAITING") /\ UNCHANGED <<total_task_count, timer, io>>
  BY DEF Wait, Turn
<1>2. RunOK' /\ Alive' = Alive /\ pc' = "pick" /\ current' = current
  BY <1>1, WaitingRun
<1>3. TimerOK' /\ sort_tree' = sort_tree
  BY <1>1, <1>2, TimerFrame DEF SchedInv
<1>4. TurnOK'
  BY <1>1, <1>2, <1>3 DEF SchedInv, TurnOK
<1> QED BY <1>1, <1>2, <1>3, <1>4 DEF SchedInv

(* The turn ends with a sleep: the node of the timer enters the tree.      *)
LEMMA SleepInv ==
  ASSUME SchedInv, NEW d \in 1..MaxDelay, Sleep(d)
  PROVE  SchedInv'
<1>1. /\ pc = "run" /\ Remove("WAITING") /\ UNCHANGED <<total_task_count, io>>
      /\ rest' = [rest EXCEPT ![current] = d]
  BY DEF Sleep, Turn
<1>2. PICK n \in 0..Len(sort_tree) :
        /\ \A i \in 1..n : rest[sort_tree[i]] <= d
        /\ \A i \in (n + 1)..Len(sort_tree) : d <= rest[sort_tree[i]]
        /\ sort_tree' = InsertAt(sort_tree, n, current)
        /\ leftmost' = [leftmost EXCEPT ![current] = (n = 0)]
  BY DEF Sleep
<1>3. RunOK' /\ Alive' = Alive /\ current \in Alive /\ pc' = "pick" /\ current' = current
  BY <1>1, WaitingRun
<1>4. /\ current \in Task /\ ~InList(sort_tree, current)
      /\ sort_tree \in Seq(Task) /\ Distinct(sort_tree) /\ Sorted(sort_tree, rest)
      /\ \A t \in Task : InList(sort_tree, t) => t \in Alive
      /\ rest \in [Task -> 0..MaxDelay] /\ leftmost \in [Task -> BOOLEAN]
  BY <1>1 DEF SchedInv, TurnOK, TimerOK
<1>5. /\ sort_tree' \in Seq(Task) /\ Distinct(sort_tree')
      /\ \A x \in Task : InList(sort_tree', x) <=> InList(sort_tree, x) \/ x = current
  BY <1>2, <1>4, InsertAtLemma
<1>6. /\ rest' \in [Task -> 0..MaxDelay] /\ rest'[current] = d
      /\ \A x \in Task : x # current => rest'[x] = rest[x]
  BY <1>1, <1>4, SchedulerAssumption
<1>7. leftmost' \in [Task -> BOOLEAN]
  <2>1. (n = 0) \in BOOLEAN
    OBVIOUS
  <2> QED BY <1>2, <1>4, <2>1
<1>8. Sorted(sort_tree', rest')
  <2>1. Sorted(sort_tree, rest')
    BY <1>4, <1>6, SortedKeys
  <2>2. rest' \in [Task -> Nat]
    BY <1>6, SchedulerAssumption
  <2>3. \A i \in 1..Len(sort_tree) : sort_tree[i] \in Task /\ sort_tree[i] # current
    BY <1>4 DEF InList
  <2>4. \A i \in 1..n : rest'[sort_tree[i]] <= rest'[current]
    BY <1>2, <1>6, <2>3
  <2>5. \A i \in (n + 1)..Len(sort_tree) : rest'[current] <= rest'[sort_tree[i]]
    BY <1>2, <1>6, <2>3
  <2> QED BY <1>2, <1>4, <2>1, <2>2, <2>4, <2>5, SortedInsert
<1>9. TimerOK'
  BY <1>3, <1>4, <1>5, <1>6, <1>7, <1>8 DEF TimerOK
<1>10. TurnOK'
  BY <1>1, <1>3 DEF SchedInv, TurnOK
<1> QED BY <1>1, <1>3, <1>9, <1>10 DEF SchedInv

(* The current task returns.  No timer is left on its stack.               *)
LEMMA ExitInv ==
  ASSUME SchedInv, Exit
  PROVE  SchedInv'
<1>1. /\ pc = "run" /\ Remove("STOPPED") /\ total_task_count' = total_task_count - 1
      /\ io' = io \ {current} /\ UNCHANGED timer
  BY DEF Exit, Turn
<1>2. /\ running_tasks # <<>> /\ running_tasks[1] = current /\ current \in Task
      /\ ~InList(sort_tree, current)
  BY <1>1 DEF SchedInv, TurnOK
<1>3. RunOK' /\ state' = [state EXCEPT ![current] = "STOPPED"]
  BY <1>1, <1>2, RemoveRun DEF SchedInv
<1>4. state[current] = "RUNNING"
  <2>1. InList(running_tasks, current)
    BY <1>2, FirstTask DEF SchedInv, RunOK
  <2> QED BY <1>2, <2>1 DEF SchedInv, RunOK
<1>5. Alive' = Alive \ {current} /\ current \in Alive
  BY <1>2, <1>3, <1>4 DEF Alive, SchedInv, RunOK
<1>6. UNCHANGED <<sort_tree, leftmost, rest>>
  BY <1>1 DEF timer
<1>7. TimerOK'
  BY <1>2, <1>5, <1>6 DEF SchedInv, TimerOK
<1>8. total_task_count' = Cardinality(Alive')
  <2>1. Cardinality(Alive \ {current}) = Cardinality(Alive) - 1
    BY <1>5, AliveFinite, FS_RemoveElement
  <2> QED BY <1>1, <1>5, <2>1 DEF SchedInv
<1>9. TurnOK'
  BY <1>1, <1>6 DEF SchedInv, TurnOK, Remove
<1> QED BY <1>3, <1>7, <1>8, <1>9 DEF SchedInv

(* No nodes, no sequence.                                                  *)
LEMMA NoNodes ==
  ASSUME NEW q \in Seq(Task)
  PROVE  Len(q) = 0 <=> q = <<>>
OBVIOUS

(* Nothing happens to the run queue.                                       *)
LEMMA SchedFrame ==
  ASSUME RunOK, UNCHANGED sched
  PROVE  RunOK' /\ Alive' = Alive /\ running_tasks' = running_tasks
                /\ running_task_count' = running_task_count
<1>1. UNCHANGED <<state, sched_key, running_tasks, running_task_count>>
  BY DEF sched
<1> QED BY <1>1 DEF RunOK, Alive

(* The end of a sleep: the timer goes, and the next may be woken.          *)
LEMMA ResumeInv ==
  ASSUME SchedInv, Resume
  PROVE  SchedInv'
<1>1. /\ pc = "resume" /\ pc' = "run" /\ sort_tree' = ListDel(sort_tree, current)
      /\ (sort_tree' # <<>> /\ Wakeup(sort_tree'[1])) \/ UNCHANGED sched
      /\ leftmost' = [leftmost EXCEPT ![current] = FALSE]
      /\ rest' = [rest EXCEPT ![current] = 0]
      /\ UNCHANGED <<current, total_task_count, io>>
  BY DEF Resume
<1>2. /\ current \in Task /\ InList(sort_tree, current)
      /\ running_tasks # <<>> /\ running_tasks[1] = current
      /\ sort_tree \in Seq(Task) /\ Distinct(sort_tree) /\ Sorted(sort_tree, rest)
      /\ \A t \in Task : InList(sort_tree, t) => t \in Alive
      /\ rest \in [Task -> 0..MaxDelay] /\ leftmost \in [Task -> BOOLEAN]
  BY <1>1 DEF SchedInv, TurnOK, TimerOK
<1>3. /\ sort_tree' \in Seq(Task) /\ Distinct(sort_tree')
      /\ \A x \in Task : InList(sort_tree', x) <=> InList(sort_tree, x) /\ x # current
  BY <1>1, <1>2, ListDelLemma
<1>4. RunOK' /\ Alive' = Alive /\ running_tasks' # <<>> /\ running_tasks'[1] = current
  <2>1. CASE UNCHANGED sched
    BY <1>2, <2>1, SchedFrame DEF SchedInv
  <2>2. CASE sort_tree' # <<>> /\ Wakeup(sort_tree'[1])
    <3>1. sort_tree'[1] \in Task
      BY <1>3, <2>2, FirstTask
    <3>2. PICK t \in Task : Wakeup(t)
      BY <2>2, <3>1
    <3> QED BY <1>2, <3>2, WakeupRun DEF SchedInv
  <2> QED BY <1>1, <2>1, <2>2
<1>5. /\ rest' \in [Task -> 0..MaxDelay] /\ leftmost' \in [Task -> BOOLEAN]
      /\ \A x \in Task : x # current => rest'[x] = rest[x]
  <2>1. 0 \in 0..MaxDelay
    BY SchedulerAssumption
  <2>2. FALSE \in BOOLEAN
    OBVIOUS
  <2>3. rest' \in [Task -> 0..MaxDelay] /\ \A x \in Task : x # current => rest'[x] = rest[x]
    BY <1>1, <1>2, <2>1
  <2>4. leftmost' \in [Task -> BOOLEAN]
    BY <1>1, <1>2, <2>2
  <2> QED BY <2>3, <2>4
<1>6. Sorted(sort_tree', rest')
  <2>1. Sorted(sort_tree', rest)
    BY <1>1, <1>2, SortedDel
  <2>2. \A t \in Task : InList(sort_tree', t) => rest'[t] = rest[t]
    BY <1>3, <1>5
  <2> QED BY <1>3, <2>1, <2>2, SortedKeys
<1>7. TimerOK'
  BY <1>2, <1>3, <1>4, <1>5, <1>6 DEF TimerOK
<1>8. TurnOK'
  BY <1>1, <1>2, <1>3, <1>4 DEF SchedInv, TurnOK
<1> QED BY <1>1, <1>4, <1>7, <1>8 DEF SchedInv

(* The first task is chosen: it resumes its sleep if its timer is there.   *)
LEMMA ChooseTurn ==
  ASSUME running_tasks' \in Seq(Task), running_tasks' # <<>>, Choose,
         sort_tree' = sort_tree, io' \subseteq Task
  PROVE  TurnOK'
<1>1. running_tasks'[1] \in Task
  BY FirstTask
<1>2. \A t : t \in Members(sort_tree) <=> InList(sort_tree, t)
  BY DEF Members, InList
<1>3. /\ current' = running_tasks'[1]
      /\ pc' = IF InList(sort_tree, running_tasks'[1]) THEN "resume" ELSE "run"
  BY <1>2 DEF Choose
<1> QED BY <1>1, <1>3 DEF TurnOK

(* The scheduler asks the reactor, sleeps or chooses a task.               *)
LEMMA PickInv ==
  ASSUME SchedInv, Pick
  PROVE  SchedInv'
<1>1. /\ total_task_count > 0 /\ UNCHANGED sched /\ UNCHANGED <<total_task_count, timer, io>>
      /\ \/ /\ running_task_count < total_task_count /\ UNCHANGED current
            /\ pc' = IF running_task_count = 0 THEN "idle" ELSE "poll"
         \/ ~(running_task_count < total_task_count) /\ Choose
  BY DEF Pick
<1>2. /\ RunOK' /\ Alive' = Alive /\ running_tasks' = running_tasks
      /\ running_task_count' = running_task_count
  BY <1>1, SchedFrame DEF SchedInv
<1>3. TimerOK' /\ sort_tree' = sort_tree
  BY <1>1, <1>2, TimerFrame DEF SchedInv
<1>4. running_tasks \in Seq(Task) /\ running_task_count = Len(running_tasks)
  BY DEF SchedInv, RunOK
<1>5. TurnOK'
  <2>1. CASE running_task_count < total_task_count
    <3>1. /\ current' = current /\ io' = io
          /\ pc' = IF running_task_count = 0 THEN "idle" ELSE "poll"
      BY <1>1, <2>1
    <3>2. running_task_count = 0 => running_tasks = <<>>
      BY <1>4, NoNodes
    <3> QED BY <1>2, <3>1, <3>2 DEF SchedInv, TurnOK
  <2>2. CASE ~(running_task_count < total_task_count)
    <3>1. total_task_count \in Nat
      BY AliveFinite DEF SchedInv
    <3>2. running_tasks # <<>>
      <4>1. running_task_count # 0
        BY <1>1, <1>4, <2>2, <3>1
      <4> QED BY <1>4, <4>1, NoNodes
    <3>3. Choose /\ io' \subseteq Task
      BY <1>1, <2>2 DEF SchedInv, TurnOK
    <3> QED BY <1>2, <1>3, <1>4, <3>2, <3>3, ChooseTurn
  <2> QED BY <2>1, <2>2
<1> QED BY <1>1, <1>2, <1>3, <1>5 DEF SchedInv

(* The poll: an event, or the first timer and then a task.                 *)
LEMMA PollInv ==
  ASSUME SchedInv, (\E t \in Task : PollEvent(t)) \/ PollTimer
  PROVE  SchedInv'
<1>1. ASSUME NEW t \in Task, PollEvent(t) PROVE SchedInv'
  <2>1. /\ pc = "poll" /\ Wakeup(t) /\ io' = io \ {t}
        /\ UNCHANGED <<pc, current, total_task_count, timer>>
    BY <1>1 DEF PollEvent
  <2>2. RunOK' /\ Alive' = Alive
    BY <2>1, WakeupRun DEF SchedInv
  <2>3. TimerOK' /\ sort_tree' = sort_tree
    BY <2>1, <2>2, TimerFrame DEF SchedInv
  <2>4. TurnOK'
    BY <2>1, <2>3 DEF SchedInv, TurnOK
  <2> QED BY <2>1, <2>2, <2>3, <2>4 DEF SchedInv
<1>2. ASSUME PollTimer PROVE SchedInv'
  <2>1. /\ (Expired /\ Wakeup(sort_tree[1])) \/ UNCHANGED sched
        /\ \/ running_task_count' = 0 /\ pc' = "idle" /\ UNCHANGED current
           \/ running_task_count' # 0 /\ Choose
        /\ UNCHANGED <<total_task_count, timer, io>>
    BY <1>2 DEF PollTimer
  <2>2. RunOK' /\ Alive' = Alive
    <3>1. CASE UNCHANGED sched
      BY <3>1, SchedFrame DEF SchedInv
    <3>2. CASE Expired /\ Wakeup(sort_tree[1])
      <4>1. sort_tree[1] \in Task
        BY <3>2, FirstTask DEF Expired, SchedInv, TimerOK
      <4> QED BY <3>2, <4>1, WakeupRun DEF SchedInv
    <3> QED BY <2>1, <3>1, <3>2
  <2>3. TimerOK' /\ sort_tree' = sort_tree
    BY <2>1, <2>2, TimerFrame DEF SchedInv
  <2>4. running_tasks' \in Seq(Task) /\ running_task_count' = Len(running_tasks')
    BY <2>2 DEF RunOK
  <2>5. TurnOK'
    <3>1. CASE running_task_count' = 0 /\ pc' = "idle" /\ UNCHANGED current
      <4>1. running_tasks' = <<>>
        BY <2>4, <3>1, NoNodes
      <4> QED BY <2>1, <3>1, <4>1 DEF SchedInv, TurnOK
    <3>2. CASE running_task_count' # 0 /\ Choose
      <4>1. running_tasks' # <<>>
        BY <2>4, <3>2, NoNodes
      <4>2. io' \subseteq Task
        BY <2>1 DEF SchedInv, TurnOK
      <4> QED BY <2>3, <2>4, <3>2, <4>1, <4>2, ChooseTurn
    <3> QED BY <2>1, <3>1, <3>2
  <2> QED BY <2>1, <2>2, <2>3, <2>5 DEF SchedInv
<1> QED BY <1>1, <1>2

(* The scheduler returns, or the reactor does.                             *)
LEMMA StopInv ==
  ASSUME SchedInv, Stop \/ IdleEnds
  PROVE  SchedInv'
<1>1. pc' \in {"end", "poll"} /\ UNCHANGED <<current, sched, total_task_count, timer, io>>
  BY DEF Stop, IdleEnds
<1>2. RunOK' /\ Alive' = Alive
  BY <1>1, SchedFrame DEF SchedInv
<1>3. TimerOK'
  BY <1>1, <1>2, TimerFrame DEF SchedInv
<1>4. TurnOK'
  BY <1>1 DEF SchedInv, TurnOK
<1> QED BY <1>1, <1>2, <1>3, <1>4 DEF SchedInv

(* Time passes for all timers, which keeps their order.                    *)
LEMMA TickInv ==
  ASSUME SchedInv, Tick
  PROVE  SchedInv'
<1>1. /\ rest' = [t \in Task |-> IF rest[t] > 0 THEN rest[t] - 1 ELSE 0]
      /\ UNCHANGED <<pc, current, sched, total_task_count, sort_tree, leftmost, io>>
  BY DEF Tick
<1>2. /\ RunOK' /\ Alive' = Alive /\ running_tasks' = running_tasks
  BY <1>1, SchedFrame DEF SchedInv
<1>3. rest \in [Task -> 0..MaxDelay] /\ Sorted(sort_tree, rest) /\ MaxDelay \in Nat
  BY SchedulerAssumption DEF SchedInv, TimerOK
<1>4. rest' \in [Task -> 0..MaxDelay]
  BY <1>1, <1>3
<1>5. Sorted(sort_tree, rest')
  <2> SUFFICES ASSUME NEW x \in Task, NEW y \in Task, Before(sort_tree, x, y)
               PROVE  rest'[x] <= rest'[y]
    BY DEF Sorted
  <2>1. rest[x] <= rest[y] /\ rest[x] \in Nat /\ rest[y] \in Nat
    BY <1>3 DEF Sorted
  <2>2. /\ rest'[x] = (IF rest[x] > 0 THEN rest[x] - 1 ELSE 0)
        /\ rest'[y] = (IF rest[y] > 0 THEN rest[y] - 1 ELSE 0)
    BY <1>1
  <2> QED BY <2>1, <2>2
<1>6. TimerOK'
  BY <1>1, <1>2, <1>4, <1>5 DEF SchedInv, TimerOK
<1>7. TurnOK'
  BY <1>1, <1>2 DEF SchedInv, TurnOK
<1> QED BY <1>1, <1>2, <1>6, <1>7 DEF SchedInv

(* An event comes.                                                         *)
LEMMA EventInv ==
  ASSUME SchedInv, NEW t \in Task, Event(t)
  PROVE  SchedInv'
<1>1. io' = io \cup {t} /\ UNCHANGED <<pc, current, sched, total_task_count, timer>>
  BY DEF Event
<1>2. /\ RunOK' /\ Alive' = Alive /\ running_tasks' = running_tasks
  BY <1>1, SchedFrame DEF SchedInv
<1>3. TimerOK' /\ sort_tree' = sort_tree
  BY <1>1, <1>2, TimerFrame DEF SchedInv
<1>4. TurnOK'
  BY <1>1, <1>2, <1>3 DEF SchedInv, TurnOK
<1> QED BY <1>1, <1>2, <1>3, <1>4 DEF SchedInv

-----------------------------------------------------------------------------
(* The theorems.                                                           *)

(* The invariant holds when hev_task_system_run begins.                    *)
LEMMA SchedInit == Init => SchedInv
<1> SUFFICES ASSUME Init PROVE SchedInv
  OBVIOUS
<1>1. Main \in Task
  BY SchedulerAssumption
<1>2. /\ <<Main>> \in Seq(Task) /\ Len(<<Main>>) = 1 /\ <<Main>>[1] = Main /\ <<Main>> # <<>>
      /\ <<>> \in Seq(Task) /\ Len(<<>>) = 0
  BY <1>1
<1>3. RunOK
  <2>1. /\ running_tasks \in Seq(Task) /\ Len(running_tasks) = 1 /\ running_tasks[1] = Main
        /\ running_task_count = 1
        /\ state = [t \in Task |-> IF t = Main THEN "RUNNING" ELSE "STOPPED"]
        /\ sched_key = [t \in Task |-> 0]
    BY <1>2 DEF Init
  <2>2. Distinct(running_tasks) /\ \A x, y : ~Before(running_tasks, x, y)
    BY <2>1 DEF Distinct, Before
  <2>3. \A t \in Task : InList(running_tasks, t) <=> t = Main
    BY <2>1 DEF InList
  <2>4. Bounded(sched_key)
    <3> SUFFICES ASSUME NEW t \in Task PROVE sched_key[t] <= priority(t) * MaxRuntime
      BY DEF Bounded
    <3>1. priority(t) * MaxRuntime \in Nat /\ sched_key[t] = 0
      BY <2>1, OneTurn
    <3> QED BY <3>1
  <2> QED BY <1>1, <2>1, <2>2, <2>3, <2>4 DEF RunOK, Sorted
<1>4. /\ sort_tree = <<>> /\ \A x : ~InList(sort_tree, x)
      /\ \A x, y : ~Before(sort_tree, x, y) /\ Distinct(sort_tree)
  BY <1>2 DEF Init, InList, Before, Distinct
<1>5. TimerOK
  <2>1. rest = [t \in Task |-> 0] /\ leftmost = [t \in Task |-> FALSE]
    BY DEF Init
  <2>2. rest \in [Task -> 0..MaxDelay]
    BY <2>1, SchedulerAssumption
  <2>3. leftmost \in [Task -> BOOLEAN]
    BY <2>1
  <2> QED BY <1>2, <1>4, <2>2, <2>3 DEF TimerOK, Sorted
<1>6. TurnOK
  BY <1>1 DEF Init, TurnOK
<1>7. total_task_count = Cardinality(Alive)
  <2>1. Alive = {Main}
    BY <1>1 DEF Init, Alive
  <2> QED BY <2>1, FS_Singleton DEF Init
<1> QED BY <1>3, <1>5, <1>6, <1>7 DEF SchedInv

(* Every step preserves the invariant.                                     *)
LEMMA SchedStep == SchedInv /\ [Next]_vars => SchedInv'
<1> SUFFICES ASSUME SchedInv, [Next]_vars PROVE SchedInv'
  OBVIOUS
<1>1. CASE \E r \in Runtime : Yield(r)
  BY <1>1, YieldInv
<1>2. CASE Wait
  BY <1>2, WaitInv
<1>3. CASE \E d \in 1..MaxDelay : Sleep(d)
  BY <1>3, SleepInv
<1>4. CASE Exit
  BY <1>4, ExitInv
<1>5. CASE Resume
  BY <1>5, ResumeInv
<1>6. CASE Pick
  BY <1>6, PickInv
<1>7. CASE Stop \/ IdleEnds
  BY <1>7, StopInv
<1>8. CASE (\E t \in Task : PollEvent(t)) \/ PollTimer
  BY <1>8, PollInv
<1>9. CASE \E t \in Task : Wake(t)
  BY <1>9, WakeInv
<1>10. CASE \E t \in Task : Run(t)
  BY <1>10, RunInv
<1>11. CASE Tick
  BY <1>11, TickInv
<1>12. CASE \E t \in Task : Event(t)
  BY <1>12, EventInv
<1>13. CASE UNCHANGED vars
  <2>1. UNCHANGED sched /\ UNCHANGED timer /\ UNCHANGED <<pc, current, total_task_count, io>>
    BY <1>13 DEF vars
  <2>2. /\ RunOK' /\ Alive' = Alive /\ running_tasks' = running_tasks
    BY <2>1, SchedFrame DEF SchedInv
  <2>3. TimerOK' /\ sort_tree' = sort_tree
    BY <2>1, <2>2, TimerFrame DEF SchedInv
  <2>4. TurnOK'
    BY <2>1, <2>2, <2>3 DEF SchedInv, TurnOK
  <2> QED BY <2>1, <2>2, <2>3, <2>4 DEF SchedInv
<1> QED BY <1>1, <1>2, <1>3, <1>4, <1>5, <1>6, <1>7, <1>8, <1>9, <1>10, <1>11, <1>12, <1>13
        DEF Next, TurnEnds, Kernel, Halted

(* The run queue is in order, holds the tasks its states name, and begins  *)
(* with the task whose turn it is, from which new keys are computed.       *)
THEOREM SchedulerInvariant == Spec => []SchedInv
<1>1. Init => SchedInv
  BY SchedInit
<1>2. SchedInv /\ [Next]_vars => SchedInv'
  BY SchedStep
<1> QED BY <1>1, <1>2, PTL DEF Spec

(* Run queue, counters and timers are exact in every step of tasks, timers *)
(* and kernel (hev-task-system-schedule.c, hev-task-timer.c).              *)
THEOREM QueuesStayExact == Spec => []QueuesExact
<1>1. SchedInv => QueuesExact
  <2> SUFFICES ASSUME SchedInv PROVE QueuesExact
    OBVIOUS
  <2>1. /\ running_tasks \in Seq(Task) /\ Distinct(running_tasks) /\ Sorted(running_tasks, sched_key)
        /\ sort_tree \in Seq(Task) /\ Distinct(sort_tree) /\ Sorted(sort_tree, rest)
        /\ running_task_count = Len(running_tasks) /\ sched_key \in [Task -> Nat]
    BY DEF SchedInv, RunOK, TimerOK
  <2>2. /\ Cardinality(Members(running_tasks)) = Len(running_tasks)
        /\ Cardinality(Members(sort_tree)) = Len(sort_tree)
    BY <2>1, DistinctCount
  <2>3. Members(running_tasks) = {t \in Task : state[t] = "RUNNING"}
    <3>1. \A t \in Task : InList(running_tasks, t) <=> state[t] = "RUNNING"
      BY DEF SchedInv, RunOK
    <3>2. \A i \in 1..Len(running_tasks) : running_tasks[i] \in Task
      BY <2>1
    <3> QED BY <3>1, <3>2 DEF Members, InList
  <2>4. ASSUME NEW q \in Seq(Task), NEW key, Sorted(q, key)
        PROVE  \A i, j \in DOMAIN q : i < j => key[q[i]] <= key[q[j]]
    <3>1. DOMAIN q = 1..Len(q) /\ \A i \in 1..Len(q) : q[i] \in Task
      OBVIOUS
    <3> QED BY <2>4, <3>1 DEF Sorted, Before
  <2>5. QueueExact
    <3>1. \A i, j \in DOMAIN running_tasks :
            i < j => sched_key[running_tasks[i]] <= sched_key[running_tasks[j]]
      BY <2>1, <2>4
    <3>2. total_task_count = Cardinality({t \in Task : state[t] # "STOPPED"})
      BY DEF SchedInv, Alive
    <3> QED BY <2>1, <2>2, <2>3, <3>1, <3>2 DEF SchedInv, TurnOK, QueueExact
  <2>6. TimersExact
    <3>1. \A i, j \in DOMAIN sort_tree : i < j => rest[sort_tree[i]] <= rest[sort_tree[j]]
      BY <2>1, <2>4
    <3>2. \A t \in Members(sort_tree) : t \in Task /\ InList(sort_tree, t)
      BY <2>1 DEF Members, InList
    <3>3. \A t \in Members(sort_tree) : state[t] # "STOPPED" /\ (pc = "run" => t # current)
      BY <3>2 DEF SchedInv, TimerOK, TurnOK, Alive
    <3> QED BY <2>2, <3>1, <3>3 DEF TimersExact
  <2>7. TypeOK
    <3>1. \A t \in Task : \E p \in Task : sched_key[t] \in 0..(priority(p) * MaxRuntime)
      <4> SUFFICES ASSUME NEW t \in Task
                   PROVE  \E p \in Task : sched_key[t] \in 0..(priority(p) * MaxRuntime)
        OBVIOUS
      <4>1. PICK p \in Task : sched_key[t] <= priority(p) * MaxRuntime
        BY DEF SchedInv, RunOK, Bounded
      <4>2. priority(p) * MaxRuntime \in Nat /\ sched_key[t] \in Nat
        BY <2>1, OneTurn
      <4>3. sched_key[t] \in 0..(priority(p) * MaxRuntime)
        BY <4>1, <4>2
      <4> QED BY <4>3
    <3>2. running_task_count \in 0..Cardinality(Task)
      <4>1. IsFiniteSet(Task) /\ Members(running_tasks) \in SUBSET Task
        BY <2>3, SchedulerAssumption
      <4>2. Cardinality(Members(running_tasks)) <= Cardinality(Task) /\ Cardinality(Task) \in Nat
        BY <4>1, FS_Subset, FS_CardinalityType
      <4>3. Len(running_tasks) \in Nat
        BY <2>1
      <4> QED BY <2>1, <2>2, <4>2, <4>3
    <3>3. total_task_count \in 0..Cardinality(Task)
      <4>1. Cardinality(Task) \in Nat
        BY SchedulerAssumption, FS_CardinalityType
      <4> QED BY <4>1, AliveFinite DEF SchedInv
    <3> QED BY <3>1, <3>2, <3>3 DEF SchedInv, RunOK, TimerOK, TurnOK, TypeOK
  <2> QED BY <2>5, <2>6, <2>7 DEF QueuesExact
<1> QED BY <1>1, SchedulerInvariant, PTL

=============================================================================
