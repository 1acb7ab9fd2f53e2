--------------------------- MODULE MappedDnsProofs --------------------------
(***************************************************************************)
(* Proofs about MappedDns, for every set of names and every cache size.    *)
(***************************************************************************)
EXTENDS MappedDns, FiniteSetTheorems, TLAPS

(* Removing the node at one position keeps the order and the distinctness  *)
(* of the others.                                                          *)
LEMMA ListDelLemma ==
  ASSUME NEW S, NEW q \in Seq(S), NEW node \in S,
         Distinct(q), InList(q, node)
  PROVE  /\ ListDel(q, node) \in Seq(S)
         /\ Len(ListDel(q, node)) = Len(q) - 1
         /\ Distinct(ListDel(q, node))
         /\ \A x \in S : InList(ListDel(q, node), x)
                            <=> InList(q, x) /\ x # node
<1> DEFINE n == Len(q)
           i == CHOOSE j \in 1..n : q[j] = node
           del == [j \in 1..(n - 1) |-> IF j < i THEN q[j] ELSE q[j + 1]]
<1>1. n \in Nat /\ \A j \in 1..n : q[j] \in S
  OBVIOUS
<1>2. i \in 1..n /\ q[i] = node
  BY DEF InList
<1>3. ListDel(q, node) = del
  BY DEF ListDel
<1> HIDE DEF i
<1>4. n - 1 \in Nat
  BY <1>1, <1>2
<1>5. \A j \in 1..(n - 1) : del[j] \in S
  BY <1>1, <1>2
<1>6. del \in Seq(S) /\ Len(del) = n - 1
  BY <1>4, <1>5
<1>7. Distinct(del)
  BY <1>1, <1>2, <1>4, <1>6 DEF Distinct
<1>8. ASSUME NEW x \in S
      PROVE  InList(del, x) <=> InList(q, x) /\ x # node
  <2>1. ASSUME NEW k \in 1..(n - 1), del[k] = x
        PROVE  InList(q, x) /\ x # node
    BY <1>1, <1>2, <2>1 DEF InList, Distinct
  <2>2. ASSUME NEW k \in 1..n, q[k] = x, x # node
        PROVE  InList(del, x)
    <3>1. CASE k < i
      <4>1. k \in 1..(n - 1) /\ del[k] = x
        BY <1>1, <1>2, <2>2, <3>1
      <4> QED BY <4>1, <1>6 DEF InList
    <3>2. CASE k > i
      <4>1. k - 1 \in 1..(n - 1) /\ del[k - 1] = x
        BY <1>1, <1>2, <2>2, <3>2
      <4> QED BY <4>1, <1>6 DEF InList
    <3> QED BY <1>2, <2>2, <3>1, <3>2
  <2> QED BY <2>1, <2>2, <1>6 DEF InList
<1> QED BY <1>3, <1>6, <1>7, <1>8

(* What appending a node that is not in the list does.                     *)
LEMMA AppendLemma ==
  ASSUME NEW S, NEW q \in Seq(S), NEW node \in S,
         Distinct(q), ~InList(q, node)
  PROVE  /\ Append(q, node) \in Seq(S)
         /\ Len(Append(q, node)) = Len(q) + 1
         /\ Distinct(Append(q, node))
         /\ \A x \in S : InList(Append(q, node), x)
                            <=> InList(q, x) \/ x = node
<1> DEFINE app == Append(q, node)
<1>1. /\ app \in Seq(S) /\ Len(app) = Len(q) + 1 /\ Len(q) \in Nat
      /\ \A j \in 1..Len(q) : app[j] = q[j]
      /\ app[Len(q) + 1] = node
  OBVIOUS
<1> HIDE DEF app
<1>2. Distinct(app)
  BY <1>1 DEF Distinct, InList
<1>3. ASSUME NEW x \in S
      PROVE  InList(app, x) <=> InList(q, x) \/ x = node
  BY <1>1 DEF InList
<1> QED BY <1>1, <1>2, <1>3 DEF app

(* What taking the first node from a list does.                            *)
LEMMA TailLemma ==
  ASSUME NEW S, NEW q \in Seq(S), q # <<>>, Distinct(q)
  PROVE  /\ Tail(q) \in Seq(S)
         /\ Len(Tail(q)) = Len(q) - 1
         /\ Head(q) \in S /\ InList(q, Head(q))
         /\ Distinct(Tail(q))
         /\ \A x \in S : InList(Tail(q), x)
                            <=> InList(q, x) /\ x # Head(q)
<1> DEFINE new == Tail(q)
<1>1. /\ new \in Seq(S) /\ Len(new) = Len(q) - 1
      /\ Len(q) \in Nat /\ Len(q) >= 1
      /\ Head(q) = q[1] /\ Head(q) \in S
      /\ \A j \in 1..Len(new) : new[j] = q[j + 1]
  OBVIOUS
<1> HIDE DEF new
<1>2. Distinct(new)
  BY <1>1 DEF Distinct
<1>3. InList(q, Head(q))
  BY <1>1 DEF InList
<1>4. ASSUME NEW x \in S
      PROVE  InList(new, x) <=> InList(q, x) /\ x # Head(q)
  <2>1. ASSUME NEW j \in 1..Len(new), new[j] = x
        PROVE  InList(q, x) /\ x # Head(q)
    <3>1. j + 1 \in 1..Len(q) /\ q[j + 1] = x
      BY <1>1, <2>1
    <3>2. j + 1 # 1
      OBVIOUS
    <3> QED BY <1>1, <3>1, <3>2 DEF InList, Distinct
  <2>2. ASSUME NEW j \in 1..Len(q), q[j] = x, x # Head(q)
        PROVE  InList(new, x)
    <3>1. j # 1
      BY <1>1, <2>2
    <3>2. j - 1 \in 1..Len(new) /\ (j - 1) + 1 = j
      BY <1>1, <3>1
    <3> QED BY <1>1, <2>2, <3>2 DEF InList
  <2> QED BY <2>1, <2>2 DEF InList
<1> QED BY <1>1, <1>2, <1>3, <1>4 DEF new

(* Removing a node does not change the order of the others.                *)
LEMMA DelOrder ==
  ASSUME NEW S, NEW q \in Seq(S), NEW node \in S, Distinct(q),
         InList(q, node), NEW x, NEW y, Before(ListDel(q, node), x, y)
  PROVE  Before(q, x, y)
<1> DEFINE n == Len(q)
           i == CHOOSE j \in 1..n : q[j] = node
           del == [j \in 1..(n - 1) |-> IF j < i THEN q[j] ELSE q[j + 1]]
<1>1. n \in Nat /\ i \in 1..n /\ ListDel(q, node) = del
  BY DEF InList, ListDel
<1> HIDE DEF i
<1>2. Len(del) = n - 1
  BY <1>1, ListDelLemma
<1>3. PICK a, b \in 1..(n - 1) : a < b /\ del[a] = x /\ del[b] = y
  BY <1>1, <1>2 DEF Before
<1> DEFINE c == IF a < i THEN a ELSE a + 1
           d == IF b < i THEN b ELSE b + 1
<1>4. c \in 1..n /\ d \in 1..n /\ c < d /\ q[c] = x /\ q[d] = y
  BY <1>1, <1>3
<1> QED BY <1>4 DEF Before

(* A node appended comes after all others, and before none.                *)
LEMMA AppendOrder ==
  ASSUME NEW S, NEW q \in Seq(S), NEW node \in S, Distinct(q),
         ~InList(q, node), NEW x, NEW y, Before(Append(q, node), x, y)
  PROVE  x # node /\ (Before(q, x, y) \/ y = node)
<1> DEFINE app == Append(q, node)
<1>1. /\ Len(app) = Len(q) + 1 /\ Len(q) \in Nat
      /\ \A j \in 1..Len(q) : app[j] = q[j]
      /\ app[Len(q) + 1] = node
  OBVIOUS
<1> HIDE DEF app
<1>2. PICK a, b \in 1..(Len(q) + 1) : a < b /\ app[a] = x /\ app[b] = y
  BY <1>1 DEF Before, app
<1>3. a \in 1..Len(q) /\ q[a] = x
  BY <1>1, <1>2
<1>4. x # node
  BY <1>3 DEF InList
<1>5. CASE b = Len(q) + 1
  BY <1>1, <1>2, <1>4, <1>5
<1>6. CASE b \in 1..Len(q)
  BY <1>1, <1>2, <1>3, <1>4, <1>6 DEF Before
<1> QED BY <1>1, <1>2, <1>5, <1>6

-----------------------------------------------------------------------------
CacheInv == TypeOK /\ CacheExact

(* hev_list_del and hev_list_add_tail on a node of the list.               *)
LEMMA UsedLemma ==
  ASSUME CacheInv, NEW n \in tree, Used(n)
  PROVE  /\ list' \in Seq(Name) /\ Len(list') = Len(list) /\ Distinct(list')
         /\ \A x \in Name : InList(list', x) <=> InList(list, x)
         /\ \A x, y \in Name : Before(list', x, y)
                                  => x # n /\ (Before(list, x, y) \/ y = n)
<1> DEFINE del == ListDel(list, n)
<1>0. n \in Name /\ list \in Seq(Name) /\ Distinct(list) /\ InList(list, n)
  BY DEF CacheInv, TypeOK, CacheExact
<1>1. /\ del \in Seq(Name) /\ Len(del) = Len(list) - 1 /\ Distinct(del)
      /\ \A x \in Name : InList(del, x) <=> InList(list, x) /\ x # n
  BY <1>0, ListDelLemma
<1>2. \A x, y \in Name : Before(del, x, y) => Before(list, x, y)
  BY <1>0, DelOrder
<1>3. list' = Append(del, n)
  BY DEF Used
<1> HIDE DEF del
<1>4. ~InList(del, n)
  BY <1>0, <1>1
<1>5. /\ list' \in Seq(Name) /\ Len(list') = Len(del) + 1 /\ Distinct(list')
      /\ \A x \in Name : InList(list', x) <=> InList(del, x) \/ x = n
  BY <1>0, <1>1, <1>3, <1>4, AppendLemma
<1>6. \A x, y \in Name : Before(list', x, y) => x # n /\ (Before(del, x, y) \/ y = n)
  BY <1>0, <1>1, <1>3, <1>4, AppendOrder
<1>7. Len(list) \in Nat
  BY <1>0
<1> QED BY <1>0, <1>1, <1>2, <1>5, <1>6, <1>7

(* The list of a full cache, after the new node took the place of the      *)
(* first one.                                                              *)
LEMMA ReplaceLemma ==
  ASSUME CacheInv, NEW n \in Name, Replace(n)
  PROVE  /\ list # <<>> /\ Head(list) \in tree /\ Head(list) # n
         /\ tree' = (tree \cup {n}) \ {Head(list)}
         /\ records' = [records EXCEPT ![idx[Head(list)]] = n]
         /\ idx' = [idx EXCEPT ![n] = idx[Head(list)]]
         /\ list' \in Seq(Name) /\ Len(list') = Len(list) /\ Distinct(list')
         /\ \A x \in Name : InList(list', x)
                              <=> (InList(list, x) \/ x = n) /\ x # Head(list)
         /\ \A x, y \in Name : Before(list', x, y)
                                  => x # n /\ (Before(list, x, y) \/ y = n)
<1> DEFINE app == Append(list, n)
<1>0. /\ list \in Seq(Name) /\ Distinct(list) /\ ~InList(list, n)
      /\ Len(list) = max /\ max \in Nat \ {0} /\ n \notin tree
  BY MaxAssumption DEF CacheInv, TypeOK, CacheExact, Replace
<1>1. /\ app \in Seq(Name) /\ Len(app) = Len(list) + 1 /\ Distinct(app)
      /\ \A x \in Name : InList(app, x) <=> InList(list, x) \/ x = n
  BY <1>0, AppendLemma
<1>2. list # <<>> /\ Head(app) = Head(list)
  BY <1>0
<1>3. Head(list) \in Name /\ InList(list, Head(list))
  BY <1>0, <1>2, TailLemma
<1>4. Head(list) \in tree /\ Head(list) # n
  BY <1>0, <1>3 DEF CacheInv, CacheExact
<1>5. \A x, y \in Name : Before(app, x, y) => x # n /\ (Before(list, x, y) \/ y = n)
  BY <1>0, AppendOrder
<1>6. /\ tree' = (tree \cup {n}) \ {Head(list)}
      /\ list' = ListDel(app, Head(list))
      /\ records' = [records EXCEPT ![idx[Head(list)]] = n]
      /\ idx' = [idx EXCEPT ![n] = idx[Head(list)]]
  BY <1>2 DEF Replace, Link
<1> HIDE DEF app
<1>7. InList(app, Head(list))
  BY <1>1, <1>3
<1>8. /\ list' \in Seq(Name) /\ Len(list') = Len(app) - 1 /\ Distinct(list')
      /\ \A x \in Name : InList(list', x) <=> InList(app, x) /\ x # Head(list)
  BY <1>1, <1>3, <1>6, <1>7, ListDelLemma
<1>9. \A x, y \in Name : Before(list', x, y) => Before(app, x, y)
  BY <1>1, <1>3, <1>6, <1>7, DelOrder
<1>10. Len(list') = Len(list)
  BY <1>0, <1>1, <1>8
<1> QED BY <1>1, <1>2, <1>4, <1>5, <1>6, <1>8, <1>9, <1>10

(* A new node in a cache that is not full.                                 *)
LEMMA InsertLemma ==
  ASSUME CacheInv, NEW n \in Name, Insert(n)
  PROVE  /\ use \in Index /\ records[use] = null
         /\ list' \in Seq(Name) /\ Len(list') = Len(list) + 1 /\ Distinct(list')
         /\ \A x \in Name : InList(list', x) <=> InList(list, x) \/ x = n
         /\ \A x, y \in Name : Before(list', x, y)
                                  => x # n /\ (Before(list, x, y) \/ y = n)
<1>0. /\ list \in Seq(Name) /\ Distinct(list) /\ ~InList(list, n)
      /\ list' = Append(list, n)
  BY DEF CacheInv, TypeOK, CacheExact, Insert
<1>1. use \in Index
  BY MaxAssumption DEF CacheInv, TypeOK, Insert, Index
<1>2. records[use] = null
  BY <1>1, MaxAssumption DEF CacheInv, CacheExact, Index
<1>3. \A x, y \in Name : Before(list', x, y) => x # n /\ (Before(list, x, y) \/ y = n)
  BY <1>0, AppendOrder
<1> QED BY <1>0, <1>1, <1>2, <1>3, AppendLemma

(* hev_mapped_dns_find keeps the cache exact.                              *)
LEMMA FindExact ==
  ASSUME CacheInv, NEW n \in Name, Find(n)
  PROVE  /\ tree' \in SUBSET Name /\ list' \in Seq(Name)
         /\ idx' \in [Name -> Index] /\ records' \in [Index -> Name \cup {null}]
         /\ use' \in 0..max
         /\ n \in tree' /\ CacheExact'
<1>0. TypeOK /\ CacheExact
  BY DEF CacheInv
<1> USE MaxAssumption, NameAssumption
<1>1. CASE Hit(n)
  <2>1. n \in tree /\ Used(n) /\ UNCHANGED <<tree, idx, records, use>>
    BY <1>1 DEF Hit
  <2>2. /\ list' \in Seq(Name) /\ Len(list') = Len(list) /\ Distinct(list')
        /\ \A x \in Name : InList(list', x) <=> InList(list, x)
    BY <2>1, UsedLemma
  <2> QED BY <1>0, <2>1, <2>2 DEF TypeOK, CacheExact
<1>2. CASE Insert(n)
  <2>1. /\ n \notin tree /\ use < max
        /\ tree' = tree \cup {n} /\ use' = use + 1
        /\ records' = [records EXCEPT ![use] = n]
        /\ idx' = [idx EXCEPT ![n] = use]
    BY <1>2 DEF Insert, Link
  <2>2. /\ use \in Index /\ records[use] = null
        /\ list' \in Seq(Name) /\ Len(list') = Len(list) + 1 /\ Distinct(list')
        /\ \A x \in Name : InList(list', x) <=> InList(list, x) \/ x = n
    BY <1>2, InsertLemma
  <2>3. /\ tree' \in SUBSET Name /\ idx' \in [Name -> Index]
        /\ records' \in [Index -> Name \cup {null}] /\ use' \in 0..max
    BY <1>0, <2>1, <2>2 DEF TypeOK
  <2>4. use' = Len(list') /\ \A x \in Name : InList(list', x) <=> x \in tree'
    BY <1>0, <2>1, <2>2 DEF CacheExact
  <2>5. ASSUME NEW x \in tree' PROVE idx'[x] < use' /\ records'[idx'[x]] = x
    <3>1. CASE x = n
      BY <1>0, <2>1, <2>2, <3>1 DEF TypeOK
    <3>2. CASE x # n
      <4>1. x \in tree /\ idx[x] < use /\ records[idx[x]] = x /\ idx[x] \in Index
        BY <1>0, <2>1, <2>5, <3>2 DEF TypeOK, CacheExact
      <4> QED BY <1>0, <2>1, <2>2, <3>2, <4>1 DEF TypeOK, Index
    <3> QED BY <3>1, <3>2
  <2>6. ASSUME NEW i \in Index
        PROVE  IF i < use' THEN records'[i] \in tree' /\ idx'[records'[i]] = i
                           ELSE records'[i] = null
    <3>1. CASE i = use
      BY <1>0, <2>1, <2>2, <3>1 DEF TypeOK
    <3>2. CASE i # use
      <4>1. records'[i] = records[i] /\ (i < use' <=> i < use)
        BY <1>0, <2>1, <2>2, <3>2 DEF TypeOK, Index
      <4>2. i < use => records[i] \in tree /\ idx[records[i]] = i
        BY <1>0 DEF CacheExact
      <4>3. ~(i < use) => records[i] = null
        BY <1>0 DEF CacheExact
      <4> QED BY <1>0, <2>1, <4>1, <4>2, <4>3 DEF TypeOK
    <3> QED BY <3>1, <3>2
  <2>7. n \in tree'
    BY <2>1
  <2> QED BY <2>2, <2>3, <2>4, <2>5, <2>6, <2>7 DEF CacheExact
<1>3. CASE Replace(n)
  <2> DEFINE nf == Head(list)
  <2>1. /\ nf \in tree /\ nf # n
        /\ tree' = (tree \cup {n}) \ {nf}
        /\ records' = [records EXCEPT ![idx[nf]] = n]
        /\ idx' = [idx EXCEPT ![n] = idx[nf]]
        /\ list' \in Seq(Name) /\ Len(list') = Len(list) /\ Distinct(list')
        /\ \A x \in Name : InList(list', x)
                             <=> (InList(list, x) \/ x = n) /\ x # nf
    BY <1>3, ReplaceLemma
  <2>2. n \notin tree /\ use = max /\ use' = use
    BY <1>3 DEF Replace
  <2> HIDE DEF nf
  <2>3. nf \in Name /\ idx[nf] \in Index /\ idx[nf] < use /\ records[idx[nf]] = nf
    BY <1>0, <2>1 DEF TypeOK, CacheExact
  <2>4. /\ tree' \in SUBSET Name /\ idx' \in [Name -> Index]
        /\ records' \in [Index -> Name \cup {null}] /\ use' \in 0..max
    BY <1>0, <2>1, <2>2, <2>3 DEF TypeOK
  <2>5. use' = Len(list') /\ \A x \in Name : InList(list', x) <=> x \in tree'
    BY <1>0, <2>1, <2>2 DEF CacheExact
  <2>6. ASSUME NEW x \in tree' PROVE idx'[x] < use' /\ records'[idx'[x]] = x
    <3>1. CASE x = n
      BY <1>0, <2>1, <2>2, <2>3, <3>1 DEF TypeOK
    <3>2. CASE x # n
      <4>1. x \in tree /\ x # nf /\ idx[x] < use /\ records[idx[x]] = x /\ idx[x] \in Index
        BY <1>0, <2>1, <2>6, <3>2 DEF TypeOK, CacheExact
      <4>2. idx[x] # idx[nf]
        BY <2>3, <4>1
      <4> QED BY <1>0, <2>1, <2>2, <3>2, <4>1, <4>2 DEF TypeOK
    <3> QED BY <3>1, <3>2
  <2>7. ASSUME NEW i \in Index
        PROVE  IF i < use' THEN records'[i] \in tree' /\ idx'[records'[i]] = i
                           ELSE records'[i] = null
    <3>0. i < use'
      BY <2>2 DEF Index
    <3>1. CASE i = idx[nf]
      BY <1>0, <2>1, <2>3, <3>0, <3>1 DEF TypeOK
    <3>2. CASE i # idx[nf]
      <4>1. records'[i] = records[i]
        BY <1>0, <2>1, <3>2 DEF TypeOK
      <4>2. records[i] \in tree /\ idx[records[i]] = i
        BY <1>0, <2>2, <3>0 DEF CacheExact
      <4>3. records[i] # nf /\ records[i] # n
        BY <2>2, <3>2, <4>2
      <4>4. records[i] \in Name
        BY <1>0, <4>2 DEF TypeOK
      <4> QED BY <1>0, <2>1, <3>0, <4>1, <4>2, <4>3, <4>4 DEF TypeOK
    <3> QED BY <3>1, <3>2
  <2>8. n \in tree'
    BY <2>1
  <2> QED BY <2>1, <2>4, <2>5, <2>6, <2>7, <2>8 DEF CacheExact
<1> QED BY <1>1, <1>2, <1>3 DEF Find

(* A translated address belongs to a name of the cache.                    *)
LEMMA LookupLemma ==
  ASSUME CacheInv, NEW ip \in Address, Lookup(ip) # null
  PROVE  /\ ip.host \in Index /\ Lookup(ip) = records[ip.host]
         /\ Lookup(ip) \in tree /\ Lookup(ip) \in Name
         /\ idx[Lookup(ip)] = ip.host
<1> USE MaxAssumption
<1>1. ip.host \in 0..HostMax
  BY DEF Address
<1>2. ip.host < max /\ Lookup(ip) = records[ip.host]
  BY DEF Lookup
<1>3. ip.host \in Index
  BY <1>1, <1>2 DEF Index
<1>4. records[ip.host] \in tree /\ idx[records[ip.host]] = ip.host
  BY <1>2, <1>3 DEF CacheInv, CacheExact
<1> QED BY <1>2, <1>3, <1>4 DEF CacheInv, TypeOK

LEMMA CacheStep == CacheInv /\ [Next]_vars => CacheInv'
<1> SUFFICES ASSUME CacheInv, [Next]_vars PROVE CacheInv'
  OBVIOUS
<1>0. TypeOK /\ CacheExact
  BY DEF CacheInv
<1>1. ASSUME NEW n \in Name, NEW i \in Index, History(n, i)
      PROVE  since' \in [Name \X Index -> SUBSET Name]
  <2>1. \A p \in Name \X Index : since[p] \subseteq Name
    BY <1>0 DEF TypeOK
  <2> QED BY <1>1, <2>1 DEF History
<1>2. ASSUME NEW n \in Name, Question(n) PROVE CacheInv'
  <2>1. /\ tree' \in SUBSET Name /\ list' \in Seq(Name)
        /\ idx' \in [Name -> Index] /\ records' \in [Index -> Name \cup {null}]
        /\ use' \in 0..max
        /\ CacheExact'
    BY <1>2, FindExact DEF Question
  <2>2. idx'[n] \in Index
    BY <2>1
  <2>3. since' \in [Name \X Index -> SUBSET Name]
    BY <1>1, <1>2, <2>2 DEF Question
  <2>4. answers' \in Seq(Name \X Index) /\ handed' \in SUBSET (Name \X Index)
        /\ open' \in BOOLEAN
    BY <1>0, <1>2, <2>2 DEF Question, TypeOK
  <2> QED BY <2>1, <2>3, <2>4 DEF CacheInv, TypeOK
<1>3. CASE EndQuery
  <2>1. open' \in BOOLEAN
    BY <1>3, Zenon DEF EndQuery
  <2>a. answers' \in Seq(Name \X Index)
    BY <1>3 DEF EndQuery
  <2>2. UNCHANGED <<tree, list, idx, records, use, handed, since>>
    BY <1>3 DEF EndQuery, cache, ghost
  <2> QED BY <1>0, <2>1, <2>a, <2>2 DEF CacheInv, TypeOK, CacheExact
<1>4. ASSUME NEW ip \in Address, Translate(ip) PROVE CacheInv'
  <2>1. /\ Lookup(ip) \in tree /\ Used(Lookup(ip))
        /\ Lookup(ip) \in Name /\ ip.host \in Index
        /\ UNCHANGED <<tree, idx, records, use, answers, open, handed>>
    BY <1>4, LookupLemma DEF Translate, query
  <2>2. since' \in [Name \X Index -> SUBSET Name]
    BY <1>1, <1>4, <2>1 DEF Translate
  <2>3. /\ list' \in Seq(Name) /\ Len(list') = Len(list) /\ Distinct(list')
        /\ \A x \in Name : InList(list', x) <=> InList(list, x)
    BY <2>1, UsedLemma
  <2>4. TypeOK'
    BY <1>0, <2>1, <2>2, <2>3 DEF TypeOK
  <2>5. CacheExact'
    BY <1>0, <2>1, <2>3 DEF CacheExact
  <2> QED BY <2>4, <2>5 DEF CacheInv
<1>5. CASE UNCHANGED vars
  BY <1>0, <1>5 DEF vars, cache, query, ghost, CacheInv, TypeOK, CacheExact
<1> QED BY <1>2, <1>3, <1>4, <1>5 DEF Next

LEMMA CacheInit == Init => CacheInv /\ Recency
<1> SUFFICES ASSUME Init PROVE CacheInv /\ Recency
  OBVIOUS
<1> USE MaxAssumption DEF Init
<1>1. 0 \in Index
  BY DEF Index
<1>2. /\ idx \in [Name -> Index] /\ records \in [Index -> Name \cup {null}]
      /\ since \in [Name \X Index -> SUBSET Name]
      /\ answers \in Seq(Name \X Index) /\ list \in Seq(Name)
      /\ handed \in SUBSET (Name \X Index)
  BY <1>1
<1>a. open \in BOOLEAN
  BY Zenon
<1>b. tree \in SUBSET Name /\ use \in 0..max
  OBVIOUS
<1>3. TypeOK
  BY <1>2, <1>a, <1>b DEF TypeOK
<1>4. CacheExact
  BY DEF CacheExact, Distinct, InList, Index
<1> QED BY <1>3, <1>4 DEF CacheInv, Recency

-----------------------------------------------------------------------------
(* A set that holds all names of a list but the first, and one that is not *)
(* in the list, is at least as large as the list.                          *)
LEMMA CountLemma ==
  ASSUME NEW l \in Seq(Name), Distinct(l), l # <<>>, NEW n \in Name,
         ~InList(l, n), NEW T, IsFiniteSet(T), n \in T,
         \A y \in Name : Before(l, Head(l), y) => y \in T
  PROVE  Cardinality(T) >= Len(l)
<1> DEFINE m == Len(l)
           f == [j \in 1..m |-> IF j = m THEN n ELSE l[j + 1]]
<1>1. m \in Nat /\ m >= 1 /\ Head(l) = l[1] /\ \A j \in 1..m : l[j] \in Name
  OBVIOUS
<1>2. \A j \in 2..m : Before(l, Head(l), l[j])
  BY <1>1 DEF Before
<1>3. \A j \in 1..m : f[j] \in T
  <2> TAKE j \in 1..m
  <2>1. CASE j = m
    BY <2>1
  <2>2. CASE j # m
    <3>1. j + 1 \in 2..m
      BY <1>1, <2>2
    <3> QED BY <1>1, <1>2, <2>2, <3>1
  <2> QED BY <2>1, <2>2
<1>4. \A i, j \in 1..m : f[i] = f[j] => i = j
  <2> SUFFICES ASSUME NEW i \in 1..m, NEW j \in 1..m, f[i] = f[j] PROVE i = j
    OBVIOUS
  <2>1. \A k \in 1..m : k # m => k + 1 \in 1..m /\ l[k + 1] # n
    BY <1>1 DEF InList
  <2>2. CASE i = m \/ j = m
    BY <2>1, <2>2
  <2>3. CASE i # m /\ j # m
    <3>1. l[i + 1] = l[j + 1] /\ i + 1 \in 1..m /\ j + 1 \in 1..m
      BY <2>1, <2>3
    <3>2. i + 1 = j + 1
      BY <3>1 DEF Distinct
    <3> QED BY <3>2
  <2> QED BY <2>2, <2>3
<1>5. f \in Injection(1..m, T)
  BY <1>3, <1>4 DEF Injection, IsInjective
<1>6. Cardinality(1..m) <= Cardinality(T)
  BY <1>5, FS_Injection
<1>7. Cardinality(1..m) = m
  BY <1>1, FS_Interval
<1>8. Cardinality(T) \in Nat
  BY FS_CardinalityType
<1> QED BY <1>1, <1>6, <1>7, <1>8

(* The names used since grow by at most the name just used.                *)
LEMMA HistoryLemma ==
  ASSUME TypeOK, Recency, NEW n \in Name, NEW i \in Index, History(n, i),
         NEW p \in handed
  PROVE  /\ IsFiniteSet(since'[p])
         /\ p # <<n, i>> => /\ since'[p] = since[p] \cup ({n} \ {p[1]})
                            /\ Cardinality(since[p]) >= max => Cardinality(since'[p]) >= max
         /\ p = <<n, i>> => since'[p] = {}
<1>0. p \in Name \X Index /\ IsFiniteSet(since[p])
  BY DEF TypeOK, Recency
<1>1. CASE p = <<n, i>>
  <2>1. since'[p] = {}
    BY <1>0, <1>1 DEF History
  <2> QED BY <1>1, <2>1, FS_EmptySet
<1>2. CASE p # <<n, i>>
  <2>1. since'[p] = since[p] \cup ({n} \ {p[1]})
    BY <1>0, <1>2 DEF History
  <2>2. since'[p] = since[p] \/ since'[p] = since[p] \cup {n}
    BY <2>1
  <2>a. IsFiniteSet(since[p] \cup {n})
    BY <1>0, FS_AddElement
  <2>3. IsFiniteSet(since'[p])
    BY <1>0, <2>2, <2>a
  <2>4. Cardinality(since[p]) <= Cardinality(since'[p])
    BY <2>1, <2>3, FS_Subset
  <2>5. Cardinality(since[p]) \in Nat /\ Cardinality(since'[p]) \in Nat
    BY <1>0, <2>3, FS_CardinalityType
  <2> QED BY <1>2, <2>1, <2>3, <2>4, <2>5, MaxAssumption
<1> QED BY <1>1, <1>2

(* One use of name n with index i: every pair but <<n, i>> keeps its       *)
(* record, unless it is the one evicted.                                   *)
LEMMA RecencyKeeps ==
  ASSUME CacheInv, Recency, NEW n \in Name, NEW i \in Index, History(n, i),
         handed' \subseteq handed \cup {<<n, i>>},
         <<n, i>> \in handed' => records'[i] = n,
         \A x, y \in Name : Before(list', x, y)
                               => x # n /\ (Before(list, x, y) \/ y = n),
         \A k \in Index : \A x \in Name :
            records[k] = x /\ <<x, k>> # <<n, i>> =>
              \/ records'[k] = x
              \/ /\ list # <<>> /\ x = Head(list) /\ ~InList(list, n)
                 /\ Len(list) = max
  PROVE  Recency'
<1> USE MaxAssumption
<1>0. TypeOK /\ CacheExact
  BY DEF CacheInv
<1> SUFFICES ASSUME NEW p \in handed'
             PROVE  /\ IsFiniteSet(since'[p])
                    /\ \/ Cardinality(since'[p]) >= max
                       \/ /\ records'[p[2]] = p[1]
                          /\ \A y \in Name : Before(list', p[1], y) => y \in since'[p]
  BY DEF Recency
<1>1. CASE p = <<n, i>>
  <2>1. since'[p] = {}
    BY <1>1 DEF History
  <2>2. IsFiniteSet(since'[p])
    BY <2>1, FS_EmptySet
  <2> QED BY <1>1, <2>2
<1>2. CASE p # <<n, i>>
  <2>1. p \in handed /\ p \in Name \X Index
    BY <1>0, <1>2 DEF TypeOK
  <2>2. /\ IsFiniteSet(since'[p])
        /\ since'[p] = since[p] \cup ({n} \ {p[1]})
        /\ Cardinality(since[p]) >= max => Cardinality(since'[p]) >= max
    BY <1>0, <1>2, <2>1, HistoryLemma
  <2>3. CASE Cardinality(since[p]) >= max
    BY <2>2, <2>3
  <2>4. CASE /\ records[p[2]] = p[1]
             /\ \A y \in Name : Before(list, p[1], y) => y \in since[p]
    <3>1. p[1] \in Name /\ p[2] \in Index /\ p = <<p[1], p[2]>>
      BY <2>1
    <3>2. CASE records'[p[2]] = p[1]
      <4>1. \A y \in Name : Before(list', p[1], y) => y \in since'[p]
        BY <2>2, <2>4, <3>1
      <4> QED BY <2>2, <3>2, <4>1
    <3>3. CASE /\ list # <<>> /\ p[1] = Head(list) /\ ~InList(list, n)
               /\ Len(list) = max
      <4>1. list \in Seq(Name) /\ Distinct(list) /\ InList(list, p[1])
        BY <1>0, <3>3, TailLemma DEF TypeOK, CacheExact
      <4>2. n \in since'[p]
        BY <2>2, <3>3, <4>1
      <4>3. \A y \in Name : Before(list, Head(list), y) => y \in since'[p]
        BY <2>2, <2>4, <3>3
      <4>4. Cardinality(since'[p]) >= Len(list)
        BY <2>2, <3>3, <4>1, <4>2, <4>3, CountLemma
      <4> QED BY <2>2, <3>3, <4>4
    <3>4. \/ records'[p[2]] = p[1]
          \/ /\ list # <<>> /\ p[1] = Head(list) /\ ~InList(list, n)
             /\ Len(list) = max
      BY <1>2, <2>4, <3>1
    <3> QED BY <3>2, <3>3, <3>4
  <2> QED BY <2>1, <2>3, <2>4 DEF Recency
<1> QED BY <1>1, <1>2

(* What hev_mapped_dns_find does to the order of the list and to the       *)
(* records, whichever of its three ways it takes.                          *)
LEMMA FindOrder ==
  ASSUME CacheInv, NEW n \in Name, Find(n)
  PROVE  /\ \A x, y \in Name : Before(list', x, y)
                                  => x # n /\ (Before(list, x, y) \/ y = n)
         /\ \A k \in Index : \A x \in Name :
              records[k] = x =>
                \/ records'[k] = x
                \/ /\ list # <<>> /\ x = Head(list) /\ ~InList(list, n)
                   /\ Len(list) = max
<1> USE MaxAssumption, NameAssumption
<1>0. TypeOK /\ CacheExact
  BY DEF CacheInv
<1>1. CASE Hit(n)
  <2>1. n \in tree /\ Used(n) /\ records' = records
    BY <1>1 DEF Hit
  <2> QED BY <2>1, UsedLemma
<1>2. CASE Insert(n)
  <2>1. records' = [records EXCEPT ![use] = n]
    BY <1>2 DEF Insert, Link
  <2>2. /\ use \in Index /\ records[use] = null
        /\ \A x, y \in Name : Before(list', x, y)
                                 => x # n /\ (Before(list, x, y) \/ y = n)
    BY <1>2, InsertLemma
  <2>3. \A k \in Index : \A x \in Name : records[k] = x => records'[k] = x
    BY <1>0, <2>1, <2>2 DEF TypeOK
  <2> QED BY <2>2, <2>3
<1>3. CASE Replace(n)
  <2>1. /\ list # <<>> /\ Head(list) \in tree
        /\ records' = [records EXCEPT ![idx[Head(list)]] = n]
        /\ \A x, y \in Name : Before(list', x, y)
                                 => x # n /\ (Before(list, x, y) \/ y = n)
    BY <1>3, ReplaceLemma
  <2>2. ~InList(list, n) /\ Len(list) = max
    BY <1>0, <1>3 DEF Replace, CacheExact
  <2>3. records[idx[Head(list)]] = Head(list) /\ idx[Head(list)] \in Index
    BY <1>0, <2>1 DEF CacheExact, TypeOK
  <2>4. \A k \in Index : k # idx[Head(list)] => records'[k] = records[k]
    BY <1>0, <2>1 DEF TypeOK
  <2> QED BY <2>1, <2>2, <2>3, <2>4
<1> QED BY <1>1, <1>2, <1>3 DEF Find

LEMMA RecencyStep == CacheInv /\ Recency /\ [Next]_vars => Recency'
<1> SUFFICES ASSUME CacheInv, Recency, [Next]_vars PROVE Recency'
  OBVIOUS
<1>0. TypeOK /\ CacheExact
  BY DEF CacheInv
<1>1. ASSUME NEW n \in Name, Question(n) PROVE Recency'
  <2>1. Find(n) /\ handed' = handed \cup {<<n, idx'[n]>>} /\ History(n, idx'[n])
    BY <1>1 DEF Question
  <2>2. idx' \in [Name -> Index] /\ n \in tree' /\ CacheExact'
    BY <2>1, FindExact
  <2>3. PICK i \in Index : i = idx'[n] /\ records'[i] = n
    BY <2>2 DEF CacheExact
  <2>4. /\ \A x, y \in Name : Before(list', x, y)
                                 => x # n /\ (Before(list, x, y) \/ y = n)
        /\ \A k \in Index : \A x \in Name :
             records[k] = x =>
               \/ records'[k] = x
               \/ /\ list # <<>> /\ x = Head(list) /\ ~InList(list, n)
                  /\ Len(list) = max
    BY <2>1, FindOrder
  <2>5. History(n, i) /\ handed' \subseteq handed \cup {<<n, i>>}
    BY <2>1, <2>3, Zenon
  <2>6. \A k \in Index : \A x \in Name :
           records[k] = x /\ <<x, k>> # <<n, i>> =>
             \/ records'[k] = x
             \/ /\ list # <<>> /\ x = Head(list) /\ ~InList(list, n)
                /\ Len(list) = max
    BY <2>4, Zenon
  <2>7. <<n, i>> \in handed' => records'[i] = n
    BY <2>3, Zenon
  <2> QED BY <2>4, <2>5, <2>6, <2>7, RecencyKeeps, Zenon
<1>2. CASE EndQuery
  BY <1>2 DEF EndQuery, cache, ghost, Recency
<1>3. ASSUME NEW ip \in Address, Translate(ip) PROVE Recency'
  <2> DEFINE n == Lookup(ip)
             i == ip.host
  <2>1. /\ n \in Name /\ n \in tree /\ i \in Index /\ records[i] = n
        /\ Used(n) /\ History(n, i) /\ handed' = handed /\ records' = records
    BY <1>3, LookupLemma DEF Translate
  <2> HIDE DEF n, i
  <2>2. \A x, y \in Name : Before(list', x, y)
                              => x # n /\ (Before(list, x, y) \/ y = n)
    BY <2>1, UsedLemma
  <2>3. handed' \subseteq handed \cup {<<n, i>>} /\ records'[i] = n
    BY <2>1
  <2>4. \A k \in Index : \A x \in Name : records[k] = x => records'[k] = x
    BY <2>1
  <2> QED BY <2>1, <2>2, <2>3, <2>4, RecencyKeeps, Zenon
<1>4. CASE UNCHANGED vars
  BY <1>4 DEF vars, cache, ghost, Recency
<1> QED BY <1>1, <1>2, <1>3, <1>4 DEF Next

-----------------------------------------------------------------------------
(* The tree, the list, the records and the indices in the nodes of         *)
(* hev-mapped-dns.c always agree.                                          *)
THEOREM CacheIsExact == Spec => [](TypeOK /\ CacheExact)
<1>1. Init => CacheInv
  BY CacheInit
<1>2. CacheInv => TypeOK /\ CacheExact
  BY DEF CacheInv
<1> QED BY <1>1, <1>2, CacheStep, PTL DEF Spec

(* An address is translated back to the name it was handed out for until   *)
(* as many other names as the cache has places were used.                  *)
THEOREM MappingIsKept == Spec => []MappingHolds
<1>1. Init => CacheInv /\ Recency
  BY CacheInit
<1>2. CacheInv /\ Recency /\ [Next]_vars => (CacheInv /\ Recency)'
  BY CacheStep, RecencyStep
<1>3. Recency => MappingHolds
  <2> SUFFICES ASSUME Recency, NEW p \in handed, Cardinality(since[p]) < max
               PROVE  records[p[2]] = p[1]
    BY DEF MappingHolds
  <2>1. Cardinality(since[p]) \in Nat
    BY FS_CardinalityType DEF Recency
  <2> QED BY <2>1, MaxAssumption DEF Recency
<1> QED BY <1>1, <1>2, <1>3, PTL DEF Spec
=============================================================================
