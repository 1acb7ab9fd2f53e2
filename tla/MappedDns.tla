------------------------------ MODULE MappedDns -----------------------------
(***************************************************************************)
(* The mapped DNS of hev-mapped-dns.c: A queries sent to the mapped DNS    *)
(* server are answered with addresses of a reserved network, and the       *)
(* destination of a new session is translated back to the name.  The cache *)
(* holds `max' names and evicts the least recently used one.               *)
(*                                                                         *)
(* An IPv4 address is a pair of a network part (ip & mask) and a host part *)
(* (ip & ~mask).  Queries and lookups run to their end without a yield;    *)
(* a query is cut into its questions here, and no lookup may come between. *)
(***************************************************************************)
EXTENDS Integers, Sequences, FiniteSets, Lists

CONSTANTS
  Name,           \* host names
  Network,        \* network parts of addresses
  HostMax,        \* ~mask: the largest host part
  max,            \* mapdns.cache-size
  MaxQuestions,   \* questions of a query (32 in hev_mapped_dns_handle)
  null

ASSUME NameAssumption == null \notin Name
(* mapped_dns_init makes no cache for 0, hev_mapped_dns_construct refuses  *)
(* a size above ~mask.                                                     *)
ASSUME MaxAssumption == max \in Nat \ {0} /\ HostMax \in Nat /\ max <= HostMax
ASSUME QuestionsAssumption == MaxQuestions \in Nat

Index == 0..(max - 1)

VARIABLES
  tree,           \* the names in the red-black tree
  list,           \* the nodes in the order of their last use
  idx,            \* node->idx
  records,        \* the node at an index
  use,            \* indices in use
  answers,        \* the answers of the query being handled
  open,           \* a query is being handled
  handed,         \* history: <<name, index>> pairs that were answers
  since           \* history: other names used since such a pair was last used

cache == <<tree, list, idx, records, use>>
query == <<answers, open>>
ghost == <<handed, since>>
vars  == <<cache, query, ghost>>

TypeOK ==
  /\ tree \in SUBSET Name
  /\ list \in Seq(Name)
  /\ idx \in [Name -> Index]
  /\ records \in [Index -> Name \cup {null}]
  /\ use \in 0..max
  /\ answers \in Seq(Name \X Index)
  /\ open \in BOOLEAN
  /\ handed \in SUBSET (Name \X Index)
  /\ since \in [Name \X Index -> SUBSET Name]

(* hev_mapped_dns_construct                                                *)
Init ==
  /\ tree = {} /\ list = <<>> /\ use = 0
  /\ idx = [n \in Name |-> 0]
  /\ records = [i \in Index |-> null]
  /\ answers = <<>> /\ open = FALSE
  /\ handed = {}
  /\ since = [p \in Name \X Index |-> {}]

-----------------------------------------------------------------------------
(* hev_list_del and hev_list_add_tail                                      *)
Used(n) == list' = Append(ListDel(list, n), n)

(* Name n was used with index i.                                           *)
History(n, i) ==
  since' = [p \in Name \X Index |->
              IF p = <<n, i>> \/ p \notin handed THEN {}
              ELSE since[p] \cup ({n} \ {p[1]})]

(* Mutant: a known name keeps its place in the list.                       *)
Hit_NoUse(n) ==
  /\ n \in tree
  /\ UNCHANGED cache

(* hev_mapped_dns_find: the name is known.                                 *)
Hit(n) ==
  /\ n \in tree
  /\ Used(n)
  /\ UNCHANGED <<tree, idx, records, use>>

(* hev_mapped_dns_find: a new node takes the next index, or the index of   *)
(* the least recently used name.                                           *)
Link(n, i) ==
  /\ records' = [records EXCEPT ![i] = n]
  /\ idx' = [idx EXCEPT ![n] = i]

Insert(n) ==
  /\ n \notin tree /\ use < max
  /\ tree' = tree \cup {n}
  /\ list' = Append(list, n)
  /\ use' = use + 1
  /\ Link(n, use)

(* Mutant: the evicted node stays in the tree.                             *)
Replace_NoErase(n) ==
  /\ n \notin tree /\ use = max
  /\ LET nf == Head(Append(list, n))
     IN  /\ tree' = tree \cup {n}
         /\ list' = ListDel(Append(list, n), nf)
         /\ Link(n, idx[nf])
  /\ UNCHANGED use

Replace(n) ==
  /\ n \notin tree /\ use = max
  /\ LET nf == Head(Append(list, n))
     IN  /\ tree' = (tree \cup {n}) \ {nf}
         /\ list' = ListDel(Append(list, n), nf)
         /\ Link(n, idx[nf])
  /\ UNCHANGED use

Find(n) == Hit(n) \/ Insert(n) \/ Replace(n)

(* hev_mapped_dns_handle: one A question for name n is answered.  (If no   *)
(* node can be allocated the question gets no answer, and nothing changes.)*)
Question(n) ==
  /\ Len(answers) < MaxQuestions
  /\ Find(n)
  /\ open' = TRUE
  /\ answers' = Append(answers, <<n, idx'[n]>>)
  /\ handed' = handed \cup {<<n, idx'[n]>>}
  /\ History(n, idx'[n])

(* The reply is sent, or the query turns out to be malformed and is        *)
(* dropped; what it changed in the cache stays.                            *)
EndQuery ==
  /\ open
  /\ open' = FALSE /\ answers' = <<>>
  /\ UNCHANGED <<cache, ghost>>

(* hev_mapped_dns_lookup, from hev_socks5_addr_from_lwip for the           *)
(* destination of a new TCP session or of a datagram.  The network part is *)
(* not looked at.                                                          *)
Lookup(ip) ==
  IF ip.host < max THEN records[ip.host] ELSE null

Translate(ip) ==
  /\ ~open /\ Lookup(ip) # null
  /\ Used(Lookup(ip))
  /\ History(Lookup(ip), ip.host)
  /\ UNCHANGED <<tree, idx, records, use, query, handed>>

Address == [net : Network, host : 0..HostMax]

Next ==
  \/ \E n \in Name : Question(n)
  \/ EndQuery
  \/ \E ip \in Address : Translate(ip)

Spec == Init /\ [][Next]_vars

-----------------------------------------------------------------------------
(* Properties.                                                             *)

(* Tree, list, records and the indices in the nodes agree: every name in   *)
(* use has exactly one index, one list node and one tree node.             *)
CacheExact ==
  /\ use = Len(list)
  /\ Distinct(list)
  /\ \A n \in Name : InList(list, n) <=> n \in tree
  /\ \A n \in tree : idx[n] < use /\ records[idx[n]] = n
  /\ \A i \in Index : IF i < use THEN records[i] \in tree /\ idx[records[i]] = i
                                 ELSE records[i] = null

(* An address that was an answer for a name is translated back to that     *)
(* name as long as fewer than `max' other names were used since the        *)
(* address was last handed out or translated.  So all answers of a reply   *)
(* are valid together, unless it asks for more names than the cache holds. *)
MappingHolds ==
  \A p \in handed : Cardinality(since[p]) < max => records[p[2]] = p[1]

(* What MappingHolds rests on: the names behind a name in the list are     *)
(* among those used since.                                                 *)
Recency ==
  \A p \in handed :
    /\ IsFiniteSet(since[p])
    /\ \/ Cardinality(since[p]) >= max
       \/ /\ records[p[2]] = p[1]
          /\ \A y \in Name : Before(list, p[1], y) => y \in since[p]
=============================================================================
