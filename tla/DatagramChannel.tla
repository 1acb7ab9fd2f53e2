-------------------------- MODULE DatagramChannel ---------------------------
(***************************************************************************)
(* What one direction of a UDP session promises: datagrams leave whole, in *)
(* the order they came in and at most once.  Any of them may be lost, and  *)
(* at most Cap of them wait.  The promise ends when the stream that        *)
(* carries them is cut inside a datagram (intact becomes FALSE).           *)
(***************************************************************************)
EXTENDS Integers, Sequences, FiniteSets

CONSTANTS
  Datagram,       \* what may be put in
  Cap             \* how many may wait

VARIABLES queue, out, intact

vars == <<queue, out, intact>>

Init == queue = <<>> /\ out = <<>> /\ intact = TRUE

Put ==
  /\ Len(queue) < Cap
  /\ \E d \in Datagram : queue' = Append(queue, d)
  /\ UNCHANGED <<out, intact>>

(* The first n leave; those after them with a number in `lost' are lost.   *)
Move(n, lost) ==
  LET kept == {i \in (n + 1)..Len(queue) : i \notin lost}
      Rank(i) == Cardinality({j \in kept : j <= i})
  IN  /\ out' = out \o SubSeq(queue, 1, n)
      /\ Len(queue') = Cardinality(kept)
      /\ \A i \in kept : queue'[Rank(i)] = queue[i]

Leave ==
  /\ \E n \in 0..Len(queue) :
       \E lost \in SUBSET ((n + 1)..Len(queue)) : Move(n, lost)
  /\ intact' = intact

Break == intact' = FALSE

Next == ~intact \/ Put \/ Leave \/ Break

Spec == Init /\ [][Next]_vars
=============================================================================
