-------------------------- MODULE TcpSpliceProofs ---------------------------
(***************************************************************************)
(* Proofs about TcpSplice, for every size of the ring, of the window and   *)
(* of the socket's buffer.                                                 *)
(*                                                                         *)
(* The bytes that the ring counts in use_size lie in a row that wraps      *)
(* around: first those lwIP holds, ending before rp, then those not read   *)
(* yet, ending before wp.  SpliceInv says which byte of the server's       *)
(* stream is at each of these places, and where every other byte is.       *)
(***************************************************************************)
EXTENDS TcpSplice, TLAPS

(* The place of a position that is less than one round off.                *)
Wrap(x) == IF x < 0 THEN x + max ELSE IF x < max THEN x ELSE x - max

(* The first place in use: that of the oldest byte not acknowledged.       *)
Oldest == rp - (use_size - rda_size)

(* The pointers and the counters of the ring agree.                        *)
RingOK == rda_size <= use_size /\ wp = Wrap(rp + rda_size)

(* Without failures lwIP holds exactly the bytes between Oldest and rp,    *)
(* and the places in use hold the stream from the first byte that was not  *)
(* acknowledged to the last one that was read from the socket.             *)
InPlace ==
  pcb /\ ~memerr =>
    /\ Len(seg) = use_size - rda_size
    /\ \A i \in 1..Len(seg) : seg[i] = Wrap(Oldest + i - 1)
    /\ \A i \in 1..use_size : data[Wrap(Oldest + i - 1)] = acked + i
    /\ acked + use_size = sent - avail

(* lwIP holds nothing for a session that lost its pcb.                     *)
Freed == ~pcb => seg = <<>>

(* While the direction is open, every byte of the server is acknowledged,  *)
(* held by lwIP, unread in the ring or still in the socket: a failure of   *)
(* tcp_write closes the direction.                                         *)
AllThere ==
  /\ avail <= sent
  /\ pcb /\ (res_b >= 0 \/ pc = "w") => acked + Len(seg) + rda_size + avail = sent
  /\ pc = "w" /\ res_b < 0 /\ ~reset => srv_eof /\ avail = 0
  /\ fin => res_b < 0 /\ pc # "w"

(* The inductive invariant.                                                *)
SpliceInv ==
  /\ TypeOK /\ RingOK /\ SndBufSuffices /\ WindowExact
  /\ InPlace /\ Freed /\ AllThere /\ CleanShut /\ CleanEnd

-----------------------------------------------------------------------------
(* Lemmas about the operators of the ring.                                 *)

(* The pointers of the ring move by less than one round, so % max is Wrap. *)
LEMMA ModWrap ==
  ASSUME NEW x \in 0..(2 * max - 1)
  PROVE  x % max = Wrap(x)
<1> max \in Nat /\ max > 0
  BY SizeAssumption
<1>1. CASE x < max
  BY <1>1 DEF Wrap
<1>2. CASE x >= max
  <2>1. x = max * 1 + (x - max) /\ x - max \in 0..(max - 1)
    BY <1>2
  <2> QED BY <1>2, <2>1, Z3 DEF Wrap
<1> QED BY <1>1, <1>2

(* The places of an iovec follow each other around the ring.               *)
LEMMA FlatIov ==
  ASSUME NEW p \in Place, NEW n \in 1..max
  PROVE  /\ Flat(Iov(p, n)) \in Seq(Place)
         /\ Len(Flat(Iov(p, n))) = n
         /\ \A i \in 1..n : Flat(Iov(p, n))[i] = Wrap(p + i - 1)
<1> max \in Nat /\ max > 0
  BY SizeAssumption
<1>1. CASE n <= max - p
  <2>1. Flat(Iov(p, n)) = Span(p, n)
    BY <1>1 DEF Flat, Iov
  <2>2. Span(p, n) \in Seq(Place) /\ Len(Span(p, n)) = n
    BY <1>1 DEF Span, Place
  <2>3. \A i \in 1..n : Span(p, n)[i] = Wrap(p + i - 1)
    BY <1>1 DEF Span, Place, Wrap
  <2> QED BY <2>1, <2>2, <2>3
<1>2. CASE n > max - p
  <2> DEFINE a == Span(p, max - p)
             b == Span(0, n - (max - p))
  <2>1. Flat(Iov(p, n)) = a \o b
    BY <1>2 DEF Flat, Iov, Place
  <2>2. a \in Seq(Place) /\ Len(a) = max - p
    BY <1>2 DEF Span, Place
  <2>3. b \in Seq(Place) /\ Len(b) = n - (max - p)
    BY <1>2 DEF Span, Place
  <2> HIDE DEF a, b
  <2>4. a \o b \in Seq(Place) /\ Len(a \o b) = n
    <3>1. max - p \in Nat /\ n - (max - p) \in Nat
      BY <1>2 DEF Place
    <3> QED BY <2>2, <2>3, <3>1
  <2>5. ASSUME NEW i \in 1..n PROVE (a \o b)[i] = Wrap(p + i - 1)
    <3>1. CASE i <= max - p
      <4>1. (a \o b)[i] = a[i]
        BY <2>2, <2>3, <3>1 DEF Place
      <4>2. a[i] = p + i - 1
        BY <3>1 DEF a, Span, Place
      <4> QED BY <3>1, <4>1, <4>2 DEF Wrap, Place
    <3>2. CASE i > max - p
      <4>1. (a \o b)[i] = b[i - (max - p)]
        <5>1. max - p \in Nat /\ n - (max - p) \in Nat /\ i \in Nat
          BY <1>2 DEF Place
        <5> QED BY <2>2, <2>3, <3>2, <5>1
      <4>2. b[i - (max - p)] = i - (max - p) - 1
        BY <3>2 DEF b, Span, Place
      <4> QED BY <3>2, <4>1, <4>2 DEF Wrap, Place
    <3>3. i <= max - p \/ i > max - p
      BY DEF Place
    <3> QED BY <3>1, <3>2, <3>3
  <2> QED BY <2>1, <2>4, <2>5
<1> QED BY <1>1, <1>2 DEF Place

(* An iovec has one span or two.                                           *)
LEMMA IovShape ==
  ASSUME NEW p \in Place, NEW n \in 1..max
  PROVE  \E a, b \in Seq(Place) :
           \/ Iov(p, n) = <<a>> /\ Len(a) = n
           \/ Iov(p, n) = <<a, b>> /\ Len(a) + Len(b) = n
<1> max \in Nat /\ max > 0
  BY SizeAssumption
<1>1. CASE n <= max - p
  <2>1. Span(p, n) \in Seq(Place) /\ Len(Span(p, n)) = n
    BY <1>1 DEF Span, Place
  <2> QED BY <1>1, <2>1 DEF Iov
<1>2. CASE n > max - p
  <2>1. Span(p, max - p) \in Seq(Place) /\ Len(Span(p, max - p)) = max - p
    BY DEF Span, Place
  <2>2. /\ Span(0, n - (max - p)) \in Seq(Place)
        /\ Len(Span(0, n - (max - p))) = n - (max - p)
    BY <1>2 DEF Span, Place
  <2>3. Iov(p, n) = <<Span(p, max - p), Span(0, n - (max - p))>>
    BY <1>2 DEF Iov, Place
  <2>4. max - p + (n - (max - p)) = n
    BY DEF Place
  <2> QED BY <2>1, <2>2, <2>3, <2>4
<1> QED BY <1>1, <1>2 DEF Place

(* readv: the s bytes are put after those in use, and no byte in use is    *)
(* overwritten.                                                            *)
LEMMA Filled ==
  ASSUME TypeOK, RingOK, avail <= sent,
         NEW s \in 1..max, s <= Room, s <= avail, WriteFinish(s)
  PROVE  /\ data' \in [Place -> Nat]
         /\ wp' \in Place /\ wp' = Wrap(rp + rda_size + s)
         /\ \A i \in 1..s : data'[Wrap(wp + i - 1)] = sent - avail + i
         /\ \A p \in Place : (\A i \in 1..s : p # Wrap(wp + i - 1)) => data'[p] = data[p]
<1> max \in Nat /\ max > 0
  BY SizeAssumption
<1> DEFINE places == Flat(Writing)
<1>1. Writing = Iov(wp, Room) /\ Room \in 1..max /\ wp \in Place
  BY DEF Writing, Room, TypeOK
<1>2. \A i \in 1..s : places[i] = Wrap(wp + i - 1)
  BY <1>1, FlatIov
<1>3. \A i \in 1..s : Wrap(wp + i - 1) \in Place
  BY <1>1 DEF Wrap, Place, Room, TypeOK
<1>4. ASSUME NEW i \in 1..s, NEW j \in 1..s, Wrap(wp + i - 1) = Wrap(wp + j - 1)
      PROVE  i = j
  <2>1. wp \in 0..(max - 1) /\ s \in 1..max
    BY <1>1 DEF Place
  <2> QED BY <1>4, <2>1 DEF Wrap
<1>5. sent - avail \in Nat
  BY DEF TypeOK
<1>6. data' = [p \in Place |->
                 IF \E i \in 1..s : places[i] = p
                 THEN sent - avail + (CHOOSE i \in 1..s : places[i] = p)
                 ELSE data[p]]
  BY DEF WriteFinish
<1> HIDE DEF places
<1>7. ASSUME NEW i \in 1..s
      PROVE  (CHOOSE j \in 1..s : places[j] = Wrap(wp + i - 1)) = i
  <2> DEFINE c == CHOOSE j \in 1..s : places[j] = Wrap(wp + i - 1)
  <2>1. c \in 1..s /\ places[c] = Wrap(wp + i - 1)
    BY <1>2
  <2> HIDE DEF c
  <2>2. c = i
    BY <1>2, <1>4, <2>1
  <2> QED BY <2>2 DEF c
<1>8. \A i \in 1..s : data'[Wrap(wp + i - 1)] = sent - avail + i
  BY <1>2, <1>3, <1>6, <1>7
<1>9. \A p \in Place : (\A i \in 1..s : p # Wrap(wp + i - 1)) => data'[p] = data[p]
  BY <1>2, <1>6
<1>10. ASSUME NEW p \in Place PROVE data'[p] \in Nat
  <2>1. CASE \E i \in 1..s : p = Wrap(wp + i - 1)
    <3>1. PICK i \in 1..s : p = Wrap(wp + i - 1)
      BY <2>1
    <3>2. data'[p] = sent - avail + i
      BY <1>8, <3>1
    <3> QED BY <1>5, <3>2
  <2>2. CASE \A i \in 1..s : p # Wrap(wp + i - 1)
    BY <1>9, <2>2 DEF TypeOK
  <2> QED BY <2>1, <2>2
<1>11. data' \in [Place -> Nat]
  BY <1>6, <1>10
<1>12. wp' = Wrap(wp + s)
  BY ModWrap DEF WriteFinish, TypeOK, Place
<1>13. wp' \in Place /\ wp' = Wrap(rp + rda_size + s)
  BY <1>12 DEF RingOK, Wrap, Room, TypeOK, Place
<1> QED BY <1>8, <1>9, <1>11, <1>13

(* tcp_write: lwIP holds at most all unread bytes more, and exactly these  *)
(* when no call failed.                                                    *)
LEMMA Handed ==
  ASSUME TypeOK, rda_size > 0,
         NEW ok \in Oks, DOMAIN ok = 1..Len(Reading), NEW more,
         more = Flat([i \in 1..Len(Reading) |-> IF ok[i] THEN Reading[i] ELSE <<>>])
  PROVE  /\ more \in Seq(Place) /\ Len(more) <= rda_size
         /\ (\A i \in DOMAIN ok : ok[i]) =>
              /\ Len(more) = rda_size
              /\ \A i \in 1..rda_size : more[i] = Wrap(rp + i - 1)
<1>1. Reading = Iov(rp, rda_size) /\ rp \in Place /\ rda_size \in 1..max
  BY SizeAssumption DEF Reading, TypeOK
<1>2. PICK a, b \in Seq(Place) :
           \/ Reading = <<a>> /\ Len(a) = rda_size
           \/ Reading = <<a, b>> /\ Len(a) + Len(b) = rda_size
  BY <1>1, IovShape
<1> DEFINE x == IF ok[1] THEN a ELSE <<>>
           y == IF ok[2] THEN b ELSE <<>>
<1>3. x \in Seq(Place) /\ y \in Seq(Place) /\ Len(x) <= Len(a) /\ Len(y) <= Len(b)
  OBVIOUS
<1>4. CASE Reading = <<a>> /\ Len(a) = rda_size
  <2>1. [i \in 1..Len(Reading) |-> IF ok[i] THEN Reading[i] ELSE <<>>] = <<x>>
    BY <1>4
  <2>2. more = x
    <3>1. Flat(<<x>>) = x
      BY DEF Flat
    <3> QED BY <2>1, <3>1
  <2>3. (\A i \in DOMAIN ok : ok[i]) => x = a
    BY <1>4
  <2>4. Flat(Reading) = a
    BY <1>4 DEF Flat
  <2> HIDE DEF x
  <2>5. more \in Seq(Place) /\ Len(more) <= rda_size
    BY <1>3, <1>4, <2>2
  <2> QED BY <1>1, <2>2, <2>3, <2>4, <2>5, FlatIov
<1>5. CASE Reading = <<a, b>> /\ Len(a) + Len(b) = rda_size
  <2>1. [i \in 1..Len(Reading) |-> IF ok[i] THEN Reading[i] ELSE <<>>] = <<x, y>>
    BY <1>5
  <2>2. more = x \o y
    BY <2>1 DEF Flat
  <2>3. (\A i \in DOMAIN ok : ok[i]) => x = a /\ y = b
    BY <1>5
  <2>4. Flat(Reading) = a \o b
    BY <1>5 DEF Flat
  <2> HIDE DEF x, y
  <2>5. more \in Seq(Place) /\ Len(more) <= rda_size
    <3>1. Len(x \o y) = Len(x) + Len(y) /\ x \o y \in Seq(Place)
      BY <1>3
    <3>2. Len(x) + Len(y) <= Len(a) + Len(b)
      <4>1. Len(x) \in Nat /\ Len(y) \in Nat /\ Len(a) \in Nat /\ Len(b) \in Nat
        BY <1>3
      <4> QED BY <1>3, <4>1
    <3> QED BY <1>5, <2>2, <3>1, <3>2
  <2> QED BY <1>1, <2>2, <2>3, <2>4, <2>5, FlatIov
<1> QED BY <1>2, <1>4, <1>5

-----------------------------------------------------------------------------
(* The steps.                                                              *)

(* Forward: the window opens by what leaves the queue.                     *)
LEMMA ForwardInv == SpliceInv /\ Forward => SpliceInv'
<1> SUFFICES ASSUME SpliceInv, Forward PROVE SpliceInv'
  OBVIOUS
<1> USE SizeAssumption DEF SpliceInv, TypeOK, RingOK, SndBufSuffices, WindowExact,
                           InPlace, Freed, AllThere, CleanShut, CleanEnd, Oldest
<1>1. CASE FSkip
  BY <1>1 DEF FSkip, Run, ring, lwip, uplink, socket
<1>2. CASE FNothing
  BY <1>2 DEF FNothing, Run, ring, lwip, uplink, socket
<1>3. CASE FError
  BY <1>3 DEF FError, Run, ring, lwip, uplink, socket
<1>4. CASE FEnd
  BY <1>4 DEF FEnd, Run, ring, lwip, socket
<1>5. CASE \E s \in 1..SockBuf : FWrite(s)
  BY <1>5 DEF FWrite, Recved, Run, ring
<1> QED BY <1>1, <1>2, <1>3, <1>4, <1>5 DEF Forward

(* The steps of the task that leave ring and lwIP alone.                   *)
LEMMA TaskInv ==
  SpliceInv /\ (BSkip \/ BNoRead \/ BEmpty \/ BNoPcb \/ Yield \/ Leave \/ DrainWait)
    => SpliceInv'
<1> SUFFICES ASSUME SpliceInv,
                    BSkip \/ BNoRead \/ BEmpty \/ BNoPcb \/ Yield \/ Leave \/ DrainWait
             PROVE  SpliceInv'
  OBVIOUS
<1> USE SizeAssumption DEF SpliceInv, TypeOK, RingOK, SndBufSuffices, WindowExact,
                           InPlace, Freed, AllThere, CleanShut, CleanEnd, Oldest
<1>1. CASE BSkip
  BY <1>1 DEF BSkip, Run, ring, lwip, uplink, socket
<1>2. CASE BNoRead
  BY <1>2 DEF BNoRead, BResult, Room, Run, ring, lwip, uplink, socket
<1>3. CASE BEmpty
  BY <1>3 DEF BEmpty, Run, ring, uplink, socket
<1>4. CASE BNoPcb
  BY <1>4 DEF BNoPcb, Run, ring, lwip, uplink, socket
<1>5. CASE Yield
  BY <1>5 DEF Yield, ring, lwip, uplink, socket
<1>6. CASE Leave
  BY <1>6 DEF Leave, Run, ring, lwip, uplink, socket
<1>7. CASE DrainWait
  BY <1>7 DEF DrainWait, ring, lwip, uplink, socket
<1> QED BY <1>1, <1>2, <1>3, <1>4, <1>5, <1>6, <1>7

(* The session ends, or the pcb is lost.                                   *)
LEMMA EndInv == SpliceInv /\ (DrainEnd \/ Expire \/ Err) => SpliceInv'
<1> SUFFICES ASSUME SpliceInv, DrainEnd \/ Expire \/ Err PROVE SpliceInv'
  OBVIOUS
<1> USE SizeAssumption DEF SpliceInv, TypeOK, RingOK, SndBufSuffices, WindowExact,
                           InPlace, Freed, AllThere, CleanShut, CleanEnd, Oldest
<1> <<>> \in Seq(Place) /\ Len(<<>>) = 0
  OBVIOUS
<1>1. CASE Destruct
  <2>1. TypeOK'
    <3>1. seg' \in Seq(Place) /\ queue' \in 0..Wnd
      BY <1>1 DEF Destruct
    <3> QED BY <1>1, <3>1 DEF Destruct, ring, socket
  <2>2. ~pcb' /\ queue' = 0
    BY <1>1 DEF Destruct
  <2> QED BY <1>1, <2>1, <2>2 DEF Destruct, ring, socket
<1>2. CASE /\ pc = "f" /\ pc' = "drain" /\ state' = "RUNNING"
           /\ UNCHANGED <<zero, res_f, res_b, ring, lwip, uplink, socket>>
  BY <1>2 DEF ring, lwip, uplink, socket
<1>3. CASE Err
  <2>1. TypeOK'
    BY <1>3 DEF Err, Wake, ring, uplink, socket
  <2>2. ~pcb'
    BY <1>3 DEF Err
  <2> QED BY <1>3, <2>1, <2>2 DEF Err, Wake, ring, uplink, socket
<1> QED BY <1>1, <1>2, <1>3 DEF DrainEnd, Expire

(* The client's bytes, and the events of the server.                       *)
LEMMA EventInv ==
  SpliceInv /\ (\/ \E n \in 1..Wnd : Recv(n)
                \/ RecvEof \/ Terminate \/ Poll
                \/ ServerSend \/ ServerEof \/ ServerReset \/ ServerRecv)
    => SpliceInv'
<1> SUFFICES ASSUME SpliceInv,
                    \/ \E n \in 1..Wnd : Recv(n)
                    \/ RecvEof \/ Terminate \/ Poll
                    \/ ServerSend \/ ServerEof \/ ServerReset \/ ServerRecv
             PROVE  SpliceInv'
  OBVIOUS
<1> USE SizeAssumption DEF SpliceInv, TypeOK, RingOK, SndBufSuffices, WindowExact,
                           InPlace, Freed, AllThere, CleanShut, CleanEnd, Oldest
<1>1. CASE \E n \in 1..Wnd : Recv(n)
  BY <1>1 DEF Recv, Callback, Wake, ring, socket
<1>2. CASE RecvEof
  BY <1>2 DEF RecvEof, Callback, Wake, ring, lwip, socket
<1>3. CASE Terminate
  BY <1>3 DEF Terminate, Wake, ring, lwip, uplink, socket
<1>4. CASE Poll
  BY <1>4 DEF Poll, Wake, ring, lwip, uplink
<1>5. CASE ServerSend
  <2>1. sent' - avail' = sent - avail
    BY <1>5 DEF ServerSend
  <2>2. TypeOK' /\ RingOK' /\ SndBufSuffices' /\ WindowExact' /\ CleanShut' /\ CleanEnd'
    BY <1>5 DEF ServerSend, task, ring, lwip, uplink
  <2>3. InPlace'
    BY <1>5, <2>1 DEF ServerSend, task, ring, lwip, uplink
  <2>4. AllThere' /\ Freed'
    BY <1>5 DEF ServerSend, task, ring, lwip, uplink
  <2> QED BY <2>2, <2>3, <2>4
<1>6. CASE ServerEof
  BY <1>6 DEF ServerEof, task, ring, lwip, uplink
<1>7. CASE ServerReset
  BY <1>7 DEF ServerReset, task, ring, lwip, uplink
<1>8. CASE ServerRecv
  BY <1>8 DEF ServerRecv, task, ring, lwip, uplink
<1> QED BY <1>1, <1>2, <1>3, <1>4, <1>5, <1>6, <1>7, <1>8

(* readv: the bytes in use stay where they are, and the new ones continue  *)
(* them.                                                                   *)
LEMMA ReadInv ==
  ASSUME SpliceInv, NEW s \in 1..max, BRead(s)
  PROVE  SpliceInv'
<1> max \in Nat /\ max > 0
  BY SizeAssumption
<1>1. /\ TypeOK /\ RingOK /\ avail <= sent /\ s <= Room /\ s <= avail /\ WriteFinish(s)
      /\ UNCHANGED <<pcb, memerr, seg, acked, sent, rp>> /\ avail' = avail - s
      /\ use_size' = use_size + s /\ rda_size' = rda_size + s
  BY DEF SpliceInv, AllThere, BRead, WriteFinish, lwip
<1>2. /\ data' \in [Place -> Nat]
      /\ wp' \in Place /\ wp' = Wrap(rp + rda_size + s)
      /\ \A i \in 1..s : data'[Wrap(wp + i - 1)] = sent - avail + i
      /\ \A p \in Place : (\A i \in 1..s : p # Wrap(wp + i - 1)) => data'[p] = data[p]
  BY <1>1, Filled
<1>3. TypeOK'
  <2>1. use_size' \in 0..max /\ rda_size' \in 0..max /\ avail' \in 0..Down
    <3>1. use_size \in 0..max /\ rda_size \in 0..max /\ avail \in 0..Down /\ Down \in Nat
      BY <1>1, SizeAssumption DEF TypeOK
    <3> QED BY <1>1, <3>1 DEF RingOK, Room
  <2>2. pc' = "w" /\ res_b' = 1 /\ rp' \in Place /\ seg' \in Seq(Place) /\ pcb' \in BOOLEAN
    BY <1>1 DEF TypeOK, BRead, Run
  <2> QED BY <1>1, <1>2, <2>1, <2>2 DEF TypeOK, BRead, Run, lwip, uplink
<1>4. RingOK'
  BY <1>1, <1>2 DEF RingOK, TypeOK, Place
<1>5. SndBufSuffices' /\ WindowExact' /\ CleanShut' /\ CleanEnd' /\ AllThere'
  <2>1. Len(seg) \in Nat /\ seg' = seg
    BY <1>1 DEF TypeOK
  <2>2. /\ use_size' <= max /\ pc = "b" /\ pc' = "w" /\ res_b >= 0 /\ res_b' = 1
        /\ UNCHANGED <<fin, rcv_wnd, queue, pcb_eof, shut, srv_eof, reset>>
    BY <1>3 DEF TypeOK, BRead, Run, lwip, uplink
  <2>3. SndBufSuffices' /\ WindowExact' /\ CleanShut'
    BY <1>1, <2>1, <2>2 DEF SpliceInv, SndBufSuffices, WindowExact, CleanShut, TypeOK
  <2>4. ~fin
    BY <2>2 DEF SpliceInv, AllThere, TypeOK
  <2>5. CleanEnd' /\ AllThere'
    <3>1. rda_size \in Nat /\ avail \in Nat /\ sent \in Nat /\ acked \in Nat
      BY <1>1 DEF TypeOK
    <3>2. avail' <= sent'
      BY <1>1, <3>1
    <3>3. pcb => acked + Len(seg) + (rda_size + s) + (avail - s) = sent
      BY <2>1, <2>2, <3>1 DEF SpliceInv, AllThere
    <3> QED BY <1>1, <2>1, <2>2, <2>4, <3>2, <3>3 DEF CleanEnd, AllThere
  <2> QED BY <2>3, <2>5
<1>6. InPlace'
  <2> SUFFICES ASSUME pcb, ~memerr
               PROVE  /\ Len(seg) = use_size' - rda_size'
                      /\ \A i \in 1..Len(seg) : seg[i] = Wrap(Oldest' + i - 1)
                      /\ \A i \in 1..use_size' : data'[Wrap(Oldest' + i - 1)] = acked + i
                      /\ acked + use_size' = sent - avail'
    BY <1>1 DEF InPlace
  <2>1. Oldest' = Oldest /\ use_size' - rda_size' = use_size - rda_size
    BY <1>1 DEF Oldest, TypeOK, Place
  <2>2. /\ Len(seg) = use_size - rda_size
        /\ \A i \in 1..Len(seg) : seg[i] = Wrap(Oldest + i - 1)
        /\ \A i \in 1..use_size : data[Wrap(Oldest + i - 1)] = acked + i
        /\ acked + use_size = sent - avail
    BY DEF SpliceInv, InPlace
  <2>3. acked + use_size' = sent - avail'
    BY <1>1, <2>2 DEF TypeOK
  <2>4. /\ rp \in 0..(max - 1) /\ rda_size \in 0..use_size /\ use_size \in 0..max
        /\ s \in 1..(max - use_size) /\ wp = Wrap(rp + rda_size)
        /\ Oldest = rp - (use_size - rda_size)
    BY <1>1 DEF RingOK, Oldest, Room, TypeOK, Place
  <2>5. ASSUME NEW i \in 1..use_size' PROVE data'[Wrap(Oldest + i - 1)] = acked + i
    <3>1. CASE i <= use_size
      <4>1. Wrap(Oldest + i - 1) \in Place
        BY <2>4, <3>1 DEF Wrap, Place
      <4>2. \A j \in 1..s : Wrap(Oldest + i - 1) # Wrap(wp + j - 1)
        BY <2>4, <3>1 DEF Wrap
      <4> QED BY <1>2, <2>2, <2>4, <3>1, <4>1, <4>2
    <3>2. CASE i > use_size
      <4>1. i - use_size \in 1..s
        BY <1>1, <2>4, <3>2
      <4>2. Wrap(Oldest + i - 1) = Wrap(wp + (i - use_size) - 1)
        BY <2>4, <4>1 DEF Wrap
      <4>3. data'[Wrap(wp + (i - use_size) - 1)] = sent - avail + (i - use_size)
        BY <1>2, <4>1
      <4>4. acked \in Nat /\ use_size \in Nat /\ sent \in Nat /\ avail \in Nat
        BY <1>1 DEF TypeOK
      <4>5. sent - avail + (i - use_size) = acked + i
        BY <1>1, <2>2, <4>4
      <4> QED BY <4>2, <4>3, <4>5
    <3>3. i <= use_size \/ i > use_size
      BY <1>1 DEF TypeOK
    <3> QED BY <3>1, <3>2, <3>3
  <2> QED BY <2>1, <2>2, <2>3, <2>5
<1> QED BY <1>1, <1>3, <1>4, <1>5, <1>6 DEF SpliceInv, Freed

(* tcp_write: what was unread is held by lwIP, in the same places.         *)
LEMMA WriteInv ==
  ASSUME SpliceInv, NEW ok \in Oks, NEW out \in BOOLEAN,
         memerr \/ (out /\ \A i \in DOMAIN ok : ok[i]), BWrite(ok, out)
  PROVE  SpliceInv'
<1> max \in Nat /\ max > 0
  BY SizeAssumption
<1> DEFINE more == Flat([i \in 1..Len(Reading) |-> IF ok[i] THEN Reading[i] ELSE <<>>])
<1>1. /\ TypeOK /\ RingOK /\ pcb /\ rda_size > 0 /\ seg' = seg \o more
      /\ DOMAIN ok = 1..Len(Reading)
      /\ rp' = (rp + rda_size) % max /\ rda_size' = 0
      /\ UNCHANGED <<pcb, memerr, acked, sent, avail, wp, use_size, data, fin>>
  BY DEF SpliceInv, TypeOK, BWrite, ReadFinish, socket
<1>2. /\ more \in Seq(Place) /\ Len(more) <= rda_size
      /\ (\A i \in DOMAIN ok : ok[i]) =>
           /\ Len(more) = rda_size
           /\ \A i \in 1..rda_size : more[i] = Wrap(rp + i - 1)
  BY <1>1, Handed
<1> HIDE DEF more
<1>3. /\ seg' \in Seq(Place) /\ Len(seg') = Len(seg) + Len(more)
      /\ Len(seg) \in Nat /\ Len(more) \in Nat
  BY <1>1, <1>2 DEF TypeOK
<1>4. rp' = Wrap(rp + rda_size) /\ rp' \in Place /\ wp = rp'
  <2>1. rp' = Wrap(rp + rda_size)
    BY <1>1, ModWrap DEF TypeOK, Place
  <2> QED BY <1>1, <2>1 DEF RingOK, TypeOK
<1>5. TypeOK'
  BY <1>1, <1>3, <1>4 DEF TypeOK, BWrite, Run, uplink, socket
<1>6. RingOK'
  <2>1. rp' \in 0..(max - 1) /\ Wrap(rp' + 0) = rp' /\ use_size \in Nat
    BY <1>1, <1>4 DEF TypeOK, Wrap, Place
  <2> QED BY <1>1, <1>4, <2>1 DEF RingOK
<1>7. SndBufSuffices' /\ WindowExact' /\ CleanShut'
  <2>1. Len(seg) + rda_size <= use_size /\ use_size \in 0..max /\ rda_size \in Nat
    BY <1>1 DEF SpliceInv, SndBufSuffices, TypeOK
  <2>2. SndBufSuffices'
    BY <1>1, <1>2, <1>3, <2>1 DEF SndBufSuffices
  <2>3. UNCHANGED <<rcv_wnd, queue, pcb_eof, shut>>
    BY DEF BWrite, uplink
  <2> QED BY <1>1, <2>2, <2>3 DEF SpliceInv, WindowExact, CleanShut
<1>8. AllThere' /\ CleanEnd'
  <2>1. pc = "w" /\ pc' = "y" /\ ~fin' /\ avail' <= sent'
    BY <1>1 DEF SpliceInv, AllThere, BWrite, Run
  <2>2. res_b' >= 0 => acked' + Len(seg') + rda_size' + avail' = sent'
    <3>1. acked + Len(seg) + rda_size + avail = sent
      BY <1>1, <2>1 DEF SpliceInv, AllThere
    <3>2. res_b' >= 0 => \A i \in DOMAIN ok : ok[i]
      BY DEF BWrite
    <3>3. rda_size \in Nat /\ avail \in Nat /\ sent \in Nat /\ acked \in Nat
      BY <1>1 DEF TypeOK
    <3>4. res_b' >= 0 => Len(seg') = Len(seg) + rda_size
      BY <1>2, <1>3, <3>2
    <3>5. acked' = acked /\ rda_size' = 0 /\ avail' = avail /\ sent' = sent
      BY <1>1
    <3>6. acked + (Len(seg) + rda_size) + 0 + avail = sent
      BY <1>3, <3>1, <3>3
    <3> QED BY <3>4, <3>5, <3>6
  <2> QED BY <1>1, <2>1, <2>2 DEF AllThere, CleanEnd
<1>9. InPlace'
  <2> SUFFICES ASSUME ~memerr
               PROVE  /\ Len(seg') = use_size - 0
                      /\ \A i \in 1..Len(seg') : seg'[i] = Wrap(Oldest' + i - 1)
                      /\ \A i \in 1..use_size : data[Wrap(Oldest' + i - 1)] = acked + i
                      /\ acked + use_size = sent - avail
    BY <1>1 DEF InPlace
  <2>1. Len(more) = rda_size /\ \A i \in 1..rda_size : more[i] = Wrap(rp + i - 1)
    BY <1>2
  <2>2. /\ Len(seg) = use_size - rda_size
        /\ \A i \in 1..Len(seg) : seg[i] = Wrap(Oldest + i - 1)
        /\ \A i \in 1..use_size : data[Wrap(Oldest + i - 1)] = acked + i
        /\ acked + use_size = sent - avail
    BY <1>1 DEF SpliceInv, InPlace
  <2>3. /\ rp \in 0..(max - 1) /\ rda_size \in 0..use_size /\ use_size \in 0..max
        /\ rp' = Wrap(rp + rda_size)
        /\ Oldest = rp - (use_size - rda_size) /\ Oldest' = rp' - use_size
    <3>1. rda_size <= use_size /\ rda_size \in Nat /\ use_size \in 0..max /\ rp \in 0..(max - 1)
      BY <1>1 DEF RingOK, TypeOK, Place
    <3>2. Oldest' = rp' - (use_size - 0) /\ Oldest = rp - (use_size - rda_size)
      BY <1>1 DEF Oldest
    <3> QED BY <1>4, <3>1, <3>2
  <2>4. \A i \in 1..use_size : Wrap(Oldest' + i - 1) = Wrap(Oldest + i - 1)
    BY <2>3 DEF Wrap
  <2>5. Len(seg') = use_size
    BY <1>3, <2>1, <2>2, <2>3
  <2>6. ASSUME NEW i \in 1..use_size PROVE seg'[i] = Wrap(Oldest + i - 1)
    <3>1. CASE i <= Len(seg)
      <4>1. seg'[i] = seg[i]
        BY <1>1, <1>2, <1>3, <3>1 DEF TypeOK
      <4> QED BY <1>3, <2>2, <3>1, <4>1
    <3>2. CASE i > Len(seg)
      <4>1. i - Len(seg) \in 1..rda_size
        BY <1>3, <2>2, <2>3, <3>2
      <4>2. seg'[i] = more[i - Len(seg)]
        BY <1>1, <1>2, <1>3, <2>1, <3>2, <4>1 DEF TypeOK
      <4>3. more[i - Len(seg)] = Wrap(rp + (i - Len(seg)) - 1)
        BY <2>1, <4>1
      <4>4. rp + (i - Len(seg)) - 1 = Oldest + i - 1
        BY <1>3, <2>2, <2>3
      <4> QED BY <4>2, <4>3, <4>4
    <3> QED BY <1>3, <3>1, <3>2
  <2> QED BY <2>2, <2>3, <2>4, <2>5, <2>6
<1> QED BY <1>1, <1>5, <1>6, <1>7, <1>8, <1>9 DEF SpliceInv, Freed

(* tcp_sent_handler: the oldest bytes leave the ring.                      *)
LEMMA SentInv ==
  ASSUME SpliceInv, NEW n \in 1..max, Sent(n)
  PROVE  SpliceInv'
<1> max \in Nat /\ max > 0
  BY SizeAssumption
<1>1. /\ TypeOK /\ RingOK /\ pcb /\ n <= Len(seg) /\ Len(seg) \in Nat
      /\ Len(seg) + rda_size <= use_size
      /\ seg' = SubSeq(seg, n + 1, Len(seg)) /\ acked' = acked + n
      /\ use_size' = use_size - n
      /\ UNCHANGED <<pcb, memerr, sent, avail, rda_size, data, fin, res_b, pc>>
  <2>1. TypeOK /\ RingOK /\ SndBufSuffices
    BY DEF SpliceInv
  <2>2. Len(seg) \in Nat
    BY <2>1 DEF TypeOK
  <2> QED BY <2>1, <2>2 DEF SndBufSuffices, Sent, Callback, ReadRelease, socket
<1>2. /\ seg' \in Seq(Place) /\ Len(seg') = Len(seg) - n
      /\ \A i \in 1..Len(seg') : seg'[i] = seg[n + i]
  <2>1. seg \in Seq(Place) /\ n + 1 \in 1..(Len(seg) + 1)
    BY <1>1 DEF TypeOK
  <2>2. seg' \in Seq(Place) /\ Len(seg') = Len(seg) - n
    BY <1>1, <2>1
  <2>3. \A i \in 1..Len(seg') : seg'[i] = seg[n + i]
    BY <1>1, <2>1, <2>2
  <2> QED BY <2>2, <2>3
<1>3. TypeOK'
  <2>1. use_size' \in 0..max /\ acked' \in Nat
    BY <1>1 DEF TypeOK
  <2>2. rp' \in Place /\ wp' \in Place
    BY <1>1 DEF TypeOK, Sent, ReadRelease, Place
  <2> QED BY <1>1, <1>2, <2>1, <2>2 DEF TypeOK, Sent, Callback, Wake, uplink, socket
<1>4. RingOK'
  <2>1. rda_size \in Nat /\ use_size \in Nat /\ rda_size' <= use_size'
    BY <1>1 DEF TypeOK
  <2>2. CASE use_size' = 0
    <3>1. rp' = 0 /\ wp' = 0 /\ rda_size' = 0
      BY <1>1, <2>1, <2>2 DEF Sent, ReadRelease
    <3> QED BY <2>1, <3>1 DEF RingOK, Wrap
  <2>3. CASE use_size' # 0
    <3>1. rp' = rp /\ wp' = wp
      BY <2>3 DEF Sent, ReadRelease
    <3> QED BY <1>1, <2>1, <3>1 DEF RingOK
  <2> QED BY <2>2, <2>3
<1>5. SndBufSuffices' /\ WindowExact' /\ CleanShut'
  BY <1>1, <1>2 DEF SpliceInv, SndBufSuffices, WindowExact, CleanShut, TypeOK, Sent,
     uplink
<1>6. AllThere' /\ CleanEnd'
  <2>1. acked' + Len(seg') = acked + Len(seg) /\ acked \in Nat
    <3>1. acked \in Nat
      BY <1>1 DEF TypeOK
    <3> QED BY <1>1, <1>2, <3>1
  <2>2. UNCHANGED <<srv_eof, reset>>
    BY DEF Sent, socket
  <2> QED BY <1>1, <2>1, <2>2 DEF SpliceInv, AllThere, CleanEnd
<1>7. InPlace'
  <2> SUFFICES ASSUME ~memerr
               PROVE  /\ Len(seg') = use_size' - rda_size
                      /\ \A i \in 1..Len(seg') : seg'[i] = Wrap(Oldest' + i - 1)
                      /\ \A i \in 1..use_size' : data[Wrap(Oldest' + i - 1)] = acked' + i
                      /\ acked' + use_size' = sent - avail
    BY <1>1 DEF InPlace
  <2>1. /\ Len(seg) = use_size - rda_size
        /\ \A i \in 1..Len(seg) : seg[i] = Wrap(Oldest + i - 1)
        /\ \A i \in 1..use_size : data[Wrap(Oldest + i - 1)] = acked + i
        /\ acked + use_size = sent - avail
    BY <1>1 DEF SpliceInv, InPlace
  <2>2. Len(seg') = use_size' - rda_size /\ acked' + use_size' = sent - avail
    <3>1. use_size \in Nat /\ rda_size \in Nat /\ acked \in Nat
      BY <1>1 DEF TypeOK
    <3>2. use_size' = use_size - n /\ acked' = acked + n /\ Len(seg') = Len(seg) - n
      BY <1>1, <1>2
    <3>3. /\ Len(seg) - n = (use_size - n) - rda_size
          /\ (acked + n) + (use_size - n) = sent - avail
      BY <2>1, <3>1
    <3> QED BY <3>2, <3>3
  <2>3. CASE use_size' = 0
    BY <1>2, <2>2, <2>3, <1>1 DEF TypeOK
  <2>4. CASE use_size' # 0
    <3>1. Oldest' = Oldest + n /\ Oldest \in Int
      BY <1>1, <2>4 DEF Oldest, TypeOK, Sent, ReadRelease, Place
    <3>2. ASSUME NEW i \in 1..Len(seg') PROVE seg'[i] = Wrap(Oldest' + i - 1)
      <4>1. n + i \in 1..Len(seg) /\ Oldest + (n + i) - 1 = Oldest' + i - 1
        BY <1>1, <1>2, <3>1
      <4> QED BY <1>2, <2>1, <4>1
    <3>3. ASSUME NEW i \in 1..use_size'
          PROVE  data[Wrap(Oldest' + i - 1)] = acked' + i
      <4>1. n + i \in 1..use_size /\ Oldest + (n + i) - 1 = Oldest' + i - 1
        BY <1>1, <3>1 DEF TypeOK
      <4>2. data[Wrap(Oldest + (n + i) - 1)] = acked + (n + i)
        BY <2>1, <4>1
      <4> QED BY <1>1, <4>1, <4>2 DEF TypeOK
    <3> QED BY <2>2, <3>2, <3>3
  <2> QED BY <2>3, <2>4
<1> QED BY <1>1, <1>3, <1>4, <1>5, <1>6, <1>7 DEF SpliceInv, Freed

-----------------------------------------------------------------------------
(* The theorems.                                                           *)

(* Every step of the session, of lwIP and of the server keeps the          *)
(* invariant.                                                              *)
LEMMA SpliceStep == SpliceInv /\ [Next]_vars => SpliceInv'
<1> SUFFICES ASSUME SpliceInv, [Next]_vars PROVE SpliceInv'
  OBVIOUS
<1>1. CASE UNCHANGED vars
  BY <1>1 DEF vars, task, ring, lwip, uplink, socket, SpliceInv, TypeOK, RingOK,
     SndBufSuffices, WindowExact, InPlace, Freed, AllThere, CleanShut, CleanEnd, Oldest
<1>2. CASE Forward
  BY <1>2, ForwardInv
<1>3. CASE Backward
  <2>1. CASE BSkip \/ BNoRead \/ BEmpty \/ BNoPcb
    BY <2>1, TaskInv
  <2>2. CASE \E s \in 1..max : BRead(s)
    BY <2>2, ReadInv
  <2>3. CASE \E ok \in Oks, out \in BOOLEAN :
               /\ memerr \/ (out /\ \A i \in DOMAIN ok : ok[i])
               /\ BWrite(ok, out)
    BY <2>3, WriteInv
  <2> QED BY <1>3, <2>1, <2>2, <2>3 DEF Backward
<1>4. CASE Yield \/ Leave \/ DrainWait
  BY <1>4, TaskInv
<1>5. CASE DrainEnd \/ Expire \/ Err
  BY <1>5, EndInv
<1>6. CASE Client
  BY <1>6, SentInv DEF Client
<1>7. CASE \/ \E n \in 1..Wnd : Recv(n)
           \/ RecvEof \/ Terminate \/ Poll
           \/ ServerSend \/ ServerEof \/ ServerReset \/ ServerRecv
  BY <1>7, EventInv
<1>8. CASE Finished
  BY <1>1, <1>8 DEF Finished
<1> QED BY <1>1, <1>2, <1>3, <1>4, <1>5, <1>6, <1>7, <1>8 DEF Next, Task

(* The inductive invariant holds for every size of the ring, of the window *)
(* and of the buffers, with and without failures of lwIP.                  *)
THEOREM SpliceInvariant == Spec => []SpliceInv
<1>1. Init => SpliceInv
  <2> SUFFICES ASSUME Init PROVE SpliceInv
    OBVIOUS
  <2>1. TypeOK
    <3>1. <<>> \in Seq(Place) /\ 0 \in Place
      BY SizeAssumption DEF Place
    <3> QED BY <3>1, SizeAssumption DEF Init, TypeOK
  <2>2. Wrap(0) = 0
    BY SizeAssumption DEF Wrap
  <2> QED BY <2>1, <2>2, SizeAssumption DEF Init, SpliceInv, RingOK, SndBufSuffices,
          WindowExact, InPlace, Freed, AllThere, CleanShut, CleanEnd, Oldest
<1> QED BY <1>1, SpliceStep, PTL DEF Spec

(* A byte lwIP still refers to is never overwritten, and lwIP gets the     *)
(* server's stream without a gap, wherever the ring wraps around.          *)
THEOREM StreamStaysIntact == Spec => []StreamIntact
<1>1. SpliceInv => StreamIntact
  <2> SUFFICES ASSUME SpliceInv, ~memerr, NEW i \in 1..Len(seg)
               PROVE  data[seg[i]] = acked + i
    BY DEF StreamIntact
  <2>1. Len(seg) \in Nat /\ use_size \in Nat /\ rda_size \in Nat
    BY DEF SpliceInv, TypeOK
  <2>2. CASE pcb
    <3>1. /\ Len(seg) = use_size - rda_size
          /\ \A j \in 1..Len(seg) : seg[j] = Wrap(Oldest + j - 1)
          /\ \A j \in 1..use_size : data[Wrap(Oldest + j - 1)] = acked + j
      BY <2>2 DEF SpliceInv, InPlace
    <3> QED BY <2>1, <3>1
  <2>3. CASE ~pcb
    BY <2>3 DEF SpliceInv, Freed
  <2> QED BY <2>2, <2>3
<1> QED BY <1>1, SpliceInvariant, PTL

(* Ring, queue and window keep within their limits and add up.             *)
THEOREM BuffersStayExact == Spec => []BuffersExact
<1>1. SpliceInv => BuffersExact
  BY DEF SpliceInv, BuffersExact
<1> QED BY <1>1, SpliceInvariant, PTL

(* The client sees a clean end only after every byte of the server.        *)
THEOREM EndIsClean == Spec => []CleanEnd
<1>1. SpliceInv => CleanEnd
  BY DEF SpliceInv
<1> QED BY <1>1, SpliceInvariant, PTL

(* The server sees a clean end only after every byte of the client.        *)
THEOREM ShutIsClean == Spec => []CleanShut
<1>1. SpliceInv => CleanShut
  BY DEF SpliceInv
<1> QED BY <1>1, SpliceInvariant, PTL
=============================================================================
