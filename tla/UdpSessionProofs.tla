-------------------------- MODULE UdpSessionProofs --------------------------
(***************************************************************************)
(* Proofs about UdpSession, for every length of the frames, of the batches *)
(* and of the queues.                                                      *)
(*                                                                         *)
(* Positions in the two streams are whole frames plus what the call under  *)
(* way has sent or read.  UdpInv states both positions, so that a call     *)
(* which ends between frames leaves the streams in step.                   *)
(***************************************************************************)
EXTENDS UdpSession, FiniteSetTheorems, TLAPS

(* Types, of what both directions share.                                   *)
TaskOK ==
  /\ type \in Types
  /\ pc \in {"f", "send", "b", "head", "rest", "body", "push", "y", "done", "ub"}
  /\ state \in {"RUNNING", "WAITING"} /\ zero \in BOOLEAN
  /\ res_f \in -1..1 /\ res_b \in -1..1
  /\ named \in Named \cup {NoHost} /\ ups \in 0..Up
  /\ eof \in BOOLEAN /\ reset \in BOOLEAN /\ ctl \in BOOLEAN
  /\ torn \in BOOLEAN /\ cut \in BOOLEAN /\ edge \in BOOLEAN

(* Towards the server: the queue, the call and what is in the stream.      *)
QueueOK ==
  /\ frame_list \in Seq(Datagram) /\ Len(frame_list) <= UDP_POOL_SIZE + 1
  /\ batch \in Nat /\ size \in Nat
  /\ pc = "send" => /\ batch \in 1..num /\ batch <= Len(frame_list)
                    /\ size < batch * SendUnit
  /\ pc # "send" => batch = 0 /\ size = 0
  /\ wire \in Seq(Datagram \X Nat) /\ taken \in 0..Len(wire)

(* The stream holds whole frames and the size parts of the call under way. *)
InFrames(k) ==
  /\ Len(wire) = k * SendUnit + size
  /\ \A i \in 1..size : wire[k * SendUnit + i] = Part(i)

(* They do, unless a call returned inside a frame.                         *)
UpOK == ~torn => \E k \in Nat : InFrames(k)

(* Towards the client: what came, and what the call under way holds.       *)
ReplyOK ==
  /\ down \in Seq(Reply) /\ Len(down) <= Down
  /\ arrived \in Nat /\ rpos \in 0..arrived /\ arrived <= Len(down) * RecvUnit
  /\ msgs \in Seq(Nat) /\ Len(msgs) <= num /\ Len(msgs) * RecvUnit <= rpos
  /\ \A i \in 1..Len(msgs) : msgs[i] \in 1..Len(down) /\ down[msgs[i]] # Bad
  /\ delivered \in Seq((1..Down) \X (Host \cup {Runt}))
  /\ pc \notin {"head", "rest", "body", "push", "ub"} => msgs = <<>>
  /\ pc \in {"head", "rest", "body", "push"} => type = "tcp" /\ res_b >= 0
  /\ pc \in {"head", "rest", "body"} => Len(msgs) < num
  /\ pc \notin {"rest", "body"} => got = 0 /\ more = 0

(* Where the stream is read.                                               *)
ReadOK ==
  /\ got \in Nat /\ more \in Nat
  /\ pc = "rest" => /\ got > 0 /\ got + more < HeadLen
                    /\ \E k \in Nat : rpos = k * RecvUnit + got + more
  /\ pc = "body" => /\ got = 0 /\ more < BodyLen
                    /\ \E k \in Nat : /\ rpos = k * RecvUnit + HeadLen + more
                                      /\ down[k + 1] # Bad
  /\ type = "tcp" /\ ~cut /\ res_b >= 0 /\ pc \notin {"rest", "body", "ub"}
       => \E k \in Nat : rpos = k * RecvUnit

(* Undefined behaviour has one of two reasons.                             *)
UbOK == pc = "ub" => cut \/ \E i \in 1..Len(down) : down[i] = Runt

(* The inductive invariant.                                                *)
UdpInv == TaskOK /\ QueueOK /\ UpOK /\ ReplyOK /\ ReadOK /\ UbOK

-----------------------------------------------------------------------------
(* Multiples of the length of a frame.                                     *)

(* Quotient and remainder.                                                 *)
LEMMA DivMod ==
  ASSUME NEW n \in Nat, NEW d \in Nat \ {0}
  PROVE  /\ n \div d \in Nat /\ n % d \in 0..(d - 1)
         /\ n = (n \div d) * d + (n % d)
OBVIOUS

(* They are unique.                                                        *)
LEMMA DivUnique ==
  ASSUME NEW q \in Nat, NEW d \in Nat \ {0}, NEW r \in 0..(d - 1)
  PROVE  (q * d + r) \div d = q /\ (q * d + r) % d = r
OBVIOUS

(* Fewer frames are at least one frame shorter.                            *)
LEMMA MulStep ==
  ASSUME NEW a \in Int, NEW b \in Int, NEW d \in Nat \ {0}, a < b
  PROVE  a * d + d <= b * d
OBVIOUS

(* More frames are not shorter.                                            *)
LEMMA MulMono ==
  ASSUME NEW a \in Int, NEW b \in Int, NEW d \in Nat \ {0}, a <= b
  PROVE  a * d <= b * d
OBVIOUS

(* A shorter stream has fewer frames.                                      *)
LEMMA MulLess ==
  ASSUME NEW a \in Int, NEW b \in Int, NEW d \in Nat \ {0}, a * d < b * d
  PROVE  a < b
OBVIOUS

(* Order is transitive.                                                    *)
LEMMA LeqTrans ==
  ASSUME NEW a \in Int, NEW b \in Int, NEW c \in Int, a <= b, b <= c
  PROVE  a <= c
OBVIOUS

(* The units of the two streams.                                           *)
LEMMA Units ==
  ASSUME TaskOK
  PROVE  /\ SendUnit \in Nat \ {0} /\ RecvUnit \in Nat \ {0} /\ SendUnit <= UpLen
         /\ type = "tcp" => RecvUnit = HeadLen + BodyLen
         /\ type # "tcp" => SendUnit = 1 /\ RecvUnit = 1
         /\ type' = type => SendUnit' = SendUnit /\ RecvUnit' = RecvUnit
BY UdpAssumption DEF TaskOK, SendUnit, RecvUnit

(* The session starts in the invariant.                                    *)
LEMMA UdpInit == Init => UdpInv
<1> SUFFICES ASSUME Init PROVE UdpInv
  OBVIOUS
<1> USE DEF Init
<1>1. TaskOK
  <2>1. ups \in 0..Up /\ res_f \in -1..1 /\ res_b \in -1..1
    BY UdpAssumption
  <2>2. /\ zero \in BOOLEAN /\ eof \in BOOLEAN /\ reset \in BOOLEAN /\ ctl \in BOOLEAN
        /\ torn \in BOOLEAN /\ cut \in BOOLEAN /\ edge \in BOOLEAN
    OBVIOUS
  <2> QED BY <2>1, <2>2 DEF TaskOK
<1>2. SendUnit \in Nat \ {0} /\ RecvUnit \in Nat \ {0}
  BY <1>1, Units
<1>3. QueueOK
  BY UdpAssumption DEF QueueOK
<1>4. UpOK
  <2>1. InFrames(0)
    BY <1>2 DEF InFrames
  <2> QED BY <2>1 DEF UpOK
<1>5. ReplyOK
  BY <1>2, UdpAssumption DEF ReplyOK
<1>6. ReadOK
  <2>1. rpos = 0 * RecvUnit
    BY <1>2
  <2> QED BY <2>1 DEF ReadOK
<1> QED BY <1>1, <1>3, <1>4, <1>5, <1>6 DEF UdpInv, UbOK

-----------------------------------------------------------------------------
(* A step of the other direction, or of neither.                           *)

(* A step that leaves the way to the server alone.                         *)
LEMMA UpQuiet ==
  ASSUME UdpInv, UNCHANGED <<type, frame_list, batch, size, wire, torn>>,
         taken' \in 0..Len(wire), (pc' = "send") <=> (pc = "send")
  PROVE  QueueOK' /\ UpOK'
<1>1. SendUnit' = SendUnit
  BY Units DEF UdpInv
<1>2. QueueOK'
  BY <1>1 DEF UdpInv, QueueOK
<1>3. \A i : Part(i)' = Part(i)
  BY <1>1 DEF Part
<1>4. \A k \in Nat : InFrames(k) => InFrames(k)'
  BY <1>1, <1>3 DEF InFrames
<1>5. UpOK'
  BY <1>4 DEF UdpInv, UpOK
<1> QED BY <1>2, <1>5

(* A step that leaves the way to the client alone.                         *)
LEMMA DownQuiet ==
  ASSUME UdpInv,
         UNCHANGED <<type, msgs, got, more, down, arrived, rpos, delivered, cut, res_b>>,
         pc' = pc \/ {pc, pc'} \cap {"head", "rest", "body", "push", "ub"} = {}
  PROVE  ReplyOK' /\ ReadOK' /\ UbOK'
<1>1. RecvUnit' = RecvUnit
  BY Units DEF UdpInv
<1>2. CASE pc' = pc
  <2>1. ReplyOK'
    BY <1>1, <1>2 DEF UdpInv, ReplyOK
  <2>2. ReadOK' /\ UbOK'
    BY <1>1, <1>2 DEF UdpInv, ReadOK, UbOK
  <2> QED BY <2>1, <2>2
<1>3. CASE {pc, pc'} \cap {"head", "rest", "body", "push", "ub"} = {}
  <2>1. ReplyOK'
    BY <1>1, <1>3 DEF UdpInv, ReplyOK
  <2>2. ReadOK' /\ UbOK'
    BY <1>1, <1>3 DEF UdpInv, ReadOK, UbOK
  <2> QED BY <2>1, <2>2
<1> QED BY <1>2, <1>3

-----------------------------------------------------------------------------
(* The way to the server.                                                  *)

(* The parts of the call under way belong to the frames of its batch.      *)
LEMMA PartLemma ==
  ASSUME UdpInv, pc = "send", NEW u \in 1..Total
  PROVE  /\ ((u - 1) \div SendUnit) + 1 \in 1..batch
         /\ Part(u) \in Datagram \X Nat
<1>1. SendUnit \in Nat \ {0}
  BY Units DEF UdpInv
<1>2. batch \in Nat /\ batch <= Len(frame_list) /\ frame_list \in Seq(Datagram)
  BY DEF UdpInv, QueueOK
<1>3. Total \in Nat /\ Total = batch * SendUnit
  BY <1>1, <1>2 DEF Total
<1>4. u - 1 \in Nat /\ u - 1 < batch * SendUnit
  BY <1>3
<1> DEFINE q == (u - 1) \div SendUnit
           r == (u - 1) % SendUnit
<1>5. q \in Nat /\ r \in 0..(SendUnit - 1) /\ u - 1 = q * SendUnit + r
  BY <1>1, <1>4, DivMod
<1> HIDE DEF q, r
<1>6. q * SendUnit < batch * SendUnit
  BY <1>1, <1>2, <1>4, <1>5
<1>7. q < batch
  BY <1>1, <1>2, <1>5, <1>6, MulLess
<1>8. q + 1 \in 1..batch /\ q + 1 \in 1..Len(frame_list) /\ r + 1 \in Nat
  BY <1>1, <1>2, <1>5, <1>7
<1>9. frame_list[q + 1] \in Datagram
  BY <1>2, <1>8
<1> QED BY <1>8, <1>9 DEF Part, q, r

(* The rest of the queue after the first frames of it.                     *)
LEMMA DropLemma ==
  ASSUME NEW S, NEW q \in Seq(S), NEW n \in 0..Len(q)
  PROVE  /\ SubSeq(q, n + 1, Len(q)) \in Seq(S)
         /\ Len(SubSeq(q, n + 1, Len(q))) = Len(q) - n
         /\ \A i \in 1..(Len(q) - n) : SubSeq(q, n + 1, Len(q))[i] = q[n + i]
<1>1. Len(q) \in Nat /\ n \in Nat /\ n <= Len(q)
  OBVIOUS
<1>2. CASE n = Len(q)
  BY <1>1, <1>2
<1>3. CASE n < Len(q)
  BY <1>1, <1>3
<1> QED BY <1>1, <1>2, <1>3

(* One sequence after another.                                             *)
LEMMA ConcatLemma ==
  ASSUME NEW S, NEW p \in Seq(S), NEW q \in Seq(S)
  PROVE  /\ p \o q \in Seq(S) /\ Len(p \o q) = Len(p) + Len(q)
         /\ \A i \in 1..Len(p) : (p \o q)[i] = p[i]
         /\ \A i \in 1..Len(q) : (p \o q)[Len(p) + i] = q[i]
<1>1. Len(p) \in Nat /\ Len(q) \in Nat
  OBVIOUS
<1>2. p \o q \in Seq(S) /\ Len(p \o q) = Len(p) + Len(q)
  OBVIOUS
<1>3. ASSUME NEW i \in 1..Len(p) PROVE (p \o q)[i] = p[i]
  BY <1>1, <1>3
<1>4. ASSUME NEW i \in 1..Len(q) PROVE (p \o q)[Len(p) + i] = q[i]
  <2>1. Len(p) + i \in 1..(Len(p) + Len(q)) /\ ~(Len(p) + i <= Len(p))
        /\ (Len(p) + i) - Len(p) = i
    BY <1>1, <1>4
  <2> QED BY <1>1, <2>1
<1> QED BY <1>2, <1>3, <1>4

(* How many frames a call takes from the queue.                            *)
LEMMA SentLemma ==
  ASSUME UdpInv, pc = "send", NEW n \in 1..Total
  PROVE  /\ Sent(n) \in 1..batch /\ Sent(n) \in 0..Len(frame_list)
         /\ type = "tcp" => Sent(n) = batch
         /\ type # "tcp" => Sent(n) = n
<1>1. batch \in Nat /\ batch >= 1 /\ batch <= Len(frame_list) /\ Len(frame_list) \in Nat
  BY DEF UdpInv, QueueOK
<1>2. type # "tcp" => Total = batch
  BY <1>1, Units DEF UdpInv, Total
<1> QED BY <1>1, <1>2 DEF Sent

(* sendmmsg returns.                                                       *)
LEMMA SendReturnUp ==
  ASSUME UdpInv, pc = "send", NEW n \in 0..Total, SendReturn(n), type' = type,
         wire' \in Seq(Datagram \X Nat), taken' \in 0..Len(wire'),
         ~torn => \E k \in Nat : Len(wire') = k * SendUnit + n
  PROVE  QueueOK' /\ UpOK'
<1>1. SendUnit \in Nat \ {0} /\ SendUnit' = SendUnit
  BY Units DEF UdpInv
<1>2. /\ frame_list \in Seq(Datagram) /\ Len(frame_list) <= UDP_POOL_SIZE + 1
      /\ batch \in Nat /\ Total \in Nat
  BY <1>1 DEF UdpInv, QueueOK, Total
<1>3. frame_list' \in Seq(Datagram) /\ Len(frame_list') <= UDP_POOL_SIZE + 1
  <2>1. CASE n > 0
    <3>1. Sent(n) \in 0..Len(frame_list)
      BY <1>2, <2>1, SentLemma
    <3>2. frame_list' = SubSeq(frame_list, Sent(n) + 1, Len(frame_list))
      BY <2>1 DEF SendReturn
    <3>3. /\ frame_list' \in Seq(Datagram)
          /\ Len(frame_list') = Len(frame_list) - Sent(n)
      BY <1>2, <3>1, <3>2, DropLemma
    <3> QED BY <1>2, <3>1, <3>3, UdpAssumption
  <2>2. CASE ~(n > 0)
    BY <1>2, <2>2 DEF SendReturn
  <2> QED BY <2>1, <2>2
<1>4. QueueOK'
  BY <1>3 DEF SendReturn, QueueOK
<1>5. ASSUME ~torn' PROVE \E k \in Nat : InFrames(k)'
  <2>1. ~torn /\ n % SendUnit = 0
    BY <1>5 DEF SendReturn
  <2>2. PICK k \in Nat : Len(wire') = k * SendUnit + n
    BY <2>1
  <2>3. /\ n \div SendUnit \in Nat /\ n % SendUnit \in Nat
        /\ n = (n \div SendUnit) * SendUnit + (n % SendUnit)
    <3>1. n \in Nat
      BY <1>2
    <3>2. n % SendUnit \in 0..(SendUnit - 1)
      BY <1>1, <3>1, DivMod, Zenon
    <3>3. n \div SendUnit \in Nat /\ n = (n \div SendUnit) * SendUnit + (n % SendUnit)
      BY <1>1, <3>1, DivMod, Zenon
    <3> QED BY <3>2, <3>3
  <2>4. PICK a \in Nat : n = a * SendUnit
    <3> DEFINE q == n \div SendUnit
    <3>1. q \in Nat /\ n = q * SendUnit + 0
      BY <2>1, <2>3
    <3> HIDE DEF q
    <3>2. q * SendUnit \in Nat
      BY <1>1, <3>1
    <3> QED BY <3>1, <3>2
  <2>5. Len(wire') = (k + a) * SendUnit
    BY <1>1, <2>2, <2>4
  <2>6. InFrames(k + a)'
    <3>1. size' = 0 /\ k + a \in Nat /\ (k + a) * SendUnit \in Nat
      BY <1>1 DEF SendReturn
    <3> QED BY <1>1, <2>5, <3>1 DEF InFrames
  <2> QED BY <2>6
<1> QED BY <1>4, <1>5 DEF UpOK

(* Where the stream is after s more parts.                                 *)
LEMMA SendWire ==
  ASSUME UdpInv, pc = "send", NEW s \in Nat, size + s <= Total, s > 0,
         wire' = wire \o [i \in 1..s |-> Part(size + i)]
  PROVE  /\ wire' \in Seq(Datagram \X Nat)
         /\ Len(wire') = Len(wire) + s
         /\ \A i \in 1..Len(wire) : wire'[i] = wire[i]
         /\ \A i \in 1..s : wire'[Len(wire) + i] = Part(size + i)
<1> DEFINE more_parts == [i \in 1..s |-> Part(size + i)]
<1>1. SendUnit \in Nat \ {0} /\ size \in Nat /\ wire \in Seq(Datagram \X Nat) /\ Total \in Nat
  BY Units DEF UdpInv, QueueOK, Total
<1>2. \A i \in 1..s : Part(size + i) \in Datagram \X Nat
  <2> TAKE i \in 1..s
  <2>1. size + i \in 1..Total
    BY <1>1
  <2> QED BY <2>1, PartLemma
<1>3. more_parts \in Seq(Datagram \X Nat) /\ Len(more_parts) = s
  BY <1>2
<1>4. \A i \in 1..s : more_parts[i] = Part(size + i)
  OBVIOUS
<1>5. wire' = wire \o more_parts
  OBVIOUS
<1> HIDE DEF more_parts
<1>6. /\ wire \o more_parts \in Seq(Datagram \X Nat)
      /\ Len(wire \o more_parts) = Len(wire) + Len(more_parts)
      /\ \A i \in 1..Len(wire) : (wire \o more_parts)[i] = wire[i]
      /\ \A i \in 1..Len(more_parts) : (wire \o more_parts)[Len(wire) + i] = more_parts[i]
  <2>1. wire \in Seq(Datagram \X Nat) /\ more_parts \in Seq(Datagram \X Nat)
    BY <1>1, <1>3
  <2> QED BY <2>1, ConcatLemma
<1> QED BY <1>3, <1>4, <1>5, <1>6

(* They continue the frames of the batch.                                  *)
LEMMA SendParts ==
  ASSUME UdpInv, pc = "send", NEW s \in Nat, size + s <= Total, s > 0,
         wire' = wire \o [i \in 1..s |-> Part(size + i)],
         NEW k \in Nat, InFrames(k)
  PROVE  /\ Len(wire') = k * SendUnit + (size + s)
         /\ \A i \in 1..(size + s) : wire'[k * SendUnit + i] = Part(i)
<1>1. /\ Len(wire') = Len(wire) + s
      /\ \A i \in 1..Len(wire) : wire'[i] = wire[i]
      /\ \A i \in 1..s : wire'[Len(wire) + i] = Part(size + i)
  BY SendWire
<1>2. SendUnit \in Nat /\ size \in Nat /\ Len(wire) \in Nat
  BY Units DEF UdpInv, QueueOK
<1>3. PICK base \in Nat : base = k * SendUnit
  <2>1. k * SendUnit \in Nat
    BY <1>2
  <2> QED BY <2>1
<1>4. Len(wire) = base + size /\ \A i \in 1..size : wire[base + i] = Part(i)
  BY <1>3 DEF InFrames
<1>5. ASSUME NEW i \in 1..(size + s) PROVE wire'[base + i] = Part(i)
  <2>1. CASE i <= size
    BY <1>1, <1>2, <1>4, <2>1
  <2>2. CASE i > size
    <3>1. i - size \in 1..s /\ base + i = Len(wire) + (i - size) /\ size + (i - size) = i
      BY <1>2, <1>4, <2>2
    <3>2. wire'[Len(wire) + (i - size)] = Part(size + (i - size))
      BY <1>1, <3>1
    <3> QED BY <3>1, <3>2
  <2>3. i <= size \/ i > size
    BY <1>2
  <2> QED BY <2>1, <2>2, <2>3, Zenon
<1>6. Len(wire') = base + (size + s)
  BY <1>1, <1>2, <1>4
<1> QED BY <1>3, <1>5, <1>6

(* sendmsg took s parts.                                                   *)
LEMMA SendUp ==
  ASSUME UdpInv, NEW s \in 1..SockBuf, Send(s)
  PROVE  QueueOK' /\ UpOK'
<1>1. SendUnit \in Nat \ {0} /\ SendUnit' = SendUnit
  BY Units DEF UdpInv, Send, Stay
<1>2. /\ pc = "send" /\ s \in Nat /\ s > 0 /\ size + s <= Total
      /\ wire' = wire \o [i \in 1..s |-> Part(size + i)]
      /\ type' = type /\ taken' = taken
  BY UdpAssumption DEF Send, Running, Stay, peer
<1>3. /\ wire' \in Seq(Datagram \X Nat) /\ Len(wire') = Len(wire) + s
      /\ \A i \in 1..Len(wire) : wire'[i] = wire[i]
      /\ \A i \in 1..s : wire'[Len(wire) + i] = Part(size + i)
  BY <1>2, SendWire
<1>4. size \in Nat /\ Total \in Nat /\ taken \in 0..Len(wire) /\ Len(wire) \in Nat
  BY <1>1 DEF UdpInv, QueueOK, Total
<1>5. taken' \in 0..Len(wire')
  BY <1>2, <1>3, <1>4
<1>6. ~torn => \E k \in Nat : InFrames(k)
  BY DEF UdpInv, UpOK
<1>7. CASE size + s = Total
  <2>1. SendReturn(Total)
    BY <1>7 DEF Send
  <2>2. ~torn => \E k \in Nat : Len(wire') = k * SendUnit + Total
    <3> SUFFICES ASSUME ~torn PROVE \E k \in Nat : Len(wire') = k * SendUnit + Total
      OBVIOUS
    <3>1. PICK k \in Nat : Len(wire) = k * SendUnit + size
      BY <1>6 DEF InFrames
    <3>2. k * SendUnit \in Nat
      BY <1>1
    <3>3. Len(wire') = Len(wire) + s
      BY <1>3
    <3>4. Len(wire') = k * SendUnit + Total
      BY <1>4, <1>7, <3>1, <3>2, <3>3
    <3> QED BY <3>4
  <2> QED BY <1>2, <1>3, <1>4, <1>5, <2>1, <2>2, SendReturnUp
<1>8. CASE size + s # Total
  <2>1. size' = size + s /\ UNCHANGED <<pc, frame_list, torn, batch>>
    BY <1>8 DEF Send
  <2>2. QueueOK'
    BY <1>1, <1>2, <1>3, <1>4, <1>5, <1>8, <2>1 DEF UdpInv, QueueOK, Total
  <2>3. \A i : Part(i)' = Part(i)
    BY <1>1, <2>1 DEF Part
  <2>4. ASSUME NEW k \in Nat, InFrames(k) PROVE InFrames(k)'
    <3>1. /\ Len(wire') = k * SendUnit + (size + s)
          /\ \A i \in 1..(size + s) : wire'[k * SendUnit + i] = Part(i)
      BY <1>2, <2>4, SendParts
    <3> QED BY <1>1, <2>1, <2>3, <3>1 DEF InFrames
  <2> QED BY <1>6, <2>1, <2>2, <2>4 DEF UpOK
<1> QED BY <1>7, <1>8

(* The steps of fwd_f, seen from the queue.                                *)
LEMMA ForwardUp ==
  ASSUME UdpInv, FSkip \/ FBegin \/ SendWait \/ SendStop
  PROVE  QueueOK' /\ UpOK'
<1>1. SendUnit \in Nat \ {0} /\ taken \in 0..Len(wire)
  BY Units DEF UdpInv, QueueOK
<1>2. CASE FSkip \/ SendWait
  BY <1>1, <1>2, UpQuiet DEF FSkip, SendWait, Running, Stay, fwd, peer, hist
<1>3. CASE FBegin
  <2>1. /\ pc = "f" /\ pc' = "send" /\ frame_list # <<>>
        /\ batch' = Least(num, Len(frame_list)) /\ size' = 0
        /\ UNCHANGED <<type, frame_list, wire, taken, torn>>
    BY <1>3 DEF FBegin, Running, Stay, peer, hist
  <2>2. SendUnit' = SendUnit
    BY <2>1, Units DEF UdpInv
  <2>3. frame_list \in Seq(Datagram) /\ Len(frame_list) \in Nat /\ Len(frame_list) > 0
    BY <2>1 DEF UdpInv, QueueOK
  <2>4. batch' \in 1..num /\ batch' <= Len(frame_list) /\ batch' * SendUnit > 0
    <3>1. batch' \in 1..num /\ batch' <= Len(frame_list)
      BY <2>1, <2>3, UdpAssumption DEF Least
    <3>2. 0 \in Int /\ batch' \in Int /\ 0 < batch'
      BY <3>1, UdpAssumption
    <3>3. 0 * SendUnit + SendUnit <= batch' * SendUnit
      BY <1>1, <3>2, MulStep, Zenon
    <3>4. 0 * SendUnit + SendUnit = SendUnit /\ SendUnit > 0 /\ batch' * SendUnit \in Int
      BY <1>1, <3>2
    <3> HIDE DEF Least
    <3>5. batch' * SendUnit > 0
      BY <1>1, <3>3, <3>4
    <3> QED BY <3>1, <3>5
  <2>5. QueueOK'
    BY <2>1, <2>2, <2>4, UdpAssumption DEF UdpInv, QueueOK
  <2>6. size = 0
    BY <2>1 DEF UdpInv, QueueOK
  <2>7. \A k \in Nat : InFrames(k) => InFrames(k)'
    BY <2>1, <2>2, <2>6 DEF InFrames
  <2> QED BY <2>1, <2>5, <2>7 DEF UdpInv, UpOK
<1>4. CASE SendStop
  <2>1. pc = "send" /\ SendReturn(size) /\ UNCHANGED <<type, wire, taken>>
    BY <1>4 DEF SendStop, Running, peer
  <2>2. size \in 0..Total
    BY <1>1, <2>1 DEF UdpInv, QueueOK, Total
  <2>3. wire \in Seq(Datagram \X Nat)
    BY DEF UdpInv, QueueOK
  <2>4. ~torn => \E k \in Nat : Len(wire) = k * SendUnit + size
    BY DEF UdpInv, UpOK, InFrames
  <2> QED BY <1>1, <2>1, <2>2, <2>3, <2>4, SendReturnUp
<1> QED BY <1>2, <1>3, <1>4

-----------------------------------------------------------------------------
(* The way to the client.                                                  *)

(* What the steps of fwd_b leave alone.                                    *)
Arriving == UNCHANGED <<type, down, arrived, named>>

(* A source that is shown to the client is one that was set.               *)
LEMMA ShownLemma ==
  ASSUME UdpInv, NEW i \in 1..Len(down), down[i] # Bad
  PROVE  <<i, Shown(i)>> \in (1..Down) \X (Host \cup {Runt})
<1>1. down \in Seq(Reply) /\ Len(down) <= Down /\ Len(down) \in Nat
  BY DEF UdpInv, ReplyOK
<1>2. i \in 1..Down
  BY <1>1, UdpAssumption
<1>3. down[i] \in Host \cup {Runt}
  BY <1>1 DEF Reply
<1>4. named # NoHost => named \in Host
  BY UdpAssumption DEF UdpInv, TaskOK
<1>5. Shown(i) \in Host \cup {Runt}
  BY <1>3, <1>4 DEF Shown
<1> QED BY <1>2, <1>5

(* The first j of the messages q go to lwIP.                               *)
LEMMA PushLemma ==
  ASSUME UdpInv, NEW q \in Seq(Nat), NEW j \in 0..Len(q), Push(q, j),
         \A i \in 1..j : q[i] \in 1..Len(down) /\ down[q[i]] # Bad
  PROVE  /\ delivered' \in Seq((1..Down) \X (Host \cup {Runt}))
         /\ Len(delivered') = Len(delivered) + j
         /\ \A i \in 1..Len(delivered) : delivered'[i] = delivered[i]
         /\ \A i \in 1..j : delivered'[Len(delivered) + i] = <<q[i], Shown(q[i])>>
         /\ pc' = "y" /\ res_b' \in {-1, 1}
<1> DEFINE S == (1..Down) \X (Host \cup {Runt})
           new == [i \in 1..j |-> <<q[i], Shown(q[i])>>]
<1>1. j \in Nat
  OBVIOUS
<1>2. \A i \in 1..j : <<q[i], Shown(q[i])>> \in S
  BY ShownLemma
<1> HIDE DEF S
<1>3. new \in Seq(S) /\ Len(new) = j /\ \A i \in 1..j : new[i] = <<q[i], Shown(q[i])>>
  BY <1>1, <1>2
<1>4. delivered' = delivered \o new /\ pc' = "y" /\ res_b' \in {-1, 1}
  BY DEF Push
<1>5. delivered \in Seq(S)
  BY DEF UdpInv, ReplyOK, S
<1> HIDE DEF new
<1>6. /\ delivered \o new \in Seq(S) /\ Len(delivered \o new) = Len(delivered) + Len(new)
      /\ \A i \in 1..Len(delivered) : (delivered \o new)[i] = delivered[i]
      /\ \A i \in 1..Len(new) : (delivered \o new)[Len(delivered) + i] = new[i]
  <2>1. delivered \in Seq(S) /\ new \in Seq(S)
    BY <1>3, <1>5
  <2> QED BY <2>1, ConcatLemma
<1> QED BY <1>3, <1>4, <1>6 DEF S

(* fwd_b gets the result of recvmmsg_tcp.  The stream stays in step unless *)
(* the call ended inside a frame.                                          *)
LEMMA ResultDown ==
  ASSUME UdpInv, pc \in {"head", "rest", "body", "push"},
         NEW v \in Int, NEW again \in BOOLEAN, Result(v, again),
         Arriving, rpos' = rpos, cut' \in BOOLEAN,
         ~cut' => ~cut /\ v <= Len(msgs) /\ pc \in {"head", "push"}
  PROVE  /\ ReplyOK' /\ ReadOK' /\ UbOK'
         /\ pc' \in {"y", "ub"} /\ res_b' \in -1..1
         /\ pc' = "ub" => cut'
<1>1. RecvUnit \in Nat \ {0} /\ RecvUnit' = RecvUnit
  BY Units DEF UdpInv, Arriving
<1>2. msgs \in Seq(Nat) /\ \A i \in 1..Len(msgs) : msgs[i] \in 1..Len(down) /\ down[msgs[i]] # Bad
  BY DEF UdpInv, ReplyOK
<1>3. /\ delivered' \in Seq((1..Down) \X (Host \cup {Runt}))
      /\ pc' \in {"y", "ub"} /\ res_b' \in -1..1
      /\ pc' = "ub" => cut'
  <2>1. CASE v > 0 /\ v <= Len(msgs) /\ \E j \in 0..v : Push(SubSeq(msgs, 1, v), j)
    <3> DEFINE q == SubSeq(msgs, 1, v)
    <3>1. PICK j \in 0..v : Push(q, j)
      BY <2>1
    <3>2. q \in Seq(Nat) /\ Len(q) = v /\ \A i \in 1..v : q[i] = msgs[i]
      BY <1>2, <2>1
    <3> HIDE DEF q
    <3>3. j \in 0..Len(q) /\ \A i \in 1..j : q[i] \in 1..Len(down) /\ down[q[i]] # Bad
      <4>1. j \in 0..Len(q)
        BY <3>2
      <4>2. ASSUME NEW i \in 1..j PROVE q[i] \in 1..Len(down) /\ down[q[i]] # Bad
        <5>1. i \in 1..v /\ i \in 1..Len(msgs)
          BY <1>2, <2>1
        <5> QED BY <1>2, <3>2, <5>1
      <4> QED BY <4>1, <4>2
    <3>4. /\ delivered' \in Seq((1..Down) \X (Host \cup {Runt}))
          /\ pc' = "y" /\ res_b' \in {-1, 1}
      BY <3>1, <3>2, <3>3, PushLemma
    <3> QED BY <3>4
  <2>2. CASE v > 0 /\ v > Len(msgs) /\ pc' = "ub" /\ UNCHANGED <<res_b, delivered>>
    BY <1>2, <2>2 DEF UdpInv, TaskOK, ReplyOK
  <2>3. CASE v <= 0 /\ pc' = "y" /\ (res_b' = IF v = -1 /\ again THEN 0 ELSE -1)
             /\ UNCHANGED delivered
    BY <2>3 DEF UdpInv, ReplyOK
  <2> QED BY <2>1, <2>2, <2>3 DEF Result
<1>4. msgs' = <<>> /\ got' = 0 /\ more' = 0
  BY DEF Result, Forget
<1>5. ReplyOK'
  <2>1. 0 * RecvUnit = 0
    BY <1>1
  <2>2. Len(msgs') = 0 /\ msgs' \in Seq(Nat)
    BY <1>4
  <2> QED BY <1>1, <1>3, <2>1, <2>2, <1>4, UdpAssumption DEF UdpInv, ReplyOK, Arriving
<1>6. ReadOK'
  BY <1>1, <1>3, <1>4 DEF UdpInv, ReplyOK, ReadOK, Arriving
<1>7. UbOK'
  BY <1>3 DEF UbOK
<1> QED BY <1>3, <1>5, <1>6, <1>7

(* The frame of a position, and that it has come.                          *)
LEMMA CurrentLemma ==
  ASSUME UdpInv, NEW k \in Nat, NEW r \in 1..RecvUnit, rpos = k * RecvUnit + r
  PROVE  Current = k + 1 /\ k < Len(down)
<1>1. RecvUnit \in Nat \ {0}
  BY Units DEF UdpInv
<1>2. /\ rpos \in Nat /\ arrived \in Nat /\ rpos <= arrived /\ Len(down) \in Nat
      /\ arrived <= Len(down) * RecvUnit
  BY DEF UdpInv, ReplyOK
<1>3. r - 1 \in 0..(RecvUnit - 1)
  BY <1>1
<1>4. (k * RecvUnit + (r - 1)) \div RecvUnit = k
  BY <1>1, <1>3, DivUnique, Zenon
<1>5. rpos - 1 = k * RecvUnit + (r - 1) /\ k * RecvUnit \in Nat
  BY <1>1
<1>6. Current = k + 1
  BY <1>4, <1>5 DEF Current
<1>7. k * RecvUnit < Len(down) * RecvUnit
  BY <1>1, <1>2, <1>5
<1>8. k < Len(down)
  BY <1>1, <1>2, <1>7, MulLess
<1> QED BY <1>6, <1>8

(* The head of the frame k + 1 is complete.                                *)
LEMMA HeadKnownDown ==
  ASSUME UdpInv, pc \in {"head", "rest"}, NEW k \in Nat, HeadKnown(k + 1),
         rpos' = k * RecvUnit + HeadLen, rpos' \in 0..arrived, rpos <= rpos',
         Arriving, UNCHANGED <<delivered, cut>>
  PROVE  /\ ReplyOK' /\ ReadOK' /\ UbOK'
         /\ pc' \in {"y", "body"} /\ res_b' \in -1..1
<1>1. RecvUnit \in Nat \ {0} /\ RecvUnit' = RecvUnit
  BY Units DEF UdpInv, Arriving
<1>2. CASE down[k + 1] = Bad
  <2>1. pc' = "y" /\ res_b' = -1 /\ msgs' = <<>> /\ got' = 0 /\ more' = 0
    BY <1>2 DEF HeadKnown, Forget
  <2>2. Len(msgs') = 0 /\ msgs' \in Seq(Nat) /\ 0 * RecvUnit = 0
    BY <1>1, <2>1
  <2>3. ReplyOK'
    BY <1>1, <2>1, <2>2, UdpAssumption DEF UdpInv, ReplyOK, Arriving
  <2> QED BY <2>1, <2>3 DEF ReadOK, UbOK
<1>3. CASE down[k + 1] # Bad
  <2>1. pc' = "body" /\ got' = 0 /\ more' = 0 /\ UNCHANGED <<res_b, msgs>>
    BY <1>3 DEF HeadKnown
  <2>2. Len(msgs) * RecvUnit \in Nat /\ Len(msgs) * RecvUnit <= rpos'
    BY <1>1 DEF UdpInv, ReplyOK
  <2>3. ReplyOK'
    BY <1>1, <2>1, <2>2 DEF UdpInv, ReplyOK, Arriving
  <2>4. rpos' = k * RecvUnit + HeadLen + 0 /\ k * RecvUnit \in Nat /\ down'[k + 1] # Bad
    BY <1>1, <1>3, UdpAssumption DEF Arriving
  <2>5. ReadOK'
    BY <1>1, <2>1, <2>4, UdpAssumption DEF ReadOK
  <2> QED BY <2>1, <2>3, <2>5 DEF UbOK, UdpInv, TaskOK
<1> QED BY <1>2, <1>3

(* recv of a head.                                                         *)
LEMMA HeadReadDown ==
  ASSUME UdpInv, HeadRead
  PROVE  /\ ReplyOK' /\ ReadOK' /\ UbOK'
         /\ pc' \in {"y", "body", "rest"} /\ res_b' \in -1..1
<1> DEFINE s == Least(avail, HeadLen)
<1>1. RecvUnit \in Nat \ {0} /\ RecvUnit' = RecvUnit
  BY Units DEF UdpInv, HeadRead, Stay
<1>2. /\ pc = "head" /\ rpos % RecvUnit = 0 /\ arrived - rpos > 0
      /\ rpos' = rpos + s
      /\ Arriving /\ UNCHANGED <<delivered, cut>>
  BY DEF HeadRead, Running, InStep, avail, Stay, Arriving, client, peer, hist
<1>3. rpos \in Nat /\ arrived \in Nat /\ HeadLen \in Nat \ {0}
  BY UdpAssumption DEF UdpInv, ReplyOK
<1>4. s \in 1..HeadLen /\ s <= arrived - rpos
  BY <1>2, <1>3 DEF Least, avail
<1> DEFINE k == rpos \div RecvUnit
<1>5. k \in Nat /\ rpos = k * RecvUnit + (rpos % RecvUnit)
  BY <1>1, <1>3, DivMod, Zenon
<1>6. k * RecvUnit \in Nat /\ rpos = k * RecvUnit
  <2> HIDE DEF k
  <2>1. k * RecvUnit \in Nat
    BY <1>1, <1>5
  <2> QED BY <1>2, <1>5, <2>1
<1>7. rpos' \in 0..arrived /\ rpos <= rpos' /\ rpos' = k * RecvUnit + s
  BY <1>2, <1>3, <1>4, <1>6
<1>8. CASE s = HeadLen
  <2>1. HeadKnown(k + 1)
    BY <1>8 DEF HeadRead
  <2> HIDE DEF k, s
  <2>2. PICK m \in Nat : m = k
    BY <1>5
  <2>3. HeadKnown(m + 1) /\ rpos' = m * RecvUnit + HeadLen
    BY <1>7, <1>8, <2>1, <2>2
  <2> QED BY <1>2, <1>7, <2>3, HeadKnownDown
<1>9. CASE s # HeadLen
  <2>1. pc' = "rest" /\ got' = s /\ more' = 0 /\ UNCHANGED <<res_b, msgs>>
    BY <1>9 DEF HeadRead
  <2> HIDE DEF k, s
  <2>2. Len(msgs) * RecvUnit \in Nat /\ Len(msgs) * RecvUnit <= rpos'
    BY <1>1, <1>7 DEF UdpInv, ReplyOK
  <2>3. ReplyOK'
    BY <1>1, <1>2, <1>7, <2>1, <2>2 DEF UdpInv, ReplyOK, Arriving
  <2>4. rpos' = k * RecvUnit + got' + more' /\ got' > 0 /\ got' + more' < HeadLen
        /\ got' \in Nat /\ more' \in Nat
    BY <1>3, <1>4, <1>6, <1>7, <1>9, <2>1
  <2>5. ReadOK'
    BY <1>1, <1>5, <2>1, <2>4 DEF ReadOK
  <2> QED BY <2>1, <2>3, <2>5 DEF UbOK, UdpInv, TaskOK
<1> QED BY <1>8, <1>9

(* recv of the rest of a head.                                             *)
LEMMA RestReadDown ==
  ASSUME UdpInv, RestRead
  PROVE  /\ ReplyOK' /\ ReadOK' /\ UbOK'
         /\ pc' \in {"y", "body", "rest"} /\ res_b' \in -1..1
<1> DEFINE s == Least(avail, HeadLen - got - more)
<1>1. RecvUnit \in Nat \ {0} /\ RecvUnit' = RecvUnit /\ RecvUnit = HeadLen + BodyLen
  BY Units DEF UdpInv, ReplyOK, RestRead, Running, Stay
<1>2. /\ pc = "rest" /\ arrived - rpos > 0 /\ rpos' = rpos + s
      /\ Arriving /\ UNCHANGED <<delivered, cut>>
  BY DEF RestRead, Running, avail, Stay, Arriving, client, peer, hist
<1>3. /\ rpos \in Nat /\ arrived \in Nat /\ HeadLen \in Nat \ {0} /\ BodyLen \in Nat \ {0}
      /\ got \in Nat /\ more \in Nat /\ got > 0 /\ got + more < HeadLen
  BY <1>2, UdpAssumption DEF UdpInv, ReplyOK, ReadOK
<1>4. s \in Nat /\ s > 0 /\ s <= HeadLen - got - more /\ s <= arrived - rpos
  BY <1>2, <1>3 DEF Least, avail
<1>5. PICK k \in Nat : rpos = k * RecvUnit + got + more
  BY <1>2 DEF UdpInv, ReadOK
<1>6. k * RecvUnit \in Nat
  BY <1>1
<1>7. rpos' \in 0..arrived /\ rpos <= rpos' /\ rpos' = k * RecvUnit + got + more + s
  BY <1>2, <1>3, <1>4, <1>5, <1>6
<1>8. CASE got + more + s = HeadLen
  <2>1. HeadKnown(Current)
    BY <1>8 DEF RestRead
  <2> HIDE DEF s
  <2>2. got + more \in 1..RecvUnit /\ rpos = k * RecvUnit + (got + more)
    BY <1>1, <1>3, <1>5, <1>6
  <2>3. Current = k + 1
    BY <2>2, CurrentLemma
  <2>4. HeadKnown(k + 1) /\ rpos' = k * RecvUnit + HeadLen
    BY <1>3, <1>4, <1>6, <1>7, <1>8, <2>1, <2>3
  <2> QED BY <1>2, <1>7, <2>4, HeadKnownDown
<1>9. CASE got + more + s # HeadLen
  <2>1. more' = more + s /\ UNCHANGED <<pc, got, res_b, msgs>>
    BY <1>9 DEF RestRead
  <2> HIDE DEF s
  <2>2. Len(msgs) * RecvUnit <= rpos'
    <3>1. Len(msgs) * RecvUnit \in Nat /\ Len(msgs) * RecvUnit <= rpos
      <4>1. Len(msgs) \in Nat /\ RecvUnit \in Nat /\ Len(msgs) * RecvUnit <= rpos
        BY <1>1 DEF UdpInv, ReplyOK
      <4>2. Len(msgs) * RecvUnit \in Nat
        BY <4>1
      <4> QED BY <4>1, <4>2
    <3> QED BY <1>2, <1>3, <1>4, <3>1
  <2>3. ReplyOK'
    BY <1>1, <1>2, <1>7, <2>1, <2>2 DEF UdpInv, ReplyOK, Arriving
  <2>4. rpos' = k * RecvUnit + got' + more' /\ got' > 0 /\ got' + more' < HeadLen
        /\ got' \in Nat /\ more' \in Nat
    BY <1>3, <1>4, <1>6, <1>7, <1>9, <2>1
  <2>5. ReadOK'
    BY <1>1, <1>2, <2>1, <2>4 DEF ReadOK
  <2> QED BY <1>2, <2>1, <2>3, <2>5 DEF UbOK, UdpInv, TaskOK
<1> QED BY <1>8, <1>9

(* recvmsg of the address and the payload.                                 *)
LEMMA BodyReadDown ==
  ASSUME UdpInv, BodyRead
  PROVE  /\ ReplyOK' /\ ReadOK' /\ UbOK'
         /\ pc' \in {"body", "head", "push"} /\ res_b' \in -1..1
<1> DEFINE s == Least(avail, BodyLen - more)
<1>1. RecvUnit \in Nat \ {0} /\ RecvUnit' = RecvUnit /\ RecvUnit = HeadLen + BodyLen
  BY Units DEF UdpInv, ReplyOK, BodyRead, Running, Stay
<1>2. /\ pc = "body" /\ arrived - rpos > 0 /\ rpos' = rpos + s
      /\ Arriving /\ UNCHANGED <<delivered, cut, res_b, got>>
  BY DEF BodyRead, Running, avail, Stay, Arriving, client, peer, hist
<1>3. /\ rpos \in Nat /\ arrived \in Nat /\ HeadLen \in Nat \ {0} /\ BodyLen \in Nat \ {0}
      /\ more \in Nat /\ more < BodyLen /\ got = 0
  BY <1>2, UdpAssumption DEF UdpInv, ReplyOK, ReadOK
<1>4. s \in Nat /\ s > 0 /\ s <= BodyLen - more /\ s <= arrived - rpos
  BY <1>2, <1>3 DEF Least, avail
<1>5. PICK k \in Nat : rpos = k * RecvUnit + HeadLen + more /\ down[k + 1] # Bad
  BY <1>2 DEF UdpInv, ReadOK
<1>6. k * RecvUnit \in Nat
  BY <1>1
<1>7. rpos' \in 0..arrived /\ rpos <= rpos' /\ rpos' = k * RecvUnit + HeadLen + more + s
  BY <1>2, <1>3, <1>4, <1>5, <1>6
<1>8. /\ msgs \in Seq(Nat) /\ Len(msgs) \in Nat /\ Len(msgs) < num
      /\ Len(msgs) * RecvUnit \in Nat /\ Len(msgs) * RecvUnit <= rpos
  BY <1>1, <1>2 DEF UdpInv, ReplyOK
<1>9. CASE more + s = BodyLen
  <2>1. /\ msgs' = Append(msgs, Current) /\ more' = 0
        /\ pc' = IF Len(msgs) + 1 = num THEN "push" ELSE "head"
    BY <1>9 DEF BodyRead
  <2> HIDE DEF s
  <2>2. HeadLen + more \in 1..RecvUnit /\ rpos = k * RecvUnit + (HeadLen + more)
    BY <1>1, <1>3, <1>5, <1>6
  <2>3. Current = k + 1 /\ k < Len(down)
    BY <2>2, CurrentLemma
  <2>4. (k + 1) * RecvUnit = k * RecvUnit + RecvUnit
    BY <1>1
  <2>5. rpos' = (k + 1) * RecvUnit
    BY <1>1, <1>3, <1>4, <1>6, <1>7, <1>9, <2>4
  <2>6. Len(msgs) + 1 <= k + 1
    <3>1. Len(msgs) * RecvUnit < (k + 1) * RecvUnit
      BY <1>1, <1>3, <1>5, <1>6, <1>8, <2>4
    <3>2. Len(msgs) < k + 1
      BY <1>1, <1>8, <3>1, MulLess
    <3> QED BY <1>8, <3>2
  <2>7. (Len(msgs) + 1) * RecvUnit <= rpos'
    BY <1>1, <1>8, <2>5, <2>6, MulMono
  <2>8. /\ msgs' \in Seq(Nat) /\ Len(msgs') = Len(msgs) + 1
        /\ \A i \in 1..Len(msgs) : msgs'[i] = msgs[i]
        /\ msgs'[Len(msgs) + 1] = k + 1
    BY <1>8, <2>1, <2>3
  <2>9. \A i \in 1..Len(msgs') : msgs'[i] \in 1..Len(down) /\ down[msgs'[i]] # Bad
    <3> TAKE i \in 1..Len(msgs')
    <3>1. CASE i \in 1..Len(msgs)
      BY <2>8, <3>1 DEF UdpInv, ReplyOK
    <3>2. CASE i = Len(msgs) + 1
      <4>1. Len(down) \in Nat
        BY DEF UdpInv, ReplyOK
      <4> QED BY <1>5, <2>3, <2>8, <3>2, <4>1
    <3> QED BY <1>8, <2>8, <3>1, <3>2
  <2>10. Len(msgs') <= num /\ Len(msgs') * RecvUnit <= rpos'
         /\ (pc' = "head" => Len(msgs') < num)
    BY <1>8, <2>1, <2>7, <2>8, UdpAssumption
  <2>11. ReplyOK'
    BY <1>1, <1>2, <1>3, <1>7, <2>1, <2>8, <2>9, <2>10 DEF UdpInv, ReplyOK, Arriving
  <2>12. k + 1 \in Nat /\ rpos' = (k + 1) * RecvUnit'
    BY <1>1, <2>5
  <2>13. \E n \in Nat : rpos' = n * RecvUnit'
    BY <2>12
  <2>14. ReadOK'
    BY <1>2, <1>3, <2>1, <2>13 DEF ReadOK
  <2> QED BY <1>2, <2>1, <2>11, <2>14 DEF UbOK, UdpInv, TaskOK
<1>10. CASE more + s # BodyLen
  <2>1. more' = more + s /\ UNCHANGED <<pc, msgs>>
    BY <1>10 DEF BodyRead
  <2> HIDE DEF s
  <2>2. Len(msgs) * RecvUnit <= rpos'
    BY <1>2, <1>3, <1>4, <1>8
  <2>3. ReplyOK'
    BY <1>1, <1>2, <1>7, <2>1, <2>2 DEF UdpInv, ReplyOK, Arriving
  <2>4. rpos' = k * RecvUnit + HeadLen + more' /\ more' < BodyLen /\ more' \in Nat
    BY <1>3, <1>4, <1>6, <1>7, <1>10, <2>1
  <2>5. down'[k + 1] # Bad
    BY <1>2, <1>5 DEF Arriving
  <2>6. ReadOK'
    BY <1>1, <1>2, <1>3, <2>1, <2>4, <2>5 DEF ReadOK
  <2> QED BY <1>2, <2>1, <2>3, <2>6 DEF UbOK, UdpInv, TaskOK
<1> QED BY <1>9, <1>10

(* A read that the yielder, an error or the end of the stream stopped      *)
(* inside a frame.                                                         *)
LEMMA ReturnDown ==
  ASSUME UdpInv, pc \in {"rest", "body"}, NEW r \in Int, Return(r), Arriving, rpos' = rpos
  PROVE  /\ ReplyOK' /\ ReadOK' /\ UbOK' /\ cut' = TRUE
         /\ pc' \in {"y", "ub"} /\ res_b' \in -1..1
<1>1. got \in Nat /\ more \in Nat /\ msgs \in Seq(Nat) /\ Len(msgs) \in Int
  BY DEF UdpInv, ReadOK, ReplyOK
<1>2. cut' = TRUE
  BY DEF Return, RestReturn, BodyReturn
<1>3. \E v \in Int, again \in BOOLEAN : Result(v, again)
  <2>1. CASE RestReturn(r)
    <3>1. PICK again \in BOOLEAN : HeadResult(got + (IF more > 0 THEN more ELSE r), again)
      BY <2>1 DEF RestReturn
    <3>2. got + (IF more > 0 THEN more ELSE r) \in Int
      BY <1>1
    <3> QED BY <1>1, <3>1, <3>2 DEF HeadResult
  <2>2. CASE BodyReturn(r)
    <3>1. Result(IF more > 0 THEN more ELSE r, FALSE)
      BY <2>2 DEF BodyReturn
    <3>2. (IF more > 0 THEN more ELSE r) \in Int /\ FALSE \in BOOLEAN
      BY <1>1
    <3> QED BY <3>1, <3>2, Zenon
  <2> QED BY <2>1, <2>2 DEF Return
<1>4. PICK v \in Int, again \in BOOLEAN : Result(v, again)
  BY <1>3
<1> QED BY <1>2, <1>4, ResultDown

(* A read that ends between frames counts complete messages.               *)
LEMMA WholeResult ==
  ASSUME UdpInv, HeadNone \/ Full
  PROVE  \E v \in Int, again \in BOOLEAN : Result(v, again) /\ v <= Len(msgs)
<1>2. msgs \in Seq(Nat) /\ Len(msgs) \in Nat
  BY DEF UdpInv, ReplyOK
<1>3. CASE msgs # <<>> \/ Full
  <2>1. Result(Len(msgs), FALSE)
    BY <1>3 DEF HeadNone, Full, HeadResult
  <2>2. Len(msgs) \in Int /\ Len(msgs) <= Len(msgs) /\ FALSE \in BOOLEAN
    BY <1>2
  <2> QED BY <2>1, <2>2, Zenon
<1>4. CASE msgs = <<>> /\ HeadNone
  <2>1. Result(EndOf, ~eof /\ ~reset)
    BY <1>4 DEF HeadNone, HeadResult
  <2>2. EndOf \in Int /\ EndOf <= Len(msgs) /\ (~eof /\ ~reset) \in BOOLEAN
    BY <1>4 DEF EndOf
  <2> QED BY <2>1, <2>2
<1> QED BY <1>3, <1>4

(* A read that ends between frames.                                        *)
LEMMA WholeDown ==
  ASSUME UdpInv, HeadNone \/ Full
  PROVE  /\ ReplyOK' /\ ReadOK' /\ UbOK'
         /\ pc' = "y" /\ res_b' \in -1..1
<1>1. /\ pc \in {"head", "push"} /\ Arriving /\ rpos' = rpos /\ cut' = cut
  BY DEF HeadNone, Full, Running, Stay, Arriving, client, peer, hist
<1>2. msgs \in Seq(Nat) /\ Len(msgs) \in Nat /\ cut \in BOOLEAN
  BY DEF UdpInv, ReplyOK, TaskOK
<1>3. PICK v \in Int, again \in BOOLEAN : Result(v, again) /\ v <= Len(msgs)
  BY WholeResult
<1>4. /\ pc' \in {"y", "ub"} /\ res_b' \in -1..1 /\ ReplyOK' /\ ReadOK' /\ UbOK'
  <2>1. CASE cut
    BY <1>1, <1>2, <1>3, <2>1, ResultDown
  <2>2. CASE ~cut
    BY <1>1, <1>2, <1>3, <2>2, ResultDown
  <2> QED BY <1>2, <2>1, <2>2
<1>5. pc' = "y"
  BY <1>2, <1>3 DEF Result, Push
<1> QED BY <1>4, <1>5

(* recvmmsg of a datagram socket.                                          *)
LEMMA RecvUdpDown ==
  ASSUME UdpInv, RecvUdp
  PROVE  /\ ReplyOK' /\ ReadOK' /\ UbOK'
         /\ pc' \in {"y", "ub"} /\ res_b' \in -1..1
<1> DEFINE n == Least(num, avail)
           q == [i \in 1..n |-> rpos + i]
<1>1. type = "udp" /\ type # "tcp" /\ pc = "b" /\ avail > 0 /\ Arriving
      /\ UNCHANGED <<cut, msgs, got, more>> /\ rpos' = rpos + n
  BY DEF RecvUdp, Running, Stay, Arriving, client, peer, hist, bwd
<1>2. RecvUnit = 1 /\ RecvUnit' = 1
  BY <1>1, Units DEF UdpInv, Arriving
<1>3. /\ rpos \in Nat /\ arrived \in Nat /\ Len(down) \in Nat
      /\ arrived <= Len(down) /\ rpos <= arrived
  BY <1>2 DEF UdpInv, ReplyOK
<1>4. n \in Nat /\ n > 0 /\ rpos + n <= arrived
  BY <1>1, <1>3, UdpAssumption DEF avail, Least
<1>5. /\ \/ \E i \in 1..n : down[q[i]] = Bad /\ pc' = "y" /\ res_b' = -1 /\ UNCHANGED delivered
         \/ /\ \A i \in 1..n : down[q[i]] # Bad
            /\ \E j \in 0..n :
                 \/ Push(q, j)
                 \/ /\ j < n /\ down[q[j + 1]] = Runt
                    /\ pc' = "ub" /\ UNCHANGED <<res_b, delivered>>
  BY DEF RecvUdp
<1> HIDE DEF n
<1>6. q \in Seq(Nat) /\ Len(q) = n /\ \A i \in 1..n : q[i] = rpos + i
  BY <1>3, <1>4
<1> HIDE DEF q
<1>7. \A i \in 1..n : q[i] \in 1..Len(down)
  BY <1>3, <1>4, <1>6
<1> DEFINE Good == /\ delivered' \in Seq((1..Down) \X (Host \cup {Runt}))
                   /\ pc' \in {"y", "ub"} /\ res_b' \in -1..1
                   /\ pc' = "ub" => \E i \in 1..Len(down) : down[i] = Runt
<1>8. Good
  <2>1. CASE pc' = "y" /\ res_b' = -1 /\ UNCHANGED delivered
    BY <2>1 DEF UdpInv, ReplyOK
  <2>2. ASSUME \A i \in 1..n : down[q[i]] # Bad, NEW j \in 0..n, Push(q, j)
        PROVE  Good
    <3>1. j \in 0..Len(q) /\ \A i \in 1..j : q[i] \in 1..Len(down) /\ down[q[i]] # Bad
      BY <1>4, <1>6, <1>7, <2>2
    <3> QED BY <1>6, <2>2, <3>1, PushLemma
  <2>3. ASSUME NEW j \in 0..n, j < n, down[q[j + 1]] = Runt, pc' = "ub",
               UNCHANGED <<res_b, delivered>>
        PROVE  Good
    <3>1. j + 1 \in 1..n
      BY <1>4, <2>3
    <3> QED BY <1>7, <2>3, <3>1 DEF UdpInv, ReplyOK, TaskOK
  <2> QED BY <1>5, <2>1, <2>2, <2>3
<1>9. ReplyOK'
  <2>1. msgs = <<>> /\ Len(msgs) = 0 /\ 0 * 1 = 0
    BY <1>1 DEF UdpInv, ReplyOK
  <2>2. rpos' \in 0..arrived /\ Len(down) * 1 = Len(down)
    BY <1>1, <1>3, <1>4
  <2> QED BY <1>1, <1>2, <1>3, <1>8, <2>1, <2>2 DEF UdpInv, ReplyOK, Arriving
<1> QED BY <1>1, <1>8, <1>9 DEF ReadOK, UbOK, Arriving, UdpInv

(* The other steps of fwd_b.                                               *)
LEMMA BackwardDown ==
  ASSUME UdpInv, BSkip \/ BBegin \/ HeadLost \/ ReadWait \/ ReadStop \/ RecvUdpNone
  PROVE  /\ ReplyOK' /\ ReadOK' /\ UbOK'
         /\ pc' \in {"y", "head", "rest", "body", "ub"} /\ res_b' \in -1..1
         /\ cut' \in BOOLEAN
<1>1. RecvUnit \in Nat \ {0} /\ rpos \in Nat
  BY Units DEF UdpInv, ReplyOK
<1>2. cut \in BOOLEAN /\ res_b \in -1..1
  BY DEF UdpInv, TaskOK
<1>3. CASE BSkip
  <2>1. /\ UNCHANGED <<type, msgs, got, more, down, arrived, rpos, delivered, cut, res_b>>
        /\ pc = "b" /\ pc' = "y"
    BY <1>3 DEF BSkip, Running, Stay, bwd, peer, hist
  <2>2. {pc, pc'} \cap {"head", "rest", "body", "push", "ub"} = {}
    BY <2>1
  <2> QED BY <1>2, <2>1, <2>2, DownQuiet
<1>4. CASE ReadWait
  <2>1. /\ UNCHANGED <<type, msgs, got, more, down, arrived, rpos, delivered, cut, res_b, pc>>
        /\ pc \in {"rest", "body"}
    BY <1>4 DEF ReadWait, bwd, peer, hist
  <2> QED BY <1>2, <2>1, DownQuiet
<1>5. CASE BBegin
  <2>1. /\ UNCHANGED <<type, msgs, got, more, down, arrived, rpos, delivered, cut, res_b>>
        /\ pc = "b" /\ pc' = "head" /\ type = "tcp" /\ res_b >= 0
    BY <1>5 DEF BBegin, Running, Stay, bwd, peer, hist
  <2>2. RecvUnit' = RecvUnit
    BY <2>1, Units DEF UdpInv
  <2>3. msgs = <<>> /\ Len(msgs) = 0 /\ 0 < num
    BY <2>1, UdpAssumption DEF UdpInv, ReplyOK
  <2>4. ReplyOK'
    BY <2>1, <2>2, <2>3 DEF UdpInv, ReplyOK
  <2>5. ReadOK'
    BY <2>1, <2>2 DEF UdpInv, ReadOK
  <2> QED BY <1>2, <2>1, <2>4, <2>5 DEF UbOK
<1>6. CASE HeadLost
  <2>1. /\ UNCHANGED <<type, msgs, got, more, down, arrived, rpos, delivered, cut, res_b>>
        /\ pc = "head" /\ pc' = "ub" /\ ~(rpos % RecvUnit = 0)
    BY <1>6 DEF HeadLost, Running, Stay, bwd, peer, hist, InStep
  <2>2. RecvUnit' = RecvUnit
    BY <2>1, Units DEF UdpInv
  <2>3. cut
    <3> SUFFICES ASSUME ~cut PROVE FALSE
      OBVIOUS
    <3>1. type = "tcp" /\ res_b >= 0
      BY <2>1 DEF UdpInv, ReplyOK
    <3>2. PICK k \in Nat : rpos = k * RecvUnit
      BY <2>1, <3>1 DEF UdpInv, ReadOK
    <3>3. 0 \in 0..(RecvUnit - 1)
      BY <1>1
    <3>4. (k * RecvUnit + 0) % RecvUnit = 0
      BY <1>1, <3>3, DivUnique, Zenon
    <3>5. k * RecvUnit + 0 = k * RecvUnit
      BY <1>1
    <3> QED BY <2>1, <3>2, <3>4, <3>5
  <2> USE <2>1
  <2>4. ReplyOK'
    BY <2>1, <2>2 DEF UdpInv, ReplyOK
  <2>5. ReadOK'
    BY <2>1, <2>2 DEF UdpInv, ReplyOK, ReadOK
  <2> QED BY <1>2, <2>1, <2>3, <2>4, <2>5 DEF UbOK
<1>7. CASE ReadStop
  <2>1. /\ pc \in {"rest", "body"} /\ Arriving /\ rpos' = rpos
        /\ Return(IF eof \/ reset THEN EndOf ELSE -2)
    BY <1>7 DEF ReadStop, Stay, Arriving, client, peer
  <2>2. (IF eof \/ reset THEN EndOf ELSE -2) \in Int
    BY DEF EndOf
  <2>3. PICK r \in Int : Return(r)
    BY <2>1, <2>2
  <2> QED BY <2>1, <2>3, ReturnDown
<1>8. CASE RecvUdpNone
  <2>1. /\ UNCHANGED <<type, msgs, got, more, down, arrived, rpos, delivered, cut>>
        /\ pc = "b" /\ pc' = "y" /\ type = "udp" /\ res_b' \in {-1, 0}
    BY <1>8 DEF RecvUdpNone, Running, Stay, bwd, peer, hist
  <2>2. RecvUnit' = RecvUnit
    BY <2>1, Units DEF UdpInv
  <2>3. ReplyOK'
    BY <2>1, <2>2 DEF UdpInv, ReplyOK
  <2>4. ReadOK'
    BY <2>1, <2>2 DEF UdpInv, ReadOK
  <2> QED BY <1>2, <2>1, <2>3, <2>4 DEF UbOK
<1> QED BY <1>3, <1>4, <1>5, <1>6, <1>7, <1>8

(* A byte or a datagram arrives.                                           *)
LEMMA ArriveDown ==
  ASSUME UdpInv, NEW r \in Reply, Arrive(r)
  PROVE  ReplyOK' /\ ReadOK' /\ UbOK'
<1>1. /\ pc \notin {"done", "ub"} /\ arrived' = arrived + 1
      /\ UNCHANGED <<type, pc, res_b, cut, msgs, got, more, rpos, delivered>>
      /\ IF arrived = Len(down) * RecvUnit
         THEN Len(down) < Down /\ down' = Append(down, r)
         ELSE down' = down
  BY DEF Arrive, Alive, Session, task, bwd, hist
<1>2. RecvUnit \in Nat \ {0} /\ RecvUnit' = RecvUnit
  BY <1>1, Units DEF UdpInv
<1>3. /\ down \in Seq(Reply) /\ Len(down) \in Nat /\ Len(down) <= Down
      /\ arrived \in Nat /\ rpos \in 0..arrived /\ arrived <= Len(down) * RecvUnit
      /\ \A i \in 1..Len(msgs) : msgs[i] \in 1..Len(down) /\ down[msgs[i]] # Bad
  BY DEF UdpInv, ReplyOK
<1>4. Len(down) * RecvUnit \in Nat
  BY <1>2, <1>3
<1>5. /\ down' \in Seq(Reply) /\ Len(down') \in Nat /\ Len(down') <= Down
      /\ Len(down) <= Len(down') /\ arrived' <= Len(down') * RecvUnit
      /\ \A i \in 1..Len(down) : down'[i] = down[i]
  <2>1. CASE arrived = Len(down) * RecvUnit
    <3>1. down' = Append(down, r) /\ Len(down) < Down
      BY <1>1, <2>1
    <3>2. /\ down' \in Seq(Reply) /\ Len(down') = Len(down) + 1
          /\ \A i \in 1..Len(down) : down'[i] = down[i]
      BY <1>3, <3>1
    <3>3. (Len(down) + 1) * RecvUnit = Len(down) * RecvUnit + RecvUnit
      BY <1>2, <1>3
    <3>4. arrived' <= Len(down') * RecvUnit
      BY <1>1, <1>2, <1>4, <2>1, <3>2, <3>3
    <3> QED BY <1>3, <3>1, <3>2, <3>4, UdpAssumption
  <2>2. CASE arrived # Len(down) * RecvUnit
    BY <1>1, <1>3, <1>4, <2>2
  <2> QED BY <2>1, <2>2
<1>6. \A i \in 1..Len(msgs') : msgs'[i] \in 1..Len(down') /\ down'[msgs'[i]] # Bad
  BY <1>1, <1>3, <1>5
<1>7. arrived' \in Nat /\ rpos' \in 0..arrived'
  BY <1>1, <1>3
<1>8. ReplyOK'
  BY <1>1, <1>2, <1>5, <1>6, <1>7 DEF UdpInv, ReplyOK
<1>9. ReadOK'
  <2>1. CASE pc # "body"
    BY <1>1, <1>2, <2>1 DEF UdpInv, ReadOK
  <2>2. CASE pc = "body"
    <3>1. PICK k \in Nat : rpos = k * RecvUnit + HeadLen + more /\ down[k + 1] # Bad
      BY <2>2 DEF UdpInv, ReadOK
    <3>2. type = "tcp" /\ RecvUnit = HeadLen + BodyLen
      BY <2>2, Units DEF UdpInv, ReplyOK
    <3>3. more \in Nat /\ more < BodyLen /\ k * RecvUnit \in Nat
      BY <1>2, <2>2 DEF UdpInv, ReadOK
    <3>4. HeadLen + more \in 1..RecvUnit /\ rpos = k * RecvUnit + (HeadLen + more)
      BY <3>1, <3>2, <3>3, UdpAssumption
    <3>5. k + 1 \in 1..Len(down)
      BY <1>3, <3>4, CurrentLemma
    <3>6. down'[k + 1] # Bad /\ rpos' = k * RecvUnit' + HeadLen + more'
      BY <1>1, <1>2, <1>5, <3>1, <3>5
    <3> QED BY <1>1, <2>2, <3>6 DEF UdpInv, ReadOK
  <2> QED BY <2>1, <2>2
<1> QED BY <1>1, <1>8, <1>9 DEF UbOK

-----------------------------------------------------------------------------
(* Callbacks, events and the end of the session.                           *)

(* A datagram of the client comes to the end of the queue.                 *)
LEMMA RecvUp ==
  ASSUME UdpInv, NEW h \in Host, Recv(h)
  PROVE  QueueOK' /\ UpOK' /\ named' \in Named \cup {NoHost} /\ ups' \in 0..Up
         /\ state' \in {"RUNNING", "WAITING"}
<1>1. /\ UNCHANGED <<type, pc, batch, size, wire, taken, torn>>
      /\ ups < Up /\ ups' = ups + 1
  BY DEF Recv, peer, hist
<1>2. SendUnit \in Nat \ {0} /\ SendUnit' = SendUnit
  BY <1>1, Units DEF UdpInv
<1>3. /\ frame_list \in Seq(Datagram) /\ Len(frame_list) \in Nat
      /\ Len(frame_list) <= UDP_POOL_SIZE + 1 /\ ups \in 0..Up
      /\ batch \in Nat /\ size \in Nat
  BY DEF UdpInv, QueueOK, TaskOK
<1>4. ups' \in 0..Up
  BY <1>1, <1>3, UdpAssumption
<1>5. named' \in Named \cup {NoHost} /\ state' \in {"RUNNING", "WAITING"}
  BY DEF Recv, Wake, UdpInv, TaskOK
<1>6. /\ frame_list' \in Seq(Datagram) /\ Len(frame_list) <= Len(frame_list')
      /\ Len(frame_list') <= UDP_POOL_SIZE + 1
      /\ \A i \in 1..Len(frame_list) : frame_list'[i] = frame_list[i]
  <2>1. CASE Admit
    <3>1. frame_list' = Append(frame_list, <<ups + 1, h>>)
      BY <2>1 DEF Recv
    <3>2. ups + 1 \in 1..Up
      BY <1>1, <1>3, UdpAssumption
    <3>3. <<ups + 1, h>> \in Datagram
      BY <3>2 DEF Datagram
    <3>4. Len(frame_list) <= UDP_POOL_SIZE
      BY <2>1 DEF Admit
    <3> QED BY <1>3, <3>1, <3>3, <3>4, UdpAssumption
  <2>2. CASE ~Admit
    BY <1>3, <2>2 DEF Recv
  <2> QED BY <2>1, <2>2
<1>7. QueueOK'
  <2>1. Len(frame_list') \in Nat
    BY <1>6
  <2> QED BY <1>1, <1>2, <1>3, <1>6, <2>1 DEF UdpInv, QueueOK
<1>8. \A i \in 1..size : Part(i)' = Part(i)
  <2> TAKE i \in 1..size
  <2>1. pc = "send" /\ size < Total /\ batch <= Len(frame_list) /\ Total \in Nat
    BY <1>2, <1>3 DEF UdpInv, QueueOK, Total
  <2>2. i \in 1..Total
    BY <1>3, <2>1
  <2>3. ((i - 1) \div SendUnit) + 1 \in 1..batch
    BY <2>1, <2>2, PartLemma
  <2>4. ((i - 1) \div SendUnit) + 1 \in 1..Len(frame_list)
    BY <1>3, <2>1, <2>3
  <2> QED BY <1>2, <1>6, <2>4 DEF Part
<1>9. \A k \in Nat : InFrames(k) => InFrames(k)'
  BY <1>1, <1>2, <1>8 DEF InFrames
<1>10. UpOK'
  BY <1>1, <1>9 DEF UdpInv, UpOK
<1> QED BY <1>4, <1>5, <1>7, <1>10

(* hev_socks5_session_udp_destruct empties the queue between calls.        *)
LEMMA DestructUp ==
  ASSUME UdpInv, pc \in {"f", "y"}, Destruct
  PROVE  UdpInv'
<1>1. /\ pc' = "done" /\ state' = "RUNNING" /\ frame_list' = <<>>
      /\ UNCHANGED <<type, zero, res_f, res_b, batch, size, wire, torn, taken>>
      /\ UNCHANGED <<msgs, got, more, down, arrived, rpos, delivered, cut>>
      /\ UNCHANGED <<named, ups, eof, ctl, reset, edge>>
  BY DEF Destruct, bwd, client, peer, hist
<1>2. SendUnit' = SendUnit
  BY <1>1, Units DEF UdpInv
<1>3. batch = 0 /\ size = 0
  BY DEF UdpInv, QueueOK
<1>4. QueueOK'
  BY <1>1, <1>2, <1>3, UdpAssumption DEF UdpInv, QueueOK
<1>5. \A k \in Nat : InFrames(k) => InFrames(k)'
  BY <1>1, <1>2, <1>3 DEF InFrames
<1>6. UpOK'
  BY <1>1, <1>5 DEF UdpInv, UpOK
<1>7. {pc, pc'} \cap {"head", "rest", "body", "push", "ub"} = {}
  BY <1>1
<1>8. ReplyOK' /\ ReadOK' /\ UbOK'
  BY <1>1, <1>7, DownQuiet
<1>9. TaskOK'
  BY <1>1 DEF UdpInv, TaskOK
<1> QED BY <1>4, <1>6, <1>8, <1>9 DEF UdpInv

(* The steps of fwd_f.                                                     *)
LEMMA ForwardStep ==
  ASSUME UdpInv, Forward
  PROVE  UdpInv'
<1>1. QueueOK' /\ UpOK'
  BY ForwardUp, SendUp DEF Forward
<1>2. /\ UNCHANGED <<type, res_b, msgs, got, more, named, ups, down, arrived, rpos>>
      /\ UNCHANGED <<delivered, cut, eof, ctl, edge>>
      /\ pc \in {"f", "send"} /\ pc' \in {"send", "b"}
      /\ {pc, pc'} \cap {"head", "rest", "body", "push", "ub"} = {}
  BY DEF Forward, FSkip, FBegin, Send, SendWait, SendStop, SendReturn, Running, Stay,
         fwd, bwd, client, peer, hist
<1>3. ReplyOK' /\ ReadOK' /\ UbOK'
  BY <1>2, DownQuiet
<1>4. res_f' \in -1..1 /\ state' \in {"RUNNING", "WAITING"}
  BY DEF Forward, FSkip, FBegin, Send, SendWait, SendStop, SendReturn, Least, Stay,
         UdpInv, TaskOK
<1>5. zero' \in BOOLEAN /\ reset' \in BOOLEAN /\ torn' \in BOOLEAN
  BY DEF Forward, FSkip, FBegin, Send, SendWait, SendStop, SendReturn, Stay, hist,
         UdpInv, TaskOK
<1>6. TaskOK'
  BY <1>2, <1>4, <1>5 DEF UdpInv, TaskOK
<1> QED BY <1>1, <1>3, <1>6 DEF UdpInv

(* The steps of fwd_b.                                                     *)
LEMMA BackwardStep ==
  ASSUME UdpInv, Backward
  PROVE  UdpInv'
<1>1. /\ ReplyOK' /\ ReadOK' /\ UbOK'
      /\ pc' \in {"y", "head", "rest", "body", "push", "ub"} /\ res_b' \in -1..1
  <2>1. CASE HeadRead
    BY <2>1, HeadReadDown
  <2>2. CASE RestRead
    BY <2>2, RestReadDown
  <2>3. CASE BodyRead
    BY <2>3, BodyReadDown
  <2>4. CASE HeadNone \/ Full
    BY <2>4, WholeDown
  <2>5. CASE RecvUdp
    BY <2>5, RecvUdpDown
  <2>6. CASE BSkip \/ BBegin \/ HeadLost \/ ReadWait \/ ReadStop \/ RecvUdpNone
    BY <2>6, BackwardDown
  <2> QED BY <2>1, <2>2, <2>3, <2>4, <2>5, <2>6 DEF Backward
<1>2. /\ UNCHANGED <<type, zero, res_f, frame_list, batch, size, wire, torn, taken>>
      /\ UNCHANGED <<named, ups, eof, ctl, edge>>
      /\ pc \notin {"f", "send"}
      /\ state' \in {state, "WAITING"}
  BY DEF Backward, BSkip, BBegin, HeadRead, HeadLost, HeadNone, RestRead, BodyRead, Full,
         ReadWait, ReadStop, RecvUdp, RecvUdpNone, Running, Stay, fwd, client, peer, hist
<1>3. reset' \in BOOLEAN /\ cut' \in BOOLEAN
  BY DEF Backward, BSkip, BBegin, HeadRead, HeadLost, HeadNone, RestRead, BodyRead, Full,
         ReadWait, ReadStop, RecvUdp, RecvUdpNone, Return, RestReturn, BodyReturn, hist,
         UdpInv, TaskOK
<1>4. TaskOK'
  BY <1>1, <1>2, <1>3 DEF UdpInv, TaskOK
<1>5. taken' \in 0..Len(wire) /\ ((pc' = "send") <=> (pc = "send"))
  BY <1>1, <1>2 DEF UdpInv, QueueOK
<1>6. QueueOK' /\ UpOK'
  BY <1>2, <1>5, UpQuiet
<1> QED BY <1>1, <1>4, <1>6 DEF UdpInv

(* The time limit of a wait runs out.                                      *)
LEMMA ExpireStep ==
  ASSUME UdpInv, Expire
  PROVE  UdpInv'
<1>1. CASE pc = "f" /\ Destruct
  BY <1>1, DestructUp
<1>2. CASE /\ pc = "send" /\ SendReturn(size) /\ state' = "RUNNING"
           /\ UNCHANGED <<type, zero, res_b, bwd, client, peer, cut, wire, rpos, reset, delivered, edge>>
  <2>1. SendUnit \in Nat \ {0}
    BY Units DEF UdpInv
  <2>2. size \in 0..Total /\ wire \in Seq(Datagram \X Nat) /\ taken \in 0..Len(wire)
    BY <1>2, <2>1 DEF UdpInv, QueueOK, Total
  <2>3. ~torn => \E k \in Nat : Len(wire) = k * SendUnit + size
    BY DEF UdpInv, UpOK, InFrames
  <2>4. QueueOK' /\ UpOK'
    BY <1>2, <2>2, <2>3, SendReturnUp DEF peer
  <2>5. /\ UNCHANGED <<type, msgs, got, more, down, arrived, rpos, delivered, cut, res_b>>
        /\ pc' = "b" /\ {pc, pc'} \cap {"head", "rest", "body", "push", "ub"} = {}
    BY <1>2 DEF SendReturn, bwd, peer
  <2>6. ReplyOK' /\ ReadOK' /\ UbOK'
    BY <2>5, DownQuiet
  <2>7. res_f' \in -1..1 /\ torn' \in BOOLEAN
    BY <1>2 DEF SendReturn, UdpInv, TaskOK
  <2>8. TaskOK'
    BY <1>2, <2>5, <2>7 DEF UdpInv, TaskOK, client, peer
  <2> QED BY <2>4, <2>6, <2>8 DEF UdpInv
<1>3. CASE /\ pc \in {"rest", "body"} /\ Return(-2) /\ state' = "RUNNING"
           /\ UNCHANGED <<type, zero, res_f, fwd, client, peer, torn, wire, rpos, reset, edge>>
  <2>1. Arriving /\ rpos' = rpos /\ -2 \in Int
    BY <1>3 DEF Arriving, client, peer
  <2>2. /\ ReplyOK' /\ ReadOK' /\ UbOK' /\ cut' = TRUE
        /\ pc' \in {"y", "ub"} /\ res_b' \in -1..1
    BY <1>3, <2>1, ReturnDown
  <2>3. /\ UNCHANGED <<type, frame_list, batch, size, wire, torn, taken>>
        /\ taken \in 0..Len(wire) /\ ((pc' = "send") <=> (pc = "send"))
    BY <1>3, <2>2 DEF fwd, peer, UdpInv, QueueOK
  <2>4. QueueOK' /\ UpOK'
    BY <2>3, UpQuiet
  <2>5. TaskOK'
    BY <1>3, <2>2 DEF UdpInv, TaskOK, client, peer
  <2> QED BY <2>2, <2>4, <2>5 DEF UdpInv
<1> QED BY <1>1, <1>2, <1>3 DEF Expire

(* The steps that move no datagram.                                        *)
LEMMA QuietStep ==
  ASSUME UdpInv, \/ Yield \/ Terminate \/ Poll \/ RelayRead \/ RelayEof \/ RelayReset \/ CtlEof
                 \/ UNCHANGED vars
  PROVE  UdpInv'
<1>1. /\ UNCHANGED <<type, frame_list, batch, size, wire, torn>>
      /\ UNCHANGED <<msgs, got, more, down, arrived, rpos, delivered, cut, res_b>>
      /\ UNCHANGED <<res_f, named, ups>>
      /\ pc' = pc \/ (pc = "y" /\ pc' = "f")
  BY DEF Yield, Terminate, Poll, RelayRead, RelayEof, RelayReset, CtlEof, Session, Running,
         vars, task, fwd, bwd, client, peer, hist
<1>2. taken' \in 0..Len(wire)
  <2>1. taken \in 0..Len(wire) /\ Len(wire) \in Nat
    BY DEF UdpInv, QueueOK
  <2>2. taken' \in {taken, Len(wire)}
    BY DEF Yield, Terminate, Poll, RelayRead, RelayEof, RelayReset, CtlEof, vars, peer
  <2> QED BY <2>1, <2>2
<1>3. state' \in {state, "RUNNING", "WAITING"}
  BY DEF Yield, Terminate, Poll, Wake, RelayRead, RelayEof, RelayReset, CtlEof, Session,
         vars, task
<1>4. /\ zero' \in BOOLEAN /\ eof' \in BOOLEAN /\ reset' \in BOOLEAN /\ ctl' \in BOOLEAN
      /\ edge' \in BOOLEAN
  BY DEF Yield, Terminate, Poll, RelayRead, RelayEof, RelayReset, CtlEof, Session,
         vars, task, peer, UdpInv, TaskOK
<1>5. QueueOK' /\ UpOK'
  BY <1>1, <1>2, UpQuiet
<1>6. pc' = pc \/ {pc, pc'} \cap {"head", "rest", "body", "push", "ub"} = {}
  BY <1>1
<1>7. ReplyOK' /\ ReadOK' /\ UbOK'
  BY <1>1, <1>6, DownQuiet
<1>8. TaskOK'
  BY <1>1, <1>3, <1>4 DEF UdpInv, TaskOK
<1> QED BY <1>5, <1>7, <1>8 DEF UdpInv

(* Every step keeps the invariant.                                         *)
LEMMA UdpStep == UdpInv /\ [Next]_vars => UdpInv'
<1> SUFFICES ASSUME UdpInv, [Next]_vars PROVE UdpInv'
  OBVIOUS
<1>1. CASE Forward
  BY <1>1, ForwardStep
<1>2. CASE Backward
  BY <1>2, BackwardStep
<1>3. CASE Leave
  BY <1>3, DestructUp DEF Leave, Running
<1>4. CASE Expire
  BY <1>4, ExpireStep
<1>5. CASE Yield \/ Terminate \/ Poll \/ RelayRead \/ RelayEof \/ RelayReset \/ CtlEof \/ UNCHANGED vars
  BY <1>5, QuietStep
<1>6. ASSUME NEW h \in Host, Recv(h) PROVE UdpInv'
  <2>1. QueueOK' /\ UpOK' /\ named' \in Named \cup {NoHost} /\ ups' \in 0..Up
        /\ state' \in {"RUNNING", "WAITING"}
    BY <1>6, RecvUp
  <2>2. /\ UNCHANGED <<type, msgs, got, more, down, arrived, rpos, delivered, cut, res_b, pc>>
        /\ UNCHANGED <<zero, res_f, eof, ctl, reset, torn, edge>>
    BY <1>6 DEF Recv, bwd, peer, hist
  <2>3. ReplyOK' /\ ReadOK' /\ UbOK'
    BY <2>2, DownQuiet
  <2>4. TaskOK'
    BY <2>1, <2>2 DEF UdpInv, TaskOK
  <2> QED BY <2>1, <2>3, <2>4 DEF UdpInv
<1>7. ASSUME NEW r \in Reply, Arrive(r) PROVE UdpInv'
  <2>1. ReplyOK' /\ ReadOK' /\ UbOK'
    BY <1>7, ArriveDown
  <2>2. /\ UNCHANGED <<type, frame_list, batch, size, wire, torn, taken, pc>>
        /\ UNCHANGED <<state, zero, res_f, res_b, named, ups, eof, ctl, reset, cut>>
        /\ edge' = TRUE
    BY <1>7 DEF Arrive, Session, task, fwd, client, hist
  <2>3. taken' \in 0..Len(wire)
    BY <2>2 DEF UdpInv, QueueOK
  <2>4. QueueOK' /\ UpOK'
    BY <2>2, <2>3, UpQuiet
  <2>5. TaskOK'
    BY <2>2 DEF UdpInv, TaskOK
  <2> QED BY <2>1, <2>4, <2>5 DEF UdpInv
<1> QED BY <1>1, <1>2, <1>3, <1>4, <1>5, <1>6, <1>7 DEF Next, Task, Finished

(* UdpInv holds in every state: both streams are whole frames up to the    *)
(* call under way, wherever sendmmsg_tcp and recvmmsg_tcp stop, unless a   *)
(* call returned inside a frame.                                           *)
THEOREM UdpInvariant == Spec => []UdpInv
BY UdpInit, UdpStep, PTL DEF Spec

(* The state is typed and undefined behaviour of fwd_b needs a frame that  *)
(* was cut, or a runt: otherwise the result of recvmmsg is the number of   *)
(* messages.                                                               *)
THEOREM CountsExact == Spec => []CountExact
<1>1. UdpInv => CountExact
  <2> SUFFICES ASSUME UdpInv PROVE CountExact
    OBVIOUS
  <2>1. SendUnit \in Nat \ {0} /\ SendUnit <= UpLen
    BY Units DEF UdpInv
  <2>2. batch \in 0..num /\ size \in 0..(num * UpLen)
    <3>0. num \in Nat /\ UpLen \in Nat \ {0} /\ num * UpLen \in Nat
      BY UdpAssumption
    <3>1. CASE pc = "send"
      <4>1. batch \in 1..num /\ size \in Nat /\ size < batch * SendUnit
        BY <3>1 DEF UdpInv, QueueOK
      <4>2. batch \in Nat /\ batch <= num
        BY <3>0, <4>1
      <4>3. batch * SendUnit <= num * SendUnit
        BY <2>1, <3>0, <4>2, MulMono
      <4>4. SendUnit * num <= UpLen * num
        BY <2>1, <4>2, MulMono, UdpAssumption
      <4>5. /\ SendUnit * num = num * SendUnit /\ UpLen * num = num * UpLen
            /\ num * SendUnit \in Nat /\ batch * SendUnit \in Nat
        BY <2>1, <3>0, <4>2
      <4>6. size <= num * UpLen
        BY <3>0, <4>1, <4>3, <4>4, <4>5
      <4> QED BY <3>0, <4>1, <4>2, <4>6
    <3>2. CASE pc # "send"
      BY <3>0, <3>2 DEF UdpInv, QueueOK
    <3> QED BY <3>1, <3>2
  <2>3. got \in 0..HeadLen /\ more \in 0..(HeadLen + BodyLen)
    BY UdpAssumption DEF UdpInv, ReplyOK, ReadOK
  <2>4. TypeOK
    BY <2>2, <2>3 DEF UdpInv, TaskOK, QueueOK, ReplyOK, TypeOK
  <2> QED BY <2>4 DEF UdpInv, UbOK, CountExact
<1> QED BY <1>1, UdpInvariant, PTL

-----------------------------------------------------------------------------
(* Each direction implements DatagramChannel.                              *)

(* The place that Move gives to what had place i, when A is kept.          *)
RankIn(A, i) == Cardinality({j \in A : j <= i})

(* What Move keeps when those up to c leave or are lost, and their ranks.  *)
LEMMA KeptLemma ==
  ASSUME NEW L \in Nat, NEW c \in 0..L
  PROVE  /\ Cardinality((c + 1)..L) = L - c
         /\ \A i \in (c + 1)..L :
              i - c \in 1..(L - c) /\ RankIn((c + 1)..L, i) = i - c
<1>1. c \in Nat /\ c <= L
  OBVIOUS
<1>2. Cardinality((c + 1)..L) = L - c
  <2>1. c + 1 \in Int /\ L \in Int
    BY <1>1
  <2>2. Cardinality((c + 1)..L) = IF c + 1 > L THEN 0 ELSE L - (c + 1) + 1
    BY <2>1, FS_Interval, Zenon
  <2> QED BY <1>1, <2>2
<1>3. ASSUME NEW i \in (c + 1)..L
      PROVE  i - c \in 1..(L - c) /\ RankIn((c + 1)..L, i) = i - c
  <2>1. i \in Int /\ c + 1 <= i /\ i <= L
    BY <1>1
  <2>2. {j \in (c + 1)..L : j <= i} = (c + 1)..i
    BY <1>1, <2>1
  <2>3. Cardinality((c + 1)..i) = i - c
    <3>1. c + 1 \in Int
      BY <1>1
    <3>2. Cardinality((c + 1)..i) = IF c + 1 > i THEN 0 ELSE i - (c + 1) + 1
      BY <2>1, <3>1, FS_Interval, Zenon
    <3> QED BY <1>1, <2>1, <3>2
  <2>4. i - c \in 1..(L - c)
    BY <1>1, <2>1
  <2> QED BY <2>2, <2>3, <2>4 DEF RankIn
<1> QED BY <1>2, <1>3

(* Sequences are equal that agree at every position.                       *)
LEMMA SeqEqual ==
  ASSUME NEW S, NEW p \in Seq(S), NEW q \in Seq(S), Len(p) = Len(q),
         \A i \in 1..Len(p) : p[i] = q[i]
  PROVE  p = q
OBVIOUS

(* DatagramChannel counts as FiniteSets does.                              *)
LEMMA UpCard == \A S : UpPart!Cardinality(S) = Cardinality(S)
BY Zenon DEF UpPart!Cardinality, Cardinality

(* The elements of q after the first c have moved up, as Move says it.     *)
MovedUp(q, q1, c) ==
  /\ Len(q1) = Cardinality((c + 1)..Len(q))
  /\ \A i \in (c + 1)..Len(q) : q1[RankIn((c + 1)..Len(q), i)] = q[i]

(* That is so when q1 is the rest of q after c elements.                   *)
LEMMA MoveLemma ==
  ASSUME NEW S, NEW q \in Seq(S), NEW q1 \in Seq(S), NEW c \in 0..Len(q),
         Len(q1) = Len(q) - c, \A i \in 1..(Len(q) - c) : q1[i] = q[c + i]
  PROVE  MovedUp(q, q1, c)
<1>1. PICK L \in Nat : L = Len(q)
  OBVIOUS
<1>2. c \in Nat /\ c <= L /\ c \in 0..L
  BY <1>1
<1>3. /\ Cardinality((c + 1)..L) = L - c
      /\ \A i \in (c + 1)..L :
           i - c \in 1..(L - c) /\ RankIn((c + 1)..L, i) = i - c
  BY <1>2, KeptLemma, Zenon
<1>4. ASSUME NEW i \in (c + 1)..L PROVE q1[RankIn((c + 1)..L, i)] = q[i]
  <2>1. c + (i - c) = i
    BY <1>2
  <2>2. i - c \in 1..(L - c) /\ RankIn((c + 1)..L, i) = i - c
    BY <1>3, Zenon
  <2>3. q1[i - c] = q[c + (i - c)]
    BY <1>1, <2>2
  <2> QED BY <2>1, <2>2, <2>3
<1> QED BY <1>1, <1>3, <1>4 DEF MovedUp

(* What is neither sent nor lost.                                          *)
LEMMA RestLemma ==
  ASSUME NEW L \in Nat, NEW n \in 0..L, NEW c \in n..L
  PROVE  /\ {i \in (n + 1)..L : i \notin (n + 1)..c} = (c + 1)..L
         /\ (n + 1)..c \in SUBSET ((n + 1)..L)
<1>1. n \in Nat /\ c \in Nat /\ n <= c /\ c <= L
  OBVIOUS
<1> QED BY <1>1

(* The way to the server moves: the first n of the queue leave, those      *)
(* after them up to c are lost.                                            *)
LEMMA UpMove ==
  ASSUME NEW q, NEW q1, Len(q) \in Nat, NEW n \in 0..Len(q), NEW c \in n..Len(q),
         MovedUp(q, q1, c),
         q = SubSeq(frame_list, (size \div SendUnit) + 1, Len(frame_list)),
         q1 = SubSeq(frame_list, (size \div SendUnit) + 1, Len(frame_list))',
         Parsed' = Parsed \o SubSeq(q, 1, n), (~torn)' = ~torn
  PROVE  UpPart!Leave
<1>1. (n + 1)..c \in SUBSET ((n + 1)..Len(q))
  BY RestLemma, Zenon
<1>2. {i \in (n + 1)..Len(q) : i \notin (n + 1)..c} = (c + 1)..Len(q)
  BY RestLemma, Zenon
<1>3. /\ Len(q1) = Cardinality((c + 1)..Len(q))
      /\ \A i \in (c + 1)..Len(q) : q1[Cardinality({j \in (c + 1)..Len(q) : j <= i})] = q[i]
  BY Zenon DEF MovedUp, RankIn
<1>4. UpPart!Move(n, (n + 1)..c)
  BY <1>2, <1>3, UpCard, Zenon DEF UpPart!Move
<1> QED BY <1>1, <1>4, Zenon DEF UpPart!Leave

(* How many frames of the batch are sent.                                  *)
LEMMA WholeLemma ==
  ASSUME UdpInv
  PROVE  /\ size \div SendUnit \in Nat /\ size \div SendUnit <= Len(frame_list)
         /\ (size \div SendUnit) * SendUnit <= size
         /\ pc = "send" => size \div SendUnit < batch
         /\ pc # "send" => size \div SendUnit = 0
<1>1. SendUnit \in Nat \ {0} /\ size \in Nat /\ batch \in Nat /\ Len(frame_list) \in Nat
  BY Units DEF UdpInv, QueueOK
<1>2. PICK m \in Nat, r \in 0..(SendUnit - 1) : m = size \div SendUnit /\ size = m * SendUnit + r
  <2>1. /\ size \div SendUnit \in Nat /\ size % SendUnit \in 0..(SendUnit - 1)
        /\ size = (size \div SendUnit) * SendUnit + (size % SendUnit)
    BY <1>1, DivMod, Zenon
  <2> QED BY <2>1, Zenon
<1>3. m * SendUnit \in Nat /\ m * SendUnit <= size
  BY <1>1, <1>2
<1>4. CASE pc = "send"
  <2>1. size < batch * SendUnit /\ batch <= Len(frame_list) /\ batch * SendUnit \in Nat
    BY <1>1, <1>4 DEF UdpInv, QueueOK
  <2>2. m * SendUnit < batch * SendUnit
    BY <1>1, <1>3, <2>1
  <2>3. m < batch
    BY <1>1, <2>2, MulLess
  <2> QED BY <1>1, <1>2, <1>3, <1>4, <2>1, <2>3
<1>5. CASE pc # "send"
  <2>1. size = 0
    BY <1>5 DEF UdpInv, QueueOK
  <2>2. m * SendUnit <= 0
    BY <1>3, <2>1
  <2>3. ~(0 < m)
    <3> SUFFICES ASSUME 0 < m PROVE FALSE
      OBVIOUS
    <3>1. 0 * SendUnit + SendUnit <= m * SendUnit
      BY <1>1, MulStep
    <3>2. 0 * SendUnit = 0
      BY <1>1
    <3> QED BY <1>1, <1>3, <2>2, <3>1, <3>2
  <2>4. m = 0
    BY <2>3
  <2> QED BY <1>1, <1>2, <1>3, <1>5, <2>4
<1> QED BY <1>4, <1>5

(* The queue of the channel is what no whole frame was sent of.            *)
LEMMA UpQueue ==
  ASSUME UdpInv, NEW q, q = SubSeq(frame_list, (size \div SendUnit) + 1, Len(frame_list))
  PROVE  /\ q \in Seq(Datagram) /\ Len(q) = Len(frame_list) - (size \div SendUnit)
         /\ \A i \in 1..Len(q) : q[i] = frame_list[(size \div SendUnit) + i]
<1>1. PICK m \in 0..Len(frame_list) : m = size \div SendUnit
  <2>1. size \div SendUnit \in Nat /\ size \div SendUnit <= Len(frame_list)
    BY WholeLemma
  <2>2. Len(frame_list) \in Nat
    BY DEF UdpInv, QueueOK
  <2>3. size \div SendUnit \in 0..Len(frame_list)
    BY <2>1, <2>2
  <2> QED BY <2>3, Zenon
<1>2. frame_list \in Seq(Datagram)
  BY DEF UdpInv, QueueOK
<1>3. /\ SubSeq(frame_list, m + 1, Len(frame_list)) \in Seq(Datagram)
      /\ Len(SubSeq(frame_list, m + 1, Len(frame_list))) = Len(frame_list) - m
      /\ \A i \in 1..(Len(frame_list) - m) :
           SubSeq(frame_list, m + 1, Len(frame_list))[i] = frame_list[m + i]
  BY <1>2, DropLemma
<1> QED BY <1>1, <1>3

(* A part belongs to a frame.                                              *)
LEMMA PartAt ==
  ASSUME UdpInv, NEW x \in Nat \ {0}, NEW y \in 1..SendUnit
  PROVE  Part((x - 1) * SendUnit + y) = <<frame_list[x], y>>
<1>1. SendUnit \in Nat \ {0}
  BY Units DEF UdpInv
<1>2. x - 1 \in Nat /\ y - 1 \in 0..(SendUnit - 1) /\ (x - 1) * SendUnit \in Nat
  BY <1>1
<1>3. /\ ((x - 1) * SendUnit + (y - 1)) \div SendUnit = x - 1
      /\ ((x - 1) * SendUnit + (y - 1)) % SendUnit = y - 1
  BY <1>1, <1>2, DivUnique, Zenon
<1>4. ((x - 1) * SendUnit + y) - 1 = (x - 1) * SendUnit + (y - 1) /\ (x - 1) + 1 = x /\ (y - 1) + 1 = y
  BY <1>1, <1>2
<1> QED BY <1>3, <1>4 DEF Part

(* The datagram that the server finds in the frame i of the stream w, if   *)
(* frames have u parts.                                                    *)
ParsedOf(w, u, i) ==
  LET first == w[(i - 1) * u + 1]
  IN  IF \A k \in 1..u : w[(i - 1) * u + k] = <<first[1], k>> THEN first[1] ELSE 0

(* The stream w1 starts with w.                                            *)
Continues(w1, w) == \A i \in 1..Len(w) : w1[i] = w[i]

(* What is found depends on the parts of that frame only.                  *)
LEMMA ParsedSame ==
  ASSUME NEW w, NEW w1, NEW u \in Nat \ {0}, NEW i \in Nat \ {0}, Len(w) \in Nat, i * u <= Len(w),
         Continues(w1, w)
  PROVE  ParsedOf(w1, u, i) = ParsedOf(w, u, i)
<1>1. PICK b \in Nat : b = (i - 1) * u /\ b + u = i * u
  <2>1. (i - 1) * u \in Nat /\ (i - 1) * u + u = i * u
    OBVIOUS
  <2> QED BY <2>1
<1>2. \A k \in 1..u : b + k \in 1..Len(w)
  BY <1>1
<1>3. \A k \in 1..u : w1[b + k] = w[b + k]
  BY <1>2 DEF Continues
<1>4. 1 \in 1..u
  OBVIOUS
<1>5. w1[b + 1] = w[b + 1]
  BY <1>3, <1>4
<1> QED BY <1>1, <1>3, <1>5 DEF ParsedOf

(* The parts of the frame i belong to the datagram d.                      *)
FrameAt(w, u, i, d) == \A k \in 1..u : w[(i - 1) * u + k] = <<d, k>>

(* A frame whose parts belong together is found.                           *)
LEMMA ParsedNew ==
  ASSUME NEW w, NEW u \in Nat \ {0}, NEW i \in Nat \ {0}, NEW d, FrameAt(w, u, i, d)
  PROVE  ParsedOf(w, u, i) = d
<1>1. 1 \in 1..u
  OBVIOUS
<1>2. w[(i - 1) * u + 1] = <<d, 1>>
  BY <1>1 DEF FrameAt
<1> QED BY <1>2 DEF ParsedOf, FrameAt

(* What is found is a datagram, or 0.                                      *)
LEMMA ParsedType ==
  ASSUME NEW w \in Seq(Datagram \X Nat), NEW u \in Nat \ {0}, NEW i \in Nat \ {0}, i * u <= Len(w)
  PROVE  ParsedOf(w, u, i) \in Datagram \cup {0}
<1>1. PICK b \in Nat : b = (i - 1) * u /\ b + u = i * u
  <2>1. (i - 1) * u \in Nat /\ (i - 1) * u + u = i * u
    OBVIOUS
  <2> QED BY <2>1
<1>2. b + 1 \in 1..Len(w)
  BY <1>1
<1>3. w[b + 1] \in Datagram \X Nat
  BY <1>2
<1>4. w[b + 1][1] \in Datagram
  BY <1>3
<1> QED BY <1>1, <1>4 DEF ParsedOf

(* The first N frames of a stream.                                         *)
LEMMA ParsedTypes ==
  ASSUME NEW w \in Seq(Datagram \X Nat), NEW u \in Nat \ {0}, NEW N \in Nat, N * u <= Len(w)
  PROVE  \A i \in 1..N : i * u <= Len(w) /\ ParsedOf(w, u, i) \in Datagram \cup {0}
<1> TAKE i \in 1..N
<1>1. i \in Nat \ {0} /\ i <= N /\ N * u \in Nat /\ i * u \in Nat /\ Len(w) \in Nat
  OBVIOUS
<1>2. i * u <= N * u
  BY <1>1, MulMono
<1>3. i * u \in Int /\ N * u \in Int /\ Len(w) \in Int
  BY <1>1
<1>4. i * u <= Len(w)
  BY <1>2, <1>3, LeqTrans, Zenon
<1> QED BY <1>1, <1>4, ParsedType

(* The datagrams found in the first N frames of a stream.                  *)
ParsedSeqOf(w, u, N) == [i \in 1..N |-> ParsedOf(w, u, i)]

(* p is what is found in the first N frames of w.                          *)
ParsedAs(p, w, u, N) ==
  /\ p \in Seq(Datagram \cup {0}) /\ Len(p) = N
  /\ \A i \in 1..N : p[i] = ParsedOf(w, u, i)

(* They are a sequence.                                                    *)
LEMMA ParsedSeq ==
  ASSUME NEW w \in Seq(Datagram \X Nat), NEW u \in Nat \ {0}, NEW N \in Nat, N * u <= Len(w)
  PROVE  ParsedAs(ParsedSeqOf(w, u, N), w, u, N)
<1>1. \A i \in 1..N : ParsedOf(w, u, i) \in Datagram \cup {0}
  BY ParsedTypes, Zenon
<1> QED BY <1>1 DEF ParsedAs, ParsedSeqOf

(* How many frames a stream has.                                           *)
LEMMA CountLemma ==
  ASSUME NEW u \in Nat \ {0}, NEW k \in Nat, NEW z \in Nat
  PROVE  /\ (k * u + z) \div u = k + (z \div u)
         /\ z \div u \in Nat /\ (z \div u) * u <= z /\ z < ((z \div u) + 1) * u
         /\ (k + (z \div u)) * u = k * u + (z \div u) * u
         /\ (k + (z \div u)) * u <= k * u + z
<1>1. PICK m \in Nat, r \in 0..(u - 1) : m = z \div u /\ z = m * u + r
  <2>1. z \div u \in Nat /\ z % u \in 0..(u - 1) /\ z = (z \div u) * u + (z % u)
    BY DivMod, Zenon
  <2> QED BY <2>1, Zenon
<1>2. k + m \in Nat /\ (k + m) * u = k * u + m * u /\ k * u \in Nat /\ m * u \in Nat
  OBVIOUS
<1>3. ((k + m) * u + r) \div u = k + m
  BY <1>2, DivUnique
<1>4. k * u + z = (k + m) * u + r
  BY <1>1, <1>2
<1>5. m * u <= z /\ (k + m) * u <= k * u + z
  BY <1>1, <1>2
<1>6. (m + 1) * u = m * u + u
  OBVIOUS
<1>7. z < (m + 1) * u
  BY <1>1, <1>2, <1>6
<1> QED BY <1>1, <1>2, <1>3, <1>4, <1>5, <1>7

(* The sequence r is p followed by q.                                      *)
Joined(r, p, q) ==
  /\ Len(r) = Len(p) + Len(q)
  /\ \A i \in 1..Len(p) : r[i] = p[i]
  /\ \A i \in 1..Len(q) : r[Len(p) + i] = q[i]

(* So is the concatenation.                                                *)
LEMMA JoinLemma ==
  ASSUME NEW S, NEW p \in Seq(S), NEW q \in Seq(S)
  PROVE  p \o q \in Seq(S) /\ Joined(p \o q, p, q)
BY ConcatLemma DEF Joined

(* The same datagrams are found in the first N frames of w and of w1.      *)
SameFrames(w1, w, u, N) == \A i \in 1..N : ParsedOf(w1, u, i) = ParsedOf(w, u, i)

(* That is so when w1 continues w.                                         *)
LEMMA ParsedSames ==
  ASSUME NEW w \in Seq(Datagram \X Nat), NEW u \in Nat \ {0}, NEW N \in Nat, N * u <= Len(w),
         NEW w1, Continues(w1, w)
  PROVE  SameFrames(w1, w, u, N)
<1>1. ASSUME NEW i \in 1..N PROVE ParsedOf(w1, u, i) = ParsedOf(w, u, i)
  <2>1. i \in Nat \ {0} /\ Len(w) \in Nat
    OBVIOUS
  <2>2. i * u <= Len(w)
    BY ParsedTypes, Zenon
  <2> QED BY <2>1, <2>2, ParsedSame
<1> QED BY <1>1 DEF SameFrames

(* The frames of w1 after the first k are the first t of f.                *)
FramesIn(w1, u, k, f, t) == \A x \in 1..t : FrameAt(w1, u, k + x, f[x])

(* The datagrams m + 1..t of f were added to those found.                  *)
Grown(p1, p, f, m, t) == p1 = p \o SubSeq(f, m + 1, t)

(* Frames that were added whole to a stream are found, after the others.   *)
LEMMA ParsedGrow ==
  ASSUME NEW u \in Nat \ {0}, NEW k \in Nat, NEW m \in Nat, NEW t \in Nat, m <= t,
         NEW f \in Seq(Datagram), t <= Len(f),
         NEW w \in Seq(Datagram \X Nat), (k + m) * u <= Len(w), NEW w1, Continues(w1, w),
         NEW p, ParsedAs(p, w, u, k + m), NEW p1, ParsedAs(p1, w1, u, k + t),
         FramesIn(w1, u, k, f, t)
  PROVE  Grown(p1, p, f, m, t)
<1> PICK T : T = Datagram \cup {0}
  OBVIOUS
<1>a. /\ p \in Seq(T) /\ Len(p) = k + m /\ p1 \in Seq(T) /\ Len(p1) = k + t
      /\ \A i \in 1..(k + m) : p[i] = ParsedOf(w, u, i)
      /\ \A i \in 1..(k + t) : p1[i] = ParsedOf(w1, u, i)
  BY Zenon DEF ParsedAs
<1>b. \A i \in 1..(k + m) : ParsedOf(w1, u, i) = ParsedOf(w, u, i)
  <2>1. k + m \in Nat
    OBVIOUS
  <2>2. SameFrames(w1, w, u, k + m)
    BY <2>1, ParsedSames, Zenon
  <2> QED BY <2>2, Zenon DEF SameFrames
<1>1. PICK g : g = SubSeq(f, m + 1, t)
  OBVIOUS
<1>2. g \in Seq(Datagram) /\ Len(g) = t - m /\ \A x \in 1..(t - m) : g[x] = f[m + x]
  <2>1. CASE m = t
    BY <1>1, <2>1
  <2>2. CASE m < t
    BY <1>1, <2>2
  <2> QED BY <2>1, <2>2
<1>3. g \in Seq(T)
  <2>1. Datagram \subseteq T
    OBVIOUS
  <2> QED BY <1>2, <2>1
<1>4. /\ p \o g \in Seq(T) /\ Len(p \o g) = Len(p) + Len(g)
      /\ \A i \in 1..Len(p) : (p \o g)[i] = p[i]
      /\ \A i \in 1..Len(g) : (p \o g)[Len(p) + i] = g[i]
  <2>1. p \o g \in Seq(T) /\ Joined(p \o g, p, g)
    BY <1>a, <1>3, JoinLemma, Zenon
  <2> QED BY <2>1, Zenon DEF Joined
<1>5. ASSUME NEW i \in 1..(k + m) PROVE p1[i] = p[i]
  <2>1. i \in 1..(k + t)
    OBVIOUS
  <2> QED BY <1>a, <1>b, <2>1, Zenon
<1>6. ASSUME NEW x \in 1..(t - m) PROVE p1[(k + m) + x] = g[x]
  <2>1. m + x \in 1..t /\ k + (m + x) \in Nat \ {0} /\ k + (m + x) \in 1..(k + t)
        /\ k + (m + x) = (k + m) + x
    OBVIOUS
  <2>2. FrameAt(w1, u, k + (m + x), f[m + x])
    BY <2>1, Zenon DEF FramesIn
  <2>3. ParsedOf(w1, u, k + (m + x)) = f[m + x]
    BY <2>1, <2>2, ParsedNew, Zenon
  <2>4. p1[k + (m + x)] = f[m + x]
    BY <1>a, <2>1, <2>3, Zenon
  <2> QED BY <1>2, <2>1, <2>4, Zenon
<1>7. Len(p1) = Len(p \o g)
  BY <1>a, <1>2, <1>4
<1>8. \A i \in 1..Len(p1) : p1[i] = (p \o g)[i]
  <2> TAKE i \in 1..Len(p1)
  <2>1. CASE i <= k + m
    <3>1. i \in 1..(k + m) /\ i \in 1..Len(p)
      BY <1>a, <2>1
    <3> QED BY <1>4, <1>5, <3>1, Zenon
  <2>2. CASE i > k + m
    <3>1. PICK x \in 1..(t - m) : i = (k + m) + x
      <4>1. i - (k + m) \in 1..(t - m) /\ i = (k + m) + (i - (k + m))
        BY <1>a, <2>2
      <4> QED BY <4>1, Zenon
    <3>2. x \in 1..Len(g)
      BY <1>2
    <3>3. (p \o g)[Len(p) + x] = g[x]
      BY <1>4, <3>2, Zenon
    <3> QED BY <1>a, <1>6, <3>1, <3>3, Zenon
  <2>3. i <= k + m \/ i > k + m
    BY <1>a
  <2> QED BY <2>1, <2>2, <2>3, Zenon
<1>9. p1 = p \o g
  BY <1>a, <1>4, <1>7, <1>8, SeqEqual, Zenon
<1> QED BY <1>1, <1>9, Zenon DEF Grown

(* A slice of a sequence.                                                  *)
LEMMA SliceLemma ==
  ASSUME NEW S, NEW f \in Seq(S), NEW m \in 0..Len(f), NEW n \in m..Len(f)
  PROVE  /\ SubSeq(f, m + 1, n) \in Seq(S) /\ Len(SubSeq(f, m + 1, n)) = n - m
         /\ \A i \in 1..(n - m) : SubSeq(f, m + 1, n)[i] = f[m + i]
<1>1. m \in Nat /\ n \in Nat /\ m <= n /\ n <= Len(f) /\ Len(f) \in Nat
  OBVIOUS
<1>2. CASE m = n
  BY <1>1, <1>2
<1>3. CASE m < n
  BY <1>1, <1>3
<1> QED BY <1>1, <1>2, <1>3

(* q1 is what follows the first c elements of f.                           *)
RestOf(q1, f, c) ==
  Len(q1) = Len(f) - c /\ \A i \in 1..(Len(f) - c) : q1[i] = f[c + i]

(* What leaves q first is a slice of f.                                    *)
HeadIs(q, k, f, m, n) == SubSeq(q, 1, k) = SubSeq(f, m + 1, n)

(* The rest of f after m elements becomes the rest after c of them.        *)
LEMMA DropMoves ==
  ASSUME NEW S, NEW f \in Seq(S), NEW m \in 0..Len(f), NEW c \in m..Len(f), NEW n \in m..c,
         NEW q1 \in Seq(S), RestOf(q1, f, c), NEW q, q = SubSeq(f, m + 1, Len(f))
  PROVE  /\ Len(q) \in Nat /\ n - m \in 0..Len(q) /\ c - m \in (n - m)..Len(q)
         /\ MovedUp(q, q1, c - m) /\ HeadIs(q, n - m, f, m, n)
<1>1. /\ m \in Nat /\ c \in Nat /\ n \in Nat /\ Len(f) \in Nat
      /\ m <= n /\ n <= c /\ c <= Len(f)
  OBVIOUS
<1>2. q \in Seq(S) /\ Len(q) = Len(f) - m /\ \A i \in 1..(Len(f) - m) : q[i] = f[m + i]
  BY DropLemma
<1>3. /\ Len(q) \in Nat /\ n - m \in 0..Len(q) /\ c - m \in (n - m)..Len(q)
      /\ c - m \in 0..Len(q)
  BY <1>1, <1>2
<1>4. Len(q1) = Len(q) - (c - m)
  BY <1>1, <1>2 DEF RestOf
<1>5. ASSUME NEW i \in 1..(Len(q) - (c - m)) PROVE q1[i] = q[(c - m) + i]
  <2>1. i \in 1..(Len(f) - c) /\ (c - m) + i \in 1..(Len(f) - m) /\ m + ((c - m) + i) = c + i
    BY <1>1, <1>2
  <2> QED BY <1>2, <2>1 DEF RestOf
<1>6. MovedUp(q, q1, c - m)
  BY <1>2, <1>3, <1>4, <1>5, MoveLemma, Zenon
<1>7. SubSeq(q, 1, n - m) = SubSeq(f, m + 1, n)
  <2>1. /\ SubSeq(q, 1, n - m) \in Seq(S) /\ Len(SubSeq(q, 1, n - m)) = n - m
        /\ \A i \in 1..(n - m) : SubSeq(q, 1, n - m)[i] = q[i]
    BY <1>1, <1>2
  <2>2. /\ SubSeq(f, m + 1, n) \in Seq(S) /\ Len(SubSeq(f, m + 1, n)) = n - m
        /\ \A i \in 1..(n - m) : SubSeq(f, m + 1, n)[i] = f[m + i]
    <3>1. n \in m..Len(f)
      BY <1>1
    <3> QED BY <3>1, SliceLemma
  <2>3. \A i \in 1..(n - m) : q[i] = f[m + i]
    BY <1>1, <1>2
  <2> QED BY <2>1, <2>2, <2>3, SeqEqual
<1> QED BY <1>3, <1>6, <1>7 DEF HeadIs

(* The same of the queue towards the server: the frames up to n were sent, *)
(* and those after them up to c were dropped.                              *)
LEMMA UpLeave ==
  ASSUME NEW f \in Seq(Datagram), NEW m \in 0..Len(f), NEW c \in m..Len(f), NEW n \in m..c,
         NEW q1 \in Seq(Datagram), RestOf(q1, f, c),
         f = frame_list, m = size \div SendUnit,
         q1 = SubSeq(frame_list, (size \div SendUnit) + 1, Len(frame_list))',
         Parsed' = Parsed \o SubSeq(f, m + 1, n), (~torn)' = ~torn
  PROVE  UpPart!Leave
<1>1. PICK q : q = SubSeq(f, m + 1, Len(f))
  OBVIOUS
<1>2. /\ Len(q) \in Nat /\ n - m \in 0..Len(q) /\ c - m \in (n - m)..Len(q)
      /\ MovedUp(q, q1, c - m) /\ HeadIs(q, n - m, f, m, n)
  BY <1>1, DropMoves, Zenon
<1>3. SubSeq(q, 1, n - m) = SubSeq(f, m + 1, n)
  BY <1>2, Zenon DEF HeadIs
<1>4. q = SubSeq(frame_list, (size \div SendUnit) + 1, Len(frame_list))
  BY <1>1, Zenon
<1>5. Parsed' = Parsed \o SubSeq(q, 1, n - m)
  BY <1>3, Zenon
<1> QED BY <1>2, <1>4, <1>5, UpMove, Zenon

(* The first t frames of the batch are in the stream.                      *)
LEMMA FrameLemma ==
  ASSUME UdpInv, NEW k \in Nat, NEW z \in Nat, NEW t \in Nat, t * SendUnit <= z,
         NEW w, \A i \in 1..z : w[k * SendUnit + i] = Part(i),
         NEW x \in 1..t
  PROVE  FrameAt(w, SendUnit, k + x, frame_list[x])
<1>1. PICK u \in Nat \ {0} : u = SendUnit
  BY Units DEF UdpInv
<1>2. x \in Nat \ {0} /\ x - 1 \in Nat /\ x <= t /\ k * u \in Nat
  BY <1>1
<1>3. PICK b \in Nat : b = (x - 1) * u /\ b + u = x * u
  <2>1. (x - 1) * u \in Nat /\ (x - 1) * u + u = x * u
    BY <1>2
  <2> QED BY <2>1, Zenon
<1>4. ((k + x) - 1) * u = k * u + b
  <2>1. (k + x) - 1 = k + (x - 1) /\ (k + (x - 1)) * u = k * u + (x - 1) * u
    BY <1>2
  <2> QED BY <1>3, <2>1, Zenon
<1>5. b + u <= z
  <2>1. x * u <= t * u /\ x * u \in Int /\ t * u \in Int
    BY <1>2, MulMono
  <2>2. z \in Int /\ t * u <= z
    BY <1>1
  <2> QED BY <1>3, <2>1, <2>2, LeqTrans, Zenon
<1>6. ASSUME NEW y \in 1..u PROVE w[((k + x) - 1) * u + y] = <<frame_list[x], y>>
  <2>1. b + y \in 1..z /\ (k * u + b) + y = k * u + (b + y)
    BY <1>2, <1>3, <1>5
  <2>2. w[k * u + (b + y)] = Part(b + y)
    BY <1>1, <2>1, Zenon
  <2>3. Part((x - 1) * SendUnit + y) = <<frame_list[x], y>>
    BY <1>1, <1>2, PartAt, Zenon
  <2>4. Part((x - 1) * u + y) = <<frame_list[x], y>>
    BY <1>1, <2>3, Zenon
  <2> QED BY <1>3, <1>4, <2>1, <2>2, <2>4, Zenon
<1> QED BY <1>1, <1>6, Zenon DEF FrameAt

(* More parts have no fewer frames, and at most B of them.                 *)
LEMMA CountMono ==
  ASSUME NEW u \in Nat \ {0}, NEW z \in Nat, NEW z1 \in Nat, z <= z1, NEW B \in Nat, z1 <= B * u
  PROVE  /\ z1 \div u \in Nat /\ z \div u \in Nat
         /\ z \div u <= z1 \div u /\ z1 \div u <= B
<1>1. PICK m \in Nat : m = z \div u /\ m * u <= z
  BY CountLemma
<1>2. PICK t \in Nat : t = z1 \div u /\ t * u <= z1 /\ z1 < (t + 1) * u
  BY CountLemma
<1>3. /\ m * u \in Int /\ t * u \in Int /\ (t + 1) * u \in Int /\ B * u \in Int /\ (B + 1) * u \in Int
      /\ (B + 1) * u = B * u + u
  OBVIOUS
<1>4. m * u < (t + 1) * u
  BY <1>1, <1>2, <1>3
<1>5. m < t + 1
  BY <1>4, MulLess
<1>6. t * u < (B + 1) * u
  BY <1>2, <1>3
<1>7. t < B + 1
  BY <1>6, MulLess
<1> QED BY <1>1, <1>2, <1>5, <1>7

(* What the server finds after sendmsg took s parts.                       *)
LEMMA SendParsed ==
  ASSUME UdpInv, NEW s \in 1..SockBuf, Send(s), ~torn
  PROVE  /\ (size + s) \div SendUnit \in Nat /\ size \div SendUnit <= (size + s) \div SendUnit
         /\ (size + s) \div SendUnit <= batch
         /\ Parsed' = Parsed \o SubSeq(frame_list, (size \div SendUnit) + 1, (size + s) \div SendUnit)
<1>1. PICK u \in Nat \ {0} : u = SendUnit /\ u = SendUnit'
  BY Units DEF UdpInv, Send, Stay
<1>2. /\ pc = "send" /\ s \in Nat /\ s > 0 /\ size + s <= Total
      /\ wire' = wire \o [i \in 1..s |-> Part(size + i)]
  BY UdpAssumption DEF Send, Running
<1>3. PICK k \in Nat : InFrames(k)
  BY DEF UdpInv, UpOK
<1>4. /\ size \in Nat /\ batch \in Nat /\ batch <= Len(frame_list) /\ Len(frame_list) \in Nat
      /\ frame_list \in Seq(Datagram) /\ wire \in Seq(Datagram \X Nat) /\ Len(wire) \in Nat
  BY <1>2 DEF UdpInv, QueueOK
<1>5. /\ wire' \in Seq(Datagram \X Nat)
      /\ \A i \in 1..Len(wire) : wire'[i] = wire[i]
  BY <1>2, SendWire
<1>6. /\ Len(wire') = k * SendUnit + (size + s)
      /\ \A i \in 1..(size + s) : wire'[k * SendUnit + i] = Part(i)
  BY <1>2, <1>3, SendParts
<1>7. Len(wire) = k * u + size
  BY <1>1, <1>3 DEF InFrames
<1>8. size + s \in Nat
  BY <1>2, <1>4
<1>9. PICK m \in Nat : /\ m = size \div u /\ Len(wire) \div u = k + m /\ m * u <= size
                       /\ (k + m) * u <= Len(wire)
  <2>1. /\ (k * u + size) \div u = k + (size \div u)
        /\ size \div u \in Nat /\ (size \div u) * u <= size
        /\ (k + (size \div u)) * u <= k * u + size
    BY <1>4, CountLemma, Zenon
  <2> QED BY <1>7, <2>1, Zenon
<1>10. PICK t \in Nat : /\ t = (size + s) \div u /\ Len(wire') \div u = k + t /\ t * u <= size + s
                        /\ size + s < (t + 1) * u /\ (k + t) * u <= Len(wire')
  <2>1. /\ (k * u + (size + s)) \div u = k + ((size + s) \div u)
        /\ (size + s) \div u \in Nat /\ ((size + s) \div u) * u <= size + s
        /\ size + s < (((size + s) \div u) + 1) * u
        /\ (k + ((size + s) \div u)) * u <= k * u + (size + s)
    BY <1>8, CountLemma, Zenon
  <2> QED BY <1>1, <1>6, <2>1, Zenon
<1>11. m <= t /\ t <= batch
  <2>1. size <= size + s
    BY <1>2, <1>4
  <2>2. size + s <= batch * u
    BY <1>1, <1>2 DEF Total
  <2>3. size \div u <= (size + s) \div u /\ (size + s) \div u <= batch
    BY <1>4, <1>8, <2>1, <2>2, CountMono, Zenon
  <2> QED BY <1>9, <1>10, <2>3, Zenon
<1>12. k + m \in Nat /\ k + t \in Nat
  OBVIOUS
<1>13. PICK p : p = Parsed /\ ParsedAs(p, wire, u, k + m)
  <2>1. Parsed = ParsedSeqOf(wire, u, k + m)
    BY <1>1, <1>9 DEF Parsed, ParsedOf, ParsedSeqOf
  <2>2. ParsedAs(ParsedSeqOf(wire, u, k + m), wire, u, k + m)
    BY <1>4, <1>9, <1>12, ParsedSeq, Zenon
  <2> QED BY <2>1, <2>2, Zenon
<1>14. PICK p1 : p1 = Parsed' /\ ParsedAs(p1, wire', u, k + t)
  <2>1. Parsed' = ParsedSeqOf(wire', u, k + t)
    BY <1>1, <1>10 DEF Parsed, ParsedOf, ParsedSeqOf
  <2>2. ParsedAs(ParsedSeqOf(wire', u, k + t), wire', u, k + t)
    BY <1>5, <1>10, <1>12, ParsedSeq, Zenon
  <2> QED BY <2>1, <2>2, Zenon
<1>15. Continues(wire', wire)
  BY <1>5, Zenon DEF Continues
<1>16. FramesIn(wire', u, k, frame_list, t)
  <2>1. t * SendUnit <= size + s
    BY <1>1, <1>10, Zenon
  <2>2. ASSUME NEW x \in 1..t PROVE FrameAt(wire', SendUnit, k + x, frame_list[x])
    BY <1>6, <1>8, <2>1, FrameLemma, Zenon
  <2> QED BY <1>1, <2>2, Zenon DEF FramesIn
<1>17. t <= Len(frame_list)
  BY <1>4, <1>11
<1>18. Grown(p1, p, frame_list, m, t)
  BY <1>4, <1>9, <1>11, <1>13, <1>14, <1>15, <1>16, <1>17, ParsedGrow, Zenon
<1>19. Parsed' = Parsed \o SubSeq(frame_list, m + 1, t)
  BY <1>13, <1>14, <1>18, Zenon DEF Grown
<1> QED BY <1>1, <1>9, <1>10, <1>11, <1>19, Zenon

(* The rest of a sequence after its first n elements.                      *)
LEMMA RestIs ==
  ASSUME NEW S, NEW f \in Seq(S), NEW n \in 0..Len(f)
  PROVE  /\ SubSeq(f, n + 1, Len(f)) \in Seq(S)
         /\ RestOf(SubSeq(f, n + 1, Len(f)), f, n)
BY DropLemma DEF RestOf

(* The rest of a sequence after nothing.                                   *)
LEMMA AllLemma ==
  ASSUME NEW S, NEW f \in Seq(S)
  PROVE  SubSeq(f, 0 + 1, Len(f)) = f
OBVIOUS

(* What sendmmsg leaves in the queue.                                      *)
LEMMA SendReturnQueue ==
  ASSUME UdpInv, pc = "send", NEW n \in 1..Total, SendReturn(n), type' = type
  PROVE  \E q1 \in Seq(Datagram) :
           /\ q1 = SubSeq(frame_list, (size \div SendUnit) + 1, Len(frame_list))'
           /\ RestOf(q1, frame_list, Sent(n))
<1>1. SendUnit \in Nat \ {0} /\ SendUnit' = SendUnit
  BY Units DEF UdpInv
<1>2. frame_list \in Seq(Datagram) /\ Sent(n) \in 0..Len(frame_list)
  BY SentLemma DEF UdpInv, QueueOK
<1>3. PICK q1 : q1 = SubSeq(frame_list, Sent(n) + 1, Len(frame_list))
  OBVIOUS
<1>4. q1 \in Seq(Datagram) /\ RestOf(q1, frame_list, Sent(n))
  BY <1>2, <1>3, RestIs
<1>5. n > 0
  <2>1. Total \in Nat
    BY <1>1 DEF Total, UdpInv, QueueOK
  <2> QED BY <2>1
<1>6. frame_list' = q1 /\ size' = 0
  BY <1>3, <1>5 DEF SendReturn
<1>7. 0 \div SendUnit = 0
  BY <1>1
<1>8. SubSeq(q1, 0 + 1, Len(q1)) = q1
  BY <1>4, AllLemma
<1>9. q1 = SubSeq(frame_list', (size' \div SendUnit') + 1, Len(frame_list'))
  BY <1>1, <1>6, <1>7, <1>8
<1> QED BY <1>4, <1>9

(* sendmsg took s parts: the frames that are complete now leave.           *)
LEMMA SendLeaves ==
  ASSUME UdpInv, NEW s \in 1..SockBuf, Send(s), ~torn, ~torn'
  PROVE  UpPart!Leave
<1>1. PICK u \in Nat \ {0} : u = SendUnit /\ u = SendUnit'
  BY Units DEF UdpInv, Send, Stay
<1>2. /\ pc = "send" /\ s \in Nat /\ s > 0 /\ size + s <= Total /\ type' = type
  BY UdpAssumption DEF Send, Running, Stay
<1>3. /\ size \in Nat /\ batch \in Nat /\ batch <= Len(frame_list) /\ Len(frame_list) \in Nat
      /\ frame_list \in Seq(Datagram) /\ batch >= 1
  BY <1>2 DEF UdpInv, QueueOK
<1>4. PICK m \in Nat : m = size \div SendUnit /\ m <= Len(frame_list)
  BY WholeLemma, Zenon
<1>5. PICK t \in Nat : /\ t = (size + s) \div SendUnit /\ m <= t /\ t <= batch
                       /\ Parsed' = Parsed \o SubSeq(frame_list, m + 1, t)
  BY <1>4, SendParsed, Zenon
<1>6. m \in 0..Len(frame_list) /\ t \in m..Len(frame_list) /\ t \in m..t /\ t \in 0..Len(frame_list)
  BY <1>3, <1>4, <1>5
<1>7. \E q1 \in Seq(Datagram) :
           /\ q1 = SubSeq(frame_list, (size \div SendUnit) + 1, Len(frame_list))'
           /\ RestOf(q1, frame_list, t)
  <2>1. CASE size + s = Total
    <3>1. SendReturn(Total)
      BY <2>1 DEF Send
    <3>2. Total \in 1..Total
      BY <1>2, <1>3, <2>1
    <3>3. Total = batch * u + 0 /\ 0 \in 0..(u - 1)
      <4>1. Total = batch * u
        BY <1>1, Zenon DEF Total
      <4>2. batch * u \in Nat /\ 0 \in 0..(u - 1)
        BY <1>3
      <4> QED BY <4>1, <4>2
    <3>4. (batch * u + 0) \div u = batch
      BY <1>3, <3>3, DivUnique, Zenon
    <3>5. t = batch
      BY <1>1, <1>5, <2>1, <3>3, <3>4, Zenon
    <3>6. Sent(Total) = batch
      <4>1. type # "tcp" => Total = batch
        BY <1>3, Units DEF UdpInv, Total
      <4> QED BY <4>1 DEF Sent
    <3> QED BY <1>2, <3>1, <3>2, <3>5, <3>6, SendReturnQueue, Zenon
  <2>2. CASE size + s # Total
    <3>1. size' = size + s /\ frame_list' = frame_list
      BY <2>2 DEF Send
    <3>2. /\ SubSeq(frame_list, t + 1, Len(frame_list)) \in Seq(Datagram)
          /\ RestOf(SubSeq(frame_list, t + 1, Len(frame_list)), frame_list, t)
      BY <1>3, <1>6, RestIs, Zenon
    <3>3. SubSeq(frame_list, t + 1, Len(frame_list))
            = SubSeq(frame_list', (size' \div SendUnit') + 1, Len(frame_list'))
      BY <1>1, <1>5, <3>1
    <3> QED BY <3>2, <3>3, Zenon
  <2> QED BY <2>1, <2>2
<1>8. PICK q1 \in Seq(Datagram) :
           /\ q1 = SubSeq(frame_list, (size \div SendUnit) + 1, Len(frame_list))'
           /\ RestOf(q1, frame_list, t)
  BY <1>7
<1>9. (~torn)' = ~torn
  OBVIOUS
<1> QED BY <1>3, <1>4, <1>5, <1>6, <1>8, <1>9, UpLeave, Zenon

(* Nothing more is found when nothing was sent.                            *)
LEMMA ParsedQuiet ==
  ASSUME UdpInv, UNCHANGED <<type, wire>>, NEW f \in Seq(Datagram), NEW m \in Nat
  PROVE  Parsed' = Parsed /\ Parsed' = Parsed \o SubSeq(f, m + 1, m)
<1>1. PICK u \in Nat \ {0} : u = SendUnit /\ u = SendUnit'
  BY Units DEF UdpInv
<1>2. wire \in Seq(Datagram \X Nat) /\ Len(wire) \in Nat
  BY DEF UdpInv, QueueOK
<1>3. PICK N \in Nat : N = Len(wire) \div u /\ N * u <= Len(wire)
  <2>1. Len(wire) \div u \in Nat /\ (Len(wire) \div u) * u <= Len(wire)
    <3>1. 0 \in Nat
      OBVIOUS
    <3> QED BY <1>2, <3>1, CountLemma, Zenon
  <2> QED BY <2>1, Zenon
<1>4. Parsed = ParsedSeqOf(wire, u, N) /\ Parsed' = ParsedSeqOf(wire, u, N)
  BY <1>1, <1>3 DEF Parsed, ParsedOf, ParsedSeqOf
<1>5. ParsedAs(ParsedSeqOf(wire, u, N), wire, u, N)
  BY <1>2, <1>3, ParsedSeq, Zenon
<1>6. PICK p \in Seq(Datagram \cup {0}) : p = Parsed /\ p = Parsed'
  BY <1>4, <1>5, Zenon DEF ParsedAs
<1>7. SubSeq(f, m + 1, m) = <<>>
  OBVIOUS
<1>8. p \o <<>> = p
  OBVIOUS
<1> QED BY <1>6, <1>7, <1>8

(* sendmmsg ends early: what it counts as sent and did not send is lost.   *)
LEMMA StopLeaves ==
  ASSUME UdpInv, pc = "send", SendReturn(size), UNCHANGED <<type, wire>>, ~torn, ~torn'
  PROVE  UpPart!Leave \/ UNCHANGED UpPart!vars
<1>1. PICK u \in Nat \ {0} : u = SendUnit /\ u = SendUnit'
  BY Units DEF UdpInv
<1>2. /\ size \in Nat /\ batch \in Nat /\ batch <= Len(frame_list) /\ Len(frame_list) \in Nat
      /\ frame_list \in Seq(Datagram) /\ size < Total
  BY DEF UdpInv, QueueOK, Total
<1>3. PICK m \in Nat : m = size \div SendUnit /\ m <= Len(frame_list) /\ m < batch
  BY WholeLemma, Zenon
<1>4. Parsed' = Parsed /\ Parsed' = Parsed \o SubSeq(frame_list, m + 1, m)
  BY <1>2, ParsedQuiet, Zenon
<1>5. (~torn)' = ~torn
  OBVIOUS
<1>6. CASE size = 0
  <2>1. frame_list' = frame_list /\ size' = size
    BY <1>6 DEF SendReturn
  <2>2. SubSeq(frame_list, (size \div SendUnit) + 1, Len(frame_list))'
          = SubSeq(frame_list, (size \div SendUnit) + 1, Len(frame_list))
    BY <1>1, <2>1
  <2> QED BY <1>4, <1>5, <2>2, Zenon DEF UpPart!vars
<1>7. CASE size # 0
  <2>1. size \in 1..Total
    <3>1. SendUnit \in Nat
      BY <1>1
    <3>2. Total \in Nat
      BY <1>2, <3>1 DEF Total
    <3> QED BY <1>2, <1>7, <3>2
  <2>2. PICK c : c = Sent(size)
    OBVIOUS
  <2>3. c \in 1..batch /\ (type = "tcp" => c = batch) /\ (type # "tcp" => c = size)
    BY <2>1, <2>2, SentLemma, Zenon
  <2>4. m <= c
    <3>1. CASE type = "tcp"
      BY <1>2, <1>3, <2>3, <3>1
    <3>2. CASE type # "tcp"
      <4>1. SendUnit = 1
        BY <3>2, Units DEF UdpInv
      <4> QED BY <1>2, <1>3, <2>3, <3>2, <4>1
    <3> QED BY <3>1, <3>2
  <2>5. m \in 0..Len(frame_list) /\ c \in m..Len(frame_list) /\ m \in m..c
    BY <1>2, <1>3, <2>3, <2>4
  <2>6. PICK q1 \in Seq(Datagram) :
           /\ q1 = SubSeq(frame_list, (size \div SendUnit) + 1, Len(frame_list))'
           /\ RestOf(q1, frame_list, c)
    BY <2>1, <2>2, SendReturnQueue, Zenon
  <2> QED BY <1>2, <1>3, <1>4, <1>5, <2>5, <2>6, UpLeave, Zenon
<1> QED BY <1>6, <1>7

(* hev_socks5_session_udp_destruct loses the queue.                        *)
LEMMA DestructLeaves ==
  ASSUME UdpInv, pc \in {"f", "y"}, Destruct
  PROVE  UpPart!Leave
<1>1. /\ frame_list' = <<>> /\ UNCHANGED <<type, size, wire, torn>>
  BY DEF Destruct, hist
<1>2. frame_list \in Seq(Datagram) /\ Len(frame_list) \in Nat /\ size = 0
  BY DEF UdpInv, QueueOK
<1>3. 0 = size \div SendUnit
  BY WholeLemma, Zenon
<1>4. 0 \in Nat /\ 0 \in 0..Len(frame_list) /\ Len(frame_list) \in 0..Len(frame_list)
  BY <1>2
<1>5. Parsed' = Parsed \o SubSeq(frame_list, 0 + 1, 0)
  BY <1>1, <1>2, <1>4, ParsedQuiet, Zenon
<1>6. (~torn)' = ~torn
  BY <1>1
<1>7. PICK q1 : q1 = SubSeq(frame_list, (size \div SendUnit) + 1, Len(frame_list))'
  OBVIOUS
<1>8. q1 = <<>>
  <2>1. SendUnit' = SendUnit
    BY <1>1, Units DEF UdpInv
  <2>2. q1 = SubSeq(<<>>, 0 + 1, Len(<<>>))
    BY <1>1, <1>3, <1>7, <2>1
  <2> QED BY <2>2
<1>9. q1 \in Seq(Datagram) /\ RestOf(q1, frame_list, Len(frame_list))
  BY <1>2, <1>8 DEF RestOf
<1> QED BY <1>2, <1>3, <1>4, <1>5, <1>6, <1>7, <1>9, UpLeave, Zenon

(* The rest of a sequence that was extended.                               *)
LEMMA DropAppend ==
  ASSUME NEW S, NEW f \in Seq(S), NEW d \in S, NEW n \in 0..Len(f),
         NEW f1, f1 = Append(f, d)
  PROVE  SubSeq(f1, n + 1, Len(f1)) = Append(SubSeq(f, n + 1, Len(f)), d)
<1>1. /\ f1 \in Seq(S) /\ Len(f1) = Len(f) + 1 /\ f1[Len(f) + 1] = d
      /\ \A i \in 1..Len(f) : f1[i] = f[i]
  OBVIOUS
<1>2. n \in 0..Len(f1) /\ Len(f) \in Nat /\ n \in Nat /\ n <= Len(f)
  BY <1>1
<1>3. PICK a : a = SubSeq(f1, n + 1, Len(f1))
  OBVIOUS
<1>4. a \in Seq(S) /\ Len(a) = Len(f1) - n /\ \A i \in 1..(Len(f1) - n) : a[i] = f1[n + i]
  BY <1>1, <1>2, <1>3, DropLemma
<1>5. PICK b : b = SubSeq(f, n + 1, Len(f))
  OBVIOUS
<1>6. b \in Seq(S) /\ Len(b) = Len(f) - n /\ \A i \in 1..(Len(f) - n) : b[i] = f[n + i]
  BY <1>5, DropLemma
<1>7. PICK c : c = Append(b, d)
  OBVIOUS
<1>8. /\ c \in Seq(S) /\ Len(c) = Len(b) + 1 /\ c[Len(b) + 1] = d
      /\ \A i \in 1..Len(b) : c[i] = b[i]
  BY <1>6, <1>7
<1>9. Len(a) = Len(c)
  BY <1>1, <1>2, <1>4, <1>6, <1>8
<1>10. ASSUME NEW i \in 1..Len(a) PROVE a[i] = c[i]
  <2>1. i \in 1..(Len(f1) - n) /\ i \in 1..((Len(f) - n) + 1)
    BY <1>1, <1>2, <1>4
  <2>2. CASE i = (Len(f) - n) + 1
    <3>1. n + i = Len(f) + 1
      BY <1>2, <2>2
    <3> QED BY <1>1, <1>4, <1>6, <1>8, <2>1, <2>2, <3>1
  <2>3. CASE i \in 1..(Len(f) - n)
    <3>1. n + i \in 1..Len(f)
      BY <1>2, <2>3
    <3> QED BY <1>1, <1>4, <1>6, <1>8, <2>1, <2>3, <3>1
  <2> QED BY <1>2, <2>1, <2>2, <2>3
<1>11. a = c
  BY <1>4, <1>8, <1>9, <1>10, SeqEqual
<1> QED BY <1>3, <1>5, <1>7, <1>11

(* udp_recv_handler puts a datagram into the channel or drops it.          *)
LEMMA RecvPuts ==
  ASSUME UdpInv, NEW h \in Host, Recv(h)
  PROVE  UpPart!Put \/ UNCHANGED UpPart!vars
<1>1. UNCHANGED <<type, size, wire, torn>> /\ ups < Up
  BY DEF Recv, hist
<1>2. SendUnit' = SendUnit
  BY <1>1, Units DEF UdpInv
<1>3. frame_list \in Seq(Datagram) /\ Len(frame_list) \in Nat /\ ups \in 0..Up
  BY DEF UdpInv, QueueOK, TaskOK
<1>4. Parsed' = Parsed /\ (~torn)' = ~torn
  <2>1. 0 \in Nat
    OBVIOUS
  <2> QED BY <1>1, <1>3, <2>1, ParsedQuiet
<1>5. CASE ~Admit
  <2>1. frame_list' = frame_list
    BY <1>5 DEF Recv
  <2>2. SubSeq(frame_list, (size \div SendUnit) + 1, Len(frame_list))'
          = SubSeq(frame_list, (size \div SendUnit) + 1, Len(frame_list))
    BY <1>1, <1>2, <2>1
  <2> QED BY <1>4, <2>2, Zenon DEF UpPart!vars
<1>6. CASE Admit
  <2>1. PICK d : d = <<ups + 1, h>>
    OBVIOUS
  <2>2. frame_list' = Append(frame_list, d) /\ Len(frame_list) <= UDP_POOL_SIZE
    BY <1>6, <2>1 DEF Recv, Admit
  <2>3. d \in Datagram
    <3>1. ups + 1 \in 1..Up
      BY <1>1, <1>3, UdpAssumption
    <3> QED BY <2>1, <3>1 DEF Datagram
  <2>4. PICK m \in 0..Len(frame_list) : m = size \div SendUnit
    <3>1. size \div SendUnit \in Nat /\ size \div SendUnit <= Len(frame_list)
      BY WholeLemma, Zenon
    <3>2. size \div SendUnit \in 0..Len(frame_list)
      BY <1>3, <3>1
    <3> QED BY <3>2, Zenon
  <2>5. SubSeq(frame_list', m + 1, Len(frame_list'))
          = Append(SubSeq(frame_list, m + 1, Len(frame_list)), d)
    BY <1>3, <2>2, <2>3, DropAppend, Zenon
  <2>6. SubSeq(frame_list, (size \div SendUnit) + 1, Len(frame_list))'
          = Append(SubSeq(frame_list, (size \div SendUnit) + 1, Len(frame_list)), d)
    BY <1>1, <1>2, <2>4, <2>5, Zenon
  <2>7. Len(SubSeq(frame_list, (size \div SendUnit) + 1, Len(frame_list))) < UDP_POOL_SIZE + 1
    <3>1. PICK q : q = SubSeq(frame_list, (size \div SendUnit) + 1, Len(frame_list))
      OBVIOUS
    <3>2. Len(q) = Len(frame_list) - (size \div SendUnit)
      BY <3>1, UpQueue, Zenon
    <3>3. Len(q) = Len(frame_list) - m
      BY <2>4, <3>2, Zenon
    <3>4. Len(q) < UDP_POOL_SIZE + 1
      BY <1>3, <2>2, <2>4, <3>3, UdpAssumption
    <3> QED BY <3>1, <3>4, Zenon
  <2> QED BY <1>4, <2>3, <2>6, <2>7, Zenon DEF UpPart!Put
<1> QED BY <1>5, <1>6

(* The session starts as an empty channel.                                 *)
LEMMA UpStart == Init => UpPart!Init
<1> SUFFICES ASSUME Init PROVE UpPart!Init
  OBVIOUS
<1>1. SendUnit \in Nat \ {0}
  BY UdpInit, Units DEF UdpInv
<1>2. frame_list = <<>> /\ size = 0 /\ wire = <<>> /\ torn = FALSE
  BY DEF Init
<1>3. 0 \div SendUnit = 0
  BY <1>1
<1>4. SubSeq(frame_list, (size \div SendUnit) + 1, Len(frame_list)) = <<>>
  BY <1>2, <1>3
<1>5. Parsed = <<>>
  <2>1. Len(wire) \div SendUnit = 0
    BY <1>2, <1>3
  <2>2. Parsed = ParsedSeqOf(wire, SendUnit, 0)
    BY <2>1 DEF Parsed, ParsedOf, ParsedSeqOf
  <2>3. 1..0 = {}
    OBVIOUS
  <2> QED BY <2>2, <2>3 DEF ParsedSeqOf
<1> QED BY <1>2, <1>4, <1>5, Zenon DEF UpPart!Init

(* Every step of the session is a step of the channel towards the server.  *)
LEMMA UpStep ==
  ASSUME UdpInv, UdpInv', [Next]_vars
  PROVE  [UpPart!Next]_(UpPart!vars)
<1>1. torn \in BOOLEAN /\ torn' \in BOOLEAN
  BY DEF UdpInv, TaskOK
<1>2. CASE torn
  BY <1>2, Zenon DEF UpPart!Next
<1>3. CASE torn'
  <2>1. (~torn)' = FALSE
    BY <1>3
  <2> QED BY <2>1, Zenon DEF UpPart!Next, UpPart!Break
<1>4. CASE ~torn /\ ~torn'
  <2>1. CASE UNCHANGED <<type, frame_list, size, wire>>
    <3>1. Parsed' = Parsed
      <4>1. 0 \in Nat /\ frame_list \in Seq(Datagram)
        BY DEF UdpInv, QueueOK
      <4> QED BY <2>1, <4>1, ParsedQuiet
    <3>2. SendUnit' = SendUnit
      BY <2>1, Units DEF UdpInv
    <3>3. SubSeq(frame_list, (size \div SendUnit) + 1, Len(frame_list))'
            = SubSeq(frame_list, (size \div SendUnit) + 1, Len(frame_list))
      BY <2>1, <3>2
    <3>4. (~torn)' = ~torn
      BY <1>4
    <3> QED BY <3>1, <3>3, <3>4, Zenon DEF UpPart!vars
  <2>2. CASE FSkip \/ FBegin \/ SendWait
    <3>1. UNCHANGED <<type, frame_list, wire>> /\ size' \in {size, 0} /\ pc \in {"f", "send"}
          /\ (pc = "send" => size' = size)
      BY <2>2 DEF FSkip, FBegin, SendWait, Running, Stay, fwd
    <3>2. size' = size
      BY <3>1 DEF UdpInv, QueueOK
    <3> QED BY <2>1, <3>1, <3>2
  <2>3. ASSUME NEW s \in 1..SockBuf, Send(s) PROVE UpPart!Leave
    BY <1>4, <2>3, SendLeaves, Zenon
  <2>4. CASE SendStop
    <3>1. pc = "send" /\ SendReturn(size) /\ UNCHANGED <<type, wire>>
      BY <2>4 DEF SendStop, Running
    <3> QED BY <1>4, <3>1, StopLeaves, Zenon DEF UpPart!Next
  <2>5. CASE Backward
    <3>1. UNCHANGED <<type, frame_list, size, wire>>
      BY <2>5 DEF Backward, BSkip, BBegin, HeadRead, HeadLost, HeadNone, RestRead, BodyRead, Full,
           ReadWait, ReadStop, RecvUdp, RecvUdpNone, Stay, fwd
    <3> QED BY <2>1, <3>1
  <2>6. CASE Leave
    <3>1. pc \in {"f", "y"} /\ Destruct
      BY <2>6 DEF Leave, Running
    <3> QED BY <3>1, DestructLeaves, Zenon DEF UpPart!Next
  <2>7. CASE Expire
    <3>1. CASE pc = "f" /\ Destruct
      <4>1. pc \in {"f", "y"}
        BY <3>1
      <4> QED BY <3>1, <4>1, DestructLeaves, Zenon DEF UpPart!Next
    <3>2. CASE pc = "send" /\ SendReturn(size) /\ UNCHANGED <<type, wire>>
      BY <1>4, <3>2, StopLeaves, Zenon DEF UpPart!Next
    <3>3. CASE UNCHANGED <<type, fwd, wire>>
      BY <2>1, <3>3 DEF fwd
    <3> QED BY <2>7, <3>1, <3>2, <3>3 DEF Expire
  <2>8. CASE \/ Yield \/ Terminate \/ Poll \/ RelayRead \/ RelayEof \/ RelayReset \/ CtlEof
             \/ UNCHANGED vars
    <3>1. UNCHANGED <<type, frame_list, size, wire>>
      BY <2>8 DEF Yield, Terminate, Poll, RelayRead, RelayEof, RelayReset, CtlEof, Session,
         vars, task, fwd
    <3> QED BY <2>1, <3>1
  <2>9. ASSUME NEW h \in Host, Recv(h) PROVE [UpPart!Next]_(UpPart!vars)
    BY <2>9, RecvPuts, Zenon DEF UpPart!Next
  <2>10. ASSUME NEW r \in Reply, Arrive(r) PROVE [UpPart!Next]_(UpPart!vars)
    <3>1. UNCHANGED <<type, frame_list, size, wire>>
      BY <2>10 DEF Arrive, Session, task, fwd
    <3> QED BY <2>1, <3>1
  <2>11. ASSUME NEW s \in 1..SockBuf, Send(s) PROVE [UpPart!Next]_(UpPart!vars)
    BY <2>3, <2>11, Zenon DEF UpPart!Next
  <2>12. CASE Forward
    BY <2>2, <2>4, <2>11, <2>12 DEF Forward
  <2> QED BY <2>5, <2>6, <2>7, <2>8, <2>9, <2>10, <2>12 DEF Next, Task, Finished
<1> QED BY <1>1, <1>2, <1>3, <1>4

(* Towards the server the session is a channel of whole datagrams: for     *)
(* every pool, batch, frame length and send buffer none is doubled,        *)
(* overtaken or mixed up while sendmmsg sends a batch in parts, unless a   *)
(* call returned inside a frame.                                           *)
THEOREM UpImplements == Spec => UpChannel
<1>1. UdpInv /\ UdpInv' /\ [Next]_vars => [UpPart!Next]_(UpPart!vars)
  BY UpStep
<1>2. Spec => UpPart!Spec
  BY <1>1, UpStart, UdpInvariant, PTL DEF Spec, UpPart!Spec
<1> QED BY <1>2 DEF UpChannel

-----------------------------------------------------------------------------
(* The channel towards the client.                                         *)

(* What waits when ms are complete and the frames up to rd of D were read. *)
Waiting(ms, rd, D) == ms \o [i \in 1..(D - rd) |-> rd + i]

(* Its elements.                                                           *)
WaitingIs(q, ms, rd, D) ==
  /\ q \in Seq(Nat) /\ Len(q) = Len(ms) + (D - rd)
  /\ \A i \in 1..Len(ms) : q[i] = ms[i]
  /\ \A i \in 1..(D - rd) : q[Len(ms) + i] = rd + i

(* They are the messages and then the numbers after rd.                    *)
LEMMA WaitingLemma ==
  ASSUME NEW ms \in Seq(Nat), NEW D \in Nat, NEW rd \in 0..D
  PROVE  WaitingIs(Waiting(ms, rd, D), ms, rd, D)
<1>1. PICK b : b = [i \in 1..(D - rd) |-> rd + i]
  OBVIOUS
<1>2. D - rd \in Nat
  OBVIOUS
<1>3. b \in Seq(Nat) /\ Len(b) = D - rd /\ \A i \in 1..(D - rd) : b[i] = rd + i
  BY <1>1, <1>2
<1>4. /\ ms \o b \in Seq(Nat) /\ Len(ms \o b) = Len(ms) + Len(b)
      /\ \A i \in 1..Len(ms) : (ms \o b)[i] = ms[i]
      /\ \A i \in 1..Len(b) : (ms \o b)[Len(ms) + i] = b[i]
  <2>1. ms \o b \in Seq(Nat) /\ Joined(ms \o b, ms, b)
    BY <1>3, JoinLemma, Zenon
  <2> QED BY <2>1, Zenon DEF Joined
<1>5. Waiting(ms, rd, D) = ms \o b
  BY <1>1 DEF Waiting
<1> QED BY <1>3, <1>4, <1>5 DEF WaitingIs

(* A reply that arrives waits at the end.                                  *)
LEMMA WaitingAppend ==
  ASSUME NEW ms \in Seq(Nat), NEW D \in Nat, NEW rd \in 0..D
  PROVE  Waiting(ms, rd, D + 1) = Append(Waiting(ms, rd, D), D + 1)
<1>1. rd \in 0..(D + 1) /\ D + 1 \in Nat
  OBVIOUS
<1>2. PICK q : q = Waiting(ms, rd, D) /\ WaitingIs(q, ms, rd, D)
  BY WaitingLemma, Zenon
<1>3. PICK q1 : q1 = Waiting(ms, rd, D + 1) /\ WaitingIs(q1, ms, rd, D + 1)
  BY <1>1, WaitingLemma, Zenon
<1>4. PICK L \in Nat : L = Len(ms)
  OBVIOUS
<1>5. /\ q \in Seq(Nat) /\ Len(q) = L + (D - rd)
      /\ \A i \in 1..L : q[i] = ms[i]
      /\ \A i \in 1..(D - rd) : q[L + i] = rd + i
  BY <1>2, <1>4 DEF WaitingIs
<1>6. /\ q1 \in Seq(Nat) /\ Len(q1) = L + ((D + 1) - rd)
      /\ \A i \in 1..L : q1[i] = ms[i]
      /\ \A i \in 1..((D + 1) - rd) : q1[L + i] = rd + i
  BY <1>3, <1>4 DEF WaitingIs
<1>7. PICK a : a = Append(q, D + 1)
  OBVIOUS
<1>8. /\ a \in Seq(Nat) /\ Len(a) = Len(q) + 1 /\ a[Len(q) + 1] = D + 1
      /\ \A i \in 1..Len(q) : a[i] = q[i]
  BY <1>5, <1>7
<1>9. Len(q1) = Len(a)
  BY <1>5, <1>6, <1>8
<1>10. ASSUME NEW i \in 1..Len(q1) PROVE q1[i] = a[i]
  <2>1. CASE i \in 1..L
    <3>1. i \in 1..Len(q)
      BY <1>5, <2>1
    <3> QED BY <1>5, <1>6, <1>8, <2>1, <3>1
  <2>2. CASE i - L \in 1..((D + 1) - rd)
    <3>1. L + (i - L) = i
      BY <2>2
    <3>2. q1[i] = rd + (i - L)
      BY <1>6, <2>2, <3>1
    <3>3. CASE i - L \in 1..(D - rd)
      <4>1. q[L + (i - L)] = rd + (i - L)
        BY <1>5, <3>3, Zenon
      <4>2. i \in 1..Len(q)
        BY <1>5, <3>1, <3>3
      <4> QED BY <1>8, <3>1, <3>2, <4>1, <4>2, Zenon
    <3>4. CASE i - L = (D + 1) - rd
      <4>1. i = Len(q) + 1 /\ rd + (i - L) = D + 1
        BY <1>5, <3>4
      <4> QED BY <1>8, <3>2, <4>1
    <3> QED BY <2>2, <3>3, <3>4
  <2>3. i \in 1..L \/ i - L \in 1..((D + 1) - rd)
    BY <1>6
  <2> QED BY <2>1, <2>2, <2>3
<1>11. q1 = a
  BY <1>6, <1>8, <1>9, <1>10, SeqEqual
<1> QED BY <1>2, <1>3, <1>7, <1>11

(* A frame that is complete becomes a message without moving.              *)
LEMMA WaitingRead ==
  ASSUME NEW ms \in Seq(Nat), NEW D \in Nat, NEW rd \in Nat, rd < D
  PROVE  Waiting(Append(ms, rd + 1), rd + 1, D) = Waiting(ms, rd, D)
<1>1. rd \in 0..D /\ rd + 1 \in 0..D
  OBVIOUS
<1>2. PICK m1 : m1 = Append(ms, rd + 1)
  OBVIOUS
<1>3. /\ m1 \in Seq(Nat) /\ Len(m1) = Len(ms) + 1 /\ m1[Len(ms) + 1] = rd + 1
      /\ \A i \in 1..Len(ms) : m1[i] = ms[i]
  BY <1>2
<1>4. PICK q : q = Waiting(ms, rd, D) /\ WaitingIs(q, ms, rd, D)
  BY <1>1, WaitingLemma, Zenon
<1>5. PICK q1 : q1 = Waiting(m1, rd + 1, D) /\ WaitingIs(q1, m1, rd + 1, D)
  BY <1>1, <1>3, WaitingLemma, Zenon
<1>6. PICK L \in Nat : L = Len(ms)
  OBVIOUS
<1>7. /\ q \in Seq(Nat) /\ Len(q) = L + (D - rd)
      /\ \A i \in 1..L : q[i] = ms[i]
      /\ \A i \in 1..(D - rd) : q[L + i] = rd + i
  BY <1>4, <1>6 DEF WaitingIs
<1>8. /\ q1 \in Seq(Nat) /\ Len(q1) = (L + 1) + (D - (rd + 1))
      /\ \A i \in 1..(L + 1) : q1[i] = m1[i]
      /\ \A i \in 1..(D - (rd + 1)) : q1[(L + 1) + i] = (rd + 1) + i
  BY <1>3, <1>5, <1>6 DEF WaitingIs
<1>9. Len(q1) = Len(q)
  BY <1>7, <1>8
<1>10. ASSUME NEW i \in 1..Len(q1) PROVE q1[i] = q[i]
  <2>1. CASE i \in 1..L
    <3>1. i \in 1..(L + 1)
      BY <2>1
    <3> QED BY <1>3, <1>6, <1>7, <1>8, <2>1, <3>1
  <2>2. CASE i = L + 1
    <3>1. 1 \in 1..(D - rd) /\ i \in 1..(L + 1)
      BY <2>2
    <3>2. q[L + 1] = rd + 1 /\ q1[L + 1] = m1[L + 1]
      BY <1>7, <1>8, <2>2, <3>1
    <3> QED BY <1>3, <1>6, <2>2, <3>2
  <2>3. CASE i - (L + 1) \in 1..(D - (rd + 1))
    <3>1. (L + 1) + (i - (L + 1)) = i /\ L + (i - L) = i /\ i - L \in 1..(D - rd)
          /\ (rd + 1) + (i - (L + 1)) = rd + (i - L)
      BY <2>3
    <3>2. q1[(L + 1) + (i - (L + 1))] = (rd + 1) + (i - (L + 1))
      BY <1>8, <2>3
    <3>3. q[L + (i - L)] = rd + (i - L)
      BY <1>7, <3>1
    <3> QED BY <3>1, <3>2, <3>3
  <2>4. i \in 1..L \/ i = L + 1 \/ i - (L + 1) \in 1..(D - (rd + 1))
    BY <1>8
  <2> QED BY <2>1, <2>2, <2>3, <2>4
<1>11. q1 = q
  BY <1>7, <1>8, <1>9, <1>10, SeqEqual
<1> QED BY <1>2, <1>4, <1>5, <1>11

(* The messages of a call go, delivered or not.                            *)
LEMMA WaitingForget ==
  ASSUME NEW ms \in Seq(Nat), NEW D \in Nat, NEW rd \in 0..D
  PROVE  RestOf(Waiting(<<>>, rd, D), Waiting(ms, rd, D), Len(ms))
<1>1. PICK q : q = Waiting(ms, rd, D) /\ WaitingIs(q, ms, rd, D)
  BY WaitingLemma, Zenon
<1>2. <<>> \in Seq(Nat) /\ Len(<<>>) = 0
  OBVIOUS
<1>3. PICK q1 : q1 = Waiting(<<>>, rd, D) /\ WaitingIs(q1, <<>>, rd, D)
  BY <1>2, WaitingLemma, Zenon
<1>4. PICK L \in Nat : L = Len(ms)
  OBVIOUS
<1>5. Len(q) = L + (D - rd) /\ \A i \in 1..(D - rd) : q[L + i] = rd + i
  BY <1>1, <1>4 DEF WaitingIs
<1>6. Len(q1) = 0 + (D - rd) /\ \A i \in 1..(D - rd) : q1[0 + i] = rd + i
  BY <1>2, <1>3 DEF WaitingIs
<1>7. Len(q) - L = D - rd /\ Len(q1) = D - rd
  BY <1>5, <1>6
<1>8. \A i \in 1..(D - rd) : q1[i] = q[L + i]
  BY <1>5, <1>6
<1> QED BY <1>1, <1>3, <1>4, <1>7, <1>8 DEF RestOf

(* Datagrams of a datagram socket go.                                      *)
LEMMA WaitingSkip ==
  ASSUME NEW D \in Nat, NEW rd \in Nat, NEW n \in Nat, rd + n <= D
  PROVE  RestOf(Waiting(<<>>, rd + n, D), Waiting(<<>>, rd, D), n)
<1>1. <<>> \in Seq(Nat) /\ Len(<<>>) = 0 /\ rd \in 0..D /\ rd + n \in 0..D
  OBVIOUS
<1>2. PICK q : q = Waiting(<<>>, rd, D) /\ WaitingIs(q, <<>>, rd, D)
  BY <1>1, WaitingLemma, Zenon
<1>3. PICK q1 : q1 = Waiting(<<>>, rd + n, D) /\ WaitingIs(q1, <<>>, rd + n, D)
  BY <1>1, WaitingLemma, Zenon
<1>4. Len(q) = D - rd /\ \A i \in 1..(D - rd) : q[0 + i] = rd + i
  BY <1>1, <1>2 DEF WaitingIs
<1>5. Len(q1) = D - (rd + n) /\ \A i \in 1..(D - (rd + n)) : q1[0 + i] = (rd + n) + i
  BY <1>1, <1>3 DEF WaitingIs
<1>6. Len(q) - n = D - (rd + n)
  BY <1>4
<1>7. ASSUME NEW i \in 1..(D - (rd + n)) PROVE q1[i] = q[n + i]
  <2>1. n + i \in 1..(D - rd) /\ 0 + i = i /\ 0 + (n + i) = n + i /\ (rd + n) + i = rd + (n + i)
    OBVIOUS
  <2>2. q1[0 + i] = (rd + n) + i /\ q[0 + (n + i)] = rd + (n + i)
    BY <1>4, <1>5, <2>1, Zenon
  <2> QED BY <2>1, <2>2
<1> QED BY <1>2, <1>3, <1>5, <1>6, <1>7 DEF RestOf

(* The numbers of the datagrams that were delivered.                       *)
OutOf(d) == [i \in 1..Len(d) |-> d[i][1]]

(* j more were delivered, with the numbers of q.                           *)
Delivers(d1, d, q, j) ==
  /\ Len(d1) = Len(d) + j
  /\ \A i \in 1..Len(d) : d1[i] = d[i]
  /\ \A i \in 1..j : d1[Len(d) + i][1] = q[i]

(* Their numbers follow the others.                                        *)
OutGrows(d1, d, q, j) == OutOf(d1) = OutOf(d) \o SubSeq(q, 1, j)

(* That is so when j of them are delivered.                                *)
LEMMA OutLemma ==
  ASSUME NEW B, NEW d \in Seq((1..Down) \X B), NEW d1 \in Seq((1..Down) \X B),
         NEW q \in Seq(Nat), NEW j \in 0..Len(q), Delivers(d1, d, q, j)
  PROVE  OutGrows(d1, d, q, j)
<1>1. PICK o : o = OutOf(d)
  OBVIOUS
<1>2. PICK o1 : o1 = OutOf(d1)
  OBVIOUS
<1>3. o \in Seq(Nat) /\ Len(o) = Len(d) /\ \A i \in 1..Len(d) : o[i] = d[i][1]
  <2>1. \A i \in 1..Len(d) : d[i][1] \in Nat
    BY UdpAssumption
  <2> QED BY <1>1, <2>1 DEF OutOf
<1>4. o1 \in Seq(Nat) /\ Len(o1) = Len(d1) /\ \A i \in 1..Len(d1) : o1[i] = d1[i][1]
  <2>1. \A i \in 1..Len(d1) : d1[i][1] \in Nat
    BY UdpAssumption
  <2> QED BY <1>2, <2>1 DEF OutOf
<1>5. PICK g : g = SubSeq(q, 1, j)
  OBVIOUS
<1>6. g \in Seq(Nat) /\ Len(g) = j /\ \A i \in 1..j : g[i] = q[i]
  BY <1>5
<1>7. o \o g \in Seq(Nat) /\ Joined(o \o g, o, g)
  BY <1>3, <1>6, JoinLemma, Zenon
<1>8. PICK r \in Seq(Nat) : r = o \o g /\ Joined(r, o, g)
  BY <1>7, Zenon
<1>9. PICK L \in Nat : L = Len(d)
  OBVIOUS
<1>10. /\ Len(r) = L + j /\ \A i \in 1..L : r[i] = d[i][1]
       /\ \A i \in 1..j : r[L + i] = q[i]
  BY <1>3, <1>6, <1>8, <1>9 DEF Joined
<1>11. /\ Len(o1) = L + j /\ \A i \in 1..(L + j) : o1[i] = d1[i][1]
       /\ \A i \in 1..L : d1[i] = d[i]
       /\ \A i \in 1..j : d1[L + i][1] = q[i]
  BY <1>4, <1>9 DEF Delivers
<1>12. ASSUME NEW i \in 1..Len(o1) PROVE o1[i] = r[i]
  <2>1. CASE i \in 1..L
    <3>1. i \in 1..(L + j)
      BY <1>11
    <3>2. r[i] = d[i][1] /\ o1[i] = d1[i][1] /\ d1[i] = d[i]
      BY <1>10, <1>11, <2>1, <3>1, Zenon
    <3> QED BY <3>2
  <2>2. CASE i - L \in 1..j
    <3>1. L + (i - L) = i /\ i \in 1..(L + j)
      BY <1>11, <2>2
    <3>2. r[L + (i - L)] = q[i - L] /\ d1[L + (i - L)][1] = q[i - L]
      BY <1>10, <1>11, <2>2, Zenon
    <3> QED BY <1>11, <3>1, <3>2
  <2>3. i \in 1..L \/ i - L \in 1..j
    BY <1>11
  <2> QED BY <2>1, <2>2, <2>3
<1>13. o1 = r
  <2>1. Len(o1) = Len(r)
    BY <1>10, <1>11
  <2> QED BY <1>4, <1>12, <2>1, SeqEqual
<1> QED BY <1>1, <1>2, <1>5, <1>8, <1>13 DEF OutGrows

(* DatagramChannel counts as FiniteSets does.                              *)
LEMMA DownCard == \A S : DownPart!Cardinality(S) = Cardinality(S)
BY Zenon DEF DownPart!Cardinality, Cardinality

(* The way to the client moves: the first n that wait are delivered, those *)
(* after them up to c are lost.                                            *)
LEMMA DownMove ==
  ASSUME NEW q \in Seq(Nat), NEW q1 \in Seq(Nat), NEW c \in 0..Len(q), NEW n \in 0..c,
         RestOf(q1, q, c), q = Pending, q1 = Pending',
         OutOf(delivered)' = OutOf(delivered) \o SubSeq(q, 1, n),
         (~cut /\ pc # "ub")' = (~cut /\ pc # "ub")
  PROVE  DownPart!Leave
<1>1. Len(q) \in Nat /\ n \in 0..Len(q) /\ c \in n..Len(q)
  OBVIOUS
<1>2. (n + 1)..c \in SUBSET ((n + 1)..Len(q))
  BY <1>1, RestLemma, Zenon
<1>3. {i \in (n + 1)..Len(q) : i \notin (n + 1)..c} = (c + 1)..Len(q)
  BY <1>1, RestLemma, Zenon
<1>4. MovedUp(q, q1, c)
  <2>1. Len(q1) = Len(q) - c /\ \A i \in 1..(Len(q) - c) : q1[i] = q[c + i]
    BY Zenon DEF RestOf
  <2> QED BY <2>1, MoveLemma, Zenon
<1>5. /\ Len(q1) = Cardinality((c + 1)..Len(q))
      /\ \A i \in (c + 1)..Len(q) : q1[Cardinality({j \in (c + 1)..Len(q) : j <= i})] = q[i]
  BY <1>4, Zenon DEF MovedUp, RankIn
<1>6. [i \in 1..Len(delivered) |-> delivered[i][1]]'
        = [i \in 1..Len(delivered) |-> delivered[i][1]] \o SubSeq(q, 1, n)
  BY Zenon DEF OutOf
<1>7. DownPart!Move(n, (n + 1)..c)
  BY <1>3, <1>5, <1>6, DownCard, Zenon DEF DownPart!Move
<1> QED BY <1>1, <1>2, <1>7, Zenon DEF DownPart!Leave

(* How many frames were read whole.                                        *)
LEMMA ReadLemma ==
  ASSUME UdpInv
  PROVE  /\ rpos \div RecvUnit \in 0..Len(down)
         /\ Len(msgs) <= rpos \div RecvUnit
<1>1. PICK u \in Nat \ {0} : u = RecvUnit
  BY Units DEF UdpInv
<1>2. /\ rpos \in Nat /\ arrived \in Nat /\ rpos <= arrived /\ Len(down) \in Nat /\ Len(msgs) \in Nat
      /\ arrived <= Len(down) * u /\ Len(msgs) * u <= rpos
  BY <1>1 DEF UdpInv, ReplyOK
<1>3. Len(down) * u \in Int /\ Len(msgs) * u \in Nat
  BY <1>2
<1>4. rpos <= Len(down) * u
  BY <1>2, <1>3
<1>5. /\ rpos \div u \in Nat /\ rpos \div u <= Len(down)
      /\ (Len(msgs) * u) \div u <= rpos \div u
  BY <1>2, <1>3, <1>4, CountMono, Zenon
<1>6. (Len(msgs) * u) \div u = Len(msgs)
  <2>1. 0 \in 0..(u - 1) /\ Len(msgs) * u + 0 = Len(msgs) * u
    BY <1>3
  <2>2. (Len(msgs) * u + 0) \div u = Len(msgs)
    BY <1>2, <2>1, DivUnique, Zenon
  <2> QED BY <2>1, <2>2, Zenon
<1>7. rpos \div u \in 0..Len(down)
  BY <1>2, <1>5
<1> QED BY <1>1, <1>5, <1>6, <1>7, Zenon

(* The queue of the channel.                                               *)
LEMMA PendingIs ==
  /\ Pending = Waiting(msgs, rpos \div RecvUnit, Len(down))
  /\ Pending' = Waiting(msgs', rpos' \div RecvUnit', Len(down'))
BY DEF Pending, Waiting

(* The promise holds before and after a step.                              *)
Sound == ~cut /\ ~cut' /\ pc # "ub" /\ pc' # "ub"

(* A step that reads no frame to its end.                                  *)
LEMMA DownStutter ==
  ASSUME UdpInv, Sound, UNCHANGED <<type, down, msgs, delivered>>,
         rpos' \div RecvUnit = rpos \div RecvUnit
  PROVE  UNCHANGED DownPart!vars
<1>1. RecvUnit' = RecvUnit
  BY Units DEF UdpInv
<1>2. Pending' = Pending
  BY <1>1, PendingIs
<1>3. (~cut /\ pc # "ub")' = (~cut /\ pc # "ub")
  BY DEF Sound
<1>4. [i \in 1..Len(delivered) |-> delivered[i][1]]' = [i \in 1..Len(delivered) |-> delivered[i][1]]
  OBVIOUS
<1> QED BY <1>2, <1>3, <1>4, Zenon DEF DownPart!vars

(* The messages of a call go: the first j of them are delivered.           *)
LEMMA DownForget ==
  ASSUME UdpInv, Sound, UNCHANGED <<type, down>>, msgs' = <<>>,
         rpos' \div RecvUnit = rpos \div RecvUnit,
         delivered' \in Seq((1..Down) \X (Host \cup {Runt})),
         NEW j \in 0..Len(msgs), Delivers(delivered', delivered, msgs, j)
  PROVE  DownPart!Leave
<1>1. RecvUnit' = RecvUnit
  BY Units DEF UdpInv
<1>2. PICK rd \in 0..Len(down) : rd = rpos \div RecvUnit
  BY ReadLemma, Zenon
<1>3. msgs \in Seq(Nat) /\ Len(msgs) \in Nat /\ Len(down) \in Nat
  BY DEF UdpInv, ReplyOK
<1>4. PICK q : q = Pending /\ q = Waiting(msgs, rd, Len(down))
  BY <1>2, PendingIs, Zenon
<1>5. PICK q1 : q1 = Pending' /\ q1 = Waiting(<<>>, rd, Len(down))
  BY <1>1, <1>2, PendingIs
<1>6. WaitingIs(q, msgs, rd, Len(down))
  BY <1>3, <1>4, WaitingLemma, Zenon
<1>7. WaitingIs(q1, <<>>, rd, Len(down))
  <2>1. <<>> \in Seq(Nat)
    OBVIOUS
  <2> QED BY <1>3, <1>5, <2>1, WaitingLemma, Zenon
<1>8. RestOf(q1, q, Len(msgs))
  BY <1>3, <1>4, <1>5, WaitingForget, Zenon
<1>9. /\ q \in Seq(Nat) /\ q1 \in Seq(Nat) /\ Len(q) = Len(msgs) + (Len(down) - rd)
      /\ \A i \in 1..Len(msgs) : q[i] = msgs[i]
  BY <1>6, <1>7, Zenon DEF WaitingIs
<1>10. Len(msgs) \in 0..Len(q) /\ j \in 0..Len(q) /\ \A i \in 1..j : i \in 1..Len(msgs)
  BY <1>3, <1>9
<1>11. Delivers(delivered', delivered, q, j)
  <2>1. \A i \in 1..j : q[i] = msgs[i]
    BY <1>9, <1>10, Zenon
  <2> QED BY <2>1 DEF Delivers
<1>12. OutOf(delivered') = OutOf(delivered) \o SubSeq(q, 1, j)
  <2>1. delivered \in Seq((1..Down) \X (Host \cup {Runt}))
    BY DEF UdpInv, ReplyOK
  <2>2. OutGrows(delivered', delivered, q, j)
    BY <1>9, <1>10, <1>11, <2>1, OutLemma, Zenon
  <2> QED BY <2>2, Zenon DEF OutGrows
<1>13. OutOf(delivered)' = OutOf(delivered) \o SubSeq(q, 1, j)
  BY <1>12, Zenon DEF OutOf
<1>14. (~cut /\ pc # "ub")' = (~cut /\ pc # "ub")
  BY DEF Sound
<1> QED BY <1>4, <1>5, <1>8, <1>9, <1>10, <1>13, <1>14, DownMove, Zenon

(* The messages of a call are lost.                                        *)
LEMMA DownLose ==
  ASSUME UdpInv, Sound, UNCHANGED <<type, down, delivered>>, msgs' = <<>>,
         rpos' \div RecvUnit = rpos \div RecvUnit
  PROVE  DownPart!Leave
<1>1. delivered \in Seq((1..Down) \X (Host \cup {Runt})) /\ Len(msgs) \in Nat
  BY DEF UdpInv, ReplyOK
<1>2. 0 \in 0..Len(msgs) /\ Delivers(delivered', delivered, msgs, 0)
  BY <1>1 DEF Delivers
<1> QED BY <1>1, <1>2, DownForget

(* A head is complete.                                                     *)
LEMMA HeadKnownMoves ==
  ASSUME UdpInv, Sound, UNCHANGED <<type, down, delivered>>, NEW i, HeadKnown(i),
         rpos' \div RecvUnit = rpos \div RecvUnit
  PROVE  DownPart!Leave \/ UNCHANGED DownPart!vars
<1>1. CASE msgs' = <<>>
  BY <1>1, DownLose, Zenon
<1>2. CASE msgs' = msgs
  BY <1>2, DownStutter
<1> QED BY <1>1, <1>2 DEF HeadKnown, Forget

(* A read inside a frame.                                                  *)
LEMMA HeadReadMoves ==
  ASSUME UdpInv, Sound, HeadRead
  PROVE  DownPart!Leave \/ UNCHANGED DownPart!vars
<1>1. /\ pc = "head" /\ UNCHANGED <<type, down, delivered>> /\ rpos % RecvUnit = 0
      /\ arrived - rpos > 0
  BY DEF HeadRead, Running, Stay, InStep, peer, avail
<1>2. PICK u \in Nat \ {0} : u = RecvUnit /\ u = HeadLen + BodyLen
  BY <1>1, Units DEF UdpInv, ReplyOK
<1>3. rpos \in Nat /\ arrived \in Nat /\ HeadLen \in Nat \ {0} /\ BodyLen \in Nat \ {0}
  BY UdpAssumption DEF UdpInv, ReplyOK
<1>4. PICK s : s = Least(avail, HeadLen)
  OBVIOUS
<1>5. s \in 1..HeadLen
  BY <1>1, <1>3, <1>4 DEF Least, avail
<1>6. PICK k \in Nat : k = rpos \div u /\ rpos = k * u + 0
  <2>1. rpos \div u \in Nat /\ rpos = (rpos \div u) * u + (rpos % u)
    BY <1>3, DivMod, Zenon
  <2>2. rpos = (rpos \div u) * u + 0
    BY <1>1, <1>2, <2>1, Zenon
  <2> QED BY <2>1, <2>2, Zenon
<1>7. rpos' = k * u + s
  <2>1. rpos' = rpos + s /\ k * u \in Nat
    BY <1>4 DEF HeadRead
  <2> QED BY <1>3, <1>5, <1>6, <2>1
<1>8. 0 \in 0..(u - 1) /\ s \in 0..(u - 1)
  BY <1>2, <1>3, <1>5
<1>9. rpos' \div RecvUnit = rpos \div RecvUnit
  <2>1. rpos' \div u = rpos \div u
    <3>1. (k * u + 0) \div u = k
      BY <1>8, DivUnique, Zenon
    <3>2. (k * u + s) \div u = k
      BY <1>8, DivUnique, Zenon
    <3> QED BY <1>6, <1>7, <3>1, <3>2, Zenon
  <2> QED BY <1>2, <2>1, Zenon
<1>10. (\E i : HeadKnown(i)) \/ msgs' = msgs
  BY DEF HeadRead
<1>11. CASE msgs' = msgs
  BY <1>1, <1>9, <1>11, DownStutter
<1>12. ASSUME NEW i, HeadKnown(i) PROVE DownPart!Leave \/ UNCHANGED DownPart!vars
  BY <1>1, <1>9, <1>12, HeadKnownMoves
<1> QED BY <1>10, <1>11, <1>12, Zenon

(* The rest of a head.                                                     *)
LEMMA RestReadMoves ==
  ASSUME UdpInv, Sound, RestRead
  PROVE  DownPart!Leave \/ UNCHANGED DownPart!vars
<1>1. pc = "rest" /\ UNCHANGED <<type, down, delivered>> /\ arrived - rpos > 0
  BY DEF RestRead, Running, Stay, peer, avail
<1>2. PICK u \in Nat \ {0} : u = RecvUnit /\ u = HeadLen + BodyLen
  BY <1>1, Units DEF UdpInv, ReplyOK
<1>3. /\ rpos \in Nat /\ arrived \in Nat /\ HeadLen \in Nat \ {0} /\ BodyLen \in Nat \ {0}
      /\ got \in Nat /\ more \in Nat /\ got > 0 /\ got + more < HeadLen
  BY <1>1, UdpAssumption DEF UdpInv, ReplyOK, ReadOK
<1>4. PICK s : s = Least(avail, HeadLen - got - more)
  OBVIOUS
<1>5. s \in Nat /\ s > 0 /\ s <= HeadLen - got - more
  BY <1>1, <1>3, <1>4 DEF Least, avail
<1>6. PICK k \in Nat : rpos = k * u + got + more
  BY <1>1, <1>2 DEF UdpInv, ReadOK
<1>7. rpos = k * u + (got + more) /\ rpos' = k * u + (got + more + s)
  <2>1. rpos' = rpos + s /\ k * u \in Nat
    BY <1>4 DEF RestRead
  <2> QED BY <1>3, <1>5, <1>6, <2>1
<1>8. got + more \in 0..(u - 1) /\ got + more + s \in 0..(u - 1)
  BY <1>2, <1>3, <1>5
<1>9. rpos' \div RecvUnit = rpos \div RecvUnit
  <2>1. rpos' \div u = rpos \div u
    <3>1. (k * u + (got + more)) \div u = k
      BY <1>8, DivUnique, Zenon
    <3>2. (k * u + (got + more + s)) \div u = k
      BY <1>8, DivUnique, Zenon
    <3> QED BY <1>7, <3>1, <3>2, Zenon
  <2> QED BY <1>2, <2>1, Zenon
<1>10. (\E i : HeadKnown(i)) \/ msgs' = msgs
  BY DEF RestRead
<1>11. CASE msgs' = msgs
  BY <1>1, <1>9, <1>11, DownStutter
<1>12. ASSUME NEW i, HeadKnown(i) PROVE DownPart!Leave \/ UNCHANGED DownPart!vars
  BY <1>1, <1>9, <1>12, HeadKnownMoves
<1> QED BY <1>10, <1>11, <1>12, Zenon

(* A frame that is read to its end keeps its place.                        *)
LEMMA BodyReadMoves ==
  ASSUME UdpInv, Sound, BodyRead
  PROVE  UNCHANGED DownPart!vars
<1>1. pc = "body" /\ UNCHANGED <<type, down, delivered>> /\ arrived - rpos > 0
  BY DEF BodyRead, Running, Stay, peer, avail
<1>2. PICK u \in Nat \ {0} : u = RecvUnit /\ u = RecvUnit' /\ u = HeadLen + BodyLen
  BY <1>1, Units DEF UdpInv, ReplyOK
<1>3. /\ rpos \in Nat /\ arrived \in Nat /\ HeadLen \in Nat \ {0} /\ BodyLen \in Nat \ {0}
      /\ more \in Nat /\ more < BodyLen
  BY <1>1, UdpAssumption DEF UdpInv, ReplyOK, ReadOK
<1>4. PICK s : s = Least(avail, BodyLen - more)
  OBVIOUS
<1>5. s \in Nat /\ s > 0 /\ s <= BodyLen - more
  BY <1>1, <1>3, <1>4 DEF Least, avail
<1>6. PICK k \in Nat : rpos = k * u + HeadLen + more
  BY <1>1, <1>2 DEF UdpInv, ReadOK
<1>7. rpos = k * u + (HeadLen + more) /\ rpos' = k * u + (HeadLen + more + s)
  <2>1. rpos' = rpos + s /\ k * u \in Nat
    BY <1>4 DEF BodyRead
  <2> QED BY <1>3, <1>5, <1>6, <2>1
<1>8. HeadLen + more \in 0..(u - 1) /\ HeadLen + more \in 1..u
  BY <1>2, <1>3
<1>9. CASE more + s # BodyLen
  <2>1. HeadLen + more + s \in 0..(u - 1)
    BY <1>2, <1>3, <1>5, <1>9
  <2>2. rpos' \div u = rpos \div u
    <3>1. (k * u + (HeadLen + more)) \div u = k
      BY <1>8, <2>1, DivUnique, Zenon
    <3>2. (k * u + (HeadLen + more + s)) \div u = k
      BY <1>8, <2>1, DivUnique, Zenon
    <3> QED BY <1>7, <3>1, <3>2, Zenon
  <2>3. msgs' = msgs
    BY <1>4, <1>9 DEF BodyRead
  <2> QED BY <1>1, <1>2, <2>2, <2>3, DownStutter
<1>10. CASE more + s = BodyLen
  <2>1. msgs' = Append(msgs, Current)
    BY <1>4, <1>10 DEF BodyRead
  <2>2. PICK r : r = HeadLen + more /\ r \in 1..RecvUnit /\ rpos = k * RecvUnit + r
    BY <1>2, <1>7, <1>8, Zenon
  <2>3. Current = k + 1 /\ k < Len(down)
    BY <2>2, CurrentLemma, Zenon
  <2>4. rpos \div u = k
    <3>1. (k * u + (HeadLen + more)) \div u = k
      BY <1>8, DivUnique, Zenon
    <3> QED BY <1>7, <3>1, Zenon
  <2>5. rpos' = (k + 1) * u + 0
    <3>1. (k + 1) * u = k * u + u /\ k * u \in Nat
      OBVIOUS
    <3> QED BY <1>2, <1>3, <1>5, <1>7, <1>10, <3>1
  <2>6. rpos' \div u = k + 1
    <3>1. k + 1 \in Nat /\ 0 \in 0..(u - 1)
      OBVIOUS
    <3>2. ((k + 1) * u + 0) \div u = k + 1
      BY <3>1, DivUnique, Zenon
    <3> QED BY <2>5, <3>2, Zenon
  <2>7. msgs \in Seq(Nat) /\ Len(down) \in Nat
    BY DEF UdpInv, ReplyOK
  <2>8. Waiting(Append(msgs, k + 1), k + 1, Len(down)) = Waiting(msgs, k, Len(down))
    BY <2>3, <2>7, WaitingRead
  <2>9. Pending' = Pending
    <3>1. Pending' = Waiting(Append(msgs, k + 1), k + 1, Len(down))
      BY <1>1, <1>2, <2>1, <2>3, <2>6, PendingIs
    <3>2. Pending = Waiting(msgs, k, Len(down))
      BY <1>2, <2>4, PendingIs
    <3> QED BY <2>8, <3>1, <3>2, Zenon
  <2>10. (~cut /\ pc # "ub")' = (~cut /\ pc # "ub")
    BY DEF Sound
  <2>11. [i \in 1..Len(delivered) |-> delivered[i][1]]' = [i \in 1..Len(delivered) |-> delivered[i][1]]
    BY <1>1
  <2> QED BY <2>9, <2>10, <2>11, Zenon DEF DownPart!vars
<1> QED BY <1>9, <1>10

(* A call that ends between frames delivers the first of its messages.     *)
LEMMA WholeMoves ==
  ASSUME UdpInv, Sound, HeadNone \/ Full
  PROVE  DownPart!Leave
<1>1. UNCHANGED <<type, down, rpos>> /\ msgs' = <<>>
  BY DEF HeadNone, Full, HeadResult, Result, Forget, Stay, peer
<1>2. delivered' \in Seq((1..Down) \X (Host \cup {Runt}))
  BY WholeDown DEF ReplyOK
<1>3. /\ msgs \in Seq(Nat) /\ Len(msgs) \in Nat
      /\ \A i \in 1..Len(msgs) : msgs[i] \in 1..Len(down) /\ down[msgs[i]] # Bad
  BY DEF UdpInv, ReplyOK
<1>4. PICK v \in Int, again \in BOOLEAN : Result(v, again) /\ v <= Len(msgs)
  BY WholeResult
<1>5. CASE v <= 0
  <2>1. delivered' = delivered
    BY <1>4, <1>5 DEF Result
  <2> QED BY <1>1, <2>1, DownLose
<1>6. CASE v > 0
  <2>1. PICK q : q = SubSeq(msgs, 1, v)
    OBVIOUS
  <2>2. PICK j \in 0..v : Push(q, j)
    BY <1>4, <1>6, <2>1 DEF Result
  <2>3. q \in Seq(Nat) /\ Len(q) = v /\ \A i \in 1..v : q[i] = msgs[i]
    BY <1>3, <1>4, <1>6, <2>1
  <2>4. j \in 0..Len(q) /\ j \in 0..Len(msgs) /\ \A i \in 1..j : i \in 1..v /\ i \in 1..Len(msgs)
    BY <1>3, <1>4, <1>6, <2>3
  <2>5. \A i \in 1..j : q[i] \in 1..Len(down) /\ down[q[i]] # Bad
    BY <1>3, <2>3, <2>4
  <2>6. /\ Len(delivered') = Len(delivered) + j
        /\ \A i \in 1..Len(delivered) : delivered'[i] = delivered[i]
        /\ \A i \in 1..j : delivered'[Len(delivered) + i] = <<q[i], Shown(q[i])>>
    BY <2>2, <2>3, <2>4, <2>5, PushLemma
  <2>7. Delivers(delivered', delivered, msgs, j)
    <3>1. ASSUME NEW i \in 1..j PROVE delivered'[Len(delivered) + i][1] = msgs[i]
      <4>1. delivered'[Len(delivered) + i] = <<q[i], Shown(q[i])>> /\ q[i] = msgs[i]
        BY <2>3, <2>4, <2>6, Zenon
      <4> QED BY <4>1
    <3> QED BY <2>6, <3>1, Zenon DEF Delivers
  <2> QED BY <1>1, <1>2, <2>4, <2>7, DownForget
<1> QED BY <1>5, <1>6

(* Datagrams of a datagram socket are delivered or lost in order.          *)
LEMMA RecvUdpMoves ==
  ASSUME UdpInv, Sound, RecvUdp
  PROVE  DownPart!Leave
<1> DEFINE n == Least(num, avail)
           q == [i \in 1..n |-> rpos + i]
<1>1. /\ type = "udp" /\ type # "tcp" /\ pc = "b" /\ avail > 0
      /\ UNCHANGED <<type, down, msgs>> /\ rpos' = rpos + n
  BY DEF RecvUdp, Running, Stay, peer, bwd
<1>2. RecvUnit = 1 /\ RecvUnit' = 1
  BY <1>1, Units DEF UdpInv
<1>3. /\ rpos \in Nat /\ arrived \in Nat /\ Len(down) \in Nat /\ msgs = <<>>
      /\ arrived <= Len(down) /\ rpos <= arrived
      /\ delivered \in Seq((1..Down) \X (Host \cup {Runt}))
  BY <1>1, <1>2 DEF UdpInv, ReplyOK
<1>4. n \in Nat /\ n > 0 /\ rpos + n <= Len(down)
  BY <1>1, <1>3, UdpAssumption DEF avail, Least
<1>5. \/ UNCHANGED delivered
      \/ (\A i \in 1..n : down[q[i]] # Bad) /\ \E j \in 0..n : Push(q, j)
  BY DEF RecvUdp
<1> HIDE DEF n
<1>6. q \in Seq(Nat) /\ Len(q) = n /\ \A i \in 1..n : q[i] = rpos + i
  BY <1>3, <1>4
<1> HIDE DEF q
<1>7. \A i \in 1..n : q[i] \in 1..Len(down)
  BY <1>3, <1>4, <1>6
<1>8. delivered' \in Seq((1..Down) \X (Host \cup {Runt}))
  BY RecvUdpDown DEF ReplyOK
<1>9. PICK j \in 0..n : Delivers(delivered', delivered, q, j)
  <2>1. CASE UNCHANGED delivered
    <3>1. 0 \in 0..n /\ Delivers(delivered', delivered, q, 0)
      BY <1>3, <1>4, <2>1 DEF Delivers
    <3> QED BY <3>1, Zenon
  <2>2. ASSUME \A i \in 1..n : down[q[i]] # Bad, NEW j \in 0..n, Push(q, j)
        PROVE  Delivers(delivered', delivered, q, j)
    <3>1. j \in 0..Len(q) /\ \A i \in 1..j : q[i] \in 1..Len(down) /\ down[q[i]] # Bad
      BY <1>4, <1>6, <1>7, <2>2
    <3>2. /\ Len(delivered') = Len(delivered) + j
          /\ \A i \in 1..Len(delivered) : delivered'[i] = delivered[i]
          /\ \A i \in 1..j : delivered'[Len(delivered) + i] = <<q[i], Shown(q[i])>>
      BY <1>6, <2>2, <3>1, PushLemma
    <3>3. ASSUME NEW i \in 1..j PROVE delivered'[Len(delivered) + i][1] = q[i]
      BY <3>2
    <3> QED BY <3>2, <3>3, Zenon DEF Delivers
  <2> QED BY <1>5, <2>1, <2>2, Zenon
<1>10. PICK p : p = Pending /\ p = Waiting(<<>>, rpos, Len(down))
  <2>1. rpos \div 1 = rpos
    BY <1>3
  <2> QED BY <1>2, <1>3, <2>1, PendingIs
<1>11. PICK p1 : p1 = Pending' /\ p1 = Waiting(<<>>, rpos + n, Len(down))
  <2>1. (rpos + n) \div 1 = rpos + n
    BY <1>3, <1>4
  <2> QED BY <1>1, <1>2, <1>3, <2>1, PendingIs
<1>12. <<>> \in Seq(Nat) /\ Len(<<>>) = 0 /\ rpos \in 0..Len(down) /\ rpos + n \in 0..Len(down)
  BY <1>3, <1>4
<1>13. WaitingIs(p, <<>>, rpos, Len(down)) /\ WaitingIs(p1, <<>>, rpos + n, Len(down))
  BY <1>3, <1>10, <1>11, <1>12, WaitingLemma, Zenon
<1>14. /\ p \in Seq(Nat) /\ p1 \in Seq(Nat) /\ Len(p) = Len(down) - rpos
       /\ \A i \in 1..(Len(down) - rpos) : p[i] = rpos + i
  <2>1. /\ p \in Seq(Nat) /\ p1 \in Seq(Nat) /\ Len(p) = 0 + (Len(down) - rpos)
        /\ \A i \in 1..(Len(down) - rpos) : p[0 + i] = rpos + i
    BY <1>12, <1>13 DEF WaitingIs
  <2> QED BY <1>3, <2>1
<1>15. RestOf(p1, p, n)
  BY <1>3, <1>4, <1>10, <1>11, WaitingSkip, Zenon
<1>16. n \in 0..Len(p) /\ j \in 0..Len(p) /\ \A i \in 1..j : p[i] = q[i]
  <2>1. n \in 0..Len(p) /\ j \in 0..Len(p)
    BY <1>3, <1>4, <1>14
  <2>2. ASSUME NEW i \in 1..j PROVE p[i] = q[i]
    <3>1. i \in 1..n /\ i \in 1..(Len(down) - rpos)
      BY <1>3, <1>4
    <3> QED BY <1>6, <1>14, <3>1, Zenon
  <2> QED BY <2>1, <2>2
<1>17. Delivers(delivered', delivered, p, j)
  BY <1>9, <1>16 DEF Delivers
<1>18. OutGrows(delivered', delivered, p, j)
  BY <1>3, <1>8, <1>14, <1>16, <1>17, OutLemma, Zenon
<1>19. OutOf(delivered)' = OutOf(delivered) \o SubSeq(p, 1, j)
  BY <1>18, Zenon DEF OutGrows, OutOf
<1>20. (~cut /\ pc # "ub")' = (~cut /\ pc # "ub")
  BY DEF Sound
<1> QED BY <1>10, <1>11, <1>14, <1>15, <1>16, <1>19, <1>20, DownMove, Zenon

(* A reply that arrives waits at the end.                                  *)
LEMMA ArrivePuts ==
  ASSUME UdpInv, Sound, NEW r \in Reply, Arrive(r)
  PROVE  DownPart!Put \/ UNCHANGED DownPart!vars
<1>1. UNCHANGED <<type, msgs, delivered, rpos>>
  BY DEF Arrive, Session, task, bwd
<1>2. CASE down' = down
  BY <1>1, <1>2, DownStutter
<1>3. CASE Len(down) < Down /\ down' = Append(down, r)
  <2>1. RecvUnit' = RecvUnit
    BY <1>1, Units DEF UdpInv
  <2>2. PICK rd \in 0..Len(down) : rd = rpos \div RecvUnit /\ Len(msgs) <= rd
    BY ReadLemma, Zenon
  <2>3. msgs \in Seq(Nat) /\ Len(msgs) \in Nat /\ Len(down) \in Nat /\ down \in Seq(Reply)
    BY DEF UdpInv, ReplyOK
  <2>4. Len(down') = Len(down) + 1
    BY <1>3, <2>3
  <2>5. PICK q : q = Pending /\ q = Waiting(msgs, rd, Len(down))
    BY <2>2, PendingIs, Zenon
  <2>6. Pending' = Waiting(msgs, rd, Len(down) + 1)
    BY <1>1, <2>1, <2>2, <2>4, PendingIs
  <2>7. Pending' = Append(q, Len(down) + 1)
    BY <2>3, <2>5, <2>6, WaitingAppend, Zenon
  <2>8. Len(q) = Len(msgs) + (Len(down) - rd)
    <3>1. WaitingIs(q, msgs, rd, Len(down))
      BY <2>3, <2>5, WaitingLemma, Zenon
    <3> QED BY <3>1 DEF WaitingIs
  <2>9. Len(q) < Down /\ Len(down) + 1 \in 1..Down
    BY <1>3, <2>2, <2>3, <2>8, UdpAssumption
  <2>10. (~cut /\ pc # "ub")' = (~cut /\ pc # "ub")
    BY DEF Sound
  <2>11. [i \in 1..Len(delivered) |-> delivered[i][1]]' = [i \in 1..Len(delivered) |-> delivered[i][1]]
    BY <1>1
  <2> QED BY <2>5, <2>7, <2>9, <2>10, <2>11, Zenon DEF DownPart!Put
<1> QED BY <1>2, <1>3 DEF Arrive

(* The session starts as an empty channel.                                 *)
LEMMA DownStart == Init => DownPart!Init
<1> SUFFICES ASSUME Init PROVE DownPart!Init
  OBVIOUS
<1>1. /\ msgs = <<>> /\ down = <<>> /\ delivered = <<>> /\ rpos = 0 /\ cut = FALSE /\ pc # "ub"
  BY DEF Init
<1>2. RecvUnit \in Nat \ {0}
  BY UdpInit, Units DEF UdpInv
<1>3. Pending = Waiting(<<>>, 0, 0)
  <2>1. rpos \div RecvUnit = 0 /\ Len(down) = 0
    BY <1>1, <1>2
  <2> QED BY <1>1, <2>1, PendingIs, Zenon
<1>4. Pending = <<>>
  <2>1. <<>> \in Seq(Nat) /\ 0 \in Nat /\ 0 \in 0..0 /\ Len(<<>>) = 0
    OBVIOUS
  <2>2. PICK q : q = Pending /\ WaitingIs(q, <<>>, 0, 0)
    BY <1>3, <2>1, WaitingLemma, Zenon
  <2>3. q \in Seq(Nat) /\ Len(q) = 0
    BY <2>1, <2>2 DEF WaitingIs
  <2>4. q = <<>>
    BY <2>3
  <2> QED BY <2>2, <2>4
<1>5. [i \in 1..Len(delivered) |-> delivered[i][1]] = <<>>
  <2>1. 1..Len(delivered) = {}
    BY <1>1
  <2> QED BY <2>1
<1>6. (~cut /\ pc # "ub") = TRUE
  BY <1>1
<1> QED BY <1>4, <1>5, <1>6, Zenon DEF DownPart!Init

(* Every step of the session is a step of the channel towards the client.  *)
LEMMA DownStep ==
  ASSUME UdpInv, UdpInv', [Next]_vars
  PROVE  [DownPart!Next]_(DownPart!vars)
<1>1. CASE cut \/ pc = "ub"
  <2>1. ~(~cut /\ pc # "ub")
    BY <1>1
  <2> QED BY <2>1, Zenon DEF DownPart!Next
<1>2. CASE cut' \/ pc' = "ub"
  <2>1. (~cut /\ pc # "ub")' = FALSE
    BY <1>2
  <2> QED BY <2>1, Zenon DEF DownPart!Next, DownPart!Break
<1>3. CASE Sound
  <2>1. CASE UNCHANGED <<type, down, msgs, delivered, rpos>>
    <3>1. rpos' \div RecvUnit = rpos \div RecvUnit
      BY <2>1
    <3> QED BY <1>3, <2>1, <3>1, DownStutter
  <2>2. CASE Forward
    <3>1. UNCHANGED <<type, down, msgs, delivered, rpos>>
      BY <2>2 DEF Forward, FSkip, FBegin, SendWait, SendStop, Send, Stay, bwd, peer
    <3> QED BY <2>1, <3>1
  <2>3. CASE BSkip \/ BBegin \/ ReadWait \/ RecvUdpNone
    <3>1. UNCHANGED <<type, down, msgs, delivered, rpos>>
      BY <2>3 DEF BSkip, BBegin, ReadWait, RecvUdpNone, Stay, bwd, peer
    <3> QED BY <2>1, <3>1
  <2>4. CASE HeadRead
    BY <1>3, <2>4, HeadReadMoves, Zenon DEF DownPart!Next
  <2>5. CASE RestRead
    BY <1>3, <2>5, RestReadMoves, Zenon DEF DownPart!Next
  <2>6. CASE BodyRead
    BY <1>3, <2>6, BodyReadMoves, Zenon
  <2>7. CASE HeadNone \/ Full
    BY <1>3, <2>7, WholeMoves, Zenon DEF DownPart!Next
  <2>8. CASE RecvUdp
    BY <1>3, <2>8, RecvUdpMoves, Zenon DEF DownPart!Next
  <2>9. ~HeadLost /\ ~ReadStop
    BY <1>3 DEF Sound, HeadLost, ReadStop, Return, RestReturn, BodyReturn
  <2>10. CASE Backward
    BY <2>3, <2>4, <2>5, <2>6, <2>7, <2>8, <2>9, <2>10 DEF Backward
  <2>11. CASE Yield \/ Leave \/ Terminate \/ Poll \/ UNCHANGED vars
    <3>1. UNCHANGED <<type, down, msgs, delivered, rpos>>
      BY <2>11 DEF Yield, Leave, Destruct, Terminate, Poll, vars, task, bwd, peer
    <3> QED BY <2>1, <3>1
  <2>12. CASE Expire
    <3>1. UNCHANGED <<type, down, msgs, delivered, rpos>>
      BY <1>3, <2>12 DEF Sound, Expire, Destruct, Return, RestReturn, BodyReturn, bwd, peer
    <3> QED BY <2>1, <3>1
  <2>13. CASE RelayRead \/ RelayEof \/ RelayReset \/ CtlEof
    <3>1. UNCHANGED <<type, down, msgs, delivered, rpos>>
      BY <2>13 DEF RelayRead, RelayEof, RelayReset, CtlEof, Session, task, bwd, peer
    <3> QED BY <2>1, <3>1
  <2>14. ASSUME NEW h \in Host, Recv(h) PROVE [DownPart!Next]_(DownPart!vars)
    <3>1. UNCHANGED <<type, down, msgs, delivered, rpos>>
      BY <2>14 DEF Recv, bwd, peer
    <3> QED BY <2>1, <3>1
  <2>15. ASSUME NEW r \in Reply, Arrive(r) PROVE [DownPart!Next]_(DownPart!vars)
    BY <1>3, <2>15, ArrivePuts, Zenon DEF DownPart!Next
  <2> QED BY <2>2, <2>10, <2>11, <2>12, <2>13, <2>14, <2>15 DEF Next, Task, Finished
<1> QED BY <1>1, <1>2, <1>3 DEF Sound

(* Towards the client too the session is a channel of whole datagrams:     *)
(* whatever the pieces in which the stream arrives and wherever the calls  *)
(* of recvmmsg stop, replies are delivered or lost in order and at most    *)
(* once, unless a call stopped inside a frame.                             *)
THEOREM DownImplements == Spec => DownChannel
<1>1. UdpInv /\ UdpInv' /\ [Next]_vars => [DownPart!Next]_(DownPart!vars)
  BY DownStep
<1>2. Spec => DownPart!Spec
  BY <1>1, DownStart, UdpInvariant, PTL DEF Spec, DownPart!Spec
<1> QED BY <1>2 DEF DownChannel

=============================================================================
