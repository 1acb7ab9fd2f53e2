----------------------------- MODULE UdpSession -----------------------------
(***************************************************************************)
(* The data path of a UDP session: hev_socks5_session_udp_splice and       *)
(* udp_recv_handler of hev-socks5-session-udp.c over the relay protocols   *)
(* of core/src/hev-socks5-udp.c.                                           *)
(*                                                                         *)
(* With type "tcp" datagrams are framed in the stream of the connection to *)
(* the server, and calls may stop in the middle of a frame; with type      *)
(* "udp" they are datagrams of a second socket, and the end of the         *)
(* connection (ctl) ends the session.                                      *)
(*                                                                         *)
(* A frame towards the server has UpLen parts.  A frame from the server   *)
(* has the HeadLen bytes read first and BodyLen bytes of address and payload.    *)
(* Streams are counted: the byte rpos + 1 is the next one to read.         *)
(***************************************************************************)
EXTENDS Integers, Sequences

CONSTANTS
  Types,          \* HEV_SOCKS5_TYPE_UDP_IN_TCP, _UDP: subset of {"tcp", "udp"}
  num,            \* misc.udp-copy-buffer-nums
  UDP_POOL_SIZE,
  Host,           \* destinations
  Named,          \* those the client knows by an address of the mapped DNS
  NoHost,         \* no destination
  Runt,           \* a datagram of less than 4 bytes from the server
  Bad,            \* a frame or datagram with an address or length out of range
  UpLen, HeadLen, BodyLen,
  SockBuf,        \* send buffer of the socket, in parts of frames
  Up, Down        \* bounds: datagrams from the client and from the server

ASSUME UdpAssumption ==
  /\ Types \subseteq {"tcp", "udp"} /\ Named \subseteq Host
  /\ num \in Nat \ {0} /\ UDP_POOL_SIZE \in Nat
  /\ UpLen \in Nat \ {0} /\ HeadLen \in Nat \ {0} /\ BodyLen \in Nat \ {0}
  /\ SockBuf \in Nat \ {0} /\ Up \in Nat /\ Down \in Nat
  /\ NoHost \notin Host /\ Runt \notin Host /\ Bad \notin Host

VARIABLES
  type,           \* HevSocks5.type
  pc,             \* "f", "send", "b", "head", "rest", "body", "push", "y",
                  \* "done", "ub"
  state,          \* HevTaskState
  zero,           \* the time limit is 0
  res_f, res_b,
  frame_list,     \* datagrams of the client: <<number, destination>>
  named,          \* self->addr and self->port
  batch, size,    \* the sendmmsg under way: frames, and parts already sent
  msgs,           \* the recvmmsg under way: complete messages,
  got, more,      \*   bytes of the first recv, and of the recv with MSG_WAITALL
  ups,            \* datagrams the client sent
  wire, taken,    \* parts sent to the server, and how many it read
  down,           \* datagrams the server sent
  arrived, rpos,  \* bytes of them that arrived, and that were read
  eof, reset, ctl,\* the server closed; an error is pending; the connection of
                  \* a session of type "udp" is closed
  delivered,      \* datagrams given to the client: <<number, shown source>>
  torn, cut,      \* a frame to, from the server was left incomplete
  edge            \* an event of a socket is pending

task   == <<type, pc, state, zero, res_f, res_b>>
fwd    == <<frame_list, batch, size>>
bwd    == <<msgs, got, more>>
client == <<named, ups>>
peer   == <<taken, down, arrived, eof, ctl>>
hist   == <<torn, cut>>
vars == <<task, fwd, bwd, client, peer, hist, wire, rpos, reset, delivered, edge>>

Datagram == (1..Up) \X Host
Reply == Host \cup {Runt, Bad}

TypeOK ==
  /\ type \in Types
  /\ pc \in {"f", "send", "b", "head", "rest", "body", "push", "y", "done", "ub"}
  /\ state \in {"RUNNING", "WAITING"} /\ zero \in BOOLEAN
  /\ res_f \in -1..1 /\ res_b \in -1..1
  /\ frame_list \in Seq(Datagram) /\ Len(frame_list) <= UDP_POOL_SIZE + 1
  /\ named \in Named \cup {NoHost}
  /\ batch \in 0..num /\ size \in 0..(num * UpLen)
  /\ msgs \in Seq(Nat) /\ Len(msgs) <= num
  /\ got \in 0..HeadLen /\ more \in 0..(HeadLen + BodyLen)
  /\ ups \in 0..Up /\ taken \in 0..Len(wire)
  /\ down \in Seq(Reply) /\ Len(down) <= Down
  /\ arrived \in Nat /\ rpos \in 0..arrived
  /\ eof \in BOOLEAN /\ reset \in BOOLEAN /\ ctl \in BOOLEAN
  /\ delivered \in Seq((1..Down) \X (Host \cup {Runt}))
  /\ torn \in BOOLEAN /\ cut \in BOOLEAN /\ edge \in BOOLEAN

Init ==
  /\ type \in Types
  /\ pc = "f" /\ state = "RUNNING" /\ zero = FALSE /\ res_f = 1 /\ res_b = 1
  /\ frame_list = <<>> /\ batch = 0 /\ size = 0
  /\ msgs = <<>> /\ got = 0 /\ more = 0
  /\ named = NoHost /\ ups = 0
  /\ wire = <<>> /\ taken = 0 /\ down = <<>> /\ arrived = 0 /\ rpos = 0
  /\ eof = FALSE /\ reset = FALSE /\ ctl = FALSE
  /\ delivered = <<>> /\ torn = FALSE /\ cut = FALSE /\ edge = FALSE

Least(a, b) == IF a < b THEN a ELSE b
SendUnit == IF type = "tcp" THEN UpLen ELSE 1
RecvUnit == IF type = "tcp" THEN HeadLen + BodyLen ELSE 1
Total == batch * SendUnit
Room  == SockBuf - (Len(wire) - taken)
avail == arrived - rpos

-----------------------------------------------------------------------------
(* hev_socks5_session_udp_fwd_f and sendmmsg_tcp, sendmmsg_udp             *)

Running(p) == state = "RUNNING" /\ pc = p
Stay == UNCHANGED <<type, state, zero>>

(* Mutant: the yielder does not look at the connection.                    *)
Closed_Never == FALSE

(* The task_io_yielders: with type "udp" the end of the connection clears  *)
(* the time limit, and a time limit of 0 ends a WAITIO.                    *)
Closed == type = "udp" /\ ctl
NoTime == zero \/ Closed

FSkip ==
  /\ Running("f") /\ (res_f < 0 \/ frame_list = <<>>)
  /\ pc' = "b" /\ res_f' = Least(res_f, 0) /\ Stay
  /\ UNCHANGED <<res_b, fwd, bwd, client, peer, hist, wire, rpos, reset, delivered, edge>>

FBegin ==
  /\ Running("f") /\ res_f >= 0 /\ frame_list # <<>>
  /\ pc' = "send" /\ Stay
  /\ batch' = Least(num, Len(frame_list)) /\ size' = 0
  /\ UNCHANGED <<res_f, res_b, frame_list, bwd, client, peer, hist, wire, rpos, reset, delivered, edge>>

(* Mutant: one frame too few goes and is sent again.                       *)
Sent_Less(n) == (IF type = "tcp" THEN batch ELSE n) - 1

(* The call wrote n > 0 parts: sendmmsg_tcp reports the whole batch.       *)
Sent(n) == IF type = "tcp" THEN batch ELSE n

(* sendmmsg ends after n parts, and the frames that count as sent go.      *)
SendReturn(n) ==
  /\ pc' = "b"
  /\ res_f' = IF n > 0 THEN 1 ELSE -1
  /\ frame_list' = IF n > 0 THEN SubSeq(frame_list, Sent(n) + 1, Len(frame_list)) ELSE frame_list
  /\ torn' = (torn \/ n % SendUnit # 0)
  /\ batch' = 0 /\ size' = 0

Part(u) == <<frame_list[((u - 1) \div SendUnit) + 1], ((u - 1) % SendUnit) + 1>>

(* sendmsg, sendmmsg took s parts.                                         *)
Send(s) ==
  /\ Running("send") /\ ~reset /\ s <= Room /\ size + s <= Total
  /\ wire' = wire \o [i \in 1..s |-> Part(size + i)]
  /\ IF size + s = Total
     THEN SendReturn(Total)
     ELSE size' = size + s /\ UNCHANGED <<pc, res_f, frame_list, torn, batch>>
  /\ Stay
  /\ UNCHANGED <<res_b, bwd, client, peer, cut, rpos, reset, delivered, edge>>

(* EAGAIN                                                                  *)
SendWait ==
  /\ Running("send") /\ ~reset /\ Room = 0 /\ ~NoTime
  /\ state' = "WAITING"
  /\ UNCHANGED <<type, pc, zero, res_f, res_b, fwd, bwd, client, peer, hist, wire, rpos, reset, delivered, edge>>

(* An error, or the yielder returns -1.  An error of a datagram socket is  *)
(* reported once.                                                          *)
SendStop ==
  /\ Running("send")
  /\ \/ reset /\ reset' = (type = "tcp") /\ UNCHANGED zero
     \/ ~reset /\ Room = 0 /\ NoTime /\ zero' = TRUE /\ UNCHANGED reset
  /\ SendReturn(size)
  /\ UNCHANGED <<type, state, res_b, bwd, client, peer, cut, wire, rpos, delivered, edge>>

-----------------------------------------------------------------------------
(* hev_socks5_session_udp_fwd_b and recvmmsg_tcp, recvmmsg_udp             *)

(* Mutant: a direction with nothing to do is never tried again.            *)
BSkip_Idle ==
  /\ Running("b") /\ res_b <= 0
  /\ pc' = "y" /\ Stay
  /\ UNCHANGED <<res_f, res_b, fwd, bwd, client, peer, hist, wire, rpos, reset, delivered, edge>>

BSkip ==
  /\ Running("b") /\ res_b < 0
  /\ pc' = "y" /\ Stay
  /\ UNCHANGED <<res_f, res_b, fwd, bwd, client, peer, hist, wire, rpos, reset, delivered, edge>>

BBegin ==
  /\ Running("b") /\ res_b >= 0 /\ type = "tcp"
  /\ pc' = "head" /\ Stay
  /\ UNCHANGED <<res_f, res_b, fwd, bwd, client, peer, hist, wire, rpos, reset, delivered, edge>>

(* The source address the client sees.                                     *)
Shown(i) == IF named # NoHost THEN named ELSE down[i]

(* Mutant: every message refers to the first buffer.                       *)
Push_First(q, j) ==
  /\ delivered' = delivered \o [i \in 1..j |-> <<q[1], Shown(q[1])>>]
  /\ pc' = "y"
  /\ res_b' = IF j = Len(q) THEN 1 ELSE -1

(* The messages q go to lwIP; after j < Len(q) of them an address, a pbuf  *)
(* or udp_sendfrom fails.                                                  *)
Push(q, j) ==
  /\ delivered' = delivered \o [i \in 1..j |-> <<q[i], Shown(q[i])>>]
  /\ pc' = "y"
  /\ res_b' = IF j = Len(q) THEN 1 ELSE -1

Forget == msgs' = <<>> /\ got' = 0 /\ more' = 0

(* fwd_b gets the result v of recvmmsg_tcp.  A count of messages that were *)
(* never filled in is undefined behaviour.                                 *)
Result(v, again) ==
  /\ Forget
  /\ \/ /\ v > 0 /\ v <= Len(msgs)
        /\ \E j \in 0..v : Push(SubSeq(msgs, 1, v), j)
     \/ /\ v > 0 /\ v > Len(msgs)
        /\ pc' = "ub" /\ UNCHANGED <<res_b, delivered>>
     \/ /\ v <= 0
        /\ pc' = "y" /\ res_b' = IF v = -1 /\ again THEN 0 ELSE -1
        /\ UNCHANGED delivered

(* The head of a frame was not complete: the messages before it count.     *)
HeadResult(v, again) ==
  IF msgs # <<>> THEN Result(Len(msgs), FALSE) ELSE Result(v, again)

(* What recv returns when there is nothing to read, if it does not wait.   *)
EndOf == IF eof /\ ~reset THEN 0 ELSE -1

(* The frame of the byte rpos, and whether the next byte starts a frame.   *)
Current == ((rpos - 1) \div RecvUnit) + 1
InStep == rpos % RecvUnit = 0

(* Mutant: a frame that is out of range is skipped without its body.       *)
HeadKnown_Skip(i) ==
  /\ pc' = IF down[i] = Bad THEN "head" ELSE "body"
  /\ got' = 0 /\ more' = 0 /\ UNCHANGED <<res_b, msgs>>

(* HeadLen bytes are known: hdrlen and datlen.                                *)
HeadKnown(i) ==
  \/ /\ down[i] = Bad
     /\ pc' = "y" /\ res_b' = -1 /\ Forget
  \/ /\ down[i] # Bad
     /\ pc' = "body" /\ got' = 0 /\ more' = 0 /\ UNCHANGED <<res_b, msgs>>

HeadRead ==
  /\ Running("head") /\ avail > 0 /\ InStep
  /\ LET s == Least(avail, HeadLen)
     IN  /\ rpos' = rpos + s
         /\ IF s = HeadLen THEN HeadKnown((rpos \div RecvUnit) + 1)
            ELSE pc' = "rest" /\ got' = s /\ more' = 0 /\ UNCHANGED <<res_b, msgs>>
  /\ Stay
  /\ UNCHANGED <<res_f, fwd, client, peer, hist, wire, reset, delivered, edge>>

(* The stream is read out of step: any bytes are taken for a head.         *)
HeadLost ==
  /\ Running("head") /\ avail > 0 /\ ~InStep
  /\ pc' = "ub" /\ Stay
  /\ UNCHANGED <<res_f, res_b, fwd, bwd, client, peer, hist, wire, rpos, reset, delivered, edge>>

HeadNone ==
  /\ Running("head") /\ avail = 0
  /\ HeadResult(EndOf, ~eof /\ ~reset)
  /\ Stay
  /\ UNCHANGED <<res_f, fwd, client, peer, hist, wire, rpos, reset, edge>>

(* The rest of a head, with MSG_WAITALL                                    *)
RestRead ==
  /\ Running("rest") /\ avail > 0
  /\ LET s == Least(avail, HeadLen - got - more)
     IN  /\ rpos' = rpos + s
         /\ IF got + more + s = HeadLen THEN HeadKnown(Current)
            ELSE more' = more + s /\ UNCHANGED <<pc, got, res_b, msgs>>
  /\ Stay
  /\ UNCHANGED <<res_f, fwd, client, peer, hist, wire, reset, delivered, edge>>

(* The second recv ends with r before it read a byte, or with its bytes,   *)
(* and the sum is the result.  errno may still be EAGAIN.                  *)
RestReturn(r) ==
  /\ \E again \in BOOLEAN : HeadResult(got + (IF more > 0 THEN more ELSE r), again)
  /\ cut' = TRUE

BodyRead ==
  /\ Running("body") /\ avail > 0
  /\ LET s == Least(avail, BodyLen - more)
     IN  /\ rpos' = rpos + s
         /\ IF more + s = BodyLen
            THEN /\ msgs' = Append(msgs, Current)
                 /\ more' = 0
                 /\ IF Len(msgs) + 1 = num THEN pc' = "push" ELSE pc' = "head"
            ELSE more' = more + s /\ UNCHANGED <<pc, msgs>>
  /\ Stay
  /\ UNCHANGED <<res_f, res_b, fwd, got, client, peer, hist, wire, reset, delivered, edge>>

(* recvmsg was cut short: its byte count is the result.                    *)
BodyReturn(r) ==
  /\ Result(IF more > 0 THEN more ELSE r, FALSE)
  /\ cut' = TRUE

(* All messages are complete.                                              *)
Full ==
  /\ Running("push")
  /\ Result(Len(msgs), FALSE)
  /\ Stay
  /\ UNCHANGED <<res_f, fwd, client, peer, hist, wire, rpos, reset, edge>>

Return(r) == (pc = "rest" /\ RestReturn(r)) \/ (pc = "body" /\ BodyReturn(r))

ReadWait ==
  /\ state = "RUNNING" /\ pc \in {"rest", "body"}
  /\ avail = 0 /\ ~eof /\ ~reset /\ ~zero
  /\ state' = "WAITING"
  /\ UNCHANGED <<type, pc, zero, res_f, res_b, fwd, bwd, client, peer, hist, wire, rpos, reset, delivered, edge>>

ReadStop ==
  /\ state = "RUNNING" /\ pc \in {"rest", "body"} /\ avail = 0
  /\ Return(IF eof \/ reset THEN EndOf ELSE -2)
  /\ eof \/ reset \/ zero
  /\ Stay
  /\ UNCHANGED <<res_f, fwd, client, peer, torn, wire, rpos, reset, edge>>

(* recvmmsg_udp: all of up to num datagrams are looked at first.  A runt   *)
(* keeps no address, which fwd_b does not test.                            *)
RecvUdp ==
  /\ Running("b") /\ res_b >= 0 /\ type = "udp" /\ ~reset /\ avail > 0
  /\ LET n == Least(num, avail)
         q == [i \in 1..n |-> rpos + i]
     IN  /\ rpos' = rpos + n
         /\ \/ /\ \E i \in 1..n : down[q[i]] = Bad
               /\ pc' = "y" /\ res_b' = -1 /\ UNCHANGED delivered
            \/ /\ \A i \in 1..n : down[q[i]] # Bad
               /\ \E j \in 0..n :
                    /\ \A i \in 1..j : down[q[i]] # Runt \/ named # NoHost
                    /\ \/ Push(q, j)
                       \/ /\ j < n /\ down[q[j + 1]] = Runt /\ named = NoHost
                          /\ pc' = "ub" /\ UNCHANGED <<res_b, delivered>>
  /\ Stay
  /\ UNCHANGED <<res_f, fwd, bwd, client, peer, hist, wire, reset, edge>>

RecvUdpNone ==
  /\ Running("b") /\ res_b >= 0 /\ type = "udp" /\ (reset \/ avail = 0)
  /\ pc' = "y" /\ reset' = FALSE
  /\ res_b' = IF reset THEN -1 ELSE 0
  /\ Stay
  /\ UNCHANGED <<res_f, fwd, bwd, client, peer, hist, wire, rpos, delivered, edge>>
-----------------------------------------------------------------------------
(* hev_socks5_session_udp_splice                                           *)

Busy == res_f > 0 \/ res_b > 0
Open == res_f >= 0 \/ res_b >= 0

Yield ==
  /\ Running("y") /\ Open /\ ~Closed /\ (Busy \/ ~zero)
  /\ pc' = "f"
  /\ state' = IF Busy THEN "RUNNING" ELSE "WAITING"
  /\ UNCHANGED <<type, zero, res_f, res_b, fwd, bwd, client, peer, hist, wire, rpos, reset, delivered, edge>>

(* hev_socks5_session_udp_destruct follows without a yield.                *)
Destruct ==
  /\ pc' = "done" /\ state' = "RUNNING" /\ frame_list' = <<>>
  /\ UNCHANGED <<type, zero, res_f, res_b, batch, size, bwd, client, peer, hist, wire, rpos, reset, delivered, edge>>

Leave ==
  /\ Running("y")
  /\ ~Open \/ Closed \/ (~Busy /\ zero)
  /\ Destruct

(* The time limit of a wait runs out.                                      *)
Expire ==
  /\ state = "WAITING"
  /\ \/ pc = "f" /\ Destruct
     \/ /\ pc = "send" /\ SendReturn(size) /\ state' = "RUNNING"
        /\ UNCHANGED <<type, zero, res_b, bwd, client, peer, cut, wire, rpos, reset, delivered, edge>>
     \/ /\ pc \in {"rest", "body"} /\ Return(-2) /\ state' = "RUNNING"
        /\ UNCHANGED <<type, zero, res_f, fwd, client, peer, torn, wire, rpos, reset, edge>>

-----------------------------------------------------------------------------
(* Callbacks of lwIP and of the tunnel, where the task may be suspended.   *)

Suspended == pc \in {"f", "send", "rest", "body"}
Wake == state' = "RUNNING"

(* udp_recv_handler drops a datagram when the pool is full.                *)
Admit == Len(frame_list) <= UDP_POOL_SIZE

(* Mutant: the task is not woken.                                          *)
Recv_NoWake(h) ==
  /\ Suspended /\ ups < Up
  /\ ups' = ups + 1
  /\ IF Admit
     THEN /\ frame_list' = Append(frame_list, <<ups + 1, h>>)
          /\ named' = IF h \in Named THEN h ELSE named
     ELSE UNCHANGED <<frame_list, named>>
  /\ UNCHANGED <<task, batch, size, bwd, peer, hist, wire, rpos, reset, delivered, edge>>

(* udp_recv_handler: a datagram of the client for h.  lwIP passes it to    *)
(* the session of its source address, whatever its destination.            *)
Recv(h) ==
  /\ Suspended /\ ups < Up
  /\ ups' = ups + 1
  /\ IF Admit
     THEN /\ frame_list' = Append(frame_list, <<ups + 1, h>>)
          /\ named' = IF h \in Named THEN h ELSE named
          /\ Wake
     ELSE UNCHANGED <<frame_list, named, state>>
  /\ UNCHANGED <<type, pc, zero, res_f, res_b, batch, size, bwd, peer, hist, wire, rpos, reset, delivered, edge>>

(* hev_socks5_session_terminate: eviction or stop.                         *)
Terminate ==
  /\ Suspended /\ ~zero
  /\ zero' = TRUE /\ Wake
  /\ UNCHANGED <<type, pc, res_f, res_b, fwd, bwd, client, peer, hist, wire, rpos, reset, delivered, edge>>

-----------------------------------------------------------------------------
(* The sockets, their edge-triggered events, and the server.               *)

Poll ==
  /\ edge /\ Suspended
  /\ edge' = FALSE /\ Wake
  /\ UNCHANGED <<type, pc, zero, res_f, res_b, fwd, bwd, client, peer, hist, wire, rpos, reset, delivered>>

Alive == pc \notin {"done", "ub"}
Session == <<task, fwd, bwd, client, hist, wire, rpos, delivered>>

(* The next byte arrives, or the next datagram; r is what it belongs to.   *)
Arrive(r) ==
  /\ Alive /\ ~eof /\ ~reset /\ (r = Runt => type = "udp")
  /\ IF arrived = Len(down) * RecvUnit
     THEN Len(down) < Down /\ down' = Append(down, r)
     ELSE r = down[Len(down)] /\ UNCHANGED down
  /\ arrived' = arrived + 1 /\ edge' = TRUE
  /\ UNCHANGED <<Session, taken, eof, ctl, reset>>

RelayRead ==
  /\ Alive /\ taken < Len(wire)
  /\ taken' = Len(wire)
  /\ edge' = (edge \/ Room = 0)
  /\ UNCHANGED <<Session, down, arrived, eof, ctl, reset>>

(* The server closes the stream, after a frame or inside one.              *)
RelayEof ==
  /\ Alive /\ type = "tcp" /\ ~eof /\ ~reset
  /\ eof' = TRUE /\ edge' = TRUE
  /\ UNCHANGED <<Session, taken, down, arrived, ctl, reset>>

RelayReset ==
  /\ Alive /\ ~reset
  /\ reset' = TRUE /\ edge' = TRUE
  /\ UNCHANGED <<Session, peer>>

CtlEof ==
  /\ Alive /\ type = "udp" /\ ~ctl
  /\ ctl' = TRUE /\ edge' = TRUE
  /\ UNCHANGED <<Session, taken, down, arrived, eof, reset>>

-----------------------------------------------------------------------------
Forward == FSkip \/ FBegin \/ SendWait \/ SendStop \/ \E s \in 1..SockBuf : Send(s)
Backward ==
  \/ BSkip \/ BBegin \/ HeadRead \/ HeadLost \/ HeadNone \/ RestRead \/ BodyRead
  \/ Full \/ ReadWait \/ ReadStop \/ RecvUdp \/ RecvUdpNone
Task == Forward \/ Backward \/ Yield \/ Leave
Finished == ~Alive /\ UNCHANGED vars

Next ==
  \/ Task \/ Expire \/ Terminate \/ Poll
  \/ \E h \in Host : Recv(h)
  \/ \E r \in Reply : Arrive(r)
  \/ RelayRead \/ RelayEof \/ RelayReset \/ CtlEof
  \/ Finished

Spec == Init /\ [][Next]_vars

(* The task runs, events are collected, the network carries what was sent  *)
(* and the server reads.                                                   *)
FairSpec ==
  /\ Spec
  /\ WF_vars(Task) /\ WF_vars(Poll) /\ WF_vars(RelayRead)
  /\ WF_vars(arrived < Len(down) * RecvUnit /\ \E r \in Reply : Arrive(r))

-----------------------------------------------------------------------------
(* Properties.                                                             *)

(* The state is typed, and undefined behaviour of fwd_b needs a frame that *)
(* was cut by the end of the stream, an error or the time limit, or a      *)
(* runt: otherwise the result of recvmmsg is the number of messages.       *)
CountExact == TypeOK /\ (pc = "ub" => cut \/ \E i \in 1..Len(down) : down[i] = Runt)

(* The datagrams the server finds in what was sent, with 0 for one whose   *)
(* parts do not belong together.                                           *)
Parsed ==
  [i \in 1..(Len(wire) \div SendUnit) |->
     LET first == wire[(i - 1) * SendUnit + 1]
     IN  IF \A k \in 1..SendUnit : wire[(i - 1) * SendUnit + k] = <<first[1], k>>
         THEN first[1] ELSE 0]

UpPart == INSTANCE DatagramChannel WITH
  Datagram <- Datagram, Cap <- UDP_POOL_SIZE + 1,
  queue <- SubSeq(frame_list, (size \div SendUnit) + 1, Len(frame_list)),
  out <- Parsed, intact <- ~torn

(* Towards the server the session is a channel of whole datagrams that     *)
(* holds at most UDP_POOL_SIZE + 1 of them: none is doubled, overtaken or  *)
(* mixed up while sendmmsg sends a batch in parts, unless a call returned  *)
(* inside a frame.                                                         *)
UpChannel == UpPart!Spec

(* The replies that are neither delivered nor lost.                        *)
Pending ==
  LET read == rpos \div RecvUnit
  IN  msgs \o [i \in 1..(Len(down) - read) |-> read + i]

DownPart == INSTANCE DatagramChannel WITH
  Datagram <- 1..Down, Cap <- Down,
  queue <- Pending,
  out <- [i \in 1..Len(delivered) |-> delivered[i][1]],
  intact <- ~cut /\ pc # "ub"

(* Towards the client too, whatever the pieces in which the stream arrives *)
(* and wherever the calls stop, unless they stop inside a frame.           *)
DownChannel == DownPart!Spec

(* A datagram that was taken leaves the queue, unless a direction closed   *)
(* or the session ended.  The other direction matters: if the datagram     *)
(* comes while fwd_b waits inside a frame and fwd_b then fails, the wakeup *)
(* is used up, res_f still says that there is nothing to send, and the     *)
(* datagram waits for the next event.                                      *)
Forwarded ==
  \A n \in 1..Up :
    (\E i \in 1..Len(frame_list) : frame_list[i][1] = n)
      ~> \/ \A i \in 1..Len(frame_list) : frame_list[i][1] # n
         \/ res_f < 0 \/ res_b < 0 \/ cut \/ ~Alive

(* A reply that was sent leaves the socket, unless the direction closed or *)
(* the session ended.                                                      *)
Answered ==
  \A n \in 1..Down :
    Len(down) >= n ~> rpos >= n * RecvUnit \/ res_b < 0 \/ eof \/ reset \/ ~Alive

(* A session of type "udp" does not outlive its connection to the server.  *)
EndsWithConnection == ctl ~> ~Alive
=============================================================================
