----------------------------- MODULE TcpSplice ------------------------------
(***************************************************************************)
(* The data path of a TCP session: hev_socks5_session_tcp_splice and the   *)
(* lwIP callbacks of hev-socks5-session-tcp.c, with the ring buffer of     *)
(* hev-ring-buffer.c.                                                      *)
(*                                                                         *)
(* Downstream bytes are read from the server's socket into the ring and    *)
(* handed to lwIP by reference, so a byte of the ring must not change      *)
(* before the client acknowledged it.  Upstream bytes wait in a queue of   *)
(* pbufs and open the receive window again when they were written.         *)
(*                                                                         *)
(* The task and the callbacks of lwIP share one thread: callbacks come     *)
(* only where the task yields, at pc "f" and pc "drain".                   *)
(***************************************************************************)
EXTENDS Integers, Sequences

CONSTANTS
  max,            \* ring size: misc.tcp-buffer-size, at most TCP_SND_BUF
  Wnd,            \* TCP_WND
  SockBuf,        \* send buffer of the server's socket
  MemErr,         \* whether lwIP may be short of memory: {FALSE}, {TRUE} or both
  Down,           \* bound: bytes the server sends
  Up              \* bound: bytes the client sends

ASSUME SizeAssumption ==
  /\ max \in Nat \ {0} /\ Wnd \in Nat \ {0} /\ SockBuf \in Nat \ {0}
  /\ MemErr \in SUBSET BOOLEAN
  /\ Down \in Nat /\ Up \in Nat

VARIABLES
  memerr,         \* tcp_write and tcp_output may fail in this behaviour
  pc,             \* "f", "b", "w", "y", "drain", "done"
  state,          \* HevTaskState
  zero,           \* the time limit is 0
  res_f, res_b,
  rp, wp, rda_size, use_size,
  data,           \* the number of the byte in each place of the ring
  pcb,            \* self->pcb is set
  seg,            \* places of the bytes lwIP holds, oldest first
  acked,          \* bytes the client acknowledged
  fin,            \* tcp_shutdown was called
  queue, pcb_eof, \* bytes from the client, and its end
  rcv_wnd,        \* receive window of the pcb
  shut,           \* shutdown (fd, SHUT_WR) was called
  sent, avail,    \* bytes the server sent, and those still in the socket
  srv_eof, reset, \* the server closed or reset the connection
  sndq,           \* bytes in the send buffer of the socket
  up,             \* bytes the client sent
  edge            \* an event of the socket is pending

task  == <<pc, state, zero, res_f, res_b>>
ring  == <<rp, wp, rda_size, use_size, data>>
lwip  == <<memerr, pcb, seg, acked, fin, rcv_wnd>>
uplink == <<queue, pcb_eof, shut, up>>
socket == <<sent, avail, srv_eof, reset, sndq, edge>>
vars  == <<task, ring, lwip, uplink, socket>>

Place == 0..(max - 1)

TypeOK ==
  /\ memerr \in MemErr
  /\ pc \in {"f", "b", "w", "y", "drain", "done"}
  /\ state \in {"RUNNING", "WAITING"}
  /\ zero \in BOOLEAN /\ res_f \in -1..1 /\ res_b \in -1..1
  /\ rp \in Place /\ wp \in Place
  /\ rda_size \in 0..max /\ use_size \in 0..max
  /\ data \in [Place -> Nat]
  /\ pcb \in BOOLEAN /\ seg \in Seq(Place) /\ acked \in Nat /\ fin \in BOOLEAN
  /\ queue \in 0..Wnd /\ pcb_eof \in BOOLEAN /\ rcv_wnd \in 0..Wnd
  /\ shut \in BOOLEAN
  /\ sent \in 0..Down /\ avail \in 0..Down
  /\ srv_eof \in BOOLEAN /\ reset \in BOOLEAN
  /\ sndq \in 0..SockBuf /\ up \in 0..Up /\ edge \in BOOLEAN

(* hev_socks5_session_tcp_splice is called with a pcb.                     *)
Init ==
  /\ memerr \in MemErr
  /\ pc = "f" /\ state = "RUNNING" /\ zero = FALSE /\ res_f = 1 /\ res_b = 1
  /\ rp = 0 /\ wp = 0 /\ rda_size = 0 /\ use_size = 0
  /\ data = [p \in Place |-> 0]
  /\ pcb = TRUE /\ seg = <<>> /\ acked = 0 /\ fin = FALSE /\ rcv_wnd = Wnd
  /\ queue = 0 /\ pcb_eof = FALSE /\ shut = FALSE /\ up = 0
  /\ sent = 0 /\ avail = 0 /\ srv_eof = FALSE /\ reset = FALSE
  /\ sndq = 0 /\ edge = FALSE

-----------------------------------------------------------------------------
(* hev-ring-buffer.c.  An iovec is the sequence of its places.             *)

Span(p, n) == [i \in 1..n |-> p + i - 1]
Iov(p, n) ==
  IF n <= max - p THEN <<Span(p, n)>>
                  ELSE <<Span(p, max - p), Span(0, n - (max - p))>>
Flat(iov) == IF Len(iov) = 2 THEN iov[1] \o iov[2] ELSE iov[1]

Room == max - use_size
Writing == IF Room = 0 THEN <<>> ELSE Iov(wp, Room)
Reading == IF rda_size = 0 THEN <<>> ELSE Iov(rp, rda_size)

(* readv of s bytes, hev_ring_buffer_write_finish                          *)
WriteFinish(s) ==
  LET places == Flat(Writing)
  IN  /\ data' = [p \in Place |->
                    IF \E i \in 1..s : places[i] = p
                    THEN sent - avail + (CHOOSE i \in 1..s : places[i] = p)
                    ELSE data[p]]
      /\ wp' = (wp + s) % max
      /\ use_size' = use_size + s
      /\ rda_size' = rda_size + s
      /\ UNCHANGED rp

ReadFinish(s) ==
  /\ rp' = (rp + s) % max
  /\ rda_size' = rda_size - s
  /\ UNCHANGED <<wp, use_size, data>>

(* Mutant: the pointers go back to 0 as soon as everything was read.       *)
ReadRelease_AllRead(s) ==
  /\ use_size' = use_size - s
  /\ rp' = IF rda_size = 0 THEN 0 ELSE rp
  /\ wp' = IF rda_size = 0 THEN 0 ELSE wp
  /\ UNCHANGED <<rda_size, data>>

ReadRelease(s) ==
  /\ use_size' = use_size - s
  /\ rp' = IF use_size' = 0 THEN 0 ELSE rp
  /\ wp' = IF use_size' = 0 THEN 0 ELSE wp
  /\ UNCHANGED <<rda_size, data>>

-----------------------------------------------------------------------------
(* The task.                                                               *)

Run(p, q) == state = "RUNNING" /\ pc = p /\ pc' = q /\ UNCHANGED <<state, zero>>

FSkip ==
  /\ Run("f", "b") /\ res_f < 0
  /\ UNCHANGED <<res_f, res_b, ring, lwip, uplink, socket>>

(* Mutant: the window is not opened again.                                 *)
Recved_Never(s) == UNCHANGED rcv_wnd

(* tcp_recved, if there is still a pcb                                     *)
Recved(s) == rcv_wnd' = IF pcb THEN rcv_wnd + s ELSE rcv_wnd

(* tcp_splice_f: writev took s bytes.                                      *)
FWrite(s) ==
  /\ Run("f", "b") /\ res_f >= 0
  /\ queue > 0 /\ ~reset /\ s <= queue /\ sndq + s <= SockBuf
  /\ queue' = queue - s
  /\ sndq' = sndq + s
  /\ Recved(s)
  /\ res_f' = 1
  /\ UNCHANGED <<res_b, ring, memerr, pcb, seg, acked, fin, pcb_eof, shut, up>>
  /\ UNCHANGED <<sent, avail, srv_eof, reset, edge>>

(* Nothing to write yet, or EAGAIN.                                        *)
FNothing ==
  /\ Run("f", "b") /\ res_f >= 0
  /\ \/ queue = 0 /\ ~pcb_eof
     \/ queue > 0 /\ ~reset /\ sndq = SockBuf
  /\ res_f' = 0
  /\ UNCHANGED <<res_b, ring, lwip, uplink, socket>>

FError ==
  /\ Run("f", "b") /\ res_f >= 0
  /\ queue > 0 /\ reset
  /\ res_f' = -1
  /\ UNCHANGED <<res_b, ring, lwip, uplink, socket>>

(* Mutant: the end of the client's stream comes before its last bytes.     *)
FEnd_First ==
  /\ Run("f", "b") /\ res_f >= 0
  /\ pcb_eof
  /\ shut' = TRUE
  /\ res_f' = -1
  /\ UNCHANGED <<res_b, ring, lwip, queue, pcb_eof, up, socket>>

(* The queue is empty and the client has ended: shutdown (fd, SHUT_WR).    *)
FEnd ==
  /\ Run("f", "b") /\ res_f >= 0
  /\ queue = 0 /\ pcb_eof
  /\ shut' = TRUE
  /\ res_f' = -1
  /\ UNCHANGED <<res_b, ring, lwip, queue, pcb_eof, up, socket>>

BSkip ==
  /\ Run("b", "y") /\ res_b < 0
  /\ UNCHANGED <<res_f, res_b, ring, lwip, uplink, socket>>

(* tcp_splice_b: readv brought s bytes.                                    *)
BRead(s) ==
  /\ Run("b", "w") /\ res_b >= 0
  /\ Room > 0 /\ s <= Room /\ s <= avail
  /\ WriteFinish(s)
  /\ avail' = avail - s
  /\ res_b' = 1
  /\ UNCHANGED <<res_f, lwip, uplink, sent, srv_eof, reset, sndq, edge>>

(* Mutant: readv into a full ring returns 0 and looks like the end.        *)
BResult_FullIsEnd ==
  IF Room > 0 /\ ~reset /\ ~srv_eof THEN 0 ELSE -1

(* readv brought nothing: the ring is full, EAGAIN, or the end or an error *)
(* of the connection.                                                      *)
BResult == IF Room > 0 /\ (reset \/ srv_eof) THEN -1 ELSE 0

BNoRead ==
  /\ Run("b", "w") /\ res_b >= 0
  /\ Room = 0 \/ reset \/ avail = 0
  /\ res_b' = BResult
  /\ UNCHANGED <<res_f, ring, lwip, uplink, socket>>

(* tcp_write for every iovec, tcp_output.  `ok' says which tcp_write       *)
(* succeeded; read_finish counts all of them.                              *)
BWrite(ok, out) ==
  /\ Run("w", "y") /\ pcb /\ rda_size > 0
  /\ DOMAIN ok = 1..Len(Reading)
  /\ LET Taken(i) == IF ok[i] THEN Reading[i] ELSE <<>>
     IN  seg' = seg \o Flat([i \in 1..Len(Reading) |-> Taken(i)])
  /\ ReadFinish(rda_size)
  /\ res_b' = IF out /\ \A i \in DOMAIN ok : ok[i] THEN 1 ELSE -1
  /\ UNCHANGED <<res_f, memerr, pcb, acked, fin, rcv_wnd, uplink, socket>>

(* All was handed over: tcp_shutdown after the server's end.               *)
BEmpty ==
  /\ Run("w", "y") /\ pcb /\ rda_size = 0
  /\ fin' = (fin \/ res_b < 0)
  /\ UNCHANGED <<res_f, res_b, ring, memerr, pcb, seg, acked, rcv_wnd, uplink, socket>>

BNoPcb ==
  /\ Run("w", "y") /\ ~pcb
  /\ res_b' = -1
  /\ UNCHANGED <<res_f, ring, lwip, uplink, socket>>

Busy == res_f > 0 \/ res_b > 0
Open == res_f >= 0 \/ res_b >= 0

(* HEV_TASK_YIELD, or HEV_TASK_WAITIO with a time limit.                   *)
Yield ==
  /\ state = "RUNNING" /\ pc = "y" /\ Open /\ (Busy \/ ~zero)
  /\ pc' = "f"
  /\ state' = IF Busy THEN "RUNNING" ELSE "WAITING"
  /\ UNCHANGED <<zero, res_f, res_b, ring, lwip, uplink, socket>>

(* Both directions are closed, or the yielder finds a time limit of 0.     *)
Leave ==
  /\ Run("y", "drain")
  /\ ~Open \/ (~Busy /\ zero)
  /\ UNCHANGED <<res_f, res_b, ring, lwip, uplink, socket>>

DrainWait ==
  /\ state = "RUNNING" /\ pc = "drain" /\ pcb /\ use_size > 0 /\ ~zero
  /\ state' = "WAITING"
  /\ UNCHANGED <<pc, zero, res_f, res_b, ring, lwip, uplink, socket>>

(* hev_socks5_session_tcp_destruct follows without a yield: tcp_abort, and *)
(* the queue is freed.                                                     *)
Destruct ==
  /\ pc' = "done" /\ state' = "RUNNING"
  /\ pcb' = FALSE /\ seg' = <<>> /\ queue' = 0
  /\ UNCHANGED <<zero, res_f, res_b, ring, memerr, acked, fin, rcv_wnd, pcb_eof, shut, up, socket>>

DrainEnd ==
  /\ state = "RUNNING" /\ pc = "drain" /\ (~pcb \/ use_size = 0 \/ zero)
  /\ Destruct

(* The time limit of the wait runs out.                                    *)
Expire ==
  /\ state = "WAITING"
  /\ \/ /\ pc = "f" /\ pc' = "drain" /\ state' = "RUNNING"
        /\ UNCHANGED <<zero, res_f, res_b, ring, lwip, uplink, socket>>
     \/ pc = "drain" /\ Destruct

-----------------------------------------------------------------------------
(* Callbacks of lwIP, called from the io task or the timer task.           *)

Callback == pc \in {"f", "drain"} /\ UNCHANGED <<pc, zero, res_f, res_b>>
Wake == state' = "RUNNING"

(* tcp_recv_handler: a segment of n bytes inside the window.  It is        *)
(* refused if the queue already holds more than the window.                *)
Recv(n) ==
  /\ Callback /\ pcb /\ ~pcb_eof
  /\ n <= rcv_wnd /\ up + n <= Up /\ queue <= Wnd
  /\ queue' = queue + n
  /\ rcv_wnd' = rcv_wnd - n
  /\ up' = up + n
  /\ Wake
  /\ UNCHANGED <<ring, memerr, pcb, seg, acked, fin, pcb_eof, shut, socket>>

(* Mutant: the task is not woken.                                          *)
RecvEof_NoWake ==
  /\ Callback /\ pcb /\ ~pcb_eof
  /\ pcb_eof' = TRUE
  /\ UNCHANGED <<state, ring, lwip, queue, shut, up, socket>>

RecvEof ==
  /\ Callback /\ pcb /\ ~pcb_eof
  /\ pcb_eof' = TRUE
  /\ Wake
  /\ UNCHANGED <<ring, lwip, queue, shut, up, socket>>

(* Mutant: the task is not woken.                                          *)
Sent_NoWake(n) ==
  /\ Callback /\ pcb /\ n <= Len(seg)
  /\ ReadRelease(n)
  /\ seg' = SubSeq(seg, n + 1, Len(seg))
  /\ acked' = acked + n
  /\ UNCHANGED <<state, memerr, pcb, fin, rcv_wnd, uplink, socket>>

(* tcp_sent_handler: the client acknowledged n more bytes.                 *)
Sent(n) ==
  /\ Callback /\ pcb /\ n <= Len(seg)
  /\ ReadRelease(n)
  /\ seg' = SubSeq(seg, n + 1, Len(seg))
  /\ acked' = acked + n
  /\ Wake
  /\ UNCHANGED <<memerr, pcb, fin, rcv_wnd, uplink, socket>>

(* tcp_err_handler: lwIP freed the pcb, after a reset or at the end of the *)
(* last handshake; the session is terminated.                              *)
Err ==
  /\ pc \in {"f", "drain"} /\ pcb
  /\ pcb' = FALSE /\ seg' = <<>>
  /\ zero' = TRUE
  /\ Wake
  /\ UNCHANGED <<pc, res_f, res_b, ring, memerr, acked, fin, rcv_wnd, uplink, socket>>

(* hev_socks5_session_terminate: eviction or stop.                         *)
Terminate ==
  /\ pc \in {"f", "drain"} /\ ~zero
  /\ zero' = TRUE
  /\ Wake
  /\ UNCHANGED <<pc, res_f, res_b, ring, lwip, uplink, socket>>

-----------------------------------------------------------------------------
(* The socket of the server and its edge-triggered events.                 *)

Poll ==
  /\ edge /\ pc \in {"f", "drain"}
  /\ edge' = FALSE
  /\ Wake
  /\ UNCHANGED <<pc, zero, res_f, res_b, ring, lwip, uplink>>
  /\ UNCHANGED <<sent, avail, srv_eof, reset, sndq>>

ServerSend ==
  /\ pc # "done" /\ ~srv_eof /\ ~reset /\ sent < Down
  /\ sent' = sent + 1 /\ avail' = avail + 1 /\ edge' = TRUE
  /\ UNCHANGED <<task, ring, lwip, uplink, srv_eof, reset, sndq>>

ServerEof ==
  /\ pc # "done" /\ ~srv_eof /\ ~reset
  /\ srv_eof' = TRUE /\ edge' = TRUE
  /\ UNCHANGED <<task, ring, lwip, uplink, sent, avail, reset, sndq>>

ServerReset ==
  /\ pc # "done" /\ ~reset
  /\ reset' = TRUE /\ edge' = TRUE
  /\ UNCHANGED <<task, ring, lwip, uplink, sent, avail, srv_eof, sndq>>

ServerRecv ==
  /\ pc # "done" /\ sndq > 0 /\ ~reset
  /\ sndq' = sndq - 1
  /\ edge' = (edge \/ sndq = SockBuf)
  /\ UNCHANGED <<task, ring, lwip, uplink, sent, avail, srv_eof, reset>>

-----------------------------------------------------------------------------
Forward == FSkip \/ FNothing \/ FError \/ FEnd \/ \E s \in 1..SockBuf : FWrite(s)
Oks == [1..1 -> BOOLEAN] \cup [1..2 -> BOOLEAN]
Backward ==
  \/ BSkip \/ BNoRead \/ BEmpty \/ BNoPcb
  \/ \E s \in 1..max : BRead(s)
  \/ \E ok \in Oks, out \in BOOLEAN :
       /\ memerr \/ (out /\ \A i \in DOMAIN ok : ok[i])
       /\ BWrite(ok, out)
Task == Forward \/ Backward \/ Yield \/ Leave \/ DrainWait \/ DrainEnd

Client == \E n \in 1..max : Sent(n)
Finished == pc = "done" /\ UNCHANGED vars

Next ==
  \/ Task \/ Expire \/ Client
  \/ \E n \in 1..Wnd : Recv(n)
  \/ RecvEof \/ Err \/ Terminate
  \/ Poll \/ ServerSend \/ ServerEof \/ ServerReset \/ ServerRecv
  \/ Finished

Spec == Init /\ [][Next]_vars

(* The task runs, events are collected, and both peers read what they get. *)
FairSpec ==
  /\ Spec
  /\ WF_vars(Task) /\ WF_vars(Poll) /\ WF_vars(Client) /\ WF_vars(ServerRecv)

-----------------------------------------------------------------------------
(* Properties.                                                             *)

(* Whenever lwIP sends or repeats a byte it still finds that byte at the   *)
(* place in the ring it refers to, and the bytes it holds continue those   *)
(* acknowledged without a gap, as long as tcp_write does not fail: when    *)
(* the first of two calls fails and the second succeeds there is a gap.    *)
StreamIntact == ~memerr => \A i \in 1..Len(seg) : data[seg[i]] = acked + i

(* The ring counts at least what lwIP holds, so lwIP is never asked to     *)
(* hold more than the ring size, which the configuration keeps below the   *)
(* send buffer of a pcb: tcp_write does not fail for want of it.           *)
SndBufSuffices == pcb => Len(seg) + rda_size <= use_size /\ Len(seg) + rda_size <= max

(* The client sees the end of the stream only when every byte the server   *)
(* sent was handed to lwIP before, or the connection was reset.            *)
CleanEnd == fin /\ pcb /\ ~reset => srv_eof /\ acked + Len(seg) = sent

(* The server sees the end of the client's stream only after its last byte.*)
CleanShut == shut => pcb_eof /\ queue = 0

(* The window and the queue add up, so a client that keeps to the window   *)
(* is never refused and the 16-bit length of the queue does not overflow.  *)
WindowExact == pcb => rcv_wnd + queue = Wnd

(* Ring, queue and window stay within their limits, and the results of     *)
(* both directions are typed.                                              *)
BuffersExact == TypeOK /\ SndBufSuffices /\ WindowExact

(* Every byte the server sent reaches the client, unless the session ends. *)
Delivered ==
  \A n \in 1..Down : sent >= n ~> (acked >= n \/ ~pcb \/ reset)

(* When both sides have ended, the session ends.                           *)
BothEnd == srv_eof /\ pcb_eof ~> pc = "done"
=============================================================================
