---------------------------- MODULE TunnelLimits ----------------------------
(***************************************************************************)
(* Tunnel with a history variable: for every session that was terminated,  *)
(* the number of time limits that ran out since in a wait in which the     *)
(* session had moved nothing.                                              *)
(***************************************************************************)
EXTENDS Tunnel

VARIABLE late     \* -1: not terminated

LateMax == 3      \* the count stops here, one above the bound claimed

LimitsInit == Init /\ late = [s \in Session |-> -1]

RanOut(s) == sleep[s] = "limit" /\ sleep'[s] = "expired" /\ pc[s] # "part"

LateNext(s) ==
  IF pc'[s] = "free" THEN -1
  ELSE IF late[s] = -1 THEN (IF timeout'[s] = 0 THEN 0 ELSE -1)
  ELSE IF RanOut(s) /\ late[s] < LateMax THEN late[s] + 1
  ELSE late[s]

LimitsNext == Next /\ late' = [s \in Session |-> LateNext(s)]

LimitsSpec == LimitsInit /\ [][LimitsNext]_<<vars, late>>

(* After a terminate a session outlives at most two time limits that run   *)
(* out with nothing moved (connect and handshake end at the first; splice  *)
(* is followed by drain or by the second direction), although connect and  *)
(* handshake overwrite the 0 that hev_socks5_session_terminate put there.  *)
(* Every further limit ran out in a UDP call that had moved data since the *)
(* terminate: hev_socks5_udp_sendmmsg reports a batch that was cut as sent *)
(* and its direction stays open.  This bounds how long native_stop_service *)
(* waits for peers that neither send nor take data.                        *)
AtMostTwoIdleLimits == \A s \in Session : late[s] <= 2

(* Why two: in the drain of a TCP session, and in a UDP session of which   *)
(* one direction is closed, the next idle limit is the last.               *)
LastLimit(s) ==
  \/ s \in TcpSession /\ pc[s] = "drain"
  \/ s \in UdpSession /\ pc[s] \in {"splice", "fwd", "part"} /\ half[s]

(* An idle limit that ran out is seen before the next sleep, and moves the *)
(* session to its last one or ends it.                                     *)
IdleExpired(s) == sleep[s] = "expired" /\ pc[s] # "part"
SlotOK(s) ==
  /\ pc[s] \in {"free", "start"} => sleep[s] = "no"
  /\ pc[s] = "drain" => s \in TcpSession
  /\ pc[s] \in {"lookup", "fwd", "part"} => s \in UdpSession
  /\ late[s] \in -1..2
  /\ late[s] = 1 => IdleExpired(s) \/ LastLimit(s)
  /\ late[s] = 2 => IdleExpired(s) /\ LastLimit(s)

(* The inductive invariant, for every max-session-count.                   *)
LimitsInv ==
  /\ pc \in [Session -> Phase] /\ half \in [Session -> BOOLEAN]
  /\ sleep \in [Session -> {"no", "yield", "forever", "limit", "expired",
                         "answered"}]
  /\ \A s \in Session : SlotOK(s)
=============================================================================
