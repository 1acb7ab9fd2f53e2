------------------------------ MODULE MCTunnel ------------------------------
(* Instances of Tunnel for TLC: the session slots are model values.        *)
EXTENDS Tunnel

(* Bound for the liveness run: sessions that exist at the same time.       *)
MaxLive == 1

StopSpec == Init /\ [][Next /\ session_count' <= MaxLive]_vars /\ Fairness
=============================================================================
