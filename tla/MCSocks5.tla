------------------------------ MODULE MCSocks5 ------------------------------
(* Socks5 for TLC: every user has a password of his own.                   *)
EXTENDS Socks5

MCPass(u) == <<"password of", u>>
=============================================================================
