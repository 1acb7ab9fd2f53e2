---------------------------- MODULE MCUdpSession ----------------------------
(* UdpSession for TLC.                                                     *)
EXTENDS UdpSession
=============================================================================
