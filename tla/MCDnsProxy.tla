----------------------------- MODULE MCDnsProxy -----------------------------
(* Instances of DnsProxy for TLC: the tasks are model values.              *)
EXTENDS DnsProxy
=============================================================================
