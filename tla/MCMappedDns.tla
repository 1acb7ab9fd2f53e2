----------------------------- MODULE MCMappedDns ----------------------------
(* Instances of MappedDns for TLC; the names are interchangeable.          *)
EXTENDS MappedDns, TLC

Symmetry == Permutations(Name)
=============================================================================
