----------------------------- MODULE MCNetBoot -----------------------------
(***************************************************************************)
(* The wizard with two connections, as many as lwIP is configured for.     *)
(***************************************************************************)
EXTENDS NetBoot, TLC

Symmetry == Permutations(Conns)
=============================================================================
