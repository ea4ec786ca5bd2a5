----------------------------- MODULE MCNetFlash -----------------------------
(***************************************************************************)
(* Two connections, as many as lwIP is configured for (MEMP_NUM_TCP_PCB),  *)
(* pages of two units that do not fit the send buffer, and uploads of two  *)
(* units that may be followed by one unit too many.                        *)
(***************************************************************************)
EXTENDS NetFlash, TLC

Symmetry == Permutations(Conns)
=============================================================================
