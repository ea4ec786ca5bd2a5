----------------------------- MODULE MCNetLoop -----------------------------
(***************************************************************************)
(* Two addresses, a lease that is renewed after one coarse tick and        *)
(* rebound after two, and a fine timer of ten seconds, so that every       *)
(* back-off is one tick or two.                                            *)
(***************************************************************************)
EXTENDS NetLoop

MCLeases == {[t1 |-> 1, t2 |-> 2]}
=============================================================================
