-------------------------- MODULE MCMemoryManager --------------------------
(***************************************************************************)
(* A heap of a few clusters and, for every path of t_malloc, a request at  *)
(* the boundary of its size: the last of one cluster, the last of the      *)
(* 64 KB block, the first of five clusters, one of six, and a request      *)
(* above 5 MB that is refused.                                             *)
(***************************************************************************)
EXTENDS MemoryManager

MCRequests == {62, 254, 255, 318, 30000}
=============================================================================
