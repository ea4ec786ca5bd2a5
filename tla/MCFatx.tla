------------------------------- MODULE MCFatx -------------------------------
(***************************************************************************)
(* A file in the root directory and one in a subdirectory, on partitions   *)
(* of four clusters.  The root directory may continue in cluster 2.        *)
(***************************************************************************)
EXTENDS Fatx

MCPaths == {<<"a", "b">>, <<"b">>, <<"a", "long">>}

MCTables ==
  {t \in Table : /\ t[0] = End /\ t[1] \in {End, 2} /\ t[2] \in {End, 1, 3, 4}
                /\ t[3] \in {End, 0, 4, Wild} /\ t[4] \in {End, 3}}

MCJunk == {[c \in 0 .. N |-> End], [c \in 0 .. N |-> IF c = 1 THEN 2 ELSE 1]}

E(k, x, c, s) == [kind |-> k, name |-> x, first |-> c, size |-> s]

Last    == E("last", "", 0, 0)
Deleted == E("deleted", "a", 4, 0)
Bad     == E("invalid", "", 0, 0)

\* Root directories, and what the other clusters hold as directories.
MCDirs ==
  {[c \in Cluster |-> IF c = 1 THEN root ELSE IF c = 2 THEN second ELSE <<Last>>] :
     root   \in {<<Deleted, E("dir", "a", 2, 0)>>, <<E("file", "b", 3, 1), Deleted>>,
                 <<E("file", "a", 3, 1), Last>>},
     second \in {<<E("file", "b", 3, 3), E("dir", "a", 4, 0)>>, <<E("dir", "b", 3, 1), E("file", "b", 4, 0)>>,
                 <<E("dir", "a", 2, 0), E("file", "b", 4, 5)>>, <<Bad, E("file", "b", 3, 2)>>}}

MCDisks == {[table |-> t, dir |-> d] : t \in MCTables, d \in MCDirs}
=============================================================================
