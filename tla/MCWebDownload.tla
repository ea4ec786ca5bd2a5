--------------------------- MODULE MCWebDownload ---------------------------
(***************************************************************************)
(* Files of a few characters, one of them with an empty line in it, and a  *)
(* BIOS with a legal size and a legal size on the way to it.               *)
(***************************************************************************)
EXTENDS WebDownload

MCBody ==
  [kernel |-> <<"k", "r", "n", "r", "n", "k">>,
   initrd |-> <<"i", "i">>,
   append |-> <<"a", "a", "a">>,
   bios   |-> <<"b", "b", "b", "b">>]
=============================================================================
