---------------------------- MODULE MCBootFlash ----------------------------
(***************************************************************************)
(* A chip of six bytes in three sectors, two sectors to each block of the  *)
(* retry counter, and a device for every branch of detection and erase.    *)
(***************************************************************************)
EXTENDS BootFlash

MCRegions == {<<0, 6>>, <<0, 3>>, <<2, 3>>, <<4, 3>>}

\* Two-bit bytes: old contents with blank and non-blank bytes.
MCImages   == {[a \in Addr |-> IF a % 2 = 0 THEN {1} ELSE {}],
               [a \in Addr |-> IF a = 3 THEN {1, 2} ELSE {2}]}
MCContents == {[a \in Addr |-> {2}],
               [a \in Addr |-> IF a < 3 THEN {1, 2} ELSE {}]}

Chip(conv, known, idIsData, lock, cmds) ==
  [conv : {conv}, known : {known}, idIsData : {idIsData}, lock : {lock}, cmds : {cmds},
   faulty : BOOLEAN]

MCChips ==
  UNION {Chip("28", TRUE, FALSE, FALSE, {}), Chip("28", TRUE, FALSE, TRUE, {}),
         Chip("28", TRUE, TRUE, FALSE, {}),  Chip("29", FALSE, FALSE, FALSE, {"block30"}),
         Chip("ro", TRUE, TRUE, FALSE, {}),  Chip("29", TRUE, FALSE, FALSE, {"block50"}),
         Chip("29", TRUE, FALSE, FALSE, {"block30"}),
         Chip("29", TRUE, FALSE, FALSE, {"chip10"})}

\* The callback of the tree, and one that may abort at any event.
MCCallbacks == {{TRUE}, {TRUE, FALSE}}
=============================================================================
