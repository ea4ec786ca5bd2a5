------------------------------- MODULE MCIde -------------------------------
(***************************************************************************)
(* Bytes of 3 values and heads of 2: 28-bit addresses end at 54 and four   *)
(* bytes at 81.  A large drive with LBA, a small one addressed by         *)
(* cylinder, head and sector, a CD drive.                                  *)
(***************************************************************************)
EXTENDS Ide

Lba     == [kind |-> "hdd", lba |-> TRUE, blocks |-> 60, cylinders |-> 9, heads |-> 2, spt |-> 2]
Chs     == [kind |-> "hdd", lba |-> FALSE, blocks |-> 0, cylinders |-> 4, heads |-> 2, spt |-> 2]
Atapi   == [kind |-> "atapi", lba |-> TRUE, blocks |-> 0, cylinders |-> 0, heads |-> 0, spt |-> 0]
Absent  == [kind |-> "none", lba |-> FALSE, blocks |-> 0, cylinders |-> 0, heads |-> 0, spt |-> 0]

MCBuses == {<<Lba, Chs>>, <<Chs, Absent>>, <<Lba, Atapi>>}
=============================================================================
