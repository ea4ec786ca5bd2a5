-------------------------------- MODULE Ide --------------------------------
(***************************************************************************)
(* The IDE driver (drivers/ide/BootIde.c) with the HDD menu that locks and *)
(* unlocks drives: detection at start-up, the security commands step by    *)
(* step, and reading a sector through the task file.                       *)
(*                                                                         *)
(* A drive remembers its passwords over a power cut and is then locked     *)
(* when a user password is set.  The power may go, and a command may fail, *)
(* at every step.  A byte has Byte values and a nibble Nibble, so that     *)
(* the addressing is kept and the numbers stay small.                      *)
(***************************************************************************)
EXTENDS Integers

CONSTANTS
  Buses,      \* the drives that may be attached: functions from Drives to DriveType
  Byte,       \* values of a byte (256)
  Nibble,     \* values of the head field (16)
  MaxCuts,    \* bound: power cuts and reboots
  MaxFaults   \* bound: commands and transfers that fail

Drives == 1 .. 2

\* Values of two, three and four bytes.
Byte2 == Byte * Byte
Byte3 == Byte * Byte2
Byte4 == Byte * Byte3

DriveType ==
  [kind : {"none", "hdd", "atapi"}, lba : BOOLEAN,
   blocks : Nat, cylinders : Nat, heads : Nat, spt : Nat]

\* Blocks are numbered by an unsigned int; a drive without LBA has a geometry
\* that the registers can express.
Addressable(g) ==
  IF g.lba THEN g.blocks <= Byte4
  ELSE g.cylinders <= Byte2 /\ g.heads \in 1 .. Nibble /\ g.spt \in 1 .. Byte - 1

ASSUME IdeAssumption ==
  /\ Byte \in Nat \ {0, 1} /\ Nibble \in 2 .. Byte
  /\ MaxCuts \in Nat /\ MaxFaults \in Nat
  /\ Buses \subseteq [Drives -> DriveType]
  /\ \A b \in Buses : \A d \in Drives : b[d].kind = "hdd" => Addressable(b[d])

\* Passwords: Key(d) is what CalculateDrivePassword makes of the console's
\* EEPROM and the drive's model and serial number.
Key(d)  == d
Gentoox == 3
Foreign == 4     \* of another console
Factory == 0

Lba48Block == Byte3 * Nibble      \* 0x10000000

VARIABLES
  bus,            \* external: the drives' kind and geometry
  dev,            \* external: the drives' security state
  eepromGood,     \* can the key be calculated?
  info,           \* tsaHarddiskInfo
  items,          \* the item of the HDD menu for each drive
  Confirm_Result,
  at, drive,      \* where the program is, and with which drive
  caller,         \* who called DriveSecurityChange
  read,           \* ghost: the last sector read in the menu, and what the drive delivered
  cuts, faults,
  faulty,         \* ghost: did anything fail since the start?
  lockedHere,     \* ghost: drives whose user password this program has set
  lostMaster      \* ghost: drives whose master password did not get through

ghosts == <<faulty, lockedHere, lostMaster>>
vars   == <<bus, dev, eepromGood, info, items, Confirm_Result, at, drive, caller, read,
            cuts, faults, ghosts>>

InfoType == [exists : BOOLEAN, atapi : BOOLEAN, locked : BOOLEAN, lba : BOOLEAN]
DevType  == [user : 0 .. 4, master : 0 .. 4, enabled : BOOLEAN, locked : BOOLEAN]

TypeOK ==
  /\ bus \in Buses /\ dev \in [Drives -> DevType] /\ eepromGood \in BOOLEAN
  /\ info \in [Drives -> InfoType] /\ items \in [Drives -> {"none", "lock", "unlock"}]
  /\ Confirm_Result \in 0 .. 1
  /\ at \in {"init", "user", "master", "menu", "confirm", "hung"}
  /\ drive \in Drives /\ caller \in {"boot", "lock", "unlock"}
  /\ read \in [drive : Drives, block : Nat, got : Int]
  /\ cuts \in 0 .. MaxCuts /\ faults \in 0 .. MaxFaults
  /\ faulty \in BOOLEAN /\ lockedHere \subseteq Drives /\ lostMaster \subseteq Drives

NoInfo == [exists |-> FALSE, atapi |-> FALSE, locked |-> FALSE, lba |-> FALSE]
NoRead == [drive |-> 1, block |-> 0, got |-> 0]

\* The state of the program when the console starts.
Started ==
  [info |-> [d \in Drives |-> NoInfo], items |-> [d \in Drives |-> "none"]]

Init ==
  /\ bus \in Buses
  /\ dev \in [Drives -> {[user |-> Factory, master |-> Factory, enabled |-> FALSE, locked |-> FALSE]}
                        \cup {[user |-> p, master |-> Factory, enabled |-> TRUE, locked |-> TRUE] :
                                p \in Drives \cup {Foreign}}]
  /\ \A d \in Drives : dev[d].user \in {Factory, Key(d), Foreign}
  /\ eepromGood \in BOOLEAN
  /\ info = Started.info /\ items = Started.items /\ Confirm_Result = 0
  /\ at = "init" /\ drive = 1 /\ caller = "boot" /\ read = NoRead
  /\ cuts = 0 /\ faults = 0
  /\ faulty = FALSE /\ lockedHere = {} /\ lostMaster = {}

-----------------------------------------------------------------------------
(* External: the drives *)

\* A command or a transfer fails.
Fault == faults < MaxFaults /\ faults' = faults + 1 /\ faulty' = TRUE
Works == UNCHANGED <<faults, faulty>>

\* The program starts again; after a power cut the drives are locked.
Restart(after) ==
  /\ cuts < MaxCuts /\ cuts' = cuts + 1
  /\ dev' = after
  /\ info' = Started.info /\ items' = Started.items /\ Confirm_Result' = 0
  /\ at' = "init" /\ drive' = 1 /\ caller' = "boot" /\ read' = NoRead
  /\ faulty' = FALSE
  /\ UNCHANGED <<bus, eepromGood, faults, lockedHere, lostMaster>>

PowerCut == Restart([d \in Drives |-> [dev[d] EXCEPT !.locked = dev[d].enabled]])

\* The reboot of the power menu, which leaves the drives powered.
Reboot == at = "menu" /\ Restart(dev)

\* The password a drive compares with, its obedience to a command with block
\* b, and what becomes of it.
Compared(d, b) == IF b.master THEN dev[d].master ELSE dev[d].user

Obeys(d, cmd, b) ==
  \/ cmd = "set"     /\ ~dev[d].locked
  \/ cmd = "unlock"  /\ dev[d].locked /\ b.pw = Compared(d, b)
  \/ cmd = "disable" /\ dev[d].enabled /\ ~dev[d].locked /\ b.pw = Compared(d, b)

Obeyed(d, cmd, b) ==
  IF      cmd = "unlock"  THEN [dev EXCEPT ![d].locked = FALSE]
  ELSE IF cmd = "disable" THEN [dev EXCEPT ![d].enabled = FALSE, ![d].user = Factory]
  ELSE IF b.master        THEN [dev EXCEPT ![d].master = b.pw]
  ELSE [dev EXCEPT ![d].user = b.pw, ![d].enabled = TRUE]

-----------------------------------------------------------------------------
(* Reading a sector *)

\* The part of a block number above the weight w, in a register of r values.
Part(block, w, r) == (block \div w) % r

\* Plausible bug: 48-bit commands only from the block after the limit.
BugNeedsLba48(block) == block > Lba48Block

NeedsLba48(block) == block >= Lba48Block

\* The registers for one block: 48-bit, 28-bit, or cylinder, head and sector.
TaskFile(block, i, g) ==
  IF NeedsLba48(block)
  THEN [cmd |-> "ext", sectorExt |-> Part(block, Byte3, Byte), head |-> 0,
        cylinder |-> Part(block, Byte, Byte2), sector |-> Part(block, 1, Byte)]
  ELSE IF i.lba
  THEN [cmd |-> "lba", sectorExt |-> 0, head |-> Part(block, Byte3, Nibble),
        cylinder |-> Part(block, Byte, Byte2), sector |-> Part(block, 1, Byte)]
  ELSE LET track == block \div g.spt IN
       [cmd |-> "chs", sectorExt |-> 0, head |-> (track % g.heads) % Nibble,
        cylinder |-> (track \div g.heads) % Byte2,
        sector   |-> (1 + (block % g.spt)) % Byte]

\* External: the block a drive takes them for.
Addressed(r, g) ==
  IF      r.cmd = "ext" THEN r.sector + Byte * r.cylinder + Byte3 * r.sectorExt
  ELSE IF r.cmd = "lba" THEN r.sector + Byte * r.cylinder + Byte3 * r.head
  ELSE (r.cylinder * g.heads + r.head) * g.spt + r.sector - 1

\* Blocks a drive has: those without LBA as many as their geometry reaches.
Size(g) == IF g.lba THEN g.blocks ELSE g.cylinders * g.heads * g.spt

\* BootIdeReadSector for a hard disk.  A locked drive refuses.  When the
\* transfer ends with an error the driver waits for the data to come again,
\* which no command asks for.
ReadSector(d, block) ==
  /\ at = "menu"
  /\ info[d].exists /\ ~info[d].atapi /\ block < Size(bus[d])
  /\ \/ /\ Works \/ Fault
        /\ dev[d].locked \/ faults' # faults
        /\ UNCHANGED <<at, read>>
     \/ /\ ~dev[d].locked /\ Works
        /\ read' = [drive |-> d, block |-> block,
                    got |-> Addressed(TaskFile(block, info[d], bus[d]), bus[d])]
        /\ UNCHANGED at
     \/ /\ ~dev[d].locked /\ Fault
        /\ at' = "hung" /\ UNCHANGED read
  /\ UNCHANGED <<bus, dev, eepromGood, info, items, Confirm_Result, drive, caller, cuts,
                 lockedHere, lostMaster>>

-----------------------------------------------------------------------------
(* BootIdeDriveInit and HDDMenuInit *)

\* The item depends on what the drive said before it was unlocked.
ItemFor(i) ==
  IF ~i.exists \/ i.atapi THEN "none" ELSE IF i.locked THEN "unlock" ELSE "lock"

\* The rest of the initialisation of drive d, then the other drive or the menu.
\* The two sectors it reads to report on FATX and MBR are left out: ReadSector
\* has what can become of them.
DriveDone(d, i) ==
  /\ info' = [info EXCEPT ![d] = i]
  /\ IF d = 1
     THEN at' = "init" /\ drive' = 2 /\ UNCHANGED items
     ELSE /\ at' = "menu" /\ drive' = 1
          /\ items' = [e \in Drives |-> ItemFor(info'[e])]

Known(d) == [exists |-> TRUE, atapi |-> bus[d].kind = "atapi",
             locked |-> bus[d].kind = "hdd" /\ dev[d].locked, lba |-> FALSE]

\* Plausible bug: drive 1 is left locked.
BugMustUnlock(d) == Known(d).locked /\ d = 1

MustUnlock(d) == Known(d).locked

DriveInit ==
  /\ at = "init"
  /\ \/ /\ Fault \/ (bus[drive].kind = "none" /\ Works)
        /\ DriveDone(drive, NoInfo)
     \/ /\ bus[drive].kind # "none" /\ Works
        /\ IF MustUnlock(drive) /\ eepromGood
           THEN /\ info' = [info EXCEPT ![drive] = Known(drive)]
                /\ at' = "user" /\ UNCHANGED <<drive, items>>
           ELSE DriveDone(drive, [Known(drive) EXCEPT
                                    !.lba = bus[drive].lba /\ ~MustUnlock(drive)])
  /\ caller' = "boot"
  /\ UNCHANGED <<bus, dev, eepromGood, Confirm_Result, read, cuts, lockedHere, lostMaster>>

-----------------------------------------------------------------------------
(* DriveSecurityChange *)

\* The three callers: BootIdeDriveInit goes on whatever happened, LockHDD
\* stops at an error, UnlockHDD reports one and returns.
SecurityReturn(failed) ==
  IF caller = "boot"
  THEN DriveDone(drive, [info[drive] EXCEPT !.lba = bus[drive].lba])
  ELSE /\ at' = IF caller = "lock" /\ failed THEN "hung" ELSE "menu"
       /\ UNCHANGED <<drive, info, items>>

\* Plausible bug: the flag that makes it the master password is not set.
BugBlock(stage, d) ==
  [master |-> FALSE, pw |-> IF stage = "master" THEN Gentoox ELSE Key(d)]

\* ide_cmd_data: identifier and password.
Block(stage, d) ==
  [master |-> stage = "master", pw |-> IF stage = "master" THEN Gentoox ELSE Key(d)]

Command == IF caller = "boot" THEN "unlock" ELSE IF caller = "unlock" THEN "disable" ELSE "set"

Sent     == Block(at, drive)
Takes    == Obeys(drive, Command, Sent)
SetsUser == Command = "set" /\ Takes /\ ~Sent.master

\* The master password comes first.  A refused command ends it, but what
\* becomes of the data is not looked at.
SendMaster ==
  /\ at = "master"
  /\ \/ /\ Fault \/ (~Takes /\ Works)
        /\ SecurityReturn(TRUE)
        /\ UNCHANGED <<dev, lockedHere, lostMaster>>
     \/ /\ Takes
        /\ at' = "user"
        /\ \/ Works /\ dev' = Obeyed(drive, Command, Sent) /\ lostMaster' = lostMaster \ {drive}
           \/ Fault /\ lostMaster' = lostMaster \cup {drive} /\ UNCHANGED dev
        /\ lockedHere' = IF SetsUser THEN lockedHere \cup {drive} ELSE lockedHere
        /\ UNCHANGED <<drive, info, items>>
  /\ UNCHANGED <<bus, eepromGood, Confirm_Result, caller, read, cuts>>

\* Then the user password; the IDENTIFY after it may fail when the drive has
\* already obeyed.
SendUser ==
  /\ at = "user"
  /\ \/ /\ Fault \/ (~Takes /\ Works)
        /\ SecurityReturn(TRUE)
        /\ UNCHANGED <<dev, lockedHere>>
     \/ /\ Takes
        /\ dev' = Obeyed(drive, Command, Sent)
        /\ lockedHere' = IF SetsUser THEN lockedHere \cup {drive}
                         ELSE IF Command = "disable" THEN lockedHere \ {drive} ELSE lockedHere
        /\ (Works /\ SecurityReturn(FALSE)) \/ (Fault /\ SecurityReturn(TRUE))
  /\ UNCHANGED <<bus, eepromGood, Confirm_Result, caller, read, cuts, lostMaster>>

-----------------------------------------------------------------------------
(* The HDD menu *)

ChooseItem(d) ==
  /\ at = "menu" /\ items[d] # "none"
  /\ at' = "confirm" /\ drive' = d /\ caller' = items[d] /\ read' = NoRead
  /\ UNCHANGED <<bus, dev, eepromGood, info, items, Confirm_Result, cuts, faults, ghosts>>

\* Confirm, and the rest of LockHDD or UnlockHDD up to DriveSecurityChange.
\* B leaves the result of the last question.
Answer(button) ==
  /\ at = "confirm"
  /\ Confirm_Result' = IF button = "yes" THEN 1 ELSE IF button = "no" THEN 0 ELSE Confirm_Result
  /\ at' = IF Confirm_Result' = 0 \/ ~eepromGood THEN "menu"
           ELSE IF caller = "lock" THEN "master" ELSE "user"
  /\ UNCHANGED <<bus, dev, eepromGood, info, items, drive, caller, read, cuts, faults, ghosts>>

-----------------------------------------------------------------------------
Next ==
  \/ PowerCut \/ Reboot
  \/ DriveInit \/ SendMaster \/ SendUser
  \/ \E d \in Drives : ChooseItem(d)
  \/ \E button \in {"yes", "no", "back"} : Answer(button)
  \/ \E d \in Drives : \E block \in 0 .. Size(bus[d]) - 1 : ReadSector(d, block)

Spec == Init /\ [][Next]_vars

-----------------------------------------------------------------------------
(* Properties *)

\* BootIdeDriveInit: after a start in which no command failed, every drive
\* whose user password is this console's can be read, whatever power cuts and
\* half-finished security changes came before.
OpensAtBoot ==
  at = "menu" /\ ~faulty /\ eepromGood =>
    \A d \in Drives : bus[d].kind = "hdd" /\ dev[d].user = Key(d) => ~dev[d].locked

\* DriveSecurityChange: at no moment, power cuts included, does a drive have a
\* user password of this program without being recoverable: the password is
\* the console's own, and the master password is the published one unless its
\* transfer failed.
LockIsRecoverable ==
  \A d \in lockedHere : /\ dev[d].enabled /\ dev[d].user = Key(d)
                       /\ (dev[d].master = Gentoox \/ d \in lostMaster)

\* BootIdeReadSector: the drive delivers the block that was asked for, at the
\* limits of each way of addressing too.
ReadsRequestedBlock == read.got = read.block

-----------------------------------------------------------------------------
(* The inductive invariant *)

Security == {"master", "user"}       \* inside DriveSecurityChange
Booting  == at = "init" \/ (at = "user" /\ caller = "boot")

\* DriveSecurityChange runs with a key; only LockHDD sets a master password,
\* and has done so (or lost it) by the time it comes to the user password.
LockOrder ==
  /\ at \in Security => eepromGood
  /\ at = "master" => caller = "lock"
  /\ at = "user" /\ caller = "lock" =>
       dev[drive].master = Gentoox \/ drive \in lostMaster

\* The drives that a start without faults has dealt with are open.
OpenSoFar ==
  ~faulty /\ eepromGood =>
    \A d \in Drives :
      bus[d].kind = "hdd" /\ dev[d].user = Key(d) /\ (Booting => d < drive) => ~dev[d].locked

\* What the driver knows of a hard disk suits its addressing, except while it
\* cannot be read.
InfoFits ==
  \A d \in Drives : info[d].exists /\ ~info[d].atapi =>
    /\ bus[d].kind = "hdd"
    /\ \/ info[d].lba = bus[d].lba
       \/ dev[d].locked /\ ~eepromGood
       \/ at = "user" /\ caller = "boot" /\ drive = d

IdeInv ==
  /\ TypeOK /\ LockOrder /\ OpenSoFar /\ InfoFits
  /\ LockIsRecoverable /\ ReadsRequestedBlock
=============================================================================
