----------------------------- MODULE BootFlash -----------------------------
(***************************************************************************)
(* Rewriting the BIOS flash: BootReflashAndReset (BootFlashUi.c) and the   *)
(* driver it calls, BootFlashGetDescriptor, BootFlashEraseMinimalRegion    *)
(* and BootFlashProgram (BootFlash.c).  One action is one turn of one of   *)
(* the driver's loops.                                                     *)
(*                                                                         *)
(* A byte is the set of its bits that read 1, so 0xff is Bits.  The chip   *)
(* is external: an erase command sets every bit of a sector, a program     *)
(* command can only clear bits, and on a faulty chip a command may do      *)
(* nothing, report an error, or disturb another byte of the sector.        *)
(***************************************************************************)
EXTENDS Integers, FiniteSets

CONSTANTS
  Bits,         \* bits of a byte
  ChipLength,   \* m_dwLengthInBytes
  SectorSize,   \* bytes one block erase command erases (the chip's choice)
  BlockSize,    \* 4 KB in the driver: the grain of its erase retry counter
  UpdateEvery,  \* 1 KB in the driver: how often the UPDATE events come
  Regions,      \* <<dwStartOffset, dwLength>> pairs the callers ask for
  Images,       \* contents of the caller's buffer: functions on 0..ChipLength-1
  Contents,     \* what the flash may hold before
  Chips,        \* flash devices: see ChipType
  Callbacks     \* m_pcallbackFlash, each as the set of answers it gives; the
                \* one in the tree, BootFlashUserInterface, is {TRUE}

Addr == 0 .. ChipLength - 1
Byte == SUBSET Bits
FF   == Bits
\* Plausible bug: one retry instead of four.
BugRetries == 1

Retries == 4    \* MAX_ERASE_RETRIES_IN_4KBLOCK_BEFORE_FAILING, nCountProgramRetries

\* conv: the command set the device answers to ("ro" for none); known: the id
\* read from it is in flashtypes.h; idIsData: its manufacturer id equals the
\* byte the flash holds at 0; lock: the master lock bit; cmds: the 29xxx erase
\* commands it has; faulty: its commands may fail.  A device ignores the
\* commands of the other set.
ChipType ==
  [conv : {"28", "29", "ro"}, known : BOOLEAN, idIsData : BOOLEAN,
   lock : BOOLEAN, cmds : SUBSET {"block50", "block30", "chip10"}, faulty : BOOLEAN]

ASSUME FlashAssumption ==
  /\ ChipLength \in Nat \ {0} /\ SectorSize \in Nat \ {0}
  /\ BlockSize \in Nat \ {0} /\ UpdateEvery \in Nat \ {0}
  /\ Regions \subseteq Nat \X Nat
  /\ Images \subseteq [Addr -> Byte]
  /\ Contents \subseteq [Addr -> Byte]
  /\ Chips \subseteq ChipType
  /\ Callbacks \subseteq SUBSET BOOLEAN

VARIABLES
  chip, cell,     \* the device and its array
  answers,        \* what the caller's callback may answer
  dwStart, dwLen, \* m_dwStartOffset, m_dwLengthUsedArea
  pba,            \* the new image
  pc,             \* where BootReflashAndReset is
  conv28,         \* m_fDetectedUsing28xxxConventions
  dw,             \* the loops' address
  last,           \* dwLastEraseAddress / dwLastProgramAddress, -1 for 0xffffffff
  tries,          \* nCountEraseRetryIn4KBlock / nCountProgramRetries
  open,           \* ghost: phases with a START and no END event yet
  erases,         \* ghost: erase attempts made
  orig            \* ghost: the array before

input == <<chip, answers, dwStart, dwLen, pba, orig>>
vars  == <<chip, answers, cell, dwStart, dwLen, pba, pc, conv28, dw, last, tries, open,
           erases, orig>>

Refusals == {"unknown", "locked", "toolong"}  \* return codes 1, 2 and 3
Stopped  == {"rebooted", "failed"} \cup Refusals
Running  == {"eraseStart", "erase", "programStart", "program", "verify"}

TypeOK ==
  /\ chip \in Chips /\ cell \in [Addr -> Byte] /\ orig \in Contents
  /\ answers \in Callbacks
  /\ <<dwStart, dwLen>> \in Regions /\ pba \in Images
  /\ pc \in {"start"} \cup Running \cup Stopped
  /\ conv28 \in BOOLEAN
  /\ dw \in Nat /\ last \in Addr \cup {-1} /\ tries \in 0 .. Retries
  /\ open \subseteq {"erase", "program", "verify"}
  /\ erases \in Nat

Init ==
  /\ chip \in Chips /\ cell \in Contents /\ orig = cell
  /\ answers \in Callbacks
  /\ \E r \in Regions : dwStart = r[1] /\ dwLen = r[2]
  /\ pba \in Images
  /\ pc = "start" /\ conv28 = FALSE
  /\ dw = 0 /\ last = -1 /\ tries = Retries
  /\ open = {} /\ erases = 0

-----------------------------------------------------------------------------
(* BootFlashGetDescriptor *)

\* The 28xxx sequence is tried first; the search stops there when the id read
\* differs from the array's bytes, and the 29xxx sequence is tried otherwise.
\* The bytes read last are looked up, whichever device gave them.
Detects28(c) == c.conv = "28" /\ ~c.idIsData

\* The checks of BootReflashAndReset, in its order.
Outcome ==
  IF ~chip.known                              THEN "unknown"
  ELSE IF Detects28(chip) /\ chip.lock     THEN "locked"
  ELSE IF ChipLength < dwStart + dwLen     THEN "toolong"
  ELSE "eraseStart"

GetDescriptor ==
  /\ pc = "start"
  /\ conv28' = Detects28(chip)
  /\ pc' = Outcome
  /\ UNCHANGED <<input, cell, dw, last, tries, open, erases>>

-----------------------------------------------------------------------------
(* BootFlashEraseMinimalRegion *)

Sector(a) == {b \in Addr : b \div SectorSize = a \div SectorSize}
Erased(A) == [a \in Addr |-> IF a \in A THEN FF ELSE cell[a]]
AtEnd     == dw = dwStart + dwLen

\* BootReflashAndReset hangs after a message when erase or program fail.
Fail == pc' = "failed"

\* Plausible bug: the END event is left out when an error is reported.
BugError(phase) == Fail /\ open' = open

\* An ERROR event, the END event of the phase, and failure.
Error(phase) == Fail /\ open' = open \ {phase}

\* Loop head of both phases.
Enter(phase) == /\ pc' = phase /\ dw' = dwStart /\ last' = -1 /\ tries' = Retries

EraseStart ==
  /\ pc = "eraseStart"
  /\ \E ok \in answers : IF ok THEN Enter("erase") ELSE Fail /\ UNCHANGED <<dw, last, tries>>
  /\ open' = open \cup {"erase"}
  /\ UNCHANGED <<input, cell, conv28, erases>>

\* The tail of the erase and the program loop: an UPDATE event at every 1 KB,
\* whose answer may abort, and the next address.
Advance ==
  \E ok \in IF dw % UpdateEvery = 0 THEN answers ELSE {TRUE} :
    IF ok THEN dw' = dw + 1 /\ pc' = pc ELSE dw' = dw /\ Fail

\* The byte is blank: move on, with an UPDATE event that may abort.
EraseSkip ==
  /\ pc = "erase" /\ ~AtEnd /\ cell[dw] = FF
  /\ Advance
  /\ UNCHANGED <<input, cell, conv28, last, tries, open, erases>>

\* Plausible bug: the counter is kept per address instead of per block.
BugSameBlock == last = dw

SameBlock == last # -1 /\ last \div BlockSize = dw \div BlockSize

\* The last try in this 4 KB block is used up: ERROR and END events.
EraseGiveUp ==
  /\ pc = "erase" /\ ~AtEnd /\ cell[dw] # FF
  /\ SameBlock /\ tries = 1
  /\ tries' = 0
  /\ Error("erase")
  /\ UNCHANGED <<input, cell, conv28, dw, last, erases>>

\* The retry bookkeeping in front of an erase command.
CountErase ==
  /\ pc = "erase" /\ ~AtEnd /\ cell[dw] # FF
  /\ IF SameBlock
     THEN tries > 1 /\ tries' = tries - 1 /\ last' = last
     ELSE tries' = Retries /\ last' = dw
  /\ erases' = erases + 1

\* 28xxx convention: one block erase; the status register may report an error.
Erase28 ==
  /\ conv28
  /\ CountErase
  /\ \/ cell' = Erased(Sector(dw)) /\ UNCHANGED <<pc, open>>
     \/ chip.faulty /\ cell' = cell /\ UNCHANGED <<pc, open>>
     \/ chip.faulty /\ cell' = cell /\ Error("erase")
  /\ UNCHANGED <<input, conv28, dw>>

\* External: does the chip have the 29xxx command c?
Works(c) == chip.conv = "29" /\ c \in chip.cmds

\* Plausible bug: the guards that make chip erase safe are dropped.
BugMayChipErase == tries' < 2

\* 29xxx convention: command 0x50; when the chip was not seen busy, command
\* 0x30; when that was not seen either, chip erase behind its three guards.
\* A command that works may end before it is seen.
MayChipErase ==
  /\ tries' < 2
  /\ dwStart = 0
  /\ dwLen = ChipLength

Erase29 ==
  /\ ~conv28
  /\ CountErase
  /\ \E seen50, seen30 \in BOOLEAN :
       /\ seen50 => Works("block50")
       /\ seen30 => Works("block30")
       /\ LET block == Works("block50") \/ (~seen50 /\ Works("block30"))
              whole == ~seen50 /\ ~seen30 /\ MayChipErase /\ Works("chip10")
          IN \/ cell' = Erased(IF whole THEN Addr ELSE IF block THEN Sector(dw) ELSE {})
             \/ chip.faulty /\ cell' = cell
  /\ UNCHANGED <<input, conv28, dw, pc, open>>

\* END event, whose answer may fail the erase; then BootFlashProgram is called.
EraseDone ==
  /\ pc = "erase" /\ AtEnd
  /\ \E ok \in answers : pc' = IF ok THEN "programStart" ELSE "failed"
  /\ open' = open \ {"erase"}
  /\ UNCHANGED <<input, cell, conv28, dw, last, tries, erases>>

-----------------------------------------------------------------------------
(* BootFlashProgram *)

ProgramStart ==
  /\ pc = "programStart"
  /\ \E ok \in answers :
       IF ok THEN Enter("program") ELSE Fail /\ UNCHANGED <<dw, last, tries>>
  /\ open' = open \cup {"program"}
  /\ UNCHANGED <<input, cell, conv28, erases>>

Wanted == pba[dw - dwStart]     \* pba[dwSrc]

ProgramSkip ==
  /\ pc = "program" /\ ~AtEnd /\ cell[dw] = Wanted
  /\ Advance
  /\ UNCHANGED <<input, cell, conv28, last, tries, open, erases>>

ProgramGiveUp ==
  /\ pc = "program" /\ ~AtEnd /\ cell[dw] # Wanted
  /\ last = dw /\ tries = 1
  /\ tries' = 0
  /\ Error("program")
  /\ UNCHANGED <<input, cell, conv28, dw, last, erases>>

\* Plausible bug: the retry counter of a byte is not decremented.
BugCountProgram ==
  /\ pc = "program" /\ ~AtEnd /\ cell[dw] # Wanted
  /\ IF last = dw
     THEN tries > 1 /\ tries' = tries /\ last' = last
     ELSE tries' = Retries /\ last' = dw

CountProgram ==
  /\ pc = "program" /\ ~AtEnd /\ cell[dw] # Wanted
  /\ IF last = dw
     THEN tries > 1 /\ tries' = tries - 1 /\ last' = last
     ELSE tries' = Retries /\ last' = dw

\* External: programming clears bits; a faulty chip may do nothing, or clear
\* bits of another byte of the sector as well.
ChipPrograms ==
  \/ cell' = [cell EXCEPT ![dw] = @ \cap Wanted]
  \/ chip.faulty /\ cell' = cell
  \/ /\ chip.faulty
     /\ \E a \in Sector(dw) \ {dw}, v \in Byte :
          cell' = [cell EXCEPT ![dw] = @ \cap Wanted, ![a] = @ \cap v]

\* 28xxx convention: the status register, or the time limit, reports an error.
Program28 ==
  /\ conv28
  /\ CountProgram
  /\ ChipPrograms
  /\ \/ UNCHANGED <<pc, open>>
     \/ chip.faulty /\ Error("program")
  /\ UNCHANGED <<input, conv28, dw, erases>>

Program29 ==
  /\ ~conv28
  /\ CountProgram
  /\ IF chip.conv = "29" THEN ChipPrograms ELSE cell' = cell
  /\ UNCHANGED <<input, conv28, dw, pc, open, erases>>

\* The END event of programming and the START event of verifying.
ProgramDone ==
  /\ pc = "program" /\ AtEnd
  /\ \E ended, started \in answers :
       /\ open' = (open \ {"program"}) \cup (IF ended THEN {"verify"} ELSE {})
       /\ IF ended /\ started
          THEN pc' = "verify" /\ dw' = dwStart
          ELSE Fail /\ dw' = dw
  /\ UNCHANGED <<input, cell, conv28, last, tries, erases>>

\* Plausible bug: the verify loop runs without comparing.
BugVerifyByte ==
  /\ pc = "verify" /\ ~AtEnd
  /\ dw' = dw + 1
  /\ UNCHANGED <<input, cell, pc, conv28, last, tries, open, erases>>

VerifyByte ==
  /\ pc = "verify" /\ ~AtEnd /\ cell[dw] = Wanted
  /\ dw' = dw + 1
  /\ UNCHANGED <<input, cell, pc, conv28, last, tries, open, erases>>

\* The ERROR event may abort before the END event is sent.
VerifyError ==
  /\ pc = "verify" /\ ~AtEnd /\ cell[dw] # Wanted
  /\ \E ok \in answers : open' = IF ok THEN open \ {"verify"} ELSE open
  /\ Fail
  /\ UNCHANGED <<input, cell, conv28, dw, last, tries, erases>>

\* END event; BootReflashAndReset sets the LED and reboots.
VerifyDone ==
  /\ pc = "verify" /\ AtEnd
  /\ \E ok \in answers : pc' = IF ok THEN "rebooted" ELSE "failed"
  /\ open' = open \ {"verify"}
  /\ UNCHANGED <<input, cell, conv28, dw, last, tries, erases>>

-----------------------------------------------------------------------------
Next ==
  \/ GetDescriptor
  \/ EraseStart   \/ EraseSkip   \/ EraseGiveUp   \/ Erase28   \/ Erase29   \/ EraseDone
  \/ ProgramStart \/ ProgramSkip \/ ProgramGiveUp \/ Program28 \/ Program29 \/ ProgramDone
  \/ VerifyByte   \/ VerifyError \/ VerifyDone

\* The driver is one sequential thread: it takes its next step as long as it
\* has one (a chip that never leaves its busy state is not modelled).
Fairness == WF_vars(Next)

Spec == Init /\ [][Next]_vars /\ Fairness

-----------------------------------------------------------------------------
(* Properties *)

Region == dwStart .. dwStart + dwLen - 1

\* BootReflashAndReset: the console is rebooted into the new BIOS only when
\* the flash holds exactly the image, whatever the chip did on the way.
RebootOnlyWithImage ==
  pc = "rebooted" => \A a \in Region : cell[a] = pba[a - dwStart]

\* The promise of BootReflashAndReset (FlashUpdate), with "new" taken before
\* "old" when the flash already held the image.
HoldsImage ==
  /\ dwStart + dwLen <= ChipLength
  /\ \A a \in Region : cell[a] = pba[a - dwStart]

Promise == INSTANCE FlashUpdate WITH
  state   <- IF pc = "start" THEN "idle"
             ELSE IF pc \in Refusals THEN "refused"
             ELSE IF pc \in Running THEN "writing"
             ELSE IF pc = "rebooted" THEN "rebooted" ELSE "halted",
  content <- IF HoldsImage THEN "new" ELSE IF cell = orig THEN "old" ELSE "mixed"

\* BootReflashAndReset implements that promise: a refusal leaves the flash
\* alone, writing starts only after the checks, nothing is written once it has
\* stopped, and it stops.
KeepsPromise == Promise!Spec

\* BootFlashEraseMinimalRegion: only sectors that the region reaches are ever
\* changed; the chip erase that ignores sectors needs a region of all of them.
FootprintMinimal ==
  \A a \in Addr : cell[a] # orig[a] => \E b \in Sector(a) : b \in Region

\* BootFlashEraseMinimalRegion: at most four attempts per 4 KB block, however
\* the failing addresses are spread over it.
EraseAttemptsBounded ==
  erases <= Retries * Cardinality({a \div BlockSize : a \in Region \cap Addr})

\* The inductive invariant behind the two: the loops' address stays inside the
\* region, the region inside the chip, and the verify loop has compared
\* everything below its address.
FlashInv ==
  /\ TypeOK
  /\ pc \in {"start"} \cup Refusals => cell = orig
  /\ pc \notin {"start"} \cup Refusals => dwStart + dwLen <= ChipLength
  /\ pc \in {"erase", "program", "verify"} => dw \in dwStart .. dwStart + dwLen
  /\ pc = "verify" => \A a \in dwStart .. dw - 1 : cell[a] = pba[a - dwStart]
  /\ RebootOnlyWithImage
  /\ FootprintMinimal

\* A chip that does what it is told, of a kind the driver can drive, always
\* ends up rebooting into the new image.  Each sector costs a try of its 4 KB
\* block's counter, so this needs sectors of at least 1 KB.
Drivable(c) ==
  /\ c.known
  /\ \/ c.conv = "28" /\ ~c.lock /\ ~c.idIsData
     \/ c.conv = "29" /\ c.cmds \cap {"block50", "block30"} # {}
     \/ c.conv = "29" /\ "chip10" \in c.cmds /\ dwStart = 0 /\ dwLen = ChipLength

GoodChipCompletes ==
  ~chip.faulty /\ Drivable(chip) /\ dwStart + dwLen <= ChipLength /\ answers = {TRUE}
    ~> pc = "rebooted"

\* BootFlash.h, on the callback events: "if you receive *_START, you will
\* always receive *_END even if an error is detected".  It is so for a callback
\* that never aborts; one that does, gets no END event.
EndFollowsStart == pc \in Stopped /\ answers = {TRUE} => open = {}

\* The inductive invariant behind it: only the phase the driver is in is open.
EventsPaired == answers = {TRUE} => open = {"erase", "program", "verify"} \cap {pc}

\* The 4 KB blocks of the region up to address a.
BlocksUpTo(a) == {b \div BlockSize : b \in dwStart .. a}

\* The inductive invariant behind EraseAttemptsBounded: every block met so far
\* has had at most Retries attempts, and the one of the last attempt has spent
\* as many as its counter is below them.
AttemptsInv ==
  /\ pc \in {"start", "eraseStart"} => erases = 0
  /\ pc = "erase" =>
       IF last = -1 THEN erases = 0
       ELSE /\ last \in dwStart .. dw /\ tries >= 1
            /\ erases + tries <= Retries * Cardinality(BlocksUpTo(last)) + 1
  /\ EraseAttemptsBounded
=============================================================================
