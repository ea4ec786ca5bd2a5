-------------------------- MODULE BootFlashProofs --------------------------
(***************************************************************************)
(* Proofs about the flash update, for every chip, region, image and former *)
(* contents, on faulty chips and with every behaviour of the callback.     *)
(***************************************************************************)
EXTENDS BootFlash, FiniteSetTheorems, TLAPS

\* Sectors are the classes of an equivalence.
LEMMA SectorFacts ==
  ASSUME NEW a \in Addr
  PROVE  /\ a \in Sector(a)
         /\ Sector(a) \subseteq Addr
         /\ \A b \in Sector(a) : a \in Sector(b)
  BY DEF Sector

LEMMA InitFlashInv == Init => FlashInv
<1> SUFFICES ASSUME Init PROVE FlashInv
  OBVIOUS
<1>1. TypeOK
  <2>1. PICK r \in Regions : dwStart = r[1] /\ dwLen = r[2]
    BY DEF Init
  <2>2. r = <<r[1], r[2]>>
    BY FlashAssumption
  <2>3. <<dwStart, dwLen>> \in Regions
    BY <2>1, <2>2
  <2>4. cell \in [Addr -> Byte] /\ orig \in Contents
    BY FlashAssumption DEF Init
  <2>5. conv28 \in BOOLEAN
    BY DEF Init
  <2>6. /\ chip \in Chips /\ answers \in Callbacks /\ pba \in Images /\ pc \in {"start"}
        /\ dw \in Nat /\ last \in Addr \cup {-1} /\ tries \in 0 .. Retries
        /\ open \subseteq {"erase", "program", "verify"}
        /\ erases \in Nat
    BY DEF Init, Retries
  <2>7. QED
    BY <2>3, <2>4, <2>5, <2>6 DEF TypeOK
<1>2. pc = "start" /\ cell = orig
  BY DEF Init
<1>3. QED
  BY <1>1, <1>2 DEF FlashInv, RebootOnlyWithImage, FootprintMinimal, Refusals

\* An address inside the region is an address of the chip, and its sector is
\* one that the region reaches.
LEMMA AddressFacts ==
  ASSUME FlashInv, pc \in {"erase", "program", "verify"}, ~AtEnd
  PROVE  dw \in Addr /\ dw \in Region /\ dw - dwStart \in Addr
<1>1. /\ dwStart \in Nat /\ dwLen \in Nat /\ dwStart + dwLen <= ChipLength
      /\ dw \in dwStart .. dwStart + dwLen /\ dw # dwStart + dwLen
  BY FlashAssumption DEF FlashInv, TypeOK, AtEnd, Refusals
<1>2. QED
  BY <1>1, FlashAssumption DEF Addr, Region

\* A step of the erase or program loop that changes the array changes only
\* bytes of the sector of dw, or all of them when the region is the whole chip.
LEMMA FootprintStep ==
  ASSUME FlashInv, pc \in {"erase", "program"}, ~AtEnd,
         UNCHANGED <<dwStart, dwLen, orig>>,
         \/ \A a \in Addr \ Sector(dw) : cell'[a] = cell[a]
         \/ dwStart = 0 /\ dwLen = ChipLength
  PROVE  FootprintMinimal'
<1>1. dw \in Addr /\ dw \in Region
  BY AddressFacts
<1>2. SUFFICES ASSUME NEW a \in Addr, cell'[a] # orig[a]
               PROVE  \E b \in Sector(a) : b \in Region
  BY DEF FootprintMinimal, Region, Sector
<1>3. CASE a \in Sector(dw)
  BY <1>1, <1>3, SectorFacts
<1>4. CASE a \notin Sector(dw) /\ cell'[a] = cell[a]
  BY <1>2, <1>4 DEF FlashInv, FootprintMinimal
<1>5. CASE dwStart = 0 /\ dwLen = ChipLength
  <2>1. a \in Region
    BY <1>5, FlashAssumption DEF Addr, Region
  <2>2. QED
    BY <2>1, SectorFacts
<1>6. QED
  BY <1>3, <1>4, <1>5
\* Steps that leave the array and the inputs alone preserve the invariant when
\* they keep the address in the region.
LEMMA QuietStep ==
  ASSUME FlashInv, TypeOK', UNCHANGED <<input, cell>>,
         pc \notin {"start"} \cup Refusals, pc' \notin {"start"} \cup Refusals,
         pc' \in {"erase", "program", "verify"} => dw' \in dwStart .. dwStart + dwLen,
         pc' = "verify" => \A a \in dwStart .. dw' - 1 : cell[a] = pba[a - dwStart],
         pc' = "rebooted" => \A a \in Region : cell[a] = pba[a - dwStart]
  PROVE  FlashInv'
<1>1. UNCHANGED <<chip, dwStart, dwLen, pba, orig, cell>>
  BY DEF input
<1>2. FootprintMinimal'
  BY <1>1 DEF FlashInv, FootprintMinimal, Region, Sector
<1>3. RebootOnlyWithImage'
  BY <1>1 DEF RebootOnlyWithImage, Region
<1>4. QED
  BY <1>1, <1>2, <1>3 DEF FlashInv

\* Steps of the erase and program loops that send the chip a command.
LEMMA CommandStep ==
  ASSUME FlashInv, TypeOK', UNCHANGED <<input, dw>>, pc \in {"erase", "program"}, ~AtEnd,
         pc' \in {pc, "failed"},
         \/ \A a \in Addr \ Sector(dw) : cell'[a] = cell[a]
         \/ dwStart = 0 /\ dwLen = ChipLength
  PROVE  FlashInv'
<1>1. UNCHANGED <<chip, dwStart, dwLen, pba, orig, dw>>
  BY DEF input
<1>2. FootprintMinimal'
  BY <1>1, FootprintStep
<1>3. QED
  BY <1>1, <1>2 DEF FlashInv, RebootOnlyWithImage, Refusals

\* The pieces of TypeOK a step does not touch.
LEMMA TypeFrame ==
  ASSUME TypeOK, UNCHANGED input,
         cell' \in [Addr -> Byte], pc' \in {"start"} \cup Running \cup Stopped,
         conv28' \in BOOLEAN, dw' \in Nat, last' \in Addr \cup {-1},
         tries' \in 0 .. Retries, open' \subseteq {"erase", "program", "verify"},
         erases' \in Nat
  PROVE  TypeOK'
  BY DEF TypeOK, input

LEMMA ErasedType ==
  ASSUME TypeOK, NEW A \in SUBSET Addr
  PROVE  /\ Erased(A) \in [Addr -> Byte]
         /\ \A a \in Addr \ A : Erased(A)[a] = cell[a]
  BY DEF TypeOK, Erased, FF, Byte

LEMMA ProgramsType ==
  ASSUME TypeOK, dw \in Addr, dw - dwStart \in Addr, ChipPrograms
  PROVE  /\ cell' \in [Addr -> Byte]
         /\ \A a \in Addr \ Sector(dw) : cell'[a] = cell[a]
<1>1. Wanted \in Byte
  BY FlashAssumption DEF TypeOK, Wanted
<1>2. cell \in [Addr -> Byte] /\ dw \in Sector(dw) /\ Sector(dw) \subseteq Addr
  BY SectorFacts DEF TypeOK
<1>3. CASE cell' = [cell EXCEPT ![dw] = @ \cap Wanted]
  BY <1>1, <1>2, <1>3 DEF Byte
<1>4. CASE cell' = cell
  BY <1>2, <1>4
<1>5. ASSUME NEW a \in Sector(dw) \ {dw}, NEW v \in Byte,
             cell' = [cell EXCEPT ![dw] = @ \cap Wanted, ![a] = @ \cap v]
      PROVE  /\ cell' \in [Addr -> Byte]
             /\ \A b \in Addr \ Sector(dw) : cell'[b] = cell[b]
  <2>1. a \in Addr /\ a # dw
    BY <1>2
  <2>2. cell[dw] \cap Wanted \in Byte /\ cell[a] \cap v \in Byte
    BY <1>1, <1>2, <2>1 DEF Byte
  <2>3. QED
    BY <1>2, <1>5, <2>1, <2>2
<1>6. QED
  BY <1>3, <1>4, <1>5 DEF ChipPrograms

LEMMA EraseStep ==
  ASSUME FlashInv, EraseStart \/ EraseSkip \/ EraseGiveUp \/ Erase28 \/ Erase29 \/ EraseDone
  PROVE  FlashInv'
<1> USE DEF Running, Stopped, Refusals, Retries
<1>0. /\ TypeOK /\ dwStart \in Nat /\ dwLen \in Nat /\ dw \in Nat
  BY FlashAssumption DEF FlashInv, TypeOK
<1>1. CASE EraseStart
  <2>1. UNCHANGED <<input, cell>> /\ pc = "eraseStart"
    BY <1>1 DEF EraseStart
  <2>2. pc' = "failed" \/ (pc' = "erase" /\ dw' = dwStart)
    BY <1>1 DEF EraseStart, Enter, Fail
  <2>3. TypeOK'
    <3>1. \/ pc' = "failed" /\ dw' = dw /\ last' = last /\ tries' = tries
          \/ pc' = "erase" /\ dw' = dwStart /\ last' = -1 /\ tries' = 4
      BY <1>1 DEF EraseStart, Enter, Fail
    <3>2. conv28' = conv28 /\ erases' = erases /\ open' = open \cup {"erase"}
      BY <1>1 DEF EraseStart
    <3>3. QED
      BY <1>0, <2>1, <3>1, <3>2, TypeFrame DEF TypeOK
  <2>4. QED
    BY <1>0, <2>1, <2>2, <2>3, QuietStep
<1>2. CASE EraseSkip
  <2>1. UNCHANGED <<input, cell>> /\ pc = "erase" /\ ~AtEnd
    BY <1>2 DEF EraseSkip
  <2>2. (pc' = pc /\ dw' = dw + 1) \/ (pc' = "failed" /\ dw' = dw)
    BY <1>2 DEF EraseSkip, Advance, Fail
  <2>3. TypeOK'
    <3>1. /\ conv28' = conv28 /\ erases' = erases /\ open' = open
          /\ last' = last /\ tries' = tries
      BY <1>2 DEF EraseSkip
    <3>2. QED
      BY <1>0, <2>1, <2>2, <3>1, TypeFrame DEF TypeOK
  <2>4. pc' = "erase" => dw' \in dwStart .. dwStart + dwLen
    BY <1>0, <2>1, <2>2 DEF FlashInv, AtEnd
  <2>5. QED
    BY <2>1, <2>2, <2>3, <2>4, QuietStep
<1>3. CASE EraseGiveUp
  <2>1. UNCHANGED <<input, cell>> /\ pc = "erase" /\ ~AtEnd /\ pc' = "failed"
    BY <1>3 DEF EraseGiveUp, Error, Fail
  <2>2. dw - dwStart \in Nat
    BY <1>0, <2>1 DEF FlashInv
  <2>3. TypeOK'
    <3>1. /\ conv28' = conv28 /\ erases' = erases
          /\ open' = open \ {"erase"} /\ last' = last /\ tries' = 0 /\ dw' = dw
      BY <1>3 DEF EraseGiveUp, Error
    <3>2. QED
      BY <1>0, <2>1, <2>2, <3>1, TypeFrame DEF TypeOK
  <2>4. QED
    BY <2>1, <2>3, QuietStep
<1>4. ASSUME CountErase
      PROVE  /\ pc = "erase" /\ ~AtEnd /\ dw \in Addr /\ dw - dwStart \in Nat
             /\ last' \in Addr \cup {-1} /\ tries' \in 0 .. 4 /\ erases' \in Nat
  <2>1. pc = "erase" /\ ~AtEnd
    BY <1>4 DEF CountErase
  <2>2. dw \in Addr /\ dw - dwStart \in Nat
    BY <1>0, <2>1, AddressFacts DEF FlashInv
  <2>3. last' \in Addr \cup {-1} /\ tries' \in 0 .. 4 /\ erases' \in Nat
    BY <1>0, <1>4, <2>2 DEF CountErase, TypeOK
  <2>4. QED
    BY <2>1, <2>2, <2>3
<1>5. CASE Erase28
  <2>1. UNCHANGED <<input, dw>> /\ conv28' = conv28
    BY <1>5 DEF Erase28
  <2>2. /\ pc = "erase" /\ ~AtEnd /\ dw \in Addr /\ dw - dwStart \in Nat
        /\ last' \in Addr \cup {-1} /\ tries' \in 0 .. 4 /\ erases' \in Nat
    BY <1>4, <1>5 DEF Erase28
  <2>3. cell' = Erased(Sector(dw)) \/ cell' = cell
    BY <1>5 DEF Erase28
  <2>4. \/ pc' = pc /\ open' = open
        \/ pc' = "failed" /\ open' = open \ {"erase"}
    BY <1>5 DEF Erase28, Error, Fail
  <2>5. Sector(dw) \subseteq Addr
    BY <2>2, SectorFacts
  <2>6. cell' \in [Addr -> Byte] /\ \A a \in Addr \ Sector(dw) : cell'[a] = cell[a]
    BY <1>0, <2>3, <2>5, ErasedType DEF TypeOK
  <2>7. TypeOK'
    BY <1>0, <2>1, <2>2, <2>4, <2>6, TypeFrame DEF TypeOK
  <2>8. QED
    BY <2>1, <2>2, <2>4, <2>6, <2>7, CommandStep
<1>6. CASE Erase29
  <2>1. UNCHANGED <<input, dw, pc, open>> /\ conv28' = conv28
    BY <1>6 DEF Erase29
  <2>2. /\ pc = "erase" /\ ~AtEnd /\ dw \in Addr /\ dw - dwStart \in Nat
        /\ last' \in Addr \cup {-1} /\ tries' \in 0 .. 4 /\ erases' \in Nat
    BY <1>4, <1>6 DEF Erase29
  <2>3. \/ cell' = Erased(Addr) /\ dwStart = 0 /\ dwLen = ChipLength
        \/ cell' = Erased(Sector(dw)) \/ cell' = Erased({}) \/ cell' = cell
    BY <1>6 DEF Erase29, MayChipErase
  <2>4. Sector(dw) \subseteq Addr
    BY <2>2, SectorFacts
  <2>5. cell' \in [Addr -> Byte]
    BY <1>0, <2>3, <2>4, ErasedType DEF TypeOK
  <2>6. \/ \A a \in Addr \ Sector(dw) : cell'[a] = cell[a]
        \/ dwStart = 0 /\ dwLen = ChipLength
    BY <1>0, <2>3, <2>4, ErasedType DEF TypeOK
  <2>7. TypeOK'
    BY <1>0, <2>1, <2>2, <2>5, TypeFrame DEF TypeOK
  <2>8. QED
    BY <2>1, <2>2, <2>6, <2>7, CommandStep
<1>7. CASE EraseDone
  <2>1. UNCHANGED <<input, cell>> /\ pc = "erase" /\ pc' \in {"programStart", "failed"}
    BY <1>7 DEF EraseDone
  <2>2. TypeOK'
    <3>1. /\ conv28' = conv28 /\ erases' = erases
          /\ open' = open \ {"erase"} /\ last' = last /\ tries' = tries /\ dw' = dw
      BY <1>7 DEF EraseDone
    <3>2. QED
      BY <1>0, <2>1, <3>1, TypeFrame DEF TypeOK
  <2>3. QED
    BY <2>1, <2>2, QuietStep
<1>8. QED
  BY <1>1, <1>2, <1>3, <1>5, <1>6, <1>7

LEMMA ProgramStep ==
  ASSUME FlashInv,
         ProgramStart \/ ProgramSkip \/ ProgramGiveUp \/ Program28 \/ Program29 \/ ProgramDone
  PROVE  FlashInv'
<1> USE DEF Running, Stopped, Refusals, Retries
<1>0. /\ TypeOK /\ dwStart \in Nat /\ dwLen \in Nat /\ dw \in Nat
  BY FlashAssumption DEF FlashInv, TypeOK
<1>1. CASE ProgramStart
  <2>1. UNCHANGED <<input, cell>> /\ pc = "programStart"
    BY <1>1 DEF ProgramStart
  <2>2. \/ pc' = "failed" /\ dw' = dw /\ last' = last /\ tries' = tries
        \/ pc' = "program" /\ dw' = dwStart /\ last' = -1 /\ tries' = 4
    BY <1>1 DEF ProgramStart, Enter, Fail
  <2>3. TypeOK'
    <3>1. conv28' = conv28 /\ erases' = erases /\ open' = open \cup {"program"}
      BY <1>1 DEF ProgramStart
    <3>2. QED
      BY <1>0, <2>1, <2>2, <3>1, TypeFrame DEF TypeOK
  <2>4. QED
    BY <1>0, <2>1, <2>2, <2>3, QuietStep
<1>2. CASE ProgramSkip
  <2>1. UNCHANGED <<input, cell>> /\ pc = "program" /\ ~AtEnd
    BY <1>2 DEF ProgramSkip
  <2>2. (pc' = pc /\ dw' = dw + 1) \/ (pc' = "failed" /\ dw' = dw)
    BY <1>2 DEF ProgramSkip, Advance, Fail
  <2>3. TypeOK'
    <3>1. /\ conv28' = conv28 /\ erases' = erases /\ open' = open
          /\ last' = last /\ tries' = tries
      BY <1>2 DEF ProgramSkip
    <3>2. QED
      BY <1>0, <2>1, <2>2, <3>1, TypeFrame DEF TypeOK
  <2>4. pc' = "program" => dw' \in dwStart .. dwStart + dwLen
    BY <1>0, <2>1, <2>2 DEF FlashInv, AtEnd
  <2>5. QED
    BY <2>1, <2>2, <2>3, <2>4, QuietStep
<1>3. CASE ProgramGiveUp
  <2>1. UNCHANGED <<input, cell>> /\ pc = "program" /\ pc' = "failed"
    BY <1>3 DEF ProgramGiveUp, Error, Fail
  <2>2. TypeOK'
    <3>1. /\ conv28' = conv28 /\ erases' = erases
          /\ open' = open \ {"program"} /\ last' = last /\ tries' = 0 /\ dw' = dw
      BY <1>3 DEF ProgramGiveUp, Error
    <3>2. QED
      BY <1>0, <2>1, <3>1, TypeFrame DEF TypeOK
  <2>3. QED
    BY <2>1, <2>2, QuietStep
<1>4. ASSUME CountProgram
      PROVE  /\ pc = "program" /\ ~AtEnd /\ dw \in Addr
             /\ dw - dwStart \in Nat /\ dw - dwStart \in Addr
             /\ last' \in Addr \cup {-1} /\ tries' \in 0 .. 4
  <2>1. pc = "program" /\ ~AtEnd
    BY <1>4 DEF CountProgram
  <2>2. dw \in Addr /\ dw - dwStart \in Nat /\ dw - dwStart \in Addr
    BY <1>0, <2>1, AddressFacts DEF FlashInv
  <2>3. last' \in Addr \cup {-1} /\ tries' \in 0 .. 4
    BY <1>0, <1>4, <2>2 DEF CountProgram, TypeOK
  <2>4. QED
    BY <2>1, <2>2, <2>3
<1>5. CASE Program28
  <2>1. UNCHANGED <<input, dw>> /\ conv28' = conv28 /\ erases' = erases
    BY <1>5 DEF Program28
  <2>2. /\ pc = "program" /\ ~AtEnd /\ dw \in Addr
        /\ dw - dwStart \in Nat /\ dw - dwStart \in Addr
        /\ last' \in Addr \cup {-1} /\ tries' \in 0 .. 4
    BY <1>4, <1>5 DEF Program28
  <2>3. cell' \in [Addr -> Byte] /\ \A a \in Addr \ Sector(dw) : cell'[a] = cell[a]
    BY <1>0, <1>5, <2>2, ProgramsType DEF Program28
  <2>4. \/ pc' = pc /\ open' = open
        \/ pc' = "failed" /\ open' = open \ {"program"}
    BY <1>5 DEF Program28, Error, Fail
  <2>5. TypeOK'
    BY <1>0, <2>1, <2>2, <2>3, <2>4, TypeFrame DEF TypeOK
  <2>6. QED
    BY <2>1, <2>2, <2>3, <2>4, <2>5, CommandStep
<1>6. CASE Program29
  <2>1. UNCHANGED <<input, dw, pc, open>> /\ conv28' = conv28 /\ erases' = erases
    BY <1>6 DEF Program29
  <2>2. /\ pc = "program" /\ ~AtEnd /\ dw \in Addr
        /\ dw - dwStart \in Nat /\ dw - dwStart \in Addr
        /\ last' \in Addr \cup {-1} /\ tries' \in 0 .. 4
    BY <1>4, <1>6 DEF Program29
  <2>3. ChipPrograms \/ cell' = cell
    BY <1>6 DEF Program29
  <2>4. cell' \in [Addr -> Byte] /\ \A a \in Addr \ Sector(dw) : cell'[a] = cell[a]
    BY <1>0, <2>2, <2>3, ProgramsType DEF TypeOK
  <2>5. TypeOK'
    BY <1>0, <2>1, <2>2, <2>4, TypeFrame DEF TypeOK
  <2>6. QED
    BY <2>1, <2>2, <2>4, <2>5, CommandStep
<1>7. CASE ProgramDone
  <2>1. UNCHANGED <<input, cell>> /\ pc = "program"
    BY <1>7 DEF ProgramDone
  <2>2. (pc' = "verify" /\ dw' = dwStart) \/ (pc' = "failed" /\ dw' = dw)
    BY <1>7 DEF ProgramDone, Fail
  <2>3. TypeOK'
    <3>1. /\ conv28' = conv28 /\ erases' = erases
          /\ last' = last /\ tries' = tries
          /\ open' \subseteq open \cup {"verify"}
      BY <1>7 DEF ProgramDone
    <3>2. QED
      BY <1>0, <2>1, <2>2, <3>1, TypeFrame DEF TypeOK
  <2>4. QED
    BY <1>0, <2>1, <2>2, <2>3, QuietStep
<1>8. QED
  BY <1>1, <1>2, <1>3, <1>5, <1>6, <1>7

LEMMA VerifyStep ==
  ASSUME FlashInv, VerifyByte \/ VerifyError \/ VerifyDone
  PROVE  FlashInv'
<1> USE DEF Running, Stopped, Refusals
<1>0. /\ TypeOK /\ dwStart \in Nat /\ dwLen \in Nat /\ dw \in Nat
  BY FlashAssumption DEF FlashInv, TypeOK
<1>1. CASE VerifyByte
  <2>1. /\ UNCHANGED <<input, cell>> /\ pc = "verify" /\ pc' = pc /\ dw' = dw + 1
        /\ ~AtEnd /\ cell[dw] = pba[dw - dwStart]
    BY <1>1 DEF VerifyByte, Wanted
  <2>2. TypeOK'
    <3>1. /\ conv28' = conv28 /\ erases' = erases
          /\ last' = last /\ tries' = tries /\ open' = open
      BY <1>1 DEF VerifyByte
    <3>2. QED
      BY <1>0, <2>1, <3>1, TypeFrame DEF TypeOK
  <2>3. dw' \in dwStart .. dwStart + dwLen
    BY <1>0, <2>1 DEF FlashInv, AtEnd
  <2>4. \A a \in dwStart .. dw' - 1 : cell[a] = pba[a - dwStart]
    BY <1>0, <2>1 DEF FlashInv
  <2>5. QED
    BY <2>1, <2>2, <2>3, <2>4, QuietStep
<1>2. CASE VerifyError
  <2>1. UNCHANGED <<input, cell>> /\ pc = "verify" /\ pc' = "failed"
    BY <1>2 DEF VerifyError, Fail
  <2>2. TypeOK'
    <3>1. /\ conv28' = conv28 /\ erases' = erases /\ dw' = dw
          /\ last' = last /\ tries' = tries /\ open' \subseteq open
      BY <1>2 DEF VerifyError
    <3>2. QED
      BY <1>0, <2>1, <3>1, TypeFrame DEF TypeOK
  <2>3. QED
    BY <2>1, <2>2, QuietStep
<1>3. CASE VerifyDone
  <2>1. UNCHANGED <<input, cell>> /\ pc = "verify" /\ pc' \in {"rebooted", "failed"} /\ AtEnd
    BY <1>3 DEF VerifyDone
  <2>2. TypeOK'
    <3>1. /\ conv28' = conv28 /\ erases' = erases /\ dw' = dw
          /\ last' = last /\ tries' = tries /\ open' = open \ {"verify"}
      BY <1>3 DEF VerifyDone
    <3>2. QED
      BY <1>0, <2>1, <3>1, TypeFrame DEF TypeOK
  <2>3. \A a \in Region : cell[a] = pba[a - dwStart]
    BY <1>0, <2>1 DEF FlashInv, AtEnd, Region
  <2>4. QED
    BY <2>1, <2>2, <2>3, QuietStep
<1>4. QED
  BY <1>1, <1>2, <1>3

LEMMA DescriptorStep ==
  ASSUME FlashInv, GetDescriptor
  PROVE  FlashInv'
<1>1. UNCHANGED <<input, cell>> /\ pc = "start" /\ pc' = Outcome
  BY DEF GetDescriptor
<1>2. UNCHANGED <<chip, dwStart, dwLen, pba, orig, cell>>
  BY <1>1 DEF input
<1>3. pc' \in Refusals \cup {"eraseStart"}
  BY <1>1 DEF Outcome, Refusals
<1>4. pc' = "eraseStart" => dwStart + dwLen <= ChipLength
  BY <1>1, FlashAssumption DEF Outcome, FlashInv, TypeOK
<1>5. TypeOK'
  <2>1. conv28' \in BOOLEAN
    BY DEF GetDescriptor, Detects28
  <2>2. /\ dw' = dw /\ erases' = erases
        /\ last' = last /\ tries' = tries /\ open' = open
    BY DEF GetDescriptor
  <2>3. QED
    BY <1>1, <1>3, <2>1, <2>2, TypeFrame DEF TypeOK, FlashInv, Running, Stopped
<1>6. cell' = orig'
  BY <1>1, <1>2 DEF FlashInv
<1>7. FootprintMinimal'
  BY <1>6 DEF FootprintMinimal
<1>8. QED
  BY <1>2, <1>3, <1>4, <1>5, <1>6, <1>7 DEF FlashInv, RebootOnlyWithImage, Refusals

LEMMA NextFlashInv == FlashInv /\ [Next]_vars => FlashInv'
<1> SUFFICES ASSUME FlashInv, [Next]_vars PROVE FlashInv'
  OBVIOUS
<1>1. CASE UNCHANGED vars
  BY <1>1 DEF vars, FlashInv, TypeOK, RebootOnlyWithImage, FootprintMinimal, Region, Sector
<1>2. CASE Next
  BY <1>2, DescriptorStep, EraseStep, ProgramStep, VerifyStep DEF Next
<1>3. QED
  BY <1>1, <1>2

\* The invariant of the flash update holds throughout.
THEOREM FlashInvariant == Spec => []FlashInv
  BY InitFlashInv, NextFlashInv, PTL DEF Spec

\* BootReflashAndReset reboots only into a flash that holds the whole image.
THEOREM FlashRebootOnlyWithImage == Spec => []RebootOnlyWithImage
<1>1. FlashInv => RebootOnlyWithImage
  BY DEF FlashInv
<1>2. QED
  BY <1>1, FlashInvariant, PTL

\* BootFlashEraseMinimalRegion and BootFlashProgram change no sector that the
\* region does not reach.
THEOREM FlashFootprint == Spec => []FootprintMinimal
<1>1. FlashInv => FootprintMinimal
  BY DEF FlashInv
<1>2. QED
  BY <1>1, FlashInvariant, PTL

\* BootReflashAndReset implements the safety part of its promise.
THEOREM FlashKeepsPromise == Spec => Promise!Safety
<1>1. Init => Promise!Init
  BY DEF Init, Promise!Init
<1>2. FlashInv /\ FlashInv' /\ [Next]_vars => [Promise!Next]_(Promise!vars)
  <2> SUFFICES ASSUME FlashInv, [Next]_vars PROVE [Promise!Next]_(Promise!vars)
    OBVIOUS
  <2>1. CASE UNCHANGED vars
    BY <2>1 DEF vars, Promise!vars, HoldsImage, Region
  <2>2. CASE GetDescriptor
    <3>1. UNCHANGED <<dwStart, dwLen, pba, orig, cell>> /\ pc = "start" /\ pc' = Outcome
      BY <2>2 DEF GetDescriptor, input
    <3>2. HoldsImage' = HoldsImage /\ (cell = orig)' = (cell = orig)
      BY <3>1 DEF HoldsImage, Region
    <3>3. pc' \in Refusals \/ pc' = "eraseStart"
      BY <3>1 DEF Outcome, Refusals
    <3>4. QED
      BY <3>1, <3>2, <3>3 DEF Promise!Next, Promise!Refuse, Promise!Begin, Refusals, Running
  <2>3. CASE VerifyDone
    <3>1. UNCHANGED <<dwStart, dwLen, pba, orig, cell>> /\ pc = "verify"
      BY <2>3 DEF VerifyDone, input
    <3>2. HoldsImage' = HoldsImage /\ (cell = orig)' = (cell = orig)
      BY <3>1 DEF HoldsImage, Region
    <3>3. pc' = "rebooted" \/ pc' = "failed"
      BY <2>3 DEF VerifyDone
    <3>4. dwStart \in Nat /\ dwLen \in Nat /\ dw \in Nat
      BY FlashAssumption DEF FlashInv, TypeOK
    <3>5. HoldsImage
      BY <2>3, <3>1, <3>4 DEF FlashInv, HoldsImage, Region, AtEnd, VerifyDone, Refusals
    <3>6. QED
      BY <3>1, <3>2, <3>3, <3>5 DEF Promise!Next, Promise!Reboot, Promise!Halt, Refusals, Running
  <2>4. ASSUME pc \in Running, pc' \in Running \cup {"failed"}
        PROVE  Promise!Next
    BY <2>4 DEF Promise!Next, Promise!Write, Promise!Halt, Refusals, Running
  <2>5. CASE EraseStart \/ EraseSkip \/ EraseGiveUp \/ Erase28 \/ Erase29 \/ EraseDone
    <3>1. pc \in Running /\ pc' \in Running \cup {"failed"}
      BY <2>5 DEF EraseStart, EraseSkip, EraseGiveUp, Erase28, Erase29, EraseDone,
                  CountErase, Enter, Advance, Error, Fail, Running
    <3>2. QED
      BY <2>4, <3>1
  <2>6. CASE ProgramStart \/ ProgramSkip \/ ProgramGiveUp \/ Program28 \/ Program29
             \/ ProgramDone \/ VerifyByte \/ VerifyError
    <3>1. pc \in Running /\ pc' \in Running \cup {"failed"}
      BY <2>6 DEF ProgramStart, ProgramSkip, ProgramGiveUp, Program28, Program29, ProgramDone,
                  VerifyByte, VerifyError, CountProgram, Enter, Advance, Error, Fail, Running
    <3>2. QED
      BY <2>4, <3>1
  <2>7. QED
    BY <2>1, <2>2, <2>3, <2>5, <2>6 DEF Next
<1>3. QED
  BY <1>1, <1>2, FlashInvariant, PTL DEF Spec, Promise!Safety

-----------------------------------------------------------------------------
(* The callback's events *)

LEMMA InitEvents == Init => EventsPaired
  BY DEF Init, EventsPaired

LEMMA NextEvents == EventsPaired /\ [Next]_vars => EventsPaired'
<1> SUFFICES ASSUME EventsPaired, [Next]_vars, answers' = {TRUE} PROVE EventsPaired'
  BY DEF EventsPaired
<1>1. CASE UNCHANGED vars
  BY <1>1 DEF vars, EventsPaired
<1>2. CASE Next
  <2>1. answers = {TRUE} /\ open = {"erase", "program", "verify"} \cap {pc}
    BY <1>2 DEF Next, EventsPaired, input, GetDescriptor, EraseStart, EraseSkip, EraseGiveUp,
                Erase28, Erase29, EraseDone, ProgramStart, ProgramSkip, ProgramGiveUp,
                Program28, Program29, ProgramDone, VerifyByte, VerifyError, VerifyDone
  <2>2. CASE GetDescriptor
    <3>1. pc = "start" /\ pc' \in Refusals \cup {"eraseStart"} /\ open' = open
      BY <2>2 DEF GetDescriptor, Outcome, Refusals
    <3>2. QED
      BY <2>1, <3>1 DEF EventsPaired, Refusals
  <2>3. CASE EraseStart
    <3>1. pc = "eraseStart" /\ pc' = "erase" /\ open' = open \cup {"erase"}
      BY <2>1, <2>3 DEF EraseStart, Enter
    <3>2. QED
      BY <2>1, <3>1 DEF EventsPaired
  <2>4. CASE EraseSkip \/ ProgramSkip
    <3>1. pc' = pc /\ open' = open
      <4>1. Advance /\ open' = open
        BY <2>4 DEF EraseSkip, ProgramSkip
      <4>2. PICK ok \in IF dw % UpdateEvery = 0 THEN answers ELSE {TRUE} :
                IF ok THEN dw' = dw + 1 /\ pc' = pc ELSE dw' = dw /\ Fail
        BY <4>1 DEF Advance
      <4>3. ok
        BY <2>1
      <4>4. QED
        BY <4>1, <4>2, <4>3
    <3>2. QED
      BY <2>1, <3>1 DEF EventsPaired
  <2>5. CASE EraseGiveUp \/ ProgramGiveUp
    <3>1. pc \in {"erase", "program"} /\ pc' = "failed" /\ open' = open \ {pc}
      BY <2>5 DEF EraseGiveUp, ProgramGiveUp, Error, Fail
    <3>2. QED
      BY <2>1, <3>1 DEF EventsPaired
  <2>6. CASE Erase28 \/ Program28
    <3>1. \/ pc' = pc /\ open' = open
          \/ pc \in {"erase", "program"} /\ pc' = "failed" /\ open' = open \ {pc}
      BY <2>6 DEF Erase28, Program28, CountErase, CountProgram, Error, Fail
    <3>2. QED
      BY <2>1, <3>1 DEF EventsPaired
  <2>7. CASE Erase29 \/ Program29 \/ VerifyByte
    <3>1. pc' = pc /\ open' = open
      BY <2>7 DEF Erase29, Program29, VerifyByte
    <3>2. QED
      BY <2>1, <3>1 DEF EventsPaired
  <2>8. CASE EraseDone
    <3>1. pc = "erase" /\ pc' = "programStart" /\ open' = open \ {"erase"}
      BY <2>1, <2>8 DEF EraseDone
    <3>2. QED
      BY <2>1, <3>1 DEF EventsPaired
  <2>9. CASE ProgramStart
    <3>1. pc = "programStart" /\ pc' = "program" /\ open' = open \cup {"program"}
      BY <2>1, <2>9 DEF ProgramStart, Enter
    <3>2. QED
      BY <2>1, <3>1 DEF EventsPaired
  <2>10. CASE ProgramDone
    <3>1. pc = "program" /\ pc' = "verify" /\ open' = (open \ {"program"}) \cup {"verify"}
      BY <2>1, <2>10 DEF ProgramDone
    <3>2. QED
      BY <2>1, <3>1 DEF EventsPaired
  <2>11. CASE VerifyError \/ VerifyDone
    <3>1. pc = "verify" /\ pc' \in {"rebooted", "failed"} /\ open' = open \ {"verify"}
      BY <2>1, <2>11 DEF VerifyError, VerifyDone, Fail
    <3>2. QED
      BY <2>1, <3>1 DEF EventsPaired
  <2>12. QED
    BY <1>2, <2>2, <2>3, <2>4, <2>5, <2>6, <2>7, <2>8, <2>9, <2>10, <2>11 DEF Next
<1>3. QED
  BY <1>1, <1>2

\* BootFlash.h: a callback that never aborts gets the END event of every phase
\* whose START it got, on every path out of the driver.
THEOREM FlashEndFollowsStart == Spec => []EndFollowsStart
<1>1. EventsPaired => EndFollowsStart
  BY DEF EventsPaired, EndFollowsStart, Stopped, Refusals
<1>2. QED
  BY <1>1, InitEvents, NextEvents, PTL DEF Spec

-----------------------------------------------------------------------------
(* The erase retry counter *)

LEMMA BlockFacts ==
  ASSUME NEW a \in Nat, NEW b \in Nat, a <= b
  PROVE  /\ a \div BlockSize \in 0 .. a
         /\ a \div BlockSize <= b \div BlockSize
<1>1. BlockSize \in Nat \ {0}
  BY FlashAssumption
<1>2. a \div BlockSize \in 0 .. a
  BY <1>1
<1>3. a \div BlockSize <= b \div BlockSize
  BY <1>1
<1>4. QED
  BY <1>2, <1>3

\* The blocks up to an address are finitely many.
LEMMA BlocksFinite ==
  ASSUME dwStart \in Nat, NEW a \in Nat
  PROVE  IsFiniteSet(BlocksUpTo(a)) /\ Cardinality(BlocksUpTo(a)) \in Nat
<1>1. BlocksUpTo(a) \subseteq 0 .. a
  <2>1. \A b \in dwStart .. a : b \in Nat /\ b <= a
    OBVIOUS
  <2>2. \A b \in dwStart .. a : b \div BlockSize \in 0 .. b
    BY <2>1, BlockFacts
  <2>3. \A b \in dwStart .. a : \A c \in 0 .. b : c \in 0 .. a
    OBVIOUS
  <2>4. QED
    BY <2>2, <2>3 DEF BlocksUpTo
<1>2. IsFiniteSet(0 .. a)
  BY FS_Interval
<1>3. QED
  BY <1>1, <1>2, FS_Subset, FS_CardinalityType

\* An address whose block differs from that of an earlier one opens a new block.
LEMMA NewBlock ==
  ASSUME dwStart \in Nat, NEW d \in Nat, NEW l \in dwStart .. d,
         l \div BlockSize # d \div BlockSize
  PROVE  Cardinality(BlocksUpTo(d)) >= Cardinality(BlocksUpTo(l)) + 1
<1>1. l \in Nat /\ d \in dwStart .. d /\ l <= d
  OBVIOUS
<1>2. l \div BlockSize \in Int /\ d \div BlockSize \in Int /\ l \div BlockSize <= d \div BlockSize
  BY <1>1, BlockFacts
<1>3. d \div BlockSize \notin BlocksUpTo(l)
  <2>1. SUFFICES ASSUME NEW b \in dwStart .. l, b \div BlockSize = d \div BlockSize
                 PROVE  FALSE
    BY DEF BlocksUpTo
  <2>2. b \in Nat /\ b <= l
    BY <1>1
  <2>3. b \div BlockSize <= l \div BlockSize
    BY <1>1, <2>2, BlockFacts
  <2>4. QED
    BY <1>2, <2>1, <2>3
<1>4. BlocksUpTo(l) \cup {d \div BlockSize} \in SUBSET BlocksUpTo(d)
  <2>1. \A b \in dwStart .. l : b \in dwStart .. d
    BY <1>1
  <2>2. QED
    BY <1>1, <2>1 DEF BlocksUpTo
<1>5. /\ Cardinality(BlocksUpTo(l) \cup {d \div BlockSize}) = Cardinality(BlocksUpTo(l)) + 1
      /\ Cardinality(BlocksUpTo(l) \cup {d \div BlockSize}) <= Cardinality(BlocksUpTo(d))
  BY <1>1, <1>3, <1>4, BlocksFinite, FS_AddElement, FS_Subset
<1>6. QED
  BY <1>1, <1>5, BlocksFinite

LEMMA FirstBlock ==
  ASSUME dwStart \in Nat, NEW d \in Nat, dwStart <= d
  PROVE  Cardinality(BlocksUpTo(d)) >= 1
<1>1. IsFiniteSet(BlocksUpTo(d)) /\ Cardinality(BlocksUpTo(d)) \in Nat
  BY BlocksFinite
<1>2. d \div BlockSize \in BlocksUpTo(d)
  BY DEF BlocksUpTo
<1>3. Cardinality(BlocksUpTo(d)) # 0
  BY <1>1, <1>2, FS_EmptySet
<1>4. QED
  BY <1>1, <1>3

\* The bookkeeping's arithmetic: in a block met before, and in a new one.
LEMMA AttemptsSame ==
  ASSUME NEW e \in Nat, NEW t \in Nat, NEW c \in Nat, e + t <= 4 * c + 1, t > 1
  PROVE  (e + 1) + (t - 1) <= 4 * c + 1 /\ t - 1 >= 1 /\ e + 1 <= 4 * c
  OBVIOUS

LEMMA AttemptsNew ==
  ASSUME NEW e \in Nat, NEW t \in Nat, NEW c \in Nat, NEW d \in Nat,
         e + t <= 4 * c + 1, t >= 1, d >= c + 1
  PROVE  (e + 1) + 4 <= 4 * d + 1 /\ e + 1 <= 4 * d
  OBVIOUS

\* An erase attempt.
LEMMA CountStep ==
  ASSUME FlashInv, AttemptsInv, CountErase, UNCHANGED <<input, dw>>,
         pc' \in {"erase", "failed"}
  PROVE  AttemptsInv'
<1>1. /\ pc = "erase" /\ ~AtEnd /\ last \in Addr \cup {-1} /\ tries \in Nat /\ erases \in Nat
      /\ dwStart \in Nat /\ dwLen \in Nat /\ dwStart' = dwStart /\ dwLen' = dwLen /\ dw' = dw
  BY FlashAssumption DEF CountErase, FlashInv, TypeOK, input, Retries
<1>2. dw \in Addr /\ dw \in Region /\ dw \in Nat /\ dwStart <= dw
  BY <1>1, AddressFacts DEF FlashInv, Region, TypeOK
<1>3. BlocksUpTo(last)' = BlocksUpTo(last')
  BY <1>1 DEF BlocksUpTo
<1>4. erases' = erases + 1
  BY DEF CountErase
<1>5. /\ last' \in dwStart .. dw /\ tries' >= 1
      /\ erases' + tries' <= 4 * Cardinality(BlocksUpTo(last')) + 1
      /\ erases' <= 4 * Cardinality(BlocksUpTo(last'))
  <2>1. CASE SameBlock
    <3>1. tries > 1 /\ tries' = tries - 1 /\ last' = last /\ last # -1
      BY <2>1 DEF CountErase, SameBlock
    <3>2. last \in dwStart .. dw /\ erases + tries <= 4 * Cardinality(BlocksUpTo(last)) + 1
      BY <1>1, <3>1 DEF AttemptsInv, Retries
    <3>3. Cardinality(BlocksUpTo(last)) \in Nat
      BY <1>1, <1>2, <3>2, BlocksFinite
    <3>4. QED
      BY <1>1, <1>4, <3>1, <3>2, <3>3, AttemptsSame
  <2>2. CASE ~SameBlock
    <3>1. tries' = 4 /\ last' = dw
      BY <2>2 DEF CountErase, Retries
    <3>2. Cardinality(BlocksUpTo(dw)) \in Nat
      BY <1>1, <1>2, BlocksFinite
    <3>3. CASE last = -1
      <4>1. erases = 0 /\ Cardinality(BlocksUpTo(dw)) >= 1
        BY <1>1, <1>2, <3>3, FirstBlock DEF AttemptsInv
      <4>2. QED
        BY <1>1, <1>2, <1>4, <3>1, <3>2, <4>1
    <3>4. CASE last # -1
      <4>1. /\ last \in dwStart .. dw /\ tries >= 1
            /\ erases + tries <= 4 * Cardinality(BlocksUpTo(last)) + 1
        BY <1>1, <3>4 DEF AttemptsInv, Retries
      <4>2. last \div BlockSize # dw \div BlockSize
        BY <2>2, <3>4 DEF SameBlock
      <4>3. last \in Nat /\ Cardinality(BlocksUpTo(last)) \in Nat
        BY <1>1, <3>4, BlocksFinite DEF Addr
      <4>4. Cardinality(BlocksUpTo(dw)) >= Cardinality(BlocksUpTo(last)) + 1
        BY <1>1, <1>2, <4>1, <4>2, NewBlock
      <4>5. (erases + 1) + 4 <= 4 * Cardinality(BlocksUpTo(dw)) + 1
             /\ erases + 1 <= 4 * Cardinality(BlocksUpTo(dw))
        BY <1>1, <3>2, <4>1, <4>3, <4>4, AttemptsNew
      <4>6. QED
        BY <1>1, <1>2, <1>4, <3>1, <4>5
    <3>5. QED
      BY <3>3, <3>4
  <2>3. QED
    BY <2>1, <2>2
<1>6. EraseAttemptsBounded'
  <2> DEFINE All == {a \div BlockSize : a \in Region \cap Addr}
  <2>1. BlocksUpTo(last') \in SUBSET All
    <3>0. ChipLength \in Nat /\ dw < dwStart + dwLen /\ dw <= ChipLength - 1
      BY <1>1, <1>2, FlashAssumption DEF Region, Addr
    <3>1. \A b \in dwStart .. last' : b \in Region \cap Addr
      BY <1>1, <1>2, <1>5, <3>0 DEF Region, Addr
    <3>2. QED
      BY <3>1 DEF BlocksUpTo
  <2>2. IsFiniteSet(All) /\ Cardinality(All) \in Nat
    <3>1. \A a \in Addr : a \in Nat /\ a <= ChipLength /\ ChipLength \in Nat
      BY FlashAssumption DEF Addr
    <3>2. \A a \in Addr : a \div BlockSize \in 0 .. a
      BY <3>1, BlockFacts
    <3>3. All \in SUBSET (0 .. ChipLength)
      BY <3>1, <3>2
    <3>4. IsFiniteSet(0 .. ChipLength)
      BY FlashAssumption, FS_Interval
    <3>5. QED
      BY <3>3, <3>4, FS_Subset, FS_CardinalityType
  <2>3. Cardinality(BlocksUpTo(last')) <= Cardinality(All)
    BY <2>1, <2>2, FS_Subset
  <2>4. Cardinality(BlocksUpTo(last')) \in Nat
    <3>1. last' \in Nat
      BY <1>1, <1>2, <1>5
    <3>2. QED
      BY <1>1, <3>1, BlocksFinite
  <2>5. erases' <= 4 * Cardinality(All)
    BY <1>1, <1>4, <1>5, <2>2, <2>3, <2>4
  <2>6. All' = All
    BY <1>1 DEF Region
  <2>7. QED
    BY <2>5, <2>6 DEF EraseAttemptsBounded, Retries
<1>7. last' # -1
  BY <1>1, <1>2, <1>5
<1>8. erases' + tries' <= Retries * Cardinality(BlocksUpTo(last)') + 1
  BY <1>3, <1>5 DEF Retries
<1>9. QED
  BY <1>1, <1>5, <1>6, <1>7, <1>8 DEF AttemptsInv

LEMMA InitAttempts == Init => AttemptsInv
<1> SUFFICES ASSUME Init PROVE AttemptsInv
  OBVIOUS
<1>1. pc = "start" /\ erases = 0
  BY DEF Init
<1>2. Cardinality({a \div BlockSize : a \in Region \cap Addr}) \in Nat
  <2>1. \A a \in Addr : a \in Nat /\ a <= ChipLength /\ ChipLength \in Nat
    BY FlashAssumption DEF Addr
  <2>2. \A a \in Addr : a \div BlockSize \in 0 .. a
    BY <2>1, BlockFacts
  <2>3. {a \div BlockSize : a \in Region \cap Addr} \in SUBSET (0 .. ChipLength)
    BY <2>1, <2>2
  <2>4. IsFiniteSet(0 .. ChipLength)
    BY FlashAssumption, FS_Interval
  <2>5. QED
    BY <2>3, <2>4, FS_Subset, FS_CardinalityType
<1>3. EraseAttemptsBounded
  BY <1>1, <1>2 DEF EraseAttemptsBounded, Retries
<1>4. QED
  BY <1>1, <1>3 DEF AttemptsInv

LEMMA NextAttempts == FlashInv /\ AttemptsInv /\ [Next]_vars => AttemptsInv'
<1> SUFFICES ASSUME FlashInv, AttemptsInv, [Next]_vars PROVE AttemptsInv'
  OBVIOUS
<1>1. ASSUME UNCHANGED <<input, erases>> PROVE EraseAttemptsBounded'
  BY <1>1 DEF AttemptsInv, EraseAttemptsBounded, Region, input
<1>2. ASSUME UNCHANGED <<input, erases>>, pc' \notin {"start", "eraseStart", "erase"}
      PROVE  AttemptsInv'
  BY <1>1, <1>2 DEF AttemptsInv
<1>3. CASE UNCHANGED vars
  BY <1>3 DEF vars, AttemptsInv, EraseAttemptsBounded, Region, BlocksUpTo
<1>4. CASE GetDescriptor
  <2>1. UNCHANGED <<input, erases>> /\ erases = 0 /\ pc' # "erase"
    BY <1>4 DEF GetDescriptor, AttemptsInv, Outcome
  <2>2. QED
    BY <1>1, <2>1 DEF AttemptsInv
<1>5. CASE EraseStart
  <2>1. UNCHANGED <<input, erases>> /\ erases = 0
    BY <1>5 DEF EraseStart, AttemptsInv
  <2>2. pc' = "failed" \/ (pc' = "erase" /\ last' = -1)
    BY <1>5 DEF EraseStart, Enter, Fail
  <2>3. QED
    BY <1>1, <2>1, <2>2 DEF AttemptsInv
<1>6. CASE EraseSkip
  <2>1. UNCHANGED <<input, erases, last, tries, dwStart>> /\ pc = "erase"
    BY <1>6 DEF EraseSkip, input
  <2>2. (pc' = pc /\ dw' = dw + 1) \/ pc' = "failed"
    BY <1>6 DEF EraseSkip, Advance, Fail
  <2>3. CASE pc' = pc /\ dw' = dw + 1
    <3>1. BlocksUpTo(last)' = BlocksUpTo(last)
      BY <2>1 DEF BlocksUpTo
    <3>2. dwStart \in Nat /\ dw \in Nat
      BY FlashAssumption DEF FlashInv, TypeOK
    <3>3. last \in dwStart .. dw => last \in dwStart .. dw'
      BY <2>3, <3>2
    <3>4. QED
      BY <1>1, <2>1, <2>3, <3>1, <3>3 DEF AttemptsInv
  <2>4. QED
    BY <1>2, <2>1, <2>2, <2>3
<1>7. CASE Erase28 \/ Erase29
  <2>1. CountErase /\ UNCHANGED <<input, dw>> /\ pc' \in {"erase", "failed"}
    BY <1>7 DEF Erase28, Erase29, CountErase, Error, Fail
  <2>2. QED
    BY <2>1, CountStep
<1>8. CASE EraseGiveUp \/ EraseDone
  <2>1. UNCHANGED <<input, erases>> /\ pc' \in {"failed", "programStart"}
    BY <1>8 DEF EraseGiveUp, EraseDone, Error, Fail
  <2>2. QED
    BY <1>2, <2>1
<1>9. CASE ProgramStart \/ ProgramSkip \/ ProgramGiveUp \/ Program28 \/ Program29 \/ ProgramDone
  <2>1. UNCHANGED <<input, erases>>
    BY <1>9 DEF ProgramStart, ProgramSkip, ProgramGiveUp, Program28, Program29, ProgramDone
  <2>2. pc' \in {"failed", "program", "verify"}
    BY <1>9 DEF ProgramStart, ProgramSkip, ProgramGiveUp, Program28, Program29, ProgramDone,
                Enter, Advance, CountProgram, Error, Fail
  <2>3. QED
    BY <1>2, <2>1, <2>2
<1>10. CASE VerifyByte \/ VerifyError \/ VerifyDone
  <2>1. UNCHANGED <<input, erases>> /\ pc' \in {"failed", "verify", "rebooted"}
    BY <1>10 DEF VerifyByte, VerifyError, VerifyDone, Fail
  <2>2. QED
    BY <1>2, <2>1
<1>11. QED
  BY <1>3, <1>4, <1>5, <1>6, <1>7, <1>8, <1>9, <1>10 DEF Next

\* BootFlashEraseMinimalRegion: at most MAX_ERASE_RETRIES_IN_4KBLOCK attempts for
\* every 4 KB block of the region, on every chip, wherever the attempts fail.
THEOREM FlashEraseAttempts == Spec => []EraseAttemptsBounded
<1>1. AttemptsInv => EraseAttemptsBounded
  BY DEF AttemptsInv
<1>2. QED
  BY <1>1, InitAttempts, NextAttempts, FlashInvariant, PTL DEF Spec

=============================================================================
