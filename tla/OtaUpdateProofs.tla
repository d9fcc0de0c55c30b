-------------------------- MODULE OtaUpdateProofs --------------------------
(***************************************************************************)
(* Proofs about OtaUpdate, for every set of versions, image size, sector   *)
(* size and length of the self-test the assumptions allow.                 *)
(***************************************************************************)
EXTENDS OtaUpdate, TLAPS

(***************************************************************************)
(* Sectors and slots.                                                      *)
(***************************************************************************)
\* Blocks further on lie in the same or a later sector.
LEMMA SectorsRise ==
  ASSUME NEW b \in Blocks, NEW c \in Blocks, b <= c
  PROVE  SectorOf(b) \in Nat \ {0} /\ SectorOf(b) <= SectorOf(c)
  BY SlotAssumption DEF SectorOf, Blocks

\* A sector number fits its range.
LEMMA SectorType ==
  ASSUME NEW b \in Blocks
  PROVE  SectorOf(b) \in 0..SectorOf(NumBlocks)
<1>1. NumBlocks \in Blocks /\ b <= NumBlocks
  BY SlotAssumption DEF Blocks
<1>2. QED  BY <1>1, SectorsRise

\* Programming a block keeps a slot a slot, and so does erasing a sector.
LEMMA SlotType ==
  ASSUME NEW s \in Slots, NEW b \in Blocks, NEW x \in Versions, NEW e \in BOOLEAN
  PROVE  Written(s, b, x, e) \in Slots /\ Erased(s, b) \in Slots
  BY DEF Written, Erased, Slots

-----------------------------------------------------------------------------
(***************************************************************************)
(* Types.                                                                  *)
(***************************************************************************)
\* The initial state is well typed.
LEMMA TypeInit ==
  ASSUME Init
  PROVE  TypeOK
<1>1. active \in Slots /\ dfu \in Slots
  BY DEF Init, SlotsInit, Slots
<1>2. SectorOf(NumBlocks) \in Nat
  BY SectorsRise, SlotAssumption DEF Blocks
<1>3. {ble, lamp, trigger, matches, calm} \subseteq BOOLEAN /\ swapped = FALSE
  BY Zenon DEF Init, SlotsInit
<1>4. elapsed \in 0..Window /\ pos \in 0..NumBlocks /\ lastErased \in 0..SectorOf(NumBlocks)
  BY <1>2, OtaAssumption, SlotAssumption DEF Init, SlotsInit
<1>5. running \in Versions
  BY OtaAssumption DEF Init
<1>6. QED
  BY <1>1, <1>3, <1>4, <1>5 DEF Init, SlotsInit, TypeOK

\* What the flash holds, by type.
FlashType ==
  /\ active \in Slots /\ dfu \in Slots
  /\ magic \in {"Boot", "Swap", "Revert"}
  /\ swapped \in BOOLEAN /\ (swapped => magic = "Swap")
  /\ lastErased \in 0..SectorOf(NumBlocks)

\* The operations of BootSlots keep the flash well typed.
LEMMA FlashStep ==
  ASSUME FlashType, NEW b \in Blocks, NEW x \in Versions,
         \/ Prepare \/ WriteFirmware(b, x) \/ WriteFirmwareFails(b)
         \/ EraseState \/ WriteSwapMagic \/ UNCHANGED <<flash, lastErased>>
  PROVE  FlashType'
<1>1. 0 \in 0..SectorOf(NumBlocks)
  BY SectorsRise, SlotAssumption DEF Blocks
<1>2. CASE Prepare
  BY <1>1, <1>2 DEF Prepare, FlashType
<1>3. CASE WriteFirmware(b, x)
  <2>1. dfu' \in Slots
    BY <1>3, SlotType DEF WriteFirmware, FlashType
  <2>2. QED
    BY <1>3, <2>1, SectorType DEF WriteFirmware, FlashType
<1>4. CASE WriteFirmwareFails(b)
  <2>1. CASE UNCHANGED <<flash, lastErased>>
    BY <2>1 DEF flash, FlashType
  <2>2. CASE /\ dfu' = Erased(dfu, b) /\ lastErased' = SectorOf(b)
             /\ UNCHANGED <<active, magic, swapped>>
    <3>1. dfu' \in Slots
      BY <2>2, SlotType DEF FlashType
    <3>2. QED  BY <2>2, <3>1, SectorType DEF FlashType
  <2>3. QED  BY <1>4, <2>1, <2>2 DEF WriteFirmwareFails
<1>5. CASE EraseState \/ WriteSwapMagic
  BY <1>5 DEF EraseState, WriteSwapMagic, FlashType
<1>6. CASE UNCHANGED <<flash, lastErased>>
  BY <1>6 DEF flash, FlashType
<1>7. QED  BY <1>2, <1>3, <1>4, <1>5, <1>6

\* And so does every step.
LEMMA FlashTypeStep ==
  ASSUME TypeOK, [Next]_vars
  PROVE  FlashType'
<1>1. FlashType
  BY DEF TypeOK, FlashType
<1>2. \A b \in Blocks, x \in Versions :
        (\/ Prepare \/ WriteFirmware(b, x) \/ WriteFirmwareFails(b)
         \/ EraseState \/ WriteSwapMagic \/ UNCHANGED <<flash, lastErased>>) => FlashType'
  BY <1>1, FlashStep
<1>3. Blocks # {} /\ Versions # {}
  BY SlotAssumption DEF Blocks, TypeOK
<1>4. CASE Boot \/ Confirm \/ Verified \/ Mark
  BY <1>2, <1>3, <1>4 DEF Boot, Confirm, Verified, Mark
<1>5. ASSUME NEW x \in Versions, Chunk(x) PROVE FlashType'
  <2>1. pos + 1 \in Blocks
    BY <1>5, SlotAssumption DEF Chunk, TypeOK, Blocks
  <2>2. QED  BY <1>2, <1>5, <2>1 DEF Chunk
<1>6. CASE ChunkFails
  <2>1. pos + 1 \in Blocks
    BY <1>6, SlotAssumption DEF ChunkFails, TypeOK, Blocks
  <2>2. QED  BY <1>2, <1>3, <1>6, <2>1 DEF ChunkFails
<1>7. CASE UNCHANGED <<flash, lastErased>>
  BY <1>2, <1>3, <1>7
<1>8. QED
  BY <1>4, <1>5, <1>6, <1>7
  DEF Next, App, RadioUp, StateRead, StateUnreadable, Poll, ConfirmFails, Reject,
      CheckStarts, FetchFails, Skip, Update, ShaFetched, BinHead, Refused, MarkFails,
      SysReset, FlagRises, RequestCheck, PowerLoss, Crash, Publish, CalmChanges, vars

\* What RAM and the world hold, by type.
RamType ==
  /\ phase \in Fetching \union {"boot", "radio", "state", "selftest", "wait", "mark", "reset"}
  /\ running \in Versions
  /\ ble \in BOOLEAN /\ lamp \in BOOLEAN /\ trigger \in BOOLEAN
  /\ matches \in BOOLEAN /\ calm \in BOOLEAN
  /\ elapsed \in 0..Window
  /\ remote \in Versions \union {0}
  /\ pos \in 0..NumBlocks
  /\ published \in Versions

\* Every step keeps it.
LEMMA RamTypeStep ==
  ASSUME RamType, [Next]_vars
  PROVE  RamType'
<1> USE DEF session, flags, world
<1>1. CASE Boot
  BY <1>1 DEF Boot, RamType
<1>2. CASE ToBoot
  <2>1. 0 \in 0..Window /\ 0 \in 0..NumBlocks
    BY OtaAssumption, SlotAssumption
  <2>2. QED  BY <1>2, <2>1 DEF ToBoot, RamType
<1>3. CASE RadioUp \/ CheckStarts \/ ShaFetched \/ Mark
  BY <1>3 DEF RadioUp, CheckStarts, ShaFetched, Mark, RamType, Fetching
<1>4. CASE StateRead \/ StateUnreadable \/ Confirm \/ ConfirmFails
  <2>1. /\ phase' \in {"selftest", "wait"}
        /\ elapsed' \in {elapsed, 0} /\ trigger' \in {trigger, TRUE}
        /\ UNCHANGED <<running, flags, session, world>>
    BY <1>4
    DEF StateRead, StateUnreadable, Confirm, ConfirmFails, OtaStarts
  <2>2. elapsed' \in 0..Window
    BY <2>1, OtaAssumption DEF RamType
  <2>3. trigger' \in BOOLEAN
    BY <2>1, Zenon DEF RamType
  <2>4. QED  BY <2>1, <2>2, <2>3 DEF RamType
<1>5. CASE FlagRises
  BY <1>5 DEF FlagRises, RamType
<1>6. CASE Poll
  <2>1. /\ elapsed < Window /\ elapsed' = elapsed + 1
        /\ UNCHANGED <<phase, running, flags, trigger, session, world>>
    BY <1>6, OtaAssumption DEF Poll, Expired, RamType
  <2>2. QED  BY <2>1, OtaAssumption DEF RamType
<1>7. CASE BackToWait
  <2>1. 0 \in 0..NumBlocks
    BY SlotAssumption
  <2>2. QED  BY <1>7, <2>1 DEF BackToWait, RamType
<1>8. CASE Update
  BY <1>8 DEF Update, RamType, Fetching
<1>9. CASE BinHead
  <2>1. 0 \in 0..NumBlocks
    BY SlotAssumption
  <2>2. CASE Fits(remote)
    BY <1>9, <2>1, <2>2 DEF BinHead, RamType, Fetching
  <2>3. CASE ~Fits(remote)
    BY <1>7, <1>9, <2>3 DEF BinHead
  <2>4. QED  BY <2>2, <2>3
<1>10. ASSUME NEW x \in Versions, Chunk(x) PROVE RamType'
  <2>1. matches' \in BOOLEAN
    BY <1>10, Zenon DEF Chunk, RamType
  <2>2. pos' \in 0..NumBlocks
    BY <1>10, SlotAssumption DEF Chunk, RamType
  <2>3. QED  BY <1>10, <2>1, <2>2 DEF Chunk, RamType
<1>11. CASE Verified
  BY <1>11 DEF Verified, RamType
<1>12. CASE RequestCheck
  BY <1>12 DEF RequestCheck, RamType
<1>13. CASE Publish
  BY <1>13 DEF Publish, ram, RamType
<1>14. CASE CalmChanges
  <2>1. calm' \in BOOLEAN
    BY <1>14, Zenon DEF CalmChanges
  <2>2. QED  BY <1>14, <2>1 DEF CalmChanges, ram, RamType
<1>15. CASE UNCHANGED vars
  BY <1>15 DEF vars, ram, RamType
<1>16. QED
  BY <1>1, <1>2, <1>3, <1>4, <1>5, <1>6, <1>7, <1>8, <1>9, <1>10, <1>11, <1>12,
     <1>13, <1>14, <1>15
  DEF Next, App, Reject, SysReset, PowerLoss, Crash, FetchFails, Skip, ChunkFails,
      Refused, MarkFails

\* Every step keeps the state well typed.
LEMMA TypeStep ==
  ASSUME TypeOK, [Next]_vars
  PROVE  TypeOK'
<1>1. RamType
  BY DEF TypeOK, RamType
<1>2. RamType' /\ FlashType'
  BY <1>1, RamTypeStep, FlashTypeStep
<1>3. QED  BY <1>2 DEF TypeOK, RamType, FlashType

\* Every variable stays in its range.
THEOREM TypeCorrect == Spec => []TypeOK
  BY TypeInit, TypeStep, PTL DEF Spec

-----------------------------------------------------------------------------
(***************************************************************************)
(* What is marked for the swap was written whole.                          *)
(***************************************************************************)
\* The blocks streamed so far are in the slot as long as the digest matches:
\* the sector that is being written was erased before its first block.
Streaming ==
  phase = "stream" =>
    /\ remote \in Versions \ Oversize
    /\ pos > 0 => magic # "Swap" /\ lastErased = SectorOf(pos)
    /\ matches => \A b \in 1..pos : remote \in dfu[b]

\* A version is known before its files are asked for.
Named == phase \in {"sha", "bin"} => remote \in Versions

\* Between the last block and the mark the slot is left alone.
Marking ==
  phase = "mark" =>
    /\ remote \in Versions \ Oversize
    /\ magic = "Boot"
    /\ HoldsAll(dfu, remote)

Whole(slot) == \E v \in Versions \ Oversize : HoldsAll(slot, v)

WholeInv == Named /\ Streaming /\ Marking /\ OnlyWholeImages

\* The next block lands behind those streamed before it: no erase reaches them.
LEMMA ChunkKeepsBlocks ==
  ASSUME TypeOK, Streaming, NEW x \in Versions, Chunk(x), NEW b \in 1..pos
  PROVE  dfu[b] \subseteq dfu'[b] /\ b \in Blocks
<1>1. b \in Blocks /\ pos \in Blocks /\ pos + 1 \in Blocks /\ b <= pos /\ pos > 0
  BY SlotAssumption DEF Chunk, TypeOK, Blocks
<1>2. lastErased = SectorOf(pos)
  BY <1>1 DEF Chunk, Streaming
<1>3. /\ SectorOf(b) \in Nat /\ SectorOf(pos) \in Nat /\ SectorOf(pos + 1) \in Nat
      /\ SectorOf(b) <= SectorOf(pos) /\ SectorOf(pos) <= SectorOf(pos + 1)
  BY <1>1, SectorsRise
<1>4. ~(lastErased # SectorOf(pos + 1) /\ SectorOf(b) = SectorOf(pos + 1))
  BY <1>2, <1>3
<1>5. dfu' = Written(dfu, pos + 1, x, lastErased # SectorOf(pos + 1))
  BY DEF Chunk, WriteFirmware
<1>6. QED
  BY <1>1, <1>4, <1>5 DEF Written

\* A block that matches is in the slot once it is written.
LEMMA ChunkWritesBlock ==
  ASSUME TypeOK, NEW x \in Versions, Chunk(x)
  PROVE  x \in dfu'[pos + 1]
<1>1. pos + 1 \in Blocks
  BY SlotAssumption DEF Chunk, TypeOK, Blocks
<1>2. dfu' = Written(dfu, pos + 1, x, lastErased # SectorOf(pos + 1))
  BY DEF Chunk, WriteFirmware
<1>3. QED  BY <1>1, <1>2 DEF Written

\* A step that leaves the flash alone leaves its images alone.
LEMMA FlashKept ==
  ASSUME OnlyWholeImages, UNCHANGED <<flash, lastErased>>
  PROVE  OnlyWholeImages'
  BY DEF OnlyWholeImages, flash, Stable, OnTrial, HoldsAll

\* A step that only touches a DFU slot nothing relies on does so too.
LEMMA DfuFree ==
  ASSUME TypeOK, OnlyWholeImages, magic # "Swap", UNCHANGED <<active, magic, swapped>>
  PROVE  OnlyWholeImages'
  BY DEF OnlyWholeImages, Stable, OnTrial, HoldsAll

\* The invariant holds at power-on.
LEMMA WholeInit ==
  ASSUME Init
  PROVE  WholeInv
<1>1. PICK v \in Good : IsImage(active, v)
  BY DEF Init
<1>2. v \in Versions \ Oversize /\ HoldsAll(active, v)
  BY <1>1, OtaAssumption DEF IsImage, HoldsAll
<1>3. QED
  BY <1>2
  DEF Init, SlotsInit, WholeInv, Named, Streaming, Marking, OnlyWholeImages, Stable, OnTrial

\* Every step keeps it.
LEMMA WholeStep ==
  ASSUME TypeOK, WholeInv, [Next]_vars
  PROVE  WholeInv'
<1> USE DEF WholeInv, Named, session, flags, world
<1>1. CASE Boot
  <2>1. OnlyWholeImages'
    BY <1>1 DEF Boot, Prepare, OnlyWholeImages, Stable, OnTrial, HoldsAll, TypeOK
  <2>2. QED
    BY <1>1, <2>1 DEF Boot, Streaming, Marking
<1>2. CASE ToBoot /\ UNCHANGED <<flash, lastErased>>
  BY <1>2, FlashKept DEF ToBoot, Streaming, Marking
<1>3. CASE /\ phase' \notin {"stream", "mark"} /\ Named'
           /\ UNCHANGED <<flash, lastErased>>
  BY <1>3, FlashKept DEF Streaming, Marking
<1>4. CASE UNCHANGED <<flash, lastErased, phase, session>>
  BY <1>4, FlashKept DEF Streaming, Marking, flash, HoldsAll
<1>5. CASE Confirm
  <2>1. OnlyWholeImages'
    BY <1>5 DEF Confirm, EraseState, OnlyWholeImages, Stable, OnTrial, HoldsAll, TypeOK
  <2>2. QED
    BY <1>5, <2>1 DEF Confirm, OtaStarts, Streaming, Marking
<1>6. CASE BinHead
  <2>1. CASE Fits(remote)
    <3>1. remote \in Versions \ Oversize
      BY <1>6, <2>1 DEF BinHead, Fits
    <3>2. QED
      BY <1>6, <2>1, <3>1, FlashKept DEF BinHead, Streaming, Marking
  <2>2. CASE ~Fits(remote)
    BY <1>6, <2>2, FlashKept DEF BinHead, BackToWait, Streaming, Marking
  <2>3. QED  BY <2>1, <2>2
<1>7. ASSUME NEW x \in Versions, Chunk(x) PROVE WholeInv'
  <2>1. OnlyWholeImages'
    BY <1>7, DfuFree DEF Chunk, WriteFirmware, MayWrite
  <2>2. /\ pos' = pos + 1 /\ phase' = "stream" /\ remote' = remote
        /\ magic' = magic /\ magic # "Swap" /\ lastErased' = SectorOf(pos + 1)
    BY <1>7 DEF Chunk, WriteFirmware, MayWrite
  <2>3. ASSUME matches', NEW b \in 1..pos' PROVE remote' \in dfu'[b]
    <3>1. matches /\ x = remote
      <4>1. matches' = (matches /\ x = remote)
        BY <1>7 DEF Chunk
      <4>2. QED  BY <2>3, <4>1, Zenon
    <3>2. CASE b = pos + 1
      BY <1>7, <2>2, <3>1, <3>2, ChunkWritesBlock
    <3>3. CASE b \in 1..pos
      <4>1. remote \in dfu[b]
        BY <1>7, <3>1, <3>3 DEF Chunk, Streaming
      <4>2. QED  BY <1>7, <2>2, <3>3, <4>1, ChunkKeepsBlocks
    <3>4. pos \in Nat
      BY DEF TypeOK
    <3>5. QED  BY <2>2, <2>3, <3>2, <3>3, <3>4
  <2>4. QED
    BY <1>7, <2>1, <2>2, <2>3 DEF Chunk, Streaming, Marking
<1>8. CASE ChunkFails
  <2>1. OnlyWholeImages'
    BY <1>8, FlashKept, DfuFree DEF ChunkFails, WriteFirmwareFails, MayWrite
  <2>2. QED
    BY <1>8, <2>1 DEF ChunkFails, BackToWait, Streaming, Marking
<1>9. CASE Verified
  <2>1. /\ pos = NumBlocks /\ pos > 0 /\ matches /\ magic # "Swap"
        /\ remote \in Versions \ Oversize
    BY <1>9, SlotAssumption DEF Verified, Passes, Streaming
  <2>2. HoldsAll(dfu, remote)
    BY <1>9, <2>1 DEF Verified, Streaming, HoldsAll, Blocks
  <2>3. OnlyWholeImages'
    BY <1>9, <2>1
    DEF Verified, EraseState, OnlyWholeImages, Stable, OnTrial, HoldsAll, TypeOK
  <2>4. QED
    BY <1>9, <2>1, <2>2, <2>3
    DEF Verified, EraseState, Streaming, Marking, HoldsAll
<1>10. CASE Mark
  <2>1. OnlyWholeImages'
    BY <1>10
    DEF Mark, WriteSwapMagic, Marking, OnlyWholeImages, Stable, OnTrial, HoldsAll, TypeOK
  <2>2. QED
    BY <1>10, <2>1 DEF Mark, Streaming, Marking
<1>11. CASE UNCHANGED vars
  BY <1>4, <1>11 DEF vars, ram
<1>12. CASE \/ RadioUp \/ StateRead \/ StateUnreadable \/ ConfirmFails \/ CheckStarts
            \/ Update \/ ShaFetched
            \/ (BackToWait /\ UNCHANGED <<flash, lastErased>>)
  BY <1>3, <1>12
  DEF RadioUp, StateRead, StateUnreadable, ConfirmFails, OtaStarts, CheckStarts, Update,
      ShaFetched, BackToWait, TypeOK
<1>13. CASE Poll \/ FlagRises \/ RequestCheck \/ Publish \/ CalmChanges
  BY <1>4, <1>13 DEF Poll, FlagRises, RequestCheck, Publish, CalmChanges, ram
<1>14. QED
  BY <1>1, <1>2, <1>5, <1>6, <1>7, <1>8, <1>9, <1>10, <1>11, <1>12, <1>13
  DEF Next, App, Reject, SysReset, PowerLoss, Crash, FetchFails, Skip, Refused, MarkFails

\* Whatever is marked for the swap, on trial or fallen back on had every block
\* of one image that fits programmed into it.
THEOREM OnlyWholeImagesBoot == Spec => []OnlyWholeImages
<1>1. WholeInv => OnlyWholeImages
  BY DEF WholeInv
<1>2. QED
  BY <1>1, WholeInit, WholeStep, TypeCorrect, PTL DEF Spec

-----------------------------------------------------------------------------
(***************************************************************************)
(* Only a Good image becomes the one to fall back on.                      *)
(***************************************************************************)
\* The flags are down until the image runs, and no image but a Good one has
\* both of them up in its trial.
FlagsProve ==
  /\ phase = "boot" => ~ble /\ ~lamp
  /\ OnTrial /\ ble /\ lamp => ~Runs(Versions \ Good)

\* A marked image is tried by the very next boot.
TriedAtOnce == magic = "Swap" /\ ~swapped => phase \in {"boot", "reset"}

GoodInv == FlagsProve /\ TriedAtOnce /\ FallbackIsGood

\* What is proven and intact is Good.
LEMMA ProvenIsGood ==
  ASSUME FlagsProve, OnTrial, ble, lamp, Intact(active)
  PROVE  \E v \in Good : IsImage(active, v)
  BY DEF FlagsProve, Intact, Runs

\* A step that keeps the stable image keeps it good.
LEMMA StableKept ==
  ASSUME FallbackIsGood, Stable' = Stable
  PROVE  FallbackIsGood'
  BY DEF FallbackIsGood, Intact, IsImage

\* Every step keeps the invariant.
LEMMA GoodStep ==
  ASSUME TypeOK, WholeInv, GoodInv, [Next]_vars
  PROVE  GoodInv'
<1> USE DEF GoodInv, session, flags, world
<1>1. CASE Boot
  <2>1. Stable' = Stable
    BY <1>1 DEF Boot, Prepare, Stable, OnTrial, TypeOK
  <2>2. FlagsProve' /\ TriedAtOnce'
    BY <1>1 DEF Boot, Prepare, FlagsProve, TriedAtOnce, OnTrial, TypeOK
  <2>3. QED  BY <2>1, <2>2, StableKept
<1>2. CASE ToBoot /\ UNCHANGED <<flash, lastErased>>
  <2>1. Stable' = Stable
    BY <1>2 DEF flash, Stable, OnTrial
  <2>2. QED
    BY <1>2, <2>1, StableKept DEF ToBoot, FlagsProve, TriedAtOnce
<1>3. CASE /\ UNCHANGED <<flash, lastErased, flags>>
           /\ phase' # "boot" /\ phase \notin {"boot", "reset"}
  <2>1. Stable' = Stable
    BY <1>3 DEF flash, Stable, OnTrial
  <2>2. FlagsProve' /\ TriedAtOnce'
    BY <1>3 DEF FlagsProve, TriedAtOnce, flash, OnTrial, Runs, IsImage
  <2>3. QED  BY <2>1, <2>2, StableKept
<1>4. CASE UNCHANGED <<flash, lastErased, flags, phase>>
  <2>1. Stable' = Stable
    BY <1>4 DEF flash, Stable, OnTrial
  <2>2. FlagsProve' /\ TriedAtOnce'
    BY <1>4 DEF FlagsProve, TriedAtOnce, flash, OnTrial, Runs, IsImage
  <2>3. QED  BY <2>1, <2>2, StableKept
<1>5. CASE Confirm
  <2>1. FlagsProve' /\ TriedAtOnce'
    BY <1>5 DEF Confirm, EraseState, OtaStarts, FlagsProve, TriedAtOnce, OnTrial
  <2>2. CASE OnTrial
    <3>1. Stable' = active /\ active' = active
      BY <1>5 DEF Confirm, EraseState, Stable, OnTrial
    <3>2. Intact(active) => \E v \in Good : IsImage(active, v)
      BY <1>5, <2>2, ProvenIsGood DEF Confirm, Ready
    <3>3. QED
      BY <2>1, <3>1, <3>2 DEF FallbackIsGood, Intact, IsImage
  <2>3. CASE ~OnTrial
    <3>1. Stable' = Stable
      BY <1>5, <2>3 DEF Confirm, EraseState, Stable, OnTrial
    <3>2. QED  BY <2>1, <3>1, StableKept
  <2>4. QED  BY <2>2, <2>3
<1>6. CASE FlagRises
  <2>1. Stable' = Stable
    BY <1>6 DEF FlagRises, flash, Stable, OnTrial
  <2>2. FlagsProve' /\ TriedAtOnce'
    BY <1>6 DEF FlagRises, FlagsProve, TriedAtOnce, flash, OnTrial, Runs, IsImage
  <2>3. QED  BY <2>1, <2>2, StableKept
<1>7. CASE /\ phase = "stream" /\ phase' \in {"stream", "wait", "mark"}
           /\ magic # "Swap" /\ magic' # "Swap" /\ UNCHANGED <<active, flags>>
  <2>1. Stable' = Stable
    BY <1>7 DEF Stable, OnTrial
  <2>2. FlagsProve' /\ TriedAtOnce'
    BY <1>7 DEF FlagsProve, TriedAtOnce, OnTrial
  <2>3. QED  BY <2>1, <2>2, StableKept
<1>8. ASSUME NEW x \in Versions, Chunk(x) PROVE GoodInv'
  BY <1>7, <1>8 DEF Chunk, WriteFirmware, MayWrite
<1>9. CASE ChunkFails
  <2>1. CASE UNCHANGED <<flash, lastErased>>
    BY <1>3, <1>9, <2>1 DEF ChunkFails, BackToWait
  <2>2. CASE MayWrite /\ UNCHANGED <<active, magic, swapped>>
    BY <1>7, <1>9, <2>2 DEF ChunkFails, BackToWait, MayWrite
  <2>3. QED  BY <1>9, <2>1, <2>2 DEF ChunkFails, WriteFirmwareFails
<1>10. CASE Verified
  <2>1. magic # "Swap"
    BY <1>10, SlotAssumption DEF Verified, Passes, WholeInv, Streaming
  <2>2. QED
    BY <1>7, <1>10, <2>1 DEF Verified, EraseState
<1>11. CASE Mark
  <2>1. Stable' = Stable
    BY <1>11 DEF Mark, WriteSwapMagic, WholeInv, Marking, Stable, OnTrial
  <2>2. FlagsProve' /\ TriedAtOnce'
    BY <1>11 DEF Mark, WriteSwapMagic, FlagsProve, TriedAtOnce, OnTrial
  <2>3. QED  BY <2>1, <2>2, StableKept
<1>12. CASE UNCHANGED vars
  BY <1>4, <1>12 DEF vars, ram
<1>13. CASE \/ RadioUp \/ StateRead \/ StateUnreadable \/ ConfirmFails \/ CheckStarts
            \/ Skip \/ Update \/ ShaFetched \/ BinHead \/ FetchFails \/ Refused \/ MarkFails
  BY <1>3, <1>13
  DEF RadioUp, StateRead, StateUnreadable, ConfirmFails, OtaStarts, CheckStarts, Skip,
      Update, ShaFetched, BinHead, FetchFails, Refused, MarkFails, BackToWait, Fetching
<1>14. CASE Poll \/ RequestCheck \/ Publish \/ CalmChanges
  BY <1>4, <1>14 DEF Poll, RequestCheck, Publish, CalmChanges, ram
<1>15. QED
  BY <1>1, <1>2, <1>5, <1>6, <1>8, <1>9, <1>10, <1>11, <1>12, <1>13, <1>14
  DEF Next, App, Reject, SysReset, PowerLoss, Crash

\* The invariant holds at power-on.
LEMMA GoodInit ==
  ASSUME Init
  PROVE  GoodInv
  BY DEF Init, SlotsInit, GoodInv, FlagsProve, TriedAtOnce, FallbackIsGood, OnTrial, Stable

\* An intact image that is not Good never becomes the one to fall back on.
THEOREM FallbackStaysGood == Spec => []FallbackIsGood
<1>1. GoodInv => FallbackIsGood
  BY DEF GoodInv
<1>2. QED
  BY <1>1, WholeInit, WholeStep, GoodInit, GoodStep, TypeCorrect, PTL DEF Spec

-----------------------------------------------------------------------------
(***************************************************************************)
(* The updater implements TrialBoot.                                       *)
(***************************************************************************)
\* Power-on maps to the initial state of the promise.
LEMMA PromiseInit ==
  ASSUME Init
  PROVE  Promise!Init
<1>1. TypeOK  BY TypeInit
<1>2. QED
  BY <1>1, Zenon DEF Init, SlotsInit, Promise!Init, Stable, OnTrial, TypeOK

\* Every step maps to a step of the promise or to a stutter.
LEMMA PromiseStep ==
  ASSUME TypeOK, TypeOK', WholeInv, GoodInv, [Next]_vars
  PROVE  [Promise!Next]_(Promise!vars)
<1> USE DEF session, flags, world
<1>1. CASE Boot
  <2>1. CASE magic = "Swap" /\ ~swapped
    BY <1>1, <2>1
    DEF Boot, Prepare, GoodInv, FlagsProve, Promise!Next, Promise!Try, Stable, OnTrial
  <2>2. CASE magic = "Swap" /\ swapped
    BY <1>1, <2>2 DEF Boot, Prepare, Promise!Next, Promise!Revert, Stable, OnTrial
  <2>3. CASE magic # "Swap"
    BY <1>1, <2>3 DEF Boot, Prepare, Promise!vars, Stable, OnTrial
  <2>4. QED  BY <2>1, <2>2, <2>3
<1>2. CASE ToBoot /\ UNCHANGED <<flash, lastErased>>
  <2>1. CASE OnTrial /\ ble /\ lamp
    BY <1>2, <2>1 DEF ToBoot, flash, Promise!Next, Promise!Forget, Stable, OnTrial
  <2>2. CASE ~(OnTrial /\ ble /\ lamp)
    BY <1>2, <2>2 DEF ToBoot, flash, Promise!vars, Stable, OnTrial
  <2>3. QED  BY <2>1, <2>2
<1>3. CASE UNCHANGED <<flash, flags>>
  BY <1>3 DEF flash, Promise!vars, Stable, OnTrial
<1>4. CASE Confirm
  <2>1. CASE OnTrial
    BY <1>4, <2>1
    DEF Confirm, EraseState, Ready, Promise!Next, Promise!Confirm, Stable, OnTrial
  <2>2. CASE ~OnTrial
    <3>1. magic # "Swap"
      BY <1>4, <2>2 DEF Confirm, GoodInv, TriedAtOnce, OnTrial, TypeOK
    <3>2. QED
      BY <1>4, <3>1 DEF Confirm, EraseState, Promise!vars, Stable, OnTrial
  <2>3. QED  BY <2>1, <2>2
<1>5. CASE FlagRises
  <2>1. OnTrial /\ OnTrial' /\ UNCHANGED flash /\ ~(ble /\ lamp)
    BY <1>5 DEF FlagRises, OnTrial, flash
  <2>2. CASE ble' /\ lamp'
    BY <2>1, <2>2 DEF flash, Promise!Next, Promise!Prove, Stable, OnTrial
  <2>3. CASE ~(ble' /\ lamp')
    BY <2>1, <2>3 DEF flash, Promise!vars, Stable, OnTrial
  <2>4. QED  BY <2>2, <2>3
<1>6. CASE magic # "Swap" /\ UNCHANGED <<active, magic, swapped>>
  <2>1. dfu' \in Slots
    BY DEF TypeOK
  <2>2. QED
    BY <1>6, <2>1 DEF Promise!Next, Promise!Prepare, Stable, OnTrial
<1>7. ASSUME NEW x \in Versions, Chunk(x) PROVE [Promise!Next]_(Promise!vars)
  BY <1>6, <1>7 DEF Chunk, WriteFirmware, MayWrite
<1>8. CASE ChunkFails
  <2>1. CASE UNCHANGED <<flash, lastErased>>
    BY <1>3, <1>8, <2>1 DEF ChunkFails, BackToWait
  <2>2. CASE MayWrite /\ UNCHANGED <<active, magic, swapped>>
    BY <1>6, <2>2 DEF MayWrite
  <2>3. QED  BY <1>8, <2>1, <2>2 DEF ChunkFails, WriteFirmwareFails
<1>9. CASE Verified
  <2>1. magic # "Swap"
    BY <1>9, SlotAssumption DEF Verified, Passes, WholeInv, Streaming
  <2>2. QED
    BY <1>9, <2>1 DEF Verified, EraseState, Promise!vars, Stable, OnTrial
<1>10. CASE Mark
  BY <1>10
  DEF Mark, WriteSwapMagic, WholeInv, Marking, Promise!Next, Promise!Stage, Stable, OnTrial
<1>11. CASE UNCHANGED vars
  BY <1>3, <1>11 DEF vars, ram
<1>12. CASE \/ RadioUp \/ StateRead \/ StateUnreadable \/ ConfirmFails \/ CheckStarts
            \/ Skip \/ Update \/ ShaFetched \/ BinHead \/ FetchFails \/ Refused \/ MarkFails
            \/ Poll \/ RequestCheck \/ Publish \/ CalmChanges
  BY <1>3, <1>12
  DEF RadioUp, StateRead, StateUnreadable, ConfirmFails, CheckStarts, Skip, Update,
      ShaFetched, BinHead, FetchFails, Refused, MarkFails, BackToWait, Poll,
      RequestCheck, Publish, CalmChanges, ram
<1>13. QED
  BY <1>1, <1>2, <1>4, <1>5, <1>7, <1>8, <1>9, <1>10, <1>11, <1>12
  DEF Next, App, Reject, SysReset, PowerLoss, Crash

\* Through every reset, power loss and flash failure: the stable image is never
\* touched, a candidate gets one boot, and only a proof in it makes it stable.
THEOREM UpdateKeepsTrialBoot == Spec => KeepsTrialBoot
<1>1. Promise!Init /\ [][Promise!Next]_(Promise!vars) => Promise!Spec
  BY DEF Promise!Spec
<1>2. QED
  BY <1>1, PromiseInit, PromiseStep, WholeInit, WholeStep, GoodInit, GoodStep,
     TypeCorrect, PTL
  DEF Spec, KeepsTrialBoot
=============================================================================
