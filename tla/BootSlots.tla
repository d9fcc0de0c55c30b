----------------------------- MODULE BootSlots -----------------------------
(***************************************************************************)
(* The two image slots, the boot state and what touches them: the          *)
(* bootloader (bootloader/src/main.rs, embassy-boot's prepare) and the     *)
(* FirmwareUpdater behind app/src/update.rs.                               *)
(*                                                                         *)
(* A slot is a row of blocks, BlocksPerSector of which erase together.  A  *)
(* NOR cell that is programmed again without an erase keeps the traces of  *)
(* both, so a block holds the set of what was programmed into it since its *)
(* last erase; it reads back as x only when that set is {x}.               *)
(***************************************************************************)
EXTENDS Naturals

CONSTANTS
  Versions,         \* the images that may be published, by version
  NumBlocks,        \* blocks of an image
  BlocksPerSector   \* blocks of an erase sector

ASSUME SlotAssumption ==
  /\ Versions \subseteq Nat \ {0}
  /\ NumBlocks \in Nat \ {0} /\ BlocksPerSector \in Nat \ {0}

VARIABLES
  active, dfu,   \* the slots
  magic,         \* State: Boot, Swap or Revert
  swapped,       \* the progress record of the swap is complete
  lastErased     \* last_erased_dfu_sector_index of the Updater; 0 is None

flash == <<active, dfu, magic, swapped>>

Blocks == 1..NumBlocks
Slots == [Blocks -> SUBSET Versions]
SectorOf(b) == (b - 1) \div BlocksPerSector + 1

IsImage(slot, v) == \A b \in Blocks : slot[b] = {v}
Intact(slot) == \E v \in Versions : IsImage(slot, v)

Written(slot, b, x, erase) ==
  [c \in Blocks |->
     LET kept == IF erase /\ SectorOf(c) = SectorOf(b) THEN {} ELSE slot[c]
     IN  IF c = b THEN kept \union {x} ELSE kept]

Erased(slot, b) ==
  [c \in Blocks |-> IF SectorOf(c) = SectorOf(b) THEN {} ELSE slot[c]]

SlotsInit ==
  /\ \E v \in Versions : active = [b \in Blocks |-> {v}]
  /\ dfu = [b \in Blocks |-> {}]
  /\ magic = "Boot" /\ swapped = FALSE
  /\ lastErased = 0

\* BootLoader::prepare.  A swap or a revert cut short by a power loss resumes
\* where it stopped before any image runs, so each is one step here.
Prepare ==
  /\ CASE magic = "Swap" /\ ~swapped ->
            /\ active' = dfu /\ dfu' = active
            /\ swapped' = TRUE /\ magic' = magic
       [] magic = "Swap" /\ swapped ->
            /\ active' = dfu /\ dfu' = active
            /\ swapped' = FALSE /\ magic' = "Revert"
       [] OTHER -> UNCHANGED <<active, dfu, magic, swapped>>
  /\ lastErased' = 0

\* verify_booted, the first thing write_firmware does.
MayWrite == magic # "Swap"

\* write_firmware of one block: a sector is erased only when the last erase of
\* this Updater was of another sector.
WriteFirmware(b, x) ==
  /\ MayWrite
  /\ dfu' = Written(dfu, b, x, lastErased # SectorOf(b))
  /\ lastErased' = SectorOf(b)
  /\ UNCHANGED <<active, magic, swapped>>

\* write_firmware returns an error: refused in the boot state, or the flash
\* fails before the erase or between the erase and the write.
WriteFirmwareFails(b) ==
  \/ UNCHANGED <<flash, lastErased>>
  \/ /\ MayWrite
     /\ lastErased # SectorOf(b)
     /\ dfu' = Erased(dfu, b)
     /\ lastErased' = SectorOf(b)
     /\ UNCHANGED <<active, magic, swapped>>

\* set_magic erases the STATE partition, which then reads as Boot with no
\* progress, before it writes the new magic.
EraseState ==
  /\ magic' = "Boot" /\ swapped' = FALSE
  /\ UNCHANGED <<active, dfu, lastErased>>

WriteSwapMagic ==
  /\ magic' = "Swap" /\ swapped' = FALSE
  /\ UNCHANGED <<active, dfu, lastErased>>
=============================================================================
