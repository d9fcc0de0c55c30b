----------------------------- MODULE OtaUpdate -----------------------------
(***************************************************************************)
(* Over-the-air updates: the boot sequence of app/src/main.rs, the self-   *)
(* test of a freshly swapped image, the OTA task with its streaming        *)
(* session, and the reset, power loss and publication around them.         *)
(*                                                                         *)
(* How an image behaves is a property of its version: a Good one raises    *)
(* both readiness flags, a Hung one never returns from radio::init, any    *)
(* other never raises both and may crash.  A slot that holds no intact     *)
(* image may do anything.                                                  *)
(***************************************************************************)
EXTENDS BootSlots

CONSTANTS
  Good, Hung,  \* versions, by how their image behaves
  Oversize,    \* versions whose image is larger than ACTIVE_BYTES
  Window       \* SELF_TEST_WINDOW_MS in polls

ASSUME OtaAssumption ==
  /\ Good \subseteq Versions \ Oversize
  /\ Hung \subseteq Versions \ Good
  /\ Oversize \subseteq Versions
  /\ Window \in Nat \ {0}

VARIABLES
  phase,      \* the await or step the main task, then the OTA task, is at
  running,    \* crate::VERSION of the image that runs
  ble, lamp,  \* ADVERTISING and READY, latched
  elapsed,    \* polls since the self-test began
  trigger,    \* TRIGGER holds a request
  remote,     \* the version being fetched
  pos,        \* blocks streamed
  matches,    \* the digest so far is that of the image published
  published,  \* the server's version file (external)
  calm        \* power, network and flash behave and nothing is published

ram == <<phase, running, ble, lamp, elapsed, trigger, remote, pos, matches>>
session == <<remote, pos, matches>>
flags == <<ble, lamp>>
world == <<published, calm>>
vars == <<flash, lastErased, ram, world>>

Fetching == {"version", "sha", "bin", "stream"}

Init ==
  /\ SlotsInit
  /\ \E v \in Good : IsImage(active, v) /\ running = v
  /\ phase = "boot"
  /\ ble = FALSE /\ lamp = FALSE /\ elapsed = 0 /\ trigger = FALSE
  /\ remote = 0 /\ pos = 0 /\ matches = FALSE
  /\ published \in Versions /\ calm \in BOOLEAN

(***************************************************************************)
(* Boot.                                                                   *)
(***************************************************************************)
\* The bootloader prepares the slots and the active image starts from scratch.
Boot ==
  /\ phase = "boot"
  /\ Prepare
  /\ running' \in {v \in Versions : Intact(active') => IsImage(active', v)}
  /\ phase' = "radio"
  /\ UNCHANGED <<flags, elapsed, trigger, session, world>>

\* Every reset ends here: RAM is lost, the flash stays.
ToBoot ==
  /\ phase' = "boot"
  /\ ble' = FALSE /\ lamp' = FALSE /\ elapsed' = 0 /\ trigger' = FALSE
  /\ remote' = 0 /\ pos' = 0 /\ matches' = FALSE
  /\ UNCHANGED <<running, world>>

Runs(S) == \E v \in S : IsImage(active, v)

\* radio::init returns, and with it everything spawned before the updater.
RadioUp ==
  /\ phase = "radio"
  /\ ~Runs(Hung)
  /\ phase' = "state"
  /\ UNCHANGED <<flash, lastErased, running, flags, elapsed, trigger, session, world>>

\* ota::spawn, then ota::trigger; the self-test's clock is gone.
OtaStarts == phase' = "wait" /\ trigger' = TRUE /\ elapsed' = 0

\* selftest::run: only a freshly swapped image is tested.
StateRead ==
  /\ phase = "state"
  /\ IF magic = "Swap" THEN phase' = "selftest" /\ UNCHANGED <<trigger, elapsed>> ELSE OtaStarts
  /\ UNCHANGED <<flash, lastErased, running, flags, session, world>>

\* get_state fails: logged, and the boot goes on untested.
StateUnreadable ==
  /\ phase = "state"
  /\ ~calm
  /\ OtaStarts
  /\ UNCHANGED <<flash, lastErased, running, flags, session, world>>

OnTrial == magic = "Swap" /\ swapped

\* Advertising starts (ble.rs) or the lamp has been driven (lamp.rs).  The
\* flags are followed in a trial only; nobody reads them in another boot.
FlagRises ==
  /\ phase # "boot" /\ OnTrial
  /\ \/ ~ble /\ phase # "radio" /\ ble' = TRUE /\ lamp' = lamp
     \/ ~lamp /\ lamp' = TRUE /\ ble' = ble
  /\ (ble' /\ lamp') => ~Runs(Versions \ Good)
  /\ UNCHANGED <<flash, lastErased, phase, running, elapsed, trigger, session, world>>

\* Mutant: advertising alone is enough.
ReadyWithoutLamp == ble

Ready == ble /\ lamp

\* Mutant: the deadline is one poll late.
ExpiredLate == elapsed > Window

Expired == elapsed >= Window

\* A poll that does not decide.  In calm times a Good image is ready in time.
Poll ==
  /\ phase = "selftest"
  /\ ~Ready
  /\ ~Expired
  /\ calm /\ Runs(Good) => elapsed + 1 < Window
  /\ elapsed' = elapsed + 1
  /\ UNCHANGED <<flash, lastErased, phase, running, flags, trigger, session, world>>

\* Verdict::Confirm, checked before the deadline: mark_booted.
Confirm ==
  /\ phase = "selftest"
  /\ Ready
  /\ EraseState
  /\ OtaStarts
  /\ UNCHANGED <<running, flags, session, world>>

\* mark_booted fails: logged, and the image runs on unconfirmed.
ConfirmFails ==
  /\ phase = "selftest"
  /\ Ready
  /\ ~calm
  /\ OtaStarts
  /\ UNCHANGED <<flash, lastErased, running, flags, session, world>>

\* Verdict::Revert: sys_reset().
Reject ==
  /\ phase = "selftest"
  /\ ~Ready
  /\ Expired
  /\ ToBoot
  /\ UNCHANGED <<flash, lastErased>>

(***************************************************************************)
(* ota_task and check_and_update.                                          *)
(***************************************************************************)
\* TRIGGER.wait() takes the request.
CheckStarts ==
  /\ phase = "wait"
  /\ trigger
  /\ phase' = "version" /\ trigger' = FALSE
  /\ UNCHANGED <<flash, lastErased, running, flags, elapsed, session, world>>

\* Any of the ways back to the wait: an error, a 404, nothing to update.
BackToWait ==
  /\ phase' = "wait"
  /\ remote' = 0 /\ pos' = 0 /\ matches' = FALSE
  /\ UNCHANGED <<running, flags, elapsed, trigger, world>>

FetchFails ==
  /\ phase \in Fetching
  /\ ~calm
  /\ BackToWait
  /\ UNCHANGED <<flash, lastErased>>

\* Mutant: only a newer version is an update.
DecideNewer == published > running

\* decide: any other version than the one that runs is an update.
Decide == published # running

Skip ==
  /\ phase = "version"
  /\ ~Decide
  /\ BackToWait
  /\ UNCHANGED <<flash, lastErased>>

Update ==
  /\ phase = "version"
  /\ Decide
  /\ phase' = "sha" /\ remote' = published
  /\ UNCHANGED <<flash, lastErased, running, flags, elapsed, trigger, pos, matches, world>>

ShaFetched ==
  /\ phase = "sha"
  /\ phase' = "bin"
  /\ UNCHANGED <<flash, lastErased, running, flags, elapsed, trigger, session, world>>

Fits(v) == v \notin Oversize

\* The head of the body is in: apply_update starts, or refuses its length.
BinHead ==
  /\ phase = "bin"
  /\ IF Fits(remote)
     THEN /\ phase' = "stream" /\ pos' = 0 /\ matches' = TRUE
          /\ UNCHANGED <<running, flags, elapsed, trigger, remote, world>>
     ELSE BackToWait
  /\ UNCHANGED <<flash, lastErased>>

\* One block read, hashed and written; a body that is not the one the digest
\* was made from has a block of another image in it.
Chunk(x) ==
  /\ phase = "stream"
  /\ pos < NumBlocks
  /\ x = remote \/ (~calm /\ Fits(x))
  /\ WriteFirmware(pos + 1, x)
  /\ pos' = pos + 1
  /\ matches' = (matches /\ x = remote)
  /\ UNCHANGED <<phase, running, flags, elapsed, trigger, remote, world>>

ChunkFails ==
  /\ phase = "stream"
  /\ pos < NumBlocks
  /\ ~calm \/ ~MayWrite
  /\ WriteFirmwareFails(pos + 1)
  /\ BackToWait

\* Mutant: a body that ends early passes for a whole one.
PassesWhenShort == matches

\* total = content_length, and the digest is the expected one.
Passes == pos = NumBlocks /\ matches

\* The loop ends with the last block, or early when the body does.
Verified ==
  /\ phase = "stream"
  /\ pos = NumBlocks \/ ~calm
  /\ Passes
  /\ phase' = "mark"
  /\ EraseState
  /\ UNCHANGED <<running, flags, elapsed, trigger, session, world>>

Refused ==
  /\ phase = "stream"
  /\ pos = NumBlocks \/ ~calm
  /\ ~Passes
  /\ BackToWait
  /\ UNCHANGED <<flash, lastErased>>

\* The rest of mark_updated; sys_reset follows.
Mark ==
  /\ phase = "mark"
  /\ WriteSwapMagic
  /\ phase' = "reset"
  /\ UNCHANGED <<running, flags, elapsed, trigger, session, world>>

\* The flash fails under mark_updated.
MarkFails ==
  /\ phase = "mark"
  /\ ~calm
  /\ BackToWait
  /\ UNCHANGED <<flash, lastErased>>

SysReset ==
  /\ phase = "reset"
  /\ ToBoot
  /\ UNCHANGED <<flash, lastErased>>

App ==
  \/ Boot \/ RadioUp \/ StateRead \/ StateUnreadable
  \/ Poll \/ Confirm \/ ConfirmFails \/ Reject
  \/ CheckStarts \/ FetchFails \/ Skip \/ Update \/ ShaFetched \/ BinHead
  \/ \E x \in Versions : Chunk(x)
  \/ ChunkFails \/ Verified \/ Refused \/ Mark \/ MarkFails \/ SysReset

(***************************************************************************)
(* Around the application.                                                 *)
(***************************************************************************)
\* request_check, from the garagelight/reset topic.
RequestCheck ==
  /\ phase \notin {"boot", "radio"}
  /\ ~trigger /\ trigger' = TRUE
  /\ UNCHANGED <<flash, lastErased, phase, running, flags, elapsed, session, world>>

PowerLoss ==
  /\ ~calm
  /\ phase # "boot"
  /\ ToBoot
  /\ UNCHANGED <<flash, lastErased>>

\* An image that is not Good faults or starves the watchdog.
Crash ==
  /\ phase # "boot"
  /\ ~Runs(Good)
  /\ ToBoot
  /\ UNCHANGED <<flash, lastErased>>

\* deploy.sh puts a new version file in place.
Publish ==
  /\ ~calm
  /\ published' \in Versions \ {published}
  /\ UNCHANGED <<flash, lastErased, ram, calm>>

CalmChanges == calm' = ~calm /\ UNCHANGED <<flash, lastErased, ram, published>>

Next == App \/ FlagRises \/ RequestCheck \/ PowerLoss \/ Crash \/ Publish \/ CalmChanges

\* The executor polls the main and the OTA task, and an image that can raise
\* a readiness flag does.
Fairness == WF_vars(App) /\ WF_vars(FlagRises)

Spec == Init /\ [][Next]_vars
FairSpec == Spec /\ Fairness

(***************************************************************************)
(* Properties.                                                             *)
(***************************************************************************)
\* Every variable stays in its range.
TypeOK ==
  /\ active \in Slots /\ dfu \in Slots
  /\ magic \in {"Boot", "Swap", "Revert"}
  /\ swapped \in BOOLEAN /\ (swapped => magic = "Swap")
  /\ lastErased \in 0..SectorOf(NumBlocks)
  /\ phase \in Fetching \union {"boot", "radio", "state", "selftest", "wait", "mark", "reset"}
  /\ running \in Versions
  /\ {ble, lamp, trigger, matches, calm} \subseteq BOOLEAN
  /\ elapsed \in 0..Window
  /\ remote \in Versions \union {0}
  /\ pos \in 0..NumBlocks
  /\ published \in Versions

\* The image the device falls back on.
Stable == IF OnTrial THEN dfu ELSE active

Promise == INSTANCE TrialBoot WITH
  Images <- Slots,
  stable <- Stable,
  candidate <- IF OnTrial THEN active ELSE dfu,
  stage <- IF magic # "Swap" THEN "none" ELSE IF swapped THEN "running" ELSE "staged",
  proven <- OnTrial /\ ble /\ lamp

\* Through every reset, power loss and flash failure the updater keeps the
\* promise of a trial boot (README.md:154-157, 201-211): the stable image is
\* never touched, a candidate gets one boot, and only a proof in that boot
\* makes it stable.
KeepsTrialBoot == Promise!Spec

HoldsAll(slot, v) == \A b \in Blocks : v \in slot[b]

\* core/src/ota/session.rs:43-45: whatever is marked for the swap, on trial or
\* fallen back on had every block of one image that fits programmed into it.
OnlyWholeImages ==
  LET Whole(slot) == \E v \in Versions \ Oversize : HoldsAll(slot, v)
  IN  /\ magic = "Swap" => Whole(IF swapped THEN active ELSE dfu)
      /\ Whole(Stable)

\* README.md:205-211: an intact image that is not Good never becomes the one
\* the device falls back on, whatever power losses and flash failures do.
FallbackIsGood == Intact(Stable) => \E v \in Good : IsImage(Stable, v)

Lands(v) == running = v /\ magic # "Swap"

\* README.md:177-180: once the world is calm, every request to check brings the
\* device to the published version, if that image is Good and unless a trial
\* is never decided or an image was stored wrongly (the two runs below).
UpdateLands ==
  \A v \in Good :
    /\ <>[](calm /\ published = v)
    /\ []<>trigger
    /\ []<>~OnTrial
    /\ []Intact(Stable)
    => <>[]Lands(v)

\* docs/decisions.md:105-106: what boots is the image that was verified.
RunsVerifiedImages == magic = "Swap" => Intact(IF swapped THEN active ELSE dfu)

\* README.md:209-211: a trial has a deadline, so it does not wait for ever
\* before the self-test that keeps it.
TrialIsTimed == (OnTrial /\ phase = "radio") ~> phase # "radio"
=============================================================================
