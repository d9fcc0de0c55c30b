# A verification project for garagelight

garagelight is the firmware of a Pico W that lights a garage lamp when a light
beam is broken. A central tells it the state of the beam over BLE. On the side
it publishes a temperature over MQTT and updates itself over the air. This
directory holds TLA+ models of its tasks, the TLC runs that check them and the
theorems TLAPS proves about them. Paths below are relative to the repository.

    tlc -workers 2 -config MCLampControl.cfg MCLampControl.tla
    tlc -workers 2 -config OtaFetch.cfg OtaFetch.tla
    tlapm LampControlProofs.tla
    tlapm RolloutProofs.tla

## 1. The system

| Part | State it keeps | Operations | Talks to |
|---|---|---|---|
| Lamp machine, `core/src/lamp.rs` | fault, fact, live, time of last write, start of fault | on_fact, on_link_down, on_tick, level | called by the lamp task |
| Write contract, `core/src/contract.rs` | none | validate_write | called by the BLE task |
| Lamp task and fault timer, `app/src/lamp.rs`, `app/src/highpri.rs` | EVENTS (8 places), READY, the pin | receive and apply; post; tick every 20 ms | BLE task through EVENTS; self-test through READY |
| BLE peripheral, `app/src/ble.rs` | the point in the accept/serve loop, ADVERTISING | advertise, accept, attach, serve one event | central; lamp through EVENTS |
| Wi-Fi supervisor, `app/src/net.rs`, `core/src/wifi.rs` | backoff, NoIpWatchdog, ASSOCIATED, REJOIN_REQUESTED | join, DHCP with retries, leave, sleep, reset | telemetry through REJOIN_REQUESTED |
| MQTT telemetry, `app/src/telemetry.rs` | RejoinCounter, backoff, CONNECTED, the session | connect, subscribe, poll, publish | supervisor, sensor mailbox, OTA trigger |
| OTA task, `app/src/ota/`, `core/src/ota/` | TRIGGER, the check under way | three fetches, decide, stream, mark, reset | flash through the updater, LED through the cyw43 lock |
| HTTP GET, `app/src/ota/transport.rs`, `core/src/ota/http.rs` | connection, head parser, leftover buffer | send, feed the parser, read the body | OTA task, web server |
| LED beacon, `app/src/beacon.rs` | the lock on the cyw43 control | blink a code | supervisor through the lock |
| Self-test, `core/src/ota/selftest.rs`, `app/src/selftest.rs` | two latched conditions, a clock | poll, confirm, revert | reads ADVERTISING and READY |
| Slots and bootloader, `app/src/update.rs`, `bootloader/` | ACTIVE, DFU, STATE, last erased sector | write, mark_updated, mark_booted, prepare | survives every reset |
| Sensor sampling, `app/src/sensors.rs`, `core/src/sensor.rs` | SAMPLE, a one-place mailbox | read with retries, signal | core 1 to telemetry |
| Deployment, `deploy.sh` | files on a web server | copy image and digest, set the version, prune, trigger | what the OTA task fetches |

What is hard: two executors, one of which preempts the other; a channel that
drops when full; a leash measured at ticks that may be late; flags shared by
tasks with long awaits in between; timeouts and retries against a network that
comes and goes; flash writes, resets and power losses in any order; a server whose files change
under a download that arrives in pieces. What makes
each part correct:

* Lamp: a fact is shown only for a live session and never much longer than the
  leash; a healthy central never sees a fault; nothing posted is lost.
* Network: whatever fails, the station comes back when the network does; the
  no-IP reset comes when due and never early; a rejoin request is served.
* Update: only a whole image that matched its digest is tried; the image to fall back
  on is never touched; a trial ends; a published good version is reached.
* Fetch: however an answer is cut into reads, head and body are told apart at
  the right byte; what is marked is one whole release of the version asked for;
  a declared length never makes the device write behind the slot or a text's
  buffer.
* Deployment: the version the server names has its pair, the one named before it
  too; an announcement that comes in the middle of a check is not lost.

`PROJECT.json` lists every hazard at its line.

## 2. Modules

| Module | What it is |
|---|---|
| `BeamLamp` | abstract: what the lamp promises the person in the garage |
| `LampControl` | lamp machine, contract, EVENTS, lamp task, fault timer, BLE task, clock and watchdog |
| `LampControlProofs` | the theorems about `LampControl` |
| `MCLampControl`, `MCLampFlap` | instances for TLC; the second adds a history variable for the length of a lit phase |
| `WifiSupervisor` | `supervisor_task` with its watchdog, the access point and the DHCP server |
| `MqttTelemetry` | the telemetry reconnect loop with its counter |
| `NetRecovery` | the two composed, with the beacon that shares the lock and the reset that restarts everything |
| `NetRecoveryProofs` | the theorems about `NetRecovery` |
| `TrialBoot` | abstract: what an A/B update promises |
| `BootSlots` | the flash slots, the boot state, the updater and the bootloader |
| `OtaUpdate` | the boot sequence, the self-test, the OTA task, and power, crashes and publications around them |
| `OtaUpdateProofs` | the theorems about `OtaUpdate` |
| `HttpHead` | the head parser as a fold over tokens, and what a good head is |
| `HttpGet` | one GET: connection, parser, leftover, body (variables and steps, no specification of its own) |
| `Deploy` | the commands of `deploy.sh` and the directory they change (likewise) |
| `OtaFetch` | the two composed: one update check against the server while it is published to |
| `Rollout` | abstract: what publishing and updating promise together |
| `HttpHeadProofs` | the theorems about the parser, without a connection around it |
| `DeployProofs` | the theorems about what the server holds |
| `OtaFetchProofs` | the theorems about a check: what one GET delivers, what three of them make |
| `RolloutProofs` | that `OtaFetch` implements `Rollout` |

**LampControl.** `machine`, `events`, `pin`, `ready` are the variables of the
lamp task; `pc` names the await `peripheral_task` has reached. One action is
what a task does between two awaits. A thread action needs `LampIdle`, because
the lamp task sits on an interrupt executor and runs first. Time is an integer
clock: `Advance` refuses to pass a tick that is due by more than `MaxStall`,
since a longer stall also starves `watchdog_task` and ends in `Reset`. Writes
wait in `inbox`, which stands for the BLE host's queue. `steady`, `accepted`,
`lastHeard` and `inboxSince` are history. The fault pattern keeps its four
phases, scaled.

**WifiSupervisor, MqttTelemetry, NetRecovery.** `sup` and `tel` name the await
each task has reached. Time counts only where the supervisor spends it; the
history variable `outage` adds up everything, `noIp` only what the code records.
`link`, `config` are the stack's state; `ap`, `dhcp`, `traffic` the world's.
`control` is the lock on the cyw43 control: the supervisor awaits it, outside
its timeouts, before a join and before a leave (`wantJoin`, `wantLeave`), and
the OTA task holds it while it blinks a code.

**BootSlots, OtaUpdate.** An image is a row of blocks, a block the set of
versions programmed into it since its last erase; it reads back right only if
that set is a singleton, which is how NOR flash treats a second programming.
`phase` names the await of the main task and then of the OTA task. Images
behave by version: `Good`, `Hung` in `radio::init`, or broken; a slot without
an intact image may do anything. `calm` is an environment flag: while it is up
there is no power loss, transfer error, flash error or publication. The flash
crate `embassy-boot` (0.7.0) is outside the repository: that it refuses to
write while an image is on trial, erases a sector only when it differs from the
last one erased, and treats an erased STATE as Boot is modelled as external.
Bootloader swaps and reverts resume after a power loss before any image runs,
so each is one step.

**HttpHead, HttpGet.** A response is a sequence of tokens, one for every run of
bytes the code treats alike: an end of line, a status line, a Content-Length, a
Transfer-Encoding, any other header, text without a colon, and for bodies a
digit, the hex of a digest, a block of an image, a newline. `Push` is
`HeadParser::push`, `Feed` its fold over a read. `ReadHead` takes any number of
tokens up to `ReadChunk`, so the head may end anywhere in a read. `IsHead` is
the reference definition of a good head, read off the response as a whole;
nothing in the parser is defined by it.

**Deploy.** `script` is the command that comes next; a copy is two steps,
between which the file is empty or a mixture of old and new; the version file is
cut and then written. The prune removes an image and then its digest (`doomed`
is the version between the two) and may end before any file. `set -e` ends a run
at any command but the prune and the last one. `builds` lists the VERSION of every run, so two runs may share one.
`latest` and `prior` are history: the last two versions the version file named.

**OtaFetch.** `stage` is the file being fetched and `step` the point of its GET.
The server reads a file when the request arrives; while `scp` writes over an
image the rest of the answer may come from the new file (`Overtaken`). Answers
of another shape (`OddText`, `OddImage`) stand for a front end that fails,
encodes, repeats its status line or declares a length of more than 32 bits. A marked image boots and is
confirmed, or its trial is lost; the trial itself is `OtaUpdate`'s. `seen` is the
set of versions the server named since the check read it, `short` says that a
connection ended before a text did. `OtaUpdate` and `OtaFetch` are two views of
one task: the first abstracts a download to blocks that may be wrong, the second
shows what can make them wrong and what the digest catches.

**Rollout.** Five variables stand for all of `OtaFetch`: the builds so far, the
one that runs, whether the device is idle, has asked for a version or has marked
an image, the version, and the build the marked image is. Files, responses,
parser and requests are gone. `Readings` is the one trace they leave: the code
takes a text whose connection ended early as it stands, so 12 may be read as 1.
It covers versions of at most two digits, which are all the model has.

## 3. Runs

| Run | Spec | Result |
|---|---|---|
| `lamp_control` | FairSpec | 8 invariants and `KeepsPromise` (refinement of `BeamLamp`) hold, and a lost session always reaches the lamp (`LossIsShown`) |
| `lamp_flap` | FlapSpec | violated: link events restart the fault pattern, its dark phases vanish |
| `net_recovery` | FairSpec | the network recovers, although a blink may hold the control lock; the reset is never early and always comes |
| `net_rejoin` | FairSpec | violated: a rejoin request is not read while the link is up |
| `net_no_ip` | Spec | violated: only sleeps are counted as time without a lease |
| `net_counter` | Spec | violated: failures of established sessions are counted too |
| `ota_update` | Spec | 4 properties hold, `KeepsTrialBoot` (refinement of `TrialBoot`) among them |
| `ota_liveness` | FairSpec | a published good version is reached |
| `ota_stale` | Spec | violated: an unerased sector mixes two images in the slot marked for the swap |
| `ota_hung` | FairSpec | violated: a trial that hangs in `radio::init` has no deadline |
| `ota_fetch` | FairSpec | the parser accepts exactly good heads, no byte is lost or written past the slot or a buffer, only whole releases are marked, the server's promises hold, a release on offer is reached; `KeepsRollout` (refinement of `Rollout`) |
| `deploy_rerun` | Spec | violated: a run with a published VERSION that fails in a copy leaves a broken pair advertised |

The violated properties state what a comment or document says; the line is
quoted with each finding in `PROJECT.json`. Two lines of the documents are stale
and no property follows them. `docs/design.md:104` has "never reset because WiFi
is down"; `net.rs:6-9` and `wifi.rs:14-16` name the no-IP reset as the one
deliberate exception, which `ResetsWhileUnreachable` states. `README.md:462` calls
`request_check` "currently a log-only stub"; by `README.md:177-180` and the code
it starts a check, which `UpdateLands` and `ReleaseReached` rely on. No hardware trace was taken: they
are what the source, as modelled, does. `ota_stale` rests on the external
behaviour of `embassy-boot` named above.

### Bounds

* Lamp: leash 3, tick 1, stall 1, gap 1 (the smallest numbers with
  gap + stall < leash), a channel of 2 places (one more than is ever used), two
  unread events per connection, a clock that stops at 6 or 7: enough for a
  session to live through its leash twice. The theorems remove these bounds.
* Network: one DHCP retry, backoff 1 doubling to 2, reset at 3, rejoin after 2
  failures. `OutageCap` ends the count of outage time above every value the
  properties compare it with (4 in `net_recovery`, 12 in `net_no_ip`, where the
  threshold plus one whole iteration is 9).
* Update: three blocks in sectors of two, so that an image ends inside a sector
  and spans two; a good, a broken and an oversize version in `ota_update`; two
  good versions in `ota_liveness`; a self-test of one poll. Wrong bytes in a
  body are blocks of another version. Two good images and a broken one at once
  exceed what TLC finishes in minutes.
* Fetch: versions 1, 2 and 12 (12 cut behind its first digit reads as 1), images
  of two blocks in a slot of two, reads of up to 3 tokens out of heads of up to
  8, so a read holds the end of a head and the start of a body and a long head
  overflows. A usize wraps at 16, the odd image and the odd text declare 17. Three runs of the
  script: two behind it (`DeployInit`, with rising versions) and one that meets
  the device, with any VERSION. Odd answers are given while the script rests and
  before its last run, which waits for the one being read to end; each is given
  at one stage, because the GET is the same at all. A digest is the build it comes from: no two images
  share one.

### Fairness

Executors poll every ready task, hence weak fairness of each task. A join, a
lease or a handshake that is possible again and again succeeds (strong fairness
of those alone): it is the environment's part, and without it nothing can be
promised. Connections, time, requests and publications get none. `UpdateLands`
has premises instead: the world becomes calm, requests keep coming, and neither
of the two findings about updates strikes (a trial that is never decided, a slot
that holds a mixture). `LossIsShown` assumes a served connection's events
are read, which holds because `peripheral_task` has no await there but
`conn.next()`.

A blink ends (`BlinkEnds`), since `gpio_set` is answered by the radio; that one
begins is nobody's duty. In `OtaFetch` a check goes on (weak fairness of
`Check`): every read of an open connection returns bytes, an end or a timeout
within `IO_TIMEOUT`. The script gets no fairness: `ReleaseReached` starts from a
request that finds a release on offer, and gives up when the release is touched.

`ota_hung` and `net_rejoin` show that what is excluded or violated is the
code's: fairness is stated and each counterexample stays in a task that waits.

## 4. Theorems

Every theorem holds for all values of the constants that meet the named
assumptions of the modules. None is about liveness, which is beyond the prover.
A theorem listed without a property is about an operator of the model.

### LampControlProofs

`Spec` implies always `TypeOK`, the inductive `LampInv`, and from it
`ChannelNeverFills`, `FactNeedsSession`, `AcceptedFactHeld`,
`BoundedStaleness`, `NoFalseAlarm` and `PinFollowsMachine`; and `LampControl`
implements `BeamLamp` (`LampKeepsPromise`).

Assumptions: all durations are naturals, the tick, the phases and the channel
are not empty, arrivals are GATT events, and the margin `MaxGap + MaxStall <
Leash`, which the contract's constants leave (10 s and 8 s against 30 s).

The argument. No property above is inductive alone. `BootOrder` says that
nothing runs before the lamp task's first poll. `ChannelNeverFills` holds because a
thread task runs only with the channel empty, so at most one event is ever
waiting, and `Settled` (the machine once that event is applied) is what the
other parts speak about. `SessionInv` ties `accepted` to the serving task and
puts a disconnect at the end of the inbox of a dead link. `ClockInv` bounds
every stamp by the clock. `LeashInv` says the last tick found the fact young
enough, which with `ClockInv` gives `BoundedStaleness`; `HeardInv` bounds how
far the unread inbox may lie behind a healthy central, which gives
`NoFalseAlarm`; `DrivenInv` says the pin was driven since the last tick. There
is one lemma per action, and the refinement reuses them.

### NetRecoveryProofs

`TypeOK` with the holder of the lock, `AssociatedOnlyWhileLinked`,
`ConnectedOnlyInSession`, and `NeverResetsEarly` as an action property. The
first three are inductive with `TypeOK`. For the last one `NeverAhead` relates
the watchdog to the history variable: `noIp`, as far as `outage` is counted,
never exceeds `outage`, because every sleep is added to both and a lease clears
both. It assumes `NoIpReset <= OutageCap`: below that bound the count of the
outage would end before the threshold, a matter of the model and not of the code.

### OtaUpdateProofs

`TypeOK`; `OnlyWholeImages` for any number of versions, blocks, and blocks to a
sector; `FallbackIsGood`; and that `OtaUpdate` implements `TrialBoot`
(`UpdateKeepsTrialBoot`). `WholeInv` carries the second through a download:
`Named` (what is asked for is a version), `Streaming` (the blocks streamed so
far are in the slot as long as the digest matches, since the sector under the
last of them is the one erased last) and `Marking` (between the last block and
the mark the slot is whole and left alone). `GoodInv` carries `FallbackIsGood`
through a boot: `FlagsProve` (the flags are down until the image runs, and only a
Good one has both of them up in its trial) and `TriedAtOnce` (a marked image is
tried by the very next boot). `OnlyWholeImages` says that every block was
programmed, not that it reads back: the latter is `RunsVerifiedImages`, which
the code violates.

### DeployProofs

`AdvertisedIsWhole` and `PreviousIsKept`, for any set of versions from 1 to 99,
any length of image and digest and any number of runs. They are theorems of
`OtaFetch`, so the device is there, but only the script's steps matter.
`PublishInv` follows the commands: `PairInv` (behind the copies the pair of the
current run is complete), `VersionInv` (what the version file holds while and
after it is rewritten) and `OriginInv` (a version the file names was built
by a run, an earlier one while files are being copied, and has that run's pair
if no other run used it). `DoomedInv` says that the pair being pruned has lost
its image already, so the digest that follows is not that of a pair. `KeptInv` says that the last version named has its pair and is
the current one at the prune, so the prune keeps it and, unless there is a
reason to prefer another, the one before it. `TextsDiffer` shows that two
versions never have the same text, so a text names one version.

### HttpHeadProofs

About `Feed` alone, for any tokens and any `MaxHead`. `FeedInPieces`: feeding two
parts is feeding them in one. `ParserExact`: a response is accepted if and only
if a good head begins it, and the parser stops at the token that ends that head.

`IsHead` reads a head as a whole and by its lines, the parser sees one token
after the other. `GoodHead` is the first said by positions of the response
(`HeadByPosition`), so that what was not read yet does not matter
(`ParserSeesPrefix`). `ParserIs` is what a parser knows after n tokens: where
the line it reads began, that every line before it was good, and the lengths
they declared; if it has refused, that no response with this beginning has a
good head (`NoHead`). There is one lemma for each thing a token can be. The
library states induction with an operator as its parameter, which cannot be
instantiated here; where a proof goes along the tokens it takes the least
position at which it would fail (`Least`), which is not 0 and has a predecessor.

### OtaFetchProofs

All safety properties of `ota_fetch` that are not about the server: `TypeOK`,
`HeadExact`, `NothingLost`, `WholeRelease`, `FlashWithinSlot`,
`TextWithinBuffer` and `AsksForPublished`, for any versions from 1 to 99, any size of image, digest,
slot, head, read and text, any number of runs, and every answer the model's
server gives. They follow from one invariant, `FetchInv`:

* `FilesInv`: a digest file is empty or has the whole digest of a run of its
  version, with or without the end of its line. A digest that is written over
  keeps at most its last token, so no mixture passes for one.
* `GetInv`: what was read is what parser, leftover and body have of it
  (`ReadSoFar`, `HeadInv`, `BodyInv`), and the tokens read fit the length declared.
* `AnswerInv`: what may still come. In the version's GET it is the text of a
  version seen since the check began, or holds no digit; in the digest's it holds
  hex of one run only. Only the image's answer changes under the device.
* `ChosenInv`: the digest held is that of a run of the version asked for. With
  it `Matches` says which build was read, which is `WholeRelease`.

Two assumptions matter to them: a version text is shorter
than a usize counts (`FetchAssumption`; it has at most three bytes), and the
script has run twice before (`MaxBuilds` is at least 2).

### RolloutProofs

`OtaFetch` implements `Rollout` (`FetchKeepsRollout`). Beside `FetchInv` it needs
`SeenInv`: what a check has seen named is the version of some run, which comes
from `DeployProofs`. `VersionIs` says what a text can be read as, `ImagesDiffer`
that the marked image is one build.

### Only model-checked

Liveness: `LossIsShown`, `NetworkRecovers`, `ResetsWhileUnreachable`,
`UpdateLands` and `ReleaseReached` need fairness and ENABLED, which the prover
does not have. Every safety property and every refinement that a passing run
checks is a theorem. What the other runs refute is refuted by TLC alone.

## 5. Not modelled

`parse_url`, `parse_authority`, base64 and the broker address: pure functions of
build-time constants. Inside the parsers that are modelled, the limits of
single numbers (a status over 16 bits, a length over 64, a version over 32) are
rejections like any malformed line. TLS, DNS and sockets are external; a
connection may fail at any await. What a session publishes and receives;
logging, the bench binaries and the build. `mark_dfu` and `prepare_update` have
no caller in the application. Time counters do not overflow in the models (they
are 64-bit in the source). VERSION is a number: `deploy.sh` accepts leading
zeros, under which the device would never ask for the pair.

Sensor sampling is left out for another reason. Core 1 overwrites a one-place
mailbox that telemetry empties when a session is up; no comment, test or
document says how old a published sample may be, or that none is dropped, so
every property of it would restate the mailbox.

## 6. Plan

1. Done: the lamp control path, checked, proved and refined.
2. Done: network recovery and the update path, checked, proved and refined
   (`TrialBoot`); the control lock between supervisor and beacon.
3. Done: deployment against fetch, with the head parser, the reads and the
   parsers of version and digest, checked, proved and refined (`Rollout`).
4. Open: the pair that is lost when a run fails behind its copies or VERSION
   is lowered. `PreviousIsKept` excludes both in its premise; README.md:307-308
   of the repository does not.
5. Open: what a telemetry session receives while it publishes, once it is known
   what the MQTT crate keeps of a failed SUBSCRIBE.
6. Open: an abstract specification of the network (out, joining, served) that
   `NetRecovery` implements, to be proved from the invariant of
   `NetRecoveryProofs`.
7. Open: that `Number` reads back the decimal digits of a version of any length
   (`NumberIs` has one and two digits), by the argument of `Least`.
