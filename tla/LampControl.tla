---------------------------- MODULE LampControl ----------------------------
(***************************************************************************)
(* The control path of the firmware: the BLE peripheral task and the fault *)
(* timer post control events to a bounded channel, and the lamp task, the  *)
(* only owner of the pin, applies them to the pure LampMachine.            *)
(*                                                                         *)
(* Scheduling.  The lamp task runs on an interrupt executor that preempts  *)
(* thread mode (app/src/highpri.rs); every other task shares one           *)
(* cooperative thread-mode executor.  A thread step is therefore possible  *)
(* only while the lamp task has nothing to do (LampIdle).                  *)
(*                                                                         *)
(* Time.  `now' is Instant::now() since boot.  Thread mode can be held up  *)
(* (flash operations, radio housekeeping), but never for longer than       *)
(* MaxStall: a longer stall starves watchdog_task too, and the hardware    *)
(* watchdog resets the device, which is the action Reset.                  *)
(***************************************************************************)
EXTENDS Naturals, Sequences

CONSTANTS
  Leash,        \* LEASH_TIMEOUT_MS
  TickPeriod,   \* fault_timer's 20 ms
  MaxStall,     \* the longest a ready thread task waits to be polled
  MaxGap,       \* the longest a healthy central leaves between valid writes
  On1, Off1, On2, Off2,   \* the four phases of the fault pattern
  QueueCap,     \* capacity of EVENTS
  InboxCap,     \* bound: unread events of one connection (external)
  Arrivals,     \* bound: the GATT events a central can cause (external)
  Horizon       \* bound: the clock stops here

Facts == {"Intact", "Broken"}
NoFact == "none"

\* A connection's events, as conn.next() returns them; data is <<length, byte>>.
EventKinds == {"command", "request", "other"}
GattEvents == [kind : EventKinds, data : Nat \X Nat]
Disconnected == [kind |-> "disconnected", data |-> <<0, 0>>]

ASSUME TimeAssumption ==
  /\ Leash \in Nat /\ TickPeriod \in Nat \ {0} /\ MaxStall \in Nat
  /\ MaxGap \in Nat /\ Horizon \in Nat
ASSUME PatternAssumption ==
  /\ On1 \in Nat \ {0} /\ Off1 \in Nat \ {0}
  /\ On2 \in Nat \ {0} /\ Off2 \in Nat \ {0}
ASSUME QueueAssumption == QueueCap \in Nat \ {0} /\ InboxCap \in Nat
ASSUME ArrivalsAssumption == Arrivals \subseteq GattEvents
\* The margin the contract constants leave: 10 s keep-alive, 8 s supervision
\* timeout and 8 s watchdog stay below the 30 s leash.
ASSUME MarginAssumption == MaxGap + MaxStall < Leash

VARIABLES
  now,         \* the clock
  machine,     \* the LampMachine
  pin,         \* level of GPIO28, TRUE is lit
  ready,       \* READY: the lamp task has driven the pin
  events,      \* the EVENTS channel
  tickDue,     \* when fault_timer's Timer expires
  pc,          \* where peripheral_task is
  advertising, \* ADVERTISING: has advertised at least once
  link,        \* a central holds the (single) connection
  inbox,       \* events of that connection not yet read by peripheral_task
  inboxSince,  \* when the oldest of them arrived
  lastHeard,   \* when the last valid write arrived (or the connection began)
  steady,      \* history: this central has kept the keep-alive, all accepted
  accepted     \* history: the last fact accepted on this connection

lampVars == <<machine, pin, ready>>
bleVars  == <<pc, advertising>>
airVars  == <<link, inbox, inboxSince, lastHeard, steady>>
vars == <<now, lampVars, events, tickDue, bleVars, airVars, accepted>>

(***************************************************************************)
(* core/src/lamp.rs: the pure machine.                                     *)
(***************************************************************************)
Elapsed(t, since) == IF t >= since THEN t - since ELSE 0   \* saturating_sub

Cycle == On1 + Off1 + On2 + Off2

FaultLevel(elapsed) ==
  LET t == elapsed % Cycle
  IN  t < On1 \/ (On1 + Off1 <= t /\ t < On1 + Off1 + On2)

NewMachine ==
  [fault |-> TRUE, fact |-> "Intact", live |-> FALSE,
   lastWrite |-> 0, faultSince |-> 0]

\* Mutant: a repeated fact does not renew the leash.
OnChangedFact(m, f, t) ==
  IF ~m.fault /\ m.fact = f
  THEN m
  ELSE [m EXCEPT !.fact = f, !.fault = FALSE, !.live = TRUE, !.lastWrite = t]

OnFact(m, f, t) ==
  [m EXCEPT !.fact = f, !.fault = FALSE, !.live = TRUE, !.lastWrite = t]

OnLinkDown(m, t) ==
  [m EXCEPT !.live = FALSE, !.fault = TRUE, !.faultSince = t]

\* Mutant: the leash is compared with the keep-alive's constant.
LeashExpiredEarly(m, t) == m.live /\ Elapsed(t, m.lastWrite) >= MaxGap
\* Mutant: the leash never fires.
LeashNeverExpires(m, t) == FALSE

LeashExpired(m, t) == m.live /\ Elapsed(t, m.lastWrite) >= Leash

OnTick(m, t) ==
  IF ~m.fault /\ LeashExpired(m, t)
  THEN [m EXCEPT !.fault = TRUE, !.faultSince = t]
  ELSE m

Level(m, t) ==
  IF m.fault THEN FaultLevel(Elapsed(t, m.faultSince)) ELSE m.fact = "Broken"

Tick == [type |-> "Tick", fact |-> NoFact]
LinkDown == [type |-> "LinkDown", fact |-> NoFact]
Fact(f) == [type |-> "Fact", fact |-> f]
LampEvents == {Tick, LinkDown} \cup {Fact(f) : f \in Facts}

Apply(m, e, t) ==
  CASE e.type = "Fact"     -> OnFact(m, e.fact, t)
    [] e.type = "LinkDown" -> OnLinkDown(m, t)
    [] e.type = "Tick"     -> OnTick(m, t)

(***************************************************************************)
(* core/src/contract.rs: which writes are facts.                           *)
(***************************************************************************)
\* Mutant: the length is checked, the byte is not.
ValidateLength(len, value) ==
  IF len # 1 THEN NoFact
  ELSE IF value = 0 THEN "Intact" ELSE IF value = 1 THEN "Broken" ELSE "Other"

ValidateWrite(len, value) ==
  IF len = 1 /\ value = 0 THEN "Intact"
  ELSE IF len = 1 /\ value = 1 THEN "Broken"
  ELSE NoFact

IsValid(e) ==
  e.kind = "command" /\ ValidateWrite(e.data[1], e.data[2]) # NoFact

(***************************************************************************)
(* app/src/lamp.rs: the channel, the lamp task and the fault timer.        *)
(***************************************************************************)
\* try_send: an event that finds the channel full is dropped.
Post(e) ==
  events' = IF Len(events) < QueueCap THEN Append(events, e) ELSE events

\* Mutant: the lamp task shares the thread executor and preempts nobody.
LampNeverPreempts == ready

\* The lamp task waits in EVENTS.receive(), so thread mode runs.
LampIdle == ready /\ events = <<>>

Init ==
  /\ now = 0
  /\ machine = NewMachine
  /\ pin = FALSE
  /\ ready = FALSE
  /\ events = <<>>
  /\ tickDue = TickPeriod
  /\ pc = "start"
  /\ advertising = FALSE
  /\ link = FALSE
  /\ inbox = <<>>
  /\ inboxSince = 0
  /\ lastHeard = 0
  /\ steady = FALSE
  /\ accepted = NoFact

LampStart ==
  /\ ~ready
  /\ pin' = Level(machine, now)
  /\ ready' = TRUE
  /\ UNCHANGED <<now, machine, events, tickDue, bleVars, airVars, accepted>>

\* Mutant: the pin is driven before the event is applied.
DriveFirst(m) == pin' = Level(machine, now)

Drive(m) == pin' = Level(m, now)

LampApply ==
  /\ ready
  /\ events # <<>>
  /\ machine' = Apply(machine, Head(events), now)
  /\ Drive(machine')
  /\ events' = Tail(events)
  /\ UNCHANGED <<now, ready, tickDue, bleVars, airVars, accepted>>

FaultTimer ==
  /\ LampIdle
  /\ now >= tickDue
  /\ Post(Tick)
  /\ tickDue' = now + TickPeriod
  /\ UNCHANGED <<now, lampVars, bleVars, airVars, accepted>>

(***************************************************************************)
(* app/src/ble.rs: peripheral_task.  pc is the await it has reached:       *)
(* start, advertise, backoff (the 500 ms sleep), accept, attach, serve,    *)
(* and dead once it has returned.                                          *)
(***************************************************************************)
\* Building the server and the advertisement fails: the task returns.
SetupFails ==
  /\ LampIdle
  /\ pc = "start"
  /\ pc' = "dead"
  /\ UNCHANGED <<now, lampVars, events, tickDue, advertising, airVars, accepted>>

SetupDone ==
  /\ LampIdle
  /\ pc = "start"
  /\ pc' = "advertise"
  /\ UNCHANGED <<now, lampVars, events, tickDue, advertising, airVars, accepted>>

AdvertiseOk ==
  /\ LampIdle
  /\ pc = "advertise"
  /\ pc' = "accept"
  /\ advertising' = TRUE
  /\ UNCHANGED <<now, lampVars, events, tickDue, airVars, accepted>>

AdvertiseErr ==
  /\ LampIdle
  /\ pc = "advertise"
  /\ pc' = "backoff"
  /\ UNCHANGED <<now, lampVars, events, tickDue, advertising, airVars, accepted>>

\* The 500 ms sleep ends: some later pass of the executor.
BackoffOver ==
  /\ LampIdle
  /\ pc = "backoff"
  /\ pc' = "advertise"
  /\ UNCHANGED <<now, lampVars, events, tickDue, advertising, airVars, accepted>>

AcceptErr ==
  /\ LampIdle
  /\ pc = "accept"
  /\ Post(LinkDown)
  /\ pc' = "advertise"
  /\ UNCHANGED <<now, lampVars, tickDue, advertising, airVars, accepted>>

\* A central connects; with CONNECTIONS_MAX = 1 it is the only one.
AcceptOk ==
  /\ LampIdle
  /\ pc = "accept"
  /\ pc' = "attach"
  /\ link' = TRUE
  /\ inbox' = <<>>
  /\ inboxSince' = now
  /\ lastHeard' = now
  /\ steady' = TRUE
  /\ UNCHANGED <<now, lampVars, events, tickDue, advertising, accepted>>

\* with_attribute_server fails: the connection is dropped.
AttachErr ==
  /\ LampIdle
  /\ pc = "attach"
  /\ Post(LinkDown)
  /\ pc' = "advertise"
  /\ link' = FALSE
  /\ inbox' = <<>>
  /\ UNCHANGED <<now, lampVars, tickDue, advertising, inboxSince, lastHeard,
                 steady, accepted>>

AttachOk ==
  /\ LampIdle
  /\ pc = "attach"
  /\ pc' = "serve"
  /\ UNCHANGED <<now, lampVars, events, tickDue, advertising, airVars, accepted>>

\* Mutant: a lost connection is left without telling the lamp.
LeaveSilently == pc' = "advertise" /\ accepted' = NoFact /\ events' = events

\* The handler of Disconnected: post and break to the advertising loop.
Leave == pc' = "advertise" /\ accepted' = NoFact /\ Post(LinkDown)

ServeDisconnected ==
  /\ LampIdle
  /\ pc = "serve"
  /\ inbox # <<>>
  /\ Head(inbox) = Disconnected
  /\ Leave
  /\ inbox' = <<>>
  /\ UNCHANGED <<now, lampVars, tickDue, advertising, link, inboxSince,
                 lastHeard, steady>>

\* A valid Write Command is accepted, then posted.
ServeFact ==
  /\ LampIdle
  /\ pc = "serve"
  /\ inbox # <<>>
  /\ IsValid(Head(inbox))
  /\ LET f == ValidateWrite(Head(inbox).data[1], Head(inbox).data[2])
     IN  Post(Fact(f)) /\ accepted' = f
  /\ inbox' = Tail(inbox)
  /\ UNCHANGED <<now, lampVars, tickDue, bleVars, link, inboxSince, lastHeard,
                 steady>>

\* event.accept() fails: the fact is logged and not posted.
ServeFactErr ==
  /\ LampIdle
  /\ pc = "serve"
  /\ inbox # <<>>
  /\ IsValid(Head(inbox))
  /\ inbox' = Tail(inbox)
  /\ steady' = FALSE
  /\ UNCHANGED <<now, lampVars, events, tickDue, bleVars, link, inboxSince,
                 lastHeard, accepted>>

\* A Write Request is rejected, a malformed write and any other event ignored.
ServeIgnored ==
  /\ LampIdle
  /\ pc = "serve"
  /\ inbox # <<>>
  /\ Head(inbox) # Disconnected
  /\ ~IsValid(Head(inbox))
  /\ inbox' = Tail(inbox)
  /\ UNCHANGED <<now, lampVars, events, tickDue, bleVars, link, inboxSince,
                 lastHeard, steady, accepted>>

(***************************************************************************)
(* Outside the firmware: the central, the radio link and time.             *)
(***************************************************************************)
Arrive(e) ==
  /\ link
  /\ Len(inbox) < InboxCap
  /\ inbox' = Append(inbox, e)
  /\ inboxSince' = IF inbox = <<>> THEN now ELSE inboxSince
  /\ lastHeard' = IF IsValid(e) THEN now ELSE lastHeard
  /\ UNCHANGED <<now, lampVars, events, tickDue, bleVars, link, steady, accepted>>

\* The supervision timeout, or the central hangs up.
LinkLost ==
  /\ link
  /\ link' = FALSE
  /\ inbox' = Append(inbox, Disconnected)
  /\ inboxSince' = IF inbox = <<>> THEN now ELSE inboxSince
  /\ UNCHANGED <<now, lampVars, events, tickDue, bleVars, lastHeard, steady,
                 accepted>>

\* The central hangs while the link stays up: no more keep-alive.
CentralHangs ==
  /\ link
  /\ steady
  /\ steady' = FALSE
  /\ UNCHANGED <<now, lampVars, events, tickDue, bleVars, link, inbox,
                 inboxSince, lastHeard, accepted>>

\* Nothing due is overdue: time passes no deadline of the scheduler (MaxStall)
\* nor of a healthy central (MaxGap).  The lamp task's latency is below a unit.
Advance ==
  /\ now < Horizon
  /\ LampIdle
  /\ now < tickDue + MaxStall
  /\ inbox # <<>> => now < inboxSince + MaxStall
  /\ link /\ steady => now < lastHeard + MaxGap
  /\ now' = now + 1
  /\ UNCHANGED <<lampVars, events, tickDue, bleVars, airVars, accepted>>

\* Watchdog, sys_reset or power cycle: RAM, the clock and the link start over.
Reset ==
  /\ now' = 0
  /\ machine' = NewMachine
  /\ pin' = FALSE
  /\ ready' = FALSE
  /\ events' = <<>>
  /\ tickDue' = TickPeriod
  /\ pc' = "start"
  /\ advertising' = FALSE
  /\ link' = FALSE
  /\ inbox' = <<>>
  /\ inboxSince' = 0
  /\ lastHeard' = 0
  /\ steady' = FALSE
  /\ accepted' = NoFact

LampTask == LampStart \/ LampApply
PeripheralTask ==
  \/ SetupFails \/ SetupDone \/ AdvertiseOk \/ AdvertiseErr \/ BackoffOver
  \/ AcceptErr \/ AcceptOk \/ AttachErr \/ AttachOk
  \/ ServeDisconnected \/ ServeFact \/ ServeFactErr \/ ServeIgnored
Outside == (\E e \in Arrivals : Arrive(e)) \/ LinkLost \/ CentralHangs

Next == LampTask \/ FaultTimer \/ PeripheralTask \/ Outside \/ Advance \/ Reset

\* Each executor keeps polling its ready tasks.  A connection's events are
\* served; that a central connects, or that time advances, is not assumed.
Fairness ==
  /\ WF_vars(LampTask)
  /\ WF_vars(FaultTimer)
  /\ WF_vars(ServeDisconnected \/ ServeFact \/ ServeFactErr \/ ServeIgnored)

Spec == Init /\ [][Next]_vars
FairSpec == Spec /\ Fairness

(***************************************************************************)
(* Properties.                                                             *)
(***************************************************************************)
Machines == [fault : BOOLEAN, fact : Facts, live : BOOLEAN,
             lastWrite : Nat, faultSince : Nat]

\* Every variable stays in its range.
TypeOK ==
  /\ now \in Nat
  /\ machine \in Machines
  /\ pin \in BOOLEAN
  /\ ready \in BOOLEAN
  /\ events \in Seq(LampEvents)
  /\ tickDue \in Nat
  /\ pc \in {"start", "dead", "advertise", "backoff", "accept", "attach", "serve"}
  /\ advertising \in BOOLEAN
  /\ link \in BOOLEAN
  /\ inbox \in Seq(GattEvents \cup {Disconnected})
  /\ inboxSince \in Nat
  /\ lastHeard \in Nat
  /\ steady \in BOOLEAN
  /\ accepted \in Facts \cup {NoFact}

\* The machine as it will be once the lamp task has caught up.
Settled == IF events = <<>> THEN machine ELSE Apply(machine, Head(events), now)

\* The channel never holds more than the event just posted, so the discarded
\* result of try_send (app/src/lamp.rs post, post_fact) never hides a loss.
ChannelNeverFills == Len(events) <= 1

\* The lamp commits to a fact (no fault pattern) only while peripheral_task is
\* serving the very connection on which that fact was accepted: no path out of
\* the event loop and no later connection leaves an old fact on display.
FactNeedsSession ==
  ~Settled.fault => pc = "serve" /\ accepted = Settled.fact

\* An accepted fact is never lost: while its connection is served the lamp
\* either shows it or has given it up to the leash.
AcceptedFactHeld ==
  accepted # NoFact =>
    /\ Settled.fact = accepted
    /\ Settled.live
    /\ Settled.fault => Elapsed(Settled.faultSince, Settled.lastWrite) >= Leash

\* However thread mode is held up, a fact on display is younger than the leash
\* plus one tick period plus the longest stall.
BoundedStaleness ==
  ~machine.fault => now < machine.lastWrite + Leash + TickPeriod + MaxStall

\* No false alarm: while the central keeps its keep-alive and its writes are
\* accepted, the leash does not fire, whatever the delays in between.
NoFalseAlarm == steady /\ accepted # NoFact => ~Settled.fault

\* The pin lags the machine by at most one tick period plus one stall: it is at
\* the level the machine prescribed at some instant that recent.
PinFollowsMachine ==
  ready /\ events = <<>> =>
    \E t \in 0..now : /\ now - t <= TickPeriod + MaxStall
                      /\ pin = Level(machine, t)

\* A lost connection always reaches the lamp: the fault pattern follows.
LossIsShown == (~link /\ ~machine.fault) ~> machine.fault

(***************************************************************************)
(* The strengthening that makes the safety properties inductive.           *)
(***************************************************************************)
\* Before the lamp task's first poll nothing else has run.
BootOrder ==
  ~ready => /\ events = <<>> /\ machine = NewMachine /\ now = 0
            /\ pc = "start" /\ tickDue = TickPeriod

SessionInv ==
  /\ accepted # NoFact => pc = "serve"
  /\ pc \in {"attach", "serve"} /\ ~link =>
       inbox # <<>> /\ inbox[Len(inbox)] = Disconnected

\* No stamp lies in the future and no deadline is passed by more than a stall.
ClockInv ==
  /\ tickDue <= now + TickPeriod /\ now <= tickDue + MaxStall
  /\ lastHeard <= now /\ inboxSince <= now
  /\ inbox # <<>> => now <= inboxSince + MaxStall
  /\ link /\ steady => now <= lastHeard + MaxGap
  /\ Settled.lastWrite <= now /\ Settled.faultSince <= now

\* The last tick found the fact on display younger than the leash.
LeashInv ==
  ~Settled.fault => Settled.live /\ tickDue < Settled.lastWrite + Leash + TickPeriod

\* What a healthy central has said is either applied or still unread.
HeardInv ==
  steady /\ accepted # NoFact =>
    /\ ~Settled.fault
    /\ inbox # <<>> => inboxSince <= Settled.lastWrite + MaxGap
    /\ (\A i \in 1..Len(inbox) : ~IsValid(inbox[i])) =>
         lastHeard <= Settled.lastWrite

\* The pin was driven since the last tick.
DrivenInv ==
  ready /\ events = <<>> =>
    \E t \in 0..now : tickDue <= t + TickPeriod /\ pin = Level(machine, t)

LampInv ==
  /\ TypeOK /\ ChannelNeverFills /\ BootOrder /\ SessionInv /\ ClockInv
  /\ FactNeedsSession /\ AcceptedFactHeld /\ BoundedStaleness
  /\ LeashInv /\ HeardInv /\ DrivenInv

\* The control path implements what the lamp promises.
Promise == INSTANCE BeamLamp WITH
  Unknown <- NoFact,
  session <- pc = "serve",
  shown   <- IF Settled.fault THEN NoFact ELSE Settled.fact
KeepsPromise == Promise!Spec
=============================================================================
