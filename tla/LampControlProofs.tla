------------------------- MODULE LampControlProofs -------------------------
(***************************************************************************)
(* Proofs about LampControl, for every leash, tick period, stall bound,    *)
(* pattern, queue capacity and clock horizon the assumptions allow.        *)
(***************************************************************************)
EXTENDS LampControl, SequenceTheorems, TLAPS

\* Which event types the channel can carry, and what they carry.
LEMMA EventTypes ==
  ASSUME NEW e \in LampEvents
  PROVE  \/ e.type = "Fact" /\ e.fact \in Facts
         \/ e.type = "LinkDown"
         \/ e.type = "Tick"
  BY DEF LampEvents, Fact, Tick, LinkDown

\* Applying an event to a machine gives a machine.
LEMMA ApplyType ==
  ASSUME NEW m \in Machines, NEW e \in LampEvents, NEW t \in Nat
  PROVE  Apply(m, e, t) \in Machines
<1>1. CASE e.type = "Fact" /\ e.fact \in Facts
  BY <1>1 DEF Apply, OnFact, Machines
<1>2. CASE e.type = "LinkDown"
  BY <1>2 DEF Apply, OnLinkDown, Machines
<1>3. CASE e.type = "Tick"
  BY <1>3 DEF Apply, OnTick, Machines
<1>4. QED  BY <1>1, <1>2, <1>3, EventTypes

\* The level of a machine is a Boolean.
LEMMA LevelType ==
  ASSUME NEW m \in Machines, NEW t
  PROVE  Level(m, t) \in BOOLEAN
  BY DEF Level, FaultLevel, Machines

\* Posting keeps the channel a sequence of events.
LEMMA PostType ==
  ASSUME TypeOK, NEW e \in LampEvents, Post(e)
  PROVE  events' \in Seq(LampEvents)
  BY DEF Post, TypeOK

\* A machine as new is a machine.
LEMMA NewMachineType == NewMachine \in Machines
  BY DEF NewMachine, Machines, Facts

\* The initial state is well typed.
LEMMA TypeInit ==
  ASSUME Init
  PROVE  TypeOK
<1>1. /\ pin \in BOOLEAN /\ ready \in BOOLEAN /\ advertising \in BOOLEAN
      /\ link \in BOOLEAN /\ steady \in BOOLEAN
  BY Zenon DEF Init
<1>2. QED
  BY <1>1, NewMachineType, TimeAssumption DEF Init, TypeOK

\* Every step keeps the state well typed.
LEMMA TypeStep ==
  ASSUME TypeOK, [Next]_vars
  PROVE  TypeOK'
<1>1. CASE LampStart
  BY <1>1, LevelType DEF LampStart, TypeOK, bleVars, airVars
<1>2. CASE LampApply
  <2>1. Head(events) \in LampEvents /\ Tail(events) \in Seq(LampEvents)
    BY <1>2 DEF LampApply, TypeOK
  <2>2. machine' \in Machines
    BY <1>2, <2>1, ApplyType DEF LampApply, TypeOK
  <2>3. pin' \in BOOLEAN
    BY <1>2, <2>2, LevelType DEF LampApply, Drive
  <2>4. QED
    BY <1>2, <2>1, <2>2, <2>3 DEF LampApply, TypeOK, bleVars, airVars
<1>3. CASE FaultTimer
  BY <1>3, PostType, TimeAssumption
  DEF FaultTimer, TypeOK, LampEvents, lampVars, bleVars, airVars
<1>4. CASE SetupFails \/ SetupDone \/ AdvertiseOk \/ AdvertiseErr
           \/ BackoffOver \/ AttachOk
  BY <1>4 DEF SetupFails, SetupDone, AdvertiseOk, AdvertiseErr, BackoffOver,
              AttachOk, TypeOK, lampVars, bleVars, airVars
<1>5. CASE AcceptErr \/ AttachErr
  <2>1. link' \in BOOLEAN
    BY <1>5, Zenon DEF AcceptErr, AttachErr, TypeOK, airVars
  <2>2. CASE AcceptErr
    BY <2>2, PostType DEF AcceptErr, TypeOK, LampEvents, lampVars, airVars
  <2>3. CASE AttachErr
    BY <2>1, <2>3, PostType DEF AttachErr, TypeOK, LampEvents, lampVars
  <2>4. QED  BY <1>5, <2>2, <2>3
<1>6. CASE AcceptOk
  BY <1>6 DEF AcceptOk, TypeOK, lampVars
<1>7. CASE ServeDisconnected
  BY <1>7, PostType DEF ServeDisconnected, Leave, TypeOK, LampEvents, lampVars
<1>8. CASE ServeFact
  <2> DEFINE f == ValidateWrite(Head(inbox).data[1], Head(inbox).data[2])
  <2>1. f \in Facts /\ Fact(f) \in LampEvents
    BY <1>8 DEF ServeFact, IsValid, ValidateWrite, Facts, LampEvents
  <2>2. Tail(inbox) \in Seq(GattEvents \cup {Disconnected})
    BY <1>8 DEF ServeFact, TypeOK
  <2>3. Post(Fact(f)) /\ accepted' = f
    BY <1>8 DEF ServeFact
  <2>4. events' \in Seq(LampEvents)
    BY <2>1, <2>3, PostType
  <2> HIDE DEF f
  <2>5. QED
    BY <1>8, <2>1, <2>2, <2>3, <2>4 DEF ServeFact, TypeOK, lampVars, bleVars
<1>9. CASE ServeFactErr \/ ServeIgnored
  <2>1. steady' \in BOOLEAN
    BY <1>9, Zenon DEF ServeFactErr, ServeIgnored, TypeOK
  <2>2. CASE ServeFactErr
    BY <2>1, <2>2 DEF ServeFactErr, TypeOK, lampVars, bleVars
  <2>3. CASE ServeIgnored
    BY <2>3 DEF ServeIgnored, TypeOK, lampVars, bleVars
  <2>4. QED  BY <1>9, <2>2, <2>3
<1>10. ASSUME NEW e \in Arrivals, Arrive(e) PROVE TypeOK'
  BY <1>10, ArrivalsAssumption DEF Arrive, TypeOK, lampVars, bleVars
<1>11. CASE LinkLost \/ CentralHangs
  <2>1. link' \in BOOLEAN /\ steady' \in BOOLEAN
    BY <1>11, Zenon DEF LinkLost, CentralHangs, TypeOK
  <2>2. CASE LinkLost
    BY <2>1, <2>2 DEF LinkLost, TypeOK, lampVars, bleVars
  <2>3. CASE CentralHangs
    BY <2>1, <2>3 DEF CentralHangs, TypeOK, lampVars, bleVars
  <2>4. QED  BY <1>11, <2>2, <2>3
<1>12. CASE Advance
  BY <1>12 DEF Advance, TypeOK, lampVars, bleVars, airVars
<1>13. CASE Reset
  <2>1. /\ pin' \in BOOLEAN /\ ready' \in BOOLEAN /\ advertising' \in BOOLEAN
        /\ link' \in BOOLEAN /\ steady' \in BOOLEAN
    BY <1>13, Zenon DEF Reset
  <2>2. QED
    BY <1>13, <2>1, NewMachineType, TimeAssumption DEF Reset, TypeOK
<1>14. CASE UNCHANGED vars
  BY <1>14 DEF vars, TypeOK, lampVars, bleVars, airVars
<1>15. QED
  BY <1>1, <1>2, <1>3, <1>4, <1>5, <1>6, <1>7, <1>8, <1>9, <1>10, <1>11,
     <1>12, <1>13, <1>14 DEF Next, LampTask, PeripheralTask, Outside

\* Every variable stays in its range.
THEOREM TypeCorrect == Spec => []TypeOK
  BY TypeInit, TypeStep, PTL DEF Spec

-----------------------------------------------------------------------------
(***************************************************************************)
(* The inductive invariant.  Most of it speaks of Settled, the machine as  *)
(* it is once the lamp task has caught up, so the first lemmas say what    *)
(* becomes of Settled in each kind of step.                                *)
(***************************************************************************)

\* The machine the lamp task is about to reach is a machine.
LEMMA SettledType ==
  ASSUME TypeOK
  PROVE  Settled \in Machines
  BY ApplyType DEF Settled, TypeOK

\* What each kind of event does.
LEMMA ApplyCases ==
  ASSUME NEW m, NEW t
  PROVE  /\ Apply(m, Tick, t) = OnTick(m, t)
         /\ Apply(m, LinkDown, t) = OnLinkDown(m, t)
         /\ \A f : Apply(m, Fact(f), t) = OnFact(m, f, t)
  BY DEF Apply, Tick, LinkDown, Fact

\* A step that leaves machine, channel and clock alone leaves Settled alone.
LEMMA SettledKept ==
  ASSUME machine' = machine, events' = events, now' = now
  PROVE  Settled' = Settled
  BY DEF Settled

\* An event posted while the lamp task waits is the only one in the channel.
LEMMA SettledPosted ==
  ASSUME TypeOK, LampIdle, NEW e \in LampEvents, Post(e),
         machine' = machine, now' = now
  PROVE  /\ events' = <<e>>
         /\ Settled' = Apply(machine, e, now)
         /\ Settled = machine
<1>1. events' = <<e>>
  BY QueueAssumption DEF LampIdle, Post, TypeOK
<1>2. QED
  BY <1>1 DEF Settled, LampIdle

\* The lamp task's step reaches the settled machine and empties the channel.
LEMMA SettledReached ==
  ASSUME TypeOK, ChannelNeverFills, LampApply
  PROVE  events' = <<>> /\ machine' = Settled /\ Settled' = Settled
<1>1. events' = <<>>
  BY DEF LampApply, ChannelNeverFills, TypeOK
<1>2. machine' = Settled
  BY DEF LampApply, Settled
<1>3. QED
  BY <1>1, <1>2 DEF Settled

\* Taking an unread event that is no fact leaves the valid ones where they were.
LEMMA UnreadTail ==
  ASSUME TypeOK, inbox # <<>>, ~IsValid(Head(inbox)), inbox' = Tail(inbox),
         \A i \in 1..Len(inbox') : ~IsValid(inbox'[i])
  PROVE  \A i \in 1..Len(inbox) : ~IsValid(inbox[i])
<1> TAKE i \in 1..Len(inbox)
<1>1. CASE i = 1
  BY <1>1 DEF TypeOK
<1>2. CASE i # 1
  <2>1. i - 1 \in 1..Len(inbox') /\ inbox'[i - 1] = inbox[i]
    BY <1>2 DEF TypeOK
  <2>2. QED  BY <2>1
<1>3. QED  BY <1>1, <1>2

\* Dropping the head of a sequence that ends in something else keeps its end.
LEMMA TailLast ==
  ASSUME NEW S, NEW s \in Seq(S), s # <<>>, Head(s) # s[Len(s)]
  PROVE  Tail(s) # <<>> /\ Tail(s)[Len(Tail(s))] = s[Len(s)]
<1>1. Len(s) \in Nat /\ Len(s) > 1
  OBVIOUS
<1>2. Len(Tail(s)) = Len(s) - 1 /\ Tail(s) \in Seq(S)
  BY HeadTailProperties
<1>3. Len(s) - 1 \in 1..Len(Tail(s)) /\ (Len(s) - 1) + 1 = Len(s)
  BY <1>1, <1>2
<1>4. Tail(s)[Len(s) - 1] = s[Len(s)]
  BY <1>3, HeadTailProperties
<1>5. Tail(s)[Len(Tail(s))] = s[Len(s)]
  <2>1. Len(Tail(s)) = Len(s) - 1
    BY <1>2
  <2>2. QED  BY <1>4, <2>1, Zenon
<1>6. Tail(s) # <<>>
  <2>1. Tail(s) = <<>> => Len(Tail(s)) = 0
    BY EmptySeq, Zenon
  <2>2. Len(Tail(s)) # 0
    BY <1>1, <1>2
  <2>3. QED  BY <2>1, <2>2
<1>7. QED  BY <1>5, <1>6

\* The invariant holds initially, and is what a Reset brings back.
LEMMA LampInvInit ==
  ASSUME Init, TypeOK
  PROVE  LampInv
<1>1. Settled = NewMachine /\ Settled.fault
  BY DEF Init, Settled, NewMachine
<1>2. QED
  BY <1>1, TimeAssumption
  DEF Init, LampInv, ChannelNeverFills, BootOrder, SessionInv, ClockInv,
      FactNeedsSession, AcceptedFactHeld, BoundedStaleness, LeashInv, HeardInv,
      DrivenInv, NewMachine, TypeOK

\* The lamp task: its first poll, and the application of an event.
LEMMA LampTaskKeeps ==
  ASSUME LampInv, LampTask, TypeOK'
  PROVE  LampInv'
<1>1. CASE LampStart
  <2>1. Settled' = Settled
    BY <1>1, SettledKept DEF LampStart
  <2>2. DrivenInv'
    <3>1. now \in 0..now /\ tickDue <= now + TickPeriod
      BY DEF LampInv, ClockInv, TypeOK
    <3>2. pin' = Level(machine, now) /\ machine' = machine /\ now' = now
          /\ tickDue' = tickDue
      BY <1>1 DEF LampStart
    <3>3. QED  BY <3>1, <3>2 DEF DrivenInv
  <2>3. QED
    BY <1>1, <2>1, <2>2
    DEF LampStart, LampInv, ChannelNeverFills, BootOrder, SessionInv, ClockInv,
        FactNeedsSession, AcceptedFactHeld, BoundedStaleness, LeashInv,
        HeardInv, bleVars, airVars
<1>2. CASE LampApply
  <2>1. events' = <<>> /\ machine' = Settled /\ Settled' = Settled
    BY <1>2, SettledReached DEF LampInv
  <2>2. DrivenInv'
    <3>1. now \in 0..now /\ tickDue <= now + TickPeriod
      BY DEF LampInv, ClockInv, TypeOK
    <3>2. pin' = Level(machine', now) /\ now' = now /\ tickDue' = tickDue
      BY <1>2 DEF LampApply, Drive
    <3>3. QED  BY <3>1, <3>2 DEF DrivenInv
  <2>3. BoundedStaleness'
    <3>1. /\ now' = now
          /\ now <= tickDue + MaxStall
          /\ ~Settled.fault => tickDue < Settled.lastWrite + Leash + TickPeriod
      BY <1>2 DEF LampApply, LampInv, ClockInv, LeashInv
    <3>2. Settled.lastWrite \in Nat
      BY SettledType DEF Machines, LampInv
    <3>3. QED
      BY <2>1, <3>1, <3>2, TimeAssumption
      DEF BoundedStaleness, LampInv, TypeOK
  <2>4. QED
    BY <1>2, <2>1, <2>2, <2>3
    DEF LampApply, LampInv, ChannelNeverFills, BootOrder, SessionInv, ClockInv,
        FactNeedsSession, AcceptedFactHeld, LeashInv, HeardInv, bleVars, airVars
<1>3. QED  BY <1>1, <1>2 DEF LampTask

\* The fault timer: the tick it posts finds the leash intact or trips it.
LEMMA FaultTimerKeeps ==
  ASSUME LampInv, FaultTimer, TypeOK'
  PROVE  LampInv'
<1>1. /\ events' = <<Tick>>
      /\ Settled' = OnTick(machine, now)
      /\ Settled = machine
  BY SettledPosted, ApplyCases
  DEF FaultTimer, LampInv, LampEvents, lampVars
<1>2. machine \in Machines /\ now \in Nat /\ tickDue \in Nat
  BY DEF LampInv, TypeOK
<1>3. /\ Settled'.fact = Settled.fact /\ Settled'.live = Settled.live
      /\ Settled'.lastWrite = Settled.lastWrite
      /\ Settled.fault => Settled' = Settled
      /\ ~Settled.fault /\ Settled'.fault =>
           /\ Elapsed(now, Settled.lastWrite) >= Leash
           /\ Settled'.faultSince = now
      /\ ~Settled'.fault => ~Settled.fault
      /\ ~Settled'.fault /\ Settled.live => Elapsed(now, Settled.lastWrite) < Leash
      /\ Settled'.faultSince = Settled.faultSince \/ Settled'.faultSince = now
  BY <1>1, <1>2, TimeAssumption DEF OnTick, LeashExpired, Machines, Elapsed
<1>4. ClockInv'
  BY <1>1, <1>2, <1>3, TimeAssumption
  DEF FaultTimer, LampInv, ClockInv, airVars
<1>5. LeashInv'
  <2>1. ~Settled'.fault => Settled.live /\ Elapsed(now, Settled.lastWrite) < Leash
    BY <1>3 DEF LampInv, LeashInv
  <2>2. tickDue' = now + TickPeriod /\ Settled.lastWrite <= now
    BY DEF FaultTimer, LampInv, ClockInv
  <2>3. QED
    BY <1>1, <1>2, <1>3, <2>1, <2>2, TimeAssumption
    DEF LeashInv, Elapsed, Machines
<1>6. HeardInv'
  <2> SUFFICES ASSUME steady, accepted # NoFact PROVE ~Settled'.fault
    BY <1>3 DEF FaultTimer, LampInv, HeardInv, airVars
  <2>1. ~Settled.fault /\ pc = "serve"
    BY DEF LampInv, HeardInv, SessionInv
  <2>2. now < Settled.lastWrite + Leash
    <3>1. CASE inbox # <<>>
      BY <3>1, <1>1, <1>2, MarginAssumption, TimeAssumption
      DEF LampInv, HeardInv, ClockInv, TypeOK, Machines
    <3>2. CASE inbox = <<>>
      <4>1. link /\ lastHeard <= Settled.lastWrite
        BY <2>1, <3>2 DEF LampInv, SessionInv, HeardInv
      <4>2. now <= lastHeard + MaxGap
        BY <4>1 DEF LampInv, ClockInv
      <4>3. QED
        BY <1>1, <1>2, <4>1, <4>2, MarginAssumption, TimeAssumption
        DEF LampInv, TypeOK, Machines
    <3>3. QED  BY <3>1, <3>2
  <2>3. Elapsed(now, Settled.lastWrite) < Leash
    BY <1>1, <1>2, <2>2, MarginAssumption, TimeAssumption DEF Elapsed, Machines
  <2>4. QED
    BY <1>1, <1>2, <1>3, <2>1, <2>3, TimeAssumption DEF Elapsed, Machines
<1>7. FactNeedsSession' /\ AcceptedFactHeld'
  <2>1. FactNeedsSession'
    BY <1>3 DEF FaultTimer, LampInv, FactNeedsSession, bleVars
  <2>2. AcceptedFactHeld'
    <3> SUFFICES ASSUME accepted # NoFact, Settled'.fault
                 PROVE  Elapsed(Settled'.faultSince, Settled.lastWrite) >= Leash
      BY <1>3 DEF FaultTimer, LampInv, AcceptedFactHeld
    <3>1. CASE Settled.fault
      BY <1>3, <3>1 DEF LampInv, AcceptedFactHeld
    <3>2. CASE ~Settled.fault
      BY <1>3, <3>2
    <3>3. QED  BY <3>1, <3>2
  <2>3. QED  BY <2>1, <2>2
<1>8. QED
  BY <1>1, <1>4, <1>5, <1>6, <1>7
  DEF FaultTimer, LampIdle, LampInv, ChannelNeverFills, BootOrder, SessionInv,
      BoundedStaleness, DrivenInv, lampVars, bleVars, airVars

\* Steps of peripheral_task that only move its control point.
LEMMA MovesKeep ==
  ASSUME LampInv, TypeOK',
         \/ SetupFails \/ SetupDone \/ AdvertiseOk \/ AdvertiseErr
         \/ BackoffOver \/ AttachOk
  PROVE  LampInv'
<1>1. /\ UNCHANGED <<now, lampVars, events, tickDue, airVars, accepted>>
      /\ ready /\ pc # "serve"
      /\ pc' \in {"attach", "serve"} => pc = "attach"
  BY DEF SetupFails, SetupDone, AdvertiseOk, AdvertiseErr, BackoffOver,
         AttachOk, LampIdle
<1>2. Settled' = Settled
  BY <1>1, SettledKept DEF lampVars
<1>3. accepted = NoFact /\ Settled.fault
  BY <1>1 DEF LampInv, SessionInv, FactNeedsSession
<1>4. SessionInv' /\ FactNeedsSession'
  <2>1. SessionInv'
    <3>1. accepted' = NoFact /\ inbox' = inbox /\ link' = link
      BY <1>1, <1>3 DEF airVars
    <3>2. ASSUME pc' \in {"attach", "serve"}, ~link'
          PROVE  inbox # <<>> /\ inbox[Len(inbox)] = Disconnected
      BY <1>1, <3>1, <3>2 DEF LampInv, SessionInv
    <3>3. QED  BY <3>1, <3>2, Zenon DEF SessionInv
  <2>2. FactNeedsSession'
    BY <1>2, <1>3 DEF FactNeedsSession
  <2>3. QED  BY <2>1, <2>2
<1>5. QED
  BY <1>1, <1>2, <1>3, <1>4
  DEF LampInv, ChannelNeverFills, BootOrder, ClockInv, AcceptedFactHeld,
      BoundedStaleness, LeashInv, HeardInv, DrivenInv, lampVars, airVars

\* Steps of peripheral_task that give up a connection and tell the lamp.
LEMMA LinkDownKeeps ==
  ASSUME LampInv, TypeOK', AcceptErr \/ AttachErr \/ ServeDisconnected
  PROVE  LampInv'
<1>1. /\ LampIdle /\ Post(LinkDown) /\ machine' = machine /\ now' = now
      /\ tickDue' = tickDue /\ lastHeard' = lastHeard
      /\ ready' = ready /\ steady' = steady /\ inboxSince' = inboxSince
      /\ pc' = "advertise"
      /\ link' = link \/ ~link'
      /\ inbox' = inbox \/ inbox' = <<>>
  BY DEF AcceptErr, AttachErr, ServeDisconnected, Leave, lampVars, airVars
<1>2. accepted' = NoFact
  BY DEF AcceptErr, AttachErr, ServeDisconnected, Leave, LampInv, SessionInv
<1>3. /\ events' = <<LinkDown>>
      /\ Settled' = OnLinkDown(machine, now)
      /\ Settled = machine
  BY <1>1, SettledPosted, ApplyCases DEF LampInv, LampEvents
<1>4. machine \in Machines /\ now \in Nat
  BY DEF LampInv, TypeOK
<1>5. /\ Settled'.fault /\ Settled'.faultSince = now
      /\ Settled'.lastWrite = machine.lastWrite
  BY <1>3, <1>4 DEF OnLinkDown, Machines
<1>6. ClockInv'
  BY <1>1, <1>3, <1>4, <1>5 DEF LampInv, ClockInv
<1>7. QED
  BY <1>1, <1>2, <1>3, <1>5, <1>6
  DEF LampIdle, LampInv, ChannelNeverFills, BootOrder, SessionInv,
      FactNeedsSession, AcceptedFactHeld, BoundedStaleness, LeashInv, HeardInv,
      DrivenInv

\* A new connection starts with an empty inbox and no fact.
LEMMA AcceptKeeps ==
  ASSUME LampInv, AcceptOk, TypeOK'
  PROVE  LampInv'
<1>1. Settled' = Settled
  BY SettledKept DEF AcceptOk, lampVars
<1>2. accepted' = NoFact /\ Settled.fault /\ ready
  BY DEF AcceptOk, LampIdle, LampInv, SessionInv, FactNeedsSession
<1>3. ClockInv'
  BY <1>1, TimeAssumption DEF AcceptOk, LampInv, ClockInv, TypeOK, lampVars
<1>4. QED
  BY <1>1, <1>2, <1>3
  DEF AcceptOk, LampInv, ChannelNeverFills, BootOrder, SessionInv,
      FactNeedsSession, AcceptedFactHeld, BoundedStaleness, LeashInv, HeardInv,
      DrivenInv, lampVars

\* An accepted fact is on its way to the lamp.
LEMMA ServeFactKeeps ==
  ASSUME LampInv, ServeFact, TypeOK'
  PROVE  LampInv'
<1> DEFINE f == ValidateWrite(Head(inbox).data[1], Head(inbox).data[2])
<1>1. f \in Facts /\ Fact(f) \in LampEvents
  BY DEF ServeFact, IsValid, ValidateWrite, Facts, LampEvents
<1>2. /\ Post(Fact(f)) /\ accepted' = f /\ LampIdle /\ inbox # <<>>
      /\ pc = "serve" /\ inbox' = Tail(inbox)
      /\ UNCHANGED <<now, lampVars, tickDue, bleVars, link, inboxSince,
                     lastHeard, steady>>
      /\ IsValid(Head(inbox))
  BY DEF ServeFact
<1> HIDE DEF f
<1>3. /\ events' = <<Fact(f)>>
      /\ Settled' = OnFact(machine, f, now)
      /\ Settled = machine
  BY <1>1, <1>2, SettledPosted, ApplyCases DEF LampInv, lampVars
<1>4. /\ machine \in Machines /\ now \in Nat /\ tickDue \in Nat
      /\ inbox \in Seq(GattEvents \cup {Disconnected})
      /\ lastHeard \in Nat /\ inboxSince \in Nat
  BY DEF LampInv, TypeOK
<1>5. /\ ~Settled'.fault /\ Settled'.live
      /\ Settled'.fact = f /\ Settled'.lastWrite = now
      /\ Settled'.faultSince = machine.faultSince
  BY <1>3, <1>4 DEF OnFact, Machines
<1>6. ClockInv'
  <2>1. inbox' # <<>> => inbox # <<>>
    BY <1>2
  <2>2. QED
    BY <1>2, <1>3, <1>4, <1>5, <2>1 DEF LampInv, ClockInv
<1>7. LeashInv'
  BY <1>2, <1>4, <1>5, MarginAssumption, TimeAssumption
  DEF LampInv, ClockInv, LeashInv
<1>8. HeardInv'
  BY <1>2, <1>4, <1>5, TimeAssumption DEF LampInv, ClockInv, HeardInv
<1>9. SessionInv'
  <2>1. pc' = "serve"
    BY <1>2 DEF bleVars
  <2>2. ASSUME ~link' PROVE inbox' # <<>> /\ inbox'[Len(inbox')] = Disconnected
    <3>1. inbox[Len(inbox)] = Disconnected /\ Head(inbox) # Disconnected
      BY <1>2, <2>2 DEF LampInv, SessionInv, IsValid, Disconnected
    <3>2. QED  BY <1>2, <1>4, <3>1, TailLast
  <2>3. QED  BY <2>1, <2>2 DEF SessionInv
<1>10. QED
  BY <1>1, <1>2, <1>3, <1>5, <1>6, <1>7, <1>8, <1>9
  DEF LampIdle, LampInv, ChannelNeverFills, BootOrder, FactNeedsSession,
      AcceptedFactHeld, BoundedStaleness, DrivenInv, lampVars, bleVars

\* An unread event is dropped: a fact that could not be accepted, or no fact.
LEMMA DropKeeps ==
  ASSUME LampInv, ServeFactErr \/ ServeIgnored, TypeOK'
  PROVE  LampInv'
<1>1. /\ UNCHANGED <<now, lampVars, events, tickDue, bleVars, link, inboxSince,
                     lastHeard, accepted>>
      /\ steady' => steady /\ ~IsValid(Head(inbox))
      /\ Head(inbox) # Disconnected /\ inbox # <<>> /\ inbox' = Tail(inbox)
      /\ ready /\ pc = "serve"
  BY DEF ServeFactErr, ServeIgnored, LampIdle, IsValid, Disconnected
<1>2. Settled' = Settled
  BY <1>1, SettledKept DEF lampVars
<1>3. inbox \in Seq(GattEvents \cup {Disconnected})
  BY DEF LampInv, TypeOK
<1>4. SessionInv'
  <2>1. ASSUME ~link PROVE inbox' # <<>> /\ inbox'[Len(inbox')] = Disconnected
    <3>1. inbox[Len(inbox)] = Disconnected
      BY <1>1, <2>1 DEF LampInv, SessionInv
    <3>2. QED  BY <1>1, <1>3, <3>1, TailLast
  <2>2. QED  BY <1>1, <2>1 DEF LampInv, SessionInv, bleVars
<1>5. HeardInv'
  <2> SUFFICES ASSUME steady', accepted # NoFact
               PROVE  /\ ~Settled.fault
                      /\ inbox # <<>> => inboxSince <= Settled.lastWrite + MaxGap
                      /\ (\A i \in 1..Len(inbox') : ~IsValid(inbox'[i])) =>
                           lastHeard <= Settled.lastWrite
    BY <1>1, <1>2 DEF HeardInv
  <2>1. (\A i \in 1..Len(inbox') : ~IsValid(inbox'[i])) =>
           \A i \in 1..Len(inbox) : ~IsValid(inbox[i])
    BY <1>1, UnreadTail DEF LampInv
  <2>2. steady
    BY <1>1
  <2>3. QED  BY <1>1, <2>1, <2>2 DEF LampInv, HeardInv
<1>6. ClockInv'
  BY <1>1, <1>2 DEF LampInv, ClockInv, lampVars
<1>7. QED
  BY <1>1, <1>2, <1>4, <1>5, <1>6
  DEF LampInv, ChannelNeverFills, BootOrder, FactNeedsSession,
      AcceptedFactHeld, BoundedStaleness, LeashInv, DrivenInv, lampVars, bleVars

\* An event joins the inbox: from a central, or the loss of the link.
LEMMA InboxKeeps ==
  ASSUME LampInv, TypeOK', LinkLost \/ (\E e \in Arrivals : Arrive(e))
  PROVE  LampInv'
<1>1. PICK e \in GattEvents \cup {Disconnected} :
        /\ inbox' = Append(inbox, e)
        /\ ~link' => ~IsValid(e) /\ e = Disconnected
        /\ lastHeard' = IF IsValid(e) THEN now ELSE lastHeard
  <2>1. CASE LinkLost
    <3>1. ~IsValid(Disconnected)
      BY DEF IsValid, Disconnected
    <3>2. QED  BY <2>1, <3>1 DEF LinkLost
  <2>2. CASE \E e \in Arrivals : Arrive(e)
    <3>1. PICK e \in Arrivals : Arrive(e)
      BY <2>2
    <3>2. link' /\ e \in GattEvents
      BY <3>1, ArrivalsAssumption DEF Arrive
    <3>3. QED  BY <3>1, <3>2 DEF Arrive
  <2>3. QED  BY <2>1, <2>2
<1>2. /\ link
      /\ inboxSince' = IF inbox = <<>> THEN now ELSE inboxSince
      /\ UNCHANGED <<now, lampVars, events, tickDue, bleVars, steady, accepted>>
  BY DEF LinkLost, Arrive
<1>3. Settled' = Settled
  BY <1>2, SettledKept DEF lampVars
<1>4. /\ inbox \in Seq(GattEvents \cup {Disconnected})
      /\ now \in Nat /\ inboxSince \in Nat /\ lastHeard \in Nat
      /\ Settled.lastWrite \in Nat
  BY SettledType DEF LampInv, TypeOK, Machines
<1>5. /\ Len(inbox') = Len(inbox) + 1 /\ inbox' # <<>>
      /\ inbox'[Len(inbox')] = e
      /\ \A i \in 1..Len(inbox) : inbox'[i] = inbox[i] /\ i \in 1..Len(inbox')
  BY <1>1, <1>4
<1>6. SessionInv'
  <2>1. ASSUME ~link' PROVE inbox'[Len(inbox')] = Disconnected
    BY <1>1, <1>5, <2>1
  <2>2. QED  BY <1>2, <1>5, <2>1 DEF LampInv, SessionInv, bleVars
<1>7. ClockInv'
  BY <1>1, <1>2, <1>3, <1>4, TimeAssumption DEF LampInv, ClockInv, lampVars
<1>8. HeardInv'
  <2> SUFFICES ASSUME steady, accepted # NoFact
               PROVE  /\ ~Settled.fault
                      /\ inboxSince' <= Settled.lastWrite + MaxGap
                      /\ (\A i \in 1..Len(inbox') : ~IsValid(inbox'[i])) =>
                           lastHeard' <= Settled.lastWrite
    BY <1>2, <1>3 DEF HeardInv
  <2>1. /\ ~Settled.fault
        /\ inbox # <<>> => inboxSince <= Settled.lastWrite + MaxGap
        /\ (\A i \in 1..Len(inbox) : ~IsValid(inbox[i])) =>
             lastHeard <= Settled.lastWrite
    BY DEF LampInv, HeardInv
  <2>2. inboxSince' <= Settled.lastWrite + MaxGap
    <3>1. CASE inbox # <<>>
      BY <1>2, <2>1, <3>1
    <3>2. CASE inbox = <<>>
      <4>1. lastHeard <= Settled.lastWrite
        BY <2>1, <3>2
      <4>2. now <= lastHeard + MaxGap
        BY <1>2 DEF LampInv, ClockInv
      <4>3. QED  BY <1>2, <1>4, <3>2, <4>1, <4>2, TimeAssumption
    <3>3. QED  BY <3>1, <3>2
  <2>3. ASSUME \A i \in 1..Len(inbox') : ~IsValid(inbox'[i])
        PROVE  lastHeard' <= Settled.lastWrite
    <3>1. ~IsValid(e)
      <4>1. Len(inbox') \in 1..Len(inbox')
        BY <1>4, <1>5
      <4>2. QED  BY <1>5, <2>3, <4>1
    <3>2. \A i \in 1..Len(inbox) : ~IsValid(inbox[i])
      BY <1>5, <2>3
    <3>3. QED  BY <1>1, <2>1, <3>1, <3>2
  <2>4. QED  BY <2>1, <2>2, <2>3
<1>9. QED
  BY <1>2, <1>3, <1>6, <1>7, <1>8
  DEF LampInv, ChannelNeverFills, BootOrder, FactNeedsSession,
      AcceptedFactHeld, BoundedStaleness, LeashInv, DrivenInv, lampVars, bleVars

\* The central falls silent.
LEMMA CentralHangsKeeps ==
  ASSUME LampInv, TypeOK', CentralHangs
  PROVE  LampInv'
<1>1. Settled' = Settled
  BY SettledKept DEF CentralHangs, lampVars
<1>2. QED
  BY <1>1
  DEF CentralHangs, LampInv, ChannelNeverFills, BootOrder, SessionInv,
      ClockInv, FactNeedsSession, AcceptedFactHeld, BoundedStaleness, LeashInv,
      HeardInv, DrivenInv, lampVars, bleVars

\* Time passes: no deadline is missed and no fact grows too old.
LEMMA AdvanceKeeps ==
  ASSUME LampInv, TypeOK', Advance
  PROVE  LampInv'
<1>1. /\ events = <<>> /\ ready /\ now' = now + 1
      /\ now < tickDue + MaxStall
      /\ inbox # <<>> => now < inboxSince + MaxStall
      /\ link /\ steady => now < lastHeard + MaxGap
      /\ UNCHANGED <<lampVars, events, tickDue, bleVars, airVars, accepted>>
  BY DEF Advance, LampIdle
<1>2. Settled' = Settled /\ Settled = machine
  BY <1>1 DEF Settled, lampVars
<1>3. /\ now \in Nat /\ tickDue \in Nat /\ inboxSince \in Nat
      /\ lastHeard \in Nat /\ machine \in Machines
  BY DEF LampInv, TypeOK
<1>4. ClockInv'
  BY <1>1, <1>2, <1>3, TimeAssumption
  DEF LampInv, ClockInv, airVars, Machines
<1>5. BoundedStaleness'
  BY <1>1, <1>2, <1>3, TimeAssumption
  DEF LampInv, LeashInv, BoundedStaleness, lampVars, Machines
<1>6. DrivenInv'
  <2>1. PICK t \in 0..now : tickDue <= t + TickPeriod /\ pin = Level(machine, t)
    BY <1>1 DEF LampInv, DrivenInv
  <2>2. t \in 0..now'
    BY <1>1, <1>3, <2>1
  <2>3. pin' = Level(machine', t) /\ tickDue' = tickDue
    BY <1>1, <2>1 DEF lampVars
  <2>4. QED  BY <2>1, <2>2, <2>3 DEF DrivenInv
<1>7. QED
  BY <1>1, <1>2, <1>4, <1>5, <1>6
  DEF LampInv, ChannelNeverFills, BootOrder, SessionInv, FactNeedsSession,
      AcceptedFactHeld, LeashInv, HeardInv, lampVars, bleVars, airVars

\* A restart brings the invariant back whatever it interrupts.
LEMMA ResetKeeps ==
  ASSUME TypeOK', Reset
  PROVE  LampInv'
<1>1. Settled' = NewMachine /\ Settled'.fault
  BY DEF Reset, Settled, NewMachine
<1>2. QED
  BY <1>1, TimeAssumption
  DEF Reset, LampInv, ChannelNeverFills, BootOrder, SessionInv, ClockInv,
      FactNeedsSession, AcceptedFactHeld, BoundedStaleness, LeashInv, HeardInv,
      DrivenInv, NewMachine, TypeOK

\* Every step keeps the invariant.
LEMMA LampInvStep ==
  ASSUME LampInv, [Next]_vars
  PROVE  LampInv'
<1>1. TypeOK'
  BY TypeStep DEF LampInv
<1>2. CASE UNCHANGED vars
  <2>1. Settled' = Settled
    BY <1>2, SettledKept DEF vars, lampVars
  <2>2. QED
    BY <1>1, <1>2, <2>1
    DEF vars, LampInv, ChannelNeverFills, BootOrder, SessionInv, ClockInv,
        FactNeedsSession, AcceptedFactHeld, BoundedStaleness, LeashInv,
        HeardInv, DrivenInv, lampVars, bleVars, airVars
<1>3. CASE PeripheralTask
  BY <1>1, <1>3, MovesKeep, LinkDownKeeps, AcceptKeeps, ServeFactKeeps, DropKeeps
  DEF PeripheralTask
<1>4. QED
  BY <1>1, <1>2, <1>3, LampTaskKeeps, FaultTimerKeeps, InboxKeeps,
     CentralHangsKeeps, AdvanceKeeps, ResetKeeps DEF Next, Outside

\* The inductive invariant holds in every reachable state.
THEOREM LampInvariant == Spec => []LampInv
<1>1. Init => LampInv
  BY TypeInit, LampInvInit
<1>2. LampInv /\ [Next]_vars => LampInv'
  BY LampInvStep
<1>3. QED  BY <1>1, <1>2, PTL DEF Spec

\* No posted event is ever dropped for want of room: the channel holds one.
THEOREM ChannelNeverOverflows == Spec => []ChannelNeverFills
<1>1. LampInv => ChannelNeverFills
  BY DEF LampInv
<1>2. QED  BY <1>1, LampInvariant, PTL

\* A fact is on display only while the connection that stated it is served.
THEOREM FactsNeedASession == Spec => []FactNeedsSession
<1>1. LampInv => FactNeedsSession
  BY DEF LampInv
<1>2. QED  BY <1>1, LampInvariant, PTL

\* An accepted fact reaches the lamp and only the leash takes it away.
THEOREM AcceptedFactsHeld == Spec => []AcceptedFactHeld
<1>1. LampInv => AcceptedFactHeld
  BY DEF LampInv
<1>2. QED  BY <1>1, LampInvariant, PTL

\* No fact on display is older than leash, tick period and stall together.
THEOREM StalenessIsBounded == Spec => []BoundedStaleness
<1>1. LampInv => BoundedStaleness
  BY DEF LampInv
<1>2. QED  BY <1>1, LampInvariant, PTL

\* A healthy central never sees its fact replaced by the fault pattern.
THEOREM NoFalseAlarms == Spec => []NoFalseAlarm
<1>1. LampInv => NoFalseAlarm
  BY DEF LampInv, HeardInv, NoFalseAlarm
<1>2. QED  BY <1>1, LampInvariant, PTL

\* The pin is never further behind the machine than a tick and a stall.
THEOREM PinFollows == Spec => []PinFollowsMachine
<1>1. LampInv => PinFollowsMachine
  <2> SUFFICES ASSUME LampInv, ready, events = <<>>
               PROVE  \E t \in 0..now : /\ now - t <= TickPeriod + MaxStall
                                        /\ pin = Level(machine, t)
    BY DEF PinFollowsMachine
  <2>1. PICK t \in 0..now : tickDue <= t + TickPeriod /\ pin = Level(machine, t)
    BY DEF LampInv, DrivenInv
  <2>2. now - t <= TickPeriod + MaxStall
    BY <2>1, TimeAssumption DEF LampInv, ClockInv, TypeOK
  <2>3. QED  BY <2>1, <2>2
<1>2. QED  BY <1>1, LampInvariant, PTL

-----------------------------------------------------------------------------
(***************************************************************************)
(* LampControl implements BeamLamp.                                        *)
(***************************************************************************)
\* A step that leaves both the control point and Settled alone is a stutter.
LEMMA StepStutters ==
  ASSUME pc' = pc, Settled' = Settled
  PROVE  UNCHANGED Promise!vars
  BY DEF Promise!vars

\* Outside the event loop the lamp shows no fact, before and after the step.
LEMMA UnknownOutside ==
  ASSUME LampInv, pc # "serve"
  PROVE  Settled.fault
  BY DEF LampInv, FactNeedsSession

\* Every step of the control path is a step the abstract lamp may take.
LEMMA PromiseStep ==
  ASSUME LampInv, [Next]_vars
  PROVE  [Promise!Next]_(Promise!vars)
<1>0. LampInv'
  BY LampInvStep
<1>1. CASE UNCHANGED vars
  BY <1>1, SettledKept, StepStutters DEF vars, lampVars, bleVars
<1>2. CASE LampTask
  <2>1. pc' = pc
    BY <1>2 DEF LampTask, LampStart, LampApply, bleVars
  <2>2. Settled' = Settled
    <3>1. CASE LampStart
      BY <3>1, SettledKept DEF LampStart
    <3>2. CASE LampApply
      BY <3>2, SettledReached DEF LampInv
    <3>3. QED  BY <1>2, <3>1, <3>2 DEF LampTask
  <2>3. QED  BY <2>1, <2>2, StepStutters
<1>3. CASE FaultTimer
  <2>1. pc' = pc
    BY <1>3 DEF FaultTimer, bleVars
  <2>2. Settled = machine /\ Settled' = OnTick(machine, now)
    BY <1>3, SettledPosted, ApplyCases
    DEF FaultTimer, LampInv, LampEvents, lampVars
  <2>3. CASE Settled' = Settled
    BY <2>1, <2>3, StepStutters
  <2>4. CASE Settled' # Settled
    <3>1. ~Settled.fault /\ Settled'.fault
      BY <2>2, <2>4 DEF OnTick, LampInv, TypeOK, Machines
    <3>2. pc = "serve"
      BY <3>1 DEF LampInv, FactNeedsSession
    <3>3. Promise!Doubt
      BY <2>1, <3>1, <3>2 DEF Promise!Doubt
    <3>4. QED  BY <3>3 DEF Promise!Next
  <2>5. QED  BY <2>3, <2>4
<1>4. CASE SetupFails \/ SetupDone \/ AdvertiseOk \/ AdvertiseErr
           \/ BackoffOver \/ AttachOk \/ AcceptOk
  <2>1. pc # "serve" /\ Settled' = Settled
    BY <1>4, SettledKept
    DEF SetupFails, SetupDone, AdvertiseOk, AdvertiseErr, BackoffOver,
        AttachOk, AcceptOk, lampVars
  <2>2. CASE pc' = "serve"
    <3>1. Promise!Open
      BY <2>1, <2>2 DEF Promise!Open
    <3>2. QED  BY <3>1 DEF Promise!Next
  <2>3. CASE pc' # "serve"
    BY <2>1, <2>3 DEF Promise!vars
  <2>4. QED  BY <2>2, <2>3
<1>5. CASE AcceptErr \/ AttachErr \/ ServeDisconnected \/ Reset
  <2>1. pc' # "serve"
    BY <1>5 DEF AcceptErr, AttachErr, ServeDisconnected, Leave, Reset
  <2>2. Settled'.fault
    BY <1>0, <2>1 DEF LampInv, FactNeedsSession
  <2>3. Promise!Close
    BY <2>1, <2>2 DEF Promise!Close
  <2>4. QED  BY <2>3 DEF Promise!Next
<1>6. CASE ServeFact
  <2>1. pc = "serve" /\ pc' = "serve" /\ accepted' \in Facts
    BY <1>6 DEF ServeFact, IsValid, ValidateWrite, Facts, bleVars
  <2>2. Settled'.fact = accepted' /\ ~Settled'.fault
    <3>1. PICK f \in Facts : Post(Fact(f)) /\ accepted' = f
      BY <1>6, <2>1 DEF ServeFact
    <3>2. Settled' = OnFact(machine, f, now)
      BY <1>6, <3>1, SettledPosted, ApplyCases
      DEF ServeFact, LampInv, LampEvents, lampVars
    <3>3. QED  BY <3>1, <3>2 DEF OnFact, LampInv, TypeOK, Machines
  <2>3. Promise!State(accepted')
    BY <2>1, <2>2 DEF Promise!State
  <2>4. QED  BY <2>1, <2>3 DEF Promise!Next
<1>7. CASE ServeFactErr \/ ServeIgnored \/ Outside \/ Advance
  <2>1. pc' = pc /\ machine' = machine /\ events' = events
    BY <1>7 DEF ServeFactErr, ServeIgnored, Outside, Arrive, LinkLost,
                CentralHangs, Advance, lampVars, bleVars
  <2>2. Settled' = Settled
    <3>1. CASE now' = now
      BY <2>1, <3>1, SettledKept
    <3>2. CASE Advance
      BY <2>1, <3>2 DEF Advance, LampIdle, Settled
    <3>3. now' = now \/ Advance
      BY <1>7 DEF ServeFactErr, ServeIgnored, Outside, Arrive, LinkLost,
                  CentralHangs
    <3>4. QED  BY <3>1, <3>2, <3>3
  <2>3. QED  BY <2>1, <2>2, StepStutters
<1>8. QED
  BY <1>1, <1>2, <1>3, <1>4, <1>5, <1>6, <1>7 DEF Next, PeripheralTask

\* The control path implements the abstract lamp: whatever its queues, tasks
\* and delays do, it commits to a fact only within the session that stated it.
THEOREM LampKeepsPromise == Spec => KeepsPromise
<1>1. Init => Promise!Init
  BY DEF Init, Promise!Init, Settled, NewMachine
<1>2. LampInv /\ [Next]_vars => [Promise!Next]_(Promise!vars)
  BY PromiseStep
<1>3. QED
  BY <1>1, <1>2, LampInvariant, PTL DEF Spec, KeepsPromise, Promise!Spec
=============================================================================
