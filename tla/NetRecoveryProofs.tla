------------------------- MODULE NetRecoveryProofs -------------------------
(***************************************************************************)
(* Proofs about NetRecovery, for every timeout, number of retries, backoff *)
(* and threshold the assumptions allow.                                    *)
(***************************************************************************)
EXTENDS NetRecovery, TLAPS

\* The initial state is well typed.
LEMMA TypeInit ==
  ASSUME Init
  PROVE  TypeOK
<1>1. /\ ap \in BOOLEAN /\ dhcp \in BOOLEAN /\ traffic \in BOOLEAN
      /\ skipWait \in BOOLEAN /\ associated \in BOOLEAN /\ rejoin \in BOOLEAN
      /\ link \in BOOLEAN /\ config \in BOOLEAN
      /\ connected \in BOOLEAN /\ cleanSince \in BOOLEAN
  BY Zenon DEF Init, WifiInit, TelInit
<1>2. QED
  BY <1>1, WifiAssumption, TelemetryAssumption DEF Init, WifiInit, TelInit, TypeOK

\* What a supervisor's step may spend keeps outage in its range.
LEMMA SpendType ==
  ASSUME TypeOK, NEW t \in Nat, Spend(t)
  PROVE  outage' \in 0..OutageCap
  BY WifiAssumption DEF TypeOK, Spend, AtMost

\* The sleep is a number of seconds.
LEMMA SleepType == ASSUME TypeOK PROVE Sleep \in Nat
  BY WifiAssumption DEF TypeOK, Sleep

\* Steps of the supervisor keep the state well typed.
LEMMA SupervisorType ==
  ASSUME TypeOK, SupervisorStep
  PROVE  TypeOK'
<1> USE DEF withoutWifi, telVars, stackVars, envVars, supVars
<1>1. CASE LoopTop
  BY <1>1 DEF LoopTop, SupervisorStep, TypeOK
<1>2. CASE TakeControl
  BY <1>2 DEF TakeControl, SupervisorStep, TypeOK
<1>3. CASE JoinOk
  <2>1. outage' \in 0..OutageCap
    BY <1>3, SpendType, WifiAssumption DEF JoinOk
  <2>2. backoff' \in BackoffInitial..BackoffMax /\ dhcpTry' \in 0..DhcpRetries
    BY <1>3, WifiAssumption DEF JoinOk
  <2>3. QED  BY <1>3, <2>1, <2>2 DEF JoinOk, SupervisorStep, TypeOK
<1>4. CASE JoinFails
  <2>1. outage' \in 0..OutageCap
    BY <1>4, SpendType, WifiAssumption DEF JoinFails
  <2>2. QED  BY <1>4, <2>1 DEF JoinFails, SupervisorStep, TypeOK
<1>5. CASE DhcpUp
  <2>1. outage' \in 0..OutageCap /\ noIp' \in 0..(NoIpReset - 1)
    BY <1>5, WifiAssumption DEF DhcpUp, Rearm
  <2>2. QED  BY <1>5, <2>1 DEF DhcpUp, SupervisorStep, TypeOK
<1>6. CASE DhcpReissue
  <2>1. outage' \in 0..OutageCap
    BY <1>6, SpendType, WifiAssumption DEF DhcpReissue
  <2>2. dhcpTry' \in 0..DhcpRetries
    BY <1>6, WifiAssumption DEF DhcpReissue, TypeOK
  <2>3. QED  BY <1>6, <2>1, <2>2 DEF DhcpReissue, SupervisorStep, TypeOK
<1>7. CASE DhcpFails
  <2>1. outage' \in 0..OutageCap
    BY <1>7, SpendType, WifiAssumption DEF DhcpFails
  <2>2. QED  BY <1>7, <2>1 DEF DhcpFails, SupervisorStep, TypeOK
<1>8. CASE Leave
  <2>1. outage' \in 0..OutageCap
    BY <1>8, SpendType, WifiAssumption DEF Leave
  <2>2. link' \in BOOLEAN /\ config' \in BOOLEAN
    BY <1>8 DEF Leave, TypeOK
  <2>3. QED  BY <1>8, <2>1, <2>2 DEF Leave, SupervisorStep, TypeOK
<1>9. CASE LinkDownSeen
  BY <1>9 DEF LinkDownSeen, Dissociate, SupervisorStep, TypeOK
<1>10. CASE SleepOver
  <2>1. outage' \in 0..OutageCap
    BY <1>10, SpendType, SleepType DEF SleepOver
  <2>2. noIp' \in 0..(NoIpReset - 1)
    BY <1>10, SleepType, WifiAssumption DEF SleepOver, Recorded, TypeOK
  <2>3. backoff' \in BackoffInitial..BackoffMax
    BY <1>10, WifiAssumption DEF SleepOver, AtMost, TypeOK
  <2>4. QED
    BY <1>10, <2>1, <2>2, <2>3 DEF SleepOver, SupervisorStep, TypeOK
<1>11. QED
  BY <1>1, <1>2, <1>3, <1>4, <1>5, <1>6, <1>7, <1>8, <1>9, <1>10
  DEF SupervisorStep, Supervisor

\* So do the steps of the telemetry task.
LEMMA TelemetryType ==
  ASSUME TypeOK, TelemetryStep
  PROVE  TypeOK'
<1> USE DEF withoutTel, stackVars, envVars, supVars
<1>1. CASE AttemptStarts \/ HandshakeOk \/ SubscribeOver \/ TelSleepOver
  <2>1. CASE AttemptStarts  BY <2>1 DEF AttemptStarts, TelemetryStep, TypeOK
  <2>2. CASE HandshakeOk  BY <2>2 DEF HandshakeOk, TelemetryStep, TypeOK
  <2>3. CASE SubscribeOver  BY <2>3 DEF SubscribeOver, TelemetryStep, TypeOK
  <2>4. CASE TelSleepOver  BY <2>4 DEF TelSleepOver, TelemetryStep, TypeOK
  <2>5. QED  BY <1>1, <2>1, <2>2, <2>3, <2>4
<1>2. CASE SessionCloses
  <2>1. failures' \in 0..(RejoinAfterFailures - 1)
    BY <1>2, TelemetryAssumption DEF SessionCloses
  <2>2. rejoin' \in BOOLEAN /\ connected' \in BOOLEAN /\ cleanSince' \in BOOLEAN
    BY <1>2, Zenon DEF SessionCloses, ClearConnected, TypeOK
  <2>3. QED
    BY <1>2, <2>1, <2>2 DEF SessionCloses, TelemetryStep, TypeOK
<1>3. CASE AttemptFails
  <2>1. failures' \in 0..(RejoinAfterFailures - 1)
    BY <1>3, TelemetryAssumption DEF AttemptFails, RecordFailure, TypeOK
  <2>2. rejoin' \in BOOLEAN /\ cleanSince' \in BOOLEAN
    BY <1>3 DEF AttemptFails, RecordFailure, TypeOK
  <2>3. QED
    BY <1>3, <2>1, <2>2 DEF AttemptFails, ClearConnected, TelemetryStep, TypeOK
<1>4. QED
  BY <1>1, <1>2, <1>3 DEF TelemetryStep, Telemetry

\* Every step keeps the state well typed.
LEMMA TypeStep ==
  ASSUME TypeOK, [Next]_vars
  PROVE  TypeOK'
<1>1. CASE SupervisorStep  BY <1>1, SupervisorType
<1>2. CASE TelemetryStep  BY <1>2, TelemetryType
<1>3. CASE NoIpSysReset
  <2>1. /\ outage' \in 0..OutageCap /\ noIp' \in 0..(NoIpReset - 1)
        /\ backoff' \in BackoffInitial..BackoffMax /\ dhcpTry' \in 0..DhcpRetries
        /\ failures' \in 0..(RejoinAfterFailures - 1)
    BY <1>3, WifiAssumption, TelemetryAssumption DEF NoIpSysReset, WifiReset, TelReset
  <2>2. QED
    BY <1>3, <2>1 DEF NoIpSysReset, WifiReset, TelReset, TypeOK, envVars
<1>4. CASE BeaconStep
  <2>1. CASE BlinkStarts
    BY <1>4, <2>1
    DEF BeaconStep, BlinkStarts, TypeOK, supVars, stackVars, envVars, withoutWifi, telVars
  <2>2. CASE BlinkEnds
    BY <1>4, <2>2
    DEF BeaconStep, BlinkEnds, TypeOK, supVars, stackVars, envVars, withoutWifi, telVars
  <2>3. QED  BY <1>4, <2>1, <2>2 DEF BeaconStep, Beacon
<1>5. CASE AirStep
  <2> USE DEF supVars, stackVars, envVars, withoutWifi, telVars
  <2>1. CASE LeaseGranted  BY <1>5, <2>1 DEF AirStep, LeaseGranted, TypeOK
  <2>2. CASE LeaseLost \/ LinkDrops
    <3>1. link' \in BOOLEAN /\ config' \in BOOLEAN
      BY <2>2, Zenon DEF LeaseLost, LinkDrops, TypeOK
    <3>2. UNCHANGED <<supVars, rejoin, control, envVars, outage>>
      BY <2>2 DEF LeaseLost, LinkDrops
    <3>3. QED  BY <1>5, <3>1, <3>2 DEF AirStep, TypeOK
  <2>3. CASE AirChanges
    <3>1. ap' \in BOOLEAN /\ dhcp' \in BOOLEAN
      BY <2>3, Zenon DEF AirChanges, TypeOK
    <3>2. QED  BY <1>5, <2>3, <3>1 DEF AirStep, AirChanges, TypeOK
  <2>4. QED  BY <1>5, <2>1, <2>2, <2>3 DEF AirStep, Air
<1>6. CASE TrafficStep
  BY <1>6
  DEF TrafficStep, TrafficChanges, TypeOK, wifiVars, supVars, stackVars, envVars, telVars
<1>7. CASE UNCHANGED vars
  BY <1>7
  DEF vars, TypeOK, wifiVars, supVars, stackVars, envVars, telVars
<1>8. QED
  BY <1>1, <1>2, <1>3, <1>4, <1>5, <1>6, <1>7 DEF Next

\* Every variable stays in its range.
THEOREM TypeCorrect == Spec => []TypeOK
  BY TypeInit, TypeStep, PTL DEF Spec

-----------------------------------------------------------------------------
(***************************************************************************)
(* The two cached claims.  Each is inductive given the types.              *)
(***************************************************************************)
\* Every step keeps ASSOCIATED within its await.
LEMMA AssociatedStep ==
  ASSUME TypeOK, AssociatedOnlyWhileLinked, [Next]_vars
  PROVE  AssociatedOnlyWhileLinked'
<1> USE DEF AssociatedOnlyWhileLinked
<1>1. CASE SupervisorStep
  BY <1>1
  DEF SupervisorStep, Supervisor, LoopTop, TakeControl, JoinOk, JoinFails, DhcpUp,
      DhcpReissue, DhcpFails, Leave, LinkDownSeen, Dissociate, SleepOver
<1>2. CASE NoIpSysReset
  BY <1>2 DEF NoIpSysReset, WifiReset
<1>3. CASE UNCHANGED supVars
  BY <1>3 DEF supVars
<1>4. QED
  BY <1>1, <1>2, <1>3
  DEF Next, TelemetryStep, withoutTel, BeaconStep, Beacon, BlinkStarts, BlinkEnds,
      AirStep, Air, LeaseGranted, LeaseLost, LinkDrops, AirChanges, TrafficStep,
      vars, wifiVars

\* Every step keeps CONNECTED within a session.
LEMMA ConnectedStep ==
  ASSUME TypeOK, ConnectedOnlyInSession, [Next]_vars
  PROVE  ConnectedOnlyInSession'
<1> USE DEF ConnectedOnlyInSession
<1>1. CASE TelemetryStep
  BY <1>1
  DEF TelemetryStep, Telemetry, AttemptStarts, HandshakeOk, SubscribeOver,
      SessionCloses, ClearConnected, AttemptFails, TelSleepOver
<1>2. CASE NoIpSysReset
  BY <1>2 DEF NoIpSysReset, TelReset
<1>3. CASE UNCHANGED telVars
  BY <1>3 DEF telVars
<1>4. QED
  BY <1>1, <1>2, <1>3
  DEF Next, SupervisorStep, BeaconStep, AirStep, withoutWifi, TrafficStep,
      TrafficChanges, vars

\* ASSOCIATED is raised only while the supervisor watches an established link.
THEOREM AssociatedHolds == Spec => []AssociatedOnlyWhileLinked
<1>1. Init => AssociatedOnlyWhileLinked
  BY DEF Init, WifiInit, AssociatedOnlyWhileLinked
<1>2. QED
  BY <1>1, AssociatedStep, TypeCorrect, PTL DEF Spec

\* CONNECTED is raised only in a session.
THEOREM ConnectedHolds == Spec => []ConnectedOnlyInSession
<1>1. Init => ConnectedOnlyInSession
  BY DEF Init, TelInit, ConnectedOnlyInSession
<1>2. QED
  BY <1>1, ConnectedStep, TypeCorrect, PTL DEF Spec

-----------------------------------------------------------------------------
(***************************************************************************)
(* The watchdog never runs ahead of the outage it measures, as far as the  *)
(* outage is counted.                                                      *)
(***************************************************************************)
NeverAhead == AtMost(noIp, OutageCap) <= outage

\* Time that passes unrecorded leaves the watchdog behind.
LEMMA SpendKeepsBehind ==
  ASSUME TypeOK, NeverAhead, NEW t \in Nat, Spend(t), noIp' = noIp
  PROVE  NeverAhead'
  BY WifiAssumption DEF TypeOK, NeverAhead, Spend, AtMost

\* Every step keeps the watchdog behind the outage.
LEMMA NeverAheadStep ==
  ASSUME TypeOK, NeverAhead, [Next]_vars
  PROVE  NeverAhead'
<1>1. CASE SupervisorStep
  <2>1. CASE LoopTop \/ TakeControl \/ LinkDownSeen
    BY <2>1 DEF LoopTop, TakeControl, LinkDownSeen, NeverAhead
  <2>2. CASE JoinOk \/ JoinFails \/ DhcpReissue \/ DhcpFails \/ Leave
    <3>1. noIp' = noIp
      BY <2>2 DEF JoinOk, JoinFails, DhcpReissue, DhcpFails, Leave
    <3>2. \E t \in Nat : Spend(t)
      <4>1. JoinTime \in Nat /\ DhcpTime \in Nat
        BY WifiAssumption
      <4>2. CASE DhcpReissue \/ DhcpFails
        BY <4>1, <4>2 DEF DhcpReissue, DhcpFails
      <4>3. CASE \E t \in 0..JoinTime : Spend(t)
        BY <4>1, <4>3
      <4>4. QED  BY <2>2, <4>2, <4>3 DEF JoinOk, JoinFails, Leave
    <3>3. QED  BY <3>1, <3>2, SpendKeepsBehind
  <2>3. CASE DhcpUp
    BY <2>3, WifiAssumption DEF DhcpUp, Rearm, NeverAhead, AtMost
  <2>4. CASE SleepOver
    BY <2>4, SleepType, WifiAssumption
    DEF SleepOver, Recorded, Spend, NeverAhead, AtMost, TypeOK
  <2>5. QED
    BY <1>1, <2>1, <2>2, <2>3, <2>4 DEF SupervisorStep, Supervisor
<1>2. CASE NoIpSysReset
  BY <1>2, WifiAssumption DEF NoIpSysReset, WifiReset, NeverAhead, AtMost
<1>3. CASE UNCHANGED <<noIp, outage>>
  BY <1>3 DEF NeverAhead
<1>4. QED
  BY <1>1, <1>2, <1>3
  DEF Next, TelemetryStep, withoutTel, BeaconStep, Beacon, BlinkStarts, BlinkEnds,
      AirStep, Air, LeaseGranted, LeaseLost, LinkDrops, AirChanges, TrafficStep,
      vars, wifiVars, supVars

\* A reset that is due is due: the threshold has passed without a lease, if
\* outages are counted at least that far.
LEMMA ResetIsDue ==
  ASSUME TypeOK, NeverAhead, NoIpReset <= OutageCap, NoIpSysReset
  PROVE  outage + Sleep >= NoIpReset
  BY SleepType, WifiAssumption
  DEF TypeOK, NeverAhead, AtMost, NoIpSysReset, NoIpResetDue, Recorded

\* The no-IP reset never strikes before its threshold has passed, whatever
\* leases came and went.
THEOREM ResetsAreNotEarly ==
  ASSUME NoIpReset <= OutageCap
  PROVE  Spec => NeverResetsEarly
<1>1. Init => NeverAhead
  BY WifiAssumption DEF Init, WifiInit, NeverAhead, AtMost
<1>2. TypeOK /\ NeverAhead => [NoIpSysReset => outage + Sleep >= NoIpReset]_vars
  BY ResetIsDue
<1>3. QED
  BY <1>1, <1>2, NeverAheadStep, TypeCorrect, PTL DEF Spec, NeverResetsEarly
=============================================================================
