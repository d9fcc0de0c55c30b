---------------------------- MODULE NetRecovery ----------------------------
(***************************************************************************)
(* Network recovery as a whole: the Wi-Fi supervisor, the telemetry task   *)
(* and the OTA task's beacon interleaved on the thread executor, the flag  *)
(* and the lock they share, the no-IP reset that restarts them, and a      *)
(* network that may fail and heal at any moment.                           *)
(***************************************************************************)
EXTENDS MqttTelemetry

vars == <<wifiVars, telVars, traffic>>
withoutTel == <<supVars, control, stackVars, envVars, outage>>
withoutWifi == <<telVars, traffic>>

Init == WifiInit /\ TelInit

SupervisorStep == Supervisor /\ UNCHANGED withoutWifi
TelemetryStep == Telemetry /\ UNCHANGED withoutTel
BeaconStep == Beacon /\ UNCHANGED withoutWifi
AirStep == Air /\ UNCHANGED withoutWifi
TrafficStep == TrafficChanges /\ UNCHANGED wifiVars

\* The supervisor resets the device: both tasks start over.
NoIpSysReset == NoIpResetDue /\ WifiReset /\ TelReset

Next ==
  \/ SupervisorStep \/ TelemetryStep \/ NoIpSysReset \/ BeaconStep \/ AirStep
  \/ TrafficStep

\* Each task keeps being polled.  The environment's part: a join that can
\* succeed again and again does, a reachable DHCP server answers a waiting
\* supervisor, a reachable broker completes a handshake, and the radio answers
\* every gpio_set of a blink.
Fairness ==
  /\ WF_vars(SupervisorStep \/ NoIpSysReset)
  /\ WF_vars(TelemetryStep)
  /\ SF_vars(JoinOk /\ UNCHANGED withoutWifi)
  /\ SF_vars(LeaseGranted /\ sup = "dhcp" /\ UNCHANGED withoutWifi)
  /\ WF_vars(LeaseGranted /\ UNCHANGED withoutWifi)
  /\ WF_vars(LinkDrops /\ UNCHANGED withoutWifi)
  /\ WF_vars(BlinkEnds /\ UNCHANGED withoutWifi)
  /\ SF_vars(HandshakeOk /\ UNCHANGED withoutTel)

Spec == Init /\ [][Next]_vars
FairSpec == Spec /\ Fairness

(***************************************************************************)
(* Properties.                                                             *)
(***************************************************************************)
\* Every variable stays in its range.
TypeOK ==
  /\ sup \in {"top", "wantJoin", "join", "dhcp", "linked", "wantLeave", "leave", "sleep"}
  /\ control \in {"free", "net", "beacon"}
  /\ control = "net" <=> sup \in {"join", "leave"}
  /\ skipWait \in BOOLEAN /\ associated \in BOOLEAN /\ rejoin \in BOOLEAN
  /\ backoff \in BackoffInitial..BackoffMax
  /\ dhcpTry \in 0..DhcpRetries
  /\ noIp \in 0..(NoIpReset - 1)
  /\ link \in BOOLEAN /\ config \in BOOLEAN
  /\ ap \in BOOLEAN /\ dhcp \in BOOLEAN /\ traffic \in BOOLEAN
  /\ outage \in 0..OutageCap
  /\ tel \in {"config", "connect", "subscribe", "steady", "sleep"}
  /\ failures \in 0..(RejoinAfterFailures - 1)
  /\ connected \in BOOLEAN /\ cleanSince \in BOOLEAN

\* The no-IP reset never strikes before the threshold has really passed
\* without a lease, whatever leases came and went before.
NeverResetsEarly == [][NoIpSysReset => outage + Sleep >= NoIpReset]_vars

\* ASSOCIATED is raised only while the supervisor watches an established link,
\* so no failed join, abandoned DHCP wait or restart leaves it standing.
AssociatedOnlyWhileLinked == associated => sup = "linked"

\* The gauge behind the probes never claims a session that has ended.
ConnectedOnlyInSession == connected => tel \in {"subscribe", "steady"}

\* Once the network is and stays healthy, telemetry is back again and again.
NetworkRecovers ==
  <>[](ap /\ dhcp /\ traffic) => []<>(connected /\ associated)

\* While the access point stays out of reach, the supervisor does not give up
\* in one of its waits: the no-IP reset comes, again and again.
ResetsWhileUnreachable == <>[]~ap => []<>(sup = "top" /\ outage = 0)

\* app/src/net.rs:46-48: a rejoin request forces an immediate rejoin, for dead
\* links "that link state alone never sees".
RejoinIsHonoured == rejoin ~> sup = "wantJoin"

\* The longest an iteration without a lease can take before its sleep.
Overhead == JoinTime + (DhcpRetries + 1) * DhcpTime + JoinTime

\* core/src/wifi.rs:14-17: the reset is due after NO_IP_RESET in total without
\* a lease, give or take the iteration it falls in.
ResetWhenDue == outage <= NoIpReset + Overhead + BackoffMax

\* core/src/wifi.rs:63, 83: the counter counts consecutive connect failures
\* and is reset by a clean connect.
RejoinNeedsConnectFailures == [][~rejoin /\ rejoin' => ~cleanSince]_vars
=============================================================================
