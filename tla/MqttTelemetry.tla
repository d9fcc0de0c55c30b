--------------------------- MODULE MqttTelemetry ---------------------------
(***************************************************************************)
(* The reconnect loop of app/src/telemetry.rs with the RejoinCounter of    *)
(* core/src/wifi.rs.  It shares with the supervisor the stack's            *)
(* configuration, on which it waits, and REJOIN_REQUESTED, which it sets.  *)
(* The broker and the path to it are external (traffic); what is published *)
(* and received in a session is left out.                                  *)
(***************************************************************************)
EXTENDS WifiSupervisor

CONSTANT RejoinAfterFailures

ASSUME TelemetryAssumption == RejoinAfterFailures \in Nat \ {0}

VARIABLES
  tel,        \* config, connect, subscribe, steady or sleep
  failures,   \* RejoinCounter.failures
  connected,  \* CONNECTED
  traffic,    \* packets reach the broker and come back (external)
  cleanSince  \* history: a connect succeeded since failures was last zero

telVars == <<tel, failures, connected, cleanSince>>

TelInit ==
  /\ tel = "config" /\ failures = 0 /\ connected = FALSE /\ cleanSince = FALSE
  /\ traffic \in BOOLEAN

\* wait_config_up() returns and connect_and_run begins.
AttemptStarts ==
  /\ tel = "config"
  /\ link /\ config
  /\ tel' = "connect"
  /\ connected' = FALSE
  /\ UNCHANGED <<failures, cleanSince, rejoin, traffic>>

\* TCP connect and MQTT handshake succeed; a fresh session subscribes first.
HandshakeOk ==
  /\ tel = "connect"
  /\ traffic /\ config
  /\ tel' \in {"subscribe", "steady"}
  /\ connected' = TRUE
  /\ cleanSince' = TRUE
  /\ UNCHANGED <<failures, rejoin, traffic>>

\* SUBACK received, or SUBSCRIBE_POLL_LIMIT polls without it.
SubscribeOver ==
  /\ tel = "subscribe"
  /\ tel' = "steady"
  /\ UNCHANGED <<failures, connected, cleanSince, rejoin, traffic>>

\* Mutant: CONNECTED survives the session.
LeaveConnected == connected' = connected

\* connect_and_run stores false on every way out.
ClearConnected == connected' = FALSE

\* The broker closes the connection: connect_and_run returns Ok.
SessionCloses ==
  /\ tel \in {"subscribe", "steady"}
  /\ tel' = "sleep"
  /\ ClearConnected
  /\ failures' = 0
  /\ cleanSince' = FALSE
  /\ UNCHANGED <<rejoin, traffic>>

\* Mutant: the counter keeps its count when it asks for a rejoin.
RecordWithoutReset ==
  /\ failures' = failures + 1
  /\ rejoin' = (rejoin \/ failures + 1 >= RejoinAfterFailures)
  /\ cleanSince' = cleanSince

\* record_failure, and at the threshold request_rejoin and reset.
RecordFailure ==
  LET due == failures + 1 >= RejoinAfterFailures
  IN  /\ failures' = IF due THEN 0 ELSE failures + 1
      /\ rejoin' = (rejoin \/ due)
      /\ cleanSince' = (cleanSince /\ ~due)

\* Err on any stage: broker address, connect, handshake, subscribe, poll, publish.
AttemptFails ==
  /\ tel \in {"connect", "subscribe", "steady"}
  /\ tel' = "sleep"
  /\ ClearConnected
  /\ RecordFailure
  /\ UNCHANGED traffic

TelSleepOver ==
  /\ tel = "sleep"
  /\ tel' = "config"
  /\ UNCHANGED <<failures, connected, cleanSince, rejoin, traffic>>

TelReset ==
  /\ tel' = "config" /\ failures' = 0 /\ connected' = FALSE /\ cleanSince' = FALSE
  /\ UNCHANGED traffic

Telemetry ==
  \/ AttemptStarts \/ HandshakeOk \/ SubscribeOver \/ SessionCloses
  \/ AttemptFails \/ TelSleepOver

TrafficChanges ==
  /\ traffic' = ~traffic
  /\ UNCHANGED <<telVars, rejoin>>
=============================================================================
