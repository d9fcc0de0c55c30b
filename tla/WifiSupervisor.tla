--------------------------- MODULE WifiSupervisor ---------------------------
(***************************************************************************)
(* The Wi-Fi supervisor of app/src/net.rs with the no-IP watchdog of       *)
(* core/src/wifi.rs, and the access point and DHCP server around them.     *)
(*                                                                         *)
(* The supervisor is one task; sup names the await it has reached.  Time   *)
(* is counted only where the task spends it: `outage' adds up the joins,   *)
(* DHCP waits, leaves and sleeps since the supervisor last held a lease    *)
(* (not the waits for the lock, which would only make it larger).          *)
(*                                                                         *)
(* Joins and leaves hold the lock on the cyw43 control, which the OTA task *)
(* takes as well to blink the code of a failed check (app/src/beacon.rs).  *)
(***************************************************************************)
EXTENDS Naturals

CONSTANTS
  JoinTime,        \* JOIN_TIMEOUT, also the limit on a leave
  DhcpTime,        \* DHCP_TIMEOUT
  DhcpRetries,     \* DHCP_RETRY_ATTEMPTS
  BackoffInitial,  \* BACKOFF_INITIAL_SECS
  BackoffMax,      \* BACKOFF_MAX_SECS
  NoIpReset,       \* NO_IP_RESET
  OutageCap        \* bound: outages are counted up to here

ASSUME WifiAssumption ==
  /\ {JoinTime, DhcpTime, DhcpRetries} \subseteq Nat
  /\ {BackoffInitial, BackoffMax, NoIpReset} \subseteq Nat \ {0}
  /\ BackoffInitial <= BackoffMax
  /\ OutageCap \in Nat

VARIABLES
  sup,        \* wantJoin, join, dhcp, linked, wantLeave, leave, sleep or top,
              \* where the loop starts
  skipWait,   \* skip_wait of this iteration
  backoff,    \* backoff_secs
  dhcpTry,    \* DHCP re-issues so far in this iteration
  noIp,       \* NoIpWatchdog.elapsed
  associated, \* ASSOCIATED
  rejoin,     \* REJOIN_REQUESTED
  control,    \* holder of the lock on the cyw43 control: free, net or beacon
  link,       \* the stack sees the Wi-Fi link up
  config,     \* the stack holds an IPv4 configuration
  ap,         \* the access point accepts this station (external)
  dhcp,       \* the DHCP server answers (external)
  outage      \* history: time since the supervisor last held a lease

supVars == <<sup, skipWait, backoff, dhcpTry, noIp, associated>>
stackVars == <<link, config>>
envVars == <<ap, dhcp>>
wifiVars == <<supVars, rejoin, control, stackVars, envVars, outage>>

AtMost(a, b) == IF a <= b THEN a ELSE b
Spend(t) == outage' = AtMost(outage + t, OutageCap)

WifiInit ==
  /\ sup = "top" /\ skipWait = FALSE /\ backoff = BackoffInitial
  /\ dhcpTry = 0 /\ noIp = 0 /\ associated = FALSE /\ rejoin = FALSE
  /\ control = "free" /\ link = FALSE /\ config = FALSE
  /\ ap \in BOOLEAN /\ dhcp \in BOOLEAN
  /\ outage = 0

(***************************************************************************)
(* supervisor_task.                                                        *)
(***************************************************************************)
\* The head of the loop, up to the lock it awaits.
LoopTop ==
  /\ sup = "top"
  /\ sup' = "wantJoin"
  /\ skipWait' = rejoin
  /\ rejoin' = FALSE
  /\ associated' = FALSE
  /\ UNCHANGED <<backoff, dhcpTry, noIp, control, stackVars, envVars, outage>>

\* control.lock().await, which has no limit of its own.
TakeControl ==
  /\ control = "free" /\ control' = "net"
  /\ \/ sup = "wantJoin" /\ sup' = "join"
     \/ sup = "wantLeave" /\ sup' = "leave"
  /\ UNCHANGED <<skipWait, backoff, dhcpTry, noIp, associated, rejoin, stackVars,
                 envVars, outage>>

\* The join succeeds: the backoff starts over and DHCP is awaited.
JoinOk ==
  /\ sup = "join"
  /\ ap
  /\ sup' = "dhcp" /\ control' = "free"
  /\ link' = TRUE
  /\ backoff' = BackoffInitial
  /\ dhcpTry' = 0
  /\ \E t \in 0..JoinTime : Spend(t)
  /\ UNCHANGED <<skipWait, noIp, associated, rejoin, config, envVars>>

\* An error, or JOIN_TIMEOUT.
JoinFails ==
  /\ sup = "join"
  /\ sup' = "sleep" /\ control' = "free"
  /\ \E t \in 0..JoinTime : Spend(t)
  /\ UNCHANGED <<skipWait, backoff, dhcpTry, noIp, associated, rejoin,
                 stackVars, envVars>>

\* Mutant: the lease does not re-arm the no-IP watchdog.
LeaseWithoutRearm == noIp' = noIp

\* no_ip.reset()
Rearm == noIp' = 0

\* wait_config_up() returns: the same poll sets ASSOCIATED and awaits the link.
DhcpUp ==
  /\ sup = "dhcp"
  /\ link /\ config
  /\ sup' = "linked"
  /\ associated' = TRUE
  /\ Rearm
  /\ outage' = 0
  /\ UNCHANGED <<skipWait, backoff, dhcpTry, rejoin, control, stackVars, envVars>>

\* DHCP_TIMEOUT with attempts left: DHCP is re-issued in place.
DhcpReissue ==
  /\ sup = "dhcp"
  /\ ~config
  /\ dhcpTry < DhcpRetries
  /\ dhcpTry' = dhcpTry + 1
  /\ Spend(DhcpTime)
  /\ UNCHANGED <<sup, skipWait, backoff, noIp, associated, rejoin, control, stackVars,
                 envVars>>

\* Mutant: retries never run out.
NeverExhausted == FALSE

Exhausted == dhcpTry = DhcpRetries

DhcpFails ==
  /\ sup = "dhcp"
  /\ ~config
  /\ Exhausted
  /\ sup' = "wantLeave"
  /\ Spend(DhcpTime)
  /\ UNCHANGED <<skipWait, backoff, dhcpTry, noIp, associated, rejoin, control,
                 stackVars, envVars>>

\* c.leave(), done or timed out; only the former takes the link down.
Leave ==
  /\ sup = "leave"
  /\ sup' = "sleep" /\ control' = "free"
  /\ link' \in {link, FALSE}
  /\ config' = (config /\ link')
  /\ \E t \in 0..JoinTime : Spend(t)
  /\ UNCHANGED <<skipWait, backoff, dhcpTry, noIp, associated, rejoin, envVars>>

\* Mutant: ASSOCIATED is left as it was when the link goes.
StayAssociated == associated' = associated

Dissociate == associated' = FALSE

\* wait_link_down() returns.  Nothing else ends this wait.
LinkDownSeen ==
  /\ sup = "linked"
  /\ ~link
  /\ sup' = "sleep"
  /\ Dissociate
  /\ UNCHANGED <<skipWait, backoff, dhcpTry, noIp, rejoin, control, stackVars, envVars,
                 outage>>

\* The wait before the next iteration; a forced rejoin skips it.
Sleep == IF skipWait THEN 0 ELSE backoff

\* Mutant: the watchdog is never fed the time that passes.
RecordedNothing == noIp

\* no_ip.record: the sleep is all that is recorded.
Recorded == noIp + Sleep

\* The sleep is over and no reset is due: the backoff doubles.
SleepOver ==
  /\ sup = "sleep"
  /\ Recorded < NoIpReset
  /\ sup' = "top"
  /\ noIp' = Recorded
  /\ backoff' = AtMost(2 * backoff, BackoffMax)
  /\ Spend(Sleep)
  /\ UNCHANGED <<skipWait, dhcpTry, associated, rejoin, control, stackVars, envVars>>

\* The sleep is over and the watchdog has run out: sys_reset().
NoIpResetDue == sup = "sleep" /\ Recorded >= NoIpReset

WifiReset ==
  /\ sup' = "top" /\ skipWait' = FALSE /\ backoff' = BackoffInitial
  /\ dhcpTry' = 0 /\ noIp' = 0 /\ associated' = FALSE /\ rejoin' = FALSE
  /\ control' = "free" /\ link' = FALSE /\ config' = FALSE
  /\ outage' = 0
  /\ UNCHANGED envVars

Supervisor ==
  \/ LoopTop \/ TakeControl \/ JoinOk \/ JoinFails \/ DhcpUp \/ DhcpReissue \/ DhcpFails
  \/ Leave \/ LinkDownSeen \/ SleepOver

(***************************************************************************)
(* beacon::code, from ota_task.                                            *)
(***************************************************************************)
\* A check has failed: its code is blinked under the lock.  A supervisor that
\* is handed the lock runs before another check can have failed.
BlinkStarts ==
  /\ sup \notin {"wantJoin", "wantLeave"}
  /\ control = "free" /\ control' = "beacon"
  /\ UNCHANGED <<supVars, rejoin, stackVars, envVars, outage>>

\* Every gpio_set has returned and the lock guard is dropped.
BlinkEnds ==
  /\ control = "beacon" /\ control' = "free"
  /\ UNCHANGED <<supVars, rejoin, stackVars, envVars, outage>>

Beacon == BlinkStarts \/ BlinkEnds

(***************************************************************************)
(* embassy-net and the network around it (external).                       *)
(***************************************************************************)
LeaseGranted ==
  /\ link /\ dhcp /\ ~config
  /\ config' = TRUE
  /\ UNCHANGED <<supVars, rejoin, control, link, envVars, outage>>

LeaseLost ==
  /\ config
  /\ ~dhcp
  /\ config' = FALSE
  /\ UNCHANGED <<supVars, rejoin, control, link, envVars, outage>>

LinkDrops ==
  /\ link
  /\ ~ap
  /\ link' = FALSE
  /\ config' = FALSE
  /\ UNCHANGED <<supVars, rejoin, control, envVars, outage>>

AirChanges ==
  /\ \/ ap' = ~ap /\ dhcp' = dhcp
     \/ dhcp' = ~dhcp /\ ap' = ap
  /\ UNCHANGED <<supVars, rejoin, control, stackVars, outage>>

Air == LeaseGranted \/ LeaseLost \/ LinkDrops \/ AirChanges
=============================================================================
