------------------------------- MODULE WifiJoin -------------------------------
(***************************************************************************)
(* The Pico keeps itself on the Wi-Fi network: wifi.c (join, failures and  *)
(* retries, re-initialisation of a wedged radio, the guard over the DHCP   *)
(* lease), with what the main loop makes of it in the same turn: the one   *)
(* line per join of heartbeat.c and the bounce to setup mode on a password *)
(* that stays rejected (main.c).                                           *)
(*                                                                         *)
(* The radio, the access point and DHCP are external.  `air` says whether  *)
(* they are in order; when they are, an attempt is answered before it      *)
(* times out, unless the radio is wedged.                                  *)
(*                                                                         *)
(* Time goes in ticks of any length; the loop turns at least once a tick.  *)
(***************************************************************************)
EXTENDS Integers

CONSTANTS
    DropDelay,          \* from a lost link to the retry (2 s)
    InitDelay,          \* from a failed first call (5 s)
    ShortDelay,         \* from most failures (15 s)
    LongDelay,          \* from a rejected password, a failed re-init (60 s)
    JoinLimit,          \* longest attempt (30 s)
    RegrabDelay,        \* WIFI_DHCP_REGRAB_MS
    BadAuthLimit,       \* rejected this long: back to setup mode (120 s)
    DeinitAfterFails,   \* WIFI_DEINIT_AFTER_FAILS
    Bluetooth           \* the persona is a Bluetooth one

Delays == {DropDelay, InitDelay, ShortDelay, LongDelay}

ASSUME WifiJoinAssumption ==
    /\ Delays \subseteq 1 .. LongDelay /\ LongDelay \in Nat
    /\ JoinLimit \in Nat /\ RegrabDelay \in Nat /\ BadAuthLimit \in Nat
    /\ DeinitAfterFails \in Nat \ {0}
    /\ Bluetooth \in BOOLEAN

VARIABLES
    \* wifi.c
    wifiState,   \* wifi_state_t
    lastError,   \* last_error
    retryIn,     \* ticks until next_retry
    joinAge,     \* ticks since join_started
    failures,    \* consecutive_failures
    noIpArmed, noIpFor,
    \* main.c, heartbeat.c
    badAuthArmed, badAuthFor,
    bounced,
    observed,    \* assoc_last_observed
    assocLogged,
    \* Outside
    air,         \* "good" or "bad"
    wifiLink,    \* cyw43_tcpip_link_status
    lease,       \* "held", "sought" or "lost"
    wedged,      \* joins fail until the radio is initialised again
    turned,      \* the loop has turned in this tick
    rejections   \* history: rejected passwords while badAuthArmed

wifi == <<wifiState, lastError, retryIn, joinAge, failures, noIpArmed, noIpFor>>
loop == <<badAuthArmed, badAuthFor, bounced, observed, assocLogged, turned,
          rejections>>
outside == <<air, wifiLink, lease, wedged>>
wifiVars == <<wifi, loop, outside>>

WifiInit ==
    /\ wifiState = "idle"
    /\ lastError = "none"
    /\ retryIn = 0 /\ joinAge = 0 /\ failures = 0
    /\ noIpArmed = FALSE /\ noIpFor = 0
    /\ badAuthArmed = FALSE /\ badAuthFor = 0
    /\ bounced = FALSE
    /\ observed = "idle" /\ assocLogged = FALSE
    /\ air \in {"good", "bad"}
    /\ wifiLink = "down" /\ lease = "sought"
    /\ wedged = FALSE
    /\ turned = FALSE
    /\ rejections = 0

-----------------------------------------------------------------------------
(* wifi.c.                                                                 *)

Min2(i) == IF i < 2 THEN i ELSE 2

Fail(error, delay) ==
    /\ wifiState' = "failed"
    /\ lastError' = error
    /\ retryIn' = delay
    /\ joinAge' = 0

FailAndCount(error, delay) ==
    /\ Fail(error, delay)
    /\ failures' = failures + 1

\* cyw43_arch_wifi_connect_async takes the call, or not.
Connect ==
    /\ wifiState' = "joining"
    /\ joinAge' = 0
    /\ retryIn' = 0
    /\ wifiLink' = "negotiating"
    /\ UNCHANGED lastError

\* wifi_start_join.
StartJoin ==
    /\ wifiState = "idle"
    /\ \/ Connect /\ UNCHANGED failures
       \/ /\ air = "bad"
          /\ FailAndCount("internal", InitDelay)
          /\ UNCHANGED wifiLink
    /\ UNCHANGED <<noIpArmed, noIpFor, wedged, lease>>

\* wifi_task, joined.
LinkDropped ==
    /\ wifiState = "joined" /\ wifiLink # "up"
    /\ Fail("internal", DropDelay)
    /\ noIpArmed' = FALSE /\ noIpFor' = 0
    /\ UNCHANGED <<failures, wifiLink, wedged, lease>>

\* Mutant: the guard is armed anew in every turn.
WatchLeaseRearmed ==
    /\ wifiState = "joined" /\ wifiLink = "up"
    /\ noIpArmed' = (lease # "held")
    /\ noIpFor' = 0
    /\ UNCHANGED <<wifiState, lastError, retryIn, joinAge, failures, wifiLink, wedged,
                   lease>>

WatchLease ==
    /\ wifiState = "joined" /\ wifiLink = "up"
    /\ IF lease = "held"
       THEN noIpArmed' = FALSE /\ noIpFor' = 0 /\ UNCHANGED lease
       ELSE IF ~noIpArmed
       THEN noIpArmed' = TRUE /\ noIpFor' = 0 /\ UNCHANGED lease
       ELSE IF noIpFor > RegrabDelay
       THEN noIpArmed' = FALSE /\ noIpFor' = 0 /\ lease' = "sought"
       ELSE UNCHANGED <<noIpArmed, noIpFor, lease>>
    /\ UNCHANGED <<wifiState, lastError, retryIn, joinAge, failures, wifiLink, wedged>>

\* wifi_task, joining.
JoinSucceeds ==
    /\ wifiState = "joining" /\ wifiLink = "up"
    /\ wifiState' = "joined"
    /\ failures' = 0
    /\ joinAge' = 0
    /\ UNCHANGED <<lastError, retryIn, noIpArmed, noIpFor, wifiLink, wedged, lease>>

JoinRefused ==
    /\ wifiState = "joining"
    /\ \/ wifiLink = "no_network" /\ FailAndCount("no_network", ShortDelay)
       \/ wifiLink = "bad_auth" /\ FailAndCount("auth", LongDelay)
       \/ wifiLink = "fail" /\ FailAndCount("internal", ShortDelay)
    /\ UNCHANGED <<noIpArmed, noIpFor, wifiLink, wedged, lease>>

JoinGoesOn ==
    /\ wifiState = "joining" /\ wifiLink \in {"negotiating", "down"}
    /\ IF joinAge > JoinLimit
       THEN FailAndCount("timeout", ShortDelay)
       ELSE UNCHANGED <<wifiState, lastError, retryIn, joinAge, failures>>
    /\ UNCHANGED <<noIpArmed, noIpFor, wifiLink, wedged, lease>>

\* wifi_task, failed.
Wait ==
    /\ wifiState = "failed" /\ retryIn > 0
    /\ UNCHANGED <<wifi, wifiLink, wedged, lease>>

\* wifi_reinit_after_wedge does not get the radio back.
ReinitFails ==
    /\ wifiState = "failed" /\ retryIn = 0
    /\ failures >= DeinitAfterFails
    /\ air = "bad"
    /\ retryIn' = LongDelay
    /\ wifiLink' = "down"
    /\ UNCHANGED <<wifiState, lastError, joinAge, failures, noIpArmed, noIpFor,
                   wedged, lease>>

\* The retry, after a re-init when one is due.
Retry ==
    LET reinit == failures >= DeinitAfterFails IN
    /\ wifiState = "failed" /\ retryIn = 0
    /\ wedged' = (wedged /\ ~reinit)
    /\ \/ /\ Connect
          /\ failures' = IF reinit THEN 0 ELSE failures
       \/ /\ air = "bad"
          /\ Fail("internal", ShortDelay)
          /\ failures' = IF reinit THEN 1 ELSE failures + 1
          /\ UNCHANGED wifiLink
    /\ UNCHANGED <<noIpArmed, noIpFor, lease>>

WifiTask ==
    \/ LinkDropped
    \/ WatchLease
    \/ JoinSucceeds
    \/ JoinRefused
    \/ JoinGoesOn
    \/ Wait
    \/ ReinitFails
    \/ Retry

-----------------------------------------------------------------------------
(* The rest of the turn.                                                   *)

\* heartbeat_run_mode_task, up to the heartbeat itself.
Settled(s) == s \in {"joined", "failed"}

Heartbeat ==
    /\ assocLogged' = (assocLogged \/ (~Settled(observed) /\ Settled(wifiState')))
    /\ observed' = wifiState'

\* Mutant: once armed, the watchdog stays armed.
BadAuthWatchSticky ==
    LET rejected == ~Bluetooth /\ wifiState' # "joined" /\ lastError' = "auth" IN
    /\ badAuthArmed' = (badAuthArmed \/ rejected)
    /\ badAuthFor' = badAuthFor
    /\ bounced' = (badAuthArmed /\ badAuthFor >= BadAuthLimit)
    /\ rejections' =
           IF ~rejected THEN 0
           ELSE IF wifiState = "joining" /\ wifiState' = "failed"
                THEN Min2(rejections + 1) ELSE rejections

\* main.c: the watchdog over a rejected password.
BadAuthWatch ==
    LET rejected == ~Bluetooth /\ wifiState' # "joined" /\ lastError' = "auth" IN
    /\ badAuthArmed' = rejected
    /\ badAuthFor' = IF rejected /\ badAuthArmed THEN badAuthFor ELSE 0
    /\ bounced' = (rejected /\ badAuthArmed /\ badAuthFor >= BadAuthLimit)
    /\ rejections' =
           IF ~rejected THEN 0
           ELSE IF wifiState = "joining" /\ wifiState' = "failed"
                THEN Min2(rejections + 1) ELSE rejections

Turn ==
    /\ ~bounced
    /\ StartJoin \/ WifiTask
    /\ Heartbeat
    /\ BadAuthWatch
    /\ turned' = TRUE
    /\ UNCHANGED air

-----------------------------------------------------------------------------
(* Outside.                                                                *)

Grow(t, cap) == IF t <= cap THEN t + 1 ELSE t

\* A good access point answers in time.
WifiTick ==
    /\ turned /\ ~bounced
    /\ ~(/\ air = "good" /\ ~wedged
         /\ wifiLink = "negotiating" /\ joinAge >= JoinLimit)
    /\ turned' = FALSE
    /\ retryIn' = IF retryIn > 0 THEN retryIn - 1 ELSE 0
    /\ joinAge' = IF wifiState = "joining" THEN Grow(joinAge, JoinLimit) ELSE 0
    /\ noIpFor' = IF noIpArmed THEN Grow(noIpFor, RegrabDelay) ELSE 0
    /\ badAuthFor' = IF badAuthArmed THEN Grow(badAuthFor, BadAuthLimit) ELSE 0
    /\ UNCHANGED <<wifiState, lastError, failures, noIpArmed, badAuthArmed, bounced,
                   observed, assocLogged, rejections, outside>>

AirChanges ==
    /\ air' = IF air = "good" THEN "bad" ELSE "good"
    /\ UNCHANGED <<wifi, loop, wifiLink, lease, wedged>>

LinkComesUp ==
    /\ wifiLink = "negotiating" /\ ~wedged
    /\ wifiLink' = "up"
    /\ lease' = "held"
    /\ UNCHANGED <<wifi, loop, air, wedged>>

LinkRefused ==
    /\ wifiLink = "negotiating"
    /\ \/ air = "bad" /\ wifiLink' \in {"no_network", "bad_auth", "fail"}
       \/ wedged /\ wifiLink' = "fail"
    /\ UNCHANGED <<wifi, loop, air, lease, wedged>>

LinkLost ==
    /\ wifiLink = "up" /\ air = "bad"
    /\ wifiLink' = "down"
    /\ UNCHANGED <<wifi, loop, air, lease, wedged>>

LeaseLost ==
    /\ lease = "held" /\ air = "bad"
    /\ lease' = "lost"
    /\ UNCHANGED <<wifi, loop, air, wifiLink, wedged>>

LeaseGranted ==
    /\ lease = "sought" /\ wifiLink = "up"
    /\ lease' = "held"
    /\ UNCHANGED <<wifi, loop, air, wifiLink, wedged>>

RadioWedges ==
    /\ air = "bad" /\ ~wedged
    /\ wedged' = TRUE
    /\ UNCHANGED <<wifi, loop, air, wifiLink, lease>>

WifiNext ==
    \/ Turn
    \/ WifiTick
    \/ AirChanges
    \/ LinkComesUp
    \/ LinkRefused
    \/ LinkLost
    \/ LeaseLost
    \/ LeaseGranted
    \/ RadioWedges

WifiSpec == WifiInit /\ [][WifiNext]_wifiVars

\* The loop turns and time goes on; a good access point and a good DHCP server
\* answer.
WifiFairSpec ==
    /\ WifiSpec
    /\ WF_wifiVars(Turn)
    /\ WF_wifiVars(WifiTick)
    /\ WF_wifiVars(LinkComesUp)
    /\ WF_wifiVars(LeaseGranted)

-----------------------------------------------------------------------------

\* Every variable has its type.
WifiTypeOK ==
    /\ wifiState \in {"idle", "joining", "joined", "failed"}
    /\ lastError \in {"none", "no_network", "auth", "internal", "timeout"}
    /\ retryIn \in 0 .. LongDelay
    /\ joinAge \in 0 .. JoinLimit + 1
    /\ failures \in 0 .. DeinitAfterFails
    /\ noIpArmed \in BOOLEAN /\ noIpFor \in 0 .. RegrabDelay + 1
    /\ badAuthArmed \in BOOLEAN /\ badAuthFor \in 0 .. BadAuthLimit + 1
    /\ bounced \in BOOLEAN
    /\ observed \in {"idle", "joining", "joined", "failed"}
    /\ assocLogged \in BOOLEAN
    /\ air \in {"good", "bad"}
    /\ wifiLink \in {"down", "negotiating", "up", "no_network", "bad_auth", "fail"}
    /\ lease \in {"held", "sought", "lost"}
    /\ wedged \in BOOLEAN
    /\ turned \in BOOLEAN
    /\ rejections \in 0 .. 2

\* Once the access point, the radio's surroundings and DHCP stay in order, the
\* Pico gets back on the network and stays there with an address, whatever
\* went wrong before: a lost link, a lost lease, a wedged radio, any series of
\* failures (wifi.c:146-270).  It may have left for setup mode instead.
ComesBack ==
    <>[](air = "good") =>
        <>[](bounced \/ (wifiState = "joined" /\ wifiLink = "up" /\ lease = "held"))

\* The Pico gives up on a password only after the access point rejected it and
\* without having been on the network since, however retries, other failures
\* and re-initialisations of the radio fell in between (main.c:332-352).
BounceNamesTheReason ==
    bounced => rejections > 0 /\ lastError = "auth" /\ ~Bluetooth
=============================================================================
