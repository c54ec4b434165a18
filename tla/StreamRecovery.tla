--------------------------- MODULE StreamRecovery ---------------------------
(***************************************************************************)
(* The streaming loop of couchlink (bridge/src/cmd_run.rs, stream_routes)  *)
(* and how it finds a Pico again.  A route belongs to one Pico, by its     *)
(* unique id, but frames are sent to an address, sealed with the session   *)
(* last learned for that address, and whatever comes from the address of a *)
(* route counts as news of it.  A route without news for a while starts a  *)
(* discovery, whose answers replace sessions at once and the addresses of  *)
(* routes when it is over.                                                 *)
(*                                                                         *)
(* One unit of time is one tick of the status timer.  A datagram is        *)
(* delivered when it is sent, or lost; addresses change, Picos reboot and  *)
(* leave the network, at most MaxEvents times.                             *)
(***************************************************************************)
EXTENDS Naturals, Sequences, SequencesExt

CONSTANTS
    Pico,          \* every Pico on the network
    Paired,        \* those that hold a key, which this PC knows
    Routes,        \* the Picos the stream feeds, in the order of the routes
    Addr,          \* the addresses the router hands out
    NoAddr,        \* not on the network
    StaleAfter,    \* PEER_STALE_AFTER
    RecoverEvery,  \* PEER_RECOVER_EVERY
    DiscoverFor,   \* PEER_RECOVERY_DISCOVER
    MaxEvents      \* bound: how often the network is disturbed

ASSUME StreamAssumption ==
    /\ Paired \subseteq Pico
    /\ Routes \in Seq(Pico) /\ IsInjective(Routes)
    /\ NoAddr \notin Addr
    /\ {StaleAfter, RecoverEvery, DiscoverFor, MaxEvents} \subseteq Nat

VARIABLES
    at,        \* the address each Pico has
    boot,      \* how often each Pico has rebooted; with each boot a new nonce
    latched,   \* Picos that have latched the stream as their peer (have_peer)
    peer,      \* the address each route sends to
    session,   \* what frames to an address are sealed with (udp_auth.rs)
    silent,    \* per route, the time since last_inbound, up to StaleAfter + 1
    tried,     \* per route, the time since last_recovery_attempt, up to RecoverEvery
    waiting,   \* history: how long a stale route has gone without a discovery for it
    search,    \* the discovery task: its phase, the time left, the answers
    statusDue, \* the status timer has fired
    events     \* bound: disturbances so far

vars == <<at, boot, latched, peer, session, silent, tried, waiting, search,
          statusDue, events>>
network == <<at, boot>>

Index == DOMAIN Routes
Plain == <<>>                       \* no key in use: frames go out unsigned

\* What an answer of Pico p teaches about its address, and at the same time
\* what p demands of a frame.
SessionOf(p) == IF p \in Paired THEN <<p, boot[p]>> ELSE Plain
OnNetwork(p) == at[p] # NoAddr
Free(a) == \A p \in Pico : at[p] # a

\* The Pico of route i takes the frames of the route.
Streaming(i) == LET p == Routes[i] IN
    OnNetwork(p) /\ peer[i] = at[p] /\ session[peer[i]] = SessionOf(p)

Stale(i) == silent[i] > StaleAfter
Due(i) == Stale(i) /\ tried[i] >= RecoverEvery
Idle == [phase |-> "idle", left |-> 0, found |-> [i \in Index |-> NoAddr]]
WaitBound == RecoverEvery + DiscoverFor + 1
UpTo(bound, n) == IF n > bound THEN bound ELSE n

-----------------------------------------------------------------------------
\* The Picos of the routes have just answered a discovery of this process, and
\* `prepare` has let them pass; others may have answered it too.
Init ==
    /\ at \in {f \in [Pico -> Addr \cup {NoAddr}] :
                  /\ \A p, q \in Pico : p # q /\ f[p] = f[q] => f[p] = NoAddr
                  /\ \A i \in Index : f[Routes[i]] # NoAddr}
    /\ boot = [p \in Pico |-> 0]
    /\ latched = {}
    /\ peer = [i \in Index |-> at[Routes[i]]]
    /\ \E answered \in SUBSET {p \in Pico : OnNetwork(p)} :
          /\ \A i \in Index : Routes[i] \in answered
          /\ session = [a \in Addr |->
                IF \E p \in answered : at[p] = a
                THEN SessionOf(CHOOSE p \in answered : at[p] = a) ELSE Plain]
    /\ silent = [i \in Index |-> 0]
    /\ tried = [i \in Index |-> RecoverEvery]
    /\ waiting = [i \in Index |-> 0]
    /\ search = Idle
    /\ statusDue = FALSE
    /\ events = 0

-----------------------------------------------------------------------------
(* The network and the Picos.                                              *)

Disturb == events < MaxEvents /\ events' = events + 1

\* Off the Wi-Fi for a while: the firmware keeps its nonce and its peer.
Leave(p) ==
    /\ OnNetwork(p) /\ Disturb
    /\ at' = [at EXCEPT ![p] = NoAddr]
    /\ UNCHANGED <<boot, latched, peer, session, silent, tried, waiting, search,
                   statusDue>>

Reboot(p) ==
    /\ Disturb
    /\ at' = [at EXCEPT ![p] = NoAddr]
    /\ boot' = [boot EXCEPT ![p] = @ + 1]
    /\ latched' = latched \ {p}
    /\ UNCHANGED <<peer, session, silent, tried, waiting, search, statusDue>>

\* A lease, for an address nobody else has at the moment.
Join(p, a) ==
    /\ ~OnNetwork(p) /\ Free(a)
    /\ at' = [at EXCEPT ![p] = a]
    /\ UNCHANGED <<boot, latched, peer, session, silent, tried, waiting, search,
                   statusDue, events>>

\* A keepalive of a Pico that has a peer.  handle_stream_reply compares
\* addresses, and the first route that fits takes it.
Keepalive(p) ==
    /\ p \in latched /\ OnNetwork(p)
    /\ LET fits == {i \in Index : peer[i] = at[p]} IN
       \E i \in fits :
          /\ \A j \in fits : i <= j
          /\ silent' = [silent EXCEPT ![i] = 0]
    /\ UNCHANGED <<network, latched, peer, session, tried, waiting, search,
                   statusDue, events>>

-----------------------------------------------------------------------------
(* The loop.                                                               *)

\* send_udp_tick: whichever Pico has the address takes the frame if the
\* session is its own, and latches the sender.
SendTick(i) ==
    /\ \E p \in Pico :
          /\ at[p] = peer[i] /\ session[peer[i]] = SessionOf(p)
          /\ latched' = latched \cup {p}
    /\ UNCHANGED <<network, peer, session, silent, tried, waiting, search,
                   statusDue, events>>

\* Mutant: routes are marked as tried before it is known whether a discovery
\* may start (the two halves of the && in the status branch swapped).
StatusTickMarksFirst ==
    /\ statusDue /\ statusDue' = FALSE
    /\ LET due == {i \in Index : Due(i)}
           go == due # {} /\ search.phase = "idle" IN
       /\ tried' = [i \in Index |-> IF i \in due THEN 0 ELSE tried[i]]
       /\ waiting' = [i \in Index |-> IF go /\ i \in due THEN 0 ELSE waiting[i]]
       /\ search' = IF ~go THEN search
                    ELSE [Idle EXCEPT !.phase = "running", !.left = DiscoverFor]
    /\ UNCHANGED <<network, latched, peer, session, silent, events>>

\* The status branch: schedule_recovery_if_needed, unless a discovery is under
\* way already.
StatusTick ==
    /\ statusDue /\ statusDue' = FALSE
    /\ LET due == {i \in Index : search.phase = "idle" /\ Due(i)} IN
       /\ tried' = [i \in Index |-> IF i \in due THEN 0 ELSE tried[i]]
       /\ waiting' = [i \in Index |-> IF i \in due THEN 0 ELSE waiting[i]]
       /\ search' = IF due = {} THEN search
                    ELSE [Idle EXCEPT !.phase = "running", !.left = DiscoverFor]
    /\ UNCHANGED <<network, latched, peer, session, silent, events>>

\* Of several answers the collection keeps the first.
Found(p) ==
    search' = [search EXCEPT !.found = [i \in Index |->
        IF Routes[i] = p /\ @[i] = NoAddr THEN at[p] ELSE @[i]]]

\* Mutant: an address that is known already keeps its session.
AnswerLearnsOnce(p) ==
    /\ search.phase = "running" /\ OnNetwork(p)
    /\ session' = [session EXCEPT ![at[p]] = IF @ = Plain THEN SessionOf(p) ELSE @]
    /\ Found(p)
    /\ UNCHANGED <<network, latched, peer, silent, tried, waiting, statusDue, events>>

\* A Pico answers the discovery.  The session of its address is replaced at
\* once, the address of its route only when the discovery is over.
Answer(p) ==
    /\ search.phase = "running" /\ OnNetwork(p)
    /\ session' = [session EXCEPT ![at[p]] = SessionOf(p)]
    /\ Found(p)
    /\ UNCHANGED <<network, latched, peer, silent, tried, waiting, statusDue, events>>

\* The key of the Pico cannot be read at the moment (stored_key gives None for
\* a config.toml that does not load): its address is locked, and a locked
\* address gets unsigned frames.
AnswerUnread(p) ==
    /\ search.phase = "running" /\ OnNetwork(p) /\ p \in Paired /\ Disturb
    /\ session' = [session EXCEPT ![at[p]] = Plain]
    /\ Found(p)
    /\ UNCHANGED <<network, latched, peer, silent, tried, waiting, statusDue>>

DiscoverEnds ==
    /\ search.phase = "running" /\ search.left = 0
    /\ search' = [search EXCEPT !.phase = "done"]
    /\ UNCHANGED <<network, latched, peer, session, silent, tried, waiting,
                   statusDue, events>>

\* The task could not bind or use its socket: the result is an error.
DiscoverFails ==
    /\ search.phase = "running" /\ Disturb
    /\ search' = [Idle EXCEPT !.phase = "failed"]
    /\ UNCHANGED <<network, latched, peer, session, silent, tried, waiting, statusDue>>

\* apply_recovery_results: a route whose Pico answered from another address
\* moves there and counts as fresh.
Moved(i) == LET a == search.found[i] IN a # NoAddr /\ a # peer[i]

\* The recovery branch of the loop, for a result or an error.
ApplyRecovery ==
    /\ search.phase \in {"done", "failed"}
    /\ peer' = [i \in Index |-> IF Moved(i) THEN search.found[i] ELSE peer[i]]
    /\ silent' = [i \in Index |-> IF Moved(i) THEN 0 ELSE silent[i]]
    /\ search' = Idle
    /\ UNCHANGED <<network, latched, session, tried, waiting, statusDue, events>>

\* Time goes on.  The loop handles what is ready before the next status tick.
Tick ==
    /\ ~statusDue /\ statusDue' = TRUE
    /\ search.phase \notin {"done", "failed"}
    /\ search.phase = "running" => search.left > 0
    /\ silent' = [i \in Index |-> UpTo(StaleAfter + 1, silent[i] + 1)]
    /\ tried' = [i \in Index |-> UpTo(RecoverEvery, tried[i] + 1)]
    /\ waiting' = [i \in Index |->
                      IF Stale(i) THEN UpTo(WaitBound + 1, waiting[i] + 1) ELSE 0]
    /\ search' = IF search.phase = "running" THEN [search EXCEPT !.left = @ - 1]
                 ELSE search
    /\ UNCHANGED <<network, latched, peer, session, events>>

Loop ==
    \/ \E i \in Index : SendTick(i)
    \/ StatusTick
    \/ DiscoverEnds
    \/ DiscoverFails
    \/ ApplyRecovery
    \/ Tick
Network ==
    \E p \in Pico :
       \/ Leave(p)
       \/ Reboot(p)
       \/ \E a \in Addr : Join(p, a)
       \/ Keepalive(p)
       \/ Answer(p)
       \/ AnswerUnread(p)
Next == Loop \/ Network

\* The loop runs and time passes; of the datagrams sent again and again, some
\* arrive.  Nothing is assumed of disturbances, and none that a Pico joins.
Fairness ==
    /\ WF_vars(Tick) /\ WF_vars(StatusTick)
    /\ WF_vars(DiscoverEnds) /\ WF_vars(ApplyRecovery)
    /\ \A i \in Index : WF_vars(SendTick(i))
    /\ \A p \in Pico : WF_vars(Keepalive(p)) /\ SF_vars(Answer(p))

Spec == Init /\ [][Next]_vars /\ Fairness

-----------------------------------------------------------------------------
TypeOK ==
    /\ at \in [Pico -> Addr \cup {NoAddr}]
    /\ boot \in [Pico -> 0..MaxEvents]
    /\ latched \subseteq Pico
    /\ peer \in [Index -> Addr]
    /\ session \in [Addr -> {Plain} \cup (Paired \X (0..MaxEvents))]
    /\ silent \in [Index -> 0..(StaleAfter + 1)]
    /\ tried \in [Index -> 0..RecoverEvery]
    /\ waiting \in [Index -> 0..(WaitBound + 1)]
    /\ search \in [phase : {"idle", "running", "done", "failed"},
                   left : 0..DiscoverFor, found : [Index -> Addr \cup {NoAddr}]]
    /\ statusDue \in BOOLEAN
    /\ events \in 0..MaxEvents

\* One discovery at a time serves all routes, so one that becomes stale while
\* another's is under way has to wait for it: but never longer than
\* its own retry interval and one discovery together, failed ones included
\* (recovery_in_flight and last_recovery_attempt in stream_routes).
RetriedInTime == \A i \in Index : waiting[i] <= WaitBound

\* A route that hears nothing for good, although its Pico is on the network, does not
\* do so for want of an address or a session: its frames reach the Pico and are
\* taken (schedule_recovery_if_needed, apply_recovery_results).  It may go on
\* hearing nothing: another route with the same address takes the keepalives.
StaleRouteRecovers == \A i \in Index :
    <>[](OnNetwork(Routes[i]) /\ Stale(i)) => <>[]Streaming(i)
=============================================================================
