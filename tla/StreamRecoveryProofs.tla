------------------------- MODULE StreamRecoveryProofs -------------------------
(***************************************************************************)
(* Theorems about StreamRecovery, for every set of Picos, any routes and   *)
(* any length of its timers.                                               *)
(***************************************************************************)
EXTENDS StreamRecovery, SequenceTheorems, TLAPS

\* The longest a route waits for its next try and one discovery.
Span == RecoverEvery + DiscoverFor

\* A Pico reboots with a disturbance.
BootsAreDisturbances == \A p \in Pico : boot[p] <= events

\* A route that is not due has waited no longer than since its last discovery.
SinceTried == \A i \in Index : tried[i] < RecoverEvery => waiting[i] <= tried[i]

\* What a stale route has waited, and what it may still have to wait for the
\* discovery under way.
PhaseBound(i) ==
    Stale(i) =>
        /\ search.phase = "running" => waiting[i] + search.left <= Span
        /\ search.phase \in {"done", "failed"} => waiting[i] <= Span
        /\ search.phase = "idle" /\ ~statusDue => waiting[i] <= Span

StreamInv ==
    /\ TypeOK
    /\ BootsAreDisturbances
    /\ SinceTried
    /\ \A i \in Index : PhaseBound(i)
    /\ RetriedInTime

-----------------------------------------------------------------------------

\* The constants.
LEMMA Bounds ==
  /\ StaleAfter \in Nat /\ RecoverEvery \in Nat /\ DiscoverFor \in Nat /\ MaxEvents \in Nat
  /\ NoAddr \notin Addr /\ Paired \subseteq Pico
  /\ \A i \in Index : Routes[i] \in Pico
<1>1. \A i \in Index : Routes[i] \in Pico
  BY StreamAssumption, LenProperties, ElementOfSeq DEF Index
<1> QED
  BY <1>1, StreamAssumption

\* A Pico's session is none, or a boot of a paired one.
LEMMA SessionType ==
  ASSUME StreamInv, NEW p \in Pico
  PROVE  SessionOf(p) \in {Plain} \cup (Paired \X (0..MaxEvents))
<1>1. boot[p] \in 0..MaxEvents
  BY DEF StreamInv, TypeOK
<1> QED
  BY <1>1 DEF SessionOf

-----------------------------------------------------------------------------

LEMMA InitStreamInv == Init => StreamInv
<1> SUFFICES ASSUME Init PROVE StreamInv
  OBVIOUS
<1> USE Bounds
<1>1. /\ at \in [Pico -> Addr \cup {NoAddr}] /\ \A i \in Index : at[Routes[i]] # NoAddr
      /\ boot = [p \in Pico |-> 0] /\ latched = {}
      /\ peer = [i \in Index |-> at[Routes[i]]]
      /\ silent = [i \in Index |-> 0] /\ tried = [i \in Index |-> RecoverEvery]
      /\ waiting = [i \in Index |-> 0] /\ search = Idle /\ statusDue = FALSE /\ events = 0
  BY DEF Init
<1>2. peer \in [Index -> Addr]
  BY <1>1
<1>3. session \in [Addr -> {Plain} \cup (Paired \X (0..MaxEvents))]
  <2>1. \A p \in Pico : SessionOf(p) \in {Plain} \cup (Paired \X (0..MaxEvents))
    BY <1>1 DEF SessionOf
  <2>2. PICK answered \in SUBSET {p \in Pico : OnNetwork(p)} :
           session = [a \in Addr |->
                IF \E p \in answered : at[p] = a
                THEN SessionOf(CHOOSE p \in answered : at[p] = a) ELSE Plain]
    BY DEF Init
  <2>3. \A a \in Addr : (\E p \in answered : at[p] = a) =>
           (CHOOSE p \in answered : at[p] = a) \in Pico
    BY <2>2
  <2> QED
    BY <2>1, <2>2, <2>3
<1>4. search \in [phase : {"idle", "running", "done", "failed"},
                  left : 0..DiscoverFor, found : [Index -> Addr \cup {NoAddr}]]
  BY <1>1 DEF Idle
<1>5. WaitBound \in Nat
  BY DEF WaitBound
<1>6. TypeOK
  <2>1. /\ silent \in [Index -> 0..(StaleAfter + 1)]
        /\ tried \in [Index -> 0..RecoverEvery]
        /\ waiting \in [Index -> 0..(WaitBound + 1)]
        /\ boot \in [Pico -> 0..MaxEvents]
    BY <1>1, <1>5
  <2>2. events \in 0..MaxEvents
    BY <1>1
  <2>3. statusDue \in BOOLEAN /\ latched \subseteq Pico
    BY <1>1
  <2> QED
    BY <1>1, <1>2, <1>3, <1>4, <2>1, <2>2, <2>3 DEF TypeOK
<1>7. BootsAreDisturbances /\ SinceTried /\ RetriedInTime
  BY <1>1, <1>5 DEF BootsAreDisturbances, SinceTried, RetriedInTime
<1>8. \A i \in Index : PhaseBound(i)
  BY <1>1 DEF PhaseBound, Stale
<1> QED
  BY <1>6, <1>7, <1>8 DEF StreamInv

\* What does not touch the clocks keeps what is said of them.
LEMMA ClocksKept ==
  ASSUME StreamInv, UNCHANGED <<silent, tried, waiting, search, statusDue>>
  PROVE  SinceTried' /\ (\A i \in Index : PhaseBound(i)') /\ RetriedInTime'
  BY DEF StreamInv, SinceTried, PhaseBound, RetriedInTime, Stale

\* The network: Picos leave, reboot and join.
LEMMA NetworkKeeps ==
  ASSUME StreamInv, NEW p \in Pico,
         Leave(p) \/ Reboot(p) \/ \E a \in Addr : Join(p, a)
  PROVE  StreamInv'
<1> USE Bounds
<1>1. UNCHANGED <<peer, session, silent, tried, waiting, search, statusDue>>
  BY DEF Leave, Reboot, Join
<1>2. at' \in [Pico -> Addr \cup {NoAddr}] /\ latched' \subseteq Pico
  BY DEF Leave, Reboot, Join, StreamInv, TypeOK
<1>3. /\ boot' \in [Pico -> 0..MaxEvents] /\ events' \in 0..MaxEvents
      /\ BootsAreDisturbances'
  <2>1. CASE Leave(p) \/ \E a \in Addr : Join(p, a)
    BY <2>1 DEF Leave, Join, Disturb, StreamInv, TypeOK, BootsAreDisturbances
  <2>2. CASE Reboot(p)
    <3>1. /\ events' = events + 1 /\ events \in 0..MaxEvents /\ events < MaxEvents
          /\ boot' = [boot EXCEPT ![p] = boot[p] + 1]
          /\ boot \in [Pico -> 0..MaxEvents] /\ \A q \in Pico : boot[q] <= events
      BY <2>2 DEF Reboot, Disturb, StreamInv, TypeOK, BootsAreDisturbances
    <3>2. \A q \in Pico : boot'[q] \in Nat /\ boot'[q] <= events'
      BY <3>1
    <3> QED
      BY <3>1, <3>2 DEF BootsAreDisturbances
  <2> QED
    BY <2>1, <2>2
<1>4. TypeOK'
  BY <1>1, <1>2, <1>3 DEF StreamInv, TypeOK
<1> QED
  BY <1>1, <1>3, <1>4, ClocksKept DEF StreamInv

\* News of a route.
LEMMA KeepaliveKeeps ==
  ASSUME StreamInv, NEW p \in Pico, Keepalive(p)
  PROVE  StreamInv'
<1> USE Bounds
<1>1. PICK i \in Index : silent' = [silent EXCEPT ![i] = 0]
  BY DEF Keepalive
<1>2. UNCHANGED <<at, boot, latched, peer, session, tried, waiting, search, statusDue, events>>
  BY DEF Keepalive, network
<1>3. silent \in [Index -> 0..(StaleAfter + 1)]
  BY DEF StreamInv, TypeOK
<1>4. silent' \in [Index -> 0..(StaleAfter + 1)] /\ \A j \in Index : Stale(j)' => Stale(j)
  BY <1>1, <1>3 DEF Stale
<1>5. TypeOK'
  BY <1>2, <1>4 DEF StreamInv, TypeOK
<1> QED
  BY <1>2, <1>4, <1>5
     DEF StreamInv, BootsAreDisturbances, SinceTried, PhaseBound, RetriedInTime

\* Frames go out.
LEMMA SendKeeps == ASSUME StreamInv, NEW i \in Index, SendTick(i) PROVE StreamInv'
<1>1. /\ UNCHANGED <<at, boot, peer, session, silent, tried, waiting, search, statusDue, events>>
      /\ latched' \subseteq Pico
  BY DEF SendTick, network, StreamInv, TypeOK
<1>2. TypeOK'
  BY <1>1 DEF StreamInv, TypeOK
<1> QED
  BY <1>1, <1>2, ClocksKept DEF StreamInv, BootsAreDisturbances

\* A discovery answered: the phase and the time left stay.
LEMMA AnswerKeeps ==
  ASSUME StreamInv, NEW p \in Pico, Answer(p) \/ AnswerUnread(p)
  PROVE  StreamInv'
<1> USE Bounds
<1>1. /\ UNCHANGED <<at, boot, latched, peer, silent, tried, waiting, statusDue>>
      /\ events' \in 0..MaxEvents /\ events <= events'
  BY DEF Answer, AnswerUnread, Disturb, network, StreamInv, TypeOK
<1>2. /\ search \in [phase : {"idle", "running", "done", "failed"},
                     left : 0..DiscoverFor, found : [Index -> Addr \cup {NoAddr}]]
      /\ at \in [Pico -> Addr \cup {NoAddr}]
      /\ session \in [Addr -> {Plain} \cup (Paired \X (0..MaxEvents))]
  BY DEF StreamInv, TypeOK
<1>3. search' = [search EXCEPT !.found = [i \in Index |->
          IF Routes[i] = p /\ search.found[i] = NoAddr THEN at[p] ELSE search.found[i]]]
  BY DEF Answer, AnswerUnread, Found
<1>4. /\ search' \in [phase : {"idle", "running", "done", "failed"},
                      left : 0..DiscoverFor, found : [Index -> Addr \cup {NoAddr}]]
      /\ search'.phase = search.phase /\ search'.left = search.left
  BY <1>2, <1>3
<1>5. session' \in [Addr -> {Plain} \cup (Paired \X (0..MaxEvents))]
  BY <1>2, SessionType DEF Answer, AnswerUnread
<1>6. TypeOK'
  BY <1>1, <1>4, <1>5 DEF StreamInv, TypeOK
<1>7. BootsAreDisturbances'
  <2>1. \A q \in Pico : boot[q] \in Nat /\ boot[q] <= events /\ events \in Nat
    BY DEF StreamInv, TypeOK, BootsAreDisturbances
  <2> QED
    BY <1>1, <2>1 DEF BootsAreDisturbances
<1> QED
  BY <1>1, <1>4, <1>6, <1>7 DEF StreamInv, SinceTried, PhaseBound, RetriedInTime, Stale

\* The status branch: a route that is due gets its discovery, or waits for the end of
\* the one under way.
LEMMA StatusKeeps == StreamInv /\ StatusTick => StreamInv'
<1> SUFFICES ASSUME StreamInv, StatusTick PROVE StreamInv'
  OBVIOUS
<1> USE Bounds
<1> DEFINE due == {i \in Index : search.phase = "idle" /\ Due(i)}
<1>1. /\ UNCHANGED <<at, boot, latched, peer, session, silent, events>>
      /\ statusDue' = FALSE
      /\ tried' = [i \in Index |-> IF i \in due THEN 0 ELSE tried[i]]
      /\ waiting' = [i \in Index |-> IF i \in due THEN 0 ELSE waiting[i]]
      /\ search' = IF due = {} THEN search
                   ELSE [Idle EXCEPT !.phase = "running", !.left = DiscoverFor]
  BY DEF StatusTick, network
<1>2. /\ tried \in [Index -> 0..RecoverEvery]
      /\ waiting \in [Index -> 0..(WaitBound + 1)] /\ WaitBound \in Nat
      /\ search \in [phase : {"idle", "running", "done", "failed"},
                     left : 0..DiscoverFor, found : [Index -> Addr \cup {NoAddr}]]
  BY DEF StreamInv, TypeOK, WaitBound
<1>3. /\ tried' \in [Index -> 0..RecoverEvery]
      /\ waiting' \in [Index -> 0..(WaitBound + 1)]
      /\ search' \in [phase : {"idle", "running", "done", "failed"},
                      left : 0..DiscoverFor, found : [Index -> Addr \cup {NoAddr}]]
  <2>1. \A i \in Index : 0 \in 0..RecoverEvery /\ 0 \in 0..(WaitBound + 1)
    BY <1>2
  <2>2. /\ tried' \in [Index -> 0..RecoverEvery]
        /\ waiting' \in [Index -> 0..(WaitBound + 1)]
    BY <1>1, <1>2, <2>1
  <2>3. [Idle EXCEPT !.phase = "running", !.left = DiscoverFor]
            \in [phase : {"idle", "running", "done", "failed"},
                 left : 0..DiscoverFor, found : [Index -> Addr \cup {NoAddr}]]
    <3>1. [i \in Index |-> NoAddr] \in [Index -> Addr \cup {NoAddr}]
      OBVIOUS
    <3>2. DiscoverFor \in 0..DiscoverFor
      OBVIOUS
    <3>3. \A f \in [Index -> Addr \cup {NoAddr}] :
              [[phase |-> "idle", left |-> 0, found |-> f]
                   EXCEPT !.phase = "running", !.left = DiscoverFor]
              \in [phase : {"idle", "running", "done", "failed"},
                   left : 0..DiscoverFor, found : [Index -> Addr \cup {NoAddr}]]
      BY <3>2
    <3> QED
      BY <3>1, <3>3 DEF Idle
  <2> QED
    BY <1>1, <1>2, <2>2, <2>3
<1>4. TypeOK'
  BY <1>1, <1>3 DEF StreamInv, TypeOK
<1>5. SinceTried' /\ RetriedInTime'
  BY <1>1, <1>2 DEF StreamInv, SinceTried, RetriedInTime
<1>6. ASSUME NEW i \in Index, Stale(i)' PROVE PhaseBound(i)'
  <2>1. Stale(i)
    BY <1>1, <1>6 DEF Stale
  <2>2. waiting[i] \in Nat /\ tried[i] \in 0..RecoverEvery
    BY <1>2
  <2>3. CASE i \in due
    BY <1>1, <1>2, <2>3 DEF PhaseBound, Span, Idle
  <2>4. CASE i \notin due /\ search.phase = "idle"
    <3>1. tried[i] < RecoverEvery
      BY <2>1, <2>2, <2>4 DEF Due
    <3>2. waiting'[i] = waiting[i] /\ waiting[i] <= RecoverEvery
      BY <1>1, <2>2, <2>4, <3>1 DEF StreamInv, SinceTried
    <3>3. search'.phase = "running" => search'.left = DiscoverFor
      BY <1>1, <2>4 DEF Idle
    <3>4. waiting'[i] \in Nat
      BY <2>2, <3>2
    <3> QED
      BY <2>2, <3>2, <3>3, <3>4 DEF PhaseBound, Span
  <2>5. CASE search.phase # "idle"
    <3>1. search' = search /\ waiting'[i] = waiting[i]
      BY <1>1, <2>5
    <3> QED
      BY <2>1, <2>5, <3>1 DEF StreamInv, PhaseBound
  <2> QED
    BY <2>3, <2>4, <2>5
<1>7. \A i \in Index : PhaseBound(i)'
  BY <1>6 DEF PhaseBound
<1> QED
  BY <1>1, <1>4, <1>5, <1>7 DEF StreamInv, BootsAreDisturbances

\* A discovery ends, well or not.
LEMMA EndKeeps == StreamInv /\ (DiscoverEnds \/ DiscoverFails) => StreamInv'
<1> SUFFICES ASSUME StreamInv, DiscoverEnds \/ DiscoverFails PROVE StreamInv'
  OBVIOUS
<1> USE Bounds
<1>1. /\ UNCHANGED <<at, boot, latched, peer, session, silent, tried, waiting, statusDue>>
      /\ search.phase = "running"
      /\ events' \in 0..MaxEvents /\ events <= events'
  BY DEF DiscoverEnds, DiscoverFails, Disturb, network, StreamInv, TypeOK
<1>2. /\ search \in [phase : {"idle", "running", "done", "failed"},
                     left : 0..DiscoverFor, found : [Index -> Addr \cup {NoAddr}]]
      /\ waiting \in [Index -> 0..(WaitBound + 1)] /\ WaitBound \in Nat
  BY DEF StreamInv, TypeOK, WaitBound
<1>3. /\ search' \in [phase : {"idle", "running", "done", "failed"},
                      left : 0..DiscoverFor, found : [Index -> Addr \cup {NoAddr}]]
      /\ search'.phase \in {"done", "failed"}
  BY <1>2 DEF DiscoverEnds, DiscoverFails, Idle
<1>4. TypeOK'
  BY <1>1, <1>3 DEF StreamInv, TypeOK
<1>5. ASSUME NEW i \in Index, Stale(i)' PROVE PhaseBound(i)'
  <2>1. waiting[i] + search.left <= Span /\ waiting[i] \in Nat /\ search.left \in Nat
    BY <1>1, <1>2, <1>5 DEF StreamInv, PhaseBound, Stale
  <2>2. waiting'[i] <= Span
    BY <1>1, <2>1 DEF Span
  <2> QED
    BY <1>3, <2>2 DEF PhaseBound
<1>6. BootsAreDisturbances'
  <2>1. \A q \in Pico : boot[q] \in Nat /\ boot[q] <= events /\ events \in Nat
    BY DEF StreamInv, TypeOK, BootsAreDisturbances
  <2> QED
    BY <1>1, <2>1 DEF BootsAreDisturbances
<1>7. \A i \in Index : PhaseBound(i)'
  BY <1>5 DEF PhaseBound
<1> QED
  BY <1>1, <1>4, <1>6, <1>7 DEF StreamInv, SinceTried, RetriedInTime

\* Its result is applied: a route that moves counts as fresh.
LEMMA ApplyKeeps == StreamInv /\ ApplyRecovery => StreamInv'
<1> SUFFICES ASSUME StreamInv, ApplyRecovery PROVE StreamInv'
  OBVIOUS
<1> USE Bounds
<1>1. /\ UNCHANGED <<at, boot, latched, session, tried, waiting, statusDue, events>>
      /\ search.phase \in {"done", "failed"} /\ search' = Idle
      /\ peer' = [i \in Index |-> IF Moved(i) THEN search.found[i] ELSE peer[i]]
      /\ silent' = [i \in Index |-> IF Moved(i) THEN 0 ELSE silent[i]]
  BY DEF ApplyRecovery, network
<1>2. /\ search.found \in [Index -> Addr \cup {NoAddr}] /\ peer \in [Index -> Addr]
      /\ silent \in [Index -> 0..(StaleAfter + 1)]
  BY DEF StreamInv, TypeOK
<1>3. peer' \in [Index -> Addr] /\ silent' \in [Index -> 0..(StaleAfter + 1)]
  BY <1>1, <1>2 DEF Moved
<1>4. /\ search' \in [phase : {"idle", "running", "done", "failed"},
                      left : 0..DiscoverFor, found : [Index -> Addr \cup {NoAddr}]]
      /\ search'.phase = "idle"
  BY <1>1 DEF Idle
<1>5. TypeOK'
  BY <1>1, <1>3, <1>4 DEF StreamInv, TypeOK
<1>6. \A i \in Index : Stale(i)' => Stale(i)
  BY <1>1, <1>2 DEF Stale
<1>7. \A i \in Index : PhaseBound(i)'
  BY <1>1, <1>4, <1>6 DEF StreamInv, PhaseBound
<1> QED
  BY <1>1, <1>5, <1>7 DEF StreamInv, BootsAreDisturbances, SinceTried, RetriedInTime

\* Time goes on: one tick of waiting is one tick less of the discovery under way.
LEMMA TickKeeps == StreamInv /\ Tick => StreamInv'
<1> SUFFICES ASSUME StreamInv, Tick PROVE StreamInv'
  OBVIOUS
<1> USE Bounds
<1>1. /\ UNCHANGED <<at, boot, latched, peer, session, events>>
      /\ ~statusDue /\ statusDue' = TRUE
      /\ search.phase \notin {"done", "failed"} /\ (search.phase = "running" => search.left > 0)
      /\ silent' = [i \in Index |-> UpTo(StaleAfter + 1, silent[i] + 1)]
      /\ tried' = [i \in Index |-> UpTo(RecoverEvery, tried[i] + 1)]
      /\ waiting' = [i \in Index |->
                        IF Stale(i) THEN UpTo(WaitBound + 1, waiting[i] + 1) ELSE 0]
      /\ search' = IF search.phase = "running" THEN [search EXCEPT !.left = search.left - 1]
                   ELSE search
  BY DEF Tick, network
<1>2. /\ silent \in [Index -> 0..(StaleAfter + 1)]
      /\ tried \in [Index -> 0..RecoverEvery]
      /\ waiting \in [Index -> 0..(WaitBound + 1)] /\ WaitBound \in Nat
      /\ search \in [phase : {"idle", "running", "done", "failed"},
                     left : 0..DiscoverFor, found : [Index -> Addr \cup {NoAddr}]]
  BY DEF StreamInv, TypeOK, WaitBound
<1>3. silent' \in [Index -> 0..(StaleAfter + 1)]
  <2>1. \A i \in Index : UpTo(StaleAfter + 1, silent[i] + 1) \in 0..(StaleAfter + 1)
    <3>1. \A i \in Index : silent[i] + 1 \in Nat
      BY <1>2
    <3> QED
      BY <3>1 DEF UpTo
  <2> QED
    BY <1>1, <2>1
<1>4. tried' \in [Index -> 0..RecoverEvery]
  <2>1. \A i \in Index : UpTo(RecoverEvery, tried[i] + 1) \in 0..RecoverEvery
    <3>1. \A i \in Index : tried[i] + 1 \in Nat
      BY <1>2
    <3> QED
      BY <3>1 DEF UpTo
  <2> QED
    BY <1>1, <2>1
<1>5. \A i \in Index : UpTo(WaitBound + 1, waiting[i] + 1) \in 0..(WaitBound + 1)
                       /\ UpTo(WaitBound + 1, waiting[i] + 1) <= waiting[i] + 1
  <2>1. \A i \in Index : waiting[i] + 1 \in Nat
    BY <1>2
  <2> QED
    BY <1>2, <2>1 DEF UpTo
<1>6. waiting' \in [Index -> 0..(WaitBound + 1)]
  BY <1>1, <1>2, <1>5
<1>7. /\ search' \in [phase : {"idle", "running", "done", "failed"},
                      left : 0..DiscoverFor, found : [Index -> Addr \cup {NoAddr}]]
      /\ search'.phase = search.phase
      /\ search.phase = "running" => search'.left = search.left - 1
  BY <1>1, <1>2
<1>8. TypeOK'
  BY <1>1, <1>3, <1>4, <1>6, <1>7 DEF StreamInv, TypeOK
<1>9. ASSUME NEW i \in Index
      PROVE  /\ tried'[i] < RecoverEvery => waiting'[i] <= tried'[i]
             /\ PhaseBound(i)' /\ waiting'[i] <= WaitBound
  <2>1. waiting[i] \in Nat /\ tried[i] \in 0..RecoverEvery /\ waiting'[i] \in Nat
    BY <1>2, <1>6
  <2>2. CASE ~Stale(i)
    <3>1. waiting'[i] = 0
      BY <1>1, <2>2
    <3> QED
      BY <1>2, <1>4, <1>7, <3>1 DEF PhaseBound, Span
  <2>3. CASE Stale(i)
    <3>1. waiting'[i] <= waiting[i] + 1
      BY <1>1, <1>5, <2>3
    <3>2. tried'[i] < RecoverEvery => tried'[i] = tried[i] + 1 /\ tried[i] < RecoverEvery
      BY <1>1, <2>1 DEF UpTo
    <3>3. tried'[i] < RecoverEvery => waiting'[i] <= tried'[i]
      BY <2>1, <3>1, <3>2 DEF StreamInv, SinceTried
    <3>4. CASE search.phase = "running"
      <4>1. waiting[i] + search.left <= Span /\ search.left \in Nat /\ search.left > 0
        BY <1>1, <1>2, <2>3, <3>4 DEF StreamInv, PhaseBound
      <4>2. waiting'[i] + search'.left <= Span /\ waiting'[i] <= WaitBound
        BY <1>7, <2>1, <3>1, <3>4, <4>1 DEF Span, WaitBound
      <4> QED
        BY <1>7, <3>3, <3>4, <4>2 DEF PhaseBound
    <3>5. CASE search.phase = "idle"
      <4>1. waiting[i] <= Span
        BY <1>1, <2>3, <3>5 DEF StreamInv, PhaseBound
      <4>2. waiting'[i] <= WaitBound
        BY <2>1, <3>1, <4>1 DEF Span, WaitBound
      <4> QED
        BY <1>1, <1>7, <3>3, <3>5, <4>2 DEF PhaseBound
    <3> QED
      BY <1>1, <1>2, <3>4, <3>5
  <2> QED
    BY <2>2, <2>3
<1> QED
  BY <1>1, <1>8, <1>9 DEF StreamInv, BootsAreDisturbances, SinceTried, RetriedInTime

LEMMA NextStreamInv == StreamInv /\ [Next]_vars => StreamInv'
<1> SUFFICES ASSUME StreamInv, [Next]_vars PROVE StreamInv'
  OBVIOUS
<1>1. CASE Loop
  BY <1>1, SendKeeps, StatusKeeps, EndKeeps, ApplyKeeps, TickKeeps DEF Loop
<1>2. CASE Network
  BY <1>2, NetworkKeeps, KeepaliveKeeps, AnswerKeeps DEF Network
<1>3. CASE UNCHANGED vars
  <2>1. TypeOK'
    BY <1>3 DEF vars, StreamInv, TypeOK
  <2> QED
    BY <1>3, <2>1, ClocksKept DEF vars, StreamInv, BootsAreDisturbances
<1> QED
  BY <1>1, <1>2, <1>3 DEF Next

LEMMA StreamAlways == Spec => []StreamInv
  BY InitStreamInv, NextStreamInv, PTL DEF Spec

\* Every variable of the loop has its type.
THEOREM StreamTyped == Spec => []TypeOK
  BY StreamAlways, PTL DEF StreamInv

\* No stale route waits longer for a discovery than its retry interval and one
\* discovery together, however many routes and whatever goes wrong.
THEOREM RouteRetriedInTime == Spec => []RetriedInTime
  BY StreamAlways, PTL DEF StreamInv
=============================================================================
