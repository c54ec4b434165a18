---------------------------- MODULE CommandsProofs -----------------------------
(***************************************************************************)
(* The commands a PC sends to its Picos: which of them a Pico acts on      *)
(* (UdpSession), and what a flow of commands may conclude from the answers *)
(* (ModeFlows).                                                            *)
(*                                                                         *)
(* UdpSession: any number of processes and PCs, any network, any number of *)
(* boots and restarts.  Three arguments meet here: counters of a process   *)
(* grow over its restarts because the wall clock does; a frame with the    *)
(* nonce of a boot was sealed after that boot began, so after everything   *)
(* that earlier boots acted on; and a challenge still in the ring was made *)
(* by the process that looks for it, so an answer to it is no older.       *)
(*                                                                         *)
(* ModeFlows: any Picos, hosts and wishes.  A flow works from the personas *)
(* it heard last; the invariant says of which Picos that is still so, at   *)
(* each place of each flow.  A request changes one Pico at most, so what a *)
(* flow knows of the others stands.                                        *)
(***************************************************************************)
EXTENDS UdpSession, ModeFlows, SequenceTheorems, WellFoundedInduction, TLAPS

InRing(p, c) == \E i \in 1 .. Len(ring[p]) : ring[p][i] = c

\* The signed frames, by whom, for which boot and in which order.
Frames ==
    /\ \A m \in SignedSent :
           /\ m.from \in Processes /\ m.signer = PcOf[m.from]
           /\ m.nonce \in 1 .. boot /\ m.counter \in Nat /\ m.at \in 1 .. sealed
           /\ m.counter <= counter[m.from] \/ m.counter < wall
    /\ \A g, m \in SignedSent :
           g.from = m.from /\ g.counter < m.counter => g.at < m.at

\* What the boots have acted on.
Acts ==
    /\ acted \subseteq SignedSent
    /\ \A g \in acted, m \in SignedSent : g.nonce < m.nonce => g.at < m.at
    /\ \A g \in acted : g.nonce = boot => g.counter <= lastCounter
    /\ mode = "opening" => \A g \in acted : g.nonce < boot

\* The answers to challenges, and the sessions learnt from them.
Answers ==
    /\ \A m \in net : m.kind = "discover" => m.challenge \in 1 .. made
    /\ \A m \in net : m.kind = "ext_ack" =>
           /\ m.challenge \in 1 .. made /\ m.nonce \in 1 .. boot
           /\ \A p \in Processes : InRing(p, m.challenge) => since[p] <= m.nonce
    /\ SessionIsRecent

\* A pending reboot, and what lets a plain request in.
Orders ==
    /\ RebootsOnlyForItsPc
    /\ recoveryOpen => recoveryBoot
    /\ mode = "opening" => authKey = NoKey

IInv == TypeOK /\ Frames /\ Acts /\ Answers /\ Orders

-----------------------------------------------------------------------------

\* The ring after a discovery holds what it held, or the new challenge.
LEMMA RememberIn ==
  ASSUME NEW s \in Seq(Nat), NEW c \in Nat, Len(s) <= RingSize
  PROVE  /\ Remember(s, c) \in Seq(Nat) /\ Len(Remember(s, c)) <= RingSize
         /\ \A i \in 1 .. Len(Remember(s, c)) :
                \/ Remember(s, c)[i] = c
                \/ \E j \in 1 .. Len(s) : s[j] = Remember(s, c)[i]
<1>1. CASE Len(s) = RingSize
  <2>1. s # <<>>
    BY <1>1, UdpSessionAssumption
  <2>2. /\ Tail(s) \in Seq(Nat) /\ Len(Tail(s)) = Len(s) - 1
        /\ \A i \in 1 .. Len(s) - 1 : Tail(s)[i] = s[i + 1]
    BY <2>1
  <2>3. Remember(s, c) = Append(Tail(s), c)
    BY <1>1 DEF Remember
  <2> QED
    BY <1>1, <2>2, <2>3
<1>2. CASE Len(s) # RingSize
  <2>1. Remember(s, c) = Append(s, c) /\ Len(s) + 1 <= RingSize
    BY <1>2, UdpSessionAssumption DEF Remember
  <2> QED
    BY <2>1
<1> QED
  BY <1>1, <1>2

LEMMA NextCounterGrows ==
  ASSUME TypeOK, NEW p \in Processes
  PROVE  /\ NextCounter(p) \in Nat /\ NextCounter(p) > counter[p] /\ NextCounter(p) >= wall
  BY DEF TypeOK, NextCounter

LEMMA SessionKinds ==
  /\ Unknown.state # "paired" /\ Open.state # "paired" /\ Locked.state # "paired"
  /\ \A n : Paired(n).state = "paired" /\ Paired(n).nonce = n
  BY DEF Unknown, Open, Locked, Paired

LEMMA InitIInv == Init => IInv
<1> SUFFICES ASSUME Init PROVE IInv
  OBVIOUS
<1>1. TypeOK
  <2>1. session \in [Processes -> SessionValues]
    BY DEF Init, SessionValues
  <2>2. <<>> \in Seq(Nat) /\ Len(<<>>) = 0
    OBVIOUS
  <2>3. ring \in [Processes -> Seq(Nat)] /\ \A p \in Processes : Len(ring[p]) <= RingSize
    BY <2>2, UdpSessionAssumption DEF Init
  <2>4. since \in [Processes -> 1 .. boot] /\ counter \in [Processes -> Nat]
    BY DEF Init
  <2>5. wall = 1 /\ boot = 1 /\ made = 0 /\ sealed = 0 /\ lastCounter = 0
    BY DEF Init
  <2>6. /\ mode = "setup" /\ key = NoKey /\ authKey = NoKey /\ stored = {} /\ streaming = {}
        /\ recoveryOpen = FALSE /\ recoveryBoot = TRUE /\ rebootPending = FALSE
    BY DEF Init
  <2>7. recoveryOpen \in BOOLEAN /\ recoveryBoot \in BOOLEAN /\ rebootPending \in BOOLEAN
    BY <2>6
  <2>8. /\ wall \in Nat \ {0} /\ boot \in Nat \ {0} /\ made \in Nat /\ sealed \in Nat
        /\ lastCounter \in Nat /\ mode \in {"setup", "opening", "up"}
        /\ key \in Pcs \cup {NoKey} /\ authKey \in Pcs \cup {NoKey}
        /\ stored \subseteq Pcs /\ streaming \subseteq Processes
    BY <2>5, <2>6
  <2> QED
    BY <2>1, <2>3, <2>4, <2>7, <2>8, Zenon DEF TypeOK
<1>2. SessionIsRecent
  BY SessionKinds DEF Init, SessionIsRecent
<1> QED
  BY <1>1, <1>2 DEF Init, IInv, Frames, Acts, Answers, Orders, SignedSent, RebootsOnlyForItsPc

-----------------------------------------------------------------------------
(* The bridge.                                                             *)

\* Steps of a process that send nothing.
LEMMA QuietIInv ==
  ASSUME IInv, NEW p \in Processes, AcceptOpenAck(p) \/ StartStream(p) \/ SaveKey(p)
  PROVE  IInv'
<1>1. /\ UNCHANGED <<net, wall, pico, ring, counter, made, sealed, since>>
      /\ stored' \subseteq Pcs /\ streaming' \subseteq Processes
      /\ \/ session' = session
         \/ session' = [session EXCEPT ![p] = Open]
  BY UdpSessionAssumption DEF AcceptOpenAck, StartStream, SaveKey, IInv, TypeOK
<1>2. session' \in [Processes -> SessionValues']
  BY <1>1 DEF IInv, TypeOK, SessionValues, pico
<1>3. SessionIsRecent'
  BY <1>1, SessionKinds DEF IInv, TypeOK, Answers, SessionIsRecent
<1> QED
  BY <1>1, <1>2, <1>3
  DEF IInv, TypeOK, Frames, Acts, Answers, Orders, SignedSent, RebootsOnlyForItsPc, InRing, pico

LEMMA AcceptIInv ==
  ASSUME IInv, NEW p \in Processes, NEW m \in net, NEW readable, AcceptExtAck(p, m, readable)
  PROVE  IInv'
<1>1. /\ UNCHANGED <<net, wall, pico, stored, ring, counter, streaming, made, sealed, since>>
      /\ m.kind = "ext_ack"
      /\ \/ session' = [session EXCEPT ![p] = Locked]
         \/ InRing(p, m.challenge) /\ session' = [session EXCEPT ![p] = Paired(m.nonce)]
  BY DEF AcceptExtAck, Genuine, InRing
<1>2. m.nonce \in 1 .. boot /\ (InRing(p, m.challenge) => since[p] <= m.nonce)
  BY <1>1 DEF IInv, Answers
<1>3. session' \in [Processes -> SessionValues']
  BY <1>1, <1>2 DEF IInv, TypeOK, SessionValues, pico
<1>4. SessionIsRecent'
  BY <1>1, <1>2, SessionKinds DEF IInv, TypeOK, Answers, SessionIsRecent
<1> QED
  BY <1>1, <1>3, <1>4
  DEF IInv, TypeOK, Frames, Acts, Answers, Orders, SignedSent, RebootsOnlyForItsPc, InRing, pico

\* A new process has an empty ring and has seen this boot only; the wall clock is
\* ahead of every counter it used before.
LEMMA RestartIInv == ASSUME IInv, NEW p \in Processes, Restart(p) PROVE IInv'
<1>1. /\ UNCHANGED <<net, wall, pico, stored, made, sealed>>
      /\ session' = [session EXCEPT ![p] = Unknown]
      /\ ring' = [ring EXCEPT ![p] = <<>>]
      /\ counter' = [counter EXCEPT ![p] = 0]
      /\ streaming' = streaming \ {p}
      /\ since' = [since EXCEPT ![p] = boot]
      /\ wall > counter[p]
  BY DEF Restart
<1>2. TypeOK'
  <2>1. session' \in [Processes -> SessionValues']
    BY <1>1 DEF IInv, TypeOK, SessionValues, pico
  <2>2. <<>> \in Seq(Nat) /\ Len(<<>>) = 0
    OBVIOUS
  <2>3. ring' \in [Processes -> Seq(Nat)] /\ \A q \in Processes : Len(ring'[q]) <= RingSize
    BY <1>1, <2>2, UdpSessionAssumption DEF IInv, TypeOK
  <2>4. since' \in [Processes -> 1 .. boot] /\ counter' \in [Processes -> Nat]
    BY <1>1 DEF IInv, TypeOK
  <2> QED
    BY <1>1, <2>1, <2>3, <2>4 DEF IInv, TypeOK, pico
<1>3. Frames'
  BY <1>1 DEF IInv, TypeOK, Frames, SignedSent, pico
<1>4. Acts' /\ Orders'
  BY <1>1 DEF IInv, Acts, Orders, SignedSent, RebootsOnlyForItsPc, pico
<1>5. SessionIsRecent'
  BY <1>1, SessionKinds DEF IInv, TypeOK, Answers, SessionIsRecent
<1>6. \A q \in Processes :
        /\ q # p => ring'[q] = ring[q] /\ since'[q] = since[q]
        /\ q = p => Len(ring'[q]) = 0
  BY <1>1 DEF IInv, TypeOK
<1>7. ASSUME NEW q \in Processes, NEW c, InRing(q, c)' PROVE q # p /\ InRing(q, c)
  <2>1. CASE q = p
    BY <1>6, <1>7, <2>1 DEF InRing
  <2>2. CASE q # p
    <3>1. ring'[q] = ring[q]
      BY <1>6, <1>7, <2>2
    <3> QED
      BY <1>7, <2>2, <3>1 DEF InRing
  <2> QED
    BY <2>1, <2>2
<1>8. Answers'
  BY <1>1, <1>5, <1>6, <1>7 DEF IInv, Answers, pico
<1> QED
  BY <1>2, <1>3, <1>4, <1>8 DEF IInv

LEMMA ClockIInv == ASSUME IInv, Clock PROVE IInv'
<1>1. wall' = wall + 1 /\ UNCHANGED <<net, pico, bridge>> /\ wall \in Nat
  BY DEF Clock, IInv, TypeOK
<1>2. TypeOK'
  BY <1>1 DEF IInv, TypeOK, SessionValues, pico, bridge
<1>3. Frames'
  BY <1>1 DEF IInv, TypeOK, Frames, SignedSent, pico, bridge
<1> QED
  BY <1>1, <1>2, <1>3 DEF IInv, Acts, Answers, Orders, SignedSent, RebootsOnlyForItsPc,
     SessionIsRecent, InRing, pico, bridge

\* No answer to the new challenge is about yet.
LEMMA DiscoverIInv == ASSUME IInv, NEW p \in Processes, SendDiscover(p) PROVE IInv'
<1>1. /\ made' = made + 1 /\ made \in Nat
      /\ ring' = [ring EXCEPT ![p] = Remember(ring[p], made + 1)]
      /\ net' = net \cup {Discover(p, made + 1)}
      /\ UNCHANGED <<wall, pico, stored, session, counter, streaming, sealed, since>>
  BY DEF SendDiscover, IInv, TypeOK
<1>2. Discover(p, made + 1).kind = "discover" /\ Discover(p, made + 1).challenge = made + 1
  BY DEF Discover
<1>3. SignedSent' = SignedSent
  BY <1>1, <1>2 DEF SignedSent
<1>4. ring[p] \in Seq(Nat) /\ Len(ring[p]) <= RingSize /\ made + 1 \in Nat
  BY <1>1 DEF IInv, TypeOK
<1>5. ring' \in [Processes -> Seq(Nat)] /\ \A q \in Processes : Len(ring'[q]) <= RingSize
  BY <1>1, <1>4, RememberIn DEF IInv, TypeOK
<1>6. TypeOK'
  BY <1>1, <1>5 DEF IInv, TypeOK, SessionValues, pico
<1>7. \A q \in Processes : \A c : InRing(q, c)' => InRing(q, c) \/ c = made + 1
  <2>1. ASSUME NEW q \in Processes, NEW c, InRing(q, c)', q # p PROVE InRing(q, c)
    BY <1>1, <2>1 DEF InRing, IInv, TypeOK
  <2>2. ASSUME NEW c, InRing(p, c)' PROVE InRing(p, c) \/ c = made + 1
    <3>1. ring'[p] = Remember(ring[p], made + 1)
      BY <1>1 DEF IInv, TypeOK
    <3>2. PICK i \in 1 .. Len(Remember(ring[p], made + 1)) :
            Remember(ring[p], made + 1)[i] = c
      BY <2>2, <3>1 DEF InRing
    <3> QED
      BY <1>4, <3>2, RememberIn DEF InRing
  <2> QED
    BY <2>1, <2>2
<1>8. SessionIsRecent'
  BY <1>1 DEF IInv, Answers, SessionIsRecent
<1>9. \A m \in net' : m.kind = "ext_ack" =>
        /\ m.challenge \in 1 .. made' /\ m.nonce \in 1 .. boot
        /\ \A q \in Processes : InRing(q, m.challenge)' => since[q] <= m.nonce
  <2> SUFFICES ASSUME NEW m \in net, m.kind = "ext_ack"
               PROVE  /\ m.challenge \in 1 .. made' /\ m.nonce \in 1 .. boot
                      /\ \A q \in Processes : InRing(q, m.challenge)' => since[q] <= m.nonce
    BY <1>1, <1>2
  <2>1. m.challenge \in 1 .. made
    BY DEF IInv, Answers
  <2> QED
    BY <1>1, <1>7, <2>1 DEF IInv, Answers
<1>10. \A m \in net' : m.kind = "discover" => m.challenge \in 1 .. made'
  BY <1>1, <1>2 DEF IInv, Answers
<1>11. Answers'
  BY <1>1, <1>8, <1>9, <1>10 DEF Answers, pico
<1> QED
  BY <1>1, <1>3, <1>6, <1>11
  DEF IInv, Frames, Acts, Orders, RebootsOnlyForItsPc, pico

-----------------------------------------------------------------------------
(* Sealing.                                                                *)

\* A signed frame is the latest of all and has the highest counter of its process.
LEMMA SealIInv ==
  ASSUME IInv, NEW p \in Processes, NEW type, Seal(p, type), streaming' = streaming
  PROVE  IInv'
<1> DEFINE n == NextCounter(p)
           new == Signed(p, type, PcOf[p], session[p].nonce, n, sealed + 1)
<1>1. /\ n \in Nat /\ n > counter[p] /\ n >= wall
      /\ counter' = [counter EXCEPT ![p] = n] /\ counter[p] \in Nat
      /\ wall \in Nat /\ sealed \in Nat /\ boot \in Nat
      /\ UNCHANGED <<wall, pico, stored, session, ring, made, since>>
  BY NextCounterGrows DEF Seal, IInv, TypeOK
<1>2. counter' \in [Processes -> Nat] /\ counter'[p] = n
      /\ \A q \in Processes : counter[q] <= counter'[q]
  BY <1>1 DEF IInv, TypeOK
<1>3. CASE session[p].state = "paired"
  <2>1. session[p].nonce \in 1 .. boot
    <3>1. session[p] \in SessionValues
      BY DEF IInv, TypeOK
    <3>2. PICK i \in 1 .. boot : session[p] = Paired(i)
      BY <1>3, <3>1, SessionKinds DEF SessionValues
    <3> QED
      BY <3>2, SessionKinds
  <2>2. /\ new.kind = "signed" /\ new.from = p /\ new.signer = PcOf[p]
        /\ new.nonce = session[p].nonce /\ new.counter = n /\ new.at = sealed + 1
    BY DEF Signed
  <2>3. net' = net \cup {new} /\ sealed' = sealed + 1
    BY <1>3 DEF Seal
  <2> HIDE DEF n, new
  <2>4. SignedSent' = SignedSent \cup {new}
    BY <2>2, <2>3 DEF SignedSent
  <2>5. TypeOK'
    BY <1>1, <1>2, <2>3 DEF IInv, TypeOK, SessionValues, pico
  <2>6. \A m \in SignedSent : m.at < new.at
    BY <1>1, <2>2 DEF IInv, Frames
  <2>7. \A m \in SignedSent : m.from = p => m.counter < new.counter
    BY <1>1, <2>2 DEF IInv, Frames
  <2>8. Frames'
    <3>1. ASSUME NEW m \in SignedSent'
          PROVE  /\ m.from \in Processes /\ m.signer = PcOf[m.from]
                 /\ m.nonce \in 1 .. boot /\ m.counter \in Nat /\ m.at \in 1 .. sealed'
                 /\ m.counter <= counter'[m.from] \/ m.counter < wall
      <4>1. CASE m = new
        BY <1>1, <1>2, <2>1, <2>2, <2>3, <4>1
      <4>2. CASE m \in SignedSent
        BY <1>1, <1>2, <2>3, <4>2 DEF IInv, Frames, TypeOK
      <4> QED
        BY <2>4, <4>1, <4>2
    <3>2. ASSUME NEW g \in SignedSent', NEW m \in SignedSent',
                 g.from = m.from, g.counter < m.counter
          PROVE  g.at < m.at
      <4>1. CASE g \in SignedSent /\ m \in SignedSent
        BY <3>2, <4>1 DEF IInv, Frames
      <4>2. CASE g \in SignedSent /\ m = new
        BY <2>6, <4>2
      <4>3. CASE g = new /\ m \in SignedSent
        <5>1. m.counter < g.counter /\ m.counter \in Nat /\ g.counter \in Nat
          BY <1>1, <2>2, <2>7, <3>2, <4>3 DEF IInv, Frames
        <5> QED
          BY <3>2, <5>1
      <4>4. CASE g = new /\ m = new
        BY <1>1, <2>2, <3>2, <4>4
      <4> QED
        BY <2>4, <4>1, <4>2, <4>3, <4>4
    <3> QED
      BY <1>1, <3>1, <3>2 DEF Frames, pico
  <2>9. Acts'
    <3>1. ASSUME NEW g \in acted, NEW m \in SignedSent', g.nonce < m.nonce PROVE g.at < m.at
      BY <2>4, <2>6, <3>1 DEF IInv, Acts
    <3> QED
      BY <1>1, <2>4, <3>1 DEF IInv, Acts, pico
  <2>10. Answers'
    BY <1>1, <2>2, <2>3 DEF IInv, Answers, InRing, SessionIsRecent, pico
  <2> QED
    BY <1>1, <2>5, <2>8, <2>9, <2>10 DEF IInv, Orders, RebootsOnlyForItsPc, pico
<1>4. CASE session[p].state # "paired"
  <2>1. net' = net \cup {Plain(p, type)} /\ sealed' = sealed /\ Plain(p, type).kind = "plain"
    BY <1>4 DEF Seal, Plain
  <2>2. SignedSent' = SignedSent
    BY <2>1 DEF SignedSent
  <2> HIDE DEF n
  <2>3. TypeOK'
    BY <1>1, <1>2, <2>1 DEF IInv, TypeOK, SessionValues, pico
  <2>4. Frames'
    BY <1>1, <1>2, <2>1, <2>2 DEF IInv, TypeOK, Frames, pico
  <2>5. Answers'
    BY <1>1, <2>1 DEF IInv, Answers, InRing, SessionIsRecent, pico
  <2> QED
    BY <1>1, <2>2, <2>3, <2>4, <2>5 DEF IInv, Acts, Orders, RebootsOnlyForItsPc, pico
<1> QED
  BY <1>3, <1>4

-----------------------------------------------------------------------------
(* The Pico.                                                               *)

\* A new boot: no frame has its nonce yet, so none acted on has.
LEMMA BootIInv ==
  ASSUME IInv, NEW next \in {"setup", "opening"}, NEW physical \in BOOLEAN,
         Boot(next, physical)
  PROVE  IInv'
<1>1. /\ mode' = next /\ boot' = boot + 1 /\ boot \in Nat \ {0}
      /\ authKey' = NoKey /\ lastCounter' = 0 /\ recoveryOpen' = FALSE
      /\ recoveryBoot' \in BOOLEAN /\ rebootPending' = FALSE
      /\ UNCHANGED <<net, wall, key, acted, bridge>>
  BY DEF Boot, IInv, TypeOK
<1>2. UNCHANGED <<stored, session, ring, counter, streaming, made, sealed, since>>
  BY <1>1 DEF bridge
<1>3. TypeOK'
  <2>1. SessionValues \subseteq SessionValues'
    BY <1>1 DEF SessionValues
  <2>2. session' \in [Processes -> SessionValues'] /\ since' \in [Processes -> 1 .. boot']
    BY <1>1, <1>2, <2>1 DEF IInv, TypeOK
  <2>3. /\ boot' \in Nat \ {0} /\ lastCounter' \in Nat /\ mode' \in {"setup", "opening", "up"}
        /\ authKey' \in Pcs \cup {NoKey}
    BY <1>1
  <2>4. recoveryOpen' \in BOOLEAN /\ rebootPending' \in BOOLEAN
    BY <1>1
  <2>6. /\ wall \in Nat \ {0} /\ made \in Nat /\ sealed \in Nat /\ key \in Pcs \cup {NoKey}
        /\ stored \subseteq Pcs /\ streaming \subseteq Processes
        /\ counter \in [Processes -> Nat]
    BY DEF IInv, TypeOK
  <2>5. ring' \in [Processes -> Seq(Nat)] /\ \A p \in Processes : Len(ring'[p]) <= RingSize
    BY <1>2 DEF IInv, TypeOK
  <2> QED
    BY <1>1, <1>2, <2>2, <2>3, <2>5, <2>6, <2>4, Zenon DEF TypeOK
<1>4. SignedSent' = SignedSent
  BY <1>1 DEF SignedSent
<1>5. \A m \in SignedSent : m.nonce \in 1 .. boot /\ m.nonce < boot' /\ m.nonce \in 1 .. boot'
  BY <1>1 DEF IInv, Frames
<1>6. Frames'
  BY <1>1, <1>2, <1>4, <1>5 DEF IInv, Frames
<1>7. Acts'
  BY <1>1, <1>4, <1>5 DEF IInv, Acts
<1>8. Answers'
  BY <1>1, <1>2 DEF IInv, Answers, SessionIsRecent, InRing
<1>9. Orders'
  BY <1>1 DEF Orders, RebootsOnlyForItsPc
<1> QED
  BY <1>3, <1>6, <1>7, <1>8, <1>9 DEF IInv

\* Until its end net_udp_init has acted on nothing signed, and then it drops what
\* came unsigned.
LEMMA NetUpIInv == ASSUME IInv, NetUp PROVE IInv'
<1>1. /\ mode = "opening" /\ mode' = "up" /\ authKey' = key /\ lastCounter' = 0
      /\ recoveryOpen' \in BOOLEAN /\ (recoveryOpen' => recoveryBoot)
      /\ rebootPending' = FALSE
      /\ UNCHANGED <<net, wall, boot, key, recoveryBoot, acted, bridge>>
  BY DEF NetUp
<1>2. UNCHANGED <<stored, session, ring, counter, streaming, made, sealed, since>>
  BY <1>1 DEF bridge
<1>3. TypeOK'
  BY <1>1, <1>2 DEF IInv, TypeOK, SessionValues
<1>4. SignedSent' = SignedSent
  BY <1>1 DEF SignedSent
<1>5. Frames'
  BY <1>1, <1>2, <1>4 DEF IInv, Frames
<1>6. \A g \in acted : g.nonce < boot /\ g.nonce \in 1 .. boot /\ boot \in Nat
  BY <1>1 DEF IInv, Acts, Frames, TypeOK
<1>7. Acts'
  BY <1>1, <1>4, <1>6 DEF IInv, Acts
<1>8. Answers'
  BY <1>1, <1>2 DEF IInv, Answers, SessionIsRecent, InRing
<1>9. Orders'
  BY <1>1 DEF Orders, RebootsOnlyForItsPc
<1> QED
  BY <1>3, <1>5, <1>7, <1>8, <1>9 DEF IInv

\* A key given over USB is loaded by the next boot; the recovery window only closes.
LEMMA KeyIInv ==
  ASSUME IInv, CloseRecovery \/ \E p \in Processes : SetAuthKey(p) PROVE IInv'
<1>1. /\ key' \in Pcs \cup {NoKey} /\ recoveryOpen' \in BOOLEAN
      /\ recoveryOpen' => recoveryOpen
      /\ UNCHANGED <<net, wall, mode, boot, authKey, lastCounter, recoveryBoot,
                     rebootPending, acted, order, bridge>>
  <2>1. CASE CloseRecovery
    BY <2>1 DEF CloseRecovery, IInv, TypeOK
  <2>2. ASSUME NEW p \in Processes, SetAuthKey(p)
        PROVE  /\ key' \in Pcs /\ recoveryOpen' = recoveryOpen
               /\ UNCHANGED <<net, wall, mode, boot, authKey, lastCounter, recoveryBoot,
                              rebootPending, acted, order, bridge>>
    BY <2>2, UdpSessionAssumption DEF SetAuthKey
  <2>3. recoveryOpen \in BOOLEAN
    BY DEF IInv, TypeOK
  <2> QED
    BY <2>1, <2>2, <2>3
<1>2. UNCHANGED <<stored, session, ring, counter, streaming, made, sealed, since>>
  BY <1>1 DEF bridge
<1>3. TypeOK'
  BY <1>1, <1>2 DEF IInv, TypeOK, SessionValues
<1> QED
  BY <1>1, <1>2, <1>3
  DEF IInv, Frames, Acts, Answers, Orders, SignedSent, RebootsOnlyForItsPc, SessionIsRecent,
      InRing

\* An answer names this boot, which no running process is younger than.
LEMMA AnswerIInv == ASSUME IInv, NEW m \in net, AnswerDiscover(m) PROVE IInv'
<1> DEFINE new == IF authKey = NoKey THEN OpenAck(m.from)
                  ELSE ExtAck(m.from, authKey, boot, m.challenge)
<1>1. net' = net \cup {new} /\ UNCHANGED <<wall, pico, bridge>> /\ m.kind = "discover"
  BY DEF AnswerDiscover
<1>2. new.kind = "open_ack" \/ (/\ new.kind = "ext_ack" /\ new.nonce = boot
                                /\ new.challenge = m.challenge)
  BY DEF OpenAck, ExtAck
<1>3. m.challenge \in 1 .. made
  BY <1>1 DEF IInv, Answers
<1> HIDE DEF new
<1>4. SignedSent' = SignedSent
  BY <1>1, <1>2 DEF SignedSent
<1>5. boot \in Nat \ {0} /\ \A p \in Processes : since[p] <= boot
  BY DEF IInv, TypeOK
<1>6. Answers'
  <2>1. \A d \in net' : d.kind = "discover" => d.challenge \in 1 .. made
    BY <1>1, <1>2 DEF IInv, Answers
  <2>2. \A d \in net' : d.kind = "ext_ack" =>
          /\ d.challenge \in 1 .. made /\ d.nonce \in 1 .. boot
          /\ \A p \in Processes : InRing(p, d.challenge) => since[p] <= d.nonce
    BY <1>1, <1>2, <1>3, <1>5 DEF IInv, Answers
  <2> QED
    BY <1>1, <2>1, <2>2 DEF IInv, Answers, InRing, SessionIsRecent, pico, bridge
<1>7. TypeOK'
  BY <1>1 DEF IInv, TypeOK, SessionValues, pico, bridge
<1> QED
  BY <1>1, <1>4, <1>6, <1>7
  DEF IInv, Frames, Acts, Orders, RebootsOnlyForItsPc, pico, bridge

\* Unsigned commands get through before the key is loaded, without one, or in the
\* window after a physical reset.
LEMMA PlainIInv == ASSUME IInv, NEW m \in net, ActOnPlain(m) PROVE IInv'
<1>1. /\ UNCHANGED <<net, wall, mode, boot, key, authKey, lastCounter, recoveryOpen,
                     recoveryBoot, acted, bridge>>
      /\ authKey = NoKey \/ recoveryBoot
      /\ rebootPending' \in BOOLEAN
  BY DEF ActOnPlain, Obey, IInv, TypeOK, Orders
<1>2. UNCHANGED <<stored, session, ring, counter, streaming, made, sealed, since>>
  BY <1>1 DEF bridge
<1>3. TypeOK'
  BY <1>1, <1>2 DEF IInv, TypeOK, SessionValues
<1>4. Orders'
  BY <1>1 DEF IInv, Orders, RebootsOnlyForItsPc
<1> QED
  BY <1>1, <1>2, <1>3, <1>4
  DEF IInv, Frames, Acts, Answers, SignedSent, SessionIsRecent, InRing

\* What the checks of udp_auth_check amount to.
LEMMA SignedFacts ==
  ASSUME IInv, NEW m \in SignedSent, ActOnSigned(m)
  PROVE  /\ m.nonce = boot /\ m.signer = authKey /\ m.signer = PcOf[m.from]
         /\ m.counter \in Nat /\ m.counter > lastCounter /\ mode # "opening"
         /\ \A g \in acted : g.counter \in Nat /\ g.nonce \in 1 .. boot
  BY DEF ActOnSigned, Verified, IInv, Frames, Acts, Orders

LEMMA SignedIInv == ASSUME IInv, NEW m \in SignedSent, ActOnSigned(m) PROVE IInv'
<1>1. /\ UNCHANGED <<net, wall, mode, boot, key, authKey, recoveryOpen,
                     recoveryBoot, bridge>>
      /\ lastCounter' = m.counter /\ acted' = acted \cup {m}
      /\ rebootPending' = (rebootPending \/ m.type = "reboot_to_setup")
      /\ order' = IF m.type = "reboot_to_setup" THEN m ELSE order
  BY DEF ActOnSigned, Obey
<1>2. UNCHANGED <<stored, session, ring, counter, streaming, made, sealed, since>>
  BY <1>1 DEF bridge
<1>3. SignedSent' = SignedSent /\ m.kind = "signed"
  BY <1>1 DEF SignedSent
<1>4. TypeOK'
  BY <1>1, <1>2, SignedFacts DEF IInv, TypeOK, SessionValues
<1>5. Acts'
  <2>1. acted' \subseteq SignedSent
    BY <1>1 DEF IInv, Acts
  <2>2. ASSUME NEW g \in acted', NEW f \in SignedSent, g.nonce < f.nonce PROVE g.at < f.at
    <3>1. CASE g = m
      BY <2>2, <3>1, SignedFacts DEF IInv, Frames, TypeOK
    <3>2. CASE g \in acted
      BY <2>2, <3>2 DEF IInv, Acts
    <3> QED
      BY <1>1, <2>2, <3>1, <3>2
  <2>3. ASSUME NEW g \in acted', g.nonce = boot PROVE g.counter <= m.counter
    <3>1. CASE g = m
      BY <3>1, SignedFacts
    <3>2. CASE g \in acted
      BY <2>3, <3>2, SignedFacts DEF IInv, Acts, TypeOK
    <3> QED
      BY <1>1, <2>3, <3>1, <3>2
  <2> QED
    BY <1>1, <1>3, <2>1, <2>2, <2>3, SignedFacts DEF Acts
<1>6. Orders'
  BY <1>1, <1>3, SignedFacts DEF IInv, Orders, RebootsOnlyForItsPc
<1> QED
  BY <1>1, <1>2, <1>3, <1>4, <1>5, <1>6
  DEF IInv, Frames, Answers, SessionIsRecent, InRing

-----------------------------------------------------------------------------

LEMMA NextIInv == IInv /\ [Next]_vars => IInv'
<1> SUFFICES ASSUME IInv, [Next]_vars PROVE IInv'
  OBVIOUS
<1>1. ASSUME NEW p \in Processes, SendState(p) \/ RequestReboot(p) PROVE IInv'
  BY <1>1, SealIInv DEF SendState, RequestReboot
<1>2. CASE PlugIn \/ WatchdogReset \/ RebootToSetup
  BY <1>2, BootIInv DEF PlugIn, WatchdogReset, RebootToSetup
<1>3. ASSUME NEW m \in net, ActOnSigned(m) PROVE IInv'
  BY <1>3, SignedIInv DEF ActOnSigned
<1>4. CASE UNCHANGED vars
  BY <1>4 DEF vars, pico, bridge, IInv, TypeOK, SessionValues, Frames, Acts, Answers, Orders,
     SignedSent, RebootsOnlyForItsPc, SessionIsRecent, InRing
<1> QED
  BY <1>1, <1>2, <1>3, <1>4, QuietIInv, AcceptIInv, RestartIInv, ClockIInv, DiscoverIInv,
     NetUpIInv, KeyIInv, AnswerIInv, PlainIInv DEF Next

\* What holds in every reachable state.
THEOREM InductiveInvariant == Spec => []IInv
  BY InitIInv, NextIInv, PTL DEF Spec

\* The signed frames of a process are acted on in the order it sealed them and none
\* twice, over any restarts of the process and boots of the Pico
\* (udp_auth.c:73-97, udp_auth.rs:223-236).
THEOREM FramesInOrder == Spec => NeverOlder
<1>1. ASSUME IInv, NEW m \in SignedSent, ActOnSigned(m), NEW g \in acted, g.from = m.from
      PROVE  g.at < m.at
  <2>1. g \in SignedSent
    BY <1>1 DEF IInv, Acts
  <2>2. CASE g.nonce = boot
    <3>1. g.counter < m.counter
      BY <1>1, <2>2, SignedFacts DEF IInv, Acts, TypeOK
    <3> QED
      BY <1>1, <2>1, <3>1 DEF IInv, Frames
  <2>3. CASE g.nonce # boot
    <3>1. g.nonce < m.nonce
      BY <1>1, <2>3, SignedFacts DEF IInv, TypeOK
    <3> QED
      BY <1>1, <3>1 DEF IInv, Acts
  <2> QED
    BY <2>2, <2>3
<1>2. IInv /\ [Next]_vars =>
        [\A m \in SignedSent : ActOnSigned(m) =>
             \A g \in acted : g.from = m.from => g.at < m.at]_vars
  BY <1>1
<1> QED
  BY <1>2, InductiveInvariant, PTL DEF Spec, NeverOlder

\* A paired Pico leaves for setup mode only for its own PC, by a frame for this very
\* boot, or after a physical reset (net_udp.c:938-986).
THEOREM RebootIsAuthorised == Spec => []RebootsOnlyForItsPc
<1>1. IInv => RebootsOnlyForItsPc
  BY DEF IInv, Orders
<1> QED
  BY <1>1, InductiveInvariant, PTL

\* No process works with the nonce of a boot that was over when it began
\* (udp_auth.rs:56-101).
THEOREM SessionsAreRecent == Spec => []SessionIsRecent
<1>1. IInv => SessionIsRecent
  BY DEF IInv, Answers
<1> QED
  BY <1>1, InductiveInvariant, PTL

-----------------------------------------------------------------------------
(* The flows that move Picos from one persona to another (ModeFlows).      *)

\* A Pico is in the persona it was last heard in.
Sure(p) == persona[p] = job.snap[p]

\* No persona is named twice.
NoTwice(turns) == \A i, j \in DOMAIN turns : turns[i] = turns[j] => i = j

\* Only the first of `turns` may be x.
OnlyFirst(x, turns) == \A i \in DOMAIN turns : turns[i] = x => i = 1
Lacks(x, turns) == \A i \in DOMAIN turns : turns[i] # x

\* The way of an automatic choice.  Only the target in work may be in another
\* persona than it was heard in, and then that is not among those left to try.
AutoSteps == {"next", "switch", "confirm", "query"}
Choosing ==
    job.at \in AutoSteps =>
        /\ job.want \in AutoModes /\ job.flow \in {"command", "home"}
        /\ job.todo \cap job.ready = {}
        /\ \A p \in job.todo \cup job.ready : Sure(p)
        /\ \A p \in job.ready : <<p, persona[p]>> \in job.proved
        /\ ~At("next") => /\ job.pico \in Targets \ (job.todo \cup job.ready)
                          /\ NoTwice(job.try)
        /\ At("switch") => /\ OnlyFirst(Current, job.try)
                           /\ job.try # <<>> /\ Candidate = Current => Sure(job.pico)
        /\ At("confirm") => Lacks(Current, job.try)
        /\ At("query") => Current = Candidate /\ Sure(job.pico)

\* The way of one persona for all: what has not been switched is in the persona
\* it was heard in, and needs a switch exactly if that is not the one wanted.
Switching ==
    /\ job.at \in {"switch all", "wait all"} =>
           /\ job.want \in AllPersonas /\ job.flow \in {"command", "home"}
           /\ \A p \in Targets \ job.ready : Sure(p)
           /\ \A p \in Targets : p \in job.todo \cup job.ready <=> job.snap[p] # job.want
    /\ At("switch all") /\ job.todo = {} => job.ready = {}
    /\ At("wait all") => job.todo = {}
    /\ At("release") =>
           /\ job.want \in AllPersonas
           /\ \A p \in job.ready : Sure(p) /\ job.snap[p] = job.want
           /\ job.flow = "home" => job.ready = Targets

\* The way of a survey: but for the switch under way and those it missed, the
\* Pico is in the persona it was heard in.
Surveying == {"survey", "survey query", "capture", "capture wait", "harvest"}
Trying == Surveying \cup {"survey confirm", "restore wait"}
Tracing ==
    /\ job.at \in Trying \cup {"surveyed"} => job.pico \in Picos /\ job.orig \in AllPersonas
    /\ job.at \in Trying => job.restored = "no" /\ job.pico \in Targets
    /\ job.at \in Surveying /\ ~job.missed => Sure(job.pico)

ModeInv ==
    /\ ModeTypeOK
    /\ Choosing
    /\ Switching
    /\ Tracing
    /\ StreamMatchesMode
    /\ SurveyLeavesNoTrace

-----------------------------------------------------------------------------
(* The orders in which personas are tried.                                 *)

\* Personas, in the order they are tried.
Turns == Seq(AllPersonas)

LEMMA WithoutIt ==
  ASSUME NEW turns \in Turns, NoTwice(turns), NEW x
  PROVE  /\ Without(x, turns) \in Turns
         /\ NoTwice(Without(x, turns)) /\ Lacks(x, Without(x, turns))
         /\ \A i \in DOMAIN Without(x, turns) :
                \E j \in DOMAIN turns : Without(x, turns)[i] = turns[j]
<1>1. CASE ~Contains(turns, x)
  BY <1>1 DEF Contains, Without, Lacks, Turns
<1>2. CASE Contains(turns, x)
  <2> DEFINE k == CHOOSE i \in DOMAIN turns : turns[i] = x
  <2>1. k \in DOMAIN turns /\ turns[k] = x
    BY <1>2 DEF Contains, Turns
  <2>1a. Without(x, turns) = RemoveAt(turns, k)
    BY <1>2 DEF Without
  <2>1b. k \in 1 .. Len(turns) /\ turns[k] = x /\ DOMAIN turns = 1 .. Len(turns)
    BY <2>1 DEF Turns
  <2> HIDE DEF k
  <2> DEFINE front == SubSeq(turns, 1, k - 1)
             back == SubSeq(turns, k + 1, Len(turns))
  <2>2. /\ front \in Turns /\ Len(front) = k - 1
        /\ \A i \in 1 .. k - 1 : front[i] = turns[i]
    BY <2>1 DEF Turns
  <2>3. /\ back \in Turns /\ Len(back) = Len(turns) - k
        /\ \A i \in 1 .. Len(turns) - k : back[i] = turns[k + i]
    BY <2>1 DEF Turns
  <2> HIDE DEF front, back
  <2> DEFINE both == front \o back
             was(i) == IF i < k THEN i ELSE i + 1
  <2>4. /\ both \in Turns /\ DOMAIN both = 1 .. Len(turns) - 1
        /\ \A i \in 1 .. Len(turns) - 1 :
               both[i] = IF i <= k - 1 THEN front[i] ELSE back[i - (k - 1)]
    <3>1. front \in Seq(AllPersonas) /\ back \in Seq(AllPersonas)
      BY <2>2, <2>3 DEF Turns
    <3>2. /\ both \in Seq(AllPersonas) /\ Len(both) = Len(front) + Len(back)
          /\ \A i \in 1 .. Len(front) + Len(back) :
                 both[i] = IF i <= Len(front) THEN front[i] ELSE back[i - Len(front)]
      BY <3>1, ConcatProperties
    <3> HIDE DEF both
    <3>3. DOMAIN both = 1 .. Len(both)
      BY <3>2
    <3>4. Len(turns) \in Nat
      BY DEF Turns
    <3>5. Len(front) + Len(back) = Len(turns) - 1
      BY <3>4, <2>1b, <2>2, <2>3
    <3> QED
      BY <3>2, <3>3, <3>5, <2>2 DEF Turns
  <2>5. Without(x, turns) = both
    BY <2>1a DEF RemoveAt, front, back
  <2> HIDE DEF both
  <2>6. \A i \in DOMAIN both : /\ was(i) \in DOMAIN turns /\ was(i) # k
                               /\ both[i] = turns[was(i)]
    <3>1. SUFFICES ASSUME NEW i \in DOMAIN both
                   PROVE  was(i) \in DOMAIN turns /\ was(i) # k /\ both[i] = turns[was(i)]
      OBVIOUS
    <3>2. i \in 1 .. Len(turns) - 1 /\ Len(turns) \in Nat
      BY <2>4 DEF Turns
    <3>3. CASE i < k
      BY <3>2, <3>3, <2>1b, <2>2, <2>4
    <3>4. CASE ~(i < k)
      <4>1. i - (k - 1) \in 1 .. Len(turns) - k /\ k + (i - (k - 1)) = i + 1
        BY <3>2, <3>4, <2>1b
      <4>2. both[i] = turns[i + 1]
        BY <4>1, <3>2, <3>4, <2>1b, <2>3, <2>4
      <4> QED
        BY <4>2, <3>2, <3>4, <2>1b
    <3> QED
      BY <3>3, <3>4
  <2>6a. \A i, j \in DOMAIN both : was(i) = was(j) => i = j
    BY <2>1b, <2>4
  <2>6b. \A i \in DOMAIN both : \E j \in DOMAIN turns : both[i] = turns[j]
    BY <2>6
  <2> HIDE DEF was
  <2>7. NoTwice(both)
    BY <2>6, <2>6a DEF NoTwice
  <2>8. Lacks(x, both)
    BY <2>1b, <2>6 DEF Lacks, NoTwice
  <2> QED
    BY <2>4, <2>5, <2>6b, <2>7, <2>8
<1> QED
  BY <1>1, <1>2

LEMMA CurrentComesFirst ==
  ASSUME NEW turns \in Turns, NoTwice(turns), NEW x \in AllPersonas
  PROVE  /\ CurrentFirst(x, turns) \in Turns
         /\ NoTwice(CurrentFirst(x, turns)) /\ OnlyFirst(x, CurrentFirst(x, turns))
<1>1. CASE ~Contains(turns, x)
  BY <1>1 DEF Contains, CurrentFirst, OnlyFirst, Turns
<1>2. CASE Contains(turns, x)
  <2> DEFINE rest == Without(x, turns)
             first == <<x>> \o rest
  <2>1. rest \in Turns /\ NoTwice(rest) /\ Lacks(x, rest)
    BY WithoutIt
  <2> HIDE DEF rest
  <2>2. /\ first \in Turns /\ Len(first) = Len(rest) + 1 /\ first[1] = x
        /\ \A i \in 2 .. Len(rest) + 1 : first[i] = rest[i - 1]
    BY <2>1 DEF Turns
  <2>3. CurrentFirst(x, turns) = first
    BY <1>2 DEF CurrentFirst, rest
  <2> HIDE DEF first
  <2>4. OnlyFirst(x, first)
    BY <2>1, <2>2 DEF OnlyFirst, Lacks, Turns
  <2>5. NoTwice(first)
    <3>1. /\ DOMAIN first = 1 .. Len(rest) + 1 /\ DOMAIN rest = 1 .. Len(rest)
          /\ Len(rest) \in Nat
      BY <2>1, <2>2 DEF Turns
    <3>2. \A i \in DOMAIN first : i # 1 => i - 1 \in DOMAIN rest /\ first[i] = rest[i - 1]
      BY <3>1, <2>2
    <3>3. ASSUME NEW i \in DOMAIN first, NEW j \in DOMAIN first, first[i] = first[j]
          PROVE  i = j
      <4>1. CASE i = 1 \/ j = 1
        BY <4>1, <3>3, <2>2, <2>4 DEF OnlyFirst
      <4>2. CASE i # 1 /\ j # 1
        <5>1. i - 1 = j - 1
          BY <4>2, <3>2, <3>3, <2>1 DEF NoTwice
        <5> QED
          BY <5>1, <3>1
      <4> QED
        BY <4>1, <4>2
    <3> QED
      BY <3>3 DEF NoTwice
  <2> QED
    BY <2>2, <2>3, <2>4, <2>5
<1> QED
  BY <1>1, <1>2

\* What is left of an order after its first persona.
LEMMA NextInOrder ==
  ASSUME NEW turns \in Turns, turns # <<>>
  PROVE  /\ Head(turns) \in AllPersonas /\ Tail(turns) \in Turns
         /\ NoTwice(turns) => NoTwice(Tail(turns)) /\ Lacks(Head(turns), Tail(turns))
         /\ \A x : OnlyFirst(x, turns) => Lacks(x, Tail(turns))
         /\ \A x : OnlyFirst(x, turns) /\ Head(turns) # x => Lacks(x, turns)
         /\ \A x : Lacks(x, turns) => Lacks(x, Tail(turns))
         /\ \A S : (\A i \in DOMAIN turns : turns[i] \in S) =>
                   Head(turns) \in S /\ \A i \in DOMAIN Tail(turns) : Tail(turns)[i] \in S
<1>1. /\ Head(turns) = turns[1] /\ Head(turns) \in AllPersonas
      /\ Tail(turns) \in Turns /\ Len(Tail(turns)) = Len(turns) - 1
      /\ \A i \in 1 .. Len(turns) - 1 : Tail(turns)[i] = turns[i + 1]
  BY DEF Turns
<1>2. \A i \in DOMAIN Tail(turns) : i + 1 \in DOMAIN turns /\ Tail(turns)[i] = turns[i + 1]
  BY <1>1 DEF Turns
<1>3. NoTwice(turns) => NoTwice(Tail(turns)) /\ Lacks(Head(turns), Tail(turns))
  BY <1>1, <1>2 DEF NoTwice, Lacks, Turns
<1>4. 1 \in DOMAIN turns
  BY DEF Turns
<1>5. \A S : (\A i \in DOMAIN turns : turns[i] \in S) =>
             Head(turns) \in S /\ \A i \in DOMAIN Tail(turns) : Tail(turns)[i] \in S
  BY <1>1, <1>2, <1>4
<1> QED
  BY <1>1, <1>2, <1>3, <1>5 DEF OnlyFirst, Lacks, Turns

LEMMA OrdersAsListed ==
  /\ AutoOrder \in Turns /\ NoTwice(AutoOrder)
  /\ XboxFamily \in Turns /\ NoTwice(XboxFamily)
  /\ PlaystationFamily \in Turns /\ NoTwice(PlaystationFamily)
  /\ SurveyOrder \in Turns /\ NoTwice(SurveyOrder)
BY DEF AutoOrder, XboxFamily, PlaystationFamily, SurveyOrder, NoTwice, Turns,
       AllPersonas, Gamepads, BluetoothPersonas

LEMMA CandidatesLaid ==
  ASSUME NEW p, job.snap[p] \in AllPersonas, job.want \in AutoModes
  PROVE  /\ CandidatesFor(p) \in Turns /\ NoTwice(CandidatesFor(p))
         /\ OnlyFirst(job.snap[p], CandidatesFor(p))
<1> DEFINE x == job.snap[p]
<1>1. \E turns \in {AutoOrder, XboxFamily, PlaystationFamily} :
          CandidatesFor(p) = CurrentFirst(x, turns)
  BY DEF CandidatesFor, AutoModes, AutoCandidates, FamilyCandidates
<1> QED
  BY <1>1, OrdersAsListed, CurrentComesFirst

LEMMA SurveyLaid == \A x, accepted : SurveyCandidates(x, accepted) \in Turns
BY OrdersAsListed, WithoutIt DEF SurveyCandidates, Turns

-----------------------------------------------------------------------------
(* What a request and an answer do.                                        *)

\* Of the personas, a request changes that of its Pico at most, and to the one
\* it names.
Only(p, want) ==
    /\ PicoTypeOK'
    /\ persona'[p] \in {persona[p], want}
    /\ \A q \in Picos : q # p => persona'[q] = persona[q]

LEMMA Unasked == PicoTypeOK /\ NoChange /\ Ask => PicoTypeOK' /\ persona' = persona
BY DEF NoChange, Ask, PicoTypeOK

LEMMA Unmoved == PicoTypeOK /\ Think => PicoTypeOK' /\ persona' = persona
BY DEF Think, picoVars, PicoTypeOK

LEMMA Rebooted ==
  ASSUME PicoTypeOK, Ask, NEW p \in Picos, NEW want \in AllPersonas,
         NEW capture \in BOOLEAN, Reboots(p, want, capture)
  PROVE  Only(p, want)
BY DEF PicoTypeOK, Ask, Reboots, Only

LEMMA Asked ==
  ASSUME PicoTypeOK, Ask, NEW p \in Picos, NEW want \in AllPersonas,
         RequestSetPersona(p, want) \/ RequestCapture(p, want)
  PROVE  Only(p, want)
<1>1. CASE NoChange
  BY <1>1, Unasked DEF Only
<1>2. CASE ~NoChange
  BY <1>2, Rebooted DEF RequestSetPersona, RequestCapture, Sent, ApplySetPersona,
                        ApplySetUsbCapture
<1> QED
  BY <1>1, <1>2

LEMMA Cleared ==
  ASSUME PicoTypeOK, Ask, NEW p \in Picos, RequestClear(p) \/ NoChange
  PROVE  PicoTypeOK' /\ persona' = persona
<1>1. CASE NoChange
  BY <1>1, Unasked
<1>2. CASE ~NoChange
  BY <1>2 DEF RequestClear, Sent, ApplyClearUsbCapture, Ask, PicoTypeOK
<1> QED
  BY <1>1, <1>2

LEMMA Answered ==
  ASSUME PicoTypeOK, Ask, NEW picos, NEW seen, WaitForPersona(picos, seen)
  PROVE  PicoTypeOK' /\ persona' = persona
BY Unasked DEF WaitForPersona

LEMMA Queried ==
  ASSUME PicoTypeOK, NEW p \in Picos, NEW d \in QueryUsbDiag(p)
  PROVE  d \in Diags \cup {NoDiag}
<1>1. Quiet \in Diags
  BY DEF Quiet, Diags
<1>2. adapter[p][persona[p]] \in Diags
  BY PicoModesAssumption DEF PicoTypeOK
<1> QED
  BY <1>1, <1>2 DEF QueryUsbDiag

-----------------------------------------------------------------------------
(* Nothing under way.                                                      *)

LEMMA IdleKeeps == PicoTypeOK' /\ job' = Idle => ModeInv'
<1> SUFFICES ASSUME PicoTypeOK', job' = Idle PROVE ModeInv'
  OBVIOUS
<1>1. job' \in Jobs
  BY DEF Idle, Jobs, Waits
<1>2. job'.at = "idle" /\ job'.todo = {} /\ job'.ready = {}
  BY DEF Idle
<1>3. ModeTypeOK'
  BY <1>1, <1>2 DEF ModeTypeOK, At
<1> QED
  BY <1>2, <1>3 DEF ModeInv, Choosing, Switching, Tracing, StreamMatchesMode,
       SurveyLeavesNoTrace, At, AutoSteps, Trying, Surveying

LEMMA InitMode == ModeInit => ModeInv
<1> SUFFICES ASSUME ModeInit PROVE ModeInv
  OBVIOUS
<1>1. PicoTypeOK
  BY PicoModesAssumption DEF ModeInit, PicoInit, PicoTypeOK
<1>2. job = Idle
  BY DEF ModeInit
<1>3. job \in Jobs
  BY <1>2 DEF Idle, Jobs, Waits
<1>4. job.at = "idle" /\ job.todo = {} /\ job.ready = {}
  BY <1>2 DEF Idle
<1>5. ModeTypeOK
  BY <1>1, <1>3, <1>4 DEF ModeTypeOK, At
<1> QED
  BY <1>4, <1>5 DEF ModeInv, Choosing, Switching, Tracing, StreamMatchesMode,
       SurveyLeavesNoTrace, At, AutoSteps, Trying, Surveying

\* The flow is where it was, and what it knows is as true as it was.
LEMMA OutsideKeepsMode ==
  ASSUME ModeInv, PicoTypeOK', persona' = persona, job' = job
  PROVE  ModeInv'
<1>1. ModeTypeOK' /\ Targets' = Targets
  BY DEF ModeInv, ModeTypeOK, Targets, At
<1>2. Choosing'
  BY <1>1 DEF ModeInv, Choosing, At, Sure, Current, Candidate
<1>3. Switching'
  BY <1>1 DEF ModeInv, Switching, At, Sure
<1>4. Tracing'
  BY <1>1 DEF ModeInv, Tracing, Sure
<1>5. StreamMatchesMode' /\ SurveyLeavesNoTrace'
  BY <1>1 DEF ModeInv, StreamMatchesMode, SurveyLeavesNoTrace, At
<1> QED
  BY <1>1, <1>2, <1>3, <1>4, <1>5 DEF ModeInv

-----------------------------------------------------------------------------
(* The automatic choice.                                                   *)

LEMMA JobFields ==
  job \in Jobs =>
      /\ job.at \in Waits /\ job.flow \in {"none", "command", "home", "survey"}
      /\ job.want \in Wanted \cup {None} /\ job.snap \in [Picos -> AllPersonas \cup {None}]
      /\ job.todo \in SUBSET Picos /\ job.ready \in SUBSET Picos
      /\ job.pico \in Picos \cup {None} /\ job.try \in Turns
      /\ job.best \in Seq(Scored) /\ job.orig \in AllPersonas \cup {None}
      /\ job.attempts \in Seq(Attempts) /\ job.restored \in {"no", "already", "confirmed"}
      /\ job.proved \in SUBSET (Picos \X AllPersonas) /\ job.missed \in BOOLEAN
BY DEF Jobs, Turns

LEMMA TargetsAre ==
  job \in Jobs => /\ Targets \subseteq Picos
                  /\ \A p \in Targets : job.snap[p] \in AllPersonas
BY JobFields DEF Targets

\* An automatic mode is no persona.
LEMMA AutoIsNoPersona == \A want \in AutoModes : want \notin AllPersonas
BY DEF AutoModes, AllPersonas, Gamepads, BluetoothPersonas

\* In the course of an automatic choice only this has to be shown.
LEMMA ChoiceKeeps ==
  ASSUME PicoTypeOK', job' \in Jobs, job'.at \in AutoSteps, Choosing',
         job'.todo \cup job'.ready \subseteq Targets',
         job'.at \in {"confirm", "query"} => job'.try # <<>>
  PROVE  ModeInv'
<1>1. ModeTypeOK'
  BY DEF ModeTypeOK, At, AutoSteps
<1>2. Switching' /\ Tracing'
  BY DEF Switching, Tracing, At, AutoSteps, Trying, Surveying
<1>3. StreamMatchesMode' /\ SurveyLeavesNoTrace'
  BY DEF StreamMatchesMode, SurveyLeavesNoTrace, At, AutoSteps
<1> QED
  BY <1>1, <1>2, <1>3 DEF ModeInv

LEMMA NextTargetKeeps == ModeInv /\ NextTarget => ModeInv'
<1> SUFFICES ASSUME ModeInv, NextTarget PROVE ModeInv'
  OBVIOUS
<1>1. /\ PicoTypeOK /\ job \in Jobs /\ At("next") /\ job.at = "next"
      /\ job.todo \cup job.ready \subseteq Targets /\ job.want \in AutoModes
      /\ job.flow \in {"command", "home"} /\ job.todo \cap job.ready = {}
      /\ \A p \in job.todo \cup job.ready : Sure(p)
      /\ \A p \in job.ready : <<p, persona[p]>> \in job.proved
  BY DEF ModeInv, ModeTypeOK, Choosing, NextTarget, At, AutoSteps
<1>2. PicoTypeOK' /\ persona' = persona
  BY <1>1, Unmoved DEF NextTarget
<1>3. PICK p \in job.todo :
          job' = [job EXCEPT !.at = "switch", !.todo = @ \ {p}, !.pico = p,
                             !.try = CandidatesFor(p), !.best = <<>>]
  BY DEF NextTarget
<1>4. p \in Picos /\ p \in Targets /\ job.snap[p] \in AllPersonas
  BY <1>1, TargetsAre
<1>5. /\ CandidatesFor(p) \in Turns /\ NoTwice(CandidatesFor(p))
      /\ OnlyFirst(job.snap[p], CandidatesFor(p))
  BY <1>1, <1>4, CandidatesLaid
<1>6. /\ job' \in Jobs /\ job'.at = "switch" /\ job'.todo = job.todo \ {p}
      /\ job'.pico = p /\ job'.try = CandidatesFor(p) /\ job'.snap = job.snap
      /\ job'.ready = job.ready /\ job'.want = job.want /\ job'.flow = job.flow
      /\ job'.proved = job.proved
  <2>1. CandidatesFor(p) \in Seq(AllPersonas) /\ <<>> \in Seq(Scored)
    BY <1>5 DEF Turns
  <2> QED
    <3>1. "switch" \in Waits
      BY DEF Waits
    <3>2. job' \in Jobs
      BY <1>1, <1>3, <1>4, <2>1, <3>1 DEF Jobs
    <3> QED
      BY <1>1, <1>3, <1>4, <2>1, <3>2 DEF Jobs
<1>7. Targets' = Targets /\ Current' = job.snap[p] /\ persona'[p] = job.snap[p]
  BY <1>1, <1>2, <1>6 DEF Targets, Current, Sure
<1>8. \A q \in job'.todo \cup job'.ready : q \in job.todo \cup job.ready
  BY <1>6
<1>9. p \in Targets' \ (job'.todo \cup job'.ready)
  <2>1. p \notin job.ready
    BY <1>1
  <2> QED
    BY <1>4, <1>6, <1>7, <2>1
<1>10. Choosing'
  BY <1>1, <1>2, <1>5, <1>6, <1>7, <1>8, <1>9 DEF Choosing, At, Sure
<1> QED
  BY <1>1, <1>2, <1>6, <1>7, <1>10, ChoiceKeeps DEF AutoSteps

\* What holds of the target in work.
LEMMA InWork ==
  ASSUME ModeInv, job.at \in {"switch", "confirm", "query"}
  PROVE  /\ PicoTypeOK /\ job \in Jobs /\ job.try \in Turns /\ NoTwice(job.try)
         /\ job.todo \cup job.ready \subseteq Targets /\ job.want \in AutoModes
         /\ job.flow \in {"command", "home"} /\ job.todo \cap job.ready = {}
         /\ \A p \in job.todo \cup job.ready : Sure(p)
         /\ \A p \in job.ready : <<p, persona[p]>> \in job.proved
         /\ job.pico \in Targets \ (job.todo \cup job.ready) /\ job.pico \in Picos
         /\ Current \in AllPersonas
         /\ job.at \in {"confirm", "query"} => job.try # <<>>
<1>1. PicoTypeOK /\ job \in Jobs /\ job.try \in Turns
  BY JobFields DEF ModeInv, ModeTypeOK
<1>2. job.pico \in Targets \ (job.todo \cup job.ready)
  BY DEF ModeInv, Choosing, AutoSteps, At
<1>3. job.pico \in Picos /\ Current \in AllPersonas
  BY <1>1, <1>2, TargetsAre DEF Current
<1> QED
  BY <1>1, <1>2, <1>3 DEF ModeInv, ModeTypeOK, Choosing, AutoSteps, At

\* The next persona, when the one in front was not to be had.
LEMMA NextCandidateKeeps ==
  ASSUME ModeInv, job.at \in {"confirm", "query"}, PicoTypeOK', persona' = persona,
         job'.best \in Seq(Scored), job' \in Jobs,
         job'.at = "switch", job'.try = Tail(job.try), job'.snap = job.snap,
         job'.todo = job.todo, job'.ready = job.ready, job'.pico = job.pico,
         job'.want = job.want, job'.flow = job.flow, job'.proved = job.proved
  PROVE  ModeInv'
<1>1. Targets' = Targets /\ Current' = Current
  BY DEF Targets, Current
<1>2. /\ NoTwice(Tail(job.try)) /\ Lacks(Current, Tail(job.try))
      /\ Tail(job.try) \in Turns
  <2>1. CASE job.at = "confirm"
    BY <2>1, InWork, NextInOrder DEF ModeInv, Choosing, At, AutoSteps
  <2>2. CASE job.at = "query"
    BY <2>2, InWork, NextInOrder DEF ModeInv, Choosing, At, AutoSteps, Candidate
  <2> QED
    BY <2>1, <2>2
<1>3. OnlyFirst(Current, Tail(job.try))
  BY <1>2 DEF Lacks, OnlyFirst
<1>4. Tail(job.try) # <<>> => Head(Tail(job.try)) # Current
  <2>1. Tail(job.try) # <<>> => 1 \in DOMAIN Tail(job.try)
                               /\ Head(Tail(job.try)) = Tail(job.try)[1]
    BY <1>2 DEF Turns
  <2> QED
    BY <1>2, <2>1 DEF Lacks
<1>5. Choosing'
  BY <1>1, <1>2, <1>3, <1>4, InWork DEF Choosing, At, Sure, Candidate
<1> QED
  BY <1>1, <1>5, InWork, ChoiceKeeps DEF AutoSteps

LEMMA SwitchToCandidateKeeps == ModeInv /\ SwitchToCandidate => ModeInv'
<1> SUFFICES ASSUME ModeInv, SwitchToCandidate PROVE ModeInv'
  OBVIOUS
<1>0. job \in Jobs /\ job.pico \in Picos /\ Current \in AllPersonas
  BY InWork DEF SwitchToCandidate, ConfirmCandidate, SelectForTarget, At
<1>1. /\ job.at = "switch" /\ job.try # <<>> /\ Ask
      /\ OnlyFirst(Current, job.try) /\ (Candidate = Current => Sure(job.pico))
  BY DEF SwitchToCandidate, At, ModeInv, Choosing, AutoSteps
<1>2. Candidate \in AllPersonas
  BY <1>0, <1>1, InWork, NextInOrder DEF Candidate
<1>3. CASE Current = Candidate /\ Go("query") /\ NoChange
  <2>1. PicoTypeOK' /\ persona' = persona
    BY <1>0, <1>1, InWork, <1>3, Unasked
  <2>2. /\ job' \in Jobs /\ job'.at = "query" /\ job'.todo = job.todo
        /\ job'.pico = job.pico /\ job'.try = job.try /\ job'.snap = job.snap
        /\ job'.ready = job.ready /\ job'.want = job.want /\ job'.flow = job.flow
        /\ job'.proved = job.proved
    <3>1. "query" \in Waits
      BY DEF Waits
    <3>2. job' \in Jobs
      BY <1>0, <1>3, <3>1 DEF Go, Jobs
    <3> QED
      BY <1>0, <1>3, <3>2 DEF Go, Jobs
  <2>3. Targets' = Targets
    BY <2>2 DEF Targets
  <2>4. Choosing'
    BY <1>0, <1>1, InWork, <1>3, <2>1, <2>2, <2>3 DEF Choosing, At, Sure, Current, Candidate
  <2> QED
    BY <1>0, <1>1, InWork, <2>1, <2>2, <2>3, <2>4, ChoiceKeeps DEF AutoSteps
<1>4. CASE /\ Current # Candidate /\ RequestSetPersona(job.pico, Candidate)
           /\ Go("confirm")
  <2>1. Only(job.pico, Candidate)
    BY <1>0, <1>1, InWork, <1>2, <1>4, Asked
  <2>2. /\ job' \in Jobs /\ job'.at = "confirm" /\ job'.todo = job.todo
        /\ job'.pico = job.pico /\ job'.try = job.try /\ job'.snap = job.snap
        /\ job'.ready = job.ready /\ job'.want = job.want /\ job'.flow = job.flow
        /\ job'.proved = job.proved
    <3>1. "confirm" \in Waits
      BY DEF Waits
    <3>2. job' \in Jobs
      BY <1>0, <1>4, <3>1 DEF Go, Jobs
    <3> QED
      BY <1>0, <1>4, <3>2 DEF Go, Jobs
  <2>3. Targets' = Targets /\ Targets \subseteq Picos
    BY <2>2 DEF Targets
  <2>4. \A p \in job.todo \cup job.ready : persona'[p] = persona[p]
    BY <1>0, <1>1, InWork, <2>1, <2>3 DEF Only
  <2>5. Lacks(Current, job.try)
    BY <1>0, <1>1, InWork, <1>4, NextInOrder DEF Candidate
  <2>6. Choosing'
    BY <1>0, <1>1, InWork, <1>4, <2>2, <2>3, <2>4, <2>5 DEF Choosing, At, Sure, Current, Candidate
  <2> QED
    BY <1>0, <1>1, InWork, <2>1, <2>2, <2>3, <2>6, ChoiceKeeps DEF AutoSteps, Only
<1>5. CASE RequestSetPersona(job.pico, Candidate) /\ Bail
  <2>1. PicoTypeOK'
    BY <1>0, <1>1, InWork, <1>2, <1>5, Asked DEF Only
  <2> QED
    BY <1>0, <1>1, InWork, <1>5, <2>1, IdleKeeps DEF Bail
<1> QED
  BY <1>3, <1>4, <1>5 DEF SwitchToCandidate

LEMMA ConfirmCandidateKeeps == ModeInv /\ ConfirmCandidate => ModeInv'
<1> SUFFICES ASSUME ModeInv, ConfirmCandidate PROVE ModeInv'
  OBVIOUS
<1>0. job \in Jobs /\ job.pico \in Picos /\ Current \in AllPersonas
  BY InWork DEF SwitchToCandidate, ConfirmCandidate, SelectForTarget, At
<1>1. job.at = "confirm" /\ job.try # <<>> /\ Ask
  BY InWork DEF ConfirmCandidate, At
<1>2. Candidate \in AllPersonas /\ Tail(job.try) \in Seq(AllPersonas)
  BY <1>0, <1>1, InWork, NextInOrder DEF Candidate, Turns
<1>3. ASSUME PicoTypeOK', persona' = persona, NextCandidate PROVE ModeInv'
  <2>1. /\ job' \in Jobs /\ job'.best \in Seq(Scored)
        /\ job'.at = "switch" /\ job'.try = Tail(job.try) /\ job'.snap = job.snap
        /\ job'.todo = job.todo /\ job'.ready = job.ready /\ job'.pico = job.pico
        /\ job'.want = job.want /\ job'.flow = job.flow /\ job'.proved = job.proved
    <3>1. "switch" \in Waits
      BY DEF Waits
    <3>2. job' \in Jobs
      BY <1>0, <1>2, <1>3, <3>1 DEF NextCandidate, Jobs
    <3> QED
      BY <1>0, <1>2, <1>3, <3>2 DEF NextCandidate, Jobs
  <2> QED
    BY <1>0, <1>1, InWork, <1>3, <2>1, NextCandidateKeeps
<1>4. ASSUME PicoTypeOK', persona' = persona, persona[job.pico] = Candidate,
             job' = [job EXCEPT !.at = "query", !.snap[job.pico] = Candidate]
      PROVE  ModeInv'
  <2>1. job.snap \in [Picos -> AllPersonas \cup {None}]
    BY <1>0, <1>1, InWork, JobFields
  <2>2. /\ job' \in Jobs /\ job'.at = "query" /\ job'.try = job.try
        /\ job'.snap = [job.snap EXCEPT ![job.pico] = Candidate]
        /\ job'.todo = job.todo /\ job'.ready = job.ready /\ job'.pico = job.pico
        /\ job'.want = job.want /\ job'.flow = job.flow /\ job'.proved = job.proved
    <3>1. "query" \in Waits
      BY DEF Waits
    <3>2. job' \in Jobs
      BY <1>0, <1>2, <1>4, <2>1, <3>1 DEF Jobs
    <3> QED
      BY <1>0, <1>2, <1>4, <2>1, <3>2 DEF Jobs
  <2>3. Targets' = Targets /\ Current' = Candidate
    BY <1>0, <1>1, InWork, <1>2, <2>1, <2>2, PicoModesAssumption DEF Targets, Current
  <2>4. \A p \in job.todo \cup job.ready : Sure(p)'
    BY <1>0, <1>1, InWork, <1>4, <2>1, <2>2, TargetsAre DEF Sure
  <2>5. Sure(job.pico)' /\ Candidate' = Candidate
    BY <1>0, <1>1, InWork, <1>4, <2>1, <2>2 DEF Sure, Candidate
  <2>6. Choosing'
    BY <1>0, <1>1, InWork, <1>4, <2>2, <2>3, <2>4, <2>5 DEF Choosing, At
  <2> QED
    BY <1>0, <1>1, InWork, <1>4, <2>2, <2>3, <2>6, ChoiceKeeps DEF AutoSteps
<1>5. CASE \E seen \in Discoveries({job.pico}) :
              /\ WaitForPersona({job.pico}, seen)
              /\ IF job.pico \in seen /\ persona[job.pico] = Candidate
                 THEN job' = [job EXCEPT !.at = "query", !.snap[job.pico] = Candidate]
                 ELSE NextCandidate
  BY <1>0, <1>1, InWork, <1>3, <1>4, <1>5, Answered
<1>6. CASE Bail /\ NoChange
  BY <1>0, <1>1, InWork, <1>6, Unasked, IdleKeeps DEF Bail
<1> QED
  BY <1>5, <1>6 DEF ConfirmCandidate

LEMMA ScoredIs ==
  ASSUME NEW x \in AllPersonas, NEW d \in Diags
  PROVE  /\ [persona |-> x, score |-> Score(d)] \in Scored
         /\ <<[persona |-> x, score |-> Score(d)]>> \in Seq(Scored)
<1>1. [persona |-> x, score |-> Score(d)] \in Scored
  BY DEF Scored
<1> QED
  BY <1>1

LEMMA SelectForTargetKeeps == ModeInv /\ SelectForTarget => ModeInv'
<1> SUFFICES ASSUME ModeInv, SelectForTarget PROVE ModeInv'
  OBVIOUS
<1>0. job \in Jobs /\ job.pico \in Picos /\ Current \in AllPersonas
  BY InWork DEF SwitchToCandidate, ConfirmCandidate, SelectForTarget, At
<1>1. /\ job.at = "query" /\ job.try # <<>> /\ Think
      /\ Current = Candidate /\ Sure(job.pico)
  BY InWork DEF SelectForTarget, At, ModeInv, Choosing, AutoSteps
<1>2. Tail(job.try) \in Seq(AllPersonas)
  BY <1>0, <1>1, InWork, NextInOrder DEF Turns
<1>3. PicoTypeOK' /\ persona' = persona
  BY <1>0, <1>1, InWork, Unmoved
<1>4. PICK d \in QueryUsbDiag(job.pico) :
          CASE d = NoDiag -> NextCandidate
            [] d # NoDiag /\ IsSuccess(Score(d)) -> Succeed(TRUE)
            [] d # NoDiag /\ ~IsSuccess(Score(d)) ->
                   job' = [job EXCEPT !.at = "switch", !.try = Tail(@),
                              !.best = IF @ = <<>> \/ Score(d) > @[1].score
                                       THEN <<[persona |-> Current, score |-> Score(d)]>>
                                       ELSE @]
  BY DEF SelectForTarget
<1>5. d \in Diags \cup {NoDiag}
  BY <1>0, <1>1, InWork, Queried
<1>6. CASE d = NoDiag
  <2>1. NextCandidate
    BY <1>4, <1>6
  <2>2. /\ job' \in Jobs /\ job'.best \in Seq(Scored)
        /\ job'.at = "switch" /\ job'.try = Tail(job.try) /\ job'.snap = job.snap
        /\ job'.todo = job.todo /\ job'.ready = job.ready /\ job'.pico = job.pico
        /\ job'.want = job.want /\ job'.flow = job.flow /\ job'.proved = job.proved
    <3>1. "switch" \in Waits
      BY DEF Waits
    <3>2. job' \in Jobs
      BY <1>0, <1>2, <2>1, <3>1 DEF NextCandidate, Jobs
    <3> QED
      BY <1>0, <1>2, <2>1, <3>2 DEF NextCandidate, Jobs
  <2> QED
    BY <1>0, <1>1, InWork, <1>3, <2>2, NextCandidateKeeps
<1>7. CASE d # NoDiag /\ IsSuccess(Score(d))
  <2>1. Succeed(TRUE)
    BY <1>4, <1>7
  <2>2. persona[job.pico] \in AllPersonas
    BY <1>0, <1>1, InWork DEF PicoTypeOK
  <2>3. /\ job' \in Jobs /\ job'.at = "next" /\ job'.snap = job.snap
        /\ job'.todo = job.todo /\ job'.ready = job.ready \cup {job.pico}
        /\ job'.want = job.want /\ job'.flow = job.flow
        /\ job'.proved = job.proved \cup {<<job.pico, persona[job.pico]>>}
    <3>1. "next" \in Waits
      BY DEF Waits
    <3>2. /\ job.proved \cup {<<job.pico, persona[job.pico]>>}
                 \in SUBSET (Picos \X AllPersonas)
          /\ job.ready \cup {job.pico} \in SUBSET Picos
      BY <1>0, <2>2, JobFields
    <3>3. job' \in Jobs
      BY <1>0, <2>1, <3>1, <3>2 DEF Succeed, Jobs
    <3> QED
      BY <1>0, <2>1, <3>3 DEF Succeed, Jobs
  <2>4. Targets' = Targets
    BY <2>3 DEF Targets
  <2>5. Choosing'
    BY <1>0, <1>1, InWork, <1>3, <2>3, <2>4 DEF Choosing, At, Sure
  <2> QED
    BY <1>0, <1>1, InWork, <1>3, <2>3, <2>4, <2>5, ChoiceKeeps DEF AutoSteps
<1>8. CASE d # NoDiag /\ ~IsSuccess(Score(d))
  <2> DEFINE best == IF job.best = <<>> \/ Score(d) > job.best[1].score
                     THEN <<[persona |-> Current, score |-> Score(d)]>> ELSE job.best
  <2>1. best \in Seq(Scored)
    BY <1>0, <1>1, InWork, <1>5, <1>8, ScoredIs, JobFields
  <2>2. job' = [job EXCEPT !.at = "switch", !.try = Tail(job.try), !.best = best]
    BY <1>4, <1>8
  <2> HIDE DEF best
  <2>3. /\ job' \in Jobs /\ job'.best \in Seq(Scored)
        /\ job'.at = "switch" /\ job'.try = Tail(job.try) /\ job'.snap = job.snap
        /\ job'.todo = job.todo /\ job'.ready = job.ready /\ job'.pico = job.pico
        /\ job'.want = job.want /\ job'.flow = job.flow /\ job'.proved = job.proved
    <3>1. "switch" \in Waits
      BY DEF Waits
    <3>2. job' \in Jobs
      BY <1>0, <1>2, <2>1, <2>2, <3>1 DEF Jobs
    <3> QED
      BY <1>0, <1>2, <2>1, <2>2, <3>2 DEF Jobs
  <2> QED
    BY <1>0, <1>1, InWork, <1>3, <2>3, NextCandidateKeeps
<1> QED
  BY <1>6, <1>7, <1>8

LEMMA NoSuccessKeeps == ModeInv /\ NoSuccess => ModeInv'
<1> SUFFICES ASSUME ModeInv, NoSuccess PROVE ModeInv'
  OBVIOUS
<1>0. job.at = "switch" /\ Think /\ job \in Jobs
  BY InWork DEF NoSuccess, At
<1>1. PicoTypeOK' /\ persona' = persona
  BY <1>0, InWork, Unmoved
<1>2. CASE job.best = <<>>
  BY <1>1, <1>2, IdleKeeps DEF NoSuccess, Bail
<1>3. CASE job.best # <<>>
  <2> DEFINE x == job.best[1].persona
  <2>1. /\ job.best \in Seq(Scored) /\ job.pico \in Picos
        /\ job.snap \in [Picos -> AllPersonas \cup {None}]
    BY <1>0, JobFields, InWork
  <2>2. job.best[1] \in Scored
    BY <1>3, <2>1
  <2>3. x \in AllPersonas
    BY <2>2 DEF Scored
  <2>4. job' = [job EXCEPT !.at = "next", !.snap[job.pico] = x]
    BY <1>3 DEF NoSuccess
  <2> HIDE DEF x
  <2>5. /\ job' \in Jobs /\ job'.at = "next"
        /\ job'.snap = [job.snap EXCEPT ![job.pico] = x]
        /\ job'.todo = job.todo /\ job'.ready = job.ready
        /\ job'.want = job.want /\ job'.flow = job.flow /\ job'.proved = job.proved
    <3>1. "next" \in Waits
      BY DEF Waits
    <3>2. job' \in Jobs
      BY <1>0, <2>1, <2>3, <2>4, <3>1 DEF Jobs
    <3> QED
      BY <1>0, <2>4, <3>2 DEF Jobs
  <2>6. \A p \in job.todo \cup job.ready : p \in Targets' /\ Sure(p)'
    BY <1>0, <1>1, <2>1, <2>5, InWork DEF Sure, Targets
  <2>7. Choosing'
    BY <1>0, <1>1, <2>5, <2>6, InWork DEF Choosing, At
  <2> QED
    BY <1>1, <2>5, <2>6, <2>7, ChoiceKeeps DEF AutoSteps
<1> QED
  BY <1>2, <1>3

-----------------------------------------------------------------------------
(* The stream.                                                             *)

LEMMA StreamingKeeps ==
  ASSUME PicoTypeOK', job' \in Jobs, job'.at = "stream", StreamMatchesMode',
         job'.todo \cup job'.ready \subseteq Targets'
  PROVE  ModeInv'
<1>1. ModeTypeOK'
  BY DEF ModeTypeOK, At
<1>2. Choosing' /\ Switching' /\ Tracing' /\ SurveyLeavesNoTrace'
  BY DEF Choosing, Switching, Tracing, SurveyLeavesNoTrace, At, AutoSteps, Trying, Surveying
<1> QED
  BY <1>1, <1>2 DEF ModeInv

\* Only the place changes.
LEMMA Goes ==
  ASSUME job \in Jobs, NEW at \in Waits, Go(at)
  PROVE  /\ job' \in Jobs /\ job'.at = at /\ job'.flow = job.flow /\ job'.want = job.want
         /\ job'.snap = job.snap /\ job'.todo = job.todo /\ job'.ready = job.ready
         /\ job'.pico = job.pico /\ job'.try = job.try /\ job'.best = job.best
         /\ job'.orig = job.orig /\ job'.attempts = job.attempts
         /\ job'.restored = job.restored /\ job'.proved = job.proved
         /\ job'.missed = job.missed /\ Targets' = Targets
<1>1. job' \in Jobs
  BY DEF Go, Jobs
<1>2. job'.snap = job.snap
  BY DEF Go, Jobs
<1> QED
  BY <1>1, <1>2 DEF Go, Jobs, Targets

LEMMA StreamAutoKeeps == ModeInv /\ (StreamSelected \/ StreamAllRoutes) => ModeInv'
<1> SUFFICES ASSUME ModeInv, StreamSelected \/ StreamAllRoutes PROVE ModeInv'
  OBVIOUS
<1>1. /\ PicoTypeOK /\ job \in Jobs /\ job.at = "next" /\ Think
      /\ job.todo \cup job.ready \subseteq Targets
      /\ job.want \in AutoModes /\ \A p \in job.ready : Sure(p)
      /\ \A p \in job.ready : <<p, persona[p]>> \in job.proved
  BY DEF ModeInv, ModeTypeOK, Choosing, StreamSelected, StreamAllRoutes, At, AutoSteps
<1>2. PicoTypeOK' /\ persona' = persona
  BY <1>1, Unmoved
<1>3. CASE Bail
  BY <1>2, <1>3, IdleKeeps DEF Bail
<1>4. CASE Go("stream") /\ (job.flow = "home" => job.ready = Targets)
  <2>1. "stream" \in Waits
    BY DEF Waits
  <2>2. StreamMatchesMode'
    BY <1>1, <1>2, <1>4, <2>1, Goes DEF StreamMatchesMode, Sure
  <2> QED
    BY <1>1, <1>2, <1>4, <2>1, <2>2, Goes, StreamingKeeps
<1> QED
  BY <1>3, <1>4 DEF StreamSelected, StreamAllRoutes

LEMMA ReleaseKeeps == ModeInv /\ Release => ModeInv'
<1> SUFFICES ASSUME ModeInv, Release PROVE ModeInv'
  OBVIOUS
<1>1. /\ PicoTypeOK /\ job \in Jobs /\ job.at = "release" /\ Think
      /\ job.todo \cup job.ready \subseteq Targets
      /\ job.want \in AllPersonas /\ (job.flow = "home" => job.ready = Targets)
      /\ \A p \in job.ready : Sure(p) /\ job.snap[p] = job.want
  BY DEF ModeInv, ModeTypeOK, Switching, Release, At
<1>2. PicoTypeOK' /\ persona' = persona
  BY <1>1, Unmoved
<1>3. CASE Bail
  BY <1>2, <1>3, IdleKeeps DEF Bail
<1>4. CASE Go("stream")
  <2>1. "stream" \in Waits
    BY DEF Waits
  <2>2. job.want \notin AutoModes
    BY <1>1, AutoIsNoPersona
  <2>3. StreamMatchesMode'
    BY <1>1, <1>2, <1>4, <2>1, <2>2, Goes DEF StreamMatchesMode, Sure
  <2> QED
    BY <1>1, <1>2, <1>4, <2>1, <2>3, Goes, StreamingKeeps
<1> QED
  BY <1>3, <1>4 DEF Release

LEMMA EndKeepsMode == ModeInv /\ (StreamEnds \/ SurveyEnds) => ModeInv'
BY Unmoved, IdleKeeps DEF ModeInv, ModeTypeOK, StreamEnds, SurveyEnds, Bail

-----------------------------------------------------------------------------
(* One persona for all.                                                    *)

AllSteps == {"switch all", "wait all", "release"}

LEMMA AllKeeps ==
  ASSUME PicoTypeOK', job' \in Jobs, job'.at \in AllSteps, Switching',
         job'.todo \cup job'.ready \subseteq Targets'
  PROVE  ModeInv'
<1>1. ModeTypeOK'
  BY DEF ModeTypeOK, At, AllSteps
<1>2. Choosing' /\ Tracing' /\ StreamMatchesMode' /\ SurveyLeavesNoTrace'
  BY DEF Choosing, Tracing, StreamMatchesMode, SurveyLeavesNoTrace, At, AllSteps,
         AutoSteps, Trying, Surveying
<1> QED
  BY <1>1, <1>2 DEF ModeInv

LEMMA ForAll ==
  ASSUME ModeInv, job.at \in {"switch all", "wait all"}
  PROVE  /\ PicoTypeOK /\ job \in Jobs /\ job.todo \cup job.ready \subseteq Targets
         /\ Targets \subseteq Picos /\ job.snap \in [Picos -> AllPersonas \cup {None}]
         /\ job.want \in AllPersonas /\ job.flow \in {"command", "home"}
         /\ \A p \in Targets \ job.ready : Sure(p)
         /\ \A p \in Targets : p \in job.todo \cup job.ready <=> job.snap[p] # job.want
         /\ job.at = "switch all" /\ job.todo = {} => job.ready = {}
         /\ job.at = "wait all" => job.todo = {}
<1>1. job \in Jobs
  BY DEF ModeInv, ModeTypeOK
<1> QED
  BY <1>1, JobFields, TargetsAre DEF ModeInv, ModeTypeOK, Switching, At

LEMMA BeginKeeps ==
  ASSUME ModeInv, NEW flow \in {"command", "home"}, NEW want \in Wanted, Begin(flow, want)
  PROVE  ModeInv'
<1>1. PicoTypeOK /\ persona \in [Picos -> AllPersonas] /\ Think
  BY DEF ModeInv, ModeTypeOK, PicoTypeOK, Begin
<1>2. PicoTypeOK' /\ persona' = persona
  BY <1>1, Unmoved
<1>3. PICK found \in Discoveries(Picos) \ {{}} :
       LET snap == [p \in Picos |-> IF p \in found THEN persona[p] ELSE None]
       IN job' = [Idle EXCEPT
              !.at = IF want \in AutoModes THEN "next" ELSE "switch all",
              !.flow = flow, !.want = want, !.snap = snap,
              !.todo = IF want \in AutoModes THEN found
                       ELSE {p \in found : snap[p] # want}]
  BY DEF Begin
<1> DEFINE snap == [p \in Picos |-> IF p \in found THEN persona[p] ELSE None]
           at == IF want \in AutoModes THEN "next" ELSE "switch all"
           todo == IF want \in AutoModes THEN found ELSE {p \in found : snap[p] # want}
<1>4. found \subseteq Picos
  BY DEF Discoveries
<1>5. snap \in [Picos -> AllPersonas \cup {None}] /\ at \in Waits /\ todo \in SUBSET Picos
  BY <1>1, <1>4 DEF Waits
<1>6. job' = [Idle EXCEPT !.at = at, !.flow = flow, !.want = want, !.snap = snap,
                          !.todo = todo]
  BY <1>3
<1>7. /\ job' \in Jobs /\ job'.at = at /\ job'.flow = flow /\ job'.want = want
      /\ job'.snap = snap /\ job'.todo = todo /\ job'.ready = {}
  <2> HIDE DEF snap, at, todo
  <2>1. job' = [at |-> at, flow |-> flow, want |-> want, snap |-> snap, todo |-> todo,
                ready |-> {}, pico |-> None, try |-> <<>>, best |-> <<>>, orig |-> None,
                attempts |-> <<>>, restored |-> "no", proved |-> {}, missed |-> FALSE]
    BY <1>6 DEF Idle
  <2> QED
    BY <2>1, <1>5 DEF Jobs
<1>8. Targets' = found /\ \A p \in found : snap[p] = persona[p]
  <2>1. \A p \in found : snap[p] = persona[p] /\ snap[p] # None
    BY <1>1, <1>4, PicoModesAssumption
  <2>2. \A p \in Picos \ found : snap[p] = None
    OBVIOUS
  <2> HIDE DEF snap
  <2>3. Targets' = {p \in Picos : snap[p] # None}
    BY <1>7 DEF Targets
  <2> QED
    BY <1>4, <2>1, <2>2, <2>3
<1>9. todo \subseteq found /\ (want \in AutoModes => todo = found)
      /\ (want \notin AutoModes => todo = {p \in found : snap[p] # want})
  OBVIOUS
<1> HIDE DEF snap, todo
<1>10. CASE want \in AutoModes
  <2>1. Choosing'
    BY <1>2, <1>7, <1>8, <1>9, <1>10 DEF Choosing, At, Sure
  <2> QED
    BY <1>2, <1>7, <1>8, <1>9, <1>10, <2>1, ChoiceKeeps DEF AutoSteps
<1>11. CASE want \notin AutoModes
  <2>1. want \in AllPersonas
    BY <1>11, ModeFlowsAssumption
  <2>2. Switching'
    BY <1>2, <1>7, <1>8, <1>9, <1>11, <2>1 DEF Switching, At, Sure
  <2> QED
    BY <1>2, <1>7, <1>8, <1>9, <1>11, <2>2, AllKeeps DEF AllSteps
<1> QED
  BY <1>10, <1>11

LEMMA SwitchAllKeeps == ModeInv /\ SwitchAll => ModeInv'
<1> SUFFICES ASSUME ModeInv, SwitchAll PROVE ModeInv'
  OBVIOUS
<1>1. job.at = "switch all" /\ Ask
  BY DEF SwitchAll, At
<1>2. PICK p \in job.todo :
          /\ RequestSetPersona(p, job.want)
          /\ \/ job' = [job EXCEPT !.todo = @ \ {p}, !.ready = @ \cup {p},
                           !.at = IF job.todo = {p} THEN "wait all" ELSE @]
             \/ Bail
  BY DEF SwitchAll
<1>3. CASE RequestSetPersona(p, job.want) /\ Bail
  <2>1. PicoTypeOK'
    BY <1>1, <1>3, ForAll, Asked DEF Only
  <2> QED
    BY <1>1, <1>3, <2>1, ForAll, IdleKeeps DEF Bail
<1>4. CASE /\ RequestSetPersona(p, job.want)
           /\ job' = [job EXCEPT !.todo = @ \ {p}, !.ready = @ \cup {p},
                           !.at = IF job.todo = {p} THEN "wait all" ELSE @]
  <2>1. p \in Picos /\ Only(p, job.want)
    BY <1>1, <1>4, ForAll, Asked
  <2> DEFINE at == IF job.todo = {p} THEN "wait all" ELSE job.at
             todo == job.todo \ {p}
             ready == job.ready \cup {p}
  <2>2. at \in Waits /\ todo \in SUBSET Picos /\ ready \in SUBSET Picos
    BY <1>1, <2>1, ForAll DEF Waits
  <2>3. /\ at \in {"switch all", "wait all"} /\ (at = "wait all" <=> todo = {})
        /\ todo \cup ready = job.todo \cup job.ready
    BY <1>1
  <2>4. job' = [job EXCEPT !.todo = todo, !.ready = ready, !.at = at]
    BY <1>4
  <2>5. p \in ready /\ job.ready \subseteq ready
    OBVIOUS
  <2> HIDE DEF at, todo, ready
  <2>6. /\ job' \in Jobs /\ job'.at = at /\ job'.todo = todo /\ job'.ready = ready
        /\ job'.snap = job.snap /\ job'.want = job.want /\ job'.flow = job.flow
    <3>1. job \in Jobs
      BY <1>1, ForAll
    <3>2. job' \in Jobs
      BY <2>2, <2>4, <3>1 DEF Jobs
    <3> QED
      BY <2>4, <3>1, <3>2 DEF Jobs
  <2>7. Targets' = Targets
    BY <2>6 DEF Targets
  <2>8. \A q \in Targets \ ready : Sure(q)'
    BY <1>1, <2>1, <2>5, <2>6, ForAll DEF Only, Sure
  <2>9. Switching'
    BY <1>1, <2>3, <2>6, <2>7, <2>8, ForAll DEF Switching, At
  <2> QED
    BY <1>1, <2>1, <2>3, <2>6, <2>7, <2>9, ForAll, AllKeeps DEF AllSteps, Only
<1> QED
  BY <1>2, <1>3, <1>4

LEMMA AllAlreadyKeeps == ModeInv /\ AllAlready => ModeInv'
<1> SUFFICES ASSUME ModeInv, AllAlready PROVE ModeInv'
  OBVIOUS
<1>1. /\ job.at = "switch all" /\ Think /\ job.todo = {} /\ job.ready = {}
      /\ job' = [job EXCEPT !.at = "release", !.ready = Targets]
  BY ForAll DEF AllAlready, At
<1>2. PicoTypeOK' /\ persona' = persona
  BY <1>1, ForAll, Unmoved
<1>3. /\ job' \in Jobs /\ job'.at = "release" /\ job'.ready = Targets
      /\ job'.todo = job.todo /\ job'.snap = job.snap /\ job'.want = job.want
  <2>1. "release" \in Waits /\ Targets \in SUBSET Picos
    BY <1>1, ForAll DEF Waits
  <2>2. job' \in Jobs
    BY <1>1, <2>1, ForAll DEF Jobs
  <2> QED
    BY <1>1, <2>2, ForAll DEF Jobs
<1>4. Targets' = Targets
  BY <1>3 DEF Targets
<1>5. \A p \in Targets : Sure(p)' /\ job.snap[p] = job.want
  BY <1>1, <1>2, <1>3, ForAll DEF Sure
<1>6. job.want \in AllPersonas
  BY <1>1, ForAll
<1>7. Switching'
  BY <1>3, <1>4, <1>5, <1>6 DEF Switching, At
<1> QED
  BY <1>1, <1>2, <1>3, <1>4, <1>7, AllKeeps DEF AllSteps

\* What the answers say: who has been heard is in the persona it was heard in.
LEMMA AnswersHeard ==
  ASSUME ModeInv, job.at = "wait all", NEW seen \in Discoveries(job.ready), NEW else,
         else \in [Picos -> AllPersonas \cup {None}],
         \A p \in job.ready : else[p] # job.want
  PROVE  /\ HeardAs(seen, else) \in [Picos -> AllPersonas \cup {None}]
         /\ InMode(HeardAs(seen, else)) \subseteq Targets
         /\ \A p \in InMode(HeardAs(seen, else)) :
                HeardAs(seen, else)[p] = job.want /\ persona[p] = job.want
<1>1. /\ seen \subseteq job.ready /\ job.ready \subseteq Targets /\ Targets \subseteq Picos
      /\ job.want \in AllPersonas /\ job.snap \in [Picos -> AllPersonas \cup {None}]
      /\ persona \in [Picos -> AllPersonas]
  BY ForAll DEF Discoveries, PicoTypeOK
<1>2. HeardAs(seen, else) \in [Picos -> AllPersonas \cup {None}]
  BY <1>1 DEF HeardAs
<1>3. ASSUME NEW p \in InMode(HeardAs(seen, else))
      PROVE  /\ p \in Targets /\ persona[p] = job.want
             /\ HeardAs(seen, else)[p] = job.want
  <2>1. p \in Picos /\ HeardAs(seen, else)[p] = job.want
    BY DEF InMode
  <2>2. CASE p \in seen
    BY <1>1, <2>1, <2>2 DEF HeardAs
  <2>3. CASE p \in job.ready \ seen
    BY <1>1, <2>1, <2>3 DEF HeardAs
  <2>4. CASE p \notin job.ready
    <3>1. job.snap[p] = job.want
      BY <1>1, <2>1, <2>4 DEF HeardAs
    <3>2. p \in Targets
      BY <1>1, <2>1, <3>1, PicoModesAssumption DEF Targets
    <3> QED
      BY <2>1, <2>4, <3>1, <3>2, ForAll DEF Sure
  <2> QED
    BY <1>1, <2>2, <2>3, <2>4
<1> QED
  BY <1>2, <1>3

LEMMA WaitAllKeeps == ModeInv /\ WaitAll => ModeInv'
<1> SUFFICES ASSUME ModeInv, WaitAll PROVE ModeInv'
  OBVIOUS
<1>1. job.at = "wait all" /\ job.flow = "command" /\ Ask
  BY DEF WaitAll, At
<1>2. /\ job \in Jobs /\ PicoTypeOK /\ job.todo = {} /\ job.want \in AllPersonas
  BY <1>1, ForAll
<1>3. ASSUME NEW seen \in Discoveries(job.ready), WaitForPersona(job.ready, seen),
             NEW snap, snap = HeardAs(seen, [p \in Picos |-> None]),
             job' = [job EXCEPT !.at = "release", !.snap = snap, !.ready = InMode(snap)]
      PROVE  ModeInv'
  <2>1. PicoTypeOK' /\ persona' = persona
    BY <1>1, <1>2, <1>3, Answered
  <2>2. /\ snap \in [Picos -> AllPersonas \cup {None}]
        /\ \A p \in InMode(snap) : snap[p] = job.want /\ persona[p] = job.want
    <3>1. \A p \in job.ready : [q \in Picos |-> None][p] # job.want
      BY <1>2, JobFields, PicoModesAssumption
    <3> QED
      BY <1>1, <1>3, <3>1, AnswersHeard
  <2>3. /\ job' \in Jobs /\ job'.at = "release" /\ job'.ready = InMode(snap)
        /\ job'.todo = {} /\ job'.snap = snap /\ job'.want = job.want
        /\ job'.flow = "command"
    <3>1. "release" \in Waits /\ InMode(snap) \in SUBSET Picos
      BY DEF Waits, InMode
    <3>2. job' \in Jobs
      BY <1>2, <1>3, <2>2, <3>1 DEF Jobs
    <3>3. job \in Jobs /\ job' = [job EXCEPT !.at = "release", !.snap = snap, !.ready = InMode(snap)]
      BY <1>2, <1>3
    <3>4. /\ job'.at = "release" /\ job'.ready = InMode(snap) /\ job'.todo = job.todo
          /\ job'.snap = snap /\ job'.want = job.want /\ job'.flow = job.flow
      BY <3>3 DEF Jobs
    <3> QED
      BY <1>1, <1>2, <3>2, <3>4
  <2>4. InMode(snap) \subseteq Targets'
    BY <1>2, <2>2, <2>3, PicoModesAssumption DEF Targets, InMode
  <2>5. Switching'
    BY <1>2, <2>1, <2>2, <2>3 DEF Switching, At, Sure
  <2> QED
    BY <2>1, <2>3, <2>4, <2>5, AllKeeps DEF AllSteps
<1>4. CASE Bail /\ NoChange
  BY <1>1, <1>2, <1>4, Unasked, IdleKeeps DEF Bail
<1>5. CASE \E seen \in Discoveries(job.ready) :
          LET snap == HeardAs(seen, [p \in Picos |-> None])
          IN /\ WaitForPersona(job.ready, seen)
             /\ IF InMode(snap) = {} THEN Bail
                ELSE job' = [job EXCEPT !.at = "release", !.snap = snap,
                                        !.ready = InMode(snap)]
  BY <1>1, <1>2, <1>3, <1>5, Answered, IdleKeeps DEF Bail
<1> QED
  BY <1>4, <1>5 DEF WaitAll

LEMMA WaitAllRoutesKeeps == ModeInv /\ WaitAllRoutes => ModeInv'
<1> SUFFICES ASSUME ModeInv, WaitAllRoutes PROVE ModeInv'
  OBVIOUS
<1>1. job.at = "wait all" /\ job.flow = "home" /\ Ask
  BY DEF WaitAllRoutes, At
<1>2. /\ job \in Jobs /\ PicoTypeOK /\ job.todo = {} /\ job.want \in AllPersonas
      /\ job.snap \in [Picos -> AllPersonas \cup {None}]
      /\ job.ready \subseteq Targets /\ Targets \subseteq Picos
      /\ \A p \in Targets : p \in job.ready <=> job.snap[p] # job.want
  BY <1>1, ForAll
<1>3. ASSUME NEW seen \in Discoveries(job.ready), WaitForPersona(job.ready, seen),
             NEW snap, snap = HeardAs(seen, job.snap), InMode(snap) = Targets,
             job' = [job EXCEPT !.at = "release", !.snap = snap, !.ready = Targets]
      PROVE  ModeInv'
  <2>1. PicoTypeOK' /\ persona' = persona
    BY <1>1, <1>2, <1>3, Answered
  <2>2. /\ snap \in [Picos -> AllPersonas \cup {None}]
        /\ \A p \in Targets : snap[p] = job.want /\ persona[p] = job.want
    <3>1. \A p \in job.ready : job.snap[p] # job.want
      BY <1>2
    <3>2. /\ snap \in [Picos -> AllPersonas \cup {None}]
          /\ \A p \in InMode(snap) : snap[p] = job.want /\ persona[p] = job.want
      <4>1. /\ job.at = "wait all" /\ snap = HeardAs(seen, job.snap)
            /\ job.snap \in [Picos -> AllPersonas \cup {None}]
        BY <1>1, <1>2, <1>3
      <4>2. /\ HeardAs(seen, job.snap) \in [Picos -> AllPersonas \cup {None}]
            /\ \A p \in InMode(HeardAs(seen, job.snap)) :
                   HeardAs(seen, job.snap)[p] = job.want /\ persona[p] = job.want
        BY <3>1, <4>1, AnswersHeard
      <4> QED
        BY <4>1, <4>2
    <3> QED
      BY <1>3, <3>2
  <2>3. /\ job' \in Jobs /\ job'.at = "release" /\ job'.ready = Targets
        /\ job'.todo = {} /\ job'.snap = snap /\ job'.want = job.want
    <3>1. "release" \in Waits /\ Targets \in SUBSET Picos
      BY <1>2 DEF Waits
    <3>2. job' \in Jobs
      BY <1>2, <1>3, <2>2, <3>1 DEF Jobs
    <3>3. job \in Jobs /\ job' = [job EXCEPT !.at = "release", !.snap = snap, !.ready = Targets]
      BY <1>2, <1>3
    <3>4. /\ job'.at = "release" /\ job'.ready = Targets /\ job'.todo = job.todo
          /\ job'.snap = snap /\ job'.want = job.want /\ job'.flow = job.flow
      BY <3>3 DEF Jobs
    <3> QED
      BY <1>1, <1>2, <3>2, <3>4
  <2>4. \A p \in Picos \ Targets : snap[p] = None
    <3>1. seen \subseteq job.ready
      BY DEF Discoveries
    <3> QED
      BY <1>2, <1>3, <3>1 DEF HeardAs, Targets
  <2>5. Targets' = Targets
    <3>1. Targets' = {p \in Picos : snap[p] # None}
      BY <2>3 DEF Targets
    <3> QED
      BY <1>2, <2>2, <2>4, <3>1, PicoModesAssumption
  <2>6. Switching'
    BY <1>2, <2>1, <2>2, <2>3, <2>5 DEF Switching, At, Sure
  <2> QED
    BY <2>1, <2>3, <2>5, <2>6, AllKeeps DEF AllSteps
<1>4. CASE Bail /\ NoChange
  BY <1>1, <1>2, <1>4, Unasked, IdleKeeps DEF Bail
<1>5. CASE \E seen \in Discoveries(job.ready) :
          LET snap == HeardAs(seen, job.snap)
          IN /\ WaitForPersona(job.ready, seen)
             /\ IF InMode(snap) # Targets THEN Bail
                ELSE job' = [job EXCEPT !.at = "release", !.snap = snap,
                                        !.ready = Targets]
  BY <1>1, <1>2, <1>3, <1>5, Answered, IdleKeeps DEF Bail
<1> QED
  BY <1>4, <1>5 DEF WaitAllRoutes

-----------------------------------------------------------------------------
(* The survey.                                                             *)

LEMMA TraceKeeps ==
  ASSUME PicoTypeOK', job' \in Jobs, job'.at \in Trying \cup {"surveyed"}, Tracing',
         job'.todo \cup job'.ready \subseteq Targets', SurveyLeavesNoTrace',
         job'.at \in {"survey confirm", "survey query"} => job'.try # <<>>
  PROVE  ModeInv'
<1>1. ModeTypeOK'
  BY DEF ModeTypeOK, At, Trying, Surveying
<1>2. Choosing' /\ Switching' /\ StreamMatchesMode'
  BY DEF Choosing, Switching, StreamMatchesMode, At, AutoSteps, Trying, Surveying
<1> QED
  BY <1>1, <1>2 DEF ModeInv

\* The survey goes on.
LEMMA TryingKeeps ==
  ASSUME PicoTypeOK', job' \in Jobs, job'.at \in Trying,
         job'.todo \cup job'.ready \subseteq Targets', job'.restored = "no",
         job'.pico \in Targets', job'.orig \in AllPersonas,
         job'.at \in Surveying /\ ~job'.missed => Sure(job.pico)',
         job'.at \in {"survey confirm", "survey query"} => job'.try # <<>>
  PROVE  ModeInv'
<1>1. job'.pico \in Picos
  BY DEF Targets
<1>2. job'.at # "surveyed"
  BY DEF Trying, Surveying
<1>3. Tracing'
  BY <1>1, <1>2 DEF Tracing, Sure
<1>4. SurveyLeavesNoTrace'
  BY <1>2 DEF SurveyLeavesNoTrace, At
<1> QED
  BY <1>3, <1>4, TraceKeeps

LEMMA SeqMade ==
  ASSUME NEW S, NEW s \in Seq(S), NEW x \in S
  PROVE  <<x>> \in Seq(S) /\ Append(s, x) \in Seq(S)
OBVIOUS

LEMMA AttemptIs ==
  ASSUME NEW x \in AllPersonas, NEW atStart \in BOOLEAN, NEW d \in Diags \cup {NoDiag}
  PROVE  Attempt(x, atStart, d) \in Attempts
BY DEF Attempts

\* What holds during a survey.
LEMMA OnSurvey ==
  ASSUME ModeInv, job.at \in Trying
  PROVE  /\ PicoTypeOK /\ job \in Jobs /\ job.pico \in Picos /\ job.pico \in Targets
         /\ job.todo \cup job.ready \subseteq Targets
         /\ Current \in AllPersonas /\ job.orig \in AllPersonas /\ job.restored = "no"
         /\ job.try \in Turns /\ job.attempts \in Seq(Attempts)
         /\ job.at \in Surveying /\ ~job.missed => Sure(job.pico)
         /\ job.at \in {"survey confirm", "survey query"} => job.try # <<>>
<1>1. /\ job \in Jobs /\ job.try \in Turns /\ job.attempts \in Seq(Attempts)
  BY JobFields DEF ModeInv, ModeTypeOK
<1>2. job.pico \in Targets
  BY DEF ModeInv, Tracing
<1>3. Current \in AllPersonas
  BY <1>1, <1>2, TargetsAre DEF Current
<1> QED
  BY <1>1, <1>2, <1>3 DEF ModeInv, ModeTypeOK, Tracing, At, Trying, Surveying

LEMMA BeginSurveyKeeps == ModeInv /\ BeginSurvey => ModeInv'
<1> SUFFICES ASSUME ModeInv, BeginSurvey PROVE ModeInv'
  OBVIOUS
<1>1. PicoTypeOK /\ persona \in [Picos -> AllPersonas] /\ Think
  BY DEF ModeInv, ModeTypeOK, PicoTypeOK, BeginSurvey
<1>2. PicoTypeOK' /\ persona' = persona
  BY <1>1, Unmoved
<1>3. PICK p \in LiveSeeds : \E d \in QueryUsbDiag(p) :
       LET now == persona[p]
           mine == [Idle EXCEPT !.flow = "survey", !.pico = p, !.orig = now,
                        !.snap[p] = now, !.attempts = <<Attempt(now, TRUE, d)>>,
                        !.try = SurveyCandidates(now, SurveyAccepted(now, d))]
       IN job' = [mine EXCEPT !.at =
                 IF NeedsCapture(now, d) /\ now # "Debug" THEN "capture" ELSE "survey"]
  BY DEF BeginSurvey
<1>3a. PICK d \in QueryUsbDiag(p) :
       LET now == persona[p]
           mine == [Idle EXCEPT !.flow = "survey", !.pico = p, !.orig = now,
                        !.snap[p] = now, !.attempts = <<Attempt(now, TRUE, d)>>,
                        !.try = SurveyCandidates(now, SurveyAccepted(now, d))]
       IN job' = [mine EXCEPT !.at =
                 IF NeedsCapture(now, d) /\ now # "Debug" THEN "capture" ELSE "survey"]
  BY <1>3
<1>4. p \in Picos /\ persona[p] \in AllPersonas
  BY <1>1 DEF LiveSeeds, Discoveries
<1> DEFINE now == persona[p]
           try == SurveyCandidates(now, SurveyAccepted(now, d))
           attempts == <<Attempt(now, TRUE, d)>>
           snap == [[q \in Picos |-> None] EXCEPT ![p] = now]
           at == IF NeedsCapture(now, d) /\ now # "Debug" THEN "capture" ELSE "survey"
<1>5. try \in Seq(AllPersonas)
  BY SurveyLaid DEF Turns
<1>6. attempts \in Seq(Attempts)
  <2>1. Attempt(now, TRUE, d) \in Attempts
    BY <1>1, <1>4, Queried, AttemptIs
  <2>2. <<>> \in Seq(Attempts)
    OBVIOUS
  <2> QED
    BY <2>1, <2>2, SeqMade
<1>7. snap \in [Picos -> AllPersonas \cup {None}] /\ at \in Waits /\ at \in Surveying
  BY <1>4 DEF Waits, Surveying
<1>8. at \notin {"survey confirm", "survey query"} /\ snap[p] = now
  BY <1>4
<1>9. job' = [at |-> at, flow |-> "survey", want |-> None, snap |-> snap, todo |-> {},
              ready |-> {}, pico |-> p, try |-> try, best |-> <<>>, orig |-> now,
              attempts |-> attempts, restored |-> "no", proved |-> {}, missed |-> FALSE]
  BY <1>3a DEF Idle
<1> HIDE DEF try, attempts, snap, at
<1>10. job' \in Jobs
  BY <1>4, <1>5, <1>6, <1>7, <1>9 DEF Jobs
<1>11. /\ job'.at = at /\ job'.todo = {} /\ job'.ready = {} /\ job'.restored = "no"
       /\ job'.pico = p /\ job'.orig = now /\ job'.snap = snap
  BY <1>9
<1>12. p \in Targets' /\ Sure(job.pico)'
  BY <1>2, <1>4, <1>8, <1>11, PicoModesAssumption DEF Targets, Sure
<1> QED
  BY <1>2, <1>4, <1>7, <1>8, <1>10, <1>11, <1>12, TryingKeeps DEF Trying

\* The survey goes to `at`; of what it knows, only whether it missed a switch
\* and the personas left and tried may change.
LEMMA SurveyGoes ==
  ASSUME ModeInv, job.at \in Trying, PicoTypeOK', job' \in Jobs, job'.at \in Trying,
         job'.todo = job.todo, job'.ready = job.ready, job'.restored = job.restored,
         job'.pico = job.pico, job'.orig = job.orig, job'.snap = job.snap,
         job'.at \in Surveying /\ ~job'.missed => persona'[job.pico] = job.snap[job.pico],
         job'.at \in {"survey confirm", "survey query"} => job'.try # <<>>
  PROVE  ModeInv'
<1>1. Targets' = Targets
  BY DEF Targets
<1>2. job'.at \in Surveying /\ ~job'.missed => Sure(job.pico)'
  BY DEF Sure
<1> QED
  BY <1>1, <1>2, OnSurvey, TryingKeeps

\* A switch that failed is noted; the next persona is tried.
LEMMA FailedAttemptKeeps ==
  ASSUME ModeInv, job.at \in {"survey", "survey confirm"}, job.try # <<>>,
         PicoTypeOK', FailedAttempt
  PROVE  ModeInv'
<1>0. job.at \in Trying
  BY DEF Trying, Surveying
<1>1. job \in Jobs /\ Candidate \in AllPersonas /\ Tail(job.try) \in Seq(AllPersonas)
  BY <1>0, OnSurvey, NextInOrder DEF Candidate, Turns
<1> DEFINE attempts == Append(job.attempts, Attempt(Candidate, FALSE, NoDiag))
           missed == persona'[job.pico] # Current
<1>2. attempts \in Seq(Attempts)
  <2>1. Attempt(Candidate, FALSE, NoDiag) \in Attempts
    BY <1>1, AttemptIs
  <2> QED
    BY <1>0, <2>1, OnSurvey, SeqMade
<1>3. missed \in BOOLEAN /\ (~missed => persona'[job.pico] = job.snap[job.pico])
  BY DEF Current
<1>4. job' = [job EXCEPT !.at = "survey", !.try = Tail(job.try),
                         !.attempts = attempts, !.missed = missed]
  BY DEF FailedAttempt
<1> HIDE DEF attempts, missed
<1>5. job' \in Jobs
  <2>1. "survey" \in Waits
    BY DEF Waits
  <2> QED
    BY <1>1, <1>2, <1>3, <1>4, <2>1 DEF Jobs
<1>6. /\ job'.at = "survey" /\ job'.missed = missed
      /\ job'.todo = job.todo /\ job'.ready = job.ready /\ job'.restored = job.restored
      /\ job'.pico = job.pico /\ job'.orig = job.orig /\ job'.snap = job.snap
  BY <1>1, <1>4 DEF Jobs
<1> QED
  BY <1>0, <1>3, <1>5, <1>6, SurveyGoes DEF Trying, Surveying

LEMMA SwitchToSurveyPersonaKeeps == ModeInv /\ SwitchToSurveyPersona => ModeInv'
<1> SUFFICES ASSUME ModeInv, SwitchToSurveyPersona PROVE ModeInv'
  OBVIOUS
<1>1. job.at = "survey" /\ job.at \in Trying /\ job.at \in Surveying
      /\ job.try # <<>> /\ Ask
  BY DEF SwitchToSurveyPersona, At, Trying, Surveying
<1>2. /\ job \in Jobs /\ PicoTypeOK /\ job.pico \in Picos
      /\ (~job.missed => persona[job.pico] = job.snap[job.pico])
  BY <1>1, OnSurvey DEF Sure
<1>3. Candidate \in AllPersonas
  BY <1>1, OnSurvey, NextInOrder DEF Candidate
<1>4. CASE Go("survey query") /\ NoChange
  <2>1. "survey query" \in Waits /\ "survey query" \in Trying
    BY DEF Waits, Trying, Surveying
  <2>2. PicoTypeOK' /\ persona' = persona
    BY <1>1, <1>2, <1>4, Unasked
  <2> QED
    BY <1>1, <1>2, <1>4, <2>1, <2>2, Goes, SurveyGoes
<1>5. CASE RequestSetPersona(job.pico, Candidate) /\ Go("survey confirm")
  <2>1. /\ "survey confirm" \in Waits /\ "survey confirm" \in Trying
        /\ "survey confirm" \notin Surveying
    BY DEF Waits, Trying, Surveying
  <2>2. PicoTypeOK'
    BY <1>1, <1>2, <1>3, <1>5, Asked DEF Only
  <2> QED
    BY <1>1, <1>2, <1>5, <2>1, <2>2, Goes, SurveyGoes
<1>6. CASE RequestSetPersona(job.pico, Candidate) /\ FailedAttempt
  <2>1. PicoTypeOK'
    BY <1>1, <1>2, <1>3, <1>6, Asked DEF Only
  <2> QED
    BY <1>1, <1>6, <2>1, FailedAttemptKeeps
<1> QED
  BY <1>4, <1>5, <1>6 DEF SwitchToSurveyPersona

LEMMA ConfirmSurveyPersonaKeeps == ModeInv /\ ConfirmSurveyPersona => ModeInv'
<1> SUFFICES ASSUME ModeInv, ConfirmSurveyPersona PROVE ModeInv'
  OBVIOUS
<1>1. job.at = "survey confirm" /\ job.at \in Trying /\ Ask
  BY DEF ConfirmSurveyPersona, At, Trying
<1>2. /\ job \in Jobs /\ PicoTypeOK /\ job.pico \in Picos /\ job.try # <<>>
      /\ job.snap \in [Picos -> AllPersonas \cup {None}]
      /\ job.todo \cup job.ready \subseteq Targets /\ job.pico \in Targets
      /\ job.restored = "no" /\ job.orig \in AllPersonas
  BY <1>1, OnSurvey, JobFields
<1>3. Candidate \in AllPersonas
  BY <1>1, <1>2, OnSurvey, NextInOrder DEF Candidate
<1>4. ASSUME PicoTypeOK', persona' = persona, persona[job.pico] = Candidate,
             job' = [job EXCEPT !.at = "survey query",
                              !.snap[job.pico] = Candidate, !.missed = FALSE]
      PROVE  ModeInv'
  <2>1. job' \in Jobs
    <3>1. "survey query" \in Waits
      BY DEF Waits
    <3> QED
      BY <1>2, <1>3, <1>4, <3>1 DEF Jobs
  <2>2. /\ job'.at = "survey query" /\ job'.pico = job.pico /\ job'.orig = job.orig
        /\ job'.restored = job.restored /\ job'.todo = job.todo /\ job'.ready = job.ready
        /\ job'.snap = [job.snap EXCEPT ![job.pico] = Candidate] /\ job'.try = job.try
    BY <1>2, <1>4 DEF Jobs
  <2>3. Targets' = Targets /\ Sure(job.pico)'
    BY <1>2, <1>3, <1>4, <2>2, PicoModesAssumption DEF Targets, Sure
  <2>4. job'.at \in Trying
    BY <2>2 DEF Trying, Surveying
  <2>5. /\ job'.todo \cup job'.ready \subseteq Targets' /\ job'.pico \in Targets'
        /\ job'.restored = "no" /\ job'.orig \in AllPersonas /\ job'.try # <<>>
    BY <1>2, <2>2, <2>3
  <2> QED
    BY <1>4, <2>1, <2>3, <2>4, <2>5, TryingKeeps
<1>5. CASE \E seen \in Discoveries({job.pico}) :
          /\ WaitForPersona({job.pico}, seen)
          /\ IF job.pico \in seen /\ persona[job.pico] = Candidate
             THEN job' = [job EXCEPT !.at = "survey query",
                              !.snap[job.pico] = Candidate, !.missed = FALSE]
             ELSE FailedAttempt
  BY <1>1, <1>2, <1>4, <1>5, Answered, FailedAttemptKeeps
<1>6. CASE FailedAttempt /\ NoChange
  BY <1>1, <1>2, <1>6, Unasked, FailedAttemptKeeps
<1> QED
  BY <1>5, <1>6 DEF ConfirmSurveyPersona

LEMMA QuerySurveyKeeps == ModeInv /\ QuerySurveyUsbDiag => ModeInv'
<1> SUFFICES ASSUME ModeInv, QuerySurveyUsbDiag PROVE ModeInv'
  OBVIOUS
<1>1. job.at = "survey query" /\ job.at \in Trying /\ job.at \in Surveying /\ Think
  BY DEF QuerySurveyUsbDiag, At, Trying, Surveying
<1>2. /\ job \in Jobs /\ PicoTypeOK /\ job.pico \in Picos /\ job.try # <<>>
      /\ job.attempts \in Seq(Attempts)
      /\ (~job.missed => persona[job.pico] = job.snap[job.pico])
  BY <1>1, OnSurvey DEF Sure
<1>3. Candidate \in AllPersonas /\ Tail(job.try) \in Seq(AllPersonas)
  BY <1>1, <1>2, OnSurvey, NextInOrder DEF Candidate, Turns
<1>4. PicoTypeOK' /\ persona' = persona
  BY <1>1, <1>2, Unmoved
<1>5. PICK d \in QueryUsbDiag(job.pico) :
       LET accepted == SurveyAccepted(Candidate, d)
       IN job' = [job EXCEPT
              !.at = IF NeedsCapture(Candidate, d) THEN "capture" ELSE "survey",
              !.try = IF accepted THEN <<>> ELSE Tail(@),
              !.attempts = Append(@, Attempt(Candidate, FALSE, d))]
  BY DEF QuerySurveyUsbDiag
<1> DEFINE at == IF NeedsCapture(Candidate, d) THEN "capture" ELSE "survey"
           try == IF SurveyAccepted(Candidate, d) THEN <<>> ELSE Tail(job.try)
           attempts == Append(job.attempts, Attempt(Candidate, FALSE, d))
<1>6. /\ at \in Waits /\ at \in Trying /\ at \notin {"survey confirm", "survey query"}
  BY DEF Waits, Trying, Surveying
<1>7. try \in Seq(AllPersonas)
  BY <1>3
<1>8. attempts \in Seq(Attempts)
  <2>1. Attempt(Candidate, FALSE, d) \in Attempts
    BY <1>2, <1>3, Queried, AttemptIs
  <2> QED
    BY <1>2, <2>1, SeqMade
<1>9. job' = [job EXCEPT !.at = at, !.try = try, !.attempts = attempts]
  BY <1>5
<1> HIDE DEF at, try, attempts
<1>10. job' \in Jobs
  BY <1>2, <1>6, <1>7, <1>8, <1>9 DEF Jobs
<1>11. /\ job'.at = at /\ job'.missed = job.missed
       /\ job'.todo = job.todo /\ job'.ready = job.ready /\ job'.restored = job.restored
       /\ job'.pico = job.pico /\ job'.orig = job.orig /\ job'.snap = job.snap
  BY <1>2, <1>9 DEF Jobs
<1> QED
  BY <1>1, <1>2, <1>4, <1>6, <1>10, <1>11, SurveyGoes

\* Neither a capture boot nor its end changes the persona.
LEMMA CaptureKeeps ==
  ModeInv /\ (CaptureRequest \/ CaptureWait \/ HarvestAndClear) => ModeInv'
<1> SUFFICES ASSUME ModeInv, CaptureRequest \/ CaptureWait \/ HarvestAndClear
             PROVE  ModeInv'
  OBVIOUS
<1>1. job.at \in Trying /\ job.at \in Surveying /\ Ask
  BY DEF CaptureRequest, CaptureWait, HarvestAndClear, At, Trying, Surveying
<1>2. /\ job \in Jobs /\ PicoTypeOK /\ job.pico \in Picos /\ Current \in AllPersonas
      /\ (~job.missed => persona[job.pico] = job.snap[job.pico])
  BY <1>1, OnSurvey DEF Sure
<1>3. /\ {"survey", "capture wait", "harvest"} \subseteq Waits
      /\ {"survey", "capture wait", "harvest"} \subseteq Trying
  BY DEF Waits, Trying, Surveying
<1>4. ASSUME PicoTypeOK', NEW at \in {"survey", "capture wait", "harvest"}, Go(at),
             ~job.missed => persona'[job.pico] = job.snap[job.pico]
      PROVE  ModeInv'
  BY <1>1, <1>2, <1>3, <1>4, Goes, SurveyGoes
<1>5. CASE RequestCapture(job.pico, Current) /\ (Go("capture wait") \/ Go("survey"))
  <2>1. Only(job.pico, Current)
    BY <1>1, <1>2, <1>5, Asked
  <2>2. ~job.missed => persona'[job.pico] = job.snap[job.pico]
    BY <1>2, <2>1 DEF Only, Current
  <2> QED
    BY <1>4, <1>5, <2>1, <2>2 DEF Only
<1>7. CASE CaptureWait
  <2>1. \E at \in {"survey", "harvest"} : Go(at)
    BY <1>7 DEF CaptureWait
  <2>2. PicoTypeOK' /\ persona' = persona
    BY <1>1, <1>2, <1>7, Answered, Unasked DEF CaptureWait
  <2> QED
    BY <1>2, <1>4, <2>1, <2>2
<1>8. CASE HarvestAndClear
  <2>1. PicoTypeOK' /\ persona' = persona /\ Go("survey")
    BY <1>1, <1>2, <1>8, Cleared DEF HarvestAndClear
  <2> QED
    BY <1>2, <1>4, <2>1
<1> QED
  BY <1>5, <1>7, <1>8 DEF CaptureRequest

\* The survey has ended.
LEMMA SurveyedKeeps ==
  ASSUME ModeInv, job.at \in Trying, PicoTypeOK', job' \in Jobs, job'.at = "surveyed",
         job'.todo = job.todo, job'.ready = job.ready, job'.pico = job.pico,
         job'.orig = job.orig, job'.snap = job.snap,
         job'.restored # "no" /\ ~job'.missed => persona'[job.pico] = job.orig
  PROVE  ModeInv'
<1>1. Targets' = Targets
  BY DEF Targets
<1>2. Tracing'
  BY OnSurvey DEF Tracing, Trying, Surveying
<1>3. SurveyLeavesNoTrace'
  BY DEF SurveyLeavesNoTrace
<1> QED
  BY <1>1, <1>2, <1>3, OnSurvey, TraceKeeps

LEMMA RestoreKeeps == ModeInv /\ Restore => ModeInv'
<1> SUFFICES ASSUME ModeInv, Restore PROVE ModeInv'
  OBVIOUS
<1>1. job.at \in Trying /\ job.at \in Surveying /\ Ask
  BY DEF Restore, At, Trying, Surveying
<1>2. /\ job \in Jobs /\ PicoTypeOK /\ job.pico \in Picos /\ job.orig \in AllPersonas
      /\ job.restored = "no" /\ (~job.missed => persona[job.pico] = job.snap[job.pico])
  BY <1>1, OnSurvey DEF Sure
<1>3. "surveyed" \in Waits /\ "restore wait" \in Waits
  BY DEF Waits
<1>4. CASE /\ Current = job.orig /\ NoChange
           /\ job' = [job EXCEPT !.at = "surveyed", !.restored = "already"]
  <2>1. job' \in Jobs
    BY <1>2, <1>3, <1>4 DEF Jobs
  <2>2. /\ job'.at = "surveyed" /\ job'.missed = job.missed
        /\ job'.todo = job.todo /\ job'.ready = job.ready
        /\ job'.pico = job.pico /\ job'.orig = job.orig /\ job'.snap = job.snap
    BY <1>2, <1>4 DEF Jobs
  <2>3. PicoTypeOK' /\ persona' = persona
    BY <1>1, <1>2, <1>4, Unasked
  <2> QED
    BY <1>1, <1>2, <1>4, <2>1, <2>2, <2>3, SurveyedKeeps DEF Current
<1>5. CASE RequestSetPersona(job.pico, job.orig) /\ Go("restore wait")
  <2>1. PicoTypeOK'
    BY <1>1, <1>2, <1>5, Asked DEF Only
  <2>2. "restore wait" \in Trying \ Surveying
    BY DEF Trying, Surveying
  <2> QED
    BY <1>1, <1>3, <1>2, <1>5, <2>1, <2>2, Goes, SurveyGoes
<1>6. CASE RequestSetPersona(job.pico, job.orig) /\ Go("surveyed")
  <2>1. PicoTypeOK'
    BY <1>1, <1>2, <1>6, Asked DEF Only
  <2> QED
    BY <1>1, <1>2, <1>3, <1>6, <2>1, Goes, SurveyedKeeps
<1> QED
  BY <1>4, <1>5, <1>6 DEF Restore

LEMMA RestoreWaitKeeps == ModeInv /\ RestoreWait => ModeInv'
<1> SUFFICES ASSUME ModeInv, RestoreWait PROVE ModeInv'
  OBVIOUS
<1>1. job.at \in Trying /\ Ask
  BY DEF RestoreWait, At, Trying
<1>2. /\ job \in Jobs /\ PicoTypeOK /\ job.pico \in Picos /\ job.restored = "no"
  BY <1>1, OnSurvey
<1>3. "surveyed" \in Waits
  BY DEF Waits
<1>4. ASSUME NEW seen \in Discoveries({job.pico}), WaitForPersona({job.pico}, seen),
             job' = [job EXCEPT !.at = "surveyed",
                 !.restored = IF job.pico \in seen /\ persona[job.pico] = job.orig
                              THEN "confirmed" ELSE @]
      PROVE  ModeInv'
  <2> DEFINE restored == IF job.pico \in seen /\ persona[job.pico] = job.orig
                         THEN "confirmed" ELSE "no"
  <2>1. /\ restored \in {"no", "already", "confirmed"}
        /\ (restored # "no" => persona[job.pico] = job.orig)
    OBVIOUS
  <2>2. job' = [job EXCEPT !.at = "surveyed", !.restored = restored]
    BY <1>2, <1>4
  <2> HIDE DEF restored
  <2>3. job' \in Jobs
    BY <1>2, <1>3, <2>1, <2>2 DEF Jobs
  <2>4. /\ job'.at = "surveyed" /\ job'.restored = restored
        /\ job'.todo = job.todo /\ job'.ready = job.ready
        /\ job'.pico = job.pico /\ job'.orig = job.orig /\ job'.snap = job.snap
    BY <1>2, <2>2 DEF Jobs
  <2>5. PicoTypeOK' /\ persona' = persona
    BY <1>1, <1>2, <1>4, Answered
  <2> QED
    BY <1>1, <2>1, <2>3, <2>4, <2>5, SurveyedKeeps
<1>5. CASE Go("surveyed") /\ NoChange
  <2>1. PicoTypeOK'
    BY <1>1, <1>2, <1>5, Unasked
  <2> QED
    BY <1>1, <1>2, <1>3, <1>5, <2>1, Goes, SurveyedKeeps
<1> QED
  BY <1>4, <1>5 DEF RestoreWait

-----------------------------------------------------------------------------

LEMMA PicoKeeps ==
  ASSUME ModeInv, NEW p \in Picos, Joins(p) \/ Outage(p), job' = job
  PROVE  ModeInv'
<1>1. PicoTypeOK
  BY DEF ModeInv, ModeTypeOK
<1>2. PicoTypeOK' /\ persona' = persona
  BY <1>1, PicoModesAssumption DEF PicoTypeOK, Joins, Outage
<1> QED
  BY <1>2, OutsideKeepsMode

LEMMA NextModeInv == ModeInv /\ [ModeNext]_modeVars => ModeInv'
<1> SUFFICES ASSUME ModeInv, [ModeNext]_modeVars PROVE ModeInv'
  OBVIOUS
<1>1. CASE \E p \in Picos : Pico(p)
  BY <1>1, PicoKeeps DEF Pico
<1>2. CASE RunCommand \/ ChooseInputMode
  BY <1>2, BeginKeeps DEF RunCommand, ChooseInputMode
<1>3. CASE \/ NextTarget \/ SwitchToCandidate \/ ConfirmCandidate \/ SelectForTarget
           \/ NoSuccess \/ StreamSelected \/ StreamAllRoutes
  BY <1>3, NextTargetKeeps, SwitchToCandidateKeeps, ConfirmCandidateKeeps,
     SelectForTargetKeeps, NoSuccessKeeps, StreamAutoKeeps
<1>4. CASE SwitchAll \/ AllAlready \/ WaitAll \/ WaitAllRoutes \/ Release
  BY <1>4, SwitchAllKeeps, AllAlreadyKeeps, WaitAllKeeps, WaitAllRoutesKeeps, ReleaseKeeps
<1>5. CASE StreamEnds \/ SurveyEnds
  BY <1>5, EndKeepsMode
<1>6. CASE \/ BeginSurvey \/ SwitchToSurveyPersona \/ ConfirmSurveyPersona
           \/ QuerySurveyUsbDiag \/ CaptureRequest \/ CaptureWait \/ HarvestAndClear
           \/ Restore \/ RestoreWait
  BY <1>6, BeginSurveyKeeps, SwitchToSurveyPersonaKeeps, ConfirmSurveyPersonaKeeps,
     QuerySurveyKeeps, CaptureKeeps, RestoreKeeps, RestoreWaitKeeps
<1>7. CASE UNCHANGED modeVars
  <2>1. PicoTypeOK' /\ persona' = persona /\ job' = job
    BY <1>7 DEF modeVars, picoVars, ModeInv, ModeTypeOK, PicoTypeOK
  <2> QED
    BY <2>1, OutsideKeepsMode
<1> QED
  BY <1>1, <1>2, <1>3, <1>4, <1>5, <1>6, <1>7 DEF ModeNext

LEMMA ModeAlways == ModeSpec => []ModeInv
BY InitMode, NextModeInv, PTL DEF ModeSpec

\* Types of the flows' state: a target in work has been found, and a persona
\* that is waited for is one that is left to try.
THEOREM ModeTyped == ModeSpec => []ModeTypeOK
BY ModeAlways, PTL DEF ModeInv

\* A stream starts only to Picos that are in the persona the bridge takes them
\* to be in: the one asked for, or one that the Pico's host was seen to poll.
THEOREM StreamsMatchTheMode == ModeSpec => []StreamMatchesMode
BY ModeAlways, PTL DEF ModeInv

\* A survey that saw its switches and reports its Pico back has left it there.
THEOREM SurveysLeaveNoTrace == ModeSpec => []SurveyLeavesNoTrace
BY ModeAlways, PTL DEF ModeInv

-----------------------------------------------------------------------------
(* What a survey reports.                                                  *)

\* Any numbers have a least one, because < on them is well-founded.
Below == {pair \in Nat \X Nat : pair[1] < pair[2]}

LEMMA LeastOf ==
  ASSUME NEW T, T \subseteq Nat, T # {}
  PROVE  \E x \in T : \A y \in T : x <= y
<1>1. IsWellFoundedOn({pair \in Nat \X Nat : pair[1] < pair[2]}, Nat)
  BY NatLessThanWellFounded DEF OpToRel
<1>2. IsWellFoundedOn(Below, Nat)
  BY <1>1 DEF Below
<1>3. \E x \in T : \A y \in T : <<y, x>> \notin Below
  BY <1>2, WFMin
<1>4. ASSUME NEW x \in T, NEW y \in T, <<y, x>> \notin Below
      PROVE  x <= y
  BY <1>4 DEF Below
<1> QED
  BY <1>3, <1>4

Scores == NoUsbTraffic .. PollingWithOut

LEMMA ScoreRange == \A d : Score(d) \in Scores
BY DEF Score, Scores, NoUsbTraffic, EnumerationStarted, ConfiguredThenUnmounted, Suspended,
       Configured, Polling, PollingWithOut

LEMMA SurveyedPersonas == ToSet(SurveyOrder) = Gamepads \cup {"Keyboard"}
BY DEF ToSet, SurveyOrder, Gamepads

\* What an attempt says is so of a host: it has no more to it than the host makes
\* of that persona, and what was accepted is no evidence from Debug.
SoOf(host, a) ==
    /\ a.persona \in ToSet(SurveyOrder) \cup {"Debug"}
    /\ a.score \in Scores /\ a.accepted \in BOOLEAN
    /\ a.captured => a.score <= Score(host[a.persona])
    /\ a.accepted <=> a.captured /\ a.persona # "Debug" /\ AdapterAccepts(a.score)

LEMMA AttemptIsSo ==
  ASSUME NEW host, NEW x \in ToSet(SurveyOrder) \cup {"Debug"}, NEW atStart,
         NEW d \in {NoDiag, Quiet, host[x]}
  PROVE  SoOf(host, Attempt(x, atStart, d))
<1>1. Score(Quiet) = NoUsbTraffic
  BY DEF Score, Quiet, ConfigurationState
<1>2. Score(host[x]) \in Scores /\ Score(d) \in Scores /\ NoUsbTraffic \in Scores
  BY ScoreRange DEF Scores, NoUsbTraffic, PollingWithOut
<1>3. d # NoDiag => Score(d) <= Score(host[x])
  BY <1>1, <1>2 DEF Scores, NoUsbTraffic, PollingWithOut
<1> DEFINE a == Attempt(x, atStart, d)
<1>4. /\ a.persona = x /\ a.captured = (d # NoDiag) /\ a.accepted = SurveyAccepted(x, d)
      /\ a.score = (IF d = NoDiag THEN NoUsbTraffic ELSE Score(d))
  BY DEF Attempt
<1> HIDE DEF a
<1>5. SoOf(host, a)
  BY <1>2, <1>3, <1>4 DEF SoOf, SurveyAccepted
<1> QED
  BY <1>5 DEF a

\* Of some attempts one has the highest score.
LEMMA Highest ==
  ASSUME NEW attempts, NEW among, among # {}, \A i \in among : attempts[i].score \in Scores
  PROVE  \E i \in among : \A j \in among : attempts[j].score <= attempts[i].score
<1> DEFINE short(i) == PollingWithOut - attempts[i].score
           T == {short(i) : i \in among}
<1>1. \A i \in among : short(i) \in Nat
  BY DEF Scores, NoUsbTraffic, PollingWithOut
<1>2. PICK x \in T : \A y \in T : x <= y
  BY <1>1, LeastOf
<1>3. PICK i \in among : x = short(i)
  BY <1>2
<1>4. \A j \in among : short(i) <= short(j)
  BY <1>2, <1>3
<1> QED
  BY <1>4 DEF Scores, NoUsbTraffic, PollingWithOut

\* The first best is one that no other beats, and there is one if there is any.
LEMMA BestOfThem ==
  ASSUME NEW attempts, NEW among, among \subseteq Nat,
         \A i \in among : attempts[i].score \in Scores /\ attempts[i].accepted \in BOOLEAN
  PROVE  IF among = {} THEN FirstBest(attempts, among) = <<>>
         ELSE \E i \in among : /\ FirstBest(attempts, among) = <<attempts[i]>>
                               /\ \A j \in among : ~Beats(attempts[j], attempts[i])
<1> DEFINE top == {i \in among : \A j \in among : ~Beats(attempts[j], attempts[i])}
<1>1. CASE among = {}
  BY <1>1 DEF FirstBest
<1>2. CASE among # {}
  <2> DEFINE good == {i \in among : attempts[i].accepted}
  <2>1. PICK i \in among : /\ good # {} => i \in good
                           /\ \A j \in among : attempts[i].accepted = attempts[j].accepted =>
                                  attempts[j].score <= attempts[i].score
    <3>1. CASE good # {}
      <4>1. PICK i \in good : \A j \in good : attempts[j].score <= attempts[i].score
        BY <3>1, Highest
      <4>2. \A j \in among : attempts[i].accepted = attempts[j].accepted => j \in good
        BY <4>1
      <4> QED
        BY <4>1, <4>2
    <3>2. CASE good = {}
      BY <1>2, <3>2, Highest
    <3> QED
      BY <3>1, <3>2
  <2>2. i \in top
    <3>1. ASSUME NEW j \in among PROVE ~Beats(attempts[j], attempts[i])
      BY <2>1 DEF Beats, Scores, NoUsbTraffic, PollingWithOut
    <3> QED
      BY <3>1
  <2>3. Min(top) \in top
    BY <2>2, LeastOf DEF Min
  <2>4. FirstBest(attempts, among) = <<attempts[Min(top)]>>
    BY <2>2 DEF FirstBest
  <2> HIDE DEF top
  <2> DEFINE k == Min(top)
  <2>5. k \in among /\ \A j \in among : ~Beats(attempts[j], attempts[k])
    BY <2>3 DEF top
  <2> QED
    BY <1>2, <2>4, <2>5
<1> QED
  BY <1>1, <1>2

\* What attempts that are so of a host let a report conclude.
LEMMA ReportOf ==
  ASSUME NEW host, NEW attempts, NEW restored, DOMAIN attempts \subseteq Nat,
         \A i \in DOMAIN attempts : SoOf(host, attempts[i])
  PROVE  LET report == SurveyReport(attempts, restored)
         IN /\ ConnectionStatus({PicoStatus(attempts)}) = "adapter_accepted" =>
                   \E x \in ToSet(SurveyOrder) : AdapterAccepts(Score(host[x]))
            /\ \A best \in ToSet(BundleBest(<<report>>)) :
                   /\ best.persona \in ToSet(SurveyOrder)
                   /\ best.score <= Score(host[best.persona])
            /\ report.coverage = "stopped_after_acceptance" <=>
                   (report.best # <<>> /\ report.best[1].accepted)
<1> DEFINE report == SurveyReport(attempts, restored)
           among == {i \in Captured(attempts) : attempts[i].persona # "Debug"}
<1>1. \A i \in DOMAIN attempts : attempts[i].accepted => i \in among
  BY DEF SoOf, Captured
<1>2. /\ among \subseteq DOMAIN attempts
      /\ \A i \in among : /\ attempts[i].persona \in ToSet(SurveyOrder)
                          /\ attempts[i].score <= Score(host[attempts[i].persona])
                          /\ attempts[i].score \in Scores /\ attempts[i].accepted \in BOOLEAN
  BY DEF SoOf, Captured
<1>3. report.best = FirstBest(attempts, among)
  BY DEF SurveyReport, BestAttempt
<1> HIDE DEF among
<1>4. IF among = {} THEN report.best = <<>>
      ELSE \E i \in among : /\ report.best = <<attempts[i]>>
                            /\ \A j \in among : ~Beats(attempts[j], attempts[i])
  BY <1>2, <1>3, BestOfThem
<1>5. report.coverage = "stopped_after_acceptance"
          <=> \E i \in DOMAIN attempts : attempts[i].accepted
  <2>1. report.coverage = "stopped_after_acceptance"
            <=> \E a \in ToSet(attempts) : a.accepted
    BY DEF SurveyReport
  <2> QED
    BY <2>1 DEF ToSet
<1>6. ASSUME ConnectionStatus({PicoStatus(attempts)}) = "adapter_accepted"
      PROVE  \E x \in ToSet(SurveyOrder) : AdapterAccepts(Score(host[x]))
  <2>1. PicoStatus(attempts) = "adapter_accepted"
    BY <1>6 DEF ConnectionStatus
  <2>2. \E a \in ToSet(attempts) : a.accepted
    BY <2>1 DEF PicoStatus
  <2>3. PICK i \in DOMAIN attempts : attempts[i].accepted
    BY <2>2 DEF ToSet
  <2>4. i \in among /\ attempts[i].score >= Configured
    BY <1>1, <2>3 DEF SoOf, AdapterAccepts
  <2> DEFINE x == attempts[i].persona
  <2>5. x \in ToSet(SurveyOrder) /\ Score(host[x]) >= Configured
    BY <1>2, <2>4, ScoreRange DEF Scores, NoUsbTraffic, PollingWithOut, Configured
  <2> QED
    BY <2>5 DEF AdapterAccepts
<1>7. ASSUME NEW best \in ToSet(BundleBest(<<report>>))
      PROVE  best.persona \in ToSet(SurveyOrder) /\ best.score <= Score(host[best.persona])
  <2> HIDE DEF report
  <2> DEFINE some == {i \in DOMAIN <<report>> : <<report>>[i].best # <<>>}
             bests == [i \in some |-> <<report>>[i].best[1]]
  <2>1. BundleBest(<<report>>) = FirstBest(bests, some)
    BY DEF BundleBest
  <2>2. some \subseteq {1} /\ \A i \in some : report.best # <<>> /\ bests[i] = report.best[1]
    OBVIOUS
  <2> HIDE DEF some, bests
  <2>3. \A i \in some : \E j \in among : bests[i] = attempts[j]
    BY <1>4, <2>2
  <2>4. some \subseteq Nat /\ \A i \in some : bests[i].score \in Scores
                                          /\ bests[i].accepted \in BOOLEAN
    BY <1>2, <2>2, <2>3
  <2>5. BundleBest(<<report>>) = <<>> \/ \E i \in some : BundleBest(<<report>>) = <<bests[i]>>
    BY <2>1, <2>4, BestOfThem
  <2>6. \E i \in some : best = bests[i]
    BY <2>5 DEF ToSet
  <2> QED
    BY <1>2, <2>3, <2>6
<1>8. ASSUME NEW i \in DOMAIN attempts, attempts[i].accepted
      PROVE  report.best # <<>> /\ report.best[1].accepted
  <2>1. i \in among
    BY <1>1, <1>8
  <2>2. PICK k \in among : /\ report.best = <<attempts[k]>>
                            /\ ~Beats(attempts[i], attempts[k])
    BY <1>4, <2>1
  <2>3. attempts[k].accepted
    BY <1>8, <1>2, <2>2 DEF Beats
  <2> QED
    BY <2>2, <2>3
<1>9. report.best # <<>> /\ report.best[1].accepted
          => \E i \in DOMAIN attempts : attempts[i].accepted
  BY <1>2, <1>4
<1> QED
  BY <1>5, <1>6, <1>7, <1>8, <1>9

\* The way of a report: its attempts are so of the Pico's host, and what is left
\* to try is surveyed and has not been tried, but for the one just switched to.
Untried ==
    NoTwice(job.try) /\ \A i \in DOMAIN job.try : job.try[i] \in ToSet(SurveyOrder)
Telling ==
    /\ job.at \in Trying \cup {"surveyed"} =>
           \A i \in DOMAIN job.attempts : SoOf(adapter[job.pico], job.attempts[i])
    /\ job.at \in Trying => Untried
    /\ job.at = "survey query" => Current = Candidate /\ Sure(job.pico)
    /\ job.at \in Trying \ {"survey query"} => Lacks(Current, job.try)

LEMMA ElsewhereTells == job'.at \notin Trying \cup {"surveyed"} => Telling'
BY DEF Telling, Trying, Surveying

LEMMA OutsideTells ==
  ASSUME Telling, adapter' = adapter, persona' = persona, job' = job
  PROVE  Telling'
BY DEF Telling, Untried, Sure, Current, Candidate

\* The survey goes to `at` with what it knew, neither to a query nor from one.
LEMMA GoesOnTelling ==
  ASSUME Telling, adapter' = adapter, job.at \in Trying \ {"survey query"},
         job'.at \in (Trying \cup {"surveyed"}) \ {"survey query"},
         job'.pico = job.pico, job'.attempts = job.attempts, job'.try = job.try,
         job'.snap = job.snap
  PROVE  Telling'
BY DEF Telling, Untried, Current

LEMMA OneMoreIsSo ==
  ASSUME NEW host, NEW S, NEW tried \in Seq(S), NEW a, SoOf(host, a),
         \A i \in DOMAIN tried : SoOf(host, tried[i])
  PROVE  \A i \in DOMAIN Append(tried, a) : SoOf(host, Append(tried, a)[i])
<1>1. \A i \in DOMAIN Append(tried, a) :
          Append(tried, a)[i] = IF i \in DOMAIN tried THEN tried[i] ELSE a
  OBVIOUS
<1> QED
  BY <1>1

LEMMA NoneLeft == NoTwice(<<>>) /\ DOMAIN <<>> = {} /\ \A x : Lacks(x, <<>>)
BY DEF NoTwice, Lacks

\* One more attempt, and what is left after it.
LEMMA OneMoreTells ==
  ASSUME ModeInv, Telling, adapter' = adapter, job.at \in Trying, job.try # <<>>,
         NEW d \in {NoDiag, Quiet, adapter[job.pico][Candidate]},
         job'.at \in Trying \ {"survey query"},
         job'.pico = job.pico, job'.snap = job.snap,
         job'.attempts = Append(job.attempts, Attempt(Candidate, FALSE, d)),
         job'.try \in {<<>>, Tail(job.try)}
  PROVE  Telling'
<1>1. job.try \in Turns /\ job.attempts \in Seq(Attempts) /\ Untried
  BY OnSurvey DEF Telling
<1>2. Candidate \in ToSet(SurveyOrder)
  BY <1>1, NextInOrder DEF Untried, Candidate
<1> DEFINE a == Attempt(Candidate, FALSE, d)
           host == adapter[job.pico]
<1>3. SoOf(host, a)
  BY <1>2, AttemptIsSo
<1>4. \A i \in DOMAIN job.attempts : SoOf(host, job.attempts[i])
  BY DEF Telling
<1>5. \A i \in DOMAIN job'.attempts : SoOf(host, job'.attempts[i])
  <2> DEFINE more == Append(job.attempts, a)
  <2>1. job'.attempts = more
    OBVIOUS
  <2> HIDE DEF a, host
  <2>2. \A i \in DOMAIN more : SoOf(host, more[i])
    BY <1>1, <1>3, <1>4, OneMoreIsSo
  <2> HIDE DEF more
  <2> QED
    BY <2>1, <2>2
<1> HIDE DEF a, host
<1>6. NoTwice(job'.try) /\ \A i \in DOMAIN job'.try : job'.try[i] \in ToSet(SurveyOrder)
  <2> DEFINE rest == Tail(job.try)
  <2>1. NoTwice(<<>>) /\ \A i \in DOMAIN <<>> : <<>>[i] \in ToSet(SurveyOrder)
    BY NoneLeft
  <2>2. NoTwice(rest)
    BY <1>1, NextInOrder DEF Untried
  <2>3. \A i \in DOMAIN rest : rest[i] \in ToSet(SurveyOrder)
    <3>1. \A i \in DOMAIN job.try : job.try[i] \in ToSet(SurveyOrder)
      BY <1>1 DEF Untried
    <3> QED
      BY <1>1, <3>1, NextInOrder
  <2> HIDE DEF rest
  <2>4. job'.try \in {<<>>, rest}
    BY DEF rest
  <2>5. CASE job'.try = <<>>
    BY <2>1, <2>5
  <2>6. CASE job'.try = rest
    BY <2>2, <2>3, <2>6
  <2> QED
    BY <2>4, <2>5, <2>6
<1>7. Lacks(Current, job'.try)
  <2>1. Lacks(Current, Tail(job.try))
    <3>1. CASE job.at = "survey query"
      <4>1. Current = Head(job.try)
        BY <3>1 DEF Telling, Candidate
      <4> QED
        BY <1>1, <4>1, NextInOrder DEF Untried
    <3>2. CASE job.at # "survey query"
      <4>1. Lacks(Current, job.try)
        BY <3>2 DEF Telling
      <4> QED
        BY <1>1, <4>1, NextInOrder
    <3> QED
      BY <3>1, <3>2
  <2> QED
    BY <2>1, NoneLeft
<1>8. Current' = Current /\ adapter'[job'.pico] = host
  BY DEF Current, host
<1> QED
  BY <1>5, <1>6, <1>7, <1>8 DEF Telling, Untried

LEMMA BeginSurveyTells == ModeInv /\ BeginSurvey => Telling'
<1> SUFFICES ASSUME ModeInv, BeginSurvey PROVE Telling'
  OBVIOUS
<1>1. PicoTypeOK /\ persona \in [Picos -> AllPersonas] /\ adapter' = adapter
  BY DEF ModeInv, ModeTypeOK, PicoTypeOK, BeginSurvey, Think, picoVars
<1>2. PICK p \in LiveSeeds : \E d \in QueryUsbDiag(p) :
       LET now == persona[p]
           mine == [Idle EXCEPT !.flow = "survey", !.pico = p, !.orig = now,
                        !.snap[p] = now, !.attempts = <<Attempt(now, TRUE, d)>>,
                        !.try = SurveyCandidates(now, SurveyAccepted(now, d))]
       IN /\ now \notin BluetoothPersonas
          /\ job' = [mine EXCEPT !.at =
                 IF NeedsCapture(now, d) /\ now # "Debug" THEN "capture" ELSE "survey"]
  BY DEF BeginSurvey
<1>3. PICK d \in QueryUsbDiag(p) :
       LET now == persona[p]
           mine == [Idle EXCEPT !.flow = "survey", !.pico = p, !.orig = now,
                        !.snap[p] = now, !.attempts = <<Attempt(now, TRUE, d)>>,
                        !.try = SurveyCandidates(now, SurveyAccepted(now, d))]
       IN /\ now \notin BluetoothPersonas
          /\ job' = [mine EXCEPT !.at =
                 IF NeedsCapture(now, d) /\ now # "Debug" THEN "capture" ELSE "survey"]
  BY <1>2
<1>4. p \in Picos
  BY <1>1 DEF LiveSeeds, Discoveries
<1> DEFINE now == persona[p]
           try == SurveyCandidates(now, SurveyAccepted(now, d))
<1>5. /\ job'.at \in {"capture", "survey"} /\ job'.pico = p /\ job'.try = try
      /\ job'.attempts = <<Attempt(now, TRUE, d)>> /\ job'.snap[p] = now
  BY <1>3, <1>4 DEF Idle
<1>6. now \in ToSet(SurveyOrder) \cup {"Debug"}
  BY <1>1, <1>3, <1>4, SurveyedPersonas DEF AllPersonas
<1>7. d \in {NoDiag, Quiet, adapter[p][now]}
  BY DEF QueryUsbDiag
<1>8. SoOf(adapter[p], Attempt(now, TRUE, d))
  BY <1>6, <1>7, AttemptIsSo
<1>9. /\ NoTwice(try) /\ Lacks(now, try)
      /\ \A i \in DOMAIN try : try[i] \in ToSet(SurveyOrder)
  <2>1. try = <<>> \/ try = Without(now, SurveyOrder)
    BY DEF SurveyCandidates
  <2>2. CASE try = <<>>
    BY <2>2 DEF NoTwice, Lacks
  <2>3. CASE try = Without(now, SurveyOrder)
    <3>1. /\ NoTwice(try) /\ Lacks(now, try)
          /\ \A i \in DOMAIN try : \E j \in DOMAIN SurveyOrder : try[i] = SurveyOrder[j]
      BY <2>3, OrdersAsListed, WithoutIt
    <3> QED
      BY <3>1 DEF ToSet
  <2> QED
    BY <2>1, <2>2, <2>3
<1> HIDE DEF now, try
<1>10. Lacks(Current', job'.try)
  BY <1>5, <1>9 DEF Current
<1>11. \A i \in DOMAIN job'.attempts : SoOf(adapter'[job'.pico], job'.attempts[i])
  <2>1. job'.attempts = <<Attempt(now, TRUE, d)>> /\ SoOf(adapter[p], Attempt(now, TRUE, d))
    BY <1>5, <1>8 DEF now
  <2> HIDE DEF now
  <2> DEFINE a == Attempt(now, TRUE, d)
  <2>2. job'.attempts = <<a>> /\ SoOf(adapter[p], a)
    BY <2>1
  <2> HIDE DEF a
  <2>3. \A i \in DOMAIN <<a>> : <<a>>[i] = a
    OBVIOUS
  <2> QED
    BY <1>1, <1>5, <2>2, <2>3
<1> QED
  BY <1>5, <1>9, <1>10, <1>11 DEF Telling, Untried, Trying, Surveying

LEMMA FailedAttemptTells ==
  ASSUME ModeInv, Telling, job.at \in {"survey", "survey confirm"}, job.try # <<>>,
         adapter' = adapter, FailedAttempt
  PROVE  Telling'
<1>1. job.at \in Trying /\ "survey" \in Trying \ {"survey query"}
  BY DEF Trying, Surveying
<1>2. job \in Jobs
  BY <1>1, OnSurvey
<1>3. /\ job'.at = "survey" /\ job'.pico = job.pico /\ job'.snap = job.snap
      /\ job'.attempts = Append(job.attempts, Attempt(Candidate, FALSE, NoDiag))
      /\ job'.try = Tail(job.try)
  BY <1>2 DEF FailedAttempt, Jobs
<1> QED
  BY <1>1, <1>3, OneMoreTells

LEMMA SwitchToSurveyPersonaTells ==
  ModeInv /\ Telling /\ SwitchToSurveyPersona => Telling'
<1> SUFFICES ASSUME ModeInv, Telling, SwitchToSurveyPersona PROVE Telling'
  OBVIOUS
<1>1. /\ job.at = "survey" /\ job.at \in Trying \ {"survey query"} /\ job.try # <<>>
      /\ adapter' = adapter
  BY DEF SwitchToSurveyPersona, At, Trying, Surveying, Ask
<1>2. job \in Jobs /\ job.try \in Turns
  BY <1>1, OnSurvey
<1>3. Current # Candidate
  BY <1>1, <1>2 DEF Telling, Lacks, Candidate, Turns
<1>4. CASE Go("survey confirm")
  <2>1. "survey confirm" \in Trying
    BY DEF Trying
  <2> QED
    BY <1>1, <1>2, <1>4, <2>1, GoesOnTelling DEF Go, Jobs
<1> QED
  BY <1>1, <1>3, <1>4, FailedAttemptTells DEF SwitchToSurveyPersona

LEMMA ConfirmSurveyPersonaTells ==
  ModeInv /\ Telling /\ ConfirmSurveyPersona => Telling'
<1> SUFFICES ASSUME ModeInv, Telling, ConfirmSurveyPersona PROVE Telling'
  OBVIOUS
<1>1. /\ job.at = "survey confirm" /\ job.at \in Trying /\ adapter' = adapter
  BY DEF ConfirmSurveyPersona, At, Trying, Ask
<1>2. /\ job \in Jobs /\ job.try # <<>> /\ job.pico \in Picos /\ PicoTypeOK
      /\ job.snap \in [Picos -> AllPersonas \cup {None}]
  BY <1>1, OnSurvey, JobFields
<1>3. ASSUME persona[job.pico] = Candidate, persona' = persona,
             job' = [job EXCEPT !.at = "survey query",
                              !.snap[job.pico] = Candidate, !.missed = FALSE]
      PROVE  Telling'
  <2>1. /\ job'.at = "survey query" /\ job'.pico = job.pico
        /\ job'.attempts = job.attempts /\ job'.try = job.try
        /\ job'.snap = [job.snap EXCEPT ![job.pico] = Candidate]
    BY <1>2, <1>3 DEF Jobs
  <2>2. job'.snap[job.pico] = Candidate
    BY <1>2, <2>1
  <2>3. (Current = Candidate)' /\ Sure(job.pico)'
    BY <1>3, <2>1, <2>2 DEF Current, Candidate, Sure
  <2> QED
    BY <1>1, <2>1, <2>3 DEF Telling, Untried
<1>4. ASSUME NEW seen, WaitForPersona({job.pico}, seen) PROVE persona' = persona
  BY <1>4 DEF WaitForPersona, NoChange
<1> QED
  BY <1>1, <1>2, <1>3, <1>4, FailedAttemptTells DEF ConfirmSurveyPersona

LEMMA QuerySurveyTells == ModeInv /\ Telling /\ QuerySurveyUsbDiag => Telling'
<1> SUFFICES ASSUME ModeInv, Telling, QuerySurveyUsbDiag PROVE Telling'
  OBVIOUS
<1>1. /\ job.at = "survey query" /\ job.at \in Trying /\ adapter' = adapter
  BY DEF QuerySurveyUsbDiag, At, Trying, Surveying, Think, picoVars
<1>2. job \in Jobs /\ job.try # <<>>
  BY <1>1, OnSurvey
<1>3. persona[job.pico] = Candidate
  BY <1>1 DEF Telling, Sure, Current
<1>4. PICK d \in QueryUsbDiag(job.pico) :
       LET accepted == SurveyAccepted(Candidate, d)
       IN job' = [job EXCEPT
              !.at = IF NeedsCapture(Candidate, d) THEN "capture" ELSE "survey",
              !.try = IF accepted THEN <<>> ELSE Tail(@),
              !.attempts = Append(@, Attempt(Candidate, FALSE, d))]
  BY DEF QuerySurveyUsbDiag
<1>5. d \in {NoDiag, Quiet, adapter[job.pico][Candidate]}
  BY <1>3 DEF QueryUsbDiag
<1>6. /\ job'.at \in {"capture", "survey"} /\ job'.pico = job.pico /\ job'.snap = job.snap
      /\ job'.attempts = Append(job.attempts, Attempt(Candidate, FALSE, d))
      /\ job'.try \in {<<>>, Tail(job.try)}
  BY <1>2, <1>4 DEF Jobs
<1>7. job'.at \in Trying \ {"survey query"}
  BY <1>6 DEF Trying, Surveying
<1> QED
  BY <1>1, <1>2, <1>5, <1>6, <1>7, OneMoreTells

\* Neither a capture nor the way back changes what was found.
LEMMA WayBackTells ==
  ModeInv /\ Telling
  /\ (CaptureRequest \/ CaptureWait \/ HarvestAndClear \/ Restore \/ RestoreWait) => Telling'
<1> SUFFICES ASSUME ModeInv, Telling,
                    CaptureRequest \/ CaptureWait \/ HarvestAndClear \/ Restore \/ RestoreWait
             PROVE  Telling'
  OBVIOUS
<1>1. job.at \in Trying \ {"survey query"} /\ adapter' = adapter
  BY DEF CaptureRequest, CaptureWait, HarvestAndClear, Restore, RestoreWait, At, Trying,
         Surveying, Ask
<1>2. job \in Jobs
  BY <1>1, OnSurvey
<1> DEFINE Goals == {"survey", "capture wait", "harvest", "restore wait", "surveyed"}
<1>3. Goals \subseteq (Trying \cup {"surveyed"}) \ {"survey query"}
  BY DEF Trying, Surveying
<1>4. \E at \in Goals : \E restored :
          job' = [job EXCEPT !.at = at, !.restored = restored] \/ Go(at)
  BY DEF CaptureRequest, CaptureWait, HarvestAndClear, Restore, RestoreWait
<1>5. /\ job'.at \in Goals /\ job'.pico = job.pico /\ job'.attempts = job.attempts
      /\ job'.try = job.try /\ job'.snap = job.snap
  BY <1>2, <1>4 DEF Go, Jobs
<1> QED
  BY <1>1, <1>3, <1>5, GoesOnTelling

\* The other flows, and the end of each, are outside a survey.
LEMMA OtherFlowsTell ==
  ModeInv
  /\ (\/ RunCommand \/ ChooseInputMode \/ NextTarget \/ SwitchToCandidate
      \/ ConfirmCandidate \/ SelectForTarget \/ NoSuccess \/ StreamSelected
      \/ StreamAllRoutes \/ SwitchAll \/ AllAlready \/ WaitAll \/ WaitAllRoutes
      \/ Release \/ StreamEnds \/ SurveyEnds) => Telling'
<1> SUFFICES ASSUME ModeInv,
               \/ RunCommand \/ ChooseInputMode \/ NextTarget \/ SwitchToCandidate
               \/ ConfirmCandidate \/ SelectForTarget \/ NoSuccess \/ StreamSelected
               \/ StreamAllRoutes \/ SwitchAll \/ AllAlready \/ WaitAll \/ WaitAllRoutes
               \/ Release \/ StreamEnds \/ SurveyEnds
             PROVE  job'.at \notin Trying \cup {"surveyed"}
  BY ElsewhereTells
<1>1. job \in Jobs
  BY DEF ModeInv, ModeTypeOK
<1> DEFINE Other == {"idle", "next", "switch", "confirm", "query", "switch all",
                     "wait all", "release", "stream"}
<1>2. Other \cap (Trying \cup {"surveyed"}) = {}
  BY DEF Trying, Surveying
<1>3. Bail => job'.at \in Other
  BY DEF Bail, Idle
<1>4. \A at \in Other : Go(at) => job'.at \in Other
  BY <1>1 DEF Go, Jobs
<1>5. CASE RunCommand \/ ChooseInputMode
  <2>1. \E want, flow : Begin(flow, want)
    BY <1>5 DEF RunCommand, ChooseInputMode
  <2>2. PICK want, snap, flow, todo :
            job' = [Idle EXCEPT !.at = IF want \in AutoModes THEN "next" ELSE "switch all",
                                !.flow = flow, !.want = want, !.snap = snap, !.todo = todo]
    BY <2>1 DEF Begin
  <2>3. job'.at \in {"next", "switch all"}
    BY <2>2 DEF Idle
  <2> QED
    BY <1>2, <2>3
<1>6. CASE NextTarget \/ NoSuccess
  BY <1>1, <1>2, <1>3, <1>6 DEF NextTarget, NoSuccess, Jobs
<1>7. CASE SwitchToCandidate
  BY <1>2, <1>3, <1>4, <1>7 DEF SwitchToCandidate
<1>8. CASE ConfirmCandidate
  BY <1>1, <1>2, <1>3, <1>8 DEF ConfirmCandidate, NextCandidate, Jobs
<1>9. CASE SelectForTarget
  <2>1. job'.at \in {"switch", "next"}
    BY <1>1, <1>9 DEF SelectForTarget, NextCandidate, Succeed, Jobs
  <2> QED
    BY <1>2, <2>1
<1>10. CASE StreamSelected \/ StreamAllRoutes
  BY <1>2, <1>3, <1>4, <1>10 DEF StreamSelected, StreamAllRoutes
<1>11. CASE SwitchAll
  BY <1>1, <1>2, <1>3, <1>11 DEF SwitchAll, At, Jobs
<1>12. CASE AllAlready \/ WaitAll \/ WaitAllRoutes
  <2>1. \/ Bail
        \/ \E ready : job' = [job EXCEPT !.at = "release", !.ready = ready]
        \/ \E snap, ready :
               job' = [job EXCEPT !.at = "release", !.snap = snap, !.ready = ready]
    BY <1>12 DEF AllAlready, WaitAll, WaitAllRoutes
  <2>2. CASE Bail
    BY <1>2, <1>3, <2>2
  <2>3. CASE \E ready : job' = [job EXCEPT !.at = "release", !.ready = ready]
    BY <1>1, <1>2, <2>3 DEF Jobs
  <2>4. CASE \E snap, ready :
               job' = [job EXCEPT !.at = "release", !.snap = snap, !.ready = ready]
    BY <1>1, <1>2, <2>4 DEF Jobs
  <2> QED
    BY <2>1, <2>2, <2>3, <2>4
<1>13. CASE Release \/ StreamEnds \/ SurveyEnds
  BY <1>2, <1>3, <1>4, <1>13 DEF Release, StreamEnds, SurveyEnds
<1> QED
  BY <1>5, <1>6, <1>7, <1>8, <1>9, <1>10, <1>11, <1>12, <1>13

LEMMA NextTelling == ModeInv /\ Telling /\ [ModeNext]_modeVars => Telling'
<1> SUFFICES ASSUME ModeInv, Telling, [ModeNext]_modeVars PROVE Telling'
  OBVIOUS
<1>1. CASE (\E p \in Picos : Pico(p)) \/ UNCHANGED modeVars
  <2>1. adapter' = adapter /\ persona' = persona /\ job' = job
    BY <1>1 DEF Pico, Joins, Outage, modeVars, picoVars
  <2> QED
    BY <2>1, OutsideTells
<1>2. CASE BeginSurvey
  BY <1>2, BeginSurveyTells
<1>3. CASE SwitchToSurveyPersona \/ ConfirmSurveyPersona \/ QuerySurveyUsbDiag
  BY <1>3, SwitchToSurveyPersonaTells, ConfirmSurveyPersonaTells, QuerySurveyTells
<1> QED
  BY <1>1, <1>2, <1>3, WayBackTells, OtherFlowsTell DEF ModeNext

LEMMA TellsTheTruth == ModeInv /\ Telling => ReportIsTrue
<1> SUFFICES ASSUME ModeInv, Telling, job.at = "surveyed"
             PROVE  ReportIsTrue
  BY DEF ReportIsTrue, At
<1>1. DOMAIN job.attempts \subseteq Nat
  <2>1. job.attempts \in Seq(Attempts)
    BY JobFields DEF ModeInv, ModeTypeOK
  <2> QED
    BY <2>1
<1>2. \A i \in DOMAIN job.attempts : SoOf(adapter[job.pico], job.attempts[i])
  BY DEF Telling
<1> QED
  BY <1>1, <1>2, ReportOf DEF ReportIsTrue

\* What a survey's report concludes is so of the Pico's host.
THEOREM ReportsAreTrue == ModeSpec => []ReportIsTrue
<1>1. ModeInit => Telling
  BY DEF ModeInit, Idle, Telling, Trying, Surveying
<1>2. ModeSpec => []Telling
  BY <1>1, NextTelling, ModeAlways, PTL DEF ModeSpec
<1> QED
  BY <1>2, ModeAlways, TellsTheTruth, PTL
=============================================================================
