------------------------------ MODULE UdpSession ------------------------------
(***************************************************************************)
(* Paired commands over Wi-Fi: the session a bridge process learns from a  *)
(* Pico's answer to a discovery (udp_auth.rs), the frames it signs with    *)
(* it, and what the Pico makes of them (udp_auth.c, net_udp.c), over a     *)
(* network that loses, repeats, delays and reorders datagrams, while       *)
(* either side restarts and the Pico moves from one PC to another.         *)
(*                                                                         *)
(* A signature is a record of what was signed and with whose key, and a    *)
(* nonce, fresh and random in the code, is the number of the boot.  Only   *)
(* bridges with a current protocol take part.                              *)
(*                                                                         *)
(* Named assumption: the microsecond wall clock of a PC is ahead of every  *)
(* counter of the process before when a process starts, so it is not set   *)
(* back.                                                                   *)
(*                                                                         *)
(* Abstracted: the effect of a command, except for the reboot to setup     *)
(* mode, which waits for the main loop; the address of a peer.             *)
(***************************************************************************)
EXTENDS Integers, Sequences

CONSTANTS
    Processes,   \* bridge processes
    Pcs,         \* the PCs they run on; a PC stands for its pairing key
    PcOf,        \* [Processes -> Pcs]
    NoKey,       \* no pairing key
    RingSize,    \* CHALLENGE_RING
    Bluetooth    \* the persona keeps USB serial open in run mode

ASSUME UdpSessionAssumption ==
    /\ PcOf \in [Processes -> Pcs]
    /\ NoKey \notin Pcs
    /\ RingSize \in Nat \ {0}
    /\ Bluetooth \in BOOLEAN

VARIABLES
    net,        \* every datagram ever sent; a lost one is never received
    wall,       \* microseconds
    \* The Pico.
    mode,       \* "setup", "opening" (net_udp_init is running) or "up"
    boot,       \* number of this boot, and its nonce
    key,        \* the key in flash, or NoKey
    authKey,    \* udp_auth.md and .keyed
    lastCounter, recoveryOpen, recoveryBoot, rebootPending,
    \* The bridge processes.
    stored,     \* PCs with a key for this Pico in their config file
    session,    \* Sessions.peers at the Pico's address
    ring,       \* Sessions.challenges
    counter,    \* COUNTER
    streaming,  \* processes in stream_routes
    \* History.
    made,       \* challenges made so far
    sealed,     \* frames sealed so far
    acted,      \* signed frames acted on
    order,      \* the frame that asked for the pending reboot
    since       \* the boot that was current when the process began

pico == <<mode, boot, key, authKey, lastCounter, recoveryOpen, recoveryBoot,
          rebootPending, acted, order>>
bridge == <<stored, session, ring, counter, streaming, made, sealed, since>>
vars == <<net, wall, pico, bridge>>

-----------------------------------------------------------------------------
(* Datagrams.                                                              *)

CommandTypes == {"state", "reboot_to_setup"}

Discover(p, challenge) ==
    [kind |-> "discover", from |-> p, challenge |-> challenge]

OpenAck(p) == [kind |-> "open_ack", to |-> p]

ExtAck(p, signer, nonce, challenge) ==
    [kind |-> "ext_ack", to |-> p, signer |-> signer, nonce |-> nonce,
     challenge |-> challenge]

Plain(p, type) == [kind |-> "plain", from |-> p, type |-> type]

Signed(p, type, signer, nonce, count, at) ==
    [kind |-> "signed", from |-> p, type |-> type, signer |-> signer,
     nonce |-> nonce, counter |-> count, at |-> at]

SignedSent == {m \in net : m.kind = "signed"}

-----------------------------------------------------------------------------

Unknown == [state |-> "unknown"]
Open == [state |-> "open"]
Locked == [state |-> "locked"]
Paired(nonce) == [state |-> "paired", nonce |-> nonce]

Init ==
    /\ net = {}
    /\ wall = 1
    /\ mode = "setup"
    /\ boot = 1
    /\ key = NoKey
    /\ authKey = NoKey
    /\ lastCounter = 0
    /\ recoveryOpen = FALSE
    /\ recoveryBoot = TRUE
    /\ rebootPending = FALSE
    /\ stored = {}
    /\ session = [p \in Processes |-> Unknown]
    /\ ring = [p \in Processes |-> <<>>]
    /\ counter = [p \in Processes |-> 0]
    /\ streaming = {}
    /\ made = 0
    /\ sealed = 0
    /\ acted = {}
    /\ order = NoKey
    /\ since = [p \in Processes |-> 1]

-----------------------------------------------------------------------------
(* A bridge process.                                                       *)

\* discover_frame: the oldest challenge makes room for the new one.
Remember(challenges, challenge) ==
    Append(IF Len(challenges) = RingSize THEN Tail(challenges) ELSE challenges,
           challenge)

SendDiscover(p) ==
    /\ made' = made + 1
    /\ ring' = [ring EXCEPT ![p] = Remember(@, made')]
    /\ net' = net \cup {Discover(p, made')}
    /\ UNCHANGED <<wall, pico, stored, session, counter, streaming, sealed,
                   since>>

\* accept_reply to a short acknowledgement of open firmware.
AcceptOpenAck(p) ==
    /\ OpenAck(p) \in net
    /\ session' = [session EXCEPT ![p] = Open]
    /\ UNCHANGED <<net, wall, pico, stored, ring, counter, streaming, made,
                   sealed, since>>

\* Mutant: an answer to any challenge will do.
GenuineForAnyone(p, m) == m.signer = PcOf[p]

\* accept_reply to a signed one; `readable`: the key is looked up in a config
\* file that another process may be rewriting.
Genuine(p, m) ==
    /\ m.signer = PcOf[p]
    /\ \E i \in 1 .. Len(ring[p]) : ring[p][i] = m.challenge

AcceptExtAck(p, m, readable) ==
    /\ m \in net /\ m.kind = "ext_ack" /\ m.to = p
    /\ session' =
           [session EXCEPT ![p] =
                IF readable /\ PcOf[p] \in stored /\ Genuine(p, m)
                THEN Paired(m.nonce)
                ELSE Locked]
    /\ UNCHANGED <<net, wall, pico, stored, ring, counter, streaming, made,
                   sealed, since>>

\* seal: signed in a paired session, plain in any other.
NextCounter(p) == IF counter[p] + 1 > wall THEN counter[p] + 1 ELSE wall

Seal(p, type) ==
    /\ counter' = [counter EXCEPT ![p] = NextCounter(p)]
    /\ IF session[p].state = "paired"
       THEN /\ sealed' = sealed + 1
            /\ net' = net \cup {Signed(p, type, PcOf[p], session[p].nonce,
                                       NextCounter(p), sealed')}
       ELSE /\ UNCHANGED sealed
            /\ net' = net \cup {Plain(p, type)}
    /\ UNCHANGED <<wall, pico, stored, session, ring, made, since>>

\* stream_routes: prepare has refused a locked session.
StartStream(p) ==
    /\ p \notin streaming
    /\ session[p].state # "locked"
    /\ streaming' = streaming \cup {p}
    /\ UNCHANGED <<net, wall, pico, stored, session, ring, counter, made,
                   sealed, since>>

\* send_udp_tick, whatever has become of the session.
SendState(p) ==
    /\ p \in streaming
    /\ Seal(p, "state")
    /\ UNCHANGED streaming

\* request_reboot_to_setup goes on when prepare fails.
RequestReboot(p) ==
    /\ Seal(p, "reboot_to_setup")
    /\ UNCHANGED streaming

\* The process ends, and another starts with nothing in memory.
Restart(p) ==
    /\ wall > counter[p]
    /\ session' = [session EXCEPT ![p] = Unknown]
    /\ ring' = [ring EXCEPT ![p] = <<>>]
    /\ counter' = [counter EXCEPT ![p] = 0]
    /\ streaming' = streaming \ {p}
    /\ since' = [since EXCEPT ![p] = boot]
    /\ UNCHANGED <<net, wall, pico, stored, made, sealed>>

\* provision: the key is saved before it is given to the Pico.
SaveKey(p) ==
    /\ PcOf[p] \notin stored
    /\ stored' = stored \cup {PcOf[p]}
    /\ UNCHANGED <<net, wall, pico, session, ring, counter, streaming, made,
                   sealed, since>>

Clock ==
    /\ wall' = wall + 1
    /\ UNCHANGED <<net, pico, bridge>>

-----------------------------------------------------------------------------
(* The Pico.                                                               *)

\* CDC_CMD_SET_AUTH_KEY, over USB.
SetAuthKey(p) ==
    /\ mode = "setup" \/ Bluetooth
    /\ PcOf[p] \in stored
    /\ key' = PcOf[p]
    /\ UNCHANGED <<net, wall, mode, boot, authKey, lastCounter, recoveryOpen,
                   recoveryBoot, rebootPending, acted, order, bridge>>

\* A reset: of the RAM nothing is left.
Boot(next, physical) ==
    /\ mode' = next
    /\ boot' = boot + 1
    /\ authKey' = NoKey
    /\ lastCounter' = 0
    /\ recoveryOpen' = FALSE
    /\ recoveryBoot' = physical
    /\ rebootPending' = FALSE
    /\ order' = NoKey
    /\ UNCHANGED <<net, wall, key, acted, bridge>>

PlugIn == \E next \in {"setup", "opening"} : Boot(next, TRUE)
WatchdogReset == \E next \in {"setup", "opening"} : Boot(next, FALSE)

\* Mutant: what came before the key was loaded stays pending.
NetUpKeepsPending ==
    /\ mode = "opening"
    /\ mode' = "up"
    /\ authKey' = key
    /\ lastCounter' = 0
    /\ \E early \in BOOLEAN :
           recoveryOpen' = (key # NoKey /\ recoveryBoot /\ early)
    /\ UNCHANGED <<net, wall, boot, key, recoveryBoot, rebootPending, order,
                   acted, bridge>>

\* net_udp_init, from the load of the record to its end.  udp_recv came before.
NetUp ==
    /\ mode = "opening"
    /\ mode' = "up"
    /\ authKey' = key
    /\ lastCounter' = 0
    /\ \E early \in BOOLEAN :
           recoveryOpen' = (key # NoKey /\ recoveryBoot /\ early)
    /\ rebootPending' = FALSE
    /\ order' = NoKey
    /\ UNCHANGED <<net, wall, boot, key, recoveryBoot, acted, bridge>>

Listening == mode \in {"opening", "up"}

\* on_recv, TYPE_DISCOVER.
AnswerDiscover(m) ==
    /\ Listening
    /\ m \in net /\ m.kind = "discover"
    /\ net' = net \cup {IF authKey = NoKey
                        THEN OpenAck(m.from)
                        ELSE ExtAck(m.from, authKey, boot, m.challenge)}
    /\ UNCHANGED <<wall, pico, bridge>>

\* on_recv: what udp_auth_check lets through of the commands; any other
\* datagram is dropped and changes nothing.
Obey(m) ==
    /\ rebootPending' = (rebootPending \/ m.type = "reboot_to_setup")
    /\ order' = IF m.type = "reboot_to_setup" THEN m ELSE order

ActOnPlain(m) ==
    /\ Listening
    /\ m \in net /\ m.kind = "plain"
    /\ \/ authKey = NoKey
       \/ recoveryOpen /\ m.type = "reboot_to_setup"
    /\ Obey(m)
    /\ UNCHANGED <<net, wall, mode, boot, key, authKey, lastCounter,
                   recoveryOpen, recoveryBoot, acted, bridge>>

Verified(m) == authKey # NoKey /\ m.signer = authKey /\ m.nonce = boot

\* Mutant: a counter that was already used is let through.
ActOnSignedAgain(m) ==
    /\ Listening
    /\ m \in SignedSent
    /\ Verified(m)
    /\ m.counter >= lastCounter
    /\ lastCounter' = m.counter
    /\ acted' = acted \cup {m}
    /\ Obey(m)
    /\ UNCHANGED <<net, wall, mode, boot, key, authKey, recoveryOpen,
                   recoveryBoot, bridge>>

ActOnSigned(m) ==
    /\ Listening
    /\ m \in SignedSent
    /\ Verified(m)
    /\ m.counter > lastCounter
    /\ lastCounter' = m.counter
    /\ acted' = acted \cup {m}
    /\ Obey(m)
    /\ UNCHANGED <<net, wall, mode, boot, key, authKey, recoveryOpen,
                   recoveryBoot, bridge>>

\* net_udp_task.
CloseRecovery ==
    /\ mode = "up"
    /\ recoveryOpen
    /\ recoveryOpen' = FALSE
    /\ UNCHANGED <<net, wall, mode, boot, key, authKey, lastCounter,
                   recoveryBoot, rebootPending, acted, order, bridge>>

RebootToSetup ==
    /\ mode = "up"
    /\ rebootPending
    /\ Boot("setup", FALSE)

Next ==
    \/ \E p \in Processes :
           \/ SendDiscover(p)
           \/ AcceptOpenAck(p)
           \/ \E m \in net, readable \in BOOLEAN : AcceptExtAck(p, m, readable)
           \/ StartStream(p)
           \/ SendState(p)
           \/ RequestReboot(p)
           \/ Restart(p)
           \/ SaveKey(p)
           \/ SetAuthKey(p)
    \/ Clock
    \/ PlugIn
    \/ WatchdogReset
    \/ NetUp
    \/ \E m \in net : AnswerDiscover(m) \/ ActOnPlain(m) \/ ActOnSigned(m)
    \/ CloseRecovery
    \/ RebootToSetup

Spec == Init /\ [][Next]_vars

-----------------------------------------------------------------------------

SessionValues == {Unknown, Open, Locked} \cup {Paired(n) : n \in 1 .. boot}

\* Every variable has its type.
TypeOK ==
    /\ wall \in Nat \ {0}
    /\ mode \in {"setup", "opening", "up"}
    /\ boot \in Nat \ {0}
    /\ key \in Pcs \cup {NoKey}
    /\ authKey \in Pcs \cup {NoKey}
    /\ lastCounter \in Nat
    /\ recoveryOpen \in BOOLEAN
    /\ recoveryBoot \in BOOLEAN
    /\ rebootPending \in BOOLEAN
    /\ stored \subseteq Pcs
    /\ session \in [Processes -> SessionValues]
    /\ ring \in [Processes -> Seq(Nat)]
    /\ \A p \in Processes : Len(ring[p]) <= RingSize
    /\ counter \in [Processes -> Nat]
    /\ streaming \subseteq Processes
    /\ made \in Nat
    /\ sealed \in Nat
    /\ since \in [Processes -> 1 .. boot]

\* Signed frames of a process are acted on in the order they were sealed and
\* none twice, although datagrams are repeated and reordered, the Pico forgets
\* its counter in every boot and the process in every restart
\* (udp_auth.c:73-97, udp_auth.rs:223-236).
NeverOlder ==
    [][\A m \in SignedSent : ActOnSigned(m) =>
           \A g \in acted : g.from = m.from => g.at < m.at]_vars

\* A paired Pico in run mode reboots into setup mode only for a frame sealed
\* for this very boot by the PC whose key it loaded, or in a boot that began
\* with a physical reset; a request that came before the key was loaded does
\* not survive (net_udp.c:938-986).
RebootsOnlyForItsPc ==
    mode = "up" /\ rebootPending /\ authKey # NoKey =>
        \/ /\ order.kind = "signed"
           /\ PcOf[order.from] = authKey
           /\ order.nonce = boot
        \/ recoveryBoot

\* A process never works with the nonce of a boot that was over when the
\* process began: answers to an earlier process on the same address do not
\* count (udp_auth.rs:56-101).
SessionIsRecent ==
    \A p \in Processes :
        session[p].state = "paired" => session[p].nonce >= since[p]
=============================================================================
