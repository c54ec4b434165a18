------------------------------ MODULE StreamStart ------------------------------
(***************************************************************************)
(* From `couchlink run`, `couchlink persona` or the home screen to a       *)
(* running stream: which Picos, which Windows controller for each, and     *)
(* what has to be in place first (cmd_run.rs, cmd_run/routing.rs,          *)
(* cmd_run/bluetooth.rs, cmd_persona.rs, cmd_home.rs).                     *)
(*                                                                         *)
(* A Pico in a USB mode that is plugged into this PC is a controller of it *)
(* itself, and Windows may list that controller for a while after the Pico *)
(* has left the mode.  A Bluetooth Pico is always plugged into this PC, so *)
(* a stream may come to feed a Pico with its own reports.                  *)
(***************************************************************************)
EXTENDS Naturals, FiniteSets, Sequences, Functions

CONSTANTS
    Pico,
    Slot,     \* XInput slots, 0, 1, ...
    Free,     \* no controller in a slot
    User      \* a controller of the user, or of Parsec

ASSUME StreamStartAssumption ==
    /\ IsFiniteSet(Pico) /\ IsFiniteSet(Slot) /\ Slot = 0..(Cardinality(Slot) - 1)
    /\ Free \notin Pico /\ User \notin Pico /\ Free # User

VARIABLES
    persona,  \* the persona of each Pico: "usb", "keyboard" or "bluetooth"
    plugged,  \* Picos plugged into this PC
    pads,     \* who is in each slot: Free, User or a Pico
    phase,    \* how far the start has come
    picos,    \* the Picos found, with their persona then
    routes,   \* the routes: slot, Pico and persona
    auto,     \* history: they were laid out by auto_routes
    links,    \* open USB links of Bluetooth Picos
    fed,      \* what the tick just now brought: <<who, Pico>>
    excused   \* history: Windows did not tell whose the controllers are, or a
              \* mode was switched while the stream was starting

world == <<persona, plugged, pads>>
startVars == <<world, phase, picos, routes, auto, links, fed, excused>>

Personas == {"usb", "keyboard", "bluetooth"}

Live == {s \in Slot : pads[s] # Free}
IsBluetooth(r) == r.persona = "bluetooth"
PicosOf(rs) == {rs[i].pico : i \in DOMAIN rs}
BluetoothPicos(rs) == {rs[i].pico : i \in {j \in DOMAIN rs : IsBluetooth(rs[j])}}

\* A set of numbers in order, as the only element of a set.
Sorted(S) ==
    {f \in [1..Cardinality(S) -> S] : \A i, j \in DOMAIN f : i < j => f[i] < f[j]}

StartInit ==
    /\ persona \in [Pico -> Personas]
    /\ plugged \in SUBSET Pico
    /\ pads = [s \in Slot |-> Free]
    /\ phase = "idle" /\ picos = <<>> /\ routes = <<>> /\ auto = FALSE
    /\ links = {} /\ fed = {} /\ excused = FALSE

\* The command ends, with an error or not.
End ==
    /\ phase' = "idle" /\ picos' = <<>> /\ routes' = <<>> /\ auto' = FALSE
    /\ links' = {} /\ fed' = {} /\ excused' = FALSE

GoOn(to) == phase' = to /\ UNCHANGED <<picos, links, fed>>

-----------------------------------------------------------------------------
(* Which Picos.                                                            *)

Target(p) == [pico |-> p, persona |-> persona[p]]

Orders(S) == {s \in [1..Cardinality(S) -> S] : IsInjective(s)}

\* discover_picos: those that answer, in the order of their answers.
DiscoverPicos ==
    {[i \in DOMAIN s |-> Target(s[i])] : s \in UNION {Orders(S) : S \in SUBSET Pico}}

\* merge_unique_picos: a later answer replaces an earlier one.
MergeUnique(found, p) ==
    IF p \in PicosOf(found)
    THEN [i \in DOMAIN found |-> IF found[i].pico = p THEN Target(p) ELSE found[i]]
    ELSE Append(found, Target(p))

\* discover_picos_with_auto_recovery: with those brought back from setup mode.
WithRecovered(found) == {found} \cup {MergeUnique(found, p) : p \in Pico}

\* manual_ips_from_options: the addresses among the Picos and routes asked for,
\* each once; an address stands for the Pico that has it.
ManualIps == UNION {Orders(S) : S \in SUBSET Pico}

\* probe_ip, probe_pico_ip: what the Pico at an address says when it answers.
ProbeIp(p) == Target(p)

\* add_manual_ip_targets: with those that are not known yet; one that does not
\* answer in time ends the command.
WithManual(found) ==
    {<<>>} \cup {found \o [i \in DOMAIN ips |-> ProbeIp(ips[i])] :
                    ips \in {x \in ManualIps : Range(x) \cap PicosOf(found) = {}}}

Discover ==
    /\ phase = "idle"
    /\ \E found \in DiscoverPicos :
       \E recovered \in WithRecovered(found) :
          picos' \in WithManual(recovered)
    /\ phase' = IF picos' = <<>> THEN "idle" ELSE "found"
    /\ UNCHANGED <<world, routes, auto, links, fed, excused>>

-----------------------------------------------------------------------------
(* Which controller for each.                                              *)

Route(slot, t) == [slot |-> slot, pico |-> t.pico, persona |-> t.persona]

\* single_match, of the places where something was found
SingleMatch(places) == {picos[i] : i \in {j \in places : places = {j}}}

\* match_pico_selector: a UID, or a board, which fits every Pico.
Board == "board"
Matching(selector) ==
    SingleMatch({i \in DOMAIN picos : selector \in {Board, picos[i].pico}})
Matched(selectors) == UNION {Matching(x) : x \in selectors}

\* auto_routes: Picos and slots in order; without a preference the live ones.
AutoRoutes(targets, preferred) ==
    LET slots == IF preferred # {} THEN preferred
                 ELSE IF Live # {} THEN Live ELSE 0..(Len(targets) - 1)
    IN IF targets = <<>> THEN {}
       ELSE {[i \in DOMAIN targets |-> Route(ordered[i], targets[i])] :
                ordered \in {f \in Sorted(slots) : DOMAIN targets \subseteq DOMAIN f}}

\* parse_route_specs: slots and Picos as they are named.
Pairs == {<<Route(s, t)>> : s \in Slot, t \in Matched(Pico \cup {Board})}
RouteSpecs == Pairs \cup {a \o b : a \in Pairs, b \in Pairs}

\* routes_from_saved: by their UIDs, in a layout that was valid when saved.
SavedRoutes == {rs \in RouteSpecs : Len(rs) = 1 \/ rs[1].pico # rs[2].pico}

\* select_picos_by_specs: each Pico once, however often it is named.
NamedPicos ==
    {<<t>> : t \in Matched(Pico \cup {Board})}
    \cup {ts \in {<<t, u>> : t \in Matched(Pico), u \in Matched(Pico)} : IsInjective(ts)}

\* validate_routes
Valid(rs) ==
    /\ \A i \in DOMAIN rs : rs[i].slot \in Slot
    /\ \A i, j \in DOMAIN rs : rs[i].pico = rs[j].pico => i = j

\* The way into stream_routes, which knows the Picos of its routes only.
Stream(rs, byAuto) ==
    IF Valid(rs) /\ rs # <<>>
    THEN /\ routes' = rs /\ auto' = byAuto /\ picos' = <<>>
         /\ phase' = IF \E i \in DOMAIN rs : IsBluetooth(rs[i]) THEN "verify" ELSE "links"
         /\ UNCHANGED <<links, fed, excused>>
    ELSE End

\* run, with routes or the saved layout, with Picos or all of them.
RunRoutes ==
    /\ phase = "found"
    /\ \E rs \in RouteSpecs \cup SavedRoutes : Stream(rs, FALSE)
    /\ UNCHANGED world

RunPicos ==
    /\ phase = "found"
    /\ \E targets \in {picos} \cup NamedPicos :
       \/ \E rs \in AutoRoutes(targets, Slot) : Stream(rs, TRUE)
       \/ AutoRoutes(targets, Slot) = {} /\ End
    /\ UNCHANGED world

\* run_legacy_single: the first Pico and the first live slot.
RunLegacySingle ==
    /\ phase = "found"
    /\ \E rs \in AutoRoutes(<<picos[1]>>, {}) : Stream(rs, TRUE)
    /\ UNCHANGED world

\* Slots in which Windows lists one of the Picos.
OwnPads(S) == {s \in Slot : pads[s] \in S}

\* wait_for_bluetooth_xinput_release, of persona and the home screen: until none
\* of the Bluetooth Picos is a controller any more.  Windows may not tell.
Leaving == OwnPads(BluetoothPicos(picos))

WaitForRelease ==
    /\ phase = "found"
    /\ \/ Leaving = {} /\ UNCHANGED excused
       \/ excused' = TRUE
    /\ GoOn("released")
    /\ UNCHANGED <<world, routes, auto>>

ReleaseTimesOut == phase = "found" /\ Leaving # {} /\ End /\ UNCHANGED world

\* preferred_source_slots_for_persona
PreferredSlots(desired) == IF desired = "bluetooth" THEN {} ELSE Slot

\* persona: those that are in the mode asked for.
Ready(desired) ==
    {[i \in DOMAIN f |-> picos[f[i]]] :
        f \in Sorted({j \in DOMAIN picos : picos[j].persona = desired})}

PersonaRoutes ==
    \E desired \in Personas :
       /\ phase = IF desired = "bluetooth" THEN "released" ELSE "found"
       /\ \E ready \in Ready(desired) :
          \E rs \in AutoRoutes(ready, PreferredSlots(desired)) : Stream(rs, TRUE)
       /\ UNCHANGED world

\* choose_bluetooth_source_slots, choose_source_slot: as the user picks.
ChosenSlots == [DOMAIN picos -> Slot]

\* route_one, stream_with_mode
HomeRoutes ==
    /\ phase = IF \E i \in DOMAIN picos : IsBluetooth(picos[i]) THEN "released" ELSE "found"
    /\ \E slots \in ChosenSlots :
          Stream([i \in DOMAIN picos |-> Route(slots[i], picos[i])], FALSE)
    /\ UNCHANGED world

-----------------------------------------------------------------------------
(* What has to be in place.                                                *)

\* Mutant of NotASource: one Pico of several is looked at.
FirstNotASource == \E p \in BluetoothPicos(routes) : OwnPads({p}) = {}

NotASource == OwnPads(BluetoothPicos(routes)) = {}

\* verify_bluetooth_picos_are_not_xinput_sources
Verify ==
    /\ phase = "verify"
    /\ \/ NotASource /\ GoOn("source") /\ UNCHANGED <<routes, auto, excused>>
       \/ ~NotASource /\ End
       \/ excused' = TRUE /\ GoOn("source") /\ UNCHANGED <<routes, auto>>
    /\ UNCHANGED world

\* Mutant of MaySwitch: one Bluetooth route among several may switch.
MaySwitchAny == BluetoothPicos(routes) # {}

\* should_auto_switch_bluetooth_source
MaySwitch == Len(routes) = 1 /\ IsBluetooth(routes[1])

\* bluetooth_source_slot_decision: the slot to use from now on.
Decision(r) ==
    IF IsBluetooth(r) /\ r.slot \notin Live /\ MaySwitch /\ Cardinality(Live) = 1
    THEN CHOOSE s \in Live : TRUE ELSE r.slot
Decided == [i \in DOMAIN routes |-> [routes[i] EXCEPT !.slot = Decision(routes[i])]]
Missing == \E i \in DOMAIN routes : IsBluetooth(routes[i]) /\ Decided[i].slot \notin Live

\* wait_for_bluetooth_source_slots
SourcesReady ==
    /\ phase = "source" /\ ~Missing
    /\ routes' = Decided
    /\ GoOn("links")
    /\ UNCHANGED <<world, auto, excused>>
SourcesMissing == phase = "source" /\ Missing /\ End /\ UNCHANGED world

\* open_bluetooth_usb_links; and what udp_auth::prepare needs fails with an error.
CanLink(p) == persona[p] = "bluetooth" /\ p \in plugged
OpenLinks ==
    /\ phase = "links"
    /\ IF \A p \in BluetoothPicos(routes) : CanLink(p)
       THEN /\ phase' = "streaming" /\ links' = BluetoothPicos(routes)
            /\ UNCHANGED <<picos, routes, auto, fed, excused>>
       ELSE End
    /\ UNCHANGED world

-----------------------------------------------------------------------------
(* The stream.                                                             *)

\* next_controller_packet, after try_auto_switch_bluetooth_source
Source(i) == pads[Decided[i].slot]

\* send_bluetooth_usb_tick: who feeds whom.
Feeds == {<<Source(i), routes[i].pico>> : i \in {j \in DOMAIN routes : IsBluetooth(routes[j])}}

\* A Bluetooth Pico without its link ends the stream.
Tick ==
    /\ phase = "streaming"
    /\ IF BluetoothPicos(routes) \subseteq links
       THEN /\ routes' = Decided /\ fed' = Feeds
            /\ UNCHANGED <<phase, picos, auto, links, excused>>
       ELSE End
    /\ UNCHANGED world

\* apply_recovery_results: a Pico found at another address is taken with its
\* persona; Bluetooth routes are searched for with the others.
ApplyRecovery ==
    /\ phase = "streaming"
    /\ \E i \in DOMAIN routes :
          routes' = [routes EXCEPT ![i].persona = persona[routes[i].pico]]
    /\ fed' = {}
    /\ UNCHANGED <<world, phase, picos, auto, links, excused>>

Stop == phase # "idle" /\ End /\ UNCHANGED world

-----------------------------------------------------------------------------
(* Outside.                                                                *)

Outside == fed' = {} /\ UNCHANGED <<phase, picos, routes, auto>>

\* A Pico restarts in another mode.  If it was a controller, Windows does not
\* know at once that it is no more.
SwitchMode(p) ==
    /\ \E m \in Personas \ {persona[p]} :
           /\ persona' = [persona EXCEPT ![p] = m]
           /\ excused' = (excused \/ (m = "usb" /\ phase \notin {"idle", "streaming"}))
    /\ links' = links \ {p}
    /\ Outside /\ UNCHANGED <<plugged, pads>>

PadAppears ==
    /\ \E s \in Slot :
       /\ pads[s] = Free
       /\ \E who \in {User} \cup {p \in plugged : persona[p] = "usb" /\ OwnPads({p}) = {}} :
             pads' = [pads EXCEPT ![s] = who]
    /\ Outside /\ UNCHANGED <<links, persona, plugged, excused>>

PadVanishes ==
    /\ \E s \in Live : pads' = [pads EXCEPT ![s] = Free]
    /\ Outside /\ UNCHANGED <<links, persona, plugged, excused>>

Unplug(p) ==
    /\ p \in plugged
    /\ plugged' = plugged \ {p} /\ links' = links \ {p}
    /\ Outside /\ UNCHANGED <<persona, pads, excused>>

StartNext ==
    \/ Discover \/ RunRoutes \/ RunPicos \/ RunLegacySingle
    \/ WaitForRelease \/ ReleaseTimesOut \/ PersonaRoutes \/ HomeRoutes
    \/ Verify \/ SourcesReady \/ SourcesMissing \/ OpenLinks
    \/ Tick \/ ApplyRecovery \/ Stop
    \/ PadAppears \/ PadVanishes
    \/ \E p \in Pico : SwitchMode(p) \/ Unplug(p)

StartSpec == StartInit /\ [][StartNext]_startVars

-----------------------------------------------------------------------------
(* Properties.                                                             *)

Targets == [pico : Pico, persona : Personas]
Wires == [slot : Slot, pico : Pico, persona : Personas]

\* Every variable has its type.
StartTypeOK ==
    /\ persona \in [Pico -> Personas] /\ plugged \subseteq Pico
    /\ pads \in [Slot -> {Free, User} \cup Pico]
    /\ phase \in {"idle", "found", "released", "verify", "source", "links", "streaming"}
    /\ picos \in Seq(Targets)
    /\ routes \in Seq(Wires)
    /\ links \subseteq Pico /\ fed \subseteq ({Free, User} \cup Pico) \X Pico
    /\ auto \in BOOLEAN /\ excused \in BOOLEAN

\* A Bluetooth Pico is never fed with its own reports, whatever controllers come
\* and go and whichever slot a stream moves to while it runs; unless Windows did
\* not say whose the controllers are (which the user is told), or a Pico was
\* switched to a USB mode, from which it may be back, between the discovery and
\* the stream.
NoFeedback == excused \/ \A f \in fed : f[1] # f[2]

\* No Pico is fed by two controllers, and a layout that was made automatically
\* never feeds two Picos with one, whatever slots vanish before the start or later.
OneSourceEach ==
    phase = "streaming" =>
        \A i, j \in DOMAIN routes : i # j =>
            /\ routes[i].pico # routes[j].pico
            /\ auto => routes[i].slot # routes[j].slot
=============================================================================
