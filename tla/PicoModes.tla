-------------------------------- MODULE PicoModes --------------------------------
(***************************************************************************)
(* Running Picos as a program on the PC sees them: the persona each is in, *)
(* whether it can be heard on Wi-Fi, and what its USB host makes of the    *)
(* persona.  The commands that change a persona are datagrams: they may be *)
(* lost, and they show only in what a later discovery hears (pico_mode.rs, *)
(* cmd_persona.rs, net_udp.c).                                             *)
(***************************************************************************)
EXTENDS UsbVerdict

CONSTANTS
    Picos,
    Adapters,     \* USB hosts: what each reports of every persona, once settled
    Beginnings,   \* personas the Picos start in
    MaxOutages,   \* power cycles and other absences during a model run
    None          \* no Pico, no persona

ASSUME PicoModesAssumption ==
    /\ Adapters \subseteq [AllPersonas -> Diags]
    /\ Beginnings \subseteq AllPersonas
    /\ MaxOutages \in Nat
    /\ None \notin Picos /\ None \notin AllPersonas

VARIABLES
    persona,    \* what each Pico is, or will be when it has booted
    heard,      \* Picos that answer on Wi-Fi
    capturing,  \* Picos that record their USB packets in this boot
    adapter,    \* the host each is plugged into
    outages

picoVars == <<persona, heard, capturing, adapter, outages>>

PicoInit ==
    /\ persona \in [Picos -> Beginnings]
    /\ heard \in SUBSET Picos
    /\ capturing = {}
    /\ adapter \in [Picos -> Adapters]
    /\ outages = 0

-----------------------------------------------------------------------------
(* The Pico's side of a command.                                           *)

NoChange == UNCHANGED <<persona, heard, capturing>>

Reboots(p, want, capture) ==
    /\ persona' = [persona EXCEPT ![p] = want]
    /\ heard' = heard \ {p}
    /\ capturing' = IF capture THEN capturing \cup {p} ELSE capturing \ {p}

\* apply_set_persona: nothing happens in the persona asked for.
ApplySetPersona(p, want) ==
    IF persona[p] = want THEN NoChange ELSE Reboots(p, want, FALSE)

\* apply_set_usb_capture: enabled, always a reboot.
ApplySetUsbCapture(p, want) == Reboots(p, want, TRUE)
ApplyClearUsbCapture(p) ==
    /\ capturing' = capturing \ {p}
    /\ UNCHANGED <<persona, heard>>

\* The Pico has booted and joined: at any time, or never.
Joins(p) ==
    /\ p \notin heard
    /\ heard' = heard \cup {p}
    /\ UNCHANGED <<persona, capturing, adapter, outages>>

\* It is unplugged and plugged in again.
Outage(p) ==
    /\ p \in heard
    /\ outages < MaxOutages
    /\ outages' = outages + 1
    /\ heard' = heard \ {p}
    /\ capturing' = capturing \ {p}
    /\ UNCHANGED <<persona, adapter>>

-----------------------------------------------------------------------------
(* The bridge's side.  A request returns an error or Ok; of the datagrams  *)
(* it sent, before the error too, the Pico got one or none.                *)

Sent(p, effect) ==
    \/ NoChange
    \/ p \in heard /\ effect

\* request_set_persona, request_set_usb_capture_persona and
\* request_clear_usb_capture
RequestSetPersona(p, want) == Sent(p, ApplySetPersona(p, want))
RequestCapture(p, want) == Sent(p, ApplySetUsbCapture(p, want))
RequestClear(p) == Sent(p, ApplyClearUsbCapture(p))

\* discover_picos: any part of those that can be heard.
Discoveries(among) == SUBSET (among \cap heard)

\* wait_for_persona, where it returns Ok: as soon as every Pico has answered
\* in its persona, or, when the time is up, with what was heard last.
WaitForPersona(picos, seen) == seen \in Discoveries(picos) /\ NoChange

\* query_usb_diag: the counters of this boot, of a host that has settled or
\* has not begun; or none.
Quiet == [mounted |-> FALSE, suspended |-> FALSE, mounts |-> FALSE,
          umounts |-> FALSE, desc |-> FALSE, sent |-> FALSE, out |-> FALSE]
QueryUsbDiag(p) ==
    {NoDiag} \cup (IF p \in heard THEN {Quiet, adapter[p][persona[p]]} ELSE {})

PicoTypeOK ==
    /\ persona \in [Picos -> AllPersonas]
    /\ heard \subseteq Picos
    /\ capturing \subseteq Picos
    /\ adapter \in [Picos -> Adapters]
    /\ outages \in 0 .. MaxOutages
=============================================================================
