-------------------------------- MODULE LabWorld --------------------------------
(***************************************************************************)
(* A test bench as `couchlink lab` (cmd_lab.rs, cmd_lab/pnp.rs) meets it:  *)
(* Picos on the USB ports of one PC, in setup mode, in run mode as a game  *)
(* controller, in the boot loader as a drive, or without power; and what   *)
(* Windows makes of their USB devices.                                     *)
(*                                                                         *)
(* Named assumptions: nobody else puts a Pico into its boot loader; a Pico *)
(* there waits for a firmware file; the controller of a running Pico shows *)
(* the state the Pico was last sent at once; ports, drives and controllers *)
(* follow the mode of a Pico without lag, so that a lag of Windows' shows  *)
(* as a mode that changes later; Picos are not paired.                     *)
(***************************************************************************)
EXTENDS Naturals, FiniteSets

CONSTANTS
    Picos,
    Signals,     \* different pad states of the signal check
    MaxMoves     \* resets and lost networks

ASSUME LabWorldAssumption == Signals \in Nat \ {0} /\ MaxMoves \in Nat

VARIABLES
    mode,      \* of each Pico
    creds,     \* Wi-Fi credentials in its flash
    device,    \* its USB device in Windows
    pad,       \* pad state it shows, 0 neutral
    told,      \* pad state it was last sent
    moves,
    \* History.
    been       \* what each Pico went through since its step began

worldVars == <<mode, creds, device, pad, told, moves, been>>

Modes == {"reset", "joining", "run", "setup", "bootsel", "off"}
Events == {"ran", "flashed", "off", "taken"}
Pads == 0 .. Signals

WorldInit ==
    /\ mode \in [Picos -> {"run", "setup", "bootsel"}]
    /\ creds \in [Picos -> {"none", "good"}]
    /\ \A p \in Picos : mode[p] = "run" => creds[p] = "good"
    /\ device = [p \in Picos |-> "fine"]
    /\ pad = [p \in Picos |-> 0]
    /\ told = [p \in Picos |-> 0]
    /\ moves = 0
    /\ been = [p \in Picos |-> {}]

\* The Picos in S change their mode; a removed device is found again when the
\* Pico shows up on the bus anew.
Become(S, m, event) ==
    /\ mode' = [p \in Picos |-> IF p \in S THEN m ELSE mode[p]]
    /\ device' = [p \in Picos |-> IF p \in S /\ device[p] = "removed"
                                  THEN "fine" ELSE device[p]]
    /\ pad' = [p \in Picos |-> IF p \in S THEN 0 ELSE pad[p]]
    /\ been' = [p \in Picos |-> IF p \in S THEN been[p] \cup event ELSE been[p]]

Running == {p \in Picos : mode[p] = "run"}
Drives == {p \in Picos : mode[p] = "bootsel"}
Reach(p) == mode[p] = "setup" /\ device[p] = "fine"

\* probe_setup_ports: a port whose probe fails is left out.
Seen == SUBSET {p \in Picos : Reach(p)}

\* Running Picos whose controller Windows has, at most four.  What is disabled is
\* the device of the setup mode.
Slots == {p \in Running : device[p] # "removed"}

-----------------------------------------------------------------------------

Boot(p) ==
    /\ mode[p] = "reset"
    /\ Become({p}, IF creds[p] = "none" THEN "setup" ELSE "joining", {})
    /\ UNCHANGED <<creds, told, moves>>

Join(p) ==
    /\ mode[p] = "joining"
    /\ IF creds[p] = "good" THEN Become({p}, "run", {"ran"})
       ELSE Become({p}, "setup", {})
    /\ UNCHANGED <<creds, told, moves>>

\* A Pico resets, or a running one loses its network.
Disturb(p) ==
    /\ moves < MaxMoves
    /\ moves' = moves + 1
    /\ \/ mode[p] \in {"run", "setup"} /\ Become({p}, "reset", {})
       \/ mode[p] = "run" /\ Become({p}, "joining", {})
    /\ UNCHANGED <<creds, told>>

\* The input watchdog of the firmware, or a datagram that was on its way.
PadSettles(p) ==
    /\ pad[p] # 0
    /\ pad' = [pad EXCEPT ![p] = 0]
    /\ UNCHANGED <<mode, creds, device, told, moves, been>>

WorldTypeOK ==
    /\ mode \in [Picos -> Modes]
    /\ creds \in [Picos -> {"none", "good", "bad"}]
    /\ device \in [Picos -> {"fine", "disabled", "removed"}]
    /\ pad \in [Picos -> Pads]
    /\ told \in [Picos -> Pads]
    /\ moves \in 0 .. MaxMoves
    /\ been \in [Picos -> SUBSET Events]
=============================================================================
