-------------------------------- MODULE PicoWorld --------------------------------
(***************************************************************************)
(* The Picos of one PC as the bridge's commands meet them: over USB serial *)
(* while they are in setup mode, over Wi-Fi while they run, as a drive     *)
(* while they are in the boot loader.  Windows lags behind: a COM port     *)
(* shows up after its Pico is in setup mode and lingers after it has left. *)
(*                                                                         *)
(* Named assumptions: a COM port is open in one process at a time and      *)
(* keeps its name; a handle dies when the Pico behind it leaves setup      *)
(* mode; a broadcast may miss any Pico; nobody else reconfigures a Pico.   *)
(* Picos with a Bluetooth persona, which keep USB serial open while they   *)
(* run, are not here.                                                      *)
(***************************************************************************)
EXTENDS ConfigFile

CONSTANTS
    MaxMoves     \* disturbances, and flows that a user starts

VARIABLES
    mode,      \* of each Pico
    creds,     \* Wi-Fi credentials in its flash
    key,       \* pairing key in its flash
    shown,     \* COM ports Windows lists
    holder,    \* process with the port open
    moves,
    \* History.
    since      \* processes since whose reboot_to_run a port has shown up

worldVars == <<mode, creds, key, shown, holder, moves, since>>

Modes == {"reset", "joining", "run", "setup", "bootsel"}
Creds == {"none", "good", "bad"}

WorldInit ==
    /\ mode \in [Picos -> {"run", "setup"}]
    /\ creds = [p \in Picos |-> IF mode[p] = "run" THEN "good" ELSE "none"]
    /\ key = [p \in Picos |-> 0]
    /\ shown = {p \in Picos : mode[p] = "setup"}
    /\ holder = [p \in Picos |-> Nobody]
    /\ moves = 0
    /\ since = {}

Running == {p \in Picos : mode[p] = "run"}

\* find_setup_port
FirstPort == CHOOSE p \in shown : \A q \in shown : p <= q

\* The mode of p changes; whoever held its port holds a dead handle.
Becomes(p, m) ==
    /\ mode' = [mode EXCEPT ![p] = m]
    /\ holder' = [holder EXCEPT ![p] = Nobody]
    /\ UNCHANGED since

\* A signed request is obeyed only if this PC has the key on file.
CanCommand(p) ==
    mode[p] = "run" /\ (key[p] = 0 \/ (file # Torn /\ file.keys[p] = key[p]))

-----------------------------------------------------------------------------
(* The Picos and Windows on their own.                                     *)

Boot(p) ==
    /\ mode[p] = "reset"
    /\ Becomes(p, IF creds[p] = "none" THEN "setup" ELSE "joining")
    /\ UNCHANGED <<creds, key, shown, moves, fileVars>>

Join(p) ==
    /\ mode[p] = "joining"
    /\ Becomes(p, IF creds[p] = "good" THEN "run" ELSE "setup")
    /\ UNCHANGED <<creds, key, shown, moves, fileVars>>

PortAppears(p) ==
    /\ mode[p] = "setup" /\ p \notin shown
    /\ shown' = shown \cup {p}
    /\ since' = Processes
    /\ UNCHANGED <<mode, creds, key, holder, moves, fileVars>>

PortGone(p) ==
    /\ mode[p] # "setup" /\ p \in shown
    /\ shown' = shown \ {p}
    /\ UNCHANGED <<mode, creds, key, holder, moves, since, fileVars>>

\* A Pico is unplugged and plugged in again, or a running one loses its
\* network.
Disturb(p) ==
    /\ moves < MaxMoves
    /\ moves' = moves + 1
    /\ \E m \in {"reset", "joining"} :
           /\ m = "joining" => mode[p] = "run"
           /\ Becomes(p, m)
    /\ UNCHANGED <<creds, key, shown, fileVars>>

WorldTypeOK ==
    /\ mode \in [Picos -> Modes]
    /\ creds \in [Picos -> Creds]
    /\ key \in [Picos -> 0 .. MaxKeys]
    /\ shown \subseteq Picos
    /\ holder \in [Picos -> Processes \cup {Nobody}]
    /\ moves \in 0 .. MaxMoves
    /\ since \subseteq Processes
=============================================================================
