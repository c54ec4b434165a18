--------------------------------- MODULE MCPads ---------------------------------
(***************************************************************************)
(* The two parts of the bridge that must tell which of Windows' controllers *)
(* is which: the lab, and the start of a stream.  They do not run together; *)
(* a behaviour is one of either.                                           *)
(***************************************************************************)
EXTENDS Lab, StreamStart, TLC

CONSTANTS p1, p2

VARIABLE part

NoStart ==
    /\ persona = [x \in Pico |-> "usb"] /\ plugged = {} /\ pads = [s \in Slot |-> Free]
    /\ phase = "idle" /\ picos = <<>> /\ routes = <<>> /\ auto = FALSE
    /\ links = {} /\ fed = {} /\ excused = FALSE

\* Options that make no difference to a scenario have one value.
LabInit ==
    /\ Init
    /\ ~Includes("power") => opts.power = "reset"
    /\ ~Includes("flash") => ~opts.no_flash
    /\ opts.power # "external" => opts.cuts
    /\ failed => opts.scenario = "power-cycle"
    /\ opts.scenario = "status" => opts.all /\ opts.wifi = "unset"
    /\ opts.uids \in {{}, {1}}
    /\ opts.wifi = "unset" \/ \E x \in Picos : creds[x] = "none"

NoLab ==
    /\ LabInit
    /\ opts.scenario = "status" /\ \A x \in Picos : mode[x] = "run"

MCInit ==
    \/ part = "lab" /\ LabInit /\ NoStart
    \/ part = "start" /\ NoLab /\ StartInit

MCNext ==
    /\ UNCHANGED part
    /\ \/ part = "lab" /\ Next /\ UNCHANGED startVars
       \/ part = "start" /\ StartNext /\ UNCHANGED vars

MCSpec == MCInit /\ [][MCNext]_<<part, vars, startVars>>

\* Picos of a stream differ in nothing but their names.
AnyPico == Permutations(Pico)
=============================================================================
