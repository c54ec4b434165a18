----------------------------------- MODULE Lab -----------------------------------
(***************************************************************************)
(* The harness of `couchlink lab` (cmd_lab.rs) with its PnP helper         *)
(* (cmd_lab/pnp.rs): it takes the selected Picos of a bench to setup mode, *)
(* puts them through cycles of modes, power and firmware, checks at the    *)
(* end that each works as a controller, and reports a pass or a failure of *)
(* every step.                                                             *)
(*                                                                         *)
(* A step is an exchange, a round of a polling loop or a command run; any  *)
(* may fail or run out of time.  The probe of a Pico is its place in       *)
(* `probes` and whether its HELLO told of credentials.                     *)
(*                                                                         *)
(* Named assumptions: listing COM ports does not fail; the process is not  *)
(* killed while devices are disabled; what pnputil reports as done is done *)
(* (what it reports as failed may be done all the same).                   *)
(***************************************************************************)
EXTENDS LabWorld

CONSTANT Cycles

ASSUME LabAssumption ==
    Picos \subseteq Nat /\ IsFiniteSet(Picos) /\ 0 \notin Picos /\ Cycles \in Nat \ {0}

VARIABLES
    opts,      \* the command line, the environment, the selected power backend
    lab,       \* where the harness is
    win,       \* where the PnP helper is
    failed,    \* a step has failed
    \* History.
    hollow,    \* the kinds of passes reported of what did not happen
    wrong,     \* a signal check took another's slot for its Pico's
    stuck      \* devices pnputil would not bring back, pads whose release
               \* could not be sent

vars == <<worldVars, opts, lab, win, failed, hollow, wrong, stuck>>

Scenarios == {"full", "mode-cycle", "flash-cycle", "power-cycle", "status"}
Backends == {"reset", "external", "restart", "remove"}

\* LabScenario::includes_*
Includes(stage) ==
    opts.scenario = "full" \/
    opts.scenario = CASE stage = "mode" -> "mode-cycle"
                      [] stage = "flash" -> "flash-cycle"
                      [] stage = "power" -> "power-cycle"
                      [] OTHER -> "full"

\* The code has four, as Windows has four controllers.
Nobody == 0

\* `cuts`: the configured command that cuts power does so when it exits with 0.
Options ==
    [scenario : Scenarios, power : Backends, no_flash : BOOLEAN, cuts : BOOLEAN,
     all : BOOLEAN, uids : SUBSET Picos, wifi : {"unset", "good", "bad"}]

AtRest == [left |-> {}, taken |-> {}, ok |-> TRUE, elevated |-> FALSE]

\* select_power_backend: an external backend that is not configured is a
\* failure at once, and the reset one is taken.
Init ==
    /\ WorldInit
    /\ opts \in Options
    /\ opts.all = (opts.uids = {})
    /\ failed \in BOOLEAN
    /\ failed => opts.power = "reset"
    /\ lab = [stage |-> "status", at |-> "begin", cycle |-> 1, cur |-> Nobody,
              todo |-> {}, probes |-> {}, known |-> {}, before |-> {},
              targets |-> {}, found |-> Nobody]
    /\ win = AtRest
    /\ hollow = {}
    /\ wrong = FALSE
    /\ stuck = [device |-> {}, pad |-> {}]

-----------------------------------------------------------------------------
(* Control.                                                                *)

At(stage, at) == lab.stage = stage /\ lab.at = at
Cur == lab.cur
Least(S) == CHOOSE p \in S : \A q \in S : p <= q
Selected(S) == IF opts.all THEN S ELSE S \cap opts.uids

Order == <<"mode", "power", "flash">>

\* run_scenario: the stages of a cycle, the cycles, the final check.
From(l, i) ==
    LET later == {j \in i .. 3 : Includes(Order[j])}
        any == {j \in 1 .. 3 : Includes(Order[j])} IN
    IF later # {} THEN [l EXCEPT !.stage = Order[Least(later)]]
    ELSE IF l.cycle < Cycles
         THEN [l EXCEPT !.stage = Order[Least(any)], !.cycle = @ + 1]
    ELSE [l EXCEPT !.stage = IF Includes("final") THEN "final" ELSE "done"]

Enter(l) == [l EXCEPT !.at = "begin", !.todo = l.probes, !.cur = Nobody,
                      !.before = {}]

Position(stage) == CHOOSE i \in 1 .. 3 : Order[i] = stage

\* After the stage is through.
Following(l) ==
    Enter(CASE l.stage = "normalize" -> From(l, 1)
            [] l.stage = "final" -> [l EXCEPT !.stage = "signals"]
            [] l.stage = "signals" ->
                   [l EXCEPT !.stage = IF opts.power = "remove" /\ l.targets # {}
                                       THEN "reconnect" ELSE "done"]
            [] l.stage = "reconnect" -> [l EXCEPT !.stage = "again"]
            [] l.stage = "again" -> [l EXCEPT !.stage = "done"]
            [] OTHER -> From(l, Position(l.stage) + 1))

\* After the turn of one Pico.
AfterTurn(l) ==
    LET left == l.todo \ {l.cur} IN
    IF left = {} THEN Following(l)
    ELSE [l EXCEPT !.at = "begin", !.cur = Nobody, !.todo = left]

Go(at) == lab' = [lab EXCEPT !.at = at]
Lab == UNCHANGED <<opts, win>>

\* The pass of the external backend speaks of a cut, the others of a step.
PassKind == IF lab.stage = "power" /\ opts.power = "external" THEN "cut" ELSE "step"
Pass(earned) ==
    /\ hollow' = IF earned THEN hollow ELSE hollow \cup {PassKind}
    /\ UNCHANGED <<failed, wrong, stuck>>
Fail == failed' = TRUE /\ UNCHANGED <<hollow, wrong, stuck>>
Quiet == UNCHANGED <<failed, hollow, wrong, stuck>>
NoWorld == UNCHANGED worldVars

-----------------------------------------------------------------------------
(* Finding the selected Picos.                                             *)

StatusSnapshot ==
    /\ At("status", "begin")
    /\ lab' = [lab EXCEPT !.stage =
                   CASE opts.scenario = "status" -> "done"
                     [] Includes("flash") -> "recover"
                     [] OTHER -> "normalize"]
    /\ NoWorld /\ Lab /\ Quiet

\* Drives have no UID: only a bench of all Picos selects them.
RecoverInitial ==
    /\ At("recover", "begin")
    /\ IF opts.all /\ ~opts.no_flash /\ Drives # {}
       THEN \E done \in SUBSET Drives :
                /\ Become(done, "reset", {"flashed"})
                /\ IF done = Drives THEN Quiet ELSE Fail
       ELSE UNCHANGED <<mode, device, pad, been>> /\ Quiet
    /\ lab' = [lab EXCEPT !.stage = "normalize"]
    /\ UNCHANGED <<creds, told, moves>>
    /\ Lab

Knowing(S) == (lab.known \ S) \cup {p \in S : creds[p] # "none"}

SetupSelected ==
    /\ At("normalize", "begin")
    /\ \E seen \in Seen :
           lab' = [lab EXCEPT !.at = "discover", !.probes = Selected(seen),
                              !.known = Knowing(Selected(seen))]
    /\ NoWorld /\ Lab /\ Quiet

WifiSelected ==
    /\ At("normalize", "discover")
    /\ \E heard \in SUBSET Running :
           lab' = [lab EXCEPT !.at = "each", !.todo = Selected(heard) \ lab.probes]
    /\ NoWorld /\ Lab /\ Quiet

\* Nothing selected was found: the run is over.
Normalized ==
    /\ At("normalize", "each") /\ lab.todo = {}
    /\ IF lab.probes = {}
       THEN lab' = [lab EXCEPT !.stage = "done"] /\ Fail
       ELSE lab' = Following(lab) /\ Quiet
    /\ NoWorld /\ Lab

\* request_reboot_to_setup: the datagrams may be lost.
RequestSetup(p) ==
    /\ IF mode[p] = "run"
       THEN \/ Become({p}, "setup", {})
            \/ UNCHANGED <<mode, device, pad, been>>
       ELSE UNCHANGED <<mode, device, pad, been>>
    /\ UNCHANGED <<creds, told, moves>>

NormalizeOne ==
    /\ At("normalize", "each") /\ lab.todo # {}
    /\ RequestSetup(Least(lab.todo))
    /\ lab' = [lab EXCEPT !.at = "wait", !.cur = Least(lab.todo)]
    /\ Lab /\ Quiet

NormalizeEnds ==
    /\ At("normalize", "wait")
    /\ \/ /\ Reach(Cur)
          /\ lab' = [lab EXCEPT !.at = "each", !.todo = @ \ {Cur},
                         !.probes = @ \cup {Cur}, !.known = Knowing({Cur})]
          /\ Quiet
       \/ /\ lab' = [lab EXCEPT !.at = "each", !.todo = @ \ {Cur}]
          /\ Fail
    /\ NoWorld /\ Lab

-----------------------------------------------------------------------------
(* One Pico at a time: mode cycles, the reset backend, flash cycles and    *)
(* the final check.                                                        *)

OneByOne == lab.stage \in {"mode", "flash", "final"}
            \/ (lab.stage = "power" /\ opts.power = "reset")

Take ==
    /\ OneByOne /\ lab.at = "begin" /\ ~(lab.stage = "flash" /\ opts.no_flash)
    /\ LET p == Least(lab.todo) IN
       /\ lab' = [lab EXCEPT !.cur = p, !.before = Drives,
                      !.at = IF lab.stage = "flash" THEN "boot" ELSE "ready"]
       /\ been' = [been EXCEPT ![p] = {}]
    /\ UNCHANGED <<mode, creds, device, pad, told, moves>>
    /\ Lab /\ Quiet

\* --no-flash: every Pico is reported as skipped.
SkipFlash ==
    /\ At("flash", "begin") /\ opts.no_flash
    /\ lab' = Following(lab)
    /\ NoWorld /\ Lab /\ Quiet

\* ensure_wifi_ready goes by the HELLO of the probe.
WifiReady ==
    /\ lab.at = "ready"
    /\ \/ Cur \in lab.known /\ UNCHANGED creds
       \/ /\ Cur \notin lab.known
          /\ opts.wifi # "unset" /\ Reach(Cur)
          /\ creds' = [creds EXCEPT ![Cur] = opts.wifi]
    /\ Go("torun")
    /\ UNCHANGED <<mode, device, pad, told, moves, been>>
    /\ Lab /\ Quiet

\* reboot_setup_to_run
RebootToRun ==
    /\ lab.at = "torun"
    /\ Reach(Cur) /\ creds[Cur] # "none"
    /\ Become({Cur}, "reset", {})
    /\ Go("wifi")
    /\ UNCHANGED <<creds, told, moves>>
    /\ Lab /\ Quiet

\* Mutant: the wait for Wi-Fi ends without an answer.
WaitWifiBlindly ==
    /\ lab.at = "wifi"
    /\ Go(IF lab.stage \in {"final", "reconnect"} THEN "usb" ELSE "tosetup")
    /\ NoWorld /\ Lab /\ Quiet

\* wait_for_wifi_uid_at
WaitWifi ==
    /\ lab.at = "wifi"
    /\ mode[Cur] = "run"
    /\ Go(IF lab.stage \in {"final", "reconnect"} THEN "usb" ELSE "tosetup")
    /\ NoWorld /\ Lab /\ Quiet

AskForSetup ==
    /\ lab.at = "tosetup"
    /\ RequestSetup(Cur)
    /\ Go(IF lab.stage = "reconnect" THEN "setup" ELSE "back")
    /\ Lab /\ Quiet

Earned == IF lab.stage = "flash" THEN "flashed" ELSE "ran"

\* The Pico is seen in setup mode: the end of a cycle.
BackInSetup ==
    /\ lab.at \in {"back", "setup"} /\ lab.stage # "reconnect"
    /\ Reach(Cur)
    /\ lab' = AfterTurn([lab EXCEPT !.known = Knowing({Cur})])
    /\ Pass(Earned \in been[Cur])
    /\ NoWorld /\ Lab

\* wait_for_setup_or_wifi_uid finds it running, with the old or the new
\* firmware: it is asked again, once.
AskAgain ==
    /\ lab.at = "back"
    /\ mode[Cur] = "run"
    /\ RequestSetup(Cur)
    /\ Go("setup")
    /\ Lab /\ Quiet

\* reboot_setup_to_bootsel
RebootToBootsel ==
    /\ lab.at = "boot"
    /\ Reach(Cur)
    /\ Become({Cur}, "bootsel", {})
    /\ Go("drive")
    /\ UNCHANGED <<creds, told, moves>>
    /\ Lab /\ Quiet

\* wait_for_new_bootsel_mount
NewDrives == Drives \ lab.before

FlashNewDrive ==
    /\ lab.at = "drive"
    /\ \E q \in NewDrives : Become({q}, "reset", {"flashed"})
    /\ Go("back")
    /\ UNCHANGED <<creds, told, moves>>
    /\ Lab /\ Quiet

\* wait_for_usb_controller_ready: the end of the final check of a Pico.
ControllerReady ==
    /\ At("final", "usb")
    /\ mode[Cur] = "run"
    /\ lab' = AfterTurn([lab EXCEPT !.targets = @ \cup {Cur}])
    /\ Pass("ran" \in been[Cur])
    /\ NoWorld /\ Lab

\* Mutant: the error is not recorded.
TurnFailsQuietly ==
    /\ OneByOne /\ lab.at # "begin"
    /\ lab' = AfterTurn(lab)
    /\ NoWorld /\ Lab /\ Quiet

\* An error, or a wait that has run out: the next Pico's turn, with the probe
\* as it was.
TurnFails ==
    /\ OneByOne /\ lab.at # "begin"
    /\ lab' = AfterTurn(lab)
    /\ Fail
    /\ NoWorld /\ Lab

-----------------------------------------------------------------------------
(* All Picos at once: the other power backends.                            *)

AllFail ==
    /\ lab' = Following(lab)
    /\ Fail

\* The Picos of S lose power, whatever the command exits with.
CutPower ==
    /\ At("power", "begin") /\ opts.power = "external"
    /\ \E S \in SUBSET Picos :
           /\ mode' = [p \in Picos |-> IF p \in S THEN "off" ELSE mode[p]]
           /\ pad' = [p \in Picos |-> IF p \in S THEN 0 ELSE pad[p]]
           /\ been' = [p \in Picos |-> IF p \in S THEN {"off"} ELSE {}]
           /\ \/ (opts.cuts => lab.probes \subseteq S) /\ Go("absent") /\ Quiet
              \/ AllFail
    /\ UNCHANGED <<creds, device, told, moves>>
    /\ Lab

\* wait_for_setup_uids_absent: a port whose probe fails shows no Pico.
PowerIsOff ==
    /\ At("power", "absent")
    /\ \E seen \in Seen : seen \cap lab.probes = {}
    /\ Go("on")
    /\ NoWorld /\ Lab /\ Quiet

RestorePower ==
    /\ At("power", "on")
    /\ \E S \in SUBSET {p \in Picos : mode[p] = "off"} : Become(S, "reset", {})
    /\ \/ Go("return") /\ Quiet
       \/ AllFail
    /\ UNCHANGED <<creds, told, moves>>
    /\ Lab

\* wait_for_setup_uids, after power or after the PnP helper
AllReturned ==
    /\ At("power", "return")
    /\ lab.probes \in Seen
    /\ lab' = Following([lab EXCEPT !.known = Knowing(lab.probes)])
    /\ LET event == IF opts.power = "external" THEN "off" ELSE "taken" IN
       Pass(\A p \in lab.probes : event \in been[p])
    /\ NoWorld /\ Lab

AbsentOrReturnFails ==
    /\ lab.stage = "power" /\ lab.at \in {"absent", "return"}
    /\ AllFail
    /\ NoWorld /\ Lab

-----------------------------------------------------------------------------
(* The PnP helper: pnputil on every device, first as the user, then        *)
(* elevated.                                                               *)

\* The Picos whose devices it is given.
Given == IF lab.stage = "reconnect" THEN lab.targets ELSE lab.probes
Verb == IF opts.power = "restart" THEN "disabled" ELSE "removed"

\* pnp_instances_for_uids: as many instances as Picos.
ListDevices ==
    /\ \/ At("power", "begin") /\ opts.power \in {"restart", "remove"}
       \/ At("reconnect", "begin")
    /\ \A p \in Given :
           mode[p] = (IF lab.stage = "power" THEN "setup" ELSE "run")
           /\ device[p] # "removed"
    /\ been' = [p \in Picos |-> {}]
    /\ win' = [AtRest EXCEPT !.left = Given]
    /\ Go("take")
    /\ UNCHANGED <<mode, creds, device, pad, told, moves, opts>>
    /\ Quiet

ListFails ==
    /\ \/ At("power", "begin") /\ opts.power \in {"restart", "remove"}
       \/ At("reconnect", "begin")
    /\ AllFail
    /\ NoWorld /\ Lab

\* pnputil /disable-device, /remove-device, in the order of its list
TakeDevice ==
    /\ lab.at = "take"
    /\ \E p \in win.left :
           /\ device' = [device EXCEPT ![p] = Verb]
           /\ been' = [been EXCEPT ![p] = @ \cup {"taken"}]
           /\ win' = [win EXCEPT !.left = @ \ {p}, !.taken = @ \cup {p}]
           /\ stuck' = [stuck EXCEPT !.device = @ \ {p}]
    /\ UNCHANGED <<mode, creds, pad, told, moves, opts, lab, failed, hollow, wrong>>

\* The helper runs once more, elevated, or the step fails; the user may refuse.
Retry ==
    \/ /\ ~win.elevated
       /\ win' = [AtRest EXCEPT !.left = Given, !.elevated = TRUE]
       /\ Go("take")
       /\ UNCHANGED failed
    \/ /\ lab' = Following(lab)
       /\ failed' = TRUE
       /\ win' = AtRest

Enabled(S) == [p \in Picos |-> IF p \in S THEN "fine" ELSE device[p]]

\* pnputil is asked to bring back the devices of `asked`, and refuses it for
\* those of `refused`.
BroughtBack(asked, refused) ==
    stuck' = [stuck EXCEPT !.device = (@ \ asked) \cup refused]

\* Device p cannot be disabled, or is though pnputil's output tells of a
\* failure; those of `asked` are enabled again, as far as they can be.
Reenabled(p, asked) ==
    \E took \in SUBSET {p}, refused \in SUBSET asked :
        /\ device' = [q \in Picos |-> IF q \in asked \ refused THEN "fine"
                                      ELSE IF q \in took THEN "disabled"
                                      ELSE device[q]]
        /\ BroughtBack(asked, refused)

\* Mutant: only those before it are.
DisableFailsPlainly ==
    /\ lab.at = "take" /\ Verb = "disabled"
    /\ \E p \in win.left : Reenabled(p, win.taken)
    /\ Retry
    /\ UNCHANGED <<mode, creds, pad, told, moves, been, opts, hollow, wrong>>

\* run_pnp_disable_enable, when a device cannot be disabled: it and those
\* disabled before it are enabled.
DisableFails ==
    /\ lab.at = "take" /\ Verb = "disabled"
    /\ \E p \in win.left : Reenabled(p, win.taken \cup {p})
    /\ Retry
    /\ UNCHANGED <<mode, creds, pad, told, moves, been, opts, hollow, wrong>>

\* run_pnp_remove_rescan goes on to the scan; the device may be gone.
RemoveFails ==
    /\ lab.at = "take" /\ Verb = "removed"
    /\ \E p \in win.left :
           /\ device' \in {device, [device EXCEPT ![p] = "removed"]}
           /\ stuck' = [stuck EXCEPT !.device = @ \ {p}]
    /\ win' = [win EXCEPT !.left = {}, !.ok = FALSE]
    /\ UNCHANGED <<mode, creds, pad, told, moves, been, opts, lab, failed, hollow,
                   wrong>>

Return == IF lab.stage = "reconnect" THEN "rejoin" ELSE "return"

Rejoining == [lab EXCEPT !.at = Return, !.todo = Given]

EnableDevice ==
    /\ lab.at = "take" /\ win.left = {} /\ Verb = "disabled"
    /\ \E p \in win.taken :
           /\ device' = Enabled({p})
           /\ IF win.taken = {p}
              THEN lab' = Rejoining /\ win' = AtRest
              ELSE lab' = lab /\ win' = [win EXCEPT !.taken = @ \ {p}]
           /\ BroughtBack({p}, {})
    /\ UNCHANGED <<mode, creds, pad, told, moves, been, opts, failed, hollow, wrong>>

\* The first that fails ends it, be it enabled or not; the rest stay disabled.
EnableFails ==
    /\ lab.at = "take" /\ win.left = {} /\ Verb = "disabled"
    /\ \E p \in win.taken : device' \in {device, Enabled({p})}
    /\ BroughtBack(win.taken, win.taken)
    /\ Retry
    /\ UNCHANGED <<mode, creds, pad, told, moves, been, opts, hollow, wrong>>

Removed == {p \in Picos : device[p] = "removed"}

\* pnputil /scan-devices, whether or not a removal failed
Scan ==
    /\ lab.at = "take" /\ win.left = {} /\ Verb = "removed"
    /\ device' = Enabled(Removed)
    /\ BroughtBack(Removed, {})
    /\ IF win.ok
       THEN lab' = Rejoining /\ win' = AtRest /\ UNCHANGED failed
       ELSE Retry
    /\ UNCHANGED <<mode, creds, pad, told, moves, been, opts, hollow, wrong>>

ScanFails ==
    /\ lab.at = "take" /\ win.left = {} /\ Verb = "removed"
    /\ \E found \in SUBSET Removed : device' = Enabled(found)
    /\ BroughtBack(Removed, Removed)
    /\ Retry
    /\ UNCHANGED <<mode, creds, pad, told, moves, been, opts, hollow, wrong>>

-----------------------------------------------------------------------------
(* run_run_mode_pnp_remove_cycle, once the devices are back.               *)

\* All answer on Wi-Fi; then each is taken to setup and back.
Rejoined ==
    /\ At("reconnect", "rejoin")
    /\ IF lab.todo # {}
       THEN /\ mode[Least(lab.todo)] = "run"
            /\ lab' = [lab EXCEPT !.todo = @ \ {Least(lab.todo)}]
       ELSE lab' = [lab EXCEPT !.at = "tosetup", !.todo = lab.targets,
                               !.cur = Least(lab.targets)]
    /\ NoWorld /\ Lab /\ Quiet

SetupAgain ==
    /\ At("reconnect", "setup")
    /\ Reach(Cur)
    /\ Go("torun")
    /\ NoWorld /\ Lab /\ Quiet

Reconnected ==
    /\ At("reconnect", "usb")
    /\ mode[Cur] = "run"
    /\ LET left == lab.todo \ {Cur} IN
       IF left # {}
       THEN /\ lab' = [lab EXCEPT !.at = "tosetup", !.todo = left,
                                  !.cur = Least(left)]
            /\ Quiet
       ELSE /\ lab.targets \subseteq Slots
            /\ lab' = Following(lab)
            /\ Pass(\A p \in lab.targets : {"taken", "ran"} \subseteq been[p])
    /\ NoWorld /\ Lab

ReconnectFails ==
    /\ lab.stage = "reconnect" /\ lab.at \notin {"begin", "take"}
    /\ AllFail
    /\ NoWorld /\ Lab

-----------------------------------------------------------------------------
(* Signal checks.                                                          *)

Signalling == lab.stage \in {"signals", "again"}

\* Mutant: every Pico is sent the same state.
SignalStateOne(p) == 1

\* lab_signal_state of the place of p among the targets
SignalState(p) ==
    (Cardinality({q \in lab.targets : q < p}) % Signals) + 1

\* Bursts that could be sent, to the Picos of S; a burst reaches a running Pico
\* or is lost.
Send(S, signal) ==
    /\ told' = [p \in Picos |-> IF p \in S THEN signal ELSE told[p]]
    /\ \E got \in SUBSET (S \cap Running) :
           pad' = [p \in Picos |-> IF p \in got THEN signal ELSE pad[p]]
    /\ UNCHANGED <<mode, creds, device, moves>>

NeutralizeTargets ==
    /\ Signalling /\ lab.at = "begin"
    /\ \E sent \in SUBSET lab.targets : Send(sent, 0)
    /\ been' = [p \in Picos |-> {}]
    /\ lab' = IF lab.targets = {} THEN Following(lab)
              ELSE [lab EXCEPT !.at = "send", !.todo = lab.targets]
    /\ Lab /\ Quiet

\* The next check, after that of `p`.
NextCheck(p) ==
    IF lab.todo = {p} THEN Following(lab)
    ELSE [lab EXCEPT !.at = "send", !.todo = @ \ {p}, !.cur = Nobody,
                         !.found = Nobody]

Checking(p, at) == [lab EXCEPT !.at = at, !.cur = p, !.found = Nobody]

SendSignal ==
    /\ Signalling /\ lab.at = "send"
    /\ LET p == Least(lab.todo) IN
       /\ Send({p}, SignalState(p))
       /\ lab' = Checking(p, "match")
       /\ stuck' = [stuck EXCEPT !.pad = @ \ {p}]
    /\ UNCHANGED <<been, failed, hollow, wrong>>
    /\ Lab

\* The first packet cannot be sent, or there is no socket.
SendFails ==
    /\ Signalling /\ lab.at = "send"
    /\ LET p == Least(lab.todo) IN
       \/ lab' = Checking(p, "release") /\ Quiet
       \/ lab' = NextCheck(p) /\ Fail
    /\ NoWorld /\ Lab

\* send_until_xinput_match sends on.
SendAgain ==
    /\ Signalling /\ lab.at = "match"
    /\ Send({Cur}, SignalState(Cur))
    /\ UNCHANGED <<been, lab>>
    /\ Lab /\ Quiet

\* slots_matching_state: exactly one shows the state.
SlotMatches ==
    /\ Signalling /\ lab.at = "match"
    /\ \E q \in Slots :
           /\ {r \in Slots : pad[r] = SignalState(Cur)} = {q}
           /\ lab' = [lab EXCEPT !.at = "release", !.found = q]
           /\ wrong' = (wrong \/ q # Cur)
    /\ UNCHANGED <<failed, hollow, stuck>>
    /\ NoWorld /\ Lab

\* Mutant: an error ends the check before the pad is released.
NoSlotMatchesReturns ==
    /\ Signalling /\ lab.at = "match"
    /\ lab' = NextCheck(Cur)
    /\ Fail
    /\ NoWorld /\ Lab

\* No slot for five seconds, more than one, or a packet that cannot be sent: the
\* pad is released still.
NoSlotMatches ==
    /\ Signalling /\ lab.at = "match"
    /\ lab' = [lab EXCEPT !.at = "release", !.found = Nobody]
    /\ NoWorld /\ Lab /\ Quiet

\* An error after the first packet ends the check.
Release ==
    /\ Signalling /\ lab.at = "release"
    /\ Send({Cur}, 0)
    /\ \/ Go("settle") /\ Quiet
       \/ lab' = NextCheck(Cur) /\ Fail
    /\ UNCHANGED been
    /\ Lab

\* At the first packet, nothing is sent.
ReleaseFails ==
    /\ Signalling /\ lab.at = "release"
    /\ lab' = NextCheck(Cur)
    /\ failed' = TRUE
    /\ stuck' = [stuck EXCEPT !.pad = @ \cup {Cur}]
    /\ UNCHANGED <<hollow, wrong>>
    /\ NoWorld /\ Lab

\* wait_for_slot_state
Settles ==
    /\ Signalling /\ lab.at = "settle"
    /\ \/ lab.found \in Slots /\ pad[lab.found] = 0 /\ Quiet
       \/ Fail
    /\ lab' = NextCheck(Cur)
    /\ NoWorld /\ Lab

-----------------------------------------------------------------------------

World ==
    /\ lab.stage # "done"
    /\ \E p \in Picos : Boot(p) \/ Join(p) \/ Disturb(p) \/ PadSettles(p)
    /\ UNCHANGED <<opts, lab, win, failed, hollow, wrong, stuck>>

Find == StatusSnapshot \/ RecoverInitial \/ SetupSelected \/ WifiSelected
        \/ Normalized \/ NormalizeOne \/ NormalizeEnds
One == Take \/ SkipFlash \/ WifiReady \/ RebootToRun \/ WaitWifi \/ AskForSetup
       \/ BackInSetup \/ AskAgain \/ RebootToBootsel \/ FlashNewDrive
       \/ ControllerReady \/ TurnFails
All == CutPower \/ PowerIsOff \/ RestorePower \/ AllReturned
       \/ AbsentOrReturnFails
Pnp == ListDevices \/ ListFails \/ TakeDevice \/ DisableFails \/ RemoveFails
       \/ EnableDevice \/ EnableFails \/ Scan \/ ScanFails
Reconnect == Rejoined \/ SetupAgain \/ Reconnected \/ ReconnectFails
Signal == NeutralizeTargets \/ SendSignal \/ SendFails \/ SendAgain \/ SlotMatches
          \/ NoSlotMatches \/ Release \/ ReleaseFails \/ Settles

Next == World \/ Find \/ One \/ All \/ Pnp \/ Reconnect \/ Signal

Spec == Init /\ [][Next]_vars

-----------------------------------------------------------------------------

\* Every variable has its type, and the harness works on a Pico it probed.
TypeOK ==
    /\ WorldTypeOK
    /\ opts \in Options
    /\ lab.cycle \in 1 .. Cycles
    /\ lab.cur \in Picos \cup {Nobody} /\ lab.found \in Picos \cup {Nobody}
    /\ lab.probes \subseteq Selected(Picos)
    /\ lab.targets \subseteq lab.probes
    /\ lab.known \subseteq lab.probes
    /\ OneByOne /\ lab.at # "begin" => Cur \in lab.todo /\ Cur \in lab.probes
    /\ win.taken \cap win.left = {}
    /\ {failed, wrong} \subseteq BOOLEAN /\ hollow \subseteq {"step", "cut"}
    /\ stuck \in [device : SUBSET Picos, pad : SUBSET Picos]

\* A pass of the report is earned: the Pico ran since the step began, was
\* flashed, its device was taken from Windows or it lost power, whatever resets,
\* stays away or answers late meanwhile (cmd_lab.rs:345-597, 648-812).  Only a
\* power command that exits with 0 for nothing makes a pass that is not.
PassIsEarned == hollow \subseteq (IF opts.cuts THEN {} ELSE {"cut"})

\* What the report says of the external backend, that it "cut and restored" power
\* (cmd_lab.rs:497): does not hold of such a command (README, section 5).
CutIsReal == "cut" \notin hollow

\* When the run is over no device is left disabled or removed in Windows but one
\* that pnputil refused to bring back: not by a device that could not be
\* disabled, or was and told of a failure, nor by a second, elevated attempt
\* (cmd_lab/pnp.rs:164-244).
NothingLeftDisabled ==
    lab.stage = "done" =>
        \A p \in Picos : device[p] # "fine" => p \in stuck.device

\* A signal check never takes another Pico's slot for that of its own, though
\* the release of the pad before it may have been lost (cmd_lab.rs:814-847,
\* 1097-1128).
SlotIsItsOwn == ~wrong

\* Outside its own check no Pico's last word from the bench is a held pad, unless
\* not one packet of its release could be sent: a check that finds no slot, or
\* two, or fails to send, releases it still (cmd_lab.rs:1069-1095, 1130-1146).
NoPadLeftHeld ==
    \A p \in Picos : told[p] # 0 =>
        \/ Signalling /\ Cur = p /\ lab.at \in {"match", "release"}
        \/ p \in stuck.pad

\* A full run without a failed step leaves every Pico it tested running
\* (cmd_lab.rs:148-191, 692-736).
FullRunEndsRunning ==
    lab.stage = "done" /\ opts.scenario = "full" /\ ~failed /\ moves = 0 =>
        lab.probes # {} /\ \A p \in lab.probes : mode[p] = "run"
=============================================================================
