------------------------------- MODULE SetupFlows -------------------------------
(***************************************************************************)
(* The commands that take a Pico from a box to a running adapter and back: *)
(* the setup wizard (cmd_setup.rs), configure-wifi, the recovery that      *)
(* every streaming command begins with (cmd_run.rs), the mode switches of  *)
(* the debug menu (cmd_debug.rs) and flashing over USB (cmd_flash.rs), run *)
(* by several processes of one PC that share its Picos and config.toml.    *)
(*                                                                         *)
(* A step is what a command does between two waits: a round of a polling   *)
(* loop, an answer of the user, an exchange over USB serial.  Any exchange *)
(* or wait may fail, and a process may be killed between any two steps.    *)
(*                                                                         *)
(* Named assumptions: listing the COM ports does not fail; every flow runs *)
(* a bridge whose protocol version fits.  Old Picos refuse pairing keys.   *)
(***************************************************************************)
EXTENDS PicoWorld, FiniteSets

CONSTANTS
    FlowsOf,     \* [Processes -> sets of the flows they run]
    Old          \* Picos with firmware from before pairing

ASSUME SetupFlowsAssumption ==
    /\ Old \subseteq Picos
    /\ MaxMoves \in Nat
    /\ Nobody \notin Picos \cup Processes
    /\ Torn \notin Configs

VARIABLES
    my,        \* what each process is doing
    \* History.
    strayBounce,   \* a bounce was reported though no port had shown up
    strayName      \* a name given to another Pico than the one set up

vars == <<worldVars, fileVars, my, strayBounce, strayName>>

Flows == {"setup", "configure", "recover", "to_wifi", "to_usb", "to_bootsel",
          "update", "flash"}

\* port: the Pico worked on; seen: Picos heard, or ports listed, before;
\* todo: Picos still to be done; flag: the port has been gone, the reboot has
\* been requested, or the key was made here; found: the Pico that answered.
Idle == [flow |-> "none", at |-> "idle", then |-> "idle", port |-> Nobody,
         seen |-> {}, todo |-> {}, flag |-> FALSE, found |-> Nobody]

Init ==
    /\ WorldInit
    /\ FileInit
    /\ my = [c \in Processes |-> Idle]
    /\ strayBounce = FALSE
    /\ strayName = FALSE

-----------------------------------------------------------------------------

At(c, flow, at) == my[c].flow = flow /\ my[c].at = at
Go(c, at) == my' = [my EXCEPT ![c].at = at]
Port(c) == my[c].port
Holds(c) == Port(c) # Nobody /\ holder[Port(c)] = c
Next1(S) == CHOOSE p \in S : \A q \in S : p <= q

Released(c) == [p \in Picos |-> IF holder[p] = c THEN Nobody ELSE holder[p]]

history == <<strayBounce, strayName>>
NoWorld == UNCHANGED worldVars
NoFile == UNCHANGED fileVars
Quiet == UNCHANGED history

\* The command returns, with or without an error: everything is dropped.
End(c) ==
    /\ my' = [my EXCEPT ![c] = Idle]
    /\ holder' = Released(c)
    /\ UNCHANGED <<mode, creds, key, shown, moves, since>>

\* A wait that runs out, an exchange that fails, a prompt that is left.
\* A recovery goes through all its ports; killing it skips the rest.
GiveUp(c) ==
    /\ my[c].at \notin {"idle", "fill"}
    /\ ~At(c, "recover", "each")
    /\ End(c)
    /\ Drop(c, FALSE)
    /\ Quiet

\* Ctrl+C, or the window is closed: also between the halves of a save.
Kill(c) ==
    /\ my[c].at = "fill"
    /\ End(c)
    /\ Drop(c, TRUE)
    /\ Quiet

Start(c, f) ==
    /\ my[c].at = "idle"
    /\ f \in FlowsOf[c]
    /\ f # "recover" => moves < MaxMoves
    /\ moves' = IF f = "recover" THEN moves ELSE moves + 1
    /\ my' = [my EXCEPT ![c] = [Idle EXCEPT !.flow = f, !.at = "begin"]]
    /\ UNCHANGED <<mode, creds, key, shown, holder, since>>
    /\ NoFile /\ Quiet

\* config::save in two halves, then on to `then`.
SaveOpen(c) ==
    /\ my[c].at = "save"
    /\ Truncate(c)
    /\ Go(c, "fill")
    /\ NoWorld /\ Quiet

SaveFill(c) ==
    /\ my[c].at = "fill"
    /\ Fill(c)
    /\ IF my[c].then = "idle"
       THEN my' = [my EXCEPT ![c] = Idle] /\ holder' = Released(c)
       ELSE Go(c, my[c].then) /\ UNCHANGED holder
    /\ UNCHANGED <<mode, creds, key, shown, moves, since>>
    /\ Quiet

-----------------------------------------------------------------------------
(* Finding the Pico.                                                       *)

\* discover_run_mode_uid_baseline: what answers in two seconds; if discovery
\* fails no Pico will count as new.
Baselines == (SUBSET Running) \cup {Picos}

\* stage_flash up to the drive.
Baseline(c) ==
    /\ At(c, "setup", "begin")
    /\ \E heard \in Baselines :
           my' = [my EXCEPT ![c].at = "flash", ![c].seen = heard]
    /\ NoWorld /\ NoFile /\ Quiet

\* find_bootsel_mounts, visible_bootsel_mounts
Mounts == {p \in Picos : mode[p] = "bootsel"}

\* The user plugs a Pico in with BOOTSEL held, as the command asks.
HoldBootsel(c) ==
    /\ \/ At(c, "setup", "flash")
       \/ At(c, "flash", "each") /\ my[c].todo = {} /\ my[c].seen = {}
    /\ Mounts = {}
    /\ \E p \in Picos : Becomes(p, "bootsel")
    /\ UNCHANGED <<creds, key, shown, moves, my>>
    /\ NoFile /\ Quiet

\* flash_uf2_to_mount of one drive; then last_uf2 is saved.
FlashDrive(c) ==
    /\ my[c].flow \in {"setup", "flash", "update"} /\ my[c].at = "flash"
    /\ \E p \in Mounts :
           /\ Becomes(p, "reset")
           /\ \/ my[c].flow = "setup"
              \/ p \in my[c].todo
           /\ my' = [my EXCEPT ![c].at = "save", ![c].todo = @ \ {p},
                        ![c].then = IF my[c].flow = "setup" THEN "wait"
                                    ELSE IF my[c].todo \subseteq {p} THEN "idle"
                                    ELSE "flash"]
    /\ Load(c, Read)
    /\ UNCHANGED <<creds, key, shown, moves>>
    /\ Quiet

\* One round of wait_for_setup_cdc, wait_for_setup_port.
PortFound(c) ==
    /\ \/ At(c, "setup", "wait")
       \/ my[c].flow = "configure" /\ my[c].at \in {"begin", "wait"}
    /\ shown # {}
    /\ my' = [my EXCEPT ![c].at = "open", ![c].port = FirstPort,
                        ![c].flag = FALSE, ![c].seen = {}]
    /\ NoWorld /\ NoFile /\ Quiet

\* request_reboot_to_setup: eight datagrams, all of which may be lost.
RequestSetup(p) ==
    /\ \/ CanCommand(p) /\ Becomes(p, "setup")
       \/ UNCHANGED <<mode, holder, since>>
    /\ UNCHANGED <<creds, key, shown, moves>>

\* find_reboot_to_setup_candidate: nobody unless there is a single newcomer.
Candidates(heard, baseline) ==
    LET new == heard \ baseline IN IF Cardinality(new) = 1 THEN new ELSE {}

\* A round of wait_for_setup_cdc without a port; the request is made once.
ProbeNewcomer(c) ==
    /\ At(c, "setup", "wait")
    /\ shown = {} /\ ~my[c].flag
    /\ \E heard \in SUBSET Running :
           \E p \in Candidates(heard, my[c].seen) : RequestSetup(p)
    /\ my' = [my EXCEPT ![c].flag = TRUE]
    /\ NoFile /\ Quiet

\* handle_running_picos, when the user wants other credentials.
RebootRunning(c) ==
    /\ At(c, "configure", "begin")
    /\ shown = {}
    /\ \E p \in Running : RequestSetup(p)
    /\ Go(c, "wait")
    /\ NoFile /\ Quiet

-----------------------------------------------------------------------------
(* Over USB serial.                                                        *)

\* open_named and HELLO.  configure-wifi prompts before, the wizard after.
Open(c) ==
    /\ my[c].at = "open"
    /\ mode[Port(c)] = "setup" /\ Port(c) \in shown
    /\ holder[Port(c)] = Nobody
    /\ holder' = [holder EXCEPT ![Port(c)] = c]
    /\ Go(c, "opened")
    /\ UNCHANGED <<mode, creds, key, shown, moves, since>>
    /\ NoFile /\ Quiet

KeepCreds(c) ==
    /\ At(c, "setup", "opened") /\ Holds(c)
    /\ creds[Port(c)] # "none"
    /\ Go(c, "pair")
    /\ NoWorld /\ NoFile /\ Quiet

\* prompt_credentials: of the right length, and right or wrong.
Typed == {"good", "bad"}

StoreWifi(c) ==
    /\ my[c].at = "opened" /\ Holds(c)
    /\ \E cr \in Typed : creds' = [creds EXCEPT ![Port(c)] = cr]
    /\ UNCHANGED <<mode, key, shown, holder, moves, since>>
    /\ NoFile /\ Quiet

WizardSetWifi(c) ==
    /\ my[c].flow = "setup"
    /\ StoreWifi(c)
    /\ Go(c, "pair")

\* configure_setup_port: who is on Wi-Fi already is asked first.
ConfigureSetWifi(c) ==
    /\ my[c].flow = "configure"
    /\ StoreWifi(c)
    /\ \E heard \in SUBSET Running :
           my' = [my EXCEPT ![c].at = "pair", ![c].seen = heard]

\* udp_auth::provision up to SET_AUTH_KEY: the key on file is sent, a new one
\* is saved first.
PairKnown(c) ==
    /\ my[c].at = "pair" /\ Holds(c)
    /\ Read.keys[Port(c)] # 0
    /\ Load(c, Read)
    /\ my' = [my EXCEPT ![c].at = "send", ![c].flag = FALSE]
    /\ NoWorld /\ Quiet

\* Mutant: the new key is saved after it has been sent.
PairNewSavesLast(c) ==
    /\ my[c].at = "pair" /\ Holds(c)
    /\ Read.keys[Port(c)] = 0
    /\ made < MaxKeys
    /\ made' = made + 1
    /\ copy' = [copy EXCEPT ![c] = SetKey(Read, Port(c), made')]
    /\ Note(fresh \cup {c}, file = Torn)
    /\ key' = [key EXCEPT ![Port(c)] = IF Port(c) \in Old THEN @ ELSE made']
    /\ my' = [my EXCEPT ![c].at = "save", ![c].then = "reboot", ![c].flag = TRUE]
    /\ UNCHANGED <<mode, creds, shown, holder, moves, since, file>>
    /\ Quiet

PairNew(c) ==
    /\ my[c].at = "pair" /\ Holds(c)
    /\ Read.keys[Port(c)] = 0
    /\ made < MaxKeys
    /\ made' = made + 1
    /\ copy' = [copy EXCEPT ![c] = SetKey(Read, Port(c), made')]
    /\ Note(fresh \cup {c}, file = Torn)
    /\ my' = [my EXCEPT ![c].at = "save", ![c].then = "send", ![c].flag = TRUE]
    /\ UNCHANGED file
    /\ NoWorld /\ Quiet

SendKey(c) ==
    /\ my[c].at = "send" /\ Holds(c)
    /\ Port(c) \notin Old
    /\ key' = [key EXCEPT ![Port(c)] = copy[c].keys[Port(c)]]
    /\ Go(c, "reboot")
    /\ UNCHANGED <<mode, creds, shown, holder, moves, since>>
    /\ NoFile /\ Quiet

\* Old firmware does not know the command: a key made for it is taken back,
\* by saving the copy loaded before the first save.
KeyRefused(c) ==
    /\ my[c].at = "send" /\ Holds(c)
    /\ Port(c) \in Old
    /\ IF my[c].flag
       THEN /\ copy' = [copy EXCEPT ![c] = ClearKey(@, Port(c))]
            /\ my' = [my EXCEPT ![c].at = "save", ![c].then = "reboot"]
       ELSE Go(c, "reboot") /\ UNCHANGED copy
    /\ UNCHANGED <<file, made, fresh, clash>>
    /\ NoWorld /\ Quiet

\* reboot_to_run: the Pico reboots, or the write meets a dead handle, which
\* counts as rebooted.
RebootToRun(c) ==
    /\ my[c].at = "reboot"
    /\ mode' = IF Holds(c) THEN [mode EXCEPT ![Port(c)] = "reset"] ELSE mode
    /\ holder' = Released(c)
    /\ since' = since \ {c}
    /\ my' = [my EXCEPT ![c].flag = FALSE,
                  ![c].at = IF my[c].flow = "setup" THEN "lan" ELSE "confirm"]
    /\ UNCHANGED <<creds, key, shown, moves>>
    /\ NoFile /\ Quiet

-----------------------------------------------------------------------------
(* After the reboot.                                                       *)

\* stage_lan_discovery: the first Pico that answers.
LanAnswer(c) ==
    /\ At(c, "setup", "lan")
    /\ \E p \in Running : my' = [my EXCEPT ![c].at = "name", ![c].found = p]
    /\ NoWorld /\ NoFile /\ Quiet

\* Nobody did in 60 s: the user types an address, which a Pico may answer,
\* or, having left it blank, has the Pico's log read over USB and fails.
LanTimeout(c) ==
    /\ At(c, "setup", "lan")
    /\ Go(c, "address")
    /\ NoWorld /\ NoFile /\ Quiet

ManualAddress(c) ==
    /\ At(c, "setup", "address")
    /\ \E p \in Running : my' = [my EXCEPT ![c].at = "name", ![c].found = p]
    /\ NoWorld /\ NoFile /\ Quiet

DiagRecovery(c) ==
    /\ At(c, "setup", "address")
    /\ End(c)
    /\ Drop(c, FALSE)
    /\ Quiet

\* The end of the wizard's run: the name, blank or not, and the save.
NamePico(c) ==
    /\ At(c, "setup", "name")
    /\ \E named \in BOOLEAN :
           /\ Load(c, Remember(Read, my[c].found, named))
           /\ strayName' = (strayName \/ (named /\ my[c].found # Port(c)))
    /\ my' = [my EXCEPT ![c].at = "save", ![c].then = "idle"]
    /\ NoWorld /\ UNCHANGED strayBounce

\* A round of print_discovered_pico_ips that hears others than before.
Confirmed(c) ==
    /\ At(c, "configure", "confirm")
    /\ \E heard \in SUBSET Running : heard # {} /\ heard # my[c].seen
    /\ End(c)
    /\ Drop(c, FALSE)
    /\ Quiet

\* A round of it that does not, and looks for a setup port.
NoPort(c) ==
    /\ At(c, "configure", "confirm")
    /\ shown = {}
    /\ my' = [my EXCEPT ![c].flag = TRUE]
    /\ NoWorld /\ NoFile /\ Quiet

\* Mutant: the port that lingers is taken for a bounce.
ReportBounceAtOnce(c) ==
    /\ At(c, "configure", "confirm")
    /\ shown # {}
    /\ strayBounce' = (strayBounce \/ c \notin since)
    /\ End(c)
    /\ Drop(c, FALSE)
    /\ UNCHANGED strayName

ReportBounce(c) ==
    /\ At(c, "configure", "confirm")
    /\ shown # {} /\ my[c].flag
    /\ strayBounce' = (strayBounce \/ c \notin since)
    /\ End(c)
    /\ Drop(c, FALSE)
    /\ UNCHANGED strayName

-----------------------------------------------------------------------------
(* Many Picos at once.                                                     *)

\* resolve_setup_ports: all of them, or those the user names.
PickedPorts == (SUBSET shown) \ {{}}

\* discover_picos_with_auto_recovery: who is on Wi-Fi, then every setup port.
RecoverPorts(c) ==
    /\ At(c, "recover", "begin")
    /\ shown # {}
    /\ \E heard \in SUBSET Running :
           my' = [my EXCEPT ![c].at = "each", ![c].todo = shown,
                            ![c].seen = heard]
    /\ NoWorld /\ NoFile /\ Quiet

\* switch_setup_ports_to_wifi; reboot_setup_picos_to_bootsel;
\* switch_setup_ports_to_bootsel_collect, which the update of one Pico uses
Ports(c) ==
    /\ my[c].flow \in {"to_wifi", "to_bootsel", "update", "flash"} /\ my[c].at = "begin"
    /\ \E picked \in PickedPorts :
       \E before \in CASE my[c].flow = "to_wifi" -> SUBSET Running
                      [] my[c].flow = "flash" -> {{}}
                      [] OTHER -> {Mounts} :
           /\ my[c].flow = "update" => Cardinality(picked) = 1
           /\ my' = [my EXCEPT ![c].at = "each", ![c].todo = picked,
                               ![c].seen = before]
    /\ NoWorld /\ NoFile /\ Quiet

Reachable(p) == mode[p] = "setup" /\ p \in shown /\ holder[p] = Nobody

Done(c, p, at) ==
    my' = [my EXCEPT ![c].todo = @ \ {p},
                     ![c].at = IF my[c].todo = {p} THEN at ELSE "each"]

\* Open, HELLO, self-test and reboot, with the port held throughout.
RunPort(c, p) ==
    /\ my[c].at = "each" /\ p = Next1(my[c].todo)
    /\ Reachable(p) /\ creds[p] # "none"
    /\ Becomes(p, "reset")
    /\ Done(c, p, "after")
    /\ UNCHANGED <<creds, key, shown, moves>>
    /\ NoFile /\ Quiet

\* setup_port_reboot_to_run
RecoverPort(c, p) == my[c].flow = "recover" /\ RunPort(c, p)

\* reboot_setup_port_to_wifi
WifiPort(c, p) == my[c].flow = "to_wifi" /\ RunPort(c, p)

\* Mutant: as in the other loops, the first error ends the command.
SkipPortAborts(c) ==
    /\ At(c, "recover", "each")
    /\ ~(Reachable(Next1(my[c].todo)) /\ creds[Next1(my[c].todo)] # "none")
    /\ End(c)
    /\ Drop(c, FALSE)
    /\ Quiet

\* recover_setup_usb_to_wifi counts a port that fails as blocked and goes on;
\* the other commands return.
SkipPort(c) ==
    /\ At(c, "recover", "each")
    /\ Done(c, Next1(my[c].todo), "after")
    /\ NoWorld /\ NoFile /\ Quiet

\* wait_for_wifi_after_recovery: somebody joined who was not there.
Rejoined(c) ==
    /\ At(c, "recover", "after")
    /\ \E heard \in SUBSET Running : heard \ my[c].seen # {}
    /\ End(c)
    /\ Drop(c, FALSE)
    /\ Quiet

\* wait_for_wifi_picos_after: others answer than before.
WifiAfter(c) ==
    /\ At(c, "to_wifi", "after")
    /\ \E heard \in SUBSET Running : heard # {} /\ heard # my[c].seen
    /\ End(c)
    /\ Drop(c, FALSE)
    /\ Quiet

\* reboot_setup_port_to_bootsel; a flash counts the drives it is to wait for
BootselPort(c) ==
    /\ my[c].flow \in {"to_bootsel", "update", "flash"} /\ my[c].at = "each"
    /\ my[c].todo # {}
    /\ LET p == Next1(my[c].todo) IN
       /\ Reachable(p)
       /\ Becomes(p, "bootsel")
       /\ my' = [my EXCEPT ![c].todo = @ \ {p},
                           ![c].seen = IF my[c].flow = "flash" THEN @ \cup {p} ELSE @]
    /\ UNCHANGED <<creds, key, shown, moves>>
    /\ NoFile /\ Quiet

\* flash without --from-usb, and what the guided update falls back to: the user
\* is to bring one drive.
FlashByHand(c) ==
    /\ my[c].flow = "flash" /\ my[c].at \in {"begin", "each"}
    /\ my' = [my EXCEPT ![c].at = "each", ![c].todo = {}, ![c].seen = {}]
    /\ NoWorld /\ NoFile /\ Quiet

Flash(c, drives) ==
    /\ my' = [my EXCEPT ![c].at = "flash", ![c].todo = drives, ![c].seen = {}]
    /\ NoWorld /\ NoFile /\ Quiet

\* wait_for_bootsel_mounts: at least as many drives as were asked for.
Enough(c) == Mounts # {} /\ Cardinality(Mounts) >= Cardinality(my[c].seen)

\* flash_all_visible_bootsel
FlashAll(c) ==
    /\ At(c, "flash", "each") /\ my[c].todo = {} /\ Enough(c)
    /\ Flash(c, Mounts)

\* flash_one_visible_bootsel: the first drive, whosever it is.
FlashOne(c) ==
    /\ At(c, "flash", "each") /\ my[c].todo = {} /\ Cardinality(my[c].seen) <= 1
    /\ Mounts # {}
    /\ Flash(c, {Next1(Mounts)})

\* wait_for_bootsel_mounts_after
MountsAfter(c) == Mounts \ my[c].seen

\* switch_setup_port_to_bootsel_target
BootselEnds(c) ==
    /\ At(c, "to_bootsel", "each") /\ my[c].todo = {}
    /\ MountsAfter(c) # {}
    /\ End(c)
    /\ Drop(c, FALSE)
    /\ Quiet

\* update_setup_usb_firmware: the new drive, or the one the user picks.
UpdateDrive(c) ==
    /\ At(c, "update", "each") /\ my[c].todo = {}
    /\ \E p \in MountsAfter(c) : Flash(c, {p})

\* resolve_wifi_targets: all that answer, or those the user picks.
PickedTargets == (SUBSET Running) \ {{}}

\* switch_wifi_targets_to_usb_debug
Targets(c) ==
    /\ At(c, "to_usb", "begin")
    /\ \E heard \in PickedTargets :
           my' = [my EXCEPT ![c].at = "each", ![c].todo = heard,
                            ![c].seen = shown]
    /\ NoWorld /\ NoFile /\ Quiet

AskTarget(c) ==
    /\ At(c, "to_usb", "each")
    /\ RequestSetup(Next1(my[c].todo))
    /\ Done(c, Next1(my[c].todo), "after")
    /\ NoFile /\ Quiet

\* wait_for_setup_ports_after
PortsAfter(c) ==
    /\ At(c, "to_usb", "after")
    /\ shown # {}
    /\ shown # my[c].seen \/ my[c].seen = {}
    /\ End(c)
    /\ Drop(c, FALSE)
    /\ Quiet

-----------------------------------------------------------------------------

World ==
    /\ \E p \in Picos :
           Boot(p) \/ Join(p) \/ PortAppears(p) \/ PortGone(p) \/ Disturb(p)
    /\ UNCHANGED <<my, history>>

Find(c) ==
    Baseline(c) \/ HoldBootsel(c) \/ FlashDrive(c) \/ PortFound(c)
    \/ ProbeNewcomer(c) \/ RebootRunning(c)

Serial(c) ==
    Open(c) \/ KeepCreds(c) \/ WizardSetWifi(c) \/ ConfigureSetWifi(c)
    \/ PairKnown(c) \/ PairNew(c) \/ SendKey(c) \/ KeyRefused(c)
    \/ RebootToRun(c)

After(c) ==
    LanAnswer(c) \/ LanTimeout(c) \/ ManualAddress(c) \/ DiagRecovery(c)
    \/ NamePico(c) \/ Confirmed(c) \/ NoPort(c) \/ ReportBounce(c)

Many(c) ==
    \/ RecoverPorts(c) \/ Ports(c) \/ SkipPort(c) \/ Rejoined(c) \/ WifiAfter(c)
    \/ \E p \in Picos : RecoverPort(c, p) \/ WifiPort(c, p)
    \/ BootselPort(c) \/ FlashByHand(c) \/ FlashAll(c) \/ FlashOne(c)
    \/ BootselEnds(c) \/ UpdateDrive(c)
    \/ Targets(c) \/ AskTarget(c) \/ PortsAfter(c)

Next ==
    \/ World
    \/ \E c \in Processes :
           \/ \E f \in Flows : Start(c, f)
           \/ GiveUp(c) \/ Kill(c) \/ SaveOpen(c) \/ SaveFill(c)
           \/ Find(c) \/ Serial(c) \/ After(c) \/ Many(c)

\* What Windows and the Picos do, they do; a wait ends; a user of a Pico that
\* does not answer runs the bridge again, and not every attempt at a port
\* fails.
Fairness ==
    /\ \A p \in Picos :
           /\ WF_vars(Boot(p) /\ UNCHANGED <<my, history>>)
           /\ WF_vars(Join(p) /\ UNCHANGED <<my, history>>)
           /\ WF_vars(PortAppears(p) /\ UNCHANGED <<my, history>>)
           /\ WF_vars(PortGone(p) /\ UNCHANGED <<my, history>>)
    /\ \A c \in Processes :
           /\ WF_vars(SaveFill(c))
           /\ WF_vars(GiveUp(c))
           /\ "recover" \in FlowsOf[c] =>
                  /\ WF_vars(Start(c, "recover"))
                  /\ SF_vars(RecoverPorts(c))
                  /\ \A p \in Picos : SF_vars(RecoverPort(c, p))
                  /\ WF_vars(SkipPort(c))

Spec == Init /\ [][Next]_vars /\ Fairness

-----------------------------------------------------------------------------

Steps == {"idle", "begin", "flash", "wait", "open", "opened", "pair", "send",
          "save", "fill", "reboot", "lan", "name", "address", "confirm", "each", "after"}

\* Every variable has its type, and a flow that holds a port is at a step that
\* uses it.
TypeOK ==
    /\ WorldTypeOK
    /\ FileTypeOK
    /\ strayBounce \in BOOLEAN
    /\ strayName \in BOOLEAN
    /\ \A c \in Processes :
           /\ my[c].flow \in Flows \cup {"none"}
           /\ my[c].at \in Steps
           /\ my[c].then \in Steps
           /\ my[c].port \in Picos \cup {Nobody}
           /\ my[c].seen \subseteq Picos
           /\ my[c].todo \subseteq Picos
           /\ my[c].flag \in BOOLEAN
           /\ my[c].found \in Picos \cup {Nobody}
           /\ Holds(c) => my[c].at \in {"opened", "pair", "send", "save",
                                         "fill", "reboot"}

\* The key a Pico accepts commands with is on file, whatever flow is killed
\* where and however often setup is run again, unless a save of config.toml
\* was cut short or two processes' saves overlapped: the key is saved before
\* it is sent, and no other save drops it (udp_auth.rs:323-348,
\* config.rs:111-161).
KeyOnFile ==
    clash \/ \A p \in Picos :
        key[p] # 0 =>
            \/ file # Torn /\ file.keys[p] = key[p]
            \/ \E c \in Processes : my[c].at = "fill" /\ copy[c].keys[p] = key[p]

\* configure-wifi says that a Pico came back in setup mode only if a COM port
\* has shown up since the reboot: the port that Windows goes on listing is not
\* taken for one (cmd_configure_wifi.rs:165-193).
BounceIsReal == ~strayBounce

\* cmd_setup.rs:49-53: "Ask for a name while the physical board is unambiguous
\* -- it is the one Pico that just went through this wizard on the USB cable".  With a
\* second Pico about, the name may go to the one that answers first.
NameOnTheBoard == ~strayName

\* A Pico that sits in setup mode with credentials that work gets back to
\* run mode if the bridge is run again often enough, whatever the Picos
\* beside it are like, unless the user takes it to the boot loader or gives
\* it other credentials (cmd_run.rs:339-387).
RecoverBringsBack ==
    \A p \in Picos :
        mode[p] = "setup" /\ creds[p] = "good" ~>
            mode[p] \in {"run", "bootsel"} \/ creds[p] = "bad"
=============================================================================
