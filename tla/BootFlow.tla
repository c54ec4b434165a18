------------------------------- MODULE BootFlow -------------------------------
(***************************************************************************)
(* From one life of the firmware to the next: what reset_reason.c leaves   *)
(* behind in watchdog scratch registers and uninitialised RAM, how the     *)
(* next boot reads it, and the mode boot_mode.c and main.c choose from it. *)
(*                                                                         *)
(* The hardware is external: a power loss loses scratch and RAM, a RUN-pin *)
(* reset only on the RP2350; the system reset of the fault handler clears  *)
(* the watchdog's reason register on the RP2350 and leaves it on the       *)
(* RP2040; the boot ROM reports a UF2 download on the RP2350 only.         *)
(*                                                                         *)
(* Abstracted: of the stored record only the persona; the fault registers; *)
(* the BOOTSEL sample, which changes the log and not the mode.             *)
(***************************************************************************)
CONSTANTS
    UsbPersonas,   \* output personas that present a USB device
    BtPersonas,    \* output personas over Bluetooth
    XInput,        \* the default persona
    Notes,         \* reasons given with a bounce to setup mode
    None           \* no credentials, no note, no persona

Personas == UsbPersonas \cup BtPersonas

\* What the constants must satisfy, for whoever instantiates the module.
BootFlowAssumption ==
    /\ XInput \in UsbPersonas
    /\ UsbPersonas \cap BtPersonas = {}
    /\ None \notin Personas \cup Notes \cup {"log"}
    /\ "log" \notin Notes

VARIABLES
    chip,       \* "rp2040" or "rp2350"
    \* Kept over a watchdog reset.
    scratch,    \* watchdog scratch[0]: "zero", "normal" or "fault"
    marker,     \* scratch[5..6]: persona to capture, or None
    crumb,      \* g_crash_breadcrumb
    wdReason,   \* watchdog_caused_reboot()
    romReport,  \* rom_get_last_boot_type() is BOOT_TYPE_FLASH_UPDATE
    creds,      \* persona of the stored record, or None
    \* Lost in every reset.
    phase,      \* "reset", "booting", "setup", "run", "rebooting" or "rom"
    info,       \* reset_reason_info_t
    persona,    \* run_persona
    capturing,  \* capture_enabled
    \* History.
    cause,      \* what started this life
    asked,      \* what this life has asked of the next
    owed        \* what the life before asked of this one

survivors == <<scratch, marker, crumb, wdReason, romReport, creds>>
bootVars == <<chip, survivors, phase, info, persona, capturing, cause, asked, owed>>

-----------------------------------------------------------------------------
(* The breadcrumb.                                                         *)

Lines == Notes \cup {"log", None}
Crc(force, line) == <<force, line>>
NoCrumb == [magic |-> FALSE, crc |-> None, force |-> FALSE, line |-> None]
MakeCrumb(force, line) ==
    [magic |-> TRUE, crc |-> Crc(force, line), force |-> force, line |-> line]

ValidCrumb(c) == c.magic /\ c.crc = Crc(c.force, c.line)

\* breadcrumb_fill_info hands the flag out and takes it from the crumb ...
ForceIn(c) == ValidCrumb(c) /\ c.force
Filled(c) == IF ValidCrumb(c) THEN [c EXCEPT !.force = FALSE] ELSE c

\* ... and breadcrumb_read_last_line looks at the crumb after that.
LineIn(c) == IF ValidCrumb(c) THEN c.line ELSE None

-----------------------------------------------------------------------------

Nothing == [setup |-> FALSE, note |-> None, capture |-> None]
NoInfo == [reason |-> "unknown", force |-> FALSE, line |-> None]

\* Mutant: scratch is believed whatever reset the chip.
ReasonFromScratch ==
    IF chip = "rp2350" /\ romReport THEN "flash_update"
    ELSE IF scratch = "fault" THEN "fault"
    ELSE IF scratch = "normal" THEN "deliberate"
    ELSE IF wdReason THEN "watchdog_hang"
    ELSE "cold_or_pin"

\* reset_reason_classify; the RP2040 has no boot type to ask for.
Reason ==
    IF chip = "rp2350" /\ romReport THEN "flash_update"
    ELSE IF ~wdReason THEN "cold_or_pin"
    ELSE IF scratch = "fault" THEN "fault"
    ELSE IF scratch = "normal" THEN "deliberate"
    ELSE "watchdog_hang"

Classified ==
    IF Reason \in {"fault", "deliberate", "watchdog_hang"}
    THEN [reason |-> Reason, force |-> ForceIn(crumb),
          line |-> LineIn(Filled(crumb))]
    ELSE [reason |-> Reason, force |-> FALSE, line |-> None]

BootInit ==
    /\ chip \in {"rp2040", "rp2350"}
    /\ scratch = "zero"
    /\ marker = None
    /\ crumb = NoCrumb
    /\ wdReason = FALSE
    /\ romReport = FALSE
    /\ creds = None
    /\ phase = "reset"
    /\ info = NoInfo
    /\ persona = XInput
    /\ capturing = FALSE
    /\ cause = "power"
    /\ asked = Nothing
    /\ owed = Nothing

\* main: the first thing a boot does.
Classify ==
    /\ phase = "reset"
    /\ info' = Classified
    /\ scratch' = "zero"
    /\ crumb' = NoCrumb
    /\ phase' = "booting"
    /\ UNCHANGED <<chip, marker, wdReason, romReport, creds, persona,
                   capturing, cause, asked, owed>>

\* Mutant: a marker that is not consumed.
DecideKeepsMarker ==
    /\ phase = "booting"
    /\ phase' = IF ~info.force /\ creds # None THEN "run" ELSE "setup"
    /\ persona' = IF phase' = "run" THEN creds ELSE XInput
    /\ capturing' = (/\ marker # None
                     /\ phase' = "run"
                     /\ persona' \in UsbPersonas
                     /\ marker = persona')
    /\ scratch' = "normal"
    /\ UNCHANGED <<chip, marker, crumb, wdReason, romReport, creds, info, cause,
                   asked, owed>>

\* boot_mode_decide, the capture marker, and the start of the mode's loop.
Decide ==
    /\ phase = "booting"
    /\ phase' = IF ~info.force /\ creds # None THEN "run" ELSE "setup"
    /\ persona' = IF phase' = "run" THEN creds ELSE XInput
    /\ capturing' = (/\ marker # None
                     /\ phase' = "run"
                     /\ persona' \in UsbPersonas
                     /\ marker = persona')
    /\ marker' = None
    /\ scratch' = "normal"
    /\ UNCHANGED <<chip, crumb, wdReason, romReport, creds, info, cause, asked,
                   owed>>

-----------------------------------------------------------------------------
(* The two main loops.                                                     *)

\* CDC_CMD_SET_WIFI: a new record keeps the persona of the one before.
SetWifi ==
    /\ phase = "setup" \/ (phase = "run" /\ persona \in BtPersonas)
    /\ creds' = IF creds = None THEN XInput ELSE creds
    /\ UNCHANGED <<chip, scratch, marker, crumb, wdReason, romReport, phase,
                   info, persona, capturing, cause, asked, owed>>

\* CDC_CMD_REBOOT_TO_RUN.
RebootToRun ==
    /\ phase = "setup" \/ (phase = "run" /\ persona \in BtPersonas)
    /\ phase' = "rebooting"
    /\ UNCHANGED <<chip, survivors, info, persona, capturing, cause, asked,
                   owed>>

\* CDC_CMD_REBOOT_TO_BOOTSEL.
RebootToBootsel ==
    /\ phase = "setup" \/ (phase = "run" /\ persona \in BtPersonas)
    /\ phase' = "rom"
    /\ UNCHANGED <<chip, survivors, info, persona, capturing, cause, asked,
                   owed>>

\* reset_reason_request_setup_with_note, then watchdog_reboot.
RequestSetup(note) ==
    /\ phase = "run"
    /\ crumb' = MakeCrumb(TRUE, note)
    /\ scratch' = "normal"
    /\ phase' = "rebooting"
    /\ asked' = [asked EXCEPT !.setup = TRUE, !.note = note]
    /\ UNCHANGED <<chip, marker, wdReason, romReport, creds, info, persona,
                   capturing, cause, owed>>

\* The radio fails for a minute, or the password is refused for two.
BounceToSetup(note) == RequestSetup(note)

\* TYPE_REBOOT_TO_SETUP, from net_udp_task.
RebootToSetup == RequestSetup(None)

\* apply_set_persona: nothing, or stored and rebooting.
SetPersona(p) ==
    /\ phase = "run"
    /\ p # creds
    /\ creds' = p
    /\ phase' = "rebooting"
    /\ UNCHANGED <<chip, scratch, marker, crumb, wdReason, romReport, info,
                   persona, capturing, cause, asked, owed>>

\* apply_set_usb_capture.  A failed store leaves everything as it was.
SetCapture(p) ==
    /\ phase = "run"
    /\ creds' = p
    /\ marker' = p
    /\ scratch' = "normal"
    /\ phase' = "rebooting"
    /\ asked' = [asked EXCEPT !.capture = p]
    /\ UNCHANGED <<chip, crumb, wdReason, romReport, info, persona, capturing,
                   cause, owed>>

StopCapture ==
    /\ phase = "run"
    /\ capturing' = FALSE
    /\ UNCHANGED <<chip, survivors, phase, info, persona, cause, asked, owed>>

-----------------------------------------------------------------------------
(* The ways a life ends.                                                   *)

Restart(why, debts) ==
    /\ phase' = "reset"
    /\ cause' = why
    /\ owed' = debts
    /\ asked' = Nothing
    /\ info' = NoInfo
    /\ persona' = XInput
    /\ capturing' = FALSE
    /\ UNCHANGED <<chip, creds>>

\* watchdog_reboot(0, 0, 100), 100 ms later.
WatchdogFires ==
    /\ phase = "rebooting"
    /\ wdReason' = TRUE
    /\ romReport' = FALSE
    /\ UNCHANGED <<scratch, marker, crumb>>
    /\ Restart("watchdog", asked)

\* Mutant: the request of the life that faulted is kept.
FaultKeepsRequest ==
    /\ phase \in {"booting", "setup", "run", "rebooting"}
    /\ scratch' = "fault"
    /\ crumb' = MakeCrumb(crumb.force, "log")
    /\ wdReason' = (chip = "rp2040" /\ wdReason)
    /\ romReport' = FALSE
    /\ UNCHANGED marker
    /\ Restart("fault", [Nothing EXCEPT !.capture = marker])

\* isr_hardfault, reset_reason_record_fault, then SYSRESETREQ.
Fault ==
    /\ phase \in {"booting", "setup", "run", "rebooting"}
    /\ scratch' = "fault"
    /\ crumb' = MakeCrumb(FALSE, "log")
    /\ wdReason' = (chip = "rp2040" /\ wdReason)
    /\ romReport' = FALSE
    /\ UNCHANGED marker
    /\ Restart("fault", [Nothing EXCEPT !.capture = marker])

PowerCut ==
    /\ scratch' = "zero"
    /\ marker' = None
    /\ crumb' = NoCrumb
    /\ wdReason' = FALSE
    /\ romReport' = FALSE
    /\ Restart("power", Nothing)

PinReset ==
    /\ chip = "rp2040"
    /\ wdReason' = FALSE
    /\ romReport' = FALSE
    /\ UNCHANGED <<scratch, marker, crumb>>
    /\ Restart("pin", [Nothing EXCEPT !.capture = marker])

\* The user holds BOOTSEL while plugging in.
EnterRom ==
    /\ phase = "reset"
    /\ cause = "power"
    /\ phase' = "rom"
    /\ UNCHANGED <<chip, survivors, info, persona, capturing, cause, asked,
                   owed>>

\* A UF2 file is dropped on the boot ROM's drive.
FlashUpdate ==
    /\ phase = "rom"
    /\ romReport' = (chip = "rp2350")
    /\ wdReason' \in BOOLEAN
    /\ UNCHANGED <<scratch, marker, crumb>>
    /\ Restart("flash_update", Nothing)

BootNext ==
    \/ Classify
    \/ Decide
    \/ SetWifi
    \/ RebootToRun
    \/ RebootToBootsel
    \/ \E note \in Notes : BounceToSetup(note)
    \/ RebootToSetup
    \/ \E p \in Personas : SetPersona(p)
    \/ \E p \in Personas : SetCapture(p)
    \/ StopCapture
    \/ WatchdogFires
    \/ Fault
    \/ PowerCut
    \/ PinReset
    \/ EnterRom
    \/ FlashUpdate

BootSpec == BootInit /\ [][BootNext]_bootVars

-----------------------------------------------------------------------------

Wants == [setup : BOOLEAN, note : Notes \cup {None},
          capture : Personas \cup {None}]

\* Every variable has its type.
BootTypeOK ==
    /\ chip \in {"rp2040", "rp2350"}
    /\ scratch \in {"zero", "normal", "fault"}
    /\ marker \in Personas \cup {None}
    /\ crumb.magic \in BOOLEAN /\ crumb.force \in BOOLEAN
    /\ crumb.line \in Lines
    /\ wdReason \in BOOLEAN
    /\ romReport \in BOOLEAN
    /\ creds \in Personas \cup {None}
    /\ phase \in {"reset", "booting", "setup", "run", "rebooting", "rom"}
    /\ info.reason \in {"unknown", "cold_or_pin", "flash_update", "deliberate",
                        "watchdog_hang", "fault"}
    /\ info.force \in BOOLEAN /\ info.line \in Lines
    /\ persona \in Personas
    /\ capturing \in BOOLEAN
    /\ cause \in {"power", "pin", "watchdog", "fault", "flash_update"}
    /\ asked \in Wants
    /\ owed \in Wants

\* A boot lands in setup mode when the life before asked for it or when
\* nothing is stored, and in run mode otherwise: a request is neither lost in
\* a deliberate reboot nor seen twice, whatever resets come between
\* (reset_reason.h:98-103, boot_mode.c:64-143).
BootsWhereAsked ==
    [][Decide => (phase' = "setup" <=> owed.setup \/ creds = None)]_bootVars

\* Packet capture is on in exactly the boot that follows the request, and only
\* if that boot runs the persona asked for (main.c:446-458).
CapturesWhatWasAsked ==
    [][Decide => (capturing' <=> /\ owed.capture \in UsbPersonas
                                 /\ phase' = "run"
                                 /\ persona' = owed.capture)]_bootVars

\* The log never blames the wrong cause: a fault or a deliberate reboot is
\* reported only in the life right after it (reset_reason.h:41-48), and so is
\* the line that explains it.  The RP2040 cannot tell a UF2 download.
NoFalseReport ==
    phase \in {"booting", "setup", "run"} =>
        /\ info.reason = "fault" => cause = "fault"
        /\ info.reason = "deliberate" =>
               cause = "watchdog" \/ (chip = "rp2040" /\ cause = "flash_update")
        /\ info.reason = "watchdog_hang" =>
               chip = "rp2040" /\ cause = "flash_update"
        /\ info.line = "log" => cause = "fault"
        /\ info.line \in Notes => info.line = owed.note

-----------------------------------------------------------------------------
(* What the comments say of the report.                                    *)

\* fault_handler.c:14-15: "With this handler the cause is in the next boot's
\* diag_log."  It is not in that of a life that power has begun: Reason looks
\* for the fault marker only after a watchdog reset.
FaultIsReported ==
    phase \in {"setup", "run"} /\ cause = "fault" => info.reason = "fault"
=============================================================================
