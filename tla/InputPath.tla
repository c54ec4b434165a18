------------------------------ MODULE InputPath ------------------------------
(***************************************************************************)
(* The way of one controller state through the Pico in a Wi-Fi persona:    *)
(* the UDP receive callback (net_udp.c) writes the shared pad state, the   *)
(* main loop copies it field by field into a USB report (xinput.c) and     *)
(* then runs the input watchdog (watchdog.c), which clears it field by     *)
(* field when the bridge has gone quiet.                                   *)
(*                                                                         *)
(* The firmware links pico_cyw43_arch_lwip_threadsafe_background, so the   *)
(* callback runs in a low-priority interrupt: it may come between any two  *)
(* accesses of the main loop, and is itself atomic to the main loop.  The  *)
(* millisecond clock runs on at any moment.                                *)
(*                                                                         *)
(* Bounds: the clock is counted modulo ClockModulus (2^32 in the code);    *)
(* `age` stops counting above AgeCap, past which no property looks.        *)
(***************************************************************************)
EXTENDS Integers, Sequences

CONSTANTS
    Fields,        \* the fields of gamepad_state_t, in the order of access
    Levels,        \* values of a field; 0 is the neutral one
    Timeout,       \* PICO_BRIDGE_WATCHDOG_TIMEOUT_MS
    ClockModulus,  \* where to_ms_since_boot wraps
    MaxGap         \* longest time between two watchdog ticks

\* What the constants must satisfy, for whoever instantiates the module.
InputPathAssumption ==
    /\ Fields \in Seq(STRING) /\ Len(Fields) > 0
    /\ 0 \in Levels
    /\ Timeout \in Nat
    /\ MaxGap \in Nat
    /\ ClockModulus \in Nat /\ ClockModulus > Timeout + MaxGap + 1

VARIABLES
    clock,      \* to_ms_since_boot
    usbPad,     \* g_gamepad_state
    last,       \* g_last_packet_ms; 0 doubles as "no packet yet"
    zeroed,     \* watchdog.c: already neutralised
    usbPc,      \* where the main loop is
    field,      \* index of the next field it accesses
    draft,      \* the report under construction
    usbSent,    \* last_sent, or NotSent
    now,        \* watchdog_tick's local `now`
    age,        \* history: true time since the last packet, up to AgeCap
    gap,        \* history: time since watchdog_tick read the clock
    raced       \* history: a packet came after watchdog_tick read the clock

usbVars == <<clock, usbPad, last, zeroed, usbPc, field, draft, usbSent, now,
             age, gap, raced>>
main == <<usbPc, field, draft, usbSent, now, zeroed>>

-----------------------------------------------------------------------------

PadStates == [1 .. Len(Fields) -> Levels]
Neutral == [f \in 1 .. Len(Fields) |-> 0]
NotSent == <<>>

\* Packets carry whole controller states; these differ in every field, so a
\* mixture of two of them shows.
Packets == { [f \in 1 .. Len(Fields) |-> v] : v \in Levels }

AgeCap == Timeout + 2 * MaxGap + 2

\* Mutant: the operands are swapped.
MinusSwapped(a, b) == (b - a) % ClockModulus

\* (uint32_t)(a - b)
Minus(a, b) == (a - b) % ClockModulus

\* The network comes up seconds after the boot, so not in its first
\* millisecond.
UsbInit ==
    /\ clock = 1
    /\ usbPad = Neutral
    /\ last = 0
    /\ zeroed = FALSE
    /\ usbPc = "usb"
    /\ field = 1
    /\ draft = Neutral
    /\ usbSent = NotSent
    /\ now = 0
    /\ age = AgeCap
    /\ gap = 0
    /\ raced = FALSE

-----------------------------------------------------------------------------
(* The interrupt and the clock.                                            *)

\* apply_state_body, from on_recv.
Receive(p) ==
    /\ usbPad' = p
    /\ last' = clock
    /\ age' = 0
    /\ raced' = TRUE
    /\ UNCHANGED <<clock, gap, main>>

\* One millisecond passes; the main loop comes round at least every MaxGap.
Tick ==
    /\ gap < MaxGap
    /\ clock' = (clock + 1) % ClockModulus
    /\ gap' = gap + 1
    /\ age' = IF age < AgeCap THEN age + 1 ELSE age
    /\ UNCHANGED <<usbPad, last, raced, main>>

-----------------------------------------------------------------------------
(* The main loop: tud_task, the persona's task, watchdog_tick.             *)

\* tud_task: nothing of interest, or a bus reset (xinput_note_usb_reset drops
\* the memory of the last report).
UsbTask ==
    /\ usbPc = "usb"
    /\ usbPc' = "xinput"
    /\ UNCHANGED <<clock, usbPad, last, zeroed, field, draft, usbSent, now, age,
                   gap, raced>>

UsbReset ==
    /\ usbPc = "usb"
    /\ usbSent' = NotSent
    /\ UNCHANGED <<clock, usbPad, last, zeroed, usbPc, field, draft, now, age, gap,
                   raced>>

\* xinput_task: mounted and the endpoint has room, or not.
UsbReady ==
    /\ usbPc = "xinput"
    /\ usbPc' = "build"
    /\ field' = 1
    /\ UNCHANGED <<clock, usbPad, last, zeroed, draft, usbSent, now, age, gap, raced>>

UsbBusy ==
    /\ usbPc = "xinput"
    /\ usbPc' = "clock"
    /\ UNCHANGED <<clock, usbPad, last, zeroed, field, draft, usbSent, now, age,
                   gap, raced>>

\* build_report reads the shared fields one at a time.
BuildField ==
    /\ usbPc = "build"
    /\ draft' = [draft EXCEPT ![field] = usbPad[field]]
    /\ IF field < Len(Fields)
       THEN field' = field + 1 /\ usbPc' = "build"
       ELSE field' = 1 /\ usbPc' = "send"
    /\ UNCHANGED <<clock, usbPad, last, zeroed, usbSent, now, age, gap, raced>>

\* The report goes out whole; an unchanged one may be held back.
SendReport ==
    /\ usbPc = "send"
    /\ usbSent' = draft
    /\ usbPc' = "clock"
    /\ UNCHANGED <<clock, usbPad, last, zeroed, field, draft, now, age, gap, raced>>

\* The stack takes less than the whole report, or the report is unchanged and
\* the last one recent: `usbSent` stays.
NothingSent ==
    /\ usbPc = "send"
    /\ usbPc' = "clock"
    /\ UNCHANGED <<clock, usbPad, last, zeroed, field, draft, usbSent, now, age,
                   gap, raced>>

\* watchdog_tick reads the clock ...
WatchdogClock ==
    /\ usbPc = "clock"
    /\ now' = clock
    /\ gap' = 0
    /\ raced' = FALSE
    /\ usbPc' = "judge"
    /\ UNCHANGED <<clock, usbPad, last, zeroed, field, draft, usbSent, age>>

\* ... then the time of the last packet, and judges.
Stale == last = 0 \/ Minus(now, last) > Timeout

\* Mutant: the edge is never armed again.
WatchdogJudgeOnce ==
    /\ usbPc = "judge"
    /\ zeroed' = (zeroed \/ Stale)
    /\ usbPc' = IF Stale /\ ~zeroed THEN "clear" ELSE "usb"
    /\ field' = 1
    /\ UNCHANGED <<clock, usbPad, last, draft, usbSent, now, age, gap, raced>>

WatchdogJudge ==
    /\ usbPc = "judge"
    /\ zeroed' = Stale
    /\ usbPc' = IF Stale /\ ~zeroed THEN "clear" ELSE "usb"
    /\ field' = 1
    /\ UNCHANGED <<clock, usbPad, last, draft, usbSent, now, age, gap, raced>>

\* Mutant: the last field is forgotten.
WatchdogClearShort ==
    /\ usbPc = "clear"
    /\ IF field < Len(Fields)
       THEN /\ field' = field + 1 /\ usbPc' = "clear"
            /\ usbPad' = [usbPad EXCEPT ![field] = 0]
       ELSE field' = 1 /\ usbPc' = "usb" /\ UNCHANGED usbPad
    /\ UNCHANGED <<clock, last, zeroed, draft, usbSent, now, age, gap, raced>>

\* The edge: every field is set to neutral, one at a time.
WatchdogClear ==
    /\ usbPc = "clear"
    /\ usbPad' = [usbPad EXCEPT ![field] = 0]
    /\ IF field < Len(Fields)
       THEN field' = field + 1 /\ usbPc' = "clear"
       ELSE field' = 1 /\ usbPc' = "usb"
    /\ UNCHANGED <<clock, last, zeroed, draft, usbSent, now, age, gap, raced>>

UsbLoop ==
    \/ UsbTask
    \/ UsbReset
    \/ UsbReady
    \/ UsbBusy
    \/ BuildField
    \/ SendReport
    \/ NothingSent
    \/ WatchdogClock
    \/ WatchdogJudge
    \/ WatchdogClear

Reception == \E p \in Packets : Receive(p)

UsbNext == Reception \/ Tick \/ UsbLoop

UsbSpec == UsbInit /\ [][UsbNext]_usbVars

\* The main loop is an endless loop with no blocking call, the clock never
\* stops, and a console that is attached polls the endpoint again and again.
UsbFairness ==
    /\ WF_usbVars(UsbLoop)
    /\ WF_usbVars(Tick)
    /\ SF_usbVars(UsbTask)
    /\ SF_usbVars(UsbReady)
    /\ SF_usbVars(SendReport)

FairUsbSpec == UsbSpec /\ UsbFairness

-----------------------------------------------------------------------------

\* Every variable has its type.
UsbTypeOK ==
    /\ clock \in 0 .. ClockModulus - 1
    /\ last \in 0 .. ClockModulus - 1
    /\ now \in 0 .. ClockModulus - 1
    /\ usbPad \in PadStates
    /\ draft \in PadStates
    /\ usbSent \in PadStates \cup {NotSent}
    /\ zeroed \in BOOLEAN
    /\ raced \in BOOLEAN
    /\ usbPc \in {"usb", "xinput", "build", "send", "clock", "judge", "clear"}
    /\ field \in 1 .. Len(Fields)
    /\ age \in 0 .. AgeCap
    /\ gap \in 0 .. MaxGap

\* A main loop that always comes round within the timeout leaves no button
\* held on a dead link: once the last packet is older than the timeout and two
\* turns of the loop, the pad is neutral, whatever interrupted what
\* (watchdog.c:18-46).  Not so for a packet that comes in the millisecond of the
\* wrap: its stamp, 0, means "no packet yet".
ReleasedInTime == age > Timeout + 2 * MaxGap => usbPad = Neutral \/ last = 0

\* Where the wrap of the clock is concerned, a packet judged stale is old, or
\* came between the watchdog's two reads, or is stamped with the value that
\* doubles as "never".
StaleIsOld == usbPc = "judge" /\ Stale => age > Timeout \/ raced \/ last = 0

\* When the bridge stops for good, the console ends up with a neutral report,
\* although reports are built from a pad that changes underneath and the
\* endpoint refuses some of them.
SilenceReachesConsole ==
    <>[][~Reception /\ ~UsbReset]_usbVars => <>[](usbSent = Neutral \/ last = 0)

-----------------------------------------------------------------------------
(* What the comments say of the watchdog.                                  *)

\* watchdog.h:5-7: without datagrams "the gamepad state is forced to neutral
\* so the console sees no held buttons", however long a turn of the main loop
\* takes (a CDC reply alone may take 3000 ms: cdc_handlers.c:40-76).  So it is for
\* MaxGap <= Timeout, and not for a longer turn, which can miss the edge.
NoHeldButtons == age = AgeCap /\ last # 0 => usbPad = Neutral
=============================================================================
