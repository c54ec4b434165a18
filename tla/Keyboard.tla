------------------------------- MODULE Keyboard -------------------------------
(***************************************************************************)
(* The keyboard of a remote player on its way to the console: a hook       *)
(* notes which keys are held by injected input (keyboard.rs), the stream   *)
(* asks for one key after the other and sends a report every tick          *)
(* (cmd_run.rs), and the Pico keeps the last one that arrived              *)
(* (net_udp.c), or none when it hears nothing (watchdog.c).                *)
(*                                                                         *)
(* The hook has a thread of its own: it may note any number of keys        *)
(* between two questions of the stream.  Datagrams are lost and overtaken. *)
(* From the Pico's state to the console the way is that of InputPath.      *)
(***************************************************************************)
EXTENDS Naturals, FiniteSets, SequencesExt

CONSTANTS
    Modifiers,  \* the codes modifier_byte asks for, in its order
    Bit,        \* the modifier of each: a generic code counts as the left one
    Codes,      \* the other codes, 0x08 to 0xFE, in their order
    Usage,      \* what the console knows those by that it knows
    Room,       \* keys in a report
    MaxNet      \* bound: reports under way

KeyboardAssumption ==
    /\ DOMAIN Bit = Range(Modifiers) /\ DOMAIN Usage \subseteq Range(Codes)
    /\ Range(Modifiers) \cap Range(Codes) = {}
    /\ {Room, MaxNet} \subseteq Nat \ {0}

VARIABLES
    hook,      \* "none" yet, "installed", or "failed" for good
    injected,  \* INJECTED: the codes held
    asked,     \* how many codes the stream has asked for in this tick
    down,      \* those it has found held
    net,       \* reports under way
    keys,      \* g_keyboard_state
    running,   \* whether the stream runs
    late       \* history: codes that went down, before the stream asked for them,
               \* under a modifier it had asked for before that went down

vars == <<hook, injected, asked, down, net, keys, running, late>>
stream == <<asked, down, net, running>>

-----------------------------------------------------------------------------
(* Reports.                                                                *)

\* vk_to_hid: a code without a usage is not forwarded.
VkToHid(codes) == {Usage[c] : c \in codes \cap DOMAIN Usage}

\* modifier_byte
ModifierByte(codes) == {Bit[c] : c \in codes \cap DOMAIN Bit}

\* build_report: too many keys are reported as such.
ErrRollover == {"ErrorRollOver"}
BuildReport(modifiers, pressed) ==
    [modifiers |-> modifiers,
     keys |-> IF Cardinality(pressed) > Room THEN ErrRollover ELSE pressed]

ReadKeyboard(codes) == BuildReport(ModifierByte(codes), VkToHid(codes))
Neutral == ReadKeyboard({})

\* read_keyboard_with: the codes in the order of its questions.
Questions == Modifiers \o SelectSeq(Codes, LAMBDA c : c \in DOMAIN Usage)

Init ==
    /\ hook = "none" /\ injected = {}
    /\ asked = 0 /\ down = {} /\ net = {} /\ running = TRUE
    /\ keys = Neutral /\ late = {}

-----------------------------------------------------------------------------
(* The hook.                                                               *)

\* start_capture, hook_thread: once per process; without the hook nothing is
\* captured.
StartCapture ==
    /\ hook = "none"
    /\ hook' \in {"installed", "failed"}
    /\ UNCHANGED <<injected, keys, late, stream>>

\* set_key
SetKey(c, isDown) == injected' = IF isDown THEN injected \cup {c} ELSE injected \ {c}

Asked == {Questions[i] : i \in 1..asked}
MissedModifier == ((DOMAIN Bit \cap Asked \cap injected) \ down) # {}

\* ll_proc, for an injected event; those of the host's own keys it ignores.
LlProc(c, isDown) ==
    /\ hook = "installed"
    /\ SetKey(c, isDown)
    /\ late' = IF c \in Asked THEN late
               ELSE IF isDown /\ (c \in late \/ (c \notin injected /\ MissedModifier))
               THEN late \cup {c} ELSE late \ {c}
    /\ UNCHANGED <<hook, keys, stream>>

Typing == \E c \in Range(Modifiers) \cup Range(Codes), isDown \in BOOLEAN : LlProc(c, isDown)

-----------------------------------------------------------------------------
(* The stream.                                                             *)

\* is_injected_down, for the next code.
IsInjectedDown ==
    /\ running /\ asked < Len(Questions)
    /\ asked' = asked + 1
    /\ down' = down \cup ({Questions[asked + 1]} \cap injected)
    /\ UNCHANGED <<hook, injected, net, keys, running, late>>

\* Mutant: what was held in the tick before is held still.
NextPacketAdds == running /\ asked = Len(Questions) /\ asked' = 0 /\ late' = {} /\ UNCHANGED down

\* next_keyboard_packet: a heartbeat carries the whole report as well.
NextPacket == running /\ asked = Len(Questions) /\ asked' = 0 /\ late' = {} /\ down' = {}

SendTick ==
    /\ NextPacket /\ Cardinality(net) < MaxNet
    /\ net' = net \cup {ReadKeyboard(down)}
    /\ UNCHANGED <<hook, injected, keys, running>>
LoseTick == NextPacket /\ UNCHANGED <<hook, injected, net, keys, running>>

Stop ==
    /\ running /\ running' = FALSE
    /\ asked' = 0 /\ down' = {} /\ late' = {}
    /\ UNCHANGED <<hook, injected, net, keys>>

-----------------------------------------------------------------------------
(* The Pico.                                                               *)

\* apply_key_body
Receive(report) ==
    /\ net' = net \ {report} /\ keys' = report
    /\ UNCHANGED <<hook, injected, asked, down, running, late>>
Reception == \E report \in net : Receive(report)

\* watchdog_tick, after a silence: the stream has ended or nothing gets through.
Silence ==
    /\ keys' = Neutral
    /\ UNCHANGED <<hook, injected, stream, late>>
SilenceForGood == Silence /\ ~running /\ net = {}

Next ==
    \/ StartCapture \/ Typing
    \/ IsInjectedDown \/ SendTick \/ LoseTick \/ Stop
    \/ Reception \/ Silence

\* The stream ticks, what is not lost arrives, and not everything is lost; the
\* watchdog runs in the main loop.
Fairness ==
    /\ WF_vars(IsInjectedDown) /\ SF_vars(SendTick) /\ WF_vars(Reception)
    /\ WF_vars(SilenceForGood)

Spec == Init /\ [][Next]_vars /\ Fairness

-----------------------------------------------------------------------------
(* Properties.                                                             *)

\* When the player has pressed or released the last key and the network gets
\* some reports through, the console ends up with exactly what is held, whatever
\* reports were torn, lost or overtaken before; and with nothing after the end
\* of the stream.
TypedReachesConsole ==
    <>[][~Typing /\ (running => ~Silence)]_vars =>
        <>[](keys = IF running THEN ReadKeyboard(injected) ELSE Neutral)

\* What the comment on INJECTED says of keys that are asked for one by one: that a
\* skew between them is invisible.  No report shows a key without a modifier
\* that was held when it went down.
SkewIsInvisible == asked = Len(Questions) => down \cap late = {}
=============================================================================
