-------------------------------- MODULE ReplyGate --------------------------------
(***************************************************************************)
(* reply_gate.c: how often the firmware answers a request for its log.     *)
(* The gate keeps one time stamp, in milliseconds of a clock that wraps;   *)
(* how far it lies ahead of the clock is how much has been answered.       *)
(***************************************************************************)
EXTENDS Integers

CONSTANTS
    Interval,      \* LOG_REPLY_INTERVAL_MS
    Burst,         \* LOG_REPLY_BURST
    ClockModulus   \* 2^32 in the code

Window == Interval * Burst

ASSUME GateAssumption ==
    /\ Interval \in Nat \ {0} /\ Burst \in Nat \ {0} /\ ClockModulus \in Nat
    /\ Window \in Nat /\ Interval <= Window
    /\ ClockModulus > Window + Interval + 1

VARIABLES
    now,      \* to_ms_since_boot
    gate,     \* log_reply_gate
    bucket    \* history: a leaky bucket of answers, what the gate should amount to

gateVars == <<now, gate, bucket>>
Clock == 0..(ClockModulus - 1)

GateInit ==
    /\ now = 0
    /\ gate = [armed |-> FALSE, next |-> 0]
    /\ bucket = 0

\* Differences of clock values wrap as uint32_t does.
Ahead == (gate.next - now) % ClockModulus
Rearms == ~gate.armed \/ Ahead > Window

\* Mutant: one answer too many fits.
AllowsOneMore == Rearms \/ Ahead <= Window

Allows == Rearms \/ Ahead <= Window - Interval

Allow ==
    /\ Allows
    /\ gate' = [armed |-> TRUE,
                next |-> ((IF Rearms THEN now ELSE gate.next) + Interval) % ClockModulus]
    /\ bucket' = bucket + Interval
    /\ UNCHANGED now

Refuse == ~Allows /\ UNCHANGED gateVars

GateTick ==
    /\ now' = (now + 1) % ClockModulus
    /\ bucket' = IF bucket > 0 THEN bucket - 1 ELSE 0
    /\ UNCHANGED gate

GateNext == Allow \/ Refuse \/ GateTick
GateSpec == GateInit /\ [][GateNext]_gateVars

GateTypeOK ==
    /\ now \in Clock
    /\ gate \in [armed : BOOLEAN, next : Clock]
    /\ bucket \in Nat

\* However requests come, and wherever the clock wraps, the Pico never answers
\* more than Burst at once nor more than one per Interval for long (the 400 ms
\* and 3 of net_udp.c:147-148): what the time stamp allows fits the bucket.
RateLimited == bucket <= Window
=============================================================================
