-------------------------------- MODULE BtHid --------------------------------
(***************************************************************************)
(* The Bluetooth controller of pico-bridge/src/bt_hid.c: sending reports   *)
(* and calling back a host whose link was lost.  bt_hid_task runs in the   *)
(* main loop; packet_handler is called by BTstack, which the firmware      *)
(* links in its threadsafe_background flavour, so an event may come        *)
(* between any two accesses of the main loop.                              *)
(*                                                                         *)
(* `b` is the static state of bt_hid.c, and a handler is a function from   *)
(* one such state to the next.  What BTstack and the radio do is external: *)
(* acl, link, dialing and wakeup say what they still owe the firmware.     *)
(***************************************************************************)
EXTENDS Naturals

CONSTANTS
    Pads,         \* the values of g_gamepad_state
    MaxAttempts   \* BT_HID_RECONNECT_MAX_CYCLE_ATTEMPTS

ASSUME BtHidAssumption == Pads # {} /\ MaxAttempts \in Nat \ {0}

VARIABLES
    b,        \* the statics of bt_hid.c
    pad,      \* g_gamepad_state
    sent,     \* the report the host received last
    pc,       \* where the main loop is in bt_hid_task
    dialOk,   \* local of try_reconnect_now: hid_device_connect returned success
    acl,      \* external: a connection to the host exists
    link,     \* external: its HID channels are open
    dialing,  \* external: a connection started by hid_device_connect is under way
    wakeup    \* external: BTstack owes a CAN_SEND_NOW event

vars == <<b, pad, sent, pc, dialOk, acl, link, dialing, wakeup>>
stack == <<acl, link, dialing, wakeup>>

Cleared == [started |-> FALSE, connected |-> FALSE, requested |-> FALSE,
            havePeer |-> FALSE, pending |-> FALSE, inProgress |-> FALSE,
            attempts |-> 0, retryReached |-> FALSE, sendReached |-> TRUE,
            report |-> CHOOSE v \in Pads : TRUE]

Init ==
    /\ b = Cleared
    /\ pad \in Pads /\ sent \in Pads
    /\ pc = "idle" /\ dialOk = FALSE
    /\ acl = FALSE /\ link = FALSE /\ dialing = FALSE /\ wakeup = FALSE

-----------------------------------------------------------------------------
(* Helpers of bt_hid.c.                                                    *)

BlockReconnect(s) == [s EXCEPT !.pending = FALSE, !.inProgress = FALSE]

ScheduleReconnect(s, resetCycle) ==
    LET n == IF resetCycle THEN 0 ELSE s.attempts IN
    IF ~s.started \/ ~s.havePeer THEN BlockReconnect(s)
    ELSE IF s.connected THEN s
    ELSE IF n >= MaxAttempts THEN BlockReconnect([s EXCEPT !.attempts = n])
    ELSE [s EXCEPT !.attempts = n, !.pending = TRUE, !.inProgress = FALSE,
                   !.retryReached = FALSE]

\* Mutant: a report goes out only when it is asked for at once.
MaySendForced(s, force) == s.connected /\ ~s.requested /\ force

MaySend(s, force) == s.connected /\ ~s.requested /\ (force \/ s.sendReached)

\* request_send_now(true) as the handler of an opened connection calls it.
RequestSendNow(s) == IF MaySend(s, TRUE)
                     THEN [s EXCEPT !.report = pad, !.requested = TRUE] ELSE s

-----------------------------------------------------------------------------
(* The main loop.                                                          *)

BtHidInit ==
    /\ pc = "idle" /\ ~b.started
    /\ b' = [b EXCEPT !.started = TRUE, !.sendReached = TRUE]
    /\ UNCHANGED <<pad, sent, pc, dialOk, stack>>

\* wifi_task has initialised the radio again: bt_hid_reset_stack_state, then
\* bt_hid_init.  The links are gone without an event.
RadioRestart ==
    /\ pc = "idle" /\ b.started
    /\ b' = [Cleared EXCEPT !.started = TRUE]
    /\ acl' = FALSE /\ link' = FALSE /\ dialing' = FALSE /\ wakeup' = FALSE
    /\ UNCHANGED <<pad, sent, pc, dialOk>>

\* A BT_STATE frame over USB serial with another state asks for a report at
\* once, regardless of the interval.
StateFrame(v) ==
    /\ pc = "idle" /\ pad # v
    /\ pad' = v /\ pc' = "force"
    /\ UNCHANGED <<b, sent, dialOk, stack>>

\* A datagram, or the input watchdog, changes the state without asking.
PadChanges(v) ==
    /\ pad # v /\ pad' = v
    /\ UNCHANGED <<b, sent, pc, dialOk, stack>>

WantsToDial == b.started /\ ~b.connected /\ ~b.inProgress /\ b.pending /\ b.retryReached

\* try_reconnect_now, up to the decision to dial.
TryReconnect ==
    /\ pc = "idle"
    /\ IF WantsToDial
       THEN IF b.havePeer /\ b.attempts < MaxAttempts
            THEN pc' = "dial" /\ b' = b
            ELSE pc' = "send" /\ b' = BlockReconnect(b)
       ELSE pc' = "send" /\ b' = b
    /\ UNCHANGED <<pad, sent, dialOk, stack>>

\* hid_device_connect, which may refuse.
Dial ==
    /\ pc = "dial" /\ pc' = "dialed"
    /\ b' = [b EXCEPT !.pending = FALSE, !.attempts = @ + 1]
    /\ \/ dialOk' = TRUE /\ dialing' = TRUE
       \/ dialOk' = FALSE /\ dialing' = dialing
    /\ UNCHANGED <<pad, sent, acl, link, wakeup>>

Dialed ==
    /\ pc = "dialed" /\ pc' = "send" /\ dialOk' = FALSE
    /\ b' = IF dialOk THEN [b EXCEPT !.inProgress = TRUE]
            ELSE ScheduleReconnect(b, FALSE)
    /\ UNCHANGED <<pad, sent, stack>>

\* request_send_now: the checks and the report, the flag, the request.
BuildReport ==
    /\ pc \in {"send", "force"}
    /\ IF MaySend(b, pc = "force")
       THEN b' = [b EXCEPT !.report = pad] /\ pc' = "built"
       ELSE b' = b /\ pc' = "idle"
    /\ UNCHANGED <<pad, sent, dialOk, stack>>

MarkRequested ==
    /\ pc = "built" /\ pc' = "ask"
    /\ b' = [b EXCEPT !.requested = TRUE]
    /\ UNCHANGED <<pad, sent, dialOk, stack>>

\* BTstack takes the request if the channel is still open.
AskToSend ==
    /\ pc = "ask" /\ pc' = "idle"
    /\ wakeup' = (wakeup \/ link)
    /\ UNCHANGED <<b, pad, sent, dialOk, acl, link, dialing>>

MainLoop ==
    \/ TryReconnect \/ Dial \/ Dialed
    \/ BuildReport \/ MarkRequested \/ AskToSend

-----------------------------------------------------------------------------
(* packet_handler, one action per event.                                   *)

\* The host asks for a PIN or a confirmation and becomes the peer.
PairingRequest ==
    /\ b.started /\ ~link
    /\ acl' = TRUE
    /\ b' = [b EXCEPT !.havePeer = TRUE]
    /\ UNCHANGED <<pad, sent, pc, dialOk, link, dialing, wakeup>>

LinkKey ==
    /\ b.started /\ acl
    /\ b' = ScheduleReconnect(b, TRUE)
    /\ UNCHANGED <<pad, sent, pc, dialOk, stack>>

\* Mutant: the flag survives the open of a new link.
HidOpenedKeepsFlag ==
    /\ b.started /\ ~link
    /\ acl' = TRUE /\ link' = TRUE /\ dialing' = FALSE
    /\ LET s == [b EXCEPT !.connected = TRUE, !.pending = FALSE, !.inProgress = FALSE,
                          !.attempts = 0, !.sendReached = TRUE]
       IN b' = RequestSendNow(s) /\ wakeup' = MaySend(s, TRUE)
    /\ UNCHANGED <<pad, sent, pc, dialOk>>

\* HID_SUBEVENT_CONNECTION_OPENED: our call got through, or the host called.
HidOpened ==
    /\ b.started /\ ~link
    /\ acl' = TRUE /\ link' = TRUE /\ dialing' = FALSE
    /\ LET s == [b EXCEPT !.connected = TRUE, !.requested = FALSE, !.pending = FALSE,
                          !.inProgress = FALSE, !.attempts = 0, !.sendReached = TRUE]
       IN b' = RequestSendNow(s) /\ wakeup' = MaySend(s, TRUE)
    /\ UNCHANGED <<pad, sent, pc, dialOk>>

\* Mutant: a failed open leaves the retry to the disconnection.
OpenFailedOnly(s) == [s EXCEPT !.inProgress = FALSE, !.connected = FALSE]

\* HID_SUBEVENT_CONNECTION_OPENED with an error.
OpenFailed(s) == ScheduleReconnect([s EXCEPT !.inProgress = FALSE, !.connected = FALSE],
                                   FALSE)

HidOpenFails ==
    /\ dialing /\ dialing' = FALSE
    /\ b' = OpenFailed(b)
    /\ UNCHANGED <<pad, sent, pc, dialOk, acl, link, wakeup>>

\* HCI_EVENT_CONNECTION_COMPLETE with an error; the failed open follows at once.
ConnectionFails ==
    /\ dialing /\ dialing' = FALSE /\ ~acl
    /\ b' = OpenFailed(IF b.inProgress
                       THEN ScheduleReconnect([b EXCEPT !.inProgress = FALSE], FALSE)
                       ELSE b)
    /\ UNCHANGED <<pad, sent, pc, dialOk, acl, link, wakeup>>

HidClosed ==
    /\ link /\ link' = FALSE /\ wakeup' = FALSE
    /\ LET s == [b EXCEPT !.connected = FALSE, !.requested = FALSE, !.inProgress = FALSE]
       IN b' = IF b.connected THEN ScheduleReconnect(s, TRUE) ELSE s
    /\ UNCHANGED <<pad, sent, pc, dialOk, acl, dialing>>

DisconnectionComplete ==
    /\ acl /\ ~link /\ acl' = FALSE
    /\ b' = IF ~b.connected /\ ~b.pending /\ ~b.inProgress /\ b.havePeer
            THEN ScheduleReconnect(b, FALSE) ELSE b
    /\ UNCHANGED <<pad, sent, pc, dialOk, link, dialing, wakeup>>

CanSendNow ==
    /\ wakeup /\ wakeup' = FALSE
    /\ IF b.connected /\ b.requested
       THEN sent' = b.report /\ b' = [b EXCEPT !.requested = FALSE, !.sendReached = FALSE]
       ELSE sent' = sent /\ b' = b
    /\ UNCHANGED <<pad, pc, dialOk, acl, link, dialing>>

\* Time: the next retry, the next report.
RetryTime ==
    /\ b.pending /\ ~b.retryReached
    /\ b' = [b EXCEPT !.retryReached = TRUE]
    /\ UNCHANGED <<pad, sent, pc, dialOk, stack>>
SendTime ==
    /\ ~b.sendReached
    /\ b' = [b EXCEPT !.sendReached = TRUE]
    /\ UNCHANGED <<pad, sent, pc, dialOk, stack>>

\* The end of a call of ours.
CallEnds == dialing /\ (HidOpened \/ HidOpenFails \/ ConnectionFails)

Events ==
    \/ PairingRequest \/ LinkKey
    \/ HidOpened \/ HidOpenFails \/ ConnectionFails
    \/ HidClosed \/ DisconnectionComplete
    \/ CanSendNow \/ RetryTime \/ SendTime

Next ==
    \/ MainLoop
    \/ Events
    \/ BtHidInit
    \/ RadioRestart
    \/ \E v \in Pads : StateFrame(v) \/ PadChanges(v)

\* The loop runs, time passes, and BTstack answers what it was asked: a send
\* request on an open channel, and a call in one way or the other.
Fairness ==
    /\ WF_vars(MainLoop) /\ WF_vars(RetryTime) /\ WF_vars(SendTime)
    /\ WF_vars(CanSendNow) /\ WF_vars(CallEnds)

Spec == Init /\ [][Next]_vars /\ Fairness

-----------------------------------------------------------------------------
TypeOK ==
    /\ b \in [started : BOOLEAN, connected : BOOLEAN, requested : BOOLEAN,
              havePeer : BOOLEAN, pending : BOOLEAN, inProgress : BOOLEAN,
              attempts : 0..MaxAttempts, retryReached : BOOLEAN,
              sendReached : BOOLEAN, report : Pads]
    /\ pad \in Pads /\ sent \in Pads
    /\ pc \in {"idle", "dial", "dialed", "send", "force", "built", "ask"}
    /\ dialOk \in BOOLEAN /\ acl \in BOOLEAN /\ link \in BOOLEAN
    /\ dialing \in BOOLEAN /\ wakeup \in BOOLEAN

\* While the flag bt_hid_send_requested holds back the next report, the event that
\* clears it is owed or about to be asked for, however a lost and a new link
\* interrupt request_send_now: otherwise no report would go out again.
NoLostWakeup == link /\ b.connected /\ b.requested => wakeup \/ pc = "ask"

\* A known host that is not connected is never given up silently before the attempts
\* are used up: a retry is scheduled, a call is under way or being recorded,
\* or a link to the host still exists whose end will schedule one
\* (schedule_reconnect and its callers in packet_handler).
NoDeadEnd ==
    b.started /\ b.havePeer /\ ~b.connected /\ b.attempts < MaxAttempts =>
        b.pending \/ b.inProgress \/ dialing \/ acl \/ pc \in {"dial", "dialed"}

\* On a link that stays, a state that stays is what the host ends up with,
\* also when it changed while a report was waiting (request_send_now builds the
\* report before it may be sent) or by a path that asks for no report.
LatestReported == \A v \in Pads :
    <>[](link /\ b.connected /\ pad = v) => <>[](sent = v)

=============================================================================
