------------------------------ MODULE CdcExchange ------------------------------
(***************************************************************************)
(* Requests and replies on the serial port of a Pico: the PC (cdc.rs,      *)
(* cdc/frame.rs and the commands that open a port), the buffers between,   *)
(* and the firmware (cdc_handlers.c, cdc_proto.c).  A reply carries the    *)
(* number of its request, and the PC does not look at it; what ties the    *)
(* two together is only that an exchange ends before the next begins.      *)
(*                                                                         *)
(* The firmware may be late with any request: a poll of its main loop      *)
(* waits for the radio, the flash, or three seconds for room in its own    *)
(* buffer.  That buffer outlives a session; what the PC's driver has read  *)
(* does not.  A frame is whole, or cut by a write that timed out.          *)
(***************************************************************************)
EXTENDS Naturals, Sequences

CONSTANT MaxQueue  \* bound: requests and replies on their way

ASSUME QueueAssumption == MaxQueue \in Nat

VARIABLES
    device,   \* who is on the port: "setup", "bluetooth" (that run mode), "gone"
    rx,       \* requests in the Pico
    due,      \* reboot_pending, bootsel_pending
    fifo,     \* replies in the Pico, CFG_TUD_CDC_TX_BUFSIZE
    inbox,    \* replies in the PC's driver
    todo,     \* the session's requests, <<>> when the port is closed
    waiting,  \* whether the reply to Head(todo) is awaited
    last,     \* how the last exchange with this Pico ended
    clean     \* history: no exchange failed since this Pico came up

wire == <<rx, fifo, inbox>>
cdcVars == <<device, wire, due, todo, waiting, last, clean>>

-----------------------------------------------------------------------------
(* The sessions.  A step may fail where the caller goes on without it.     *)

Must(cmd) == [cmd |-> cmd, may |-> FALSE]
May(cmd) == [cmd |-> cmd, may |-> TRUE]

Hello == Must("HELLO")
HelloProbe == Must("HELLO")   \* with a deadline of ten seconds
SetWifi == Must("SET_WIFI")
SetAuthKey == Must("SET_AUTH_KEY")
RebootToRun == Must("REBOOT_TO_RUN")
RebootToBootsel == Must("REBOOT_TO_BOOTSEL")
SelfTest == Must("SELF_TEST")
UniqueId == Must("GET_UNIQUE_ID")
LogBuffer == Must("GET_LOG_BUFFER")
State == Must("BT_STATE")
Status == Must("BT_GET_STATUS")
Reboots == {"REBOOT_TO_RUN", "REBOOT_TO_BOOTSEL"}

\* provision: the unique ID, then the key.
Provision == <<UniqueId, SetAuthKey>>

SetupSession == <<Hello, SetWifi>> \o Provision \o <<RebootToRun>>
KeepCredsSession == <<Hello>> \o Provision \o <<RebootToRun>>
RecoverSession == <<Hello, SelfTest, RebootToRun>>
FlashSession == <<Hello, RebootToBootsel>>
BootselSession == <<Hello, SelfTest, RebootToBootsel>>
LabBootselSession == <<SelfTest, RebootToBootsel>>
InfoSession == <<Hello, SelfTest, May("GET_UNIQUE_ID")>>
DoctorSession == <<Hello>>
ProbeSession == <<Hello, SelfTest>>
LabProbeSession == <<Hello, SelfTest, UniqueId, May("GET_LOG_BUFFER")>>
LogSession == <<LogBuffer>>
WifiLogSession == <<LogBuffer>>
DiagSession == <<HelloProbe, LogBuffer>>
QuerySession == <<UniqueId, Status>>
StreamSession == <<UniqueId, State, May("BT_GET_STATUS"), State>>

Sessions ==
    {SetupSession, KeepCredsSession, RecoverSession, FlashSession, BootselSession,
     LabBootselSession, InfoSession, DoctorSession, ProbeSession, LabProbeSession, LogSession,
     WifiLogSession, DiagSession, QuerySession, StreamSession}

-----------------------------------------------------------------------------
(* Frames.  `own` marks what belongs to the exchange under way.            *)

Frame(cmd, whole) == [cmd |-> cmd, whole |-> whole, own |-> TRUE]
Reply(req, ok, whole) == [re |-> req.cmd, ok |-> ok, whole |-> whole, own |-> req.own]

\* try_decode finds a frame only when all of it is there.
Decodes(buffer) == buffer # <<>> /\ Head(buffer).whole

Disown(queue) == [i \in DOMAIN queue |-> [queue[i] EXCEPT !.own = FALSE]]

NoAnswer == [cmd |-> "none", end |-> "none", own |-> TRUE]
PortOpen == todo # <<>>
Here == device # "gone"
Room == Len(rx) + Len(fifo) + Len(inbox) < MaxQueue

CdcInit ==
    /\ device \in {"setup", "bluetooth"}
    /\ rx = <<>> /\ fifo = <<>> /\ inbox = <<>> /\ due = {}
    /\ todo = <<>> /\ waiting = FALSE /\ last = NoAnswer
    /\ clean = TRUE

-----------------------------------------------------------------------------
(* The firmware.                                                           *)

\* write_cdc_frame: room comes only from a PC that reads.  A long reply can
\* stay cut in the full buffer of a closed port, and what follows it is lost.
Full == ~PortOpen /\ fifo # <<>> /\ ~fifo[Len(fifo)].whole
Queue(reply) == IF Full THEN fifo ELSE Append(fifo, reply)
MayCut(req) == req.cmd = "GET_LOG_BUFFER" /\ ~PortOpen

\* Mutants of DispatchOk: the log is sent in two frames; BOOTSEL is only answered.
DispatchTwice(req) ==
    /\ due' = due \cup ({req.cmd} \cap Reboots)
    /\ fifo' = IF req.cmd = "GET_LOG_BUFFER"
               THEN Queue(Reply(req, TRUE, TRUE)) \o <<Reply(req, TRUE, TRUE)>>
               ELSE IF req.cmd = "BT_STATE" THEN fifo ELSE Queue(Reply(req, TRUE, TRUE))
DispatchForgetful(req) ==
    /\ due' = due \cup ({req.cmd} \cap {"REBOOT_TO_RUN"})
    /\ fifo' = IF req.cmd = "BT_STATE" THEN fifo ELSE Queue(Reply(req, TRUE, TRUE))

\* cdc_dispatch, for a request it has and its outcome.
DispatchOk(req) ==
    /\ due' = due \cup ({req.cmd} \cap Reboots)
    /\ IF req.cmd = "BT_STATE"
       THEN fifo' = fifo
       ELSE \E whole \in {TRUE} \cup {~MayCut(req)} :
                fifo' = Queue(Reply(req, TRUE, whole))

Nack(req) == fifo' = Queue(Reply(req, FALSE, TRUE)) /\ UNCHANGED due

\* handle_bt_state and handle_bt_get_status want a Bluetooth run mode; a flash
\* write can fail.
Rejects(req) == req.cmd \in {"BT_STATE", "BT_GET_STATUS"} /\ device = "setup"
CanFail(req) == req.cmd \in {"SET_WIFI", "SET_AUTH_KEY"}

Dispatch ==
    /\ Here /\ Decodes(rx)
    /\ LET req == Head(rx) IN
       \/ ~Rejects(req) /\ DispatchOk(req)
       \/ (Rejects(req) \/ CanFail(req)) /\ Nack(req)
    /\ rx' = Tail(rx)
    /\ UNCHANGED <<device, inbox, todo, waiting, last, clean>>

\* What follows a cut request is taken for its end: the CRC is wrong, and the
\* decoder goes on at the next magic.
Resync ==
    /\ Here /\ Len(rx) > 1 /\ ~Head(rx).whole
    /\ Nack(Head(rx))
    /\ rx' = Tail(rx)
    /\ UNCHANGED <<device, inbox, todo, waiting, last, clean>>

Gone == device' = "gone" /\ rx' = <<>> /\ fifo' = <<>> /\ due' = {}

\* The main loop reboots when the last reply has left.
Reboot ==
    /\ due # {} /\ fifo = <<>>
    /\ Gone
    /\ UNCHANGED <<inbox, todo, waiting, last, clean>>

\* Unplugged, or reset by its watchdog.
Unplug == Here /\ Gone /\ UNCHANGED <<inbox, todo, waiting, last, clean>>

\* The Pico comes up, after a PC that had its port open has seen it go.
Appear ==
    /\ ~Here /\ ~PortOpen
    /\ device' \in {"setup", "bluetooth"}
    /\ last' = NoAnswer /\ clean' = TRUE
    /\ UNCHANGED <<wire, due, todo, waiting>>

-----------------------------------------------------------------------------
(* The PC.                                                                 *)

\* open_and_assert: a new handle starts with an empty driver buffer.
OpenPort ==
    /\ Here /\ ~PortOpen
    /\ todo' \in Sessions
    /\ UNCHANGED <<device, wire, due, waiting, last, clean>>

\* The driver reads while the port is open.
Drain ==
    /\ PortOpen /\ fifo # <<>>
    /\ inbox' = Append(inbox, Head(fifo)) /\ fifo' = Tail(fifo)
    /\ UNCHANGED <<device, rx, due, todo, waiting, last, clean>>

\* hello, set_auth_key, self_test, ...: a reply to another command is an error.
Verdict(reply) ==
    IF ~reply.ok THEN "nack" ELSE IF reply.re # Head(todo).cmd THEN "odd" ELSE "ok"

\* The session goes on, or ends and closes its port.
GoOn(end) ==
    todo' = IF end = "ok" \/ Head(todo).may THEN Tail(todo) ELSE <<>>

\* The exchange of Head(todo) is over; `left` is what the driver still has.
Finish(end, own, requests, replies, left) ==
    /\ GoOn(end)
    /\ last' = [cmd |-> Head(todo).cmd, end |-> end, own |-> own]
    /\ clean' = (clean /\ end = "ok")
    /\ waiting' = FALSE
    /\ rx' = Disown(requests) /\ fifo' = Disown(replies)
    /\ inbox' = IF todo' = <<>> THEN <<>> ELSE Disown(left)
    /\ UNCHANGED <<device, due>>

\* The requests with one more, or a part of it, after a write.
Written(whole) == Append(rx, Frame(Head(todo).cmd, whole))

\* exchange_named_with_timeout, up to its read.
Exchange ==
    /\ PortOpen /\ ~waiting /\ Here /\ Room /\ Head(todo).cmd # "BT_STATE"
    /\ rx' = Written(TRUE) /\ waiting' = TRUE
    /\ UNCHANGED <<device, due, fifo, inbox, todo, last, clean>>

\* The write times out: nothing is written, or a part.
WriteTimesOut ==
    /\ PortOpen /\ ~waiting /\ Here /\ Room
    /\ \E requests \in {rx, Written(FALSE)} : Finish("write", TRUE, requests, fifo, inbox)

\* write_frame_no_response.
WriteFrame ==
    /\ PortOpen /\ ~waiting /\ Here /\ Room /\ Head(todo).cmd = "BT_STATE"
    /\ rx' = Disown(Written(TRUE)) /\ GoOn("ok")
    /\ inbox' = IF todo' = <<>> THEN <<>> ELSE inbox
    /\ UNCHANGED <<device, due, fifo, waiting, last, clean>>

\* read_one_frame_with_timeout: the first frame that decodes is the answer, and
\* what the same read brought with it is thrown away.
ReadOneFrame ==
    /\ waiting /\ Decodes(inbox)
    /\ LET reply == Head(inbox) IN
       \E n \in 1..Len(inbox) :
           Finish(Verdict(reply), reply.own, rx, fifo, SubSeq(inbox, n + 1, Len(inbox)))

\* The deadline passes: what was read is forgotten, the first part of a frame of
\* which the rest is still to come included.
HearNothing ==
    /\ waiting /\ Here /\ ~Decodes(inbox)
    /\ \E replies \in {fifo} \cup (IF fifo = <<>> THEN {} ELSE {Tail(fifo)}) :
           Finish("silent", TRUE, rx, replies, <<>>)

\* A write or a read fails, for the Pico is gone: reboot_with_ack takes that for
\* the reboot it asked for.
PortLost ==
    /\ PortOpen /\ ~Here
    /\ Finish(IF Head(todo).cmd \in Reboots THEN "ok" ELSE "lost", TRUE, rx, fifo, inbox)

\* The caller has seen enough, or its process is killed.
Quit ==
    /\ PortOpen
    /\ todo' = <<>> /\ waiting' = FALSE /\ inbox' = <<>>
    /\ rx' = Disown(rx) /\ fifo' = Disown(fifo)
    /\ clean' = (clean /\ ~waiting)
    /\ UNCHANGED <<device, due, last>>

CdcNext ==
    \/ Dispatch \/ Resync \/ Reboot \/ Unplug \/ Appear
    \/ OpenPort \/ Drain \/ Exchange \/ WriteTimesOut \/ WriteFrame
    \/ ReadOneFrame \/ HearNothing \/ PortLost \/ Quit

CdcSpec == CdcInit /\ [][CdcNext]_cdcVars

-----------------------------------------------------------------------------
(* Properties.                                                             *)

\* Nothing but the order ties a reply to its request.  As long as no exchange
\* with this Pico failed, that is enough: every answer taken for good is the
\* answer to the request it was taken for, over any number of sessions.
InStep == clean /\ last.end = "ok" => last.own

\* Until then, a reboot reported as done is: the Pico has accepted one and is
\* about to do it, or it is already gone.
RebootIsDone ==
    clean /\ last.end = "ok" /\ last.cmd \in Reboots => due # {} \/ ~Here
=============================================================================
