---------------------------- MODULE RunModeProofs -----------------------------
(***************************************************************************)
(* Theorems about the three parts of the firmware that work side by side   *)
(* in run mode: the Bluetooth HID link (BtHid), the path of the input to   *)
(* the USB report with its watchdog (InputPath), and the upkeep of the     *)
(* Wi-Fi link (WifiJoin), each for every value of its constants.           *)
(***************************************************************************)
EXTENDS BtHid, InputPath, WifiJoin, TLAPS

-----------------------------------------------------------------------------
(* The Bluetooth HID link: its types, that the flag holding back reports   *)
(* is never left behind, and that a known host is never given up silently. *)

\* The statics of bt_hid.c.
Statics == [started : BOOLEAN, connected : BOOLEAN, requested : BOOLEAN,
            havePeer : BOOLEAN, pending : BOOLEAN, inProgress : BOOLEAN,
            attempts : 0..MaxAttempts, retryReached : BOOLEAN,
            sendReached : BOOLEAN, report : Pads]

\* A call that the main loop has decided on may still be counted: no event in
\* between raises the count (try_reconnect_now).
MayCount == pc = "dial" => b.attempts < MaxAttempts

\* HID channels run over a connection; before the first initialisation there is
\* no peer.
Layers == (link => acl) /\ (~b.started => ~b.havePeer)

HidInv == TypeOK /\ MayCount /\ Layers /\ NoLostWakeup /\ NoDeadEnd

-----------------------------------------------------------------------------
(* What the helpers of bt_hid.c return.                                    *)

\* block_reconnect touches the two flags of a retry and nothing else.
LEMMA BlockType ==
  ASSUME NEW s \in Statics
  PROVE  /\ BlockReconnect(s) \in Statics
         /\ BlockReconnect(s).started = s.started
         /\ BlockReconnect(s).connected = s.connected
         /\ BlockReconnect(s).requested = s.requested
         /\ BlockReconnect(s).havePeer = s.havePeer
         /\ BlockReconnect(s).attempts = s.attempts
  BY DEF BlockReconnect, Statics

\* schedule_reconnect keeps everything but the retry and its count, never
\* raises the count, and for a known host within the limit schedules a retry.
LEMMA ScheduleResult ==
  ASSUME NEW s \in Statics, NEW reset \in BOOLEAN
  PROVE  /\ ScheduleReconnect(s, reset) \in Statics
         /\ ScheduleReconnect(s, reset).started = s.started
         /\ ScheduleReconnect(s, reset).connected = s.connected
         /\ ScheduleReconnect(s, reset).requested = s.requested
         /\ ScheduleReconnect(s, reset).havePeer = s.havePeer
         /\ ScheduleReconnect(s, reset).attempts \in {0, s.attempts}
         /\ (/\ s.started /\ s.havePeer /\ ~s.connected
             /\ ScheduleReconnect(s, reset).attempts < MaxAttempts
             => ScheduleReconnect(s, reset).pending)
<1> DEFINE n == IF reset THEN 0 ELSE s.attempts
<1>1. n \in 0..MaxAttempts /\ n \in {0, s.attempts}
  BY BtHidAssumption DEF Statics
<1>2. CASE ~s.started \/ ~s.havePeer
  BY <1>2, BlockType DEF ScheduleReconnect
<1>3. CASE s.started /\ s.havePeer /\ s.connected
  BY <1>3 DEF ScheduleReconnect
<1>4. CASE s.started /\ s.havePeer /\ ~s.connected /\ n >= MaxAttempts
  <2> DEFINE t == [s EXCEPT !.attempts = n]
  <2>1. t \in Statics /\ t.attempts = n
    BY <1>1 DEF Statics
  <2>2. /\ t.started = s.started /\ t.connected = s.connected
        /\ t.requested = s.requested /\ t.havePeer = s.havePeer
    BY DEF Statics
  <2>3. ScheduleReconnect(s, reset) = BlockReconnect(t)
    BY <1>4 DEF ScheduleReconnect
  <2>4. ~(n < MaxAttempts)
    BY <1>1, <1>4, BtHidAssumption
  <2> HIDE DEF n, t
  <2> QED
    BY <1>1, <2>1, <2>2, <2>3, <2>4, BlockType
<1>5. CASE s.started /\ s.havePeer /\ ~s.connected /\ ~(n >= MaxAttempts)
  <2>1. ScheduleReconnect(s, reset) =
          [s EXCEPT !.attempts = n, !.pending = TRUE, !.inProgress = FALSE,
                    !.retryReached = FALSE]
    BY <1>5 DEF ScheduleReconnect
  <2> HIDE DEF n
  <2> QED
    BY <1>1, <2>1 DEF Statics
<1> QED
  BY <1>2, <1>3, <1>4, <1>5

\* The handler of a failed open (packet_handler): nothing connected, and a
\* retry for a known host within the limit.
LEMMA OpenFailedResult ==
  ASSUME NEW s \in Statics
  PROVE  /\ OpenFailed(s) \in Statics
         /\ ~OpenFailed(s).connected
         /\ OpenFailed(s).started = s.started
         /\ OpenFailed(s).havePeer = s.havePeer
         /\ OpenFailed(s).attempts \in {0, s.attempts}
         /\ (/\ s.started /\ s.havePeer /\ OpenFailed(s).attempts < MaxAttempts
             => OpenFailed(s).pending)
<1> DEFINE t == [s EXCEPT !.inProgress = FALSE, !.connected = FALSE]
<1>1. /\ t \in Statics /\ ~t.connected /\ t.started = s.started
      /\ t.havePeer = s.havePeer /\ t.attempts = s.attempts
  BY DEF Statics
<1>2. OpenFailed(s) = ScheduleReconnect(t, FALSE)
  BY DEF OpenFailed
<1> HIDE DEF t
<1> DEFINE r == ScheduleReconnect(t, FALSE)
<1>3. /\ r \in Statics /\ r.started = t.started /\ r.connected = t.connected
      /\ r.havePeer = t.havePeer /\ r.attempts \in {0, t.attempts}
      /\ (t.started /\ t.havePeer /\ ~t.connected /\ r.attempts < MaxAttempts => r.pending)
  BY <1>1, ScheduleResult
<1>4. OpenFailed(s) = r
  BY <1>2
<1> HIDE DEF r
<1> QED
  BY <1>1, <1>3, <1>4

-----------------------------------------------------------------------------
(* The invariant.                                                          *)

\* Cleared statics are well typed.
LEMMA ClearedType == Cleared \in Statics
  BY BtHidAssumption DEF Cleared, Statics

\* The statics of a firmware just started satisfy the invariant.
LEMMA InitHidInv == Init => HidInv
<1> SUFFICES ASSUME Init PROVE HidInv
  OBVIOUS
<1>1. b \in Statics /\ ~b.started /\ ~b.havePeer /\ ~b.connected
  BY ClearedType DEF Init, Cleared
<1> QED
  BY <1>1 DEF Init, HidInv, TypeOK, MayCount, Layers, NoLostWakeup, NoDeadEnd, Statics

\* The steps that change nothing of b but what the next lemmas do not ask for.
LEMMA KeepsType ==
  ASSUME b \in Statics, MayCount
  PROVE  /\ BtHidInit => b' \in Statics
         /\ Dial => b' \in Statics
         /\ BuildReport /\ pad \in Pads => b' \in Statics
         /\ MarkRequested => b' \in Statics
         /\ PairingRequest => b' \in Statics
         /\ CanSendNow => b' \in Statics
         /\ RetryTime => b' \in Statics
         /\ SendTime => b' \in Statics
<1>1. BtHidInit => b' \in Statics
  BY DEF BtHidInit, Statics
<1>2. ASSUME Dial PROVE b' \in Statics
  <2>1. b.attempts + 1 \in 0..MaxAttempts
    BY <1>2, BtHidAssumption DEF Dial, MayCount, Statics
  <2> QED
    BY <1>2, <2>1 DEF Dial, Statics
<1>3. BuildReport /\ pad \in Pads => b' \in Statics
  BY DEF BuildReport, Statics
<1>4. MarkRequested => b' \in Statics
  BY DEF MarkRequested, Statics
<1>5. PairingRequest => b' \in Statics
  BY DEF PairingRequest, Statics
<1>6. CanSendNow => b' \in Statics
  BY DEF CanSendNow, Statics
<1>7. (RetryTime => b' \in Statics) /\ (SendTime => b' \in Statics)
  BY DEF RetryTime, SendTime, Statics
<1> QED
  BY <1>1, <1>2, <1>3, <1>4, <1>5, <1>6, <1>7

\* What the end of a call makes of the statics (packet_handler).
LEMMA FailureResult ==
  ASSUME b \in Statics, HidOpenFails \/ ConnectionFails
  PROVE  /\ b' \in Statics /\ ~b'.connected
         /\ b'.started = b.started /\ b'.havePeer = b.havePeer
         /\ b'.attempts \in {0, b.attempts}
         /\ b'.started /\ b'.havePeer /\ b'.attempts < MaxAttempts => b'.pending
<1>1. CASE HidOpenFails
  <2>1. b' = OpenFailed(b)
    BY <1>1 DEF HidOpenFails
  <2> QED
    BY <2>1, OpenFailedResult
<1>2. CASE ConnectionFails
  <2> DEFINE t == [b EXCEPT !.inProgress = FALSE]
             s == IF b.inProgress THEN ScheduleReconnect(t, FALSE) ELSE b
  <2>1. t \in Statics /\ t.started = b.started /\ t.havePeer = b.havePeer
        /\ t.attempts = b.attempts
    BY DEF Statics
  <2>2. b' = OpenFailed(s)
    BY <1>2 DEF ConnectionFails
  <2> HIDE DEF t
  <2>3. s \in Statics /\ s.started = b.started /\ s.havePeer = b.havePeer
        /\ s.attempts \in {0, b.attempts}
    BY <2>1, ScheduleResult
  <2> HIDE DEF s
  <2> QED
    BY <2>2, <2>3, OpenFailedResult
<1> QED
  BY <1>1, <1>2

\* A closed channel (packet_handler): a new cycle of calls, if it was open for
\* the firmware.
LEMMA ClosedResult ==
  ASSUME b \in Statics, HidClosed
  PROVE  /\ b' \in Statics /\ ~b'.connected
         /\ b'.started = b.started /\ b'.havePeer = b.havePeer
         /\ b'.attempts \in {0, b.attempts}
<1> DEFINE s == [b EXCEPT !.connected = FALSE, !.requested = FALSE, !.inProgress = FALSE]
<1>1. s \in Statics /\ ~s.connected /\ s.started = b.started
      /\ s.havePeer = b.havePeer /\ s.attempts = b.attempts
  BY DEF Statics
<1>2. b' = IF b.connected THEN ScheduleReconnect(s, TRUE) ELSE s
  BY DEF HidClosed
<1> HIDE DEF s
<1> QED
  BY <1>1, <1>2, ScheduleResult

\* An open channel (packet_handler): no retry, a report asked for.
LEMMA OpenedResult ==
  ASSUME b \in Statics, pad \in Pads, HidOpened
  PROVE  /\ b' \in Statics /\ b'.connected /\ b'.started
         /\ b'.attempts = 0 /\ wakeup' = TRUE
<1> DEFINE s == [b EXCEPT !.connected = TRUE, !.requested = FALSE, !.pending = FALSE,
                          !.inProgress = FALSE, !.attempts = 0, !.sendReached = TRUE]
<1>0. 0 \in 0..MaxAttempts /\ b.started
  BY BtHidAssumption DEF HidOpened
<1>1. s \in Statics /\ s.connected /\ ~s.requested /\ s.started /\ s.attempts = 0
  BY <1>0 DEF Statics
<1>2. b' = RequestSendNow(s) /\ wakeup' = MaySend(s, TRUE)
  BY DEF HidOpened
<1> HIDE DEF s
<1>3. MaySend(s, TRUE) = TRUE
  BY <1>1 DEF MaySend
<1>4. b' = [s EXCEPT !.report = pad, !.requested = TRUE]
  BY <1>2, <1>3 DEF RequestSendNow
<1> QED
  BY <1>1, <1>2, <1>3, <1>4 DEF Statics

\* The steps that schedule a retry, or may: what they leave of the statics.
LEMMA ScheduleStep ==
  ASSUME b \in Statics, LinkKey \/ DisconnectionComplete \/ (Dialed /\ ~dialOk)
  PROVE  /\ b' \in Statics
         /\ b'.started = b.started /\ b'.connected = b.connected
         /\ b'.requested = b.requested /\ b'.havePeer = b.havePeer
         /\ b'.attempts \in {0, b.attempts}
         /\ (/\ b'.started /\ b'.havePeer /\ ~b'.connected
             /\ b'.attempts < MaxAttempts
             => b'.pending \/ b'.inProgress)
<1>1. (\E reset \in BOOLEAN : b' = ScheduleReconnect(b, reset))
      \/ (b' = b /\ (b.connected \/ b.pending \/ b.inProgress \/ ~b.havePeer))
  BY DEF LinkKey, DisconnectionComplete, Dialed
<1> QED
  BY <1>1, ScheduleResult

\* try_reconnect_now before the call: at most the retry is given up, and only
\* without a host or with the attempts used up.
LEMMA TryResult ==
  ASSUME b \in Statics, TryReconnect
  PROVE  /\ b' \in Statics
         /\ b'.started = b.started /\ b'.connected = b.connected
         /\ b'.requested = b.requested /\ b'.havePeer = b.havePeer
         /\ b'.attempts = b.attempts
         /\ b' = b \/ ~(b.havePeer /\ b.attempts < MaxAttempts)
         /\ pc' = "dial" => b.attempts < MaxAttempts
  BY BlockType DEF TryReconnect

-----------------------------------------------------------------------------
(* The invariant, conjunct by conjunct.                                    *)

\* The types, over every step.
LEMMA TypeStep == TypeOK /\ MayCount /\ Next => TypeOK'
<1> SUFFICES ASSUME TypeOK, MayCount, Next PROVE TypeOK'
  OBVIOUS
<1>0. b \in Statics /\ pad \in Pads
  BY DEF TypeOK, Statics
<1>1. CASE MainLoop
  <2>1. b' \in Statics
    <3>1. CASE Dialed /\ dialOk
      BY <1>0, <3>1 DEF Dialed, Statics
    <3> QED
      BY <1>0, <1>1, <3>1, KeepsType, TryResult, ScheduleStep DEF MainLoop, AskToSend
  <2> QED
    BY <1>1, <2>1 DEF MainLoop, TryReconnect, Dial, Dialed, BuildReport,
                      MarkRequested, AskToSend, TypeOK, Statics, stack
<1>2. CASE Events
  <2>1. b' \in Statics
    BY <1>0, <1>2, KeepsType, FailureResult, ClosedResult, OpenedResult, ScheduleStep
       DEF Events
  <2>2. wakeup' \in BOOLEAN
    BY <1>0, <1>2, OpenedResult
       DEF Events, PairingRequest, LinkKey, HidOpenFails, ConnectionFails, HidClosed,
           DisconnectionComplete, CanSendNow, RetryTime, SendTime, TypeOK, stack
  <2>3. sent' \in Pads
    BY <1>0, <1>2 DEF Events, PairingRequest, LinkKey, HidOpened, HidOpenFails,
           ConnectionFails, HidClosed, DisconnectionComplete, CanSendNow, RetryTime,
           SendTime, TypeOK, Statics, stack
  <2> QED
    BY <1>2, <2>1, <2>2, <2>3
       DEF Events, PairingRequest, LinkKey, HidOpened, HidOpenFails, ConnectionFails,
           HidClosed, DisconnectionComplete, CanSendNow, RetryTime, SendTime,
           TypeOK, Statics, stack
<1>3. CASE BtHidInit
  BY <1>0, <1>3, KeepsType DEF BtHidInit, TypeOK, Statics, stack
<1>4. CASE RadioRestart
  <2>1. b' \in Statics
    BY <1>4, ClearedType DEF RadioRestart, Statics
  <2> QED
    BY <1>4, <2>1 DEF RadioRestart, TypeOK, Statics
<1>5. ASSUME NEW v \in Pads, StateFrame(v) \/ PadChanges(v) PROVE TypeOK'
  BY <1>5 DEF StateFrame, PadChanges, TypeOK, stack
<1> QED
  BY <1>1, <1>2, <1>3, <1>4, <1>5 DEF Next

\* Between the decision to dial and the count, events never raise the count.
LEMMA CountStep == TypeOK /\ MayCount /\ Next => MayCount'
<1> SUFFICES ASSUME TypeOK, MayCount, Next PROVE MayCount'
  OBVIOUS
<1>0. b \in Statics /\ pad \in Pads /\ 0 < MaxAttempts /\ b.attempts \in Nat
  BY BtHidAssumption DEF TypeOK, Statics
<1>1. CASE TryReconnect
  BY <1>0, <1>1, TryResult DEF MayCount
<1>2. CASE Dial \/ Dialed \/ BuildReport \/ MarkRequested
  BY <1>2 DEF Dial, Dialed, BuildReport, MarkRequested, MayCount
<1>3. CASE Events
  <2>1. pc' = pc
    BY <1>3 DEF Events, PairingRequest, LinkKey, HidOpened, HidOpenFails,
           ConnectionFails, HidClosed, DisconnectionComplete, CanSendNow, RetryTime,
           SendTime, stack
  <2>2. CASE PairingRequest \/ CanSendNow \/ RetryTime \/ SendTime
    <3>1. b'.attempts = b.attempts
      BY <1>0, <2>2 DEF PairingRequest, CanSendNow, RetryTime, SendTime, Statics
    <3> QED
      BY <2>1, <3>1 DEF MayCount
  <2>3. CASE ~(PairingRequest \/ CanSendNow \/ RetryTime \/ SendTime)
    <3>1. b'.attempts \in {0, b.attempts}
      BY <1>0, <1>3, <2>3, FailureResult, ClosedResult, OpenedResult, ScheduleStep
         DEF Events
    <3> QED
      BY <1>0, <2>1, <3>1 DEF MayCount
  <2> QED
    BY <2>2, <2>3
<1>4. CASE AskToSend \/ BtHidInit \/ RadioRestart
  BY <1>4 DEF AskToSend, BtHidInit, RadioRestart, MayCount
<1>5. ASSUME NEW v \in Pads, StateFrame(v) \/ PadChanges(v) PROVE MayCount'
  BY <1>5 DEF StateFrame, PadChanges, MayCount
<1> QED
  BY <1>1, <1>2, <1>3, <1>4, <1>5 DEF Next, MainLoop

\* Channels only over a connection, a peer only after the initialisation.
LEMMA LayersStep == TypeOK /\ Layers /\ Next => Layers'
<1> SUFFICES ASSUME TypeOK, Layers, Next PROVE Layers'
  OBVIOUS
<1>0. b \in Statics /\ pad \in Pads
  BY DEF TypeOK, Statics
<1>1. link' => acl'
  BY DEF Next, MainLoop, Events, TryReconnect, Dial, Dialed, BuildReport, MarkRequested,
         AskToSend, PairingRequest, LinkKey, HidOpened, HidOpenFails, ConnectionFails,
         HidClosed, DisconnectionComplete, CanSendNow, RetryTime, SendTime, BtHidInit,
         RadioRestart, StateFrame, PadChanges, Layers, stack
<1>2. (~b'.started => ~b'.havePeer)
  <2>1. CASE b'.started = b.started /\ b'.havePeer = b.havePeer
    BY <2>1 DEF Layers
  <2>2. CASE TryReconnect \/ LinkKey \/ DisconnectionComplete \/ (Dialed /\ ~dialOk)
             \/ HidOpenFails \/ ConnectionFails \/ HidClosed
    BY <1>0, <2>1, <2>2, TryResult, ScheduleStep, FailureResult, ClosedResult
  <2>3. CASE (Dialed /\ dialOk) \/ Dial \/ BuildReport \/ MarkRequested \/ AskToSend
             \/ CanSendNow \/ RetryTime \/ SendTime
    BY <1>0, <2>1, <2>3 DEF Dialed, Dial, BuildReport, MarkRequested, AskToSend,
           CanSendNow, RetryTime, SendTime, Statics, stack
  <2>4. CASE PairingRequest \/ BtHidInit \/ RadioRestart
    BY <1>0, <2>4 DEF PairingRequest, BtHidInit, RadioRestart, Cleared, Statics
  <2>5. CASE HidOpened
    BY <1>0, <2>5, OpenedResult
  <2>6. ASSUME NEW v \in Pads, StateFrame(v) \/ PadChanges(v)
        PROVE  b' = b
    BY <2>6 DEF StateFrame, PadChanges
  <2> QED
    BY <2>1, <2>2, <2>3, <2>4, <2>5, <2>6 DEF Next, MainLoop, Events, Layers
<1> QED
  BY <1>1, <1>2 DEF Layers

\* The flag and the event that clears it.
LEMMA WakeupStep == TypeOK /\ NoLostWakeup /\ Next => NoLostWakeup'
<1> SUFFICES ASSUME TypeOK, NoLostWakeup, Next PROVE NoLostWakeup'
  OBVIOUS
<1>0. b \in Statics /\ pad \in Pads
  BY DEF TypeOK, Statics
<1> DEFINE Same == b'.connected = b.connected /\ b'.requested = b.requested
<1>1. CASE TryReconnect \/ Dial \/ (Dialed /\ dialOk) \/ BuildReport
  <2>1. Same
    BY <1>0, <1>1, TryResult DEF Dial, Dialed, BuildReport, Statics
  <2> QED
    BY <1>1, <2>1 DEF TryReconnect, Dial, Dialed, BuildReport, NoLostWakeup, stack
<1>2. CASE MarkRequested \/ AskToSend
  BY <1>0, <1>2 DEF MarkRequested, AskToSend, NoLostWakeup, TypeOK, stack
<1>3. CASE LinkKey \/ DisconnectionComplete \/ (Dialed /\ ~dialOk)
  BY <1>0, <1>3, ScheduleStep
     DEF LinkKey, DisconnectionComplete, Dialed, NoLostWakeup, stack
<1>4. CASE HidOpenFails \/ ConnectionFails
  BY <1>0, <1>4, FailureResult DEF NoLostWakeup
<1>5. CASE HidClosed
  BY <1>5 DEF HidClosed, NoLostWakeup
<1>6. CASE HidOpened
  BY <1>0, <1>6, OpenedResult DEF NoLostWakeup
<1>7. CASE PairingRequest \/ RetryTime \/ SendTime \/ BtHidInit
  <2>1. Same
    BY <1>0, <1>7 DEF PairingRequest, RetryTime, SendTime, BtHidInit, Statics
  <2> QED
    BY <1>7, <2>1 DEF PairingRequest, RetryTime, SendTime, BtHidInit, NoLostWakeup, stack
<1>8. CASE CanSendNow
  BY <1>0, <1>8 DEF CanSendNow, NoLostWakeup, Statics
<1>9. CASE RadioRestart
  BY <1>9 DEF RadioRestart, NoLostWakeup
<1>10. ASSUME NEW v \in Pads, StateFrame(v) \/ PadChanges(v) PROVE NoLostWakeup'
  BY <1>10 DEF StateFrame, PadChanges, NoLostWakeup, stack
<1> QED
  BY <1>1, <1>2, <1>3, <1>4, <1>5, <1>6, <1>7, <1>8, <1>9, <1>10
     DEF Next, MainLoop, Events

\* Somebody is left to call the host back.
LEMMA DeadEndStep == TypeOK /\ Layers /\ NoDeadEnd /\ Next => NoDeadEnd'
<1> SUFFICES ASSUME TypeOK, Layers, NoDeadEnd, Next PROVE NoDeadEnd'
  OBVIOUS
<1>0. b \in Statics /\ pad \in Pads /\ 0 < MaxAttempts
  BY BtHidAssumption DEF TypeOK, Statics
<1>1. CASE TryReconnect
  <2>1. CASE b' = b
    BY <1>1, <2>1 DEF TryReconnect, NoDeadEnd, stack
  <2> QED
    BY <1>0, <1>1, <2>1, TryResult DEF NoDeadEnd
<1>2. CASE Dial
  BY <1>2 DEF Dial, NoDeadEnd
<1>3. CASE Dialed /\ dialOk
  <2>1. b'.inProgress
    BY <1>0, <1>3 DEF Dialed, Statics
  <2> QED
    BY <2>1 DEF NoDeadEnd
<1>4. CASE LinkKey \/ DisconnectionComplete \/ (Dialed /\ ~dialOk)
  BY <1>0, <1>4, ScheduleStep DEF NoDeadEnd
<1>5. CASE HidOpenFails \/ ConnectionFails
  BY <1>0, <1>5, FailureResult DEF NoDeadEnd
<1>6. CASE HidClosed \/ PairingRequest
  BY <1>6 DEF HidClosed, PairingRequest, Layers, NoDeadEnd
<1>7. CASE HidOpened
  BY <1>0, <1>7, OpenedResult DEF NoDeadEnd
<1>8. CASE BuildReport \/ MarkRequested \/ AskToSend \/ CanSendNow \/ RetryTime \/ SendTime
  <2>1. /\ b'.started = b.started /\ b'.havePeer = b.havePeer
        /\ b'.connected = b.connected /\ b'.attempts = b.attempts
        /\ b'.pending = b.pending /\ b'.inProgress = b.inProgress
    BY <1>0, <1>8 DEF BuildReport, MarkRequested, AskToSend, CanSendNow, RetryTime,
                      SendTime, Statics
  <2>2. acl' = acl /\ dialing' = dialing /\ (pc \in {"dial", "dialed"} => pc' = pc)
    BY <1>8 DEF BuildReport, MarkRequested, AskToSend, CanSendNow, RetryTime,
                SendTime, stack
  <2> QED
    BY <2>1, <2>2 DEF NoDeadEnd
<1>9. CASE BtHidInit \/ RadioRestart
  <2>1. ~b'.havePeer
    BY <1>0, <1>9 DEF BtHidInit, RadioRestart, Cleared, Layers, Statics
  <2> QED
    BY <2>1 DEF NoDeadEnd
<1>10. ASSUME NEW v \in Pads, StateFrame(v) \/ PadChanges(v) PROVE NoDeadEnd'
  BY <1>10 DEF StateFrame, PadChanges, NoDeadEnd, stack
<1> QED
  BY <1>1, <1>2, <1>3, <1>4, <1>5, <1>6, <1>7, <1>8, <1>9, <1>10
     DEF Next, MainLoop, Events

\* Every step preserves the invariant.
LEMMA NextHidInv == HidInv /\ [Next]_vars => HidInv'
<1>1. HidInv /\ UNCHANGED vars => HidInv'
  BY DEF vars, HidInv, TypeOK, MayCount, Layers, NoLostWakeup, NoDeadEnd
<1> QED
  BY <1>1, TypeStep, CountStep, LayersStep, WakeupStep, DeadEndStep DEF HidInv

\* What holds in every reachable state.
THEOREM HidInvHolds == Spec => []HidInv
  BY InitHidInv, NextHidInv, PTL DEF Spec

\* Every variable has its type; in particular the count of attempts stays
\* within its limit although events reset it while the loop counts.
THEOREM HidTyped == Spec => []TypeOK
<1>1. HidInv => TypeOK
  BY DEF HidInv
<1> QED
  BY <1>1, HidInvHolds, PTL

\* While bt_hid_send_requested holds back reports on an open channel, the event
\* that clears it is owed or about to be asked for.
THEOREM WakeupIsOwed == Spec => []NoLostWakeup
<1>1. HidInv => NoLostWakeup
  BY DEF HidInv
<1> QED
  BY <1>1, HidInvHolds, PTL

\* A known host that is not connected has a retry scheduled, a call under way or
\* a link left to end, until the attempts are used up.
THEOREM NeverGivenUp == Spec => []NoDeadEnd
<1>1. HidInv => NoDeadEnd
  BY DEF HidInv
<1> QED
  BY <1>1, HidInvHolds, PTL

-----------------------------------------------------------------------------
(* The input path: how long a button can stay held, for any fields,        *)
(* timeout and clock.  The argument follows one packet from the turn in    *)
(* which it arrives.  A turn that reads the clock after it judges it fresh *)
(* and arms the edge, which takes a turn no longer than the timeout; the   *)
(* first turn that finds it old clears the pad.  The interrupt may come    *)
(* anywhere between.                                                       *)

\* Nothing shorter than the clock is lost in it.
Steady == InputPathAssumption /\ MaxGap <= Timeout

Held == usbPad # Neutral /\ last # 0

\* The stamps tell the true age as long as the clock has not wrapped over it.
Stamps ==
    /\ age < AgeCap /\ age < ClockModulus => Minus(clock, last) = age
    /\ usbPc = "judge" /\ ~raced /\ age < AgeCap /\ age - gap < ClockModulus =>
           Minus(now, last) = age - gap
    /\ raced => age <= gap
    /\ ~raced => gap <= age

\* A pad held since before the last reading of the clock ...
HeldSince ==
    Held /\ ~raced =>
        \* ... is to be judged: too old only if the edge is armed,
        /\ usbPc = "judge" => /\ age - gap <= Timeout + MaxGap
                              /\ zeroed => age - gap <= Timeout
        \* ... is being cleared,
        /\ usbPc = "clear" => age - gap <= Timeout + MaxGap
        \* ... or was judged fresh, which armed the edge.
        /\ usbPc \notin {"judge", "clear"} => age - gap <= Timeout /\ ~zeroed

ClearedSoFar == usbPc = "clear" /\ ~raced => \A i \in 1 .. field - 1 : usbPad[i] = 0

PadInv == UsbTypeOK /\ Stamps /\ ClearedSoFar
Edge == PadInv /\ HeldSince

-----------------------------------------------------------------------------
(* The clock.                                                              *)

LEMMA Difference ==
  ASSUME InputPathAssumption,
         NEW t \in 0 .. ClockModulus - 1, NEW s \in 0 .. ClockModulus - 1
  PROVE  Minus(t, s) = IF t >= s THEN t - s ELSE t - s + ClockModulus
  BY DEF InputPathAssumption, Minus

LEMMA Successor ==
  ASSUME InputPathAssumption, NEW a \in 0 .. ClockModulus - 1
  PROVE  (a + 1) % ClockModulus = IF a = ClockModulus - 1 THEN 0 ELSE a + 1
  BY DEF InputPathAssumption

LEMMA Numbers ==
  InputPathAssumption =>
    /\ ClockModulus \in Nat /\ ClockModulus > Timeout + MaxGap + 1
    /\ Timeout \in Nat /\ MaxGap \in Nat
    /\ AgeCap = Timeout + 2 * MaxGap + 2
    /\ Len(Fields) \in Nat /\ Len(Fields) > 0
  BY DEF InputPathAssumption, AgeCap

LEMMA PadTypes ==
  InputPathAssumption => Neutral \in PadStates /\ Packets \subseteq PadStates
  BY DEF InputPathAssumption, Neutral, PadStates, Packets

\* What the types say of the numbers.
Ranges ==
    /\ ClockModulus \in Nat /\ ClockModulus > Timeout + MaxGap + 1
    /\ Timeout \in Nat /\ MaxGap \in Nat /\ AgeCap = Timeout + 2 * MaxGap + 2
    /\ Len(Fields) \in Nat /\ Len(Fields) > 0
    /\ clock \in 0 .. ClockModulus - 1 /\ last \in 0 .. ClockModulus - 1
    /\ now \in 0 .. ClockModulus - 1
    /\ age \in 0 .. AgeCap /\ gap \in 0 .. MaxGap /\ field \in 1 .. Len(Fields)

LEMMA InRanges == ASSUME InputPathAssumption, PadInv PROVE Ranges
<1>1. /\ clock \in 0 .. ClockModulus - 1 /\ last \in 0 .. ClockModulus - 1
      /\ now \in 0 .. ClockModulus - 1
      /\ age \in 0 .. AgeCap /\ gap \in 0 .. MaxGap /\ field \in 1 .. Len(Fields)
  BY Zenon DEF PadInv, UsbTypeOK
<1> QED
  BY <1>1, Numbers, Zenon DEF Ranges

LEMMA InitEdge == InputPathAssumption /\ UsbInit => Edge
<1> SUFFICES ASSUME InputPathAssumption, UsbInit PROVE Edge
  OBVIOUS
<1>1. UsbTypeOK
  <2>1. zeroed \in BOOLEAN /\ raced \in BOOLEAN
    BY DEF UsbInit
  <2>2. /\ clock \in 0 .. ClockModulus - 1 /\ last \in 0 .. ClockModulus - 1
        /\ now \in 0 .. ClockModulus - 1 /\ field \in 1 .. Len(Fields)
        /\ age \in 0 .. AgeCap /\ gap \in 0 .. MaxGap
    BY Numbers DEF UsbInit
  <2>3. usbPad \in PadStates /\ draft \in PadStates /\ usbSent \in PadStates \cup {NotSent}
        /\ usbPc = "usb"
    BY PadTypes DEF UsbInit
  <2> QED
    BY <2>1, <2>2, <2>3 DEF UsbTypeOK
<1> QED
  BY <1>1, Numbers DEF UsbInit, Edge, PadInv, Stamps, ClearedSoFar, HeldSince, Held

-----------------------------------------------------------------------------
(* The interrupt and the clock.                                            *)

\* A packet is younger than the last reading of the clock.
LEMMA ReceiveEdge ==
  ASSUME InputPathAssumption, PadInv, NEW p \in Packets, Receive(p)
  PROVE  PadInv' /\ HeldSince'
<1>0. Ranges
  BY InRanges
<1>1. UsbTypeOK'
  <2>1. /\ usbPad' \in PadStates /\ last' \in 0 .. ClockModulus - 1
        /\ age' \in 0 .. AgeCap
    BY <1>0, PadTypes DEF Ranges, Receive
  <2>2. raced' \in BOOLEAN
    BY DEF Receive
  <2> QED
    BY <2>1, <2>2, Zenon DEF Receive, main, PadInv, UsbTypeOK
<1>2. Minus(clock, clock) = 0
  BY Difference DEF PadInv, UsbTypeOK
<1>3. Stamps'
  <2>1. Minus(clock', last') = Minus(clock, clock)
    BY DEF Receive, Minus
  <2> QED
    BY <1>2, <2>1 DEF Receive, main, PadInv, UsbTypeOK, Stamps
<1> QED
  BY <1>1, <1>3 DEF Receive, main, PadInv, ClearedSoFar, HeldSince

LEMMA TickEdge == ASSUME InputPathAssumption, PadInv, Tick PROVE PadInv' /\ (HeldSince => HeldSince')
<1>0. Ranges
  BY InRanges
<1>1. /\ clock' = IF clock = ClockModulus - 1 THEN 0 ELSE clock + 1
      /\ gap' = gap + 1 /\ gap < MaxGap
      /\ age' = IF age < AgeCap THEN age + 1 ELSE age
      /\ UNCHANGED <<usbPad, last, raced, usbPc, field, draft, usbSent, now, zeroed>>
  BY <1>0, Successor DEF Ranges, Tick, main
<1>2. UsbTypeOK'
  <2>1. clock' \in 0 .. ClockModulus - 1 /\ gap' \in 0 .. MaxGap /\ age' \in 0 .. AgeCap
    BY <1>1, <1>0 DEF Ranges
  <2> QED
    BY <1>1, <2>1, Zenon DEF PadInv, UsbTypeOK
<1>3. ASSUME age' < AgeCap, age' < ClockModulus PROVE Minus(clock', last') = age'
  <2>1. Minus(clock, last) = age /\ age' = age + 1
    BY <1>1, <1>3, <1>0 DEF Ranges, PadInv, Stamps
  <2>2. /\ clock \in 0 .. ClockModulus - 1 /\ last \in 0 .. ClockModulus - 1
        /\ clock' \in 0 .. ClockModulus - 1 /\ last' = last
        /\ ClockModulus \in Nat /\ age \in Nat
    BY <1>0, <1>1 DEF Ranges
  <2>3. Minus(clock, last) = IF clock >= last THEN clock - last ELSE clock - last + ClockModulus
    BY <2>2, Difference
  <2>4. Minus(clock', last') =
          IF clock' >= last THEN clock' - last ELSE clock' - last + ClockModulus
    BY <2>2, Difference
  <2> QED
    BY <1>1, <1>3, <2>1, <2>2, <2>3, <2>4
<1>4. Stamps'
  BY <1>0, <1>1, <1>3 DEF Ranges, PadInv, Stamps, Minus
<1>5. ClearedSoFar'
  BY <1>1 DEF PadInv, ClearedSoFar
<1>6. age' - gap' <= age - gap
  BY <1>0, <1>1 DEF Ranges
<1>7. /\ age \in Nat /\ gap \in Nat /\ age' \in Nat /\ gap' \in Nat
      /\ Timeout \in Nat /\ MaxGap \in Nat
  BY <1>0, <1>1 DEF Ranges
<1>8. HeldSince => HeldSince'
  BY <1>1, <1>6, <1>7 DEF HeldSince, Held
<1> QED
  BY <1>2, <1>4, <1>5, <1>8 DEF PadInv

-----------------------------------------------------------------------------
(* The main loop.                                                          *)

\* Up to the watchdog the loop only looks at the pad.
LEMMA ReportEdge ==
  ASSUME InputPathAssumption, PadInv,
         \/ UsbTask \/ UsbReset \/ UsbReady \/ UsbBusy
         \/ BuildField \/ SendReport \/ NothingSent
  PROVE  PadInv' /\ (HeldSince => HeldSince')
<1>0. Ranges
  BY InRanges
<1>1. /\ UNCHANGED <<clock, usbPad, last, now, age, gap, raced, zeroed>>
      /\ usbPc \notin {"judge", "clear"} /\ usbPc' \in {"usb", "xinput", "build", "send", "clock"}
      /\ field' \in 1 .. Len(Fields) /\ draft' \in PadStates
      /\ usbSent' \in PadStates \cup {NotSent}
  <2>1. CASE UsbTask \/ UsbReset \/ UsbBusy \/ NothingSent \/ SendReport
    BY <2>1 DEF UsbTask, UsbReset, UsbBusy, NothingSent, SendReport, PadInv, UsbTypeOK
  <2>2. CASE UsbReady
    <3>1. field' \in 1 .. Len(Fields)
      BY <1>0, <2>2 DEF Ranges, UsbReady
    <3> QED
      BY <2>2, <3>1 DEF UsbReady, PadInv, UsbTypeOK
  <2>3. CASE BuildField
    <3>1. usbPad[field] \in Levels
      BY DEF PadInv, UsbTypeOK, PadStates
    <3>2. draft' \in PadStates
      BY <2>3, <3>1 DEF BuildField, PadInv, UsbTypeOK, PadStates
    <3>3. field' \in 1 .. Len(Fields) /\ usbPc' \in {"build", "send"} /\ usbPc = "build"
      BY <2>3, <1>0 DEF Ranges, BuildField
    <3> QED
      BY <2>3, <3>2, <3>3 DEF BuildField, PadInv, UsbTypeOK
  <2> QED
    BY <2>1, <2>2, <2>3
<1>2. UsbTypeOK'
  BY <1>1 DEF PadInv, UsbTypeOK
<1>3. Stamps'
  BY <1>1 DEF PadInv, Stamps, Minus
<1> QED
  BY <1>1, <1>2, <1>3 DEF PadInv, ClearedSoFar, HeldSince, Held

\* The turn's reading of the clock: a packet that came since the last reading is
\* younger than a turn, so it will be judged fresh.
LEMMA ReadingEdge ==
  ASSUME InputPathAssumption, PadInv, WatchdogClock
  PROVE  PadInv' /\ (MaxGap <= Timeout /\ HeldSince => HeldSince')
<1>0. Ranges
  BY InRanges
<1>1. /\ usbPc = "clock" /\ usbPc' = "judge" /\ now' = clock /\ gap' = 0 /\ raced' = FALSE
      /\ UNCHANGED <<clock, usbPad, last, zeroed, field, draft, usbSent, age>>
  BY DEF WatchdogClock
<1>2. UsbTypeOK'
  <2>1. raced' \in BOOLEAN /\ zeroed' \in BOOLEAN
    BY <1>1, Zenon DEF PadInv, UsbTypeOK
  <2>2. gap' \in 0 .. MaxGap
    BY <1>1, Numbers
  <2> QED
    BY <1>1, <2>1, <2>2, Zenon DEF PadInv, UsbTypeOK
<1>3. Stamps'
  BY <1>1, <1>0 DEF Ranges, PadInv, Stamps, Minus
<1>4. ASSUME MaxGap <= Timeout, HeldSince, Held
      PROVE  age <= Timeout + MaxGap /\ (zeroed => age <= Timeout)
  <2>1. CASE raced
    BY <1>4, <2>1, <1>0 DEF Ranges, PadInv, Stamps
  <2>2. CASE ~raced
    BY <1>1, <1>4, <2>2, <1>0 DEF Ranges, PadInv, HeldSince
  <2> QED
    BY <2>1, <2>2
<1>5. age \in Nat /\ Held' = Held
  BY <1>1, <1>0 DEF Ranges, PadInv, Held
<1> QED
  BY <1>1, <1>2, <1>3, <1>4, <1>5 DEF PadInv, ClearedSoFar, HeldSince

\* The judgement: what it reads is the true age if the pad is held.
LEMMA JudgeEdge ==
  ASSUME InputPathAssumption, PadInv, WatchdogJudge
  PROVE  PadInv' /\ (HeldSince => HeldSince')
<1>0. Ranges
  BY InRanges
<1>1. /\ usbPc = "judge" /\ zeroed' = Stale /\ field' = 1
      /\ usbPc' = IF Stale /\ ~zeroed THEN "clear" ELSE "usb"
      /\ UNCHANGED <<clock, usbPad, last, draft, usbSent, now, age, gap, raced>>
  BY DEF WatchdogJudge
<1>2. UsbTypeOK'
  <2>1. zeroed' \in BOOLEAN
    BY <1>1 DEF Stale
  <2>2. field' \in 1 .. Len(Fields)
    BY <1>0, <1>1 DEF Ranges
  <2> QED
    BY <1>1, <2>1, <2>2, Zenon DEF PadInv, UsbTypeOK
<1>3. Stamps'
  BY <1>1 DEF PadInv, Stamps, Minus
<1>4. ClearedSoFar'
  BY <1>1, <1>0 DEF Ranges, ClearedSoFar
<1>5. ASSUME HeldSince, Held, ~raced
      PROVE  /\ age - gap <= Timeout + MaxGap
             /\ zeroed => age - gap <= Timeout
             /\ Minus(now, last) = age - gap
  BY <1>1, <1>5, <1>0 DEF Ranges, PadInv, Stamps, HeldSince
<1>6. ASSUME HeldSince, Held, ~raced PROVE Stale <=> age - gap > Timeout
  BY <1>5, <1>6 DEF Stale, Held
<1>7. ASSUME HeldSince PROVE HeldSince'
  <2> SUFFICES ASSUME Held, ~raced PROVE HeldSince'
    BY <1>1 DEF HeldSince, Held
  <2>1. age - gap <= Timeout + MaxGap /\ (zeroed => age - gap <= Timeout)
        /\ (Stale <=> age - gap > Timeout)
    BY <1>5, <1>6, <1>7
  <2>2. CASE Stale
    <3>1. ~zeroed
      BY <1>0, <2>1, <2>2 DEF Ranges
    <3>2. usbPc' = "clear"
      BY <1>1, <2>2, <3>1
    <3> QED
      BY <1>1, <2>1, <3>2 DEF HeldSince
  <2>3. CASE ~Stale
    <3>1. usbPc' = "usb" /\ ~zeroed' /\ age - gap <= Timeout
      BY <1>0, <1>1, <2>1, <2>3 DEF Ranges
    <3> QED
      BY <1>1, <3>1 DEF HeldSince
  <2> QED
    BY <2>2, <2>3
<1> QED
  BY <1>2, <1>3, <1>4, <1>7 DEF PadInv

\* A clearing that no packet interrupts leaves nothing held.
LEMMA ClearEdge ==
  ASSUME InputPathAssumption, PadInv, WatchdogClear
  PROVE  PadInv' /\ (HeldSince => HeldSince')
<1>1. /\ usbPc = "clear" /\ usbPad' = [usbPad EXCEPT ![field] = 0]
      /\ UNCHANGED <<clock, last, zeroed, draft, usbSent, now, age, gap, raced>>
      /\ \/ field < Len(Fields) /\ field' = field + 1 /\ usbPc' = "clear"
         \/ ~(field < Len(Fields)) /\ field' = 1 /\ usbPc' = "usb"
  BY DEF WatchdogClear
<1>2. 0 \in Levels /\ Len(Fields) \in Nat /\ field \in 1 .. Len(Fields)
      /\ usbPad \in [1 .. Len(Fields) -> Levels]
  BY Numbers DEF InputPathAssumption, PadInv, UsbTypeOK, PadStates
<1>3. usbPad' \in PadStates /\ field' \in 1 .. Len(Fields)
  BY <1>1, <1>2 DEF PadStates
<1>4. UsbTypeOK'
  BY <1>1, <1>3 DEF PadInv, UsbTypeOK
<1>5. Stamps'
  BY <1>1 DEF PadInv, Stamps, Minus
<1>6. ASSUME ~raced PROVE \A i \in 1 .. field : usbPad'[i] = 0
  BY <1>1, <1>2, <1>6 DEF PadInv, ClearedSoFar
<1>7. ClearedSoFar'
  BY <1>1, <1>2, <1>6 DEF ClearedSoFar
<1>8. ASSUME ~raced, ~(field < Len(Fields)) PROVE usbPad' = Neutral
  <2>1. field = Len(Fields)
    BY <1>2, <1>8
  <2> QED
    BY <1>3, <1>6, <1>8, <2>1 DEF PadStates, Neutral
<1>9. usbPad = Neutral => usbPad' = Neutral
  BY <1>1, <1>2 DEF Neutral
<1>10. HeldSince => HeldSince'
  <2> SUFFICES ASSUME HeldSince, Held', ~raced PROVE HeldSince'
    BY <1>1 DEF HeldSince
  <2>1. Held /\ usbPc' = "clear"
    BY <1>1, <1>8, <1>9 DEF Held
  <2>2. age - gap <= Timeout + MaxGap
    BY <1>1, <2>1 DEF HeldSince
  <2> QED
    BY <1>1, <2>1, <2>2 DEF HeldSince
<1> QED
  BY <1>4, <1>5, <1>7, <1>10 DEF PadInv

-----------------------------------------------------------------------------

LEMMA NextPadInv == InputPathAssumption /\ PadInv /\ [UsbNext]_usbVars => PadInv'
<1>1. ASSUME PadInv, UNCHANGED usbVars PROVE PadInv'
  BY <1>1 DEF usbVars, PadInv, UsbTypeOK, Stamps, ClearedSoFar, Minus
<1> QED
  BY <1>1, ReceiveEdge, TickEdge, ReportEdge, ReadingEdge, JudgeEdge, ClearEdge
  DEF UsbNext, Reception, UsbLoop

LEMMA NextEdge == Steady /\ Edge /\ [UsbNext]_usbVars => Edge'
<1>1. ASSUME HeldSince, UNCHANGED usbVars PROVE HeldSince'
  BY <1>1 DEF usbVars, HeldSince, Held
<1> QED
  BY <1>1, NextPadInv, ReceiveEdge, TickEdge, ReportEdge, ReadingEdge, JudgeEdge, ClearEdge
  DEF Steady, Edge, UsbNext, Reception, UsbLoop

\* For every timeout, turn and clock: what the watchdog judges stale is old, wherever
\* the clock wraps (watchdog.c:23).
THEOREM StaleMeansOld ==
  ASSUME InputPathAssumption PROVE UsbSpec => []StaleIsOld
<1>1. InputPathAssumption
  OBVIOUS
<1>2. InputPathAssumption /\ UsbInit => PadInv
  BY InitEdge DEF Edge
<1>3. PadInv => StaleIsOld
  <2> SUFFICES ASSUME PadInv, usbPc = "judge", Stale, ~raced, last # 0, ~(age > Timeout)
               PROVE  FALSE
    BY DEF StaleIsOld
  <2>1. Ranges
    BY <1>1, InRanges
  <2>2. Minus(now, last) = age - gap
    BY <2>1 DEF Ranges, PadInv, Stamps
  <2> QED
    BY <2>1, <2>2 DEF Ranges, Stale
<1> QED
  BY <1>1, <1>2, <1>3, NextPadInv, PTL DEF UsbSpec

\* If no turn of the loop takes longer than the timeout, no button is held for longer
\* than the timeout and two turns (watchdog.c:18-46).
THEOREM ReleaseIsTimely ==
  ASSUME Steady PROVE UsbSpec => []ReleasedInTime
<1>1. Steady /\ InputPathAssumption
  BY DEF Steady
<1>2. Edge => ReleasedInTime
  <2> SUFFICES ASSUME Edge, Held PROVE age <= Timeout + 2 * MaxGap
    <3>1. Edge => age \in Nat /\ Timeout \in Nat /\ MaxGap \in Nat
      BY <1>1, InRanges DEF Edge, Ranges
    <3> QED
      BY <3>1 DEF ReleasedInTime, Held
  <2>1. Ranges
    BY <1>1, InRanges DEF Edge
  <2>2. CASE raced
    BY <2>1, <2>2 DEF Ranges, Edge, PadInv, Stamps
  <2>3. CASE ~raced
    BY <2>1, <2>3 DEF Ranges, Edge, HeldSince
  <2> QED
    BY <2>2, <2>3
<1> QED
  BY <1>1, <1>2, InitEdge, NextEdge, PTL DEF UsbSpec

-----------------------------------------------------------------------------
(* The Wi-Fi link.  A bounce to setup mode names a refused password only   *)
(* where the last of the attempts it counts was refused: what the watch of *)
(* the main loop has seen is tied to what the join has recorded, through   *)
(* every order of the radio, the task and the loop.                        *)

\* The password is the reason why the Pico is not on the network.
Rejected == ~Bluetooth /\ wifiState # "joined" /\ lastError = "auth"

\* What the join has recorded, and what the watch of the main loop made of it:
\* an idle radio remembers no failure, a recorded rejection is one of this
\* absence from the network, and a bounce came from one.
WifiInv ==
    /\ WifiTypeOK
    /\ wifiState = "idle" => failures = 0 /\ lastError = "none"
    /\ wifiState = "joining" => failures < DeinitAfterFails
    /\ Rejected => rejections > 0
    /\ bounced => Rejected

\* The delays are what retryIn counts down from.
LEMMA DelayTypes ==
  /\ LongDelay \in Nat /\ LongDelay > 0 /\ JoinLimit \in Nat /\ RegrabDelay \in Nat
  /\ BadAuthLimit \in Nat /\ DeinitAfterFails \in Nat /\ DeinitAfterFails > 0
  /\ Bluetooth \in BOOLEAN
  /\ InitDelay \in 0..LongDelay /\ ShortDelay \in 0..LongDelay
  /\ DropDelay \in 0..LongDelay /\ LongDelay \in 0..LongDelay
<1>1. {DropDelay, InitDelay, ShortDelay, LongDelay} \subseteq 1..LongDelay
  BY WifiJoinAssumption DEF Delays
<1>2. /\ DropDelay \in 1..LongDelay /\ InitDelay \in 1..LongDelay
      /\ ShortDelay \in 1..LongDelay /\ LongDelay \in 1..LongDelay
  BY <1>1
<1> QED
  BY <1>2, WifiJoinAssumption

\* A clock that stops one past its limit.
LEMMA GrowType ==
  ASSUME NEW cap \in Nat, NEW t \in 0..cap + 1
  PROVE  Grow(t, cap) \in 0..cap + 1
  BY DEF Grow

LEMMA InitWifiInv == WifiInit => WifiInv
<1> SUFFICES ASSUME WifiInit PROVE WifiInv
  OBVIOUS
<1>1. 0 \in 0..LongDelay /\ 0 \in 0..JoinLimit + 1 /\ 0 \in 0..DeinitAfterFails
      /\ 0 \in 0..RegrabDelay + 1 /\ 0 \in 0..BadAuthLimit + 1
  BY DelayTypes
<1>2. /\ wifiState = "idle" /\ lastError = "none" /\ observed = "idle" /\ wifiLink = "down"
      /\ lease = "sought" /\ air \in {"good", "bad"}
      /\ noIpArmed = FALSE /\ badAuthArmed = FALSE /\ bounced = FALSE
      /\ assocLogged = FALSE /\ wedged = FALSE /\ turned = FALSE
      /\ retryIn = 0 /\ joinAge = 0 /\ failures = 0 /\ noIpFor = 0 /\ badAuthFor = 0
      /\ rejections = 0
  BY DEF WifiInit
<1>3. WifiTypeOK
  <2>1. rejections \in 0..2
    BY <1>2
  <2>2. /\ retryIn \in 0..LongDelay /\ joinAge \in 0..JoinLimit + 1
        /\ failures \in 0..DeinitAfterFails /\ noIpFor \in 0..RegrabDelay + 1
        /\ badAuthFor \in 0..BadAuthLimit + 1
    BY <1>1, <1>2
  <2> QED
    BY <1>2, <2>1, <2>2, Zenon DEF WifiTypeOK
<1> QED
  BY <1>3 DEF WifiInit, WifiInv, Rejected

\* What a turn of wifi.c makes of the join: an error that names the password comes
\* only from an attempt, and goes only with another error.
JoinTypes ==
    /\ wifiState \in {"idle", "joining", "joined", "failed"}
    /\ lastError \in {"none", "no_network", "auth", "internal", "timeout"}
    /\ retryIn \in 0 .. LongDelay
    /\ joinAge \in 0 .. JoinLimit + 1
    /\ failures \in 0 .. DeinitAfterFails
    /\ noIpArmed \in BOOLEAN /\ noIpFor \in 0 .. RegrabDelay + 1
    /\ wifiLink \in {"down", "negotiating", "up", "no_network", "bad_auth", "fail"}
    /\ lease \in {"held", "sought", "lost"}
    /\ wedged \in BOOLEAN
    /\ wifiState = "idle" => failures = 0 /\ lastError = "none"
    /\ wifiState = "joining" => failures < DeinitAfterFails

\* Where a rejection comes from: the password was rejected before this turn, or it
\* is rejected in it.
RejectionIsOld ==
    wifiState' # "joined" /\ lastError' = "auth" =>
        \/ wifiState # "joined" /\ lastError = "auth"
        \/ wifiState = "joining" /\ wifiState' = "failed"

LEMMA JoinStep ==
  ASSUME JoinTypes, StartJoin \/ WifiTask
  PROVE  JoinTypes' /\ RejectionIsOld
<1> USE DelayTypes DEF JoinTypes, RejectionIsOld
<1>1. CASE StartJoin
  BY <1>1 DEF StartJoin, Connect, FailAndCount, Fail
<1>2. CASE LinkDropped
  <2>1. 0 \in 0..JoinLimit + 1 /\ 0 \in 0..RegrabDelay + 1
    OBVIOUS
  <2> QED
    BY <1>2, <2>1 DEF LinkDropped, Fail
<1>3. CASE WatchLease
  <2>1. 0 \in 0..RegrabDelay + 1
    OBVIOUS
  <2>2. /\ noIpArmed' \in BOOLEAN /\ noIpFor' \in 0..RegrabDelay + 1
        /\ lease' \in {"held", "sought", "lost"}
    BY <1>3, <2>1 DEF WatchLease
  <2>3. UNCHANGED <<wifiState, lastError, retryIn, joinAge, failures, wifiLink, wedged>>
    BY <1>3 DEF WatchLease
  <2> QED
    BY <2>2, <2>3
<1>4. CASE JoinSucceeds
  BY <1>4 DEF JoinSucceeds
<1>5. CASE JoinRefused
  BY <1>5 DEF JoinRefused, FailAndCount, Fail
<1>6. CASE JoinGoesOn
  BY <1>6 DEF JoinGoesOn, FailAndCount, Fail
<1>7. CASE Wait
  BY <1>7 DEF Wait, wifi
<1>8. CASE ReinitFails
  BY <1>8 DEF ReinitFails
<1>9. CASE Retry
  BY <1>9 DEF Retry, Connect, Fail
<1> QED
  BY <1>1, <1>2, <1>3, <1>4, <1>5, <1>6, <1>7, <1>8, <1>9 DEF WifiTask

\* A turn of the loop keeps the invariant: the watchdog fires on a rejection only.
LEMMA TurnKeeps == WifiInv /\ Turn => WifiInv'
<1> SUFFICES ASSUME WifiInv, Turn PROVE WifiInv'
  OBVIOUS
<1>1. JoinTypes' /\ RejectionIsOld
  BY JoinStep DEF Turn, WifiInv, WifiTypeOK, JoinTypes
<1>2. rejections \in 0..2 /\ (Rejected => rejections > 0)
  BY DEF WifiInv, WifiTypeOK
<1>3. Rejected' => rejections' \in 1..2
  BY <1>1, <1>2 DEF Turn, BadAuthWatch, Rejected, RejectionIsOld, Min2
<1>4. ~Rejected' => rejections' = 0
  BY DEF Turn, BadAuthWatch, Rejected
<1>5. badAuthArmed' \in BOOLEAN /\ badAuthFor' \in 0..BadAuthLimit + 1
  BY DelayTypes DEF Turn, BadAuthWatch, WifiInv, WifiTypeOK
<1>6. bounced' \in BOOLEAN /\ (bounced' => Rejected')
  BY DEF Turn, BadAuthWatch, Rejected
<1>7. UNCHANGED air /\ turned' = TRUE
  BY DEF Turn
<1>8. /\ observed' \in {"idle", "joining", "joined", "failed"}
      /\ assocLogged' \in BOOLEAN
  BY <1>1 DEF Turn, Heartbeat, JoinTypes, WifiInv, WifiTypeOK
<1> QED
  BY <1>1, <1>3, <1>4, <1>5, <1>6, <1>7, <1>8 DEF WifiInv, WifiTypeOK, JoinTypes

\* Time goes by the clocks only.
LEMMA WifiTickKeeps == WifiInv /\ WifiTick => WifiInv'
<1> SUFFICES ASSUME WifiInv, WifiTick PROVE WifiInv'
  OBVIOUS
<1>1. /\ wifiState' = wifiState /\ lastError' = lastError /\ failures' = failures
      /\ noIpArmed' = noIpArmed /\ badAuthArmed' = badAuthArmed /\ bounced' = bounced
      /\ observed' = observed /\ assocLogged' = assocLogged /\ rejections' = rejections
      /\ air' = air /\ wifiLink' = wifiLink /\ lease' = lease /\ wedged' = wedged
      /\ turned' = FALSE
  BY DEF WifiTick, outside
<1>2. retryIn' \in 0..LongDelay
  BY DelayTypes DEF WifiTick, WifiInv, WifiTypeOK
<1>3. joinAge' \in 0..JoinLimit + 1
  <2>1. joinAge \in 0..JoinLimit + 1 /\ JoinLimit \in Nat
    BY DelayTypes DEF WifiInv, WifiTypeOK
  <2>2. Grow(joinAge, JoinLimit) \in 0..JoinLimit + 1 /\ 0 \in 0..JoinLimit + 1
    BY <2>1, GrowType
  <2>3. joinAge' = Grow(joinAge, JoinLimit) \/ joinAge' = 0
    BY DEF WifiTick
  <2> QED
    BY <2>2, <2>3
<1>4. noIpFor' \in 0..RegrabDelay + 1
  <2>1. noIpFor \in 0..RegrabDelay + 1 /\ RegrabDelay \in Nat
    BY DelayTypes DEF WifiInv, WifiTypeOK
  <2>2. Grow(noIpFor, RegrabDelay) \in 0..RegrabDelay + 1 /\ 0 \in 0..RegrabDelay + 1
    BY <2>1, GrowType
  <2>3. noIpFor' = Grow(noIpFor, RegrabDelay) \/ noIpFor' = 0
    BY DEF WifiTick
  <2> QED
    BY <2>2, <2>3
<1>5. badAuthFor' \in 0..BadAuthLimit + 1
  <2>1. badAuthFor \in 0..BadAuthLimit + 1 /\ BadAuthLimit \in Nat
    BY DelayTypes DEF WifiInv, WifiTypeOK
  <2>2. Grow(badAuthFor, BadAuthLimit) \in 0..BadAuthLimit + 1 /\ 0 \in 0..BadAuthLimit + 1
    BY <2>1, GrowType
  <2>3. badAuthFor' = Grow(badAuthFor, BadAuthLimit) \/ badAuthFor' = 0
    BY DEF WifiTick
  <2> QED
    BY <2>2, <2>3
<1>6. WifiTypeOK'
  <2>1. /\ wifiState' \in {"idle", "joining", "joined", "failed"}
        /\ lastError' \in {"none", "no_network", "auth", "internal", "timeout"}
        /\ failures' \in 0..DeinitAfterFails /\ noIpArmed' \in BOOLEAN
        /\ badAuthArmed' \in BOOLEAN /\ bounced' \in BOOLEAN
        /\ observed' \in {"idle", "joining", "joined", "failed"} /\ assocLogged' \in BOOLEAN
    BY <1>1 DEF WifiInv, WifiTypeOK
  <2>2. /\ rejections' \in 0..2 /\ air' \in {"good", "bad"}
        /\ wifiLink' \in {"down", "negotiating", "up", "no_network", "bad_auth", "fail"}
        /\ lease' \in {"held", "sought", "lost"} /\ wedged' \in BOOLEAN
        /\ turned' \in BOOLEAN
    BY <1>1 DEF WifiInv, WifiTypeOK
  <2> QED
    BY <1>2, <1>3, <1>4, <1>5, <2>1, <2>2 DEF WifiTypeOK
<1> QED
  BY <1>1, <1>6 DEF WifiInv, Rejected

\* Nothing outside names a reason.
LEMMA OutsideKeeps ==
  ASSUME WifiInv,
         \/ AirChanges \/ LinkComesUp \/ LinkRefused \/ LinkLost \/ LeaseLost
         \/ LeaseGranted \/ RadioWedges
  PROVE  WifiInv'
<1> USE DEF wifi, loop, WifiInv, WifiTypeOK, Rejected
<1>1. CASE AirChanges
  BY <1>1 DEF AirChanges
<1>2. CASE LinkComesUp
  BY <1>2 DEF LinkComesUp
<1>3. CASE LinkRefused
  BY <1>3 DEF LinkRefused
<1>4. CASE LinkLost
  BY <1>4 DEF LinkLost
<1>5. CASE LeaseLost
  BY <1>5 DEF LeaseLost
<1>6. CASE LeaseGranted
  BY <1>6 DEF LeaseGranted
<1>7. CASE RadioWedges
  BY <1>7 DEF RadioWedges
<1> QED
  BY <1>1, <1>2, <1>3, <1>4, <1>5, <1>6, <1>7

LEMMA NextWifiInv == WifiInv /\ [WifiNext]_wifiVars => WifiInv'
<1> SUFFICES ASSUME WifiInv, [WifiNext]_wifiVars PROVE WifiInv'
  OBVIOUS
<1>1. CASE UNCHANGED wifiVars
  BY <1>1 DEF wifiVars, wifi, loop, outside, WifiInv, WifiTypeOK, Rejected
<1> QED
  BY <1>1, TurnKeeps, WifiTickKeeps, OutsideKeeps DEF WifiNext

LEMMA WifiAlways == WifiSpec => []WifiInv
  BY InitWifiInv, NextWifiInv, PTL DEF WifiSpec

\* Every variable of the upkeep has its type, the count of failed joins included.
THEOREM WifiTyped == WifiSpec => []WifiTypeOK
  BY WifiAlways, PTL DEF WifiInv

\* The Pico leaves for setup mode only after its password was rejected and without
\* having been on the network since.
THEOREM BounceIsJust == WifiSpec => []BounceNamesTheReason
<1>1. WifiInv => BounceNamesTheReason
  BY DEF WifiInv, BounceNamesTheReason, Rejected
<1> QED
  BY <1>1, WifiAlways, PTL
=============================================================================
