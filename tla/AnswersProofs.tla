---------------------------- MODULE AnswersProofs -----------------------------
(***************************************************************************)
(* Theorems about how a Pico answers: the gate that limits unauthenticated *)
(* UDP replies (ReplyGate), the log readers it serves (LogHarvest), and    *)
(* the exchanges on the USB serial port (CdcExchange), each for every      *)
(* value of its constants.                                                 *)
(***************************************************************************)
EXTENDS LogHarvest, CdcExchange, FiniteSetTheorems, SequenceTheorems,
        WellFoundedInduction, TLAPS

-----------------------------------------------------------------------------
(* The reply gate never lets more through than a leaky bucket of the same  *)
(* size, for every interval, burst and width of the clock.  Inductive is   *)
(* what relates the two: an armed gate whose stamp lies ahead of the clock *)
(* lies ahead by at least what is in the bucket, and a stamp behind the    *)
(* clock, which reads as one far ahead, means an empty bucket.             *)

\* The inductive invariant.
GateInv ==
    /\ GateTypeOK
    /\ Rearms => bucket = 0
    /\ ~Rearms => bucket <= Ahead

\* uint32_t subtraction, by cases: the difference wraps once or not at all.
LEMMA ClockDifference ==
  \A x, y \in Clock :
     /\ (x - y) % ClockModulus \in Clock
     /\ (x - y) % ClockModulus = IF x >= y THEN x - y ELSE x - y + ClockModulus
  BY GateAssumption DEF Clock

\* uint32_t addition of something smaller than the modulus.
LEMMA ClockSum ==
  ASSUME NEW x \in Clock, NEW k \in Nat, k < ClockModulus
  PROVE  /\ (x + k) % ClockModulus \in Clock
         /\ (x + k) % ClockModulus =
                IF x + k < ClockModulus THEN x + k ELSE x + k - ClockModulus
  BY GateAssumption DEF Clock

\* What a tick does to the distance between a stamp x and the clock y.
LEMMA OneLess ==
  ASSUME NEW x \in Clock, NEW y \in Clock
  PROVE  LET far(t) == IF x >= t THEN x - t ELSE x - t + ClockModulus
             next == IF y + 1 < ClockModulus THEN y + 1 ELSE y + 1 - ClockModulus
         IN /\ far(y) \in Nat
            /\ far(next) = IF far(y) > 0 THEN far(y) - 1 ELSE ClockModulus - 1
  BY GateAssumption DEF Clock

\* A boot satisfies the inductive invariant.
LEMMA InitGateInv == GateInit => GateInv
  BY GateAssumption DEF GateInit, GateInv, GateTypeOK, Rearms, Clock

\* An answer moves the stamp ahead by one interval, and the bucket with it.
LEMMA AllowGateInv == GateInv /\ Allow => GateInv'
<1> SUFFICES ASSUME GateInv, Allow PROVE GateInv'
  OBVIOUS
<1> DEFINE start == IF Rearms THEN now ELSE gate.next
<1>1. now \in Clock /\ gate.next \in Clock /\ bucket \in Nat
  BY DEF GateInv, GateTypeOK
<1>2. start \in Clock
  BY <1>1
<1>3. Interval \in Nat /\ Interval < ClockModulus
  BY GateAssumption
<1>4. gate'.next = (start + Interval) % ClockModulus /\ gate'.armed = TRUE
       /\ now' = now /\ bucket' = bucket + Interval
  BY DEF Allow
<1>5. gate'.next \in Clock
       /\ gate'.next = IF start + Interval < ClockModulus THEN start + Interval
                       ELSE start + Interval - ClockModulus
  BY <1>2, <1>3, <1>4, ClockSum
<1>6. GateTypeOK'
  BY <1>1, <1>3, <1>4, <1>5 DEF Allow, GateTypeOK
<1>7. Ahead' = IF gate'.next >= now THEN gate'.next - now
               ELSE gate'.next - now + ClockModulus
  BY <1>1, <1>4, <1>5, ClockDifference DEF Ahead
<1>8. CASE Rearms
  <2>1. Ahead' = Interval
    BY <1>1, <1>5, <1>7, <1>8, GateAssumption DEF Clock
  <2>2. bucket' = Interval
    BY <1>1, <1>3, <1>4, <1>8 DEF GateInv
  <2> QED
    BY <1>4, <1>6, <2>1, <2>2, GateAssumption DEF GateInv, Rearms
<1>9. CASE ~Rearms
  <2>1. Ahead = IF gate.next >= now THEN gate.next - now
                ELSE gate.next - now + ClockModulus
    BY <1>1, ClockDifference DEF Ahead
  <2>2. Ahead \in Clock /\ Ahead <= Window - Interval /\ bucket <= Ahead
    BY <1>1, <1>9, ClockDifference DEF Ahead, Allow, Allows, GateInv
  <2>3. Ahead' = Ahead + Interval
    BY <1>1, <1>5, <1>7, <1>9, <2>1, <2>2, GateAssumption DEF Clock
  <2>4. Ahead' <= Window /\ bucket' <= Ahead'
    BY <1>1, <1>3, <1>4, <2>2, <2>3, GateAssumption DEF Clock
  <2> QED
    BY <1>4, <1>6, <2>2, <2>3, <2>4, GateAssumption DEF GateInv, Rearms, Clock
<1> QED
  BY <1>8, <1>9

\* A tick takes one from the distance and from the bucket; a stamp that the clock
\* passes, or that a long wait brings round again, finds the bucket empty.
LEMMA TickGateInv == GateInv /\ GateTick => GateInv'
<1> SUFFICES ASSUME GateInv, GateTick PROVE GateInv'
  OBVIOUS
<1>1. now \in Clock /\ gate.next \in Clock /\ bucket \in Nat
  BY DEF GateInv, GateTypeOK
<1>2. gate' = gate /\ now' = (now + 1) % ClockModulus
       /\ bucket' = IF bucket > 0 THEN bucket - 1 ELSE 0
  BY DEF GateTick
<1>3. now' \in Clock
       /\ now' = IF now + 1 < ClockModulus THEN now + 1 ELSE now + 1 - ClockModulus
  BY <1>1, <1>2, ClockSum, GateAssumption
<1>4. bucket' \in Nat
  BY <1>1, <1>2
<1>5. GateTypeOK'
  BY <1>2, <1>3, <1>4 DEF GateInv, GateTypeOK
<1>6. /\ Ahead = IF gate.next >= now THEN gate.next - now
                 ELSE gate.next - now + ClockModulus
      /\ Ahead' = IF gate.next >= now' THEN gate.next - now'
                  ELSE gate.next - now' + ClockModulus
  BY <1>1, <1>2, <1>3, ClockDifference DEF Ahead
<1>7. Ahead \in Nat /\ Ahead' = IF Ahead > 0 THEN Ahead - 1 ELSE ClockModulus - 1
  BY <1>1, <1>3, <1>6, OneLess
<1>8. CASE Rearms
  <2>1. bucket' = 0
    BY <1>2, <1>8 DEF GateInv
  <2>2. Ahead' \in Nat
    BY <1>7, GateAssumption
  <2> QED
    BY <1>5, <2>1, <2>2 DEF GateInv
<1>9. CASE ~Rearms
  <2>1. gate.armed /\ Ahead <= Window /\ bucket <= Ahead
    BY <1>7, <1>9, GateAssumption DEF Rearms, GateInv
  <2>2. CASE Ahead > 0
    <3>1. Ahead' = Ahead - 1 /\ bucket' <= Ahead' /\ ~(Ahead' > Window)
      BY <1>1, <1>2, <1>7, <2>1, <2>2, GateAssumption
    <3> QED
      BY <1>2, <1>5, <2>1, <3>1 DEF GateInv, Rearms
  <2>3. CASE Ahead = 0
    <3>1. Ahead' > Window /\ bucket' = 0
      BY <1>1, <1>2, <1>7, <2>1, <2>3, GateAssumption
    <3> QED
      BY <1>5, <3>1 DEF GateInv, Rearms
  <2> QED
    BY <1>7, <2>2, <2>3
<1> QED
  BY <1>8, <1>9

\* Every step of the gate preserves the inductive invariant.
LEMMA NextGateInv == GateInv /\ [GateNext]_gateVars => GateInv'
<1> SUFFICES ASSUME GateInv, [GateNext]_gateVars PROVE GateInv'
  OBVIOUS
<1>1. CASE Allow
  BY <1>1, AllowGateInv
<1>2. CASE GateTick
  BY <1>2, TickGateInv
<1>3. CASE UNCHANGED gateVars
  BY <1>3 DEF GateInv, GateTypeOK, Rearms, Ahead, gateVars
<1> QED
  BY <1>1, <1>2, <1>3 DEF GateNext, Refuse

\* The bound that the two constants of net_udp.c:147-148 are there for.
THEOREM AnswersAreLimited == GateSpec => []RateLimited
<1>1. GateInv => RateLimited
  <2> SUFFICES ASSUME GateInv PROVE RateLimited
    OBVIOUS
  <2>1. CASE Rearms
    BY <2>1, GateAssumption DEF GateInv, RateLimited
  <2>2. CASE ~Rearms
    <3>1. Ahead \in Clock /\ bucket \in Nat
      BY ClockDifference DEF GateInv, GateTypeOK, Ahead
    <3> QED
      BY <2>2, <3>1, GateAssumption DEF GateInv, Rearms, RateLimited, Clock
  <2> QED
    BY <2>1, <2>2
<1> QED
  BY <1>1, InitGateInv, NextGateInv, PTL DEF GateSpec

-----------------------------------------------------------------------------
(* The log readers.  Whatever they do, the answers of the firmware go      *)
(* through the gate: every step of LogHarvest is a step of ReplyGate or    *)
(* leaves the gate alone, so the bound holds for the whole exchange.       *)

\* A request that arrives is the only step that asks the gate.
LEMMA GetLogAsks ==
  ASSUME NEW r, NEW open, OnGetLog(r, open) PROVE GateNext
  BY DEF OnGetLog, SendLogChunks, DropReply, GateNext

\* Everything on the PC leaves the firmware alone.
LEMMA ReadersKeepGate ==
  ASSUME \/ EnsureSink \/ HarvestTick \/ HarvestEnds \/ HarvestRefused
         \/ CaptureSetupCdc \/ CaptureVendorControl \/ CaptureTarget
         \/ CaptureRunUdp \/ CaptureLogChunks
         \/ AskForPackets \/ HarvestPackets
  PROVE  UNCHANGED gateVars
<1>1. CASE EnsureSink
  BY <1>1 DEF EnsureSink, Quiet, pico, gateVars
<1>2. CASE HarvestTick
  BY <1>2 DEF HarvestTick, Quiet, pico, gateVars
<1>3. CASE HarvestEnds
  BY <1>3 DEF HarvestEnds, Quiet, pico, gateVars
<1>4. CASE HarvestRefused
  BY <1>4 DEF HarvestRefused, Quiet, pico, gateVars
<1>5. CASE CaptureSetupCdc
  BY <1>5 DEF CaptureSetupCdc, Quiet, pico, gateVars
<1>6. CASE CaptureVendorControl
  BY <1>6 DEF CaptureVendorControl, Quiet, pico, gateVars
<1>7. CASE CaptureTarget
  BY <1>7 DEF CaptureTarget, Quiet, pico, gateVars
<1>8. CASE CaptureRunUdp
  BY <1>8 DEF CaptureRunUdp, Quiet, pico, gateVars
<1>9. CASE CaptureLogChunks
  BY <1>9 DEF CaptureLogChunks, Quiet, pico, gateVars
<1>10. CASE AskForPackets
  BY <1>10 DEF AskForPackets, Quiet, pico, gateVars
<1>11. CASE HarvestPackets
  BY <1>11 DEF HarvestPackets, Quiet, pico, gateVars
<1> QED
  BY <1>1, <1>2, <1>3, <1>4, <1>5, <1>6,
     <1>7, <1>8, <1>9, <1>10, <1>11

\* The exchange implements its gate.
THEOREM HarvestImplementsGate == Spec => GateSpec
<1>1. Init => GateInit
  BY DEF Init
<1>2. [Next]_vars => [GateNext]_gateVars
  <2> SUFFICES ASSUME [Next]_vars PROVE [GateNext]_gateVars
    OBVIOUS
  <2>1. CASE Log
    BY <2>1 DEF Log
  <2>2. CASE Tick
    BY <2>2 DEF Tick, GateNext
  <2>3. CASE \E r \in Readers, open \in BOOLEAN : OnGetLog(r, open)
    BY <2>3, GetLogAsks
  <2>4. CASE \E d \in net : Receive(d)
    BY <2>4 DEF Receive, pico
  <2>5. CASE \/ EnsureSink \/ HarvestTick \/ HarvestEnds \/ HarvestRefused
             \/ CaptureSetupCdc \/ CaptureVendorControl \/ CaptureTarget
             \/ CaptureRunUdp \/ CaptureLogChunks
             \/ AskForPackets \/ HarvestPackets
    BY <2>5, ReadersKeepGate
  <2>6. CASE UNCHANGED vars
    BY <2>6 DEF vars
  <2> QED
    BY <2>1, <2>2, <2>3, <2>4, <2>5, <2>6 DEF Next
<1> QED
  BY <1>1, <1>2, PTL DEF Spec, GateSpec

\* So a stream and a bundle together never get more answers than the gate allows,
\* whatever they ask and however often (net_udp.c:834-838).
THEOREM HarvestIsLimited == Spec => []RateLimited
  BY HarvestImplementsGate, AnswersAreLimited

-----------------------------------------------------------------------------
(* The serial exchanges.  While no exchange was given up half way, the     *)
(* answers on the wire belong to the one request that waits: the invariant *)
(* says what may stand in each of the three queues then.  That a reboot    *)
(* ends its session keeps an answer to it from being taken for one to a    *)
(* later command.                                                          *)

\* The requests of all sessions.
Commands ==
    {"HELLO", "SET_WIFI", "SET_AUTH_KEY", "SELF_TEST", "GET_UNIQUE_ID", "GET_LOG_BUFFER",
     "BT_STATE", "BT_GET_STATUS"} \cup Reboots

Steps == [cmd : Commands, may : BOOLEAN]
Requests == [cmd : Commands, whole : BOOLEAN, own : BOOLEAN]
Replies == [re : Commands, ok : BOOLEAN, whole : BOOLEAN, own : BOOLEAN]
Ends == {"none", "ok", "nack", "odd", "write", "silent", "lost"}

\* Every variable has its type.
CdcTypeOK ==
    /\ device \in {"setup", "bluetooth", "gone"}
    /\ rx \in Seq(Requests) /\ fifo \in Seq(Replies) /\ inbox \in Seq(Replies)
    /\ due \subseteq Reboots
    /\ todo \in Seq(Steps)
    /\ waiting \in BOOLEAN /\ clean \in BOOLEAN
    /\ last \in [cmd : Commands \cup {"none"}, end : Ends, own : BOOLEAN]

\* A reboot is the last request of a session.
EndsWithReboot(steps) ==
    \A i \in DOMAIN steps : steps[i].cmd \in Reboots => i = Len(steps)

\* Nothing of a session is left when its port is closed, nothing in the Pico
\* when it is gone.
NothingBehind ==
    /\ ~PortOpen => ~waiting /\ inbox = <<>>
    /\ ~Here => rx = <<>> /\ fifo = <<>> /\ due = {}

\* A frame of the exchange under way is the last of its queue.
OwnIsLast(queue) == \A i \in DOMAIN queue : queue[i].own => waiting /\ i = Len(queue)

\* The requests of other exchanges are such as get no answer but a refusal.
StrayRequests ==
    \A i \in DOMAIN rx : rx[i].whole /\ (~rx[i].own => rx[i].cmd = "BT_STATE")

\* The replies of other exchanges are refusals; that to a reboot says it is due.
Fresh(queue) ==
    \A i \in DOMAIN queue :
        /\ queue[i].ok => queue[i].own
        /\ queue[i].ok /\ queue[i].re \in Reboots => due # {} \/ ~Here

HasOwn(queue) == \E i \in DOMAIN queue : queue[i].own

\* What a clean exchange has on its way.
OneExchange ==
    /\ OwnIsLast(rx) /\ OwnIsLast(fifo) /\ OwnIsLast(inbox)
    /\ StrayRequests /\ Fresh(fifo) /\ Fresh(inbox)
    /\ HasOwn(fifo) => rx = <<>>
    /\ HasOwn(inbox) => rx = <<>> /\ fifo = <<>>

CdcInv ==
    /\ CdcTypeOK
    /\ EndsWithReboot(todo)
    /\ NothingBehind
    /\ clean => OneExchange
    /\ InStep
    /\ RebootIsDone

\* What Tail does, once for every queue.
LEMMA Shorter ==
  ASSUME NEW S, NEW q \in Seq(S), q # <<>>
  PROVE  /\ Len(q) \in Nat \ {0} /\ 1 \in DOMAIN q /\ Head(q) = q[1] /\ q[1] \in S
         /\ Tail(q) \in Seq(S)
         /\ \A i \in DOMAIN Tail(q) :
                i + 1 \in DOMAIN q /\ i \in Nat /\ Tail(q)[i] = q[i + 1]
         /\ Len(Tail(q)) = Len(q) - 1
         /\ Len(q) = 1 => Tail(q) = <<>>
<1>1. Len(q) \in Nat \ {0} /\ DOMAIN q = 1..Len(q)
  BY EmptySeq, LenProperties
<1>2. /\ Tail(q) \in Seq(S) /\ Len(Tail(q)) = Len(q) - 1
      /\ \A i \in 1..Len(Tail(q)) : Tail(q)[i] = q[i + 1]
  BY HeadTailProperties
<1>3. DOMAIN Tail(q) = 1..(Len(q) - 1)
  BY <1>2, LenProperties
<1>4. Len(q) = 1 => Tail(q) = <<>>
  <2>1. Tail(q) # <<>> => Len(Tail(q)) # 0
    BY <1>2, EmptySeq
  <2> QED
    BY <1>1, <1>2, <2>1
<1>5. q[1] \in S
  BY <1>1, ElementOfSeq
<1>6. Head(q) = q[1]
  OBVIOUS
<1> QED
  BY <1>1, <1>2, <1>3, <1>4, <1>5, <1>6

\* What Append does, once for every queue.
LEMMA Longer ==
  ASSUME NEW S, NEW q \in Seq(S), NEW e \in S
  PROVE  /\ Append(q, e) \in Seq(S)
         /\ Append(q, e) # <<>>
         /\ Len(Append(q, e)) = Len(q) + 1
         /\ \A i \in DOMAIN Append(q, e) :
                \/ i \in DOMAIN q /\ Append(q, e)[i] = q[i]
                \/ i = Len(q) + 1 /\ Append(q, e)[i] = e
<1>1. Len(q) \in Nat /\ DOMAIN q = 1..Len(q)
  BY LenProperties
<1>2. /\ Append(q, e) \in Seq(S) /\ Len(Append(q, e)) = Len(q) + 1
      /\ Append(q, e) # <<>>
      /\ \A i \in 1..Len(q) : Append(q, e)[i] = q[i]
      /\ Append(q, e)[Len(q) + 1] = e
  BY AppendProperties
<1>3. DOMAIN Append(q, e) = 1..(Len(q) + 1)
  BY <1>2, LenProperties
<1> QED
  BY <1>1, <1>2, <1>3

\* Disown changes nothing but the mark.
LEMMA Disowned ==
  /\ \A q \in Seq(Requests) : Disown(q) \in Seq(Requests)
  /\ \A q \in Seq(Replies) : Disown(q) \in Seq(Replies)
  /\ \A q : /\ DOMAIN Disown(q) = DOMAIN q
             /\ \A i \in DOMAIN q : Disown(q)[i] = [q[i] EXCEPT !.own = FALSE]
  /\ Disown(<<>>) = <<>>
<1>1. \A q : /\ DOMAIN Disown(q) = DOMAIN q
             /\ \A i \in DOMAIN q : Disown(q)[i] = [q[i] EXCEPT !.own = FALSE]
  BY DEF Disown
<1>2. ASSUME NEW q \in Seq(Requests) PROVE Disown(q) \in Seq(Requests)
  <2>1. DOMAIN q = 1..Len(q) /\ Len(q) \in Nat
    BY LenProperties
  <2>2. \A i \in 1..Len(q) : q[i] \in Requests
    BY ElementOfSeq
  <2>3. \A i \in 1..Len(q) : [q[i] EXCEPT !.own = FALSE] \in Requests
    BY <2>2 DEF Requests
  <2> QED
    BY <2>1, <2>3, IsASeq DEF Disown
<1>3. ASSUME NEW q \in Seq(Replies) PROVE Disown(q) \in Seq(Replies)
  <2>1. DOMAIN q = 1..Len(q) /\ Len(q) \in Nat
    BY LenProperties
  <2>2. \A i \in 1..Len(q) : q[i] \in Replies
    BY ElementOfSeq
  <2>3. \A i \in 1..Len(q) : [q[i] EXCEPT !.own = FALSE] \in Replies
    BY <2>2 DEF Replies
  <2> QED
    BY <2>1, <2>3 DEF Disown
<1>4. Disown(<<>>) = <<>>
  BY DEF Disown
<1> QED
  BY <1>1, <1>2, <1>3, <1>4

\* Requests none of which is a reboot.
Plain(steps) == \A i \in DOMAIN steps : steps[i].cmd \notin Reboots

\* Plain requests before a session leave its reboot the last.
LEMMA Joined ==
  ASSUME NEW s \in Seq(Steps), Plain(s), NEW t \in Seq(Steps)
  PROVE  /\ s \o t \in Seq(Steps)
         /\ Len(s \o t) = Len(s) + Len(t)
         /\ Plain(t) => Plain(s \o t)
         /\ EndsWithReboot(t) => EndsWithReboot(s \o t)
<1>1. /\ s \o t \in Seq(Steps) /\ Len(s \o t) = Len(s) + Len(t)
      /\ \A i \in 1..(Len(s) + Len(t)) :
            (s \o t)[i] = IF i <= Len(s) THEN s[i] ELSE t[i - Len(s)]
  BY ConcatProperties
<1>2. /\ Len(s) \in Nat /\ DOMAIN s = 1..Len(s)
      /\ Len(t) \in Nat /\ DOMAIN t = 1..Len(t)
      /\ DOMAIN (s \o t) = 1..(Len(s) + Len(t))
  BY <1>1, LenProperties
<1>3. ASSUME NEW i \in DOMAIN (s \o t)
      PROVE  \/ i \in DOMAIN s /\ (s \o t)[i] = s[i]
             \/ i - Len(s) \in DOMAIN t /\ (s \o t)[i] = t[i - Len(s)]
  BY <1>1, <1>2
<1>4. Plain(t) => Plain(s \o t)
  BY <1>3 DEF Plain
<1>5. EndsWithReboot(t) => EndsWithReboot(s \o t)
  BY <1>1, <1>2, <1>3 DEF Plain, EndsWithReboot
<1> QED
  BY <1>1, <1>4, <1>5

\* Every session is a sequence of steps with at most one reboot, at its end.
LEMMA SessionsEnd ==
  \A s \in Sessions : s \in Seq(Steps) /\ EndsWithReboot(s)
<1> DEFINE Tame(t) == t \in Steps /\ t.cmd \notin Reboots
<1>a. RebootToRun \in Steps /\ RebootToBootsel \in Steps
  BY DEF Must, May, Steps, Commands, Reboots, RebootToRun, RebootToBootsel
<1>b. /\ Tame(Hello) /\ Tame(HelloProbe) /\ Tame(SetWifi) /\ Tame(SetAuthKey)
      /\ Tame(SelfTest) /\ Tame(UniqueId)
  BY DEF Must, May, Steps, Commands, Reboots, Hello, HelloProbe, SetWifi, SetAuthKey,
     SelfTest, UniqueId
<1>c. /\ Tame(LogBuffer) /\ Tame(State) /\ Tame(Status) /\ Tame(May("GET_UNIQUE_ID"))
      /\ Tame(May("GET_LOG_BUFFER")) /\ Tame(May("BT_GET_STATUS"))
  BY DEF Must, May, Steps, Commands, Reboots, LogBuffer, State, Status
<1>2. /\ \A a, b, c, d \in Steps :
             /\ <<a>> \in Seq(Steps) /\ <<a, b>> \in Seq(Steps)
             /\ <<a, b, c>> \in Seq(Steps) /\ <<a, b, c, d>> \in Seq(Steps)
  OBVIOUS
<1>3. ASSUME NEW a \in Steps, NEW b \in Steps, NEW c \in Steps, NEW d \in Steps,
             a.cmd \notin Reboots, b.cmd \notin Reboots, c.cmd \notin Reboots
      PROVE  /\ Plain(<<a>>) /\ Plain(<<a, b>>)
             /\ EndsWithReboot(<<d>>) /\ EndsWithReboot(<<a, d>>)
             /\ EndsWithReboot(<<a, b, d>>) /\ EndsWithReboot(<<a, b, c, d>>)
  BY <1>3 DEF Plain, EndsWithReboot
<1> DEFINE Good(s) == s \in Seq(Steps) /\ EndsWithReboot(s)
<1>4. Good(SetupSession) /\ Good(KeepCredsSession)
  <2>1. Provision \in Seq(Steps) /\ Plain(Provision)
    BY <1>a, <1>b, <1>c, <1>2, <1>3 DEF Provision
  <2>2. /\ <<Hello, SetWifi>> \o Provision \in Seq(Steps)
        /\ Plain(<<Hello, SetWifi>> \o Provision)
        /\ <<Hello>> \o Provision \in Seq(Steps)
        /\ Plain(<<Hello>> \o Provision)
    <3>1. /\ <<Hello, SetWifi>> \in Seq(Steps) /\ Plain(<<Hello, SetWifi>>)
          /\ <<Hello>> \in Seq(Steps) /\ Plain(<<Hello>>)
      BY <1>b, <1>2, <1>3
    <3> QED
      BY <2>1, <3>1, Joined
  <2>3. <<RebootToRun>> \in Seq(Steps) /\ EndsWithReboot(<<RebootToRun>>)
    BY <1>a, <1>2, <1>3, <1>b
  <2> QED
    BY <2>2, <2>3, Joined DEF SetupSession, KeepCredsSession
<1>5. Good(RecoverSession) /\ Good(FlashSession) /\ Good(BootselSession)
  BY <1>a, <1>b, <1>c, <1>2, <1>3 DEF RecoverSession, FlashSession, BootselSession
<1>6. Good(LabBootselSession) /\ Good(InfoSession) /\ Good(DoctorSession)
  BY <1>a, <1>b, <1>c, <1>2, <1>3 DEF LabBootselSession, InfoSession, DoctorSession
<1>7. Good(ProbeSession) /\ Good(LogSession) /\ Good(WifiLogSession)
  BY <1>a, <1>b, <1>c, <1>2, <1>3 DEF ProbeSession, LogSession, WifiLogSession
<1>8. Good(DiagSession) /\ Good(QuerySession)
  BY <1>a, <1>b, <1>c, <1>2, <1>3 DEF DiagSession, QuerySession
<1>9. Good(LabProbeSession) /\ Good(StreamSession)
  BY <1>a, <1>b, <1>c, <1>2, <1>3 DEF LabProbeSession, StreamSession
<1> QED
  BY <1>4, <1>5, <1>6, <1>7, <1>8, <1>9 DEF Sessions

-----------------------------------------------------------------------------
(* Steps.                                                                  *)

\* What the parts of the invariant say of one frame.
LEMMA Reads ==
  ASSUME CdcInv
  PROVE  /\ \A i \in DOMAIN rx : rx[i] \in Requests
         /\ \A i \in DOMAIN fifo : fifo[i] \in Replies
         /\ \A i \in DOMAIN inbox : inbox[i] \in Replies
         /\ due \subseteq Reboots /\ waiting \in BOOLEAN /\ clean \in BOOLEAN
  BY LenProperties, ElementOfSeq DEF CdcInv, CdcTypeOK

LEMMA InitCdcInv == CdcInit => CdcInv
<1> SUFFICES ASSUME CdcInit PROVE CdcInv
  OBVIOUS
<1>1. /\ rx = <<>> /\ fifo = <<>> /\ inbox = <<>> /\ due = {} /\ todo = <<>>
      /\ waiting = FALSE /\ last = NoAnswer /\ clean = TRUE /\ device # "gone"
      /\ device \in {"setup", "bluetooth"}
  BY DEF CdcInit
<1>2. NoAnswer \in [cmd : Commands \cup {"none"}, end : Ends, own : BOOLEAN]
  BY DEF NoAnswer, Ends
<1>3a. CdcTypeOK
  BY <1>1, <1>2, EmptySeq DEF CdcTypeOK
<1>3. EndsWithReboot(todo) /\ NothingBehind
  BY <1>1 DEF EndsWithReboot, NothingBehind, Here
<1>4. OneExchange
  BY <1>1 DEF OneExchange, OwnIsLast, StrayRequests, Fresh, HasOwn
<1>5. InStep /\ RebootIsDone
  BY <1>1 DEF InStep, RebootIsDone, NoAnswer
<1> QED
  BY <1>3a, <1>3, <1>4, <1>5 DEF CdcInv

\* cdc_dispatch: while the port is clean, what is answered belongs to the exchange
\* under way, or is refused.
LEMMA DispatchKeeps == CdcInv /\ Dispatch => CdcInv'
<1> SUFFICES ASSUME CdcInv, Dispatch PROVE CdcInv'
  OBVIOUS
<1> DEFINE req == Head(rx)
<1>1. /\ UNCHANGED <<device, inbox, todo, waiting, last, clean>>
      /\ rx' = Tail(rx) /\ Here /\ rx # <<>>
  BY DEF Dispatch, Decodes
<1>2. /\ rx \in Seq(Requests) /\ Len(rx) \in Nat \ {0} /\ 1 \in DOMAIN rx
      /\ req = rx[1] /\ req \in Requests
      /\ rx' \in Seq(Requests)
      /\ \A i \in DOMAIN rx' : i + 1 \in DOMAIN rx /\ i \in Nat /\ rx'[i] = rx[i + 1]
      /\ Len(rx') = Len(rx) - 1
      /\ Len(rx) = 1 => rx' = <<>>
  BY <1>1, Shorter DEF CdcInv, CdcTypeOK
<1>3. PICK reply \in Replies :
         /\ fifo' = fifo \/ fifo' = Append(fifo, reply)
         /\ reply.own = req.own
         /\ due \subseteq due' /\ due' \subseteq Reboots
         /\ fifo' # fifo => (reply.ok => req.cmd # "BT_STATE")
         /\ reply.ok /\ reply.re \in Reboots => due' # {}
  <2>1. CASE ~Rejects(req) /\ DispatchOk(req) /\ req.cmd = "BT_STATE"
    <3>1. Reply(req, FALSE, TRUE) \in Replies /\ Reply(req, FALSE, TRUE).own = req.own
          /\ ~Reply(req, FALSE, TRUE).ok
      BY <1>2 DEF Reply, Replies, Requests
    <3>2. fifo' = fifo /\ due' = due \cup ({req.cmd} \cap Reboots)
      BY <2>1 DEF DispatchOk
    <3> QED
      BY <3>1, <3>2, Reads
  <2>2. CASE ~Rejects(req) /\ DispatchOk(req) /\ req.cmd # "BT_STATE"
    <3>1. PICK whole \in BOOLEAN : fifo' = Queue(Reply(req, TRUE, whole))
      BY <2>2 DEF DispatchOk, MayCut, PortOpen
    <3>2. /\ Reply(req, TRUE, whole) \in Replies
          /\ Reply(req, TRUE, whole).own = req.own /\ Reply(req, TRUE, whole).re = req.cmd
      BY <1>2 DEF Reply, Replies, Requests
    <3>3. due' = due \cup ({req.cmd} \cap Reboots)
      BY <2>2 DEF DispatchOk
    <3> QED
      BY <2>2, <3>1, <3>2, <3>3, Reads DEF Queue
  <2>3. CASE Nack(req)
    <3>1. Reply(req, FALSE, TRUE) \in Replies /\ Reply(req, FALSE, TRUE).own = req.own
          /\ ~Reply(req, FALSE, TRUE).ok
      BY <1>2 DEF Reply, Replies, Requests
    <3> QED
      BY <2>3, <3>1, Reads DEF Nack, Queue
  <2> QED
    BY <2>1, <2>2, <2>3 DEF Dispatch
<1>4. fifo \in Seq(Replies) /\ Len(fifo) \in Nat
  BY LenProperties DEF CdcInv, CdcTypeOK
<1>5. /\ fifo' \in Seq(Replies)
      /\ fifo' = fifo \/ Len(fifo') = Len(fifo) + 1
      /\ \A i \in DOMAIN fifo' :
            \/ i \in DOMAIN fifo /\ fifo'[i] = fifo[i]
            \/ i = Len(fifo') /\ fifo'[i] = reply /\ fifo' # fifo
  BY <1>3, <1>4, Longer
<1>6. CdcTypeOK'
  BY <1>1, <1>2, <1>3, <1>5 DEF CdcInv, CdcTypeOK
<1>7. EndsWithReboot(todo)' /\ NothingBehind' /\ InStep' /\ RebootIsDone'
  BY <1>1, <1>3 DEF CdcInv, EndsWithReboot, NothingBehind, PortOpen, Here, InStep, RebootIsDone
<1>8. ASSUME clean' PROVE OneExchange'
  <2>1. OneExchange
    BY <1>1, <1>8 DEF CdcInv
  <2>2. req.own => Len(rx) = 1 /\ waiting
    BY <1>2, <2>1 DEF OneExchange, OwnIsLast
  <2>3. ~req.own => req.cmd = "BT_STATE"
    BY <1>2, <2>1 DEF OneExchange, StrayRequests
  <2>4. ~HasOwn(fifo) /\ ~HasOwn(inbox)
    BY <1>1, <2>1 DEF OneExchange
  <2>5. OwnIsLast(rx)' /\ StrayRequests'
    BY <1>1, <1>2, <2>1 DEF OneExchange, OwnIsLast, StrayRequests
  <2>6. OwnIsLast(fifo)'
    BY <1>1, <1>3, <1>5, <2>2, <2>4 DEF OwnIsLast, HasOwn
  <2>7. HasOwn(fifo)' => rx' = <<>>
    BY <1>2, <1>3, <1>5, <2>2, <2>4 DEF HasOwn
  <2>8. Fresh(fifo)'
    BY <1>1, <1>3, <1>5, <2>1, <2>3 DEF OneExchange, Fresh, Here
  <2>9. Fresh(inbox)' /\ OwnIsLast(inbox)' /\ ~HasOwn(inbox)'
    BY <1>1, <1>3, <2>1, <2>4 DEF OneExchange, OwnIsLast, Fresh, Here, HasOwn
  <2> QED
    BY <2>5, <2>6, <2>7, <2>8, <2>9 DEF OneExchange
<1> QED
  BY <1>6, <1>7, <1>8 DEF CdcInv

\* A cut request, and with it what follows, is possible only after a failure.
LEMMA ResyncKeeps == CdcInv /\ Resync => CdcInv'
<1> SUFFICES ASSUME CdcInv, Resync PROVE CdcInv'
  OBVIOUS
<1>1. /\ UNCHANGED <<device, inbox, todo, waiting, last, clean, due>>
      /\ rx' = Tail(rx) /\ Here /\ Len(rx) > 1 /\ ~Head(rx).whole
      /\ fifo' = Queue(Reply(Head(rx), FALSE, TRUE))
  BY DEF Resync, Nack
<1>2. rx # <<>>
  BY <1>1 DEF CdcInv, CdcTypeOK
<1>3. /\ Head(rx) = rx[1] /\ 1 \in DOMAIN rx /\ Head(rx) \in Requests
      /\ Tail(rx) \in Seq(Requests)
  BY <1>2, Shorter DEF CdcInv, CdcTypeOK
<1>4. ~clean
  BY <1>1, <1>3 DEF CdcInv, OneExchange, StrayRequests
<1>5. Reply(Head(rx), FALSE, TRUE) \in Replies
  BY <1>3 DEF Reply, Replies, Requests
<1>6. fifo' \in Seq(Replies)
  BY <1>1, <1>5, Longer DEF Queue, CdcInv, CdcTypeOK
<1>7. CdcTypeOK'
  BY <1>1, <1>3, <1>6 DEF CdcInv, CdcTypeOK
<1> QED
  BY <1>1, <1>4, <1>7
     DEF CdcInv, EndsWithReboot, NothingBehind, PortOpen, Here, InStep, RebootIsDone

\* A Pico that goes takes its queues with it.
LEMMA GoneKeeps == CdcInv /\ (Reboot \/ Unplug) => CdcInv'
<1> SUFFICES ASSUME CdcInv, Reboot \/ Unplug PROVE CdcInv'
  OBVIOUS
<1>1. /\ UNCHANGED <<inbox, todo, waiting, last, clean>>
      /\ device' = "gone" /\ rx' = <<>> /\ fifo' = <<>> /\ due' = {}
  BY DEF Reboot, Unplug, Gone
<1>2. CdcTypeOK'
  BY <1>1, EmptySeq DEF CdcInv, CdcTypeOK
<1>3. ASSUME clean' PROVE OneExchange'
  BY <1>1, <1>3
     DEF CdcInv, OneExchange, OwnIsLast, StrayRequests, Fresh, HasOwn, Here
<1> QED
  BY <1>1, <1>2, <1>3
     DEF CdcInv, EndsWithReboot, NothingBehind, PortOpen, Here, InStep, RebootIsDone

\* A Pico comes up with nothing in it.
LEMMA AppearKeeps == CdcInv /\ Appear => CdcInv'
<1> SUFFICES ASSUME CdcInv, Appear PROVE CdcInv'
  OBVIOUS
<1>1. /\ UNCHANGED <<rx, fifo, inbox, due, todo, waiting>>
      /\ device' \in {"setup", "bluetooth"} /\ last' = NoAnswer /\ clean' = TRUE
      /\ ~Here /\ ~PortOpen
  BY DEF Appear, wire
<1>2. rx = <<>> /\ fifo = <<>> /\ inbox = <<>> /\ ~waiting /\ due = {}
  BY <1>1 DEF CdcInv, NothingBehind
<1>3. NoAnswer \in [cmd : Commands \cup {"none"}, end : Ends, own : BOOLEAN]
  BY DEF NoAnswer, Ends
<1>4. CdcTypeOK'
  BY <1>1, <1>3 DEF CdcInv, CdcTypeOK
<1>5. OneExchange'
  BY <1>1, <1>2 DEF OneExchange, OwnIsLast, StrayRequests, Fresh, HasOwn
<1>6. NothingBehind' /\ InStep' /\ RebootIsDone'
  BY <1>1, <1>2 DEF NothingBehind, PortOpen, InStep, RebootIsDone, NoAnswer, Here
<1> QED
  BY <1>1, <1>4, <1>5, <1>6 DEF CdcInv, EndsWithReboot

\* A session begins.
LEMMA OpenKeeps == CdcInv /\ OpenPort => CdcInv'
<1> SUFFICES ASSUME CdcInv, OpenPort PROVE CdcInv'
  OBVIOUS
<1>1. /\ UNCHANGED <<device, rx, fifo, inbox, due, waiting, last, clean>>
      /\ todo' \in Sessions /\ Here /\ ~PortOpen
  BY DEF OpenPort, wire
<1>2. todo' \in Seq(Steps) /\ EndsWithReboot(todo')
  BY <1>1, SessionsEnd
<1>3. CdcTypeOK'
  BY <1>1, <1>2 DEF CdcInv, CdcTypeOK
<1>4. OneExchange <=> OneExchange'
  BY <1>1 DEF OneExchange, OwnIsLast, StrayRequests, Fresh, HasOwn, Here
<1>5. NothingBehind'
  BY <1>1 DEF CdcInv, NothingBehind, Here, PortOpen
<1> QED
  BY <1>1, <1>2, <1>3, <1>4, <1>5 DEF CdcInv, InStep, RebootIsDone, Here

\* The driver takes a reply over: its place in the order stays.
LEMMA DrainKeeps == CdcInv /\ Drain => CdcInv'
<1> SUFFICES ASSUME CdcInv, Drain PROVE CdcInv'
  OBVIOUS
<1>1. /\ UNCHANGED <<device, rx, due, todo, waiting, last, clean>>
      /\ PortOpen /\ fifo # <<>>
      /\ inbox' = Append(inbox, Head(fifo)) /\ fifo' = Tail(fifo)
  BY DEF Drain
<1>2. /\ Head(fifo) = fifo[1] /\ fifo[1] \in Replies /\ 1 \in DOMAIN fifo
      /\ Len(fifo) \in Nat \ {0}
      /\ fifo' \in Seq(Replies) /\ Len(fifo') = Len(fifo) - 1
      /\ \A i \in DOMAIN fifo' : i + 1 \in DOMAIN fifo /\ i \in Nat /\ fifo'[i] = fifo[i + 1]
      /\ Len(fifo) = 1 => fifo' = <<>>
  BY <1>1, Shorter DEF CdcInv, CdcTypeOK
<1>3. /\ inbox' \in Seq(Replies) /\ Len(inbox') = Len(inbox) + 1 /\ Len(inbox) \in Nat
      /\ \A i \in DOMAIN inbox' :
            \/ i \in DOMAIN inbox /\ inbox'[i] = inbox[i]
            \/ i = Len(inbox) + 1 /\ inbox'[i] = fifo[1]
  BY <1>1, <1>2, Longer, LenProperties DEF CdcInv, CdcTypeOK
<1>4. CdcTypeOK'
  BY <1>1, <1>2, <1>3 DEF CdcInv, CdcTypeOK
<1>5. Here
  BY <1>1 DEF CdcInv, NothingBehind
<1>6. ASSUME clean' PROVE OneExchange'
  <2>1. OneExchange /\ ~HasOwn(inbox)
    BY <1>1, <1>6 DEF CdcInv, OneExchange
  <2>2. fifo[1].own => Len(fifo) = 1 /\ rx = <<>> /\ waiting
    BY <1>2, <2>1 DEF OneExchange, OwnIsLast, HasOwn
  <2>3. OwnIsLast(rx)' /\ StrayRequests'
    BY <1>1, <2>1 DEF OneExchange, OwnIsLast, StrayRequests
  <2>4. OwnIsLast(fifo)' /\ Fresh(fifo)'
    BY <1>1, <1>2, <2>1 DEF OneExchange, OwnIsLast, Fresh, Here
  <2>5. OwnIsLast(inbox)' /\ (HasOwn(inbox)' => rx' = <<>> /\ fifo' = <<>>)
    BY <1>1, <1>2, <1>3, <2>1, <2>2 DEF OwnIsLast, HasOwn
  <2>6. Fresh(inbox)'
    BY <1>1, <1>2, <1>3, <2>1 DEF OneExchange, Fresh, Here
  <2>7. HasOwn(fifo)' => rx' = <<>>
    BY <1>1, <1>2, <2>1 DEF OneExchange, HasOwn
  <2> QED
    BY <2>3, <2>4, <2>5, <2>6, <2>7 DEF OneExchange
<1> QED
  BY <1>1, <1>4, <1>5, <1>6
     DEF CdcInv, EndsWithReboot, NothingBehind, PortOpen, Here, InStep, RebootIsDone

\* The steps a session has left.
LEMMA TodoLeft ==
  ASSUME CdcInv, PortOpen
  PROVE  /\ Head(todo) \in Steps /\ Tail(todo) \in Seq(Steps)
         /\ EndsWithReboot(Tail(todo))
         /\ Head(todo).cmd \in Reboots => Tail(todo) = <<>>
<1>1. todo \in Seq(Steps) /\ todo # <<>> /\ EndsWithReboot(todo)
  BY DEF CdcInv, CdcTypeOK, PortOpen
<1>2. /\ Len(todo) \in Nat \ {0} /\ 1 \in DOMAIN todo /\ Head(todo) = todo[1]
      /\ todo[1] \in Steps /\ Tail(todo) \in Seq(Steps)
      /\ \A i \in DOMAIN Tail(todo) :
            i + 1 \in DOMAIN todo /\ i \in Nat /\ Tail(todo)[i] = todo[i + 1]
      /\ Len(Tail(todo)) = Len(todo) - 1
      /\ Len(todo) = 1 => Tail(todo) = <<>>
  BY <1>1, Shorter
<1> QED
  BY <1>1, <1>2 DEF EndsWithReboot

\* A request that starts an exchange is the only frame of it.
LEMMA ExchangeKeeps == CdcInv /\ Exchange => CdcInv'
<1> SUFFICES ASSUME CdcInv, Exchange PROVE CdcInv'
  OBVIOUS
<1>1. /\ UNCHANGED <<device, due, fifo, inbox, todo, last, clean>>
      /\ PortOpen /\ ~waiting /\ Here
      /\ rx' = Append(rx, Frame(Head(todo).cmd, TRUE)) /\ waiting' = TRUE
  BY DEF Exchange, Written
<1>2. Head(todo).cmd \in Commands
  BY <1>1, TodoLeft DEF Steps
<1>3. /\ Frame(Head(todo).cmd, TRUE) \in Requests
      /\ Frame(Head(todo).cmd, TRUE).whole /\ Frame(Head(todo).cmd, TRUE).own
  BY <1>2 DEF Frame, Requests
<1>4a. rx \in Seq(Requests) /\ Len(rx) \in Nat
  BY LenProperties DEF CdcInv, CdcTypeOK
<1>4. /\ rx' \in Seq(Requests) /\ Len(rx') = Len(rx) + 1 /\ Len(rx) \in Nat
      /\ \A i \in DOMAIN rx' :
            \/ i \in DOMAIN rx /\ rx'[i] = rx[i]
            \/ i = Len(rx) + 1 /\ rx'[i] = Frame(Head(todo).cmd, TRUE)
  BY <1>1, <1>3, <1>4a, Longer
<1>5. CdcTypeOK'
  BY <1>1, <1>4 DEF CdcInv, CdcTypeOK
<1>6. ASSUME clean' PROVE OneExchange'
  <2>1. OneExchange
    BY <1>1, <1>6 DEF CdcInv
  <2>2. ~HasOwn(rx) /\ ~HasOwn(fifo) /\ ~HasOwn(inbox)
    BY <1>1, <2>1 DEF OneExchange, OwnIsLast, HasOwn
  <2>3. OwnIsLast(rx)' /\ StrayRequests'
    BY <1>1, <1>3, <1>4, <2>1, <2>2 DEF OneExchange, OwnIsLast, HasOwn, StrayRequests
  <2>4. OwnIsLast(fifo)' /\ OwnIsLast(inbox)' /\ ~HasOwn(fifo)' /\ ~HasOwn(inbox)'
    BY <1>1, <2>2 DEF OwnIsLast, HasOwn
  <2>5. Fresh(fifo)' /\ Fresh(inbox)'
    BY <1>1, <2>1 DEF OneExchange, Fresh, Here
  <2> QED
    BY <2>3, <2>4, <2>5 DEF OneExchange
<1> QED
  BY <1>1, <1>5, <1>6
     DEF CdcInv, EndsWithReboot, NothingBehind, PortOpen, Here, InStep, RebootIsDone

\* What is left of a session is a session's rest.
LEMMA GoOnLeaves ==
  ASSUME CdcInv, PortOpen, NEW end, GoOn(end)
  PROVE  todo' \in Seq(Steps) /\ EndsWithReboot(todo')
<1>1. todo' = Tail(todo) \/ todo' = <<>>
  BY DEF GoOn
<1>2. CASE todo' = Tail(todo)
  BY <1>2, TodoLeft
<1>3. CASE todo' = <<>>
  <2>1. todo' \in Seq(Steps)
    BY <1>3, EmptySeq
  <2> QED
    BY <1>3, <2>1 DEF EndsWithReboot
<1> QED
  BY <1>1, <1>2, <1>3

\* The end of an exchange, whatever it is: types, and what it leaves behind.
LEMMA FinishKeeps ==
  ASSUME CdcInv, PortOpen, NEW end \in Ends, NEW own \in BOOLEAN,
         NEW requests \in Seq(Requests), NEW replies \in Seq(Replies),
         NEW left \in Seq(Replies),
         ~Here => requests = <<>> /\ replies = <<>>,
         Finish(end, own, requests, replies, left)
  PROVE  CdcTypeOK' /\ EndsWithReboot(todo)' /\ NothingBehind'
<1>1. todo' \in Seq(Steps) /\ EndsWithReboot(todo')
  BY GoOnLeaves DEF Finish
<1>2. Head(todo).cmd \in Commands
  BY TodoLeft DEF Steps
<1>3. last' \in [cmd : Commands \cup {"none"}, end : Ends, own : BOOLEAN]
  BY <1>2 DEF Finish
<1>4. /\ rx' \in Seq(Requests) /\ fifo' \in Seq(Replies) /\ inbox' \in Seq(Replies)
      /\ ~Here => rx' = <<>> /\ fifo' = <<>>
      /\ todo' = <<>> => inbox' = <<>>
  BY Disowned, EmptySeq DEF Finish
<1>5. waiting' = FALSE /\ UNCHANGED <<device, due>> /\ clean' \in BOOLEAN
  BY DEF Finish, CdcInv, CdcTypeOK
<1>6. CdcTypeOK'
  BY <1>1, <1>3, <1>4, <1>5 DEF CdcInv, CdcTypeOK
<1>7. NothingBehind'
  BY <1>4, <1>5 DEF CdcInv, NothingBehind, PortOpen, Here
<1> QED
  BY <1>1, <1>6, <1>7

\* A failed exchange ends what the properties promise.
LEMMA FailureKeeps ==
  ASSUME CdcInv, PortOpen, NEW end \in Ends, end # "ok", NEW own \in BOOLEAN,
         NEW requests \in Seq(Requests), NEW replies \in Seq(Replies),
         NEW left \in Seq(Replies),
         ~Here => requests = <<>> /\ replies = <<>>,
         Finish(end, own, requests, replies, left)
  PROVE  CdcInv'
<1>1. ~clean'
  BY DEF Finish
<1> QED
  BY <1>1, FinishKeeps DEF CdcInv, InStep, RebootIsDone

\* The types of the queues, for the steps that end an exchange.
LEMMA QueueTypes ==
  ASSUME CdcInv
  PROVE  /\ rx \in Seq(Requests) /\ fifo \in Seq(Replies) /\ inbox \in Seq(Replies)
         /\ ~Here => rx = <<>> /\ fifo = <<>>
         /\ waiting => PortOpen
  BY DEF CdcInv, CdcTypeOK, NothingBehind

\* A frame put behind the requests, whole or a part of it.
LEMMA WrittenType ==
  ASSUME CdcInv, PortOpen, NEW whole \in BOOLEAN
  PROVE  Written(whole) \in Seq(Requests)
<1>1. Frame(Head(todo).cmd, whole) \in Requests
  BY TodoLeft DEF Frame, Requests, Steps
<1> QED
  BY <1>1, QueueTypes, Longer DEF Written

\* The deadline passes without an answer, or the write does not get through.
LEMMA TimeoutKeeps == CdcInv /\ (WriteTimesOut \/ HearNothing) => CdcInv'
<1>1. ASSUME CdcInv, WriteTimesOut PROVE CdcInv'
  <2>1. PICK requests \in {rx, Written(FALSE)} :
           Finish("write", TRUE, requests, fifo, inbox)
    BY <1>1 DEF WriteTimesOut
  <2>2. requests \in Seq(Requests) /\ PortOpen /\ Here
    BY <1>1, WrittenType, QueueTypes DEF WriteTimesOut
  <2> QED
    BY <1>1, <2>1, <2>2, QueueTypes, FailureKeeps DEF Ends
<1>2. ASSUME CdcInv, HearNothing PROVE CdcInv'
  <2>1. PICK replies \in {fifo} \cup (IF fifo = <<>> THEN {} ELSE {Tail(fifo)}) :
           Finish("silent", TRUE, rx, replies, <<>>)
    BY <1>2 DEF HearNothing
  <2>2. replies \in Seq(Replies) /\ PortOpen /\ Here
    <3>1. fifo # <<>> => Tail(fifo) \in Seq(Replies)
      BY <1>2, QueueTypes, Shorter
    <3> QED
      BY <1>2, <2>1, <3>1, QueueTypes DEF HearNothing
  <2>3. <<>> \in Seq(Replies)
    BY EmptySeq
  <2> QED
    BY <1>2, <2>1, <2>2, <2>3, QueueTypes, FailureKeeps DEF Ends
<1> QED
  BY <1>1, <1>2

\* The answer: after a good one nothing of any exchange is left.
LEMMA ReadKeeps == CdcInv /\ ReadOneFrame => CdcInv'
<1> SUFFICES ASSUME CdcInv, ReadOneFrame PROVE CdcInv'
  OBVIOUS
<1> DEFINE reply == Head(inbox)
<1>1. PICK n \in 1..Len(inbox) :
         Finish(Verdict(reply), reply.own, rx, fifo, SubSeq(inbox, n + 1, Len(inbox)))
  BY DEF ReadOneFrame
<1>2. waiting /\ inbox # <<>> /\ PortOpen
  BY QueueTypes DEF ReadOneFrame, Decodes
<1>3. /\ Len(inbox) \in Nat \ {0} /\ 1 \in DOMAIN inbox /\ reply = inbox[1]
      /\ reply \in Replies
  BY <1>2, QueueTypes, Shorter
<1>4. SubSeq(inbox, n + 1, Len(inbox)) \in Seq(Replies)
  <2>1. n \in Nat /\ n + 1 \in Int /\ Len(inbox) \in Int
    BY <1>3
  <2>2. \A i \in (n + 1)..Len(inbox) : inbox[i] \in Replies
    BY <2>1, <1>3, QueueTypes, ElementOfSeq
  <2> QED
    BY <2>1, <2>2, SubSeqProperties
<1>5. Verdict(reply) \in Ends /\ reply.own \in BOOLEAN
  BY <1>3 DEF Verdict, Ends, Replies
<1>6. CASE Verdict(reply) # "ok"
  BY <1>1, <1>2, <1>4, <1>5, <1>6, QueueTypes, FailureKeeps
<1>7. CASE Verdict(reply) = "ok"
  <2>1. CdcTypeOK' /\ EndsWithReboot(todo)' /\ NothingBehind'
    BY <1>1, <1>2, <1>4, <1>5, QueueTypes, FinishKeeps
  <2>2. reply.ok /\ reply.re = Head(todo).cmd
    BY <1>7 DEF Verdict
  <2>3. /\ last' = [cmd |-> Head(todo).cmd, end |-> "ok", own |-> reply.own]
        /\ clean' = clean /\ waiting' = FALSE /\ UNCHANGED <<device, due>>
        /\ rx' = Disown(rx) /\ fifo' = Disown(fifo)
        /\ inbox' = <<>> \/ inbox' = Disown(SubSeq(inbox, n + 1, Len(inbox)))
    BY <1>1, <1>7 DEF Finish, CdcInv, CdcTypeOK
  <2>4. ASSUME clean' PROVE OneExchange' /\ InStep' /\ RebootIsDone'
    <3>1. OneExchange
      BY <2>3, <2>4 DEF CdcInv
    <3>2. reply.own
      BY <1>3, <2>2, <3>1 DEF OneExchange, Fresh
    <3>3. HasOwn(inbox) /\ Len(inbox) = 1
      BY <1>3, <3>1, <3>2 DEF OneExchange, OwnIsLast, HasOwn
    <3>4. SubSeq(inbox, n + 1, Len(inbox)) = <<>>
      BY <3>3, SubSeqEmpty
    <3>5. rx' = <<>> /\ fifo' = <<>> /\ inbox' = <<>>
      BY <2>3, <3>1, <3>3, <3>4, Disowned DEF OneExchange
    <3>6. OneExchange'
      BY <3>5 DEF OneExchange, OwnIsLast, StrayRequests, Fresh, HasOwn
    <3>7. InStep'
      BY <2>3, <3>2 DEF InStep
    <3>8. RebootIsDone'
      BY <1>3, <2>2, <2>3, <3>1 DEF RebootIsDone, OneExchange, Fresh, Here
    <3> QED
      BY <3>6, <3>7, <3>8
  <2> QED
    BY <2>1, <2>4 DEF CdcInv, InStep, RebootIsDone
<1> QED
  BY <1>6, <1>7

\* A reboot that takes the Pico away before it is answered has been done.
LEMMA LostKeeps == CdcInv /\ PortLost => CdcInv'
<1> SUFFICES ASSUME CdcInv, PortLost PROVE CdcInv'
  OBVIOUS
<1>1. /\ PortOpen /\ ~Here /\ rx = <<>> /\ fifo = <<>>
      /\ Finish(IF Head(todo).cmd \in Reboots THEN "ok" ELSE "lost", TRUE, rx, fifo, inbox)
  BY QueueTypes DEF PortLost
<1>2. CASE Head(todo).cmd \notin Reboots
  BY <1>1, <1>2, QueueTypes, FailureKeeps DEF Ends
<1>3. CASE Head(todo).cmd \in Reboots
  <2>1. Finish("ok", TRUE, rx, fifo, inbox)
    BY <1>1, <1>3
  <2>2. CdcTypeOK' /\ EndsWithReboot(todo)' /\ NothingBehind'
    BY <1>1, <2>1, QueueTypes, FinishKeeps DEF Ends
  <2>3. /\ todo' = <<>> /\ rx' = <<>> /\ fifo' = <<>> /\ inbox' = <<>>
        /\ last'.end = "ok" /\ last'.own = TRUE /\ UNCHANGED device
    BY <1>1, <1>3, <2>1, TodoLeft, Disowned DEF Finish, GoOn
  <2>4. OneExchange'
    BY <2>3 DEF OneExchange, OwnIsLast, StrayRequests, Fresh, HasOwn
  <2>5. InStep' /\ RebootIsDone'
    BY <1>1, <2>3 DEF InStep, RebootIsDone, Here
  <2> QED
    BY <2>2, <2>4, <2>5 DEF CdcInv
<1> QED
  BY <1>2, <1>3

\* A request without an answer belongs to no exchange.
LEMMA WriteFrameKeeps == CdcInv /\ WriteFrame => CdcInv'
<1> SUFFICES ASSUME CdcInv, WriteFrame PROVE CdcInv'
  OBVIOUS
<1> DEFINE f == Frame(Head(todo).cmd, TRUE)
<1>1. /\ UNCHANGED <<device, due, fifo, waiting, last, clean>>
      /\ PortOpen /\ ~waiting /\ Here /\ Head(todo).cmd = "BT_STATE"
      /\ rx' = Disown(Append(rx, f)) /\ GoOn("ok")
      /\ inbox' = <<>> \/ inbox' = inbox
      /\ todo' = <<>> => inbox' = <<>>
  BY DEF WriteFrame, Written
<1>2. todo' \in Seq(Steps) /\ EndsWithReboot(todo')
  BY <1>1, GoOnLeaves
<1>3. f \in Requests /\ f.whole /\ f.cmd = "BT_STATE"
  BY <1>1 DEF Frame, Requests, Commands
<1>4. /\ Append(rx, f) \in Seq(Requests)
      /\ \A i \in DOMAIN Append(rx, f) :
            \/ i \in DOMAIN rx /\ Append(rx, f)[i] = rx[i]
            \/ i = Len(rx) + 1 /\ Append(rx, f)[i] = f
  BY <1>3, QueueTypes, Longer
<1>5. /\ rx' \in Seq(Requests)
      /\ DOMAIN rx' = DOMAIN Append(rx, f)
      /\ \A i \in DOMAIN rx' : rx'[i] = [Append(rx, f)[i] EXCEPT !.own = FALSE]
  BY <1>1, <1>4, Disowned
<1>6. inbox' \in Seq(Replies)
  BY <1>1, QueueTypes, EmptySeq
<1>7. CdcTypeOK'
  BY <1>1, <1>2, <1>5, <1>6 DEF CdcInv, CdcTypeOK
<1>8. NothingBehind'
  BY <1>1 DEF CdcInv, NothingBehind, PortOpen, Here
<1>9. ASSUME clean' PROVE OneExchange'
  <2>1. OneExchange
    BY <1>1, <1>9 DEF CdcInv
  <2>2. ~HasOwn(rx) /\ ~HasOwn(fifo) /\ ~HasOwn(inbox)
    BY <1>1, <2>1 DEF OneExchange, OwnIsLast, HasOwn
  <2>3. \A i \in DOMAIN Append(rx, f) :
           /\ Append(rx, f)[i] \in Requests /\ Append(rx, f)[i].whole
           /\ Append(rx, f)[i].cmd = "BT_STATE"
    BY <1>3, <1>4, <2>1, <2>2, Reads DEF OneExchange, StrayRequests, HasOwn
  <2>4. OwnIsLast(rx)' /\ StrayRequests'
    BY <1>5, <2>3 DEF OwnIsLast, StrayRequests, Requests
  <2>5. OwnIsLast(fifo)' /\ OwnIsLast(inbox)' /\ ~HasOwn(fifo)' /\ ~HasOwn(inbox)'
    BY <1>1, <2>2 DEF OwnIsLast, HasOwn
  <2>6. Fresh(fifo)' /\ Fresh(inbox)'
    BY <1>1, <2>1 DEF OneExchange, Fresh, Here
  <2> QED
    BY <2>4, <2>5, <2>6 DEF OneExchange
<1> QED
  BY <1>1, <1>2, <1>7, <1>8, <1>9 DEF CdcInv, InStep, RebootIsDone, Here

\* A session that ends with an exchange under way is not clean any more.
LEMMA QuitKeeps == CdcInv /\ Quit => CdcInv'
<1> SUFFICES ASSUME CdcInv, Quit PROVE CdcInv'
  OBVIOUS
<1>1. /\ todo' = <<>> /\ waiting' = FALSE /\ inbox' = <<>>
      /\ rx' = Disown(rx) /\ fifo' = Disown(fifo)
      /\ clean' = (clean /\ ~waiting) /\ UNCHANGED <<device, due, last>>
  BY DEF Quit
<1>2. /\ rx' \in Seq(Requests) /\ fifo' \in Seq(Replies)
      /\ DOMAIN rx' = DOMAIN rx /\ DOMAIN fifo' = DOMAIN fifo
      /\ \A i \in DOMAIN rx : rx'[i] = [rx[i] EXCEPT !.own = FALSE]
      /\ \A i \in DOMAIN fifo : fifo'[i] = [fifo[i] EXCEPT !.own = FALSE]
      /\ ~Here => rx' = <<>> /\ fifo' = <<>>
  BY <1>1, QueueTypes, Disowned
<1>3. todo' \in Seq(Steps) /\ inbox' \in Seq(Replies) /\ clean' \in BOOLEAN
  BY <1>1, EmptySeq DEF CdcInv, CdcTypeOK
<1>4. CdcTypeOK'
  BY <1>1, <1>2, <1>3 DEF CdcInv, CdcTypeOK
<1>5. EndsWithReboot(todo)' /\ NothingBehind' /\ InStep' /\ RebootIsDone'
  <2>1. EndsWithReboot(todo)'
    BY <1>1 DEF EndsWithReboot
  <2>2. NothingBehind'
    BY <1>1, <1>2 DEF CdcInv, NothingBehind, Here
  <2>3. InStep' /\ RebootIsDone'
    BY <1>1 DEF CdcInv, InStep, RebootIsDone, Here
  <2> QED
    BY <2>1, <2>2, <2>3
<1>6. ASSUME clean' PROVE OneExchange'
  <2>1. OneExchange /\ ~waiting
    BY <1>1, <1>6 DEF CdcInv
  <2>2. ~HasOwn(rx) /\ ~HasOwn(fifo)
    BY <2>1 DEF OneExchange, OwnIsLast, HasOwn
  <2>3. OwnIsLast(rx)' /\ StrayRequests'
    BY <1>2, <2>1, <2>2, Reads
       DEF OneExchange, OwnIsLast, StrayRequests, HasOwn, Requests
  <2>4. OwnIsLast(fifo)' /\ Fresh(fifo)' /\ ~HasOwn(fifo)'
    BY <1>1, <1>2, <2>1, <2>2, Reads
       DEF OneExchange, OwnIsLast, Fresh, HasOwn, Replies, Here
  <2>5. OwnIsLast(inbox)' /\ Fresh(inbox)' /\ ~HasOwn(inbox)'
    BY <1>1 DEF OwnIsLast, Fresh, HasOwn
  <2> QED
    BY <2>3, <2>4, <2>5 DEF OneExchange
<1> QED
  BY <1>4, <1>5, <1>6 DEF CdcInv

LEMMA NextCdcInv == CdcInv /\ [CdcNext]_cdcVars => CdcInv'
<1> SUFFICES ASSUME CdcInv, [CdcNext]_cdcVars PROVE CdcInv'
  OBVIOUS
<1>1. CASE UNCHANGED cdcVars
  BY <1>1 DEF cdcVars, wire, CdcInv, CdcTypeOK, EndsWithReboot, NothingBehind, OneExchange,
     InStep, RebootIsDone, OwnIsLast, StrayRequests, Fresh, HasOwn, Here, PortOpen
<1> QED
  BY <1>1, DispatchKeeps, ResyncKeeps, GoneKeeps, AppearKeeps, OpenKeeps, DrainKeeps,
     ExchangeKeeps, TimeoutKeeps, WriteFrameKeeps, ReadKeeps, LostKeeps, QuitKeeps
     DEF CdcNext

\* The invariant of the serial port holds in every reachable state.
LEMMA CdcAlways == CdcSpec => []CdcInv
  BY InitCdcInv, NextCdcInv, PTL DEF CdcSpec

\* As long as no exchange with a Pico has failed, every answer taken for good is
\* the answer to the request it was taken for.
THEOREM AnswersInStep == CdcSpec => []InStep
  BY CdcAlways, PTL DEF CdcInv

\* Until then a reboot reported as done is accepted, or the Pico has gone.
THEOREM RebootsAreDone == CdcSpec => []RebootIsDone
  BY CdcAlways, PTL DEF CdcInv

-----------------------------------------------------------------------------
(* The log that arrives (LogHarvest).                                      *)

\* Any numbers have a least one, because < on them is well-founded; so what
\* holds at 0 and goes from each number to the next holds of all.
Below == {pair \in Nat \X Nat : pair[1] < pair[2]}

LEMMA LeastOf ==
  ASSUME NEW T, T \subseteq Nat, T # {}
  PROVE  \E x \in T : \A y \in T : x <= y
<1>1. IsWellFoundedOn({pair \in Nat \X Nat : pair[1] < pair[2]}, Nat)
  BY NatLessThanWellFounded DEF OpToRel
<1>2. IsWellFoundedOn(Below, Nat)
  BY <1>1 DEF Below
<1>3. \E x \in T : \A y \in T : <<y, x>> \notin Below
  BY <1>2, WFMin
<1>4. ASSUME NEW x \in T, NEW y \in T, <<y, x>> \notin Below
      PROVE  x <= y
  BY <1>4 DEF Below
<1> QED
  BY <1>3, <1>4

LEMMA OneByOne ==
  ASSUME NEW T, 0 \in T, \A n \in Nat : n \in T => n + 1 \in T
  PROVE  Nat \subseteq T
<1> SUFFICES ASSUME Nat \ T # {} PROVE FALSE
  OBVIOUS
<1>1. PICK x \in Nat \ T : \A y \in Nat \ T : x <= y
  BY LeastOf
<1>2. x - 1 \in Nat /\ x - 1 \in T
  BY <1>1
<1> QED
  BY <1>1, <1>2

\* The flattening of a sequence is what the recursion of FlattenSeq describes,
\* once there is something that it describes.
LEMMA Flattened ==
  ASSUME NEW seqs, Len(seqs) # 0,
         NEW g, g = [i \in 1 .. Len(seqs) |-> IF i = 1 THEN seqs[i] ELSE g[i - 1] \o seqs[i]]
  PROVE  \E f : /\ f = [i \in 1 .. Len(seqs) |-> IF i = 1 THEN seqs[i] ELSE f[i - 1] \o seqs[i]]
                /\ FlattenSeq(seqs) = f[Len(seqs)]
<1> DEFINE Def(f) == [i \in 1 .. Len(seqs) |-> IF i = 1 THEN seqs[i] ELSE f[i - 1] \o seqs[i]]
           flatten == CHOOSE f : f = Def(f)
<1>1. FlattenSeq(seqs) = flatten[Len(seqs)]
  BY Zenon DEF FlattenSeq
<1>2. g = Def(g)
  OBVIOUS
<1> HIDE DEF Def
<1>3. flatten = Def(flatten)
  BY <1>2, Zenon
<1> HIDE DEF flatten
<1> QED
  BY <1>1, <1>3 DEF Def

\* The units of the log from x on, as far as y.
Units(x, y) == [j \in 1 .. y - x |-> x + j]

LEMMA UnitsAre ==
  ASSUME NEW x \in Nat, NEW y \in Nat, x <= y
  PROVE  /\ Units(x, y) \in Seq(Nat) /\ Len(Units(x, y)) = y - x
         /\ DOMAIN Units(x, y) = 1 .. y - x
         /\ \A j \in 1 .. y - x : Units(x, y)[j] = x + j
BY DEF Units

LEMMA UnitsJoin ==
  ASSUME NEW x \in Nat, NEW y \in Nat, NEW z \in Nat, x <= y, y <= z
  PROVE  Units(x, y) \o Units(y, z) = Units(x, z)
<1> DEFINE s == Units(x, y)
           t == Units(y, z)
           u == Units(x, z)
<1>0. x <= z
  OBVIOUS
<1>1. /\ s \in Seq(Nat) /\ Len(s) = y - x /\ \A j \in 1 .. y - x : s[j] = x + j
      /\ t \in Seq(Nat) /\ Len(t) = z - y /\ \A j \in 1 .. z - y : t[j] = y + j
      /\ u \in Seq(Nat) /\ Len(u) = z - x /\ \A j \in 1 .. z - x : u[j] = x + j
  BY <1>0, UnitsAre
<1> HIDE DEF s, t, u
<1> DEFINE both == s \o t
<1>2. /\ both \in Seq(Nat) /\ Len(both) = z - x
      /\ \A i \in 1 .. z - x : both[i] = IF i <= y - x THEN s[i] ELSE t[i - (y - x)]
  <2>1. /\ both \in Seq(Nat) /\ Len(both) = Len(s) + Len(t)
        /\ \A i \in 1 .. Len(s) + Len(t) :
               both[i] = IF i <= Len(s) THEN s[i] ELSE t[i - Len(s)]
    BY <1>1, ConcatProperties
  <2>2. Len(s) + Len(t) = z - x
    BY <1>1
  <2> QED
    BY <1>1, <2>1, <2>2
<1> HIDE DEF both
<1>3. \A i \in 1 .. z - x : both[i] = x + i
  <2>1. SUFFICES ASSUME NEW i \in 1 .. z - x PROVE both[i] = x + i
    OBVIOUS
  <2>2. CASE i <= y - x
    BY <1>1, <1>2, <2>2
  <2>3. CASE ~(i <= y - x)
    <3>1. i - (y - x) \in 1 .. z - y
      BY <2>3
    <3>2. both[i] = y + (i - (y - x))
      BY <1>1, <1>2, <2>3, <3>1
    <3> QED
      BY <3>2
  <2> QED
    BY <2>2, <2>3
<1>4. both = u
  BY <1>1, <1>2, <1>3, SeqEqual
<1> QED
  BY <1>4 DEF both, s, t, u

\* Parts that continue each other flatten to the whole.
LEMMA PartsJoin ==
  ASSUME NEW x \in Nat, NEW N \in Nat \ {0}, NEW cut \in [0 .. N -> Nat], cut[0] = x,
         \A k \in 1 .. N : x <= cut[k - 1] /\ cut[k - 1] <= cut[k],
         NEW parts, Len(parts) = N, \A k \in 1 .. N : parts[k] = Units(cut[k - 1], cut[k])
  PROVE  FlattenSeq(parts) = Units(x, cut[N])
<1> DEFINE g == [k \in 1 .. N |-> Units(x, cut[k])]
<1>2. \A k \in 1 .. N : k # 1 => g[k] = g[k - 1] \o parts[k]
  <2> SUFFICES ASSUME NEW k \in 1 .. N, k # 1
                 PROVE  g[k] = g[k - 1] \o parts[k]
    OBVIOUS
  <2>2. k - 1 \in 1 .. N
    OBVIOUS
  <2>3. cut[k - 1] \in Nat /\ cut[k] \in Nat /\ x <= cut[k - 1] /\ cut[k - 1] <= cut[k]
    BY <2>2
  <2>4. Units(x, cut[k]) = Units(x, cut[k - 1]) \o Units(cut[k - 1], cut[k])
    BY <2>3, UnitsJoin
  <2>5. g[k] = Units(x, cut[k]) /\ g[k - 1] = Units(x, cut[k - 1])
    BY <2>2
  <2>6. parts[k] = Units(cut[k - 1], cut[k])
    OBVIOUS
  <2> QED
    BY <2>4, <2>5, <2>6
<1>3. g[1] = parts[1] /\ g[N] = Units(x, cut[N])
  OBVIOUS
<1>4. g = [k \in 1 .. Len(parts) |-> IF k = 1 THEN parts[k] ELSE g[k - 1] \o parts[k]]
  <2>1. g = [k \in 1 .. N |-> g[k]]
    OBVIOUS
  <2> HIDE DEF g
  <2>2. [k \in 1 .. N |-> g[k]]
            = [k \in 1 .. N |-> IF k = 1 THEN parts[k] ELSE g[k - 1] \o parts[k]]
    BY <1>2, <1>3
  <2> QED
    BY <2>1, <2>2
<1> HIDE DEF g
<1>5. PICK f : /\ f = [k \in 1 .. Len(parts) |-> IF k = 1 THEN parts[k]
                                                ELSE f[k - 1] \o parts[k]]
               /\ FlattenSeq(parts) = f[Len(parts)]
  <2>1. Len(parts) # 0
    OBVIOUS
  <2> QED
    BY <1>4, <2>1, Flattened, Zenon
<1>6. /\ f[1] = parts[1] /\ FlattenSeq(parts) = f[N]
      /\ \A k \in 1 .. N : k # 1 => f[k] = f[k - 1] \o parts[k]
  <2>1. \A k \in 1 .. Len(parts) : f[k] = IF k = 1 THEN parts[k] ELSE f[k - 1] \o parts[k]
    BY <1>5, Zenon
  <2>2. \A k \in 1 .. N : f[k] = IF k = 1 THEN parts[k] ELSE f[k - 1] \o parts[k]
    BY <2>1
  <2>3. FlattenSeq(parts) = f[N]
    BY <1>5
  <2>4. f[1] = parts[1]
    BY <2>2
  <2> QED
    BY <2>2, <2>3, <2>4
<1> DEFINE T == {k \in Nat : k \in 1 .. N => f[k] = g[k]}
<1>7. 0 \in T
  OBVIOUS
<1>8. ASSUME NEW k \in Nat, k \in T PROVE k + 1 \in T
  <2>1. CASE k + 1 \in 1 .. N /\ k + 1 # 1
    <3>1. (k + 1) - 1 = k /\ k \in 1 .. N
      BY <2>1
    <3>2. f[k + 1] = f[k] \o parts[k + 1] /\ g[k + 1] = g[k] \o parts[k + 1]
      BY <1>2, <1>6, <2>1, <3>1
    <3>3. f[k] = g[k]
      BY <1>8, <3>1
    <3>4. f[k + 1] = g[k + 1]
      BY <3>2, <3>3
    <3> QED
      BY <3>4
  <2>2. CASE k + 1 = 1
    BY <1>3, <1>6, <2>2
  <2> QED
    BY <2>1, <2>2
<1>9. Nat \subseteq T
  BY <1>7, <1>8, OneByOne
<1>10. f[N] = g[N]
  BY <1>9
<1> QED
  BY <1>3, <1>6, <1>10

-----------------------------------------------------------------------------
(* The chunks of one answer.                                               *)

\* What SendLogChunks sends when n lines have been logged.
LostAt(n) == IF 2 * n > RingUnits THEN 2 * n - RingUnits ELSE 0
SizeAt(n) == 2 * n - LostAt(n)
TotalAt(n) == IF SizeAt(n) = 0 THEN 1 ELSE (SizeAt(n) + ChunkUnits - 1) \div ChunkUnits
FirstAt(n, i) == LostAt(n) + i * ChunkUnits + 1
ChunkAt(n, i) ==
    [index |-> i, total |-> TotalAt(n), last |-> i = TotalAt(n) - 1,
     lost |-> IF i = 0 THEN LostAt(n) ELSE 0, first |-> FirstAt(n, i),
     upto |-> Min({2 * n, FirstAt(n, i) + ChunkUnits - 1})]
ChunksAt(n) == {ChunkAt(n, i) : i \in 0 .. TotalAt(n) - 1}

LEMMA ChunkIs == \A i : Chunk(i) = ChunkAt(logged, i)
BY DEF Chunk, ChunkAt, Lost, LostAt, SizeAt, TotalAt, FirstAt

LEMMA LostIs ==
  ASSUME NEW n \in Nat
  PROVE  LostAt(n) \in Nat /\ LostAt(n) <= 2 * n /\ SizeAt(n) \in Nat
BY LogAssumption DEF LostAt, SizeAt

LEMMA Times ==
  ASSUME NEW a \in Nat, NEW b \in Nat, a <= b, NEW c \in Nat
  PROVE  a * c <= b * c /\ a * c \in Nat
OBVIOUS

LEMMA Division ==
  ASSUME NEW s \in Nat, NEW c \in Nat \ {0}
  PROVE  LET t == s \div c
         IN t \in Nat /\ t * c <= s /\ s < t * c + c
OBVIOUS

\* As many chunks as are needed, and no more.
LEMMA TotalFits ==
  ASSUME NEW n \in Nat
  PROVE  /\ TotalAt(n) \in Nat \ {0} /\ SizeAt(n) <= TotalAt(n) * ChunkUnits
         /\ \A k \in Nat : k < TotalAt(n) => k * ChunkUnits <= SizeAt(n)
<1> DEFINE c == ChunkUnits
           s == SizeAt(n)
           t == TotalAt(n)
<1>1. c \in Nat \ {0} /\ s \in Nat
  BY LogAssumption, LostIs
<1>2. CASE s = 0
  <2>1. t = 1
    BY <1>2 DEF TotalAt
  <2> QED
    BY <1>1, <1>2, <2>1
<1>3. CASE s # 0
  <2>1. t = (s + c - 1) \div c
    BY <1>3 DEF TotalAt
  <2>2. s + c - 1 \in Nat
    BY <1>1, <1>3
  <2> HIDE DEF c, s, t
  <2>3. t \in Nat /\ t * c <= s + c - 1 /\ s + c - 1 < t * c + c
    BY <1>1, <2>1, <2>2, Division
  <2>4. t * c \in Nat
    BY <1>1, <2>3
  <2>5. t # 0 /\ s <= t * c
    <3>1. t = 0 => t * c = 0
      BY <1>1
    <3> QED
      BY <1>1, <1>3, <2>3, <2>4, <3>1
  <2>6. ASSUME NEW k \in Nat, k < t PROVE k * c <= s
    <3>1. (k + 1) * c <= t * c /\ (k + 1) * c = k * c + c /\ k * c \in Nat
      BY <1>1, <2>3, <2>6, Times
    <3> QED
      BY <1>1, <2>3, <2>4, <3>1
  <2> QED
    BY <2>3, <2>5, <2>6 DEF c, s, t
<1> QED
  BY <1>2, <1>3

LEMMA MinOfTwo ==
  ASSUME NEW a \in Nat, NEW b \in Nat
  PROVE  Min({a, b}) = IF a <= b THEN a ELSE b
BY DEF Min

\* Where the chunks of an answer end.
Cuts(n) == [k \in 0 .. TotalAt(n) |-> IF k = TotalAt(n) THEN 2 * n
                                       ELSE LostAt(n) + k * ChunkUnits]

LEMMA CutsAre ==
  ASSUME NEW n \in Nat
  PROVE  /\ Cuts(n) \in [0 .. TotalAt(n) -> Nat]
         /\ Cuts(n)[0] = LostAt(n) /\ Cuts(n)[TotalAt(n)] = 2 * n
         /\ \A k \in 1 .. TotalAt(n) :
                /\ LostAt(n) <= Cuts(n)[k - 1] /\ Cuts(n)[k - 1] <= Cuts(n)[k]
                /\ ChunkAt(n, k - 1).first = Cuts(n)[k - 1] + 1
                /\ ChunkAt(n, k - 1).upto = Cuts(n)[k]
<1> DEFINE c == ChunkUnits
           t == TotalAt(n)
           x == LostAt(n)
           cut(k) == IF k = t THEN 2 * n ELSE x + k * c
<1>1. c \in Nat \ {0} /\ t \in Nat \ {0} /\ x \in Nat /\ x <= 2 * n
  BY LogAssumption, LostIs, TotalFits
<1>2. \A k \in Nat : k * c \in Nat /\ (k < t => x + k * c <= 2 * n)
  BY <1>1, TotalFits, LostIs DEF SizeAt
<1>2a. 2 * n <= x + t * c
  BY <1>1, <1>2, TotalFits, LostIs DEF SizeAt
<1>3. \A k \in 0 .. t : Cuts(n)[k] = cut(k) /\ cut(k) \in Nat
  BY <1>1, <1>2 DEF Cuts
<1>3a. Cuts(n) = [k \in 0 .. t |-> cut(k)]
  BY DEF Cuts
<1>4. ASSUME NEW k \in 1 .. t
      PROVE  /\ x <= cut(k - 1) /\ cut(k - 1) <= cut(k)
             /\ ChunkAt(n, k - 1).first = cut(k - 1) + 1
             /\ ChunkAt(n, k - 1).upto = cut(k)
  <2>1. k \in Nat /\ k - 1 \in Nat /\ k - 1 < t /\ k <= t
    BY <1>1
  <2>2. k * c = (k - 1) * c + c
    BY <1>1, <2>1
  <2>3. ChunkAt(n, k - 1).first = x + (k - 1) * c + 1
    BY DEF ChunkAt, FirstAt
  <2>4. ChunkAt(n, k - 1).upto = Min({2 * n, x + (k - 1) * c + 1 + c - 1})
    BY DEF ChunkAt, FirstAt
  <2> DEFINE a == (k - 1) * c
             b == k * c
  <2>5. a \in Nat /\ b \in Nat /\ x + a <= 2 * n /\ b = a + c /\ (k < t => x + b <= 2 * n)
    BY <1>2, <2>1, <2>2
  <2>6. cut(k - 1) = x + a /\ cut(k) = IF k = t THEN 2 * n ELSE x + b
    BY <2>1
  <2>7. k = t => 2 * n <= x + b
    BY <1>2a
  <2> HIDE DEF a, b, x, cut
  <2>8. x + b \in Nat /\ 2 * n \in Nat /\ x + a + 1 + c - 1 = x + b
    BY <1>1, <2>5
  <2>9. Min({2 * n, x + b}) = IF 2 * n <= x + b THEN 2 * n ELSE x + b
    BY <2>8, MinOfTwo
  <2>10. Min({2 * n, x + b}) = cut(k)
    BY <1>1, <2>1, <2>5, <2>6, <2>7, <2>8, <2>9
  <2>11. ChunkAt(n, k - 1).upto = cut(k) /\ ChunkAt(n, k - 1).first = cut(k - 1) + 1
    BY <2>3, <2>4, <2>6, <2>8, <2>10 DEF a
  <2>12. x <= cut(k - 1) /\ cut(k - 1) <= cut(k)
    BY <1>1, <2>1, <2>5, <2>6
  <2> QED
    BY <2>11, <2>12
<1>5. cut(0) = x /\ cut(t) = 2 * n
  BY <1>1
<1> HIDE DEF cut, c
<1>6. Cuts(n) \in [0 .. t -> Nat]
  BY <1>3, <1>3a
<1>7. 0 \in 0 .. t /\ t \in 0 .. t /\ \A k \in 1 .. t : k - 1 \in 0 .. t /\ k \in 0 .. t
  BY <1>1
<1> QED
  BY <1>3, <1>4, <1>5, <1>6, <1>7

\* Of the chunks of an answer, as many come before one as its index says.
LEMMA Before ==
  ASSUME NEW n \in Nat, NEW i \in 0 .. TotalAt(n) - 1
  PROVE  Cardinality({y \in ChunksAt(n) : y.index < i}) = i
<1> DEFINE S == {y \in ChunksAt(n) : y.index < i}
           f == [m \in 1 .. i |-> ChunkAt(n, m - 1)]
<1>1. i \in Nat /\ TotalAt(n) \in Nat
  BY TotalFits
<1>2. \A m : ChunkAt(n, m).index = m
  BY DEF ChunkAt
<1>3. \A m \in 1 .. i : f[m] \in S
  <2> SUFFICES ASSUME NEW m \in 1 .. i PROVE ChunkAt(n, m - 1) \in S
    OBVIOUS
  <2>1. m - 1 \in 0 .. TotalAt(n) - 1 /\ m - 1 < i
    BY <1>1
  <2> QED
    BY <1>2, <2>1 DEF ChunksAt
<1>4. \A y \in S : \E m \in 1 .. i : f[m] = y
  <2> SUFFICES ASSUME NEW y \in S PROVE \E m \in 1 .. i : f[m] = y
    OBVIOUS
  <2>1. PICK j \in 0 .. TotalAt(n) - 1 : y = ChunkAt(n, j)
    BY DEF ChunksAt
  <2>2. j < i
    BY <1>2, <2>1
  <2>3. j + 1 \in 1 .. i /\ (j + 1) - 1 = j
    BY <1>1, <2>2
  <2>4. f[j + 1] = ChunkAt(n, j)
    BY <2>3
  <2> QED
    BY <2>1, <2>3, <2>4
<1>5. \A a, b \in 1 .. i : f[a] = f[b] => a = b
  <2> SUFFICES ASSUME NEW a \in 1 .. i, NEW b \in 1 .. i, f[a] = f[b] PROVE a = b
    OBVIOUS
  <2>1. f[a].index = a - 1 /\ f[b].index = b - 1
    BY <1>2
  <2>2. a - 1 = b - 1
    BY <2>1
  <2> QED
    BY <2>2
<1>6. f \in [1 .. i -> S] /\ DOMAIN f = 1 .. i
  BY <1>3
<1> HIDE DEF f, S
<1>7. f \in Bijection(1 .. i, S)
  BY <1>4, <1>5, <1>6 DEF Bijection, Injection, Surjection, IsInjective
<1>8. ExistsBijection(1 .. i, S)
  BY <1>7 DEF ExistsBijection
<1>9. Cardinality(S) = i
  BY <1>1, <1>8, FS_CountingElements
<1> QED
  BY <1>9 DEF S

\* Put together, the chunks of an answer are the log that was not lost.
LEMMA WholeText ==
  ASSUME NEW n \in Nat, Cardinality(ChunksAt(n)) = TotalAt(n)
  PROVE  Text(ChunksAt(n)) = Units(LostAt(n), 2 * n)
<1> DEFINE t == TotalAt(n)
           got == ChunksAt(n)
           pick(k) == CHOOSE x \in got : Cardinality({y \in got : y.index < x.index}) = k - 1
           parts == [k \in 1 .. Cardinality(got) |->
                        [m \in 1 .. pick(k).upto - pick(k).first + 1 |-> pick(k).first + m - 1]]
<1>1. t \in Nat \ {0}
  BY TotalFits
<1>2. \A k \in 1 .. t : pick(k) = ChunkAt(n, k - 1)
  <2> SUFFICES ASSUME NEW k \in 1 .. t PROVE pick(k) = ChunkAt(n, k - 1)
    OBVIOUS
  <2>1. \A x \in got : /\ x = ChunkAt(n, x.index)
                       /\ Cardinality({y \in got : y.index < x.index}) = x.index
    <3> SUFFICES ASSUME NEW x \in got
                 PROVE  /\ x = ChunkAt(n, x.index)
                        /\ Cardinality({y \in got : y.index < x.index}) = x.index
      OBVIOUS
    <3>1. PICK i \in 0 .. t - 1 : x = ChunkAt(n, i)
      BY DEF ChunksAt
    <3>2. x.index = i
      BY <3>1 DEF ChunkAt
    <3> QED
      BY <3>1, <3>2, Before
  <2>2. ChunkAt(n, k - 1) \in got /\ ChunkAt(n, k - 1).index = k - 1
    <3>1. k - 1 \in 0 .. t - 1
      BY <1>1
    <3> QED
      BY <3>1 DEF ChunksAt, ChunkAt
  <2> HIDE DEF got
  <2> DEFINE P(x) == x \in got /\ Cardinality({y \in got : y.index < x.index}) = k - 1
  <2>3. P(ChunkAt(n, k - 1))
    BY <2>1, <2>2
  <2>4. P(pick(k))
    BY <2>3, Zenon
  <2>5. pick(k).index = k - 1 /\ pick(k) = ChunkAt(n, pick(k).index)
    BY <2>1, <2>4
  <2> QED
    BY <2>5
<1>3. Text(got) = FlattenSeq(parts)
  BY DEF Text
<1>4. Len(parts) = t
  BY <1>1
<1>5. ASSUME NEW k \in 1 .. t
      PROVE  parts[k] = Units(Cuts(n)[k - 1], Cuts(n)[k])
  <2> DEFINE c == ChunkAt(n, k - 1)
             x == Cuts(n)[k - 1]
             y == Cuts(n)[k]
  <2>1. parts[k] = [m \in 1 .. c.upto - c.first + 1 |-> c.first + m - 1]
    <3>1. pick(k) = c /\ k \in 1 .. Cardinality(got)
      BY <1>2
    <3> HIDE DEF pick, c
    <3>2. parts[k] = [m \in 1 .. pick(k).upto - pick(k).first + 1 |-> pick(k).first + m - 1]
      BY <3>1
    <3> QED
      BY <3>1, <3>2
  <2>2. x \in Nat /\ y \in Nat /\ c.first = x + 1 /\ c.upto = y
    <3>1. k \in 0 .. t /\ k - 1 \in 0 .. t
      BY <1>1
    <3> QED
      BY <3>1, CutsAre
  <2> HIDE DEF c, x, y, parts
  <2>3. c.upto - c.first + 1 = y - x
    BY <2>2
  <2>4. \A m \in 1 .. y - x : c.first + m - 1 = x + m
    BY <2>2
  <2>5. parts[k] = [m \in 1 .. y - x |-> x + m]
    BY <2>1, <2>3, <2>4
  <2> QED
    BY <2>5 DEF Units, x, y
<1> HIDE DEF parts
<1>6. /\ Cuts(n) \in [0 .. t -> Nat] /\ Cuts(n)[0] = LostAt(n) /\ Cuts(n)[t] = 2 * n
      /\ \A k \in 1 .. t : LostAt(n) <= Cuts(n)[k - 1] /\ Cuts(n)[k - 1] <= Cuts(n)[k]
  BY CutsAre
<1>7. LostAt(n) \in Nat
  BY LostIs
<1> DEFINE cut == Cuts(n)
<1> HIDE DEF t, cut
<1>8. FlattenSeq(parts) = Units(LostAt(n), cut[t])
  <2>1. /\ cut \in [0 .. t -> Nat] /\ cut[0] = LostAt(n)
        /\ \A k \in 1 .. t : LostAt(n) <= cut[k - 1] /\ cut[k - 1] <= cut[k]
        /\ \A k \in 1 .. t : parts[k] = Units(cut[k - 1], cut[k])
    BY <1>5, <1>6 DEF cut
  <2> QED
    BY <1>1, <1>4, <1>7, <2>1, PartsJoin, ZenonT(60)
<1>9. cut[t] = 2 * n
  BY <1>6 DEF cut
<1> QED
  BY <1>3, <1>8, <1>9

\* A harvest record that says it is complete has the chunks of one answer, all of
\* them, if what it has is of one answer.
LEMMA CompleteRecord ==
  ASSUME NEW n \in Nat, NEW got \in SUBSET ChunksAt(n), NEW ended,
         ChunkComplete(Assemble(got, ended))
  PROVE  /\ Assemble(got, ended).text = Units(LostAt(n), 2 * n)
         /\ Assemble(got, ended).lost = LostAt(n)
<1> DEFINE s == Assemble(got, ended)
<1>1. /\ s.text = Text(got) /\ s.lost = LostOf(got) /\ s.count = Cardinality(got)
      /\ s.expected = {c.total : c \in {x \in got : x.index = 0}}
      /\ s.missing = (UNION {0 .. m - 1 : m \in s.expected}) \ {c.index : c \in got}
  BY DEF Assemble
<1>2. s.expected = {s.count} /\ s.missing = {}
  BY DEF ChunkComplete
<1> HIDE DEF s
<1>3. TotalAt(n) \in Nat \ {0}
  BY TotalFits
<1>4. ASSUME NEW c \in got
      PROVE  /\ c.total = TotalAt(n) /\ c = ChunkAt(n, c.index)
             /\ c.index = 0 => c.lost = LostAt(n)
  <2>1. PICK i \in 0 .. TotalAt(n) - 1 : c = ChunkAt(n, i)
    BY DEF ChunksAt
  <2>2. /\ c.index = i /\ c.total = TotalAt(n)
        /\ c.lost = IF i = 0 THEN LostAt(n) ELSE 0
    BY <2>1 DEF ChunkAt
  <2> QED
    BY <2>1, <2>2
<1>5. Cardinality(got) = TotalAt(n) /\ s.expected = {TotalAt(n)}
  <2>1. \A m \in s.expected : m = TotalAt(n)
    BY <1>1, <1>4
  <2> QED
    BY <1>1, <1>2, <2>1
<1>6. \A i \in 0 .. TotalAt(n) - 1 : ChunkAt(n, i) \in got
  <2> SUFFICES ASSUME NEW i \in 0 .. TotalAt(n) - 1 PROVE ChunkAt(n, i) \in got
    OBVIOUS
  <2>1. i \in UNION {0 .. m - 1 : m \in s.expected}
    BY <1>5
  <2>2. i \in {c.index : c \in got}
    BY <1>1, <1>2, <2>1
  <2> QED
    BY <1>4, <2>2
<1>7. got = ChunksAt(n)
  BY <1>6 DEF ChunksAt
<1>8. LostOf(got) = LostAt(n)
  <2>1. 0 \in 0 .. TotalAt(n) - 1
    BY <1>3
  <2>2. \E c \in got : c.index = 0
    BY <1>6, <2>1 DEF ChunkAt
  <2>3. \A c \in got : c.index = 0 => c.lost = LostAt(n)
    BY <1>4
  <2> DEFINE x == CHOOSE c \in got : c.index = 0
  <2>4. x \in got /\ x.index = 0
    BY <2>2, Zenon
  <2> HIDE DEF x
  <2>5. LostOf(got) = x.lost
    BY <2>2 DEF LostOf, x
  <2> QED
    BY <2>3, <2>4, <2>5
<1> QED
  BY <1>1, <1>5, <1>7, <1>8, WholeText DEF s

\* What is extracted from a part of the log that ends with a line is lines of it.
LEMMA LinesAreWhole ==
  ASSUME NEW x \in Nat, NEW n \in Nat, x <= 2 * n, NEW l \in Extract(Units(x, 2 * n))
  PROVE  Whole(l)
<1> DEFINE text == Units(x, 2 * n)
           ends(i, j) == /\ i <= j
                         /\ i > 1 => text[i - 1] % 2 = 0
                         /\ \A k \in i .. j - 1 : text[k] % 2 = 1
                         /\ text[j] % 2 = 0 \/ j = Len(text)
<1>1. /\ text \in Seq(Nat) /\ Len(text) = 2 * n - x /\ DOMAIN text = 1 .. 2 * n - x
      /\ \A k \in 1 .. 2 * n - x : text[k] = x + k
  BY UnitsAre
<1>2. l[1] % 2 = 1 /\ l \in LinesOf(text)
  BY DEF Extract
<1>3. \E i \in DOMAIN text : \E j \in DOMAIN text : ends(i, j) /\ l = SubSeq(text, i, j)
  BY <1>2 DEF LinesOf
<1> HIDE DEF text, ends
<1>4. PICK i \in DOMAIN text, j \in DOMAIN text : ends(i, j) /\ l = SubSeq(text, i, j)
  BY <1>3
<1>4a. i <= j
  BY <1>4 DEF ends
<1>4b. \A k \in i .. j - 1 : text[k] % 2 = 1
  BY <1>4 DEF ends
<1>4c. text[j] % 2 = 0 \/ j = Len(text)
  BY <1>4 DEF ends
<1>4d. l = SubSeq(text, i, j)
  BY <1>4
<1>4e. i \in 1 .. 2 * n - x /\ j \in 1 .. 2 * n - x /\ 2 * n - x \in Nat
  BY <1>1
<1>5. i \in Nat /\ j \in Nat /\ 1 <= i /\ i <= j /\ j <= 2 * n - x
  BY <1>4a, <1>4e
<1>5a. \A k \in i .. j : k \in 1 .. 2 * n - x /\ x + k \in Nat
  BY <1>5
<1>6. /\ Len(l) = j - i + 1 /\ \A k \in 1 .. j - i + 1 : l[k] = x + (i + k - 1)
  <2>1. \A k \in i .. j : text[k] \in Nat /\ text[k] = x + k
    BY <1>1, <1>5a
  <2>2. /\ Len(SubSeq(text, i, j)) = IF i <= j THEN j - i + 1 ELSE 0
        /\ \A k \in 1 .. j - i + 1 : SubSeq(text, i, j)[k] = text[i + k - 1]
    <3>1. \A k \in i .. j : text[k] \in Nat
      BY <2>1
    <3> QED
      BY <1>5, <3>1, SubSeqProperties
  <2>3. \A k \in 1 .. j - i + 1 : text[i + k - 1] = x + (i + k - 1)
    BY <1>5, <2>1
  <2> QED
    BY <1>4d, <1>5, <2>2, <2>3
<1>7. l[1] = x + i /\ (x + i) % 2 = 1
  BY <1>2, <1>5, <1>6
<1>8. i # j
  <2> SUFFICES ASSUME i = j PROVE FALSE
    OBVIOUS
  <2>1. text[j] = x + i
    BY <1>1, <1>4e
  <2>2. j = Len(text)
    BY <1>4c, <1>7, <2>1
  <2>3. x + i = 2 * n
    BY <1>1, <1>5, <2>2
  <2> QED
    BY <1>7, <2>3
<1>9. j = i + 1
  <2> SUFFICES ASSUME i + 1 < j PROVE FALSE
    BY <1>5, <1>8
  <2>1. i + 1 \in i .. j - 1 /\ i + 1 \in i .. j
    BY <1>5
  <2>1a. text[i + 1] = x + (i + 1)
    BY <1>1, <1>5a, <2>1
  <2>2. (x + (i + 1)) % 2 = 1
    BY <1>4b, <2>1, <2>1a
  <2> QED
    BY <1>5, <1>7, <2>2
<1> QED
  BY <1>5, <1>6, <1>9 DEF Whole

-----------------------------------------------------------------------------
(* Sockets, and what comes out of them.                                    *)

AllChunks == UNION {ChunksAt(n) : n \in Nat}
ChunksTo(r) == {d.chunk : d \in {e \in net : e.to = r}}
ChunksOf(r) == sock[r].got \cup ChunksTo(r)

\* Until its one request has been heard, and when it has been closed, there is
\* nothing for a socket; then what there is comes from one answer.
Sockets ==
    /\ logged \in Nat /\ net \in SUBSET [to : Readers, chunk : AllChunks]
    /\ sock \in [Readers -> [open : BOOLEAN, got : SUBSET AllChunks, last : BOOLEAN]]
    /\ \A r \in Readers :
           /\ \E n \in Nat : ChunksOf(r) \subseteq ChunksAt(n)
           /\ <<r, TRUE>> \in asks => sock[r].open
           /\ <<r, TRUE>> \in asks \/ ~sock[r].open => ChunksOf(r) = {}
    /\ "at" \in DOMAIN bundle
    /\ bundle.at \notin {"chunks", "packets"} => ~sock["bundle"].open

LEMMA InitSockets == Init => Sockets
<1> SUFFICES ASSUME Init PROVE Sockets
  OBVIOUS
<1>1. /\ logged = 0 /\ asks = {} /\ net = {} /\ sock = [r \in Readers |-> Closed]
      /\ bundle = Bundle
  BY DEF Init
<1>2. \A r \in Readers : ChunksOf(r) = {} /\ sock[r] = Closed
  BY <1>1 DEF ChunksOf, ChunksTo, Closed
<1>3. sock \in [Readers -> [open : BOOLEAN, got : SUBSET AllChunks, last : BOOLEAN]]
  BY <1>1 DEF Closed
<1>4. "at" \in DOMAIN bundle /\ ~sock["bundle"].open /\ 0 \in Nat
  BY <1>1, <1>2 DEF Bundle, Closed, Readers
<1>5. \A r \in Readers : \E n \in Nat : ChunksOf(r) \subseteq ChunksAt(n)
  BY <1>2, <1>4
<1> QED
  BY <1>1, <1>2, <1>3, <1>4, <1>5 DEF Sockets

\* Nothing is asked, sent or received.
LEMMA SocketsStand ==
  ASSUME Sockets, logged' \in Nat, UNCHANGED <<asks, net, sock>>, "at" \in DOMAIN bundle',
         bundle'.at \notin {"chunks", "packets"} => bundle.at \notin {"chunks", "packets"}
  PROVE  Sockets'
BY DEF Sockets, ChunksOf, ChunksTo

\* A socket that was closed is opened, and asks.
LEMMA OpenKeepsSockets ==
  ASSUME Sockets, NEW r \in Readers, Open(r), ~sock[r].open, logged' = logged,
         "at" \in DOMAIN bundle',
         bundle'.at \notin {"chunks", "packets"} =>
             r # "bundle" /\ bundle.at \notin {"chunks", "packets"}
  PROVE  Sockets'
<1>1. /\ sock' = [sock EXCEPT ![r] = Opened] /\ asks' = asks \cup {<<r, TRUE>>}
      /\ net' = net
  BY DEF Open
<1>2. /\ sock'[r].open /\ sock'[r].got = {}
      /\ \A q \in Readers \ {r} : sock'[q] = sock[q]
      /\ sock' \in [Readers -> [open : BOOLEAN, got : SUBSET AllChunks, last : BOOLEAN]]
  <2>1. sock \in [Readers -> [open : BOOLEAN, got : SUBSET AllChunks, last : BOOLEAN]]
    BY DEF Sockets
  <2>2. /\ Opened \in [open : BOOLEAN, got : SUBSET AllChunks, last : BOOLEAN]
        /\ Opened.open = TRUE /\ Opened.got = {}
    BY DEF Opened, Closed
  <2> QED
    BY <1>1, <2>1, <2>2
<1>3. \A q \in Readers : ChunksTo(q)' = ChunksTo(q)
  BY <1>1 DEF ChunksTo
<1>4. ChunksOf(r)' = {}
  <2>1. sock'[r].got \cup ChunksTo(r)' = ChunksTo(r)
    BY <1>2, <1>3
  <2>2. ChunksTo(r) = {}
    BY DEF Sockets, ChunksOf
  <2> QED
    BY <2>1, <2>2 DEF ChunksOf
<1>5. \A q \in Readers \ {r} : ChunksOf(q)' = ChunksOf(q)
  BY <1>2, <1>3 DEF ChunksOf
<1>6. \A q \in Readers \ {r} : <<q, TRUE>> \in asks' <=> <<q, TRUE>> \in asks
  BY <1>1
<1>7. ASSUME NEW q \in Readers
      PROVE  /\ \E n \in Nat : ChunksOf(q)' \subseteq ChunksAt(n)
             /\ <<q, TRUE>> \in asks' => sock'[q].open
             /\ <<q, TRUE>> \in asks' \/ ~sock'[q].open => ChunksOf(q)' = {}
  <2>1. CASE q = r
    <3>1. ChunksOf(q)' \subseteq ChunksAt(0) /\ 0 \in Nat
      BY <1>4, <2>1
    <3> QED
      BY <1>2, <1>4, <1>6, <2>1, <3>1
  <2>2. CASE q # r
    <3>1. ChunksOf(q)' = ChunksOf(q) /\ sock'[q] = sock[q]
      BY <1>2, <1>5, <2>2
    <3>2. <<q, TRUE>> \in asks' => <<q, TRUE>> \in asks
      BY <1>6, <2>2
    <3>3. /\ \E n \in Nat : ChunksOf(q) \subseteq ChunksAt(n)
          /\ <<q, TRUE>> \in asks => sock[q].open
          /\ <<q, TRUE>> \in asks \/ ~sock[q].open => ChunksOf(q) = {}
      BY DEF Sockets
    <3> QED
      BY <3>1, <3>2, <3>3
  <2> QED
    BY <2>1, <2>2
<1>8. bundle'.at \notin {"chunks", "packets"} => ~sock'["bundle"].open
  BY <1>2 DEF Sockets, Readers
<1> QED
  BY <1>1, <1>2, <1>7, <1>8 DEF Sockets

LEMMA CloseKeepsSockets ==
  ASSUME Sockets, NEW r \in Readers, Close(r), logged' = logged,
         "at" \in DOMAIN bundle',
         bundle'.at \notin {"chunks", "packets"} =>
             r = "bundle" \/ bundle.at \notin {"chunks", "packets"}
  PROVE  Sockets'
<1>1. /\ sock' = [sock EXCEPT ![r] = Closed] /\ net' = {d \in net : d.to # r}
      /\ asks' = {IF a[1] = r THEN <<r, FALSE>> ELSE a : a \in asks}
  BY DEF Close
<1>2. /\ ~sock'[r].open /\ sock'[r].got = {}
      /\ \A q \in Readers \ {r} : sock'[q] = sock[q]
      /\ sock' \in [Readers -> [open : BOOLEAN, got : SUBSET AllChunks, last : BOOLEAN]]
  <2>1. sock \in [Readers -> [open : BOOLEAN, got : SUBSET AllChunks, last : BOOLEAN]]
    BY DEF Sockets
  <2>2. Closed = [open |-> FALSE, got |-> {}, last |-> FALSE]
    BY DEF Closed
  <2> QED
    BY <1>1, <2>1, <2>2
<1>2a. net' \in SUBSET [to : Readers, chunk : AllChunks]
  BY <1>1 DEF Sockets
<1>3. ChunksTo(r)' = {} /\ \A q \in Readers \ {r} : ChunksTo(q)' = ChunksTo(q)
  BY <1>1 DEF ChunksTo
<1>4. ChunksOf(r)' = {}
  BY <1>2, <1>3 DEF ChunksOf
<1>5. \A q \in Readers \ {r} : ChunksOf(q)' = ChunksOf(q)
  BY <1>2, <1>3 DEF ChunksOf
<1>6. /\ <<r, TRUE>> \notin asks'
      /\ \A q \in Readers \ {r} : <<q, TRUE>> \in asks' => <<q, TRUE>> \in asks
  <2> SUFFICES ASSUME NEW q \in Readers, <<q, TRUE>> \in asks'
               PROVE  q # r /\ <<q, TRUE>> \in asks
    OBVIOUS
  <2>1. PICK a \in asks : <<q, TRUE>> = IF a[1] = r THEN <<r, FALSE>> ELSE a
    BY <1>1
  <2>2. a[1] # r
    BY <2>1
  <2>3. <<q, TRUE>> = a
    BY <2>1, <2>2
  <2> QED
    BY <2>2, <2>3
<1>7. ASSUME NEW q \in Readers
      PROVE  /\ \E n \in Nat : ChunksOf(q)' \subseteq ChunksAt(n)
             /\ <<q, TRUE>> \in asks' => sock'[q].open
             /\ <<q, TRUE>> \in asks' \/ ~sock'[q].open => ChunksOf(q)' = {}
  <2>1. CASE q = r
    <3>1. ChunksOf(q)' \subseteq ChunksAt(0) /\ 0 \in Nat
      BY <1>4, <2>1
    <3> QED
      BY <1>2, <1>4, <1>6, <2>1, <3>1
  <2>2. CASE q # r
    <3>1. ChunksOf(q)' = ChunksOf(q) /\ sock'[q] = sock[q]
      BY <1>2, <1>5, <2>2
    <3>2. <<q, TRUE>> \in asks' => <<q, TRUE>> \in asks
      BY <1>6, <2>2
    <3>3. /\ \E n \in Nat : ChunksOf(q) \subseteq ChunksAt(n)
          /\ <<q, TRUE>> \in asks => sock[q].open
          /\ <<q, TRUE>> \in asks \/ ~sock[q].open => ChunksOf(q) = {}
      BY DEF Sockets
    <3> QED
      BY <3>1, <3>2, <3>3
  <2> QED
    BY <2>1, <2>2
<1>8. bundle'.at \notin {"chunks", "packets"} => ~sock'["bundle"].open
  BY <1>2 DEF Sockets, Readers
<1> QED
  BY <1>2, <1>2a, <1>7, <1>8 DEF Sockets

\* The one answer to a request comes to a socket that has nothing yet.
LEMMA AnswerKeepsSockets ==
  ASSUME Sockets, NEW r \in Readers, NEW open \in BOOLEAN, OnGetLog(r, open)
  PROVE  Sockets'
<1> DEFINE S(k) == {[to |-> r, chunk |-> ChunkAt(logged, i)] : i \in 0 .. k - 1}
<1>1. /\ <<r, open>> \in asks /\ asks' = asks \ {<<r, open>>}
      /\ sock' = sock /\ bundle' = bundle /\ logged' = logged + 1
  BY DEF OnGetLog, SendLogChunks, DropReply
<1>2. logged \in Nat /\ logged' \in Nat
  BY <1>1 DEF Sockets
<1>3. \/ net' = net
      \/ open = TRUE /\ \E k \in 0 .. TotalAt(logged) : net' = net \cup S(k)
  <2>1. \A i : Chunk(i) = ChunkAt(logged, i)
    BY ChunkIs
  <2>2. Chunk(0).total = TotalAt(logged)
    BY <2>1 DEF ChunkAt
  <2>3. CASE DropReply
    BY <2>3 DEF DropReply
  <2>4. CASE SendLogChunks(r, open)
    <3>1. PICK k \in 0 .. TotalAt(logged) :
             net' = IF open THEN net \cup {[to |-> r, chunk |-> Chunk(i)] : i \in 0 .. k - 1}
                    ELSE net
      BY <2>2, <2>4 DEF SendLogChunks
    <3>2. {[to |-> r, chunk |-> Chunk(i)] : i \in 0 .. k - 1} = S(k)
      BY <2>1
    <3> HIDE DEF S
    <3> QED
      BY <3>1, <3>2
  <2> QED
    BY <2>3, <2>4 DEF OnGetLog
<1>4. CASE net' = net
  BY <1>1, <1>2, <1>4 DEF Sockets, ChunksOf, ChunksTo
<1>5. CASE open = TRUE /\ \E k \in 0 .. TotalAt(logged) : net' = net \cup S(k)
  <2>1. PICK k \in 0 .. TotalAt(logged) : net' = net \cup S(k)
    BY <1>5
  <2>2. \A i \in 0 .. k - 1 : i \in 0 .. TotalAt(logged) - 1
    BY <1>2, TotalFits
  <2>3. \A i \in 0 .. k - 1 : ChunkAt(logged, i) \in ChunksAt(logged)
    BY <2>2 DEF ChunksAt
  <2>4. \A d \in S(k) : d.to = r /\ d.chunk \in ChunksAt(logged)
                      /\ d \in [to : Readers, chunk : ChunksAt(logged)]
    BY <2>3
  <2> HIDE DEF S
  <2>5. ChunksAt(logged) \subseteq AllChunks
    BY <1>2 DEF AllChunks
  <2>6. net' \in SUBSET [to : Readers, chunk : AllChunks]
    BY <2>1, <2>4, <2>5 DEF Sockets
  <2>7. <<r, TRUE>> \in asks /\ <<r, TRUE>> \notin asks'
    BY <1>1, <1>5
  <2>8. sock[r].open /\ ChunksOf(r) = {}
    BY <2>7 DEF Sockets
  <2>9. ChunksOf(r)' \subseteq ChunksAt(logged)
    <3>1. sock'[r].got = {} /\ ChunksTo(r) = {}
      BY <1>1, <2>8 DEF ChunksOf
    <3>2. ChunksTo(r)' \subseteq ChunksAt(logged)
      BY <2>1, <2>4, <3>1 DEF ChunksTo
    <3> QED
      BY <3>1, <3>2 DEF ChunksOf
  <2>10. \A q \in Readers \ {r} : ChunksOf(q)' = ChunksOf(q)
    <3> SUFFICES ASSUME NEW q \in Readers \ {r} PROVE ChunksOf(q)' = ChunksOf(q)
      OBVIOUS
    <3>1. ChunksTo(q)' = ChunksTo(q)
      BY <2>1, <2>4 DEF ChunksTo
    <3> QED
      BY <1>1, <3>1 DEF ChunksOf
  <2>11. ASSUME NEW q \in Readers
         PROVE  /\ \E n \in Nat : ChunksOf(q)' \subseteq ChunksAt(n)
                /\ <<q, TRUE>> \in asks' => sock'[q].open
                /\ <<q, TRUE>> \in asks' \/ ~sock'[q].open => ChunksOf(q)' = {}
    <3>1. CASE q = r
      BY <1>1, <1>2, <2>7, <2>8, <2>9, <3>1
    <3>2. CASE q # r
      <4>1. ChunksOf(q)' = ChunksOf(q) /\ sock'[q] = sock[q]
        BY <1>1, <2>10, <3>2
      <4>2. <<q, TRUE>> \in asks' => <<q, TRUE>> \in asks
        BY <1>1
      <4>3. /\ \E n \in Nat : ChunksOf(q) \subseteq ChunksAt(n)
            /\ <<q, TRUE>> \in asks => sock[q].open
            /\ <<q, TRUE>> \in asks \/ ~sock[q].open => ChunksOf(q) = {}
        BY DEF Sockets
      <4> QED
        BY <4>1, <4>2, <4>3
    <3> QED
      BY <3>1, <3>2
  <2> QED
    BY <1>1, <1>2, <2>6, <2>11 DEF Sockets
<1> QED
  BY <1>3, <1>4, <1>5

\* What a socket receives was on its way to it.
LEMMA ReceiveKeepsSockets ==
  ASSUME Sockets, NEW d \in net, Receive(d)
  PROVE  Sockets'
<1> DEFINE r == d.to
           c == d.chunk
<1>1. r \in Readers /\ c \in AllChunks
  BY DEF Sockets
<1>2. c.last \in BOOLEAN
  <2>1. PICK n \in Nat : c \in ChunksAt(n)
    BY <1>1 DEF AllChunks
  <2>2. PICK i \in 0 .. TotalAt(n) - 1 : c = ChunkAt(n, i)
    BY <2>1 DEF ChunksAt
  <2> QED
    BY <2>2 DEF ChunkAt
<1>3. /\ sock' = [sock EXCEPT ![r].got = @ \cup {c}, ![r].last = c.last]
      /\ sock[r].open /\ logged' = logged /\ asks' = asks /\ net' = net /\ bundle' = bundle
  BY DEF Receive, pico
<1>4. c \in ChunksTo(r)
  BY DEF ChunksTo
<1> HIDE DEF r, c
<1>5. sock \in [Readers -> [open : BOOLEAN, got : SUBSET AllChunks, last : BOOLEAN]]
  BY DEF Sockets
<1>6. /\ sock' \in [Readers -> [open : BOOLEAN, got : SUBSET AllChunks, last : BOOLEAN]]
      /\ sock'[r].got = sock[r].got \cup {c} /\ sock'[r].open = sock[r].open
      /\ \A q \in Readers \ {r} : sock'[q] = sock[q]
  BY <1>1, <1>2, <1>3, <1>5
<1>7. \A q \in Readers : sock'[q].open = sock[q].open
  BY <1>6
<1>8. \A q \in Readers : ChunksOf(q)' = ChunksOf(q)
  <2> SUFFICES ASSUME NEW q \in Readers PROVE ChunksOf(q)' = ChunksOf(q)
    OBVIOUS
  <2>1. ChunksTo(q)' = ChunksTo(q)
    BY <1>3 DEF ChunksTo
  <2> QED
    BY <1>4, <1>6, <2>1 DEF ChunksOf
<1> QED
  <2>1. \A q \in Readers : 
           /\ \E n \in Nat : ChunksOf(q)' \subseteq ChunksAt(n)
           /\ <<q, TRUE>> \in asks' => sock'[q].open
           /\ <<q, TRUE>> \in asks' \/ ~sock'[q].open => ChunksOf(q)' = {}
    <3> SUFFICES ASSUME NEW q \in Readers
                 PROVE  /\ \E n \in Nat : ChunksOf(q)' \subseteq ChunksAt(n)
                        /\ <<q, TRUE>> \in asks' => sock'[q].open
                        /\ <<q, TRUE>> \in asks' \/ ~sock'[q].open => ChunksOf(q)' = {}
      OBVIOUS
    <3>1. /\ \E n \in Nat : ChunksOf(q) \subseteq ChunksAt(n)
          /\ <<q, TRUE>> \in asks => sock[q].open
          /\ <<q, TRUE>> \in asks \/ ~sock[q].open => ChunksOf(q) = {}
      BY DEF Sockets
    <3>2. ChunksOf(q)' = ChunksOf(q) /\ sock'[q].open = sock[q].open
      BY <1>7, <1>8
    <3> QED
      BY <1>3, <3>1, <3>2
  <2>2. bundle'.at \notin {"chunks", "packets"} => ~sock'["bundle"].open
    BY <1>3, <1>7 DEF Sockets, Readers
  <2> QED
    BY <1>3, <1>6, <2>1, <2>2 DEF Sockets

\* Every step keeps the sockets in order.
LEMMA StepKeepsSockets ==
  ASSUME Sockets, [Next]_vars
  PROVE  Sockets'
<1>0. "at" \in DOMAIN bundle /\ logged \in Nat
  BY DEF Sockets
<1>1. ASSUME logged' \in Nat, UNCHANGED <<asks, net, sock, bundle>> PROVE Sockets'
  BY <1>0, <1>1, SocketsStand
<1>2. ASSUME logged' = logged, UNCHANGED <<asks, net, sock>>, "at" \in DOMAIN bundle',
             bundle.at \notin {"chunks", "packets"}
      PROVE  Sockets'
  BY <1>0, <1>2, SocketsStand
<1>3. CASE UNCHANGED vars
  BY <1>0, <1>1, <1>3 DEF vars
<1>4. CASE Log
  BY <1>0, <1>1, <1>4 DEF Log
<1>5. CASE Tick
  BY <1>0, <1>1, <1>5 DEF Tick
<1>6. CASE \E r \in Readers, open \in BOOLEAN : OnGetLog(r, open)
  BY <1>6, AnswerKeepsSockets
<1>7. CASE \E d \in net : Receive(d)
  BY <1>7, ReceiveKeepsSockets
<1>8. CASE EnsureSink
  BY <1>0, <1>1, <1>8 DEF EnsureSink, pico
<1>9. CASE HarvestRefused
  BY <1>0, <1>1, <1>9 DEF HarvestRefused, pico
<1>10. CASE CaptureSetupCdc
  <2>1. bundle.at = "start" /\ logged' = logged /\ UNCHANGED <<asks, net, sock>>
    BY <1>10 DEF CaptureSetupCdc, Quiet, pico
  <2>2. "at" \in DOMAIN bundle'
    BY <1>0, <1>10 DEF CaptureSetupCdc, Tell, Bundle
  <2> QED
    BY <1>2, <2>1, <2>2
<1>11. CASE CaptureVendorControl
  <2>1. bundle.at = "vendor" /\ logged' = logged /\ UNCHANGED <<asks, net, sock>>
    BY <1>11 DEF CaptureVendorControl, Quiet, pico
  <2>2. "at" \in DOMAIN bundle'
    BY <1>0, <1>11 DEF CaptureVendorControl, Tell, Bundle
  <2> QED
    BY <1>2, <2>1, <2>2
<1>12. CASE CaptureTarget
  <2>1. bundle.at = "start" /\ logged' = logged /\ UNCHANGED <<asks, net, sock>>
    BY <1>12 DEF CaptureTarget, Quiet, pico
  <2>2. "at" \in DOMAIN bundle'
    BY <1>0, <1>12 DEF CaptureTarget
  <2> QED
    BY <1>2, <2>1, <2>2
<1>13. CASE CaptureRunUdp
  <2>1. bundle.at = "udp"
    BY <1>13 DEF CaptureRunUdp
  <2>2. \/ (\E o : UdpOutcome(o)) /\ Quiet
        \/ /\ Open("bundle") /\ bundle' = [bundle EXCEPT !.at = "chunks"]
           /\ UNCHANGED <<pico, sink, record, gaps>>
    BY <1>13 DEF CaptureRunUdp
  <2>3. CASE (\E o : UdpOutcome(o)) /\ Quiet
    <3>1. "at" \in DOMAIN bundle'
      BY <2>3 DEF UdpOutcome, Tell, Bundle
    <3>2. logged' = logged /\ UNCHANGED <<asks, net, sock>>
      BY <2>3 DEF Quiet, pico
    <3> QED
      BY <1>2, <2>1, <3>1, <3>2
  <2>4. CASE /\ Open("bundle") /\ bundle' = [bundle EXCEPT !.at = "chunks"]
             /\ UNCHANGED <<pico, sink, record, gaps>>
    <3>1. ~sock["bundle"].open /\ "bundle" \in Readers
      BY <2>1 DEF Sockets, Readers
    <3>2. bundle'.at = "chunks" /\ "at" \in DOMAIN bundle' /\ logged' = logged
      BY <1>0, <2>4 DEF pico
    <3> QED
      BY <2>4, <3>1, <3>2, OpenKeepsSockets
  <2> QED
    BY <2>2, <2>3, <2>4
<1>14. CASE AskForPackets
  <2>1. ~sock["bundle"].open /\ "bundle" \in Readers
    BY <1>14 DEF AskForPackets, Sockets, Readers
  <2>2. bundle'.at = "packets" /\ "at" \in DOMAIN bundle' /\ logged' = logged /\ Open("bundle")
    BY <1>0, <1>14 DEF AskForPackets, pico
  <2> QED
    BY <2>1, <2>2, OpenKeepsSockets
<1>15. CASE HarvestTick
  <2>1. /\ ~sock["stream"].open /\ "stream" \in Readers /\ "stream" # "bundle"
        /\ Open("stream") /\ bundle' = bundle /\ logged' = logged
    BY <1>15 DEF HarvestTick, Readers, pico
  <2> QED
    BY <1>0, <2>1, OpenKeepsSockets
<1>16. CASE HarvestEnds
  <2>1. "stream" \in Readers /\ Close("stream") /\ bundle' = bundle /\ logged' = logged
    BY <1>16 DEF HarvestEnds, Readers, pico
  <2> QED
    BY <1>0, <2>1, CloseKeepsSockets
<1>17. CASE CaptureLogChunks
  <2>1. "bundle" \in Readers /\ Close("bundle") /\ logged' = logged
    BY <1>17 DEF CaptureLogChunks, Readers, pico
  <2>2. "at" \in DOMAIN bundle'
    BY <1>17 DEF CaptureLogChunks, UdpOutcome, Tell, Bundle
  <2> QED
    BY <2>1, <2>2, CloseKeepsSockets
<1>18. CASE HarvestPackets
  <2>1. "bundle" \in Readers /\ Close("bundle") /\ logged' = logged
    BY <1>18 DEF HarvestPackets, Readers, pico
  <2>2. "at" \in DOMAIN bundle'
    BY <1>18 DEF HarvestPackets, Bundle
  <2> QED
    BY <2>1, <2>2, CloseKeepsSockets
<1> QED
  BY <1>3, <1>4, <1>5, <1>6, <1>7, <1>8, <1>9, <1>10, <1>11, <1>12, <1>13, <1>14, <1>15,
     <1>16, <1>17, <1>18 DEF Next

\* What a reader's socket has is of one answer; a record of it that says it is
\* complete is a snapshot, and its packet lines are whole.
LEMMA RecordIsWhole ==
  ASSUME Sockets, NEW r \in Readers, NEW ended, NEW s, s = Assemble(sock[r].got, ended),
         ChunkComplete(s)
  PROVE  IsSnapshot(s.text, s.lost) /\ \A l \in Extract(s.text) : Whole(l)
<1>1. PICK n \in Nat : sock[r].got \subseteq ChunksAt(n)
  BY DEF Sockets, ChunksOf
<1>2. s.text = Units(LostAt(n), 2 * n) /\ s.lost = LostAt(n)
  BY <1>1, CompleteRecord
<1>3. LostAt(n) \in Nat /\ LostAt(n) <= 2 * n /\ 2 * n \in Nat
  BY LostIs
<1>4. IsSnapshot(Units(LostAt(n), 2 * n), LostAt(n))
  BY <1>3, UnitsAre DEF IsSnapshot
<1>5. \A l \in Extract(Units(LostAt(n), 2 * n)) : Whole(l)
  BY <1>3, LinesAreWhole
<1> QED
  BY <1>2, <1>4, <1>5

LEMMA HarvestRecords ==
  ASSUME Sockets, CompleteIsWhole, [Next]_vars
  PROVE  CompleteIsWhole'
<1>1. ASSUME NEW r \in Readers, record' = RecordOf(Assemble(sock[r].got, sock[r].last))
      PROVE  CompleteIsWhole'
  <2> DEFINE s == Assemble(sock[r].got, sock[r].last)
  <2>1. ChunkComplete(s) => IsSnapshot(s.text, s.lost)
    BY RecordIsWhole
  <2> HIDE DEF s
  <2>2. record' = [complete |-> ChunkComplete(s), text |-> s.text, lost |-> s.lost]
    BY <1>1 DEF RecordOf, s
  <2>3. record'.complete = ChunkComplete(s) /\ record'.text = s.text /\ record'.lost = s.lost
    BY <2>2
  <2> QED
    BY <2>1, <2>3 DEF CompleteIsWhole
<1>2. CASE record' = record
  BY <1>2 DEF CompleteIsWhole
<1>3. "stream" \in Readers /\ "bundle" \in Readers
  BY DEF Readers
<1>4. CASE HarvestEnds
  BY <1>1, <1>2, <1>3, <1>4 DEF HarvestEnds, ApplyHarvest, NoteHarvest
<1>5. CASE HarvestPackets
  BY <1>1, <1>2, <1>3, <1>5 DEF HarvestPackets
<1>6. CASE Log \/ Tick \/ UNCHANGED vars
  BY <1>2, <1>6 DEF Log, Tick, vars
<1>7. CASE \E r \in Readers, open \in BOOLEAN : OnGetLog(r, open)
  BY <1>2, <1>7 DEF OnGetLog
<1>8. CASE \E d \in net : Receive(d)
  BY <1>2, <1>8 DEF Receive
<1>9. CASE EnsureSink \/ HarvestTick \/ HarvestRefused
  BY <1>2, <1>9 DEF EnsureSink, HarvestTick, HarvestRefused
<1>10. CASE CaptureSetupCdc \/ CaptureVendorControl \/ CaptureTarget
  BY <1>2, <1>10 DEF CaptureSetupCdc, CaptureVendorControl, CaptureTarget, Quiet
<1>11. CASE CaptureRunUdp \/ CaptureLogChunks \/ AskForPackets
  BY <1>2, <1>11 DEF CaptureRunUdp, CaptureLogChunks, AskForPackets, Quiet
<1> QED
  BY <1>4, <1>5, <1>6, <1>7, <1>8, <1>9, <1>10, <1>11 DEF Next

SinkTyped == gaps \in BOOLEAN /\ sink = [state |-> sink.state, lines |-> sink.lines]

LEMMA HarvestFiles ==
  ASSUME Sockets, SinkTyped, FileHoldsRealLines, [Next]_vars
  PROVE  (SinkTyped /\ FileHoldsRealLines)'
<1> USE DEF SinkTyped
<1>1. CASE UNCHANGED <<sink, gaps>>
  BY <1>1 DEF FileHoldsRealLines
<1>2. CASE sink' = GivenUp /\ gaps' = gaps
  BY <1>2 DEF FileHoldsRealLines, GivenUp
<1>3. ASSUME NEW s, s = Assemble(sock["stream"].got, sock["stream"].last),
             sink' = [sink EXCEPT !.lines = @ \cup Extract(s.text)], NoteHarvest(s)
      PROVE  (SinkTyped /\ FileHoldsRealLines)'
  <2>1. ChunkComplete(s) => \A l \in Extract(s.text) : Whole(l)
    BY <1>3, RecordIsWhole DEF Readers
  <2> DEFINE e == Extract(s.text)
             C == ChunkComplete(s)
  <2>2. gaps' = (gaps \/ ~C)
    BY <1>3 DEF NoteHarvest
  <2>3. sink' = [state |-> sink.state, lines |-> sink.lines \cup e]
    BY <1>3
  <2> HIDE DEF e, C
  <2>4. sink'.state = sink.state /\ sink'.lines = sink.lines \cup e
    BY <2>3
  <2>5. SinkTyped'
    BY <2>2, <2>3, <2>4
  <2>6. ~gaps' => ~gaps /\ C
    BY <2>2
  <2>7. C => \A l \in e : Whole(l)
    BY <2>1 DEF C, e
  <2> QED
    BY <2>4, <2>5, <2>6, <2>7 DEF FileHoldsRealLines
<1>4. CASE HarvestEnds
  <2>1. CASE sink' \in {sink, GivenUp} /\ UNCHANGED <<record, gaps>>
    BY <1>1, <1>2, <2>1
  <2>2. CASE ApplyHarvest(Assemble(sock["stream"].got, sock["stream"].last))
    <3> DEFINE s == Assemble(sock["stream"].got, sock["stream"].last)
    <3> HIDE DEF s
    <3>1. ApplyHarvest(s)
      BY <2>2 DEF s
    <3>2. sink' # GivenUp => /\ NoteHarvest(s)
                             /\ sink' = [sink EXCEPT !.lines = @ \cup Extract(s.text)]
      BY <3>1 DEF ApplyHarvest, AppendLines
    <3>3. sink' = GivenUp => gaps' = gaps
      BY <3>1 DEF ApplyHarvest
    <3> QED
      BY <1>2, <1>3, <3>2, <3>3 DEF s
  <2> QED
    BY <1>4, <2>1, <2>2 DEF HarvestEnds
<1>5. CASE HarvestRefused
  BY <1>2, <1>5 DEF HarvestRefused
<1>6. CASE EnsureSink
  <2>1. sink' \in {[state |-> "open", lines |-> {}], GivenUp} /\ gaps' = gaps
    BY <1>6 DEF EnsureSink, CreateSink
  <2>2. CASE sink' = [state |-> "open", lines |-> {}]
    BY <2>1, <2>2 DEF FileHoldsRealLines
  <2> QED
    BY <1>2, <2>1, <2>2
<1>7. CASE Log \/ Tick \/ UNCHANGED vars
  BY <1>1, <1>7 DEF Log, Tick, vars
<1>8. CASE \E r \in Readers, open \in BOOLEAN : OnGetLog(r, open)
  BY <1>1, <1>8 DEF OnGetLog
<1>9. CASE \E d \in net : Receive(d)
  BY <1>1, <1>9 DEF Receive
<1>10. CASE HarvestTick \/ HarvestPackets
  BY <1>1, <1>10 DEF HarvestTick, HarvestPackets
<1>11. CASE CaptureSetupCdc \/ CaptureVendorControl \/ CaptureTarget
  BY <1>1, <1>11 DEF CaptureSetupCdc, CaptureVendorControl, CaptureTarget, Quiet
<1>12. CASE CaptureRunUdp \/ CaptureLogChunks \/ AskForPackets
  BY <1>1, <1>12 DEF CaptureRunUdp, CaptureLogChunks, AskForPackets, Quiet
<1> QED
  BY <1>4, <1>5, <1>6, <1>7, <1>8, <1>9, <1>10, <1>11, <1>12 DEF Next

LEMMA InitHarvest == Init => CompleteIsWhole /\ SinkTyped /\ FileHoldsRealLines
<1> SUFFICES ASSUME Init PROVE CompleteIsWhole /\ SinkTyped /\ FileHoldsRealLines
  OBVIOUS
<1>1. record = Mute /\ gaps = FALSE /\ sink = [state |-> "none", lines |-> {}]
  BY DEF Init
<1> QED
  BY <1>1 DEF CompleteIsWhole, SinkTyped, FileHoldsRealLines, Mute

\* A harvest record that says chunk_complete tells the truth.
THEOREM CompleteMeansWhole == Spec => []CompleteIsWhole
<1>1. Init => Sockets /\ CompleteIsWhole
  BY InitSockets, InitHarvest
<1>2. Sockets /\ CompleteIsWhole /\ [Next]_vars => (Sockets /\ CompleteIsWhole)'
  BY StepKeepsSockets, HarvestRecords
<1> QED
  BY <1>1, <1>2, PTL DEF Spec

\* A packet file whose records miss nothing holds lines the Pico has logged.
THEOREM FilesHoldRealLines == Spec => []FileHoldsRealLines
<1>1. Init => Sockets /\ SinkTyped /\ FileHoldsRealLines
  BY InitSockets, InitHarvest
<1>2. Sockets /\ SinkTyped /\ FileHoldsRealLines /\ [Next]_vars
          => (Sockets /\ SinkTyped /\ FileHoldsRealLines)'
  BY StepKeepsSockets, HarvestFiles
<1> QED
  BY <1>1, <1>2, PTL DEF Spec
=============================================================================
