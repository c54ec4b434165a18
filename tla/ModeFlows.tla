-------------------------------- MODULE ModeFlows --------------------------------
(***************************************************************************)
(* The flows of couchlink.exe that move Picos from one persona to another: *)
(* `couchlink auto` and its families (cmd_auto.rs), `couchlink persona`    *)
(* (cmd_persona.rs), the input modes of the home screen (cmd_home.rs), and *)
(* the adapter survey of a bundle (cmd_bundle/capture.rs).                 *)
(*                                                                         *)
(* One flow runs at a time.  It works from snapshots: the persona a Pico   *)
(* had when it was last heard, not the one it is in.  A step is what is    *)
(* done between two waits for the Pico.                                    *)
(***************************************************************************)
EXTENDS PicoModes

CONSTANT Wanted    \* what the user asks for: a persona, or an automatic mode

AutoModes == {"auto", "xbox", "playstation"}

ASSUME ModeFlowsAssumption == Wanted \subseteq AutoModes \cup AllPersonas

VARIABLE job    \* the flow under way

modeVars == <<picoVars, job>>

\* flow: which one; want: what the user asked for; snap: the persona each
\* target was last heard in; todo: targets still to be dealt with; ready: those
\* that may be streamed to; pico, try, best: the target in work, the personas
\* left to try on it and the best one so far; of a survey: the persona to go
\* back to, the attempts, what became of the way back.  History: proved, what
\* was seen polled; missed, whether the Pico has taken a switch that the survey
\* did not see.
Idle == [at |-> "idle", flow |-> "none", want |-> None,
         snap |-> [p \in Picos |-> None], todo |-> {}, ready |-> {},
         pico |-> None, try |-> <<>>, best |-> <<>>,
         orig |-> None, attempts |-> <<>>, restored |-> "no",
         proved |-> {}, missed |-> FALSE]

ModeInit == PicoInit /\ job = Idle

Targets == {p \in Picos : job.snap[p] # None}
At(at) == job.at = at
Go(at) == job' = [job EXCEPT !.at = at]

\* bail!, or an error handed on by `?`.
Bail == job' = Idle
Ask == UNCHANGED <<adapter, outages>>
Think == UNCHANGED picoVars

-----------------------------------------------------------------------------
(* Where a flow begins: with a discovery, and a selection from it.         *)

\* cmd_persona::select_targets, or the cards and routes of the home screen.
Begin(flow, want) ==
    /\ At("idle")
    /\ \E found \in Discoveries(Picos) \ {{}} :
       LET snap == [p \in Picos |-> IF p \in found THEN persona[p] ELSE None]
       IN job' = [Idle EXCEPT
              !.at = IF want \in AutoModes THEN "next" ELSE "switch all",
              !.flow = flow, !.want = want, !.snap = snap,
              !.todo = IF want \in AutoModes THEN found
                       ELSE {p \in found : snap[p] # want}]
    /\ Think

RunCommand == \E want \in Wanted : Begin("command", want)

\* choose_input_mode with its three submenus.
ChooseInputMode == \E want \in Wanted : Begin("home", want)

-----------------------------------------------------------------------------
(* cmd_auto.rs: the personas of one target after another.                  *)

\* is_gamepad_persona and labels aside: which personas, in which order.
CandidatesFor(p) ==
    CASE job.want = "auto" -> AutoCandidates(job.snap[p])
      [] job.want = "xbox" -> FamilyCandidates(job.snap[p], XboxFamily)
      [] job.want = "playstation" -> FamilyCandidates(job.snap[p], PlaystationFamily)

\* select_targets
NextTarget ==
    /\ At("next")
    /\ \E p \in job.todo :
           job' = [job EXCEPT !.at = "switch", !.todo = @ \ {p}, !.pico = p,
                              !.try = CandidatesFor(p), !.best = <<>>]
    /\ Think

Current == job.snap[job.pico]
Candidate == Head(job.try)
NextCandidate == job' = [job EXCEPT !.at = "switch", !.try = Tail(@)]

\* switch_to_candidate, up to the wait.
SwitchToCandidate ==
    /\ At("switch")
    /\ job.try # <<>>
    /\ \/ Current = Candidate /\ Go("query") /\ NoChange
       \/ /\ Current # Candidate
          /\ RequestSetPersona(job.pico, Candidate)
          /\ Go("confirm") \/ Bail
    /\ Ask

\* switch_to_candidate after the wait: not confirmed, the snapshot stays.
ConfirmCandidate ==
    /\ At("confirm")
    /\ \/ \E seen \in Discoveries({job.pico}) :
          /\ WaitForPersona({job.pico}, seen)
          /\ IF job.pico \in seen /\ persona[job.pico] = Candidate
             THEN job' = [job EXCEPT !.at = "query", !.snap[job.pico] = Candidate]
             ELSE NextCandidate
       \/ Bail /\ NoChange
    /\ Ask

\* The target in work may be streamed to; polled: by what its counters say.
Succeed(polled) ==
    job' = [job EXCEPT !.at = "next", !.ready = @ \cup {job.pico},
                       !.proved = IF polled THEN @ \cup {<<job.pico, persona[job.pico]>>}
                                  ELSE @]

\* select_for_target, the loop: the first persona whose reports the host polls
\* ends it.
SelectForTarget ==
    /\ At("query")
    /\ \E d \in QueryUsbDiag(job.pico) :
          CASE d = NoDiag -> NextCandidate
            [] d # NoDiag /\ IsSuccess(Score(d)) -> Succeed(TRUE)
            [] d # NoDiag /\ ~IsSuccess(Score(d)) ->
                   job' = [job EXCEPT !.at = "switch", !.try = Tail(@),
                              !.best = IF @ = <<>> \/ Score(d) > @[1].score
                                       THEN <<[persona |-> Current, score |-> Score(d)]>>
                                       ELSE @]
    /\ Think

\* No candidate left: the result is the best target, which is not streamed to;
\* without any answer the whole command fails.
NoSuccess ==
    /\ At("switch")
    /\ job.try = <<>>
    /\ IF job.best = <<>> THEN Bail
       ELSE job' = [job EXCEPT !.at = "next", !.snap[job.pico] = job.best[1].persona]
    /\ Think

\* run_with_candidates: stream to those that succeeded.
StreamSelected ==
    /\ At("next") /\ job.flow = "command"
    /\ job.todo = {}
    /\ IF job.ready = {} THEN Bail ELSE Go("stream")
    /\ Think

\* Mutant: the routes keep their targets.
StreamAnyRoute ==
    /\ At("next") /\ job.flow = "home"
    /\ job.todo = {}
    /\ job' = [job EXCEPT !.at = "stream", !.ready = Targets]
    /\ Think

\* select_gamepad_targets (and its sibling for a family), then
\* replace_route_targets and require_all_routes_in_targets.
StreamAllRoutes ==
    /\ At("next") /\ job.flow = "home"
    /\ job.todo = {}
    /\ IF job.ready = Targets THEN Go("stream") ELSE Bail
    /\ Think

-----------------------------------------------------------------------------
(* One persona for all: cmd_persona::run, switch_routes_to_persona.        *)

\* A request that fails ends the flow; those sent before it stay sent.
SwitchAll ==
    /\ At("switch all")
    /\ \E p \in job.todo :
          /\ RequestSetPersona(p, job.want)
          /\ \/ job' = [job EXCEPT !.todo = @ \ {p}, !.ready = @ \cup {p},
                           !.at = IF job.todo = {p} THEN "wait all" ELSE @]
             \/ Bail
    /\ Ask

\* Nothing to switch.
AllAlready ==
    /\ At("switch all")
    /\ job.todo = {}
    /\ job' = [job EXCEPT !.at = "release", !.ready = Targets]
    /\ Think

\* What a Pico was heard as, or `else`.
HeardAs(seen, else) ==
    [p \in Picos |-> IF p \in seen THEN persona[p]
                     ELSE IF p \in job.ready THEN else[p] ELSE job.snap[p]]
InMode(snap) == {p \in Picos : snap[p] = job.want}

\* wait_for_persona, merge_targets: of the Picos switched, those heard; stream
\* to the ones in the persona.
WaitAll ==
    /\ At("wait all") /\ job.flow = "command"
    /\ \/ \E seen \in Discoveries(job.ready) :
          LET snap == HeardAs(seen, [p \in Picos |-> None])
          IN /\ WaitForPersona(job.ready, seen)
             /\ IF InMode(snap) = {} THEN Bail
                ELSE job' = [job EXCEPT !.at = "release", !.snap = snap,
                                        !.ready = InMode(snap)]
       \/ Bail /\ NoChange
    /\ Ask

\* The home screen replaces the targets heard, and wants all of them.
WaitAllRoutes ==
    /\ At("wait all") /\ job.flow = "home"
    /\ \/ \E seen \in Discoveries(job.ready) :
          LET snap == HeardAs(seen, job.snap)
          IN /\ WaitForPersona(job.ready, seen)
             /\ IF InMode(snap) # Targets THEN Bail
                ELSE job' = [job EXCEPT !.at = "release", !.snap = snap,
                                        !.ready = Targets]
       \/ Bail /\ NoChange
    /\ Ask

\* wait_for_bluetooth_xinput_release: Windows must have let go of the pad the
\* Pico was before; nothing to wait for outside Bluetooth.
Release ==
    /\ At("release")
    /\ Go("stream") \/ (job.want \in BluetoothPersonas /\ Bail)
    /\ Think

\* stream_routes, until it ends.
StreamEnds == At("stream") /\ Bail /\ Think

-----------------------------------------------------------------------------
(* The adapter survey of a bundle, of one live Pico.                       *)

\* capture_per_pico: the Picos that answer a discovery, or a probe of the address
\* they had last.
LiveSeeds == UNION Discoveries(Picos)

\* A host asked for the descriptors and does not poll.
NeedsCapture(now, d) == d # NoDiag /\ d.desc /\ ~SurveyAccepted(now, d)

\* capture_one_pico: the counters in the present persona come first.
BeginSurvey ==
    /\ At("idle")
    /\ \E p \in LiveSeeds : \E d \in QueryUsbDiag(p) :
       LET now == persona[p]
           mine == [Idle EXCEPT !.flow = "survey", !.pico = p, !.orig = now,
                        !.snap[p] = now, !.attempts = <<Attempt(now, TRUE, d)>>,
                        !.try = SurveyCandidates(now, SurveyAccepted(now, d))]
       IN /\ now \notin BluetoothPersonas
          /\ job' = [mine EXCEPT !.at =
                 IF NeedsCapture(now, d) /\ now # "Debug" THEN "capture" ELSE "survey"]
    /\ Think

\* bundle_usb_packets_for_target: the next persona, when one is left.  Where
\* the switch fails the attempt is noted as failed.
FailedAttempt ==
    job' = [job EXCEPT !.at = "survey", !.try = Tail(@),
                       !.attempts = Append(@, Attempt(Candidate, FALSE, NoDiag)),
                       !.missed = persona'[job.pico] # Current]

\* switch_to_survey_persona, up to the wait.
SwitchToSurveyPersona ==
    /\ At("survey")
    /\ job.try # <<>>
    /\ \/ Current = Candidate /\ Go("survey query") /\ NoChange
       \/ /\ Current # Candidate
          /\ RequestSetPersona(job.pico, Candidate)
          /\ Go("survey confirm") \/ FailedAttempt
    /\ Ask

\* ... and after it.
ConfirmSurveyPersona ==
    /\ At("survey confirm")
    /\ \/ \E seen \in Discoveries({job.pico}) :
          /\ WaitForPersona({job.pico}, seen)
          /\ IF job.pico \in seen /\ persona[job.pico] = Candidate
             THEN job' = [job EXCEPT !.at = "survey query",
                              !.snap[job.pico] = Candidate, !.missed = FALSE]
             ELSE FailedAttempt
       \/ NoChange /\ FailedAttempt
    /\ Ask

\* query_survey_usb_diag: an accepted persona ends the survey; one the host
\* began with and did not accept is tried again with its packets recorded.
QuerySurveyUsbDiag ==
    /\ At("survey query")
    /\ \E d \in QueryUsbDiag(job.pico) :
       LET accepted == SurveyAccepted(Candidate, d)
       IN job' = [job EXCEPT
              !.at = IF NeedsCapture(Candidate, d) THEN "capture" ELSE "survey",
              !.try = IF accepted THEN <<>> ELSE Tail(@),
              !.attempts = Append(@, Attempt(Candidate, FALSE, d))]
    /\ Think

\* capture_persona_usb_packets: the request for a capture boot ...
CaptureRequest ==
    /\ At("capture")
    /\ RequestCapture(job.pico, Current)
    /\ Go("capture wait") \/ Go("survey")
    /\ Ask

\* ... the wait for it ...
CaptureWait ==
    /\ At("capture wait")
    /\ \/ \E seen \in Discoveries({job.pico}) :
          /\ WaitForPersona({job.pico}, seen)
          /\ Go(IF job.pico \in seen /\ persona[job.pico] = Current
                THEN "harvest" ELSE "survey")
       \/ Go("survey") /\ NoChange
    /\ Ask

\* ... and the harvest of its packets, after which capture is switched off.
HarvestAndClear ==
    /\ At("harvest")
    /\ RequestClear(job.pico) \/ NoChange
    /\ Go("survey")
    /\ Ask

\* Mutant: nothing is restored.
RestoreNothing ==
    /\ At("survey")
    /\ job.try = <<>>
    /\ job' = [job EXCEPT !.at = "surveyed", !.restored = "already"]
    /\ Think

\* restore_persona_after_bundle, up to the wait: by the snapshot.
Restore ==
    /\ At("survey")
    /\ job.try = <<>>
    /\ \/ /\ Current = job.orig
          /\ job' = [job EXCEPT !.at = "surveyed", !.restored = "already"]
          /\ NoChange
       \/ /\ Current # job.orig
          /\ RequestSetPersona(job.pico, job.orig)
          /\ Go("restore wait") \/ Go("surveyed")
    /\ Ask

\* ... and after it.
RestoreWait ==
    /\ At("restore wait")
    /\ \/ \E seen \in Discoveries({job.pico}) :
          /\ WaitForPersona({job.pico}, seen)
          /\ job' = [job EXCEPT !.at = "surveyed",
                 !.restored = IF job.pico \in seen /\ persona[job.pico] = job.orig
                              THEN "confirmed" ELSE @]
       \/ Go("surveyed") /\ NoChange
    /\ Ask

SurveyEnds == At("surveyed") /\ Bail /\ Think

-----------------------------------------------------------------------------

Pico(p) == (Joins(p) \/ Outage(p)) /\ UNCHANGED job

ModeNext ==
    \/ \E p \in Picos : Pico(p)
    \/ RunCommand \/ ChooseInputMode
    \/ NextTarget \/ SwitchToCandidate \/ ConfirmCandidate \/ SelectForTarget
    \/ NoSuccess \/ StreamSelected \/ StreamAllRoutes
    \/ SwitchAll \/ AllAlready \/ WaitAll \/ WaitAllRoutes \/ Release \/ StreamEnds
    \/ BeginSurvey \/ SwitchToSurveyPersona \/ ConfirmSurveyPersona
    \/ QuerySurveyUsbDiag \/ CaptureRequest \/ CaptureWait \/ HarvestAndClear
    \/ Restore \/ RestoreWait \/ SurveyEnds

ModeSpec == ModeInit /\ [][ModeNext]_modeVars

-----------------------------------------------------------------------------

Waits == {"idle", "next", "switch", "confirm", "query", "switch all", "wait all",
          "release", "stream", "survey", "survey confirm", "survey query",
          "capture", "capture wait", "harvest", "restore wait", "surveyed"}

Scored == {[persona |-> x, score |-> Score(d)] : x \in AllPersonas, d \in Diags}
Attempts == {Attempt(x, atStart, d) :
                x \in AllPersonas, atStart \in BOOLEAN, d \in Diags \cup {NoDiag}}
Jobs == [at : Waits, flow : {"none", "command", "home", "survey"}, want : Wanted \cup {None},
         snap : [Picos -> AllPersonas \cup {None}], todo : SUBSET Picos,
         ready : SUBSET Picos, pico : Picos \cup {None},
         try : Seq(AllPersonas), best : Seq(Scored), orig : AllPersonas \cup {None},
         attempts : Seq(Attempts), restored : {"no", "already", "confirmed"},
         proved : SUBSET (Picos \X AllPersonas), missed : BOOLEAN]

ModeTypeOK ==
    /\ PicoTypeOK
    /\ job \in Jobs
    /\ job.todo \cup job.ready \subseteq Targets
    /\ At("confirm") \/ At("query") \/ At("survey confirm") \/ At("survey query") =>
           job.try # <<>>

\* Whatever was lost or late on the way, a stream starts only to Picos that are
\* in the persona the bridge takes them to be in, which decides what it sends
\* them, and that is the persona asked for or, in an automatic mode, one that
\* the Pico's host was seen to poll.  The home screen starts all routes of the
\* layout or none.
StreamMatchesMode ==
    At("stream") =>
        /\ \A p \in job.ready :
               /\ persona[p] = job.snap[p]
               /\ IF job.want \in AutoModes THEN <<p, persona[p]>> \in job.proved
                  ELSE persona[p] = job.want
        /\ job.flow = "home" => job.ready = Targets

\* A survey whose Pico was seen in each persona it was switched to, and whose
\* report says that it is back in the one it began in, has left it there: also
\* when it went through some switches and not through others, was power-cycled
\* in between, or booted to record packets.
SurveyLeavesNoTrace ==
    At("surveyed") /\ job.restored # "no" /\ ~job.missed =>
        persona[job.pico] = job.orig

\* What the survey's report concludes is so of the Pico's host: the bundle calls
\* an adapter accepting only if it configures one of the personas surveyed, the
\* best candidate is not Debug and does as well on that host as the report
\* says, and the survey stopped early only for one that was accepted.
ReportIsTrue ==
    At("surveyed") =>
        LET report == SurveyReport(job.attempts, job.restored)
            host == adapter[job.pico]
        IN /\ ConnectionStatus({PicoStatus(job.attempts)}) = "adapter_accepted" =>
                  \E x \in ToSet(SurveyOrder) : AdapterAccepts(Score(host[x]))
           /\ \A best \in ToSet(BundleBest(<<report>>)) :
                  /\ best.persona \in ToSet(SurveyOrder)
                  /\ best.score <= Score(host[best.persona])
           /\ report.coverage = "stopped_after_acceptance" <=>
                  (report.best # <<>> /\ report.best[1].accepted)

\* What docs say of the bundle: it "restores the original persona after the
\* adapter survey pass".  Where the report claims that, it is so.
OriginalRestored ==
    At("surveyed") /\ job.restored # "no" => persona[job.pico] = job.orig
=============================================================================
