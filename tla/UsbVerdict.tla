------------------------------- MODULE UsbVerdict -------------------------------
(***************************************************************************)
(* What the bridge concludes from a Pico's USB counters: the state of the  *)
(* enumeration (protocol/usb_diag.rs), the score by which `couchlink auto` *)
(* chooses a persona (cmd_auto.rs), and the adapter survey of a bundle     *)
(* (cmd_bundle/adapter_survey.rs).  Operators only, no state.              *)
(*                                                                         *)
(* A counter is kept as whether it is above 0; NoDiag stands for counters  *)
(* the Pico did not send.                                                  *)
(***************************************************************************)
EXTENDS Integers, Sequences, FiniteSets, SequencesExt

Gamepads == {"Xinput", "XboxOne", "Ps3", "Ps4", "Maple", "GenericHid"}
BluetoothPersonas == {"BluetoothHid", "BluetoothXbox", "BluetoothPlaystation"}
AllPersonas == Gamepads \cup BluetoothPersonas \cup {"Keyboard", "Debug"}

Diags == [mounted : BOOLEAN, suspended : BOOLEAN, mounts : BOOLEAN,
          umounts : BOOLEAN, desc : BOOLEAN, sent : BOOLEAN, out : BOOLEAN]
NoDiag == [captured |-> FALSE]

\* UsbDiag::configuration_state
ConfigurationState(d) ==
    CASE d.mounted -> "configured"
      [] ~d.mounted /\ d.suspended -> "suspended"
      [] ~d.mounted /\ ~d.suspended /\ d.mounts ->
             IF d.umounts THEN "unmounted" ELSE "unmounted_without_callback"
      [] OTHER -> IF d.desc THEN "started" ELSE "no_traffic"

\* AutoScore, in its order.
NoUsbTraffic == 0
EnumerationStarted == 1
ConfiguredThenUnmounted == 2
Suspended == 3
Configured == 4
Polling == 5
PollingWithOut == 6

\* score_usb_diag
Score(d) ==
    CASE d.mounted /\ d.sent -> IF d.out THEN PollingWithOut ELSE Polling
      [] d.mounted /\ ~d.sent -> Configured
      [] OTHER -> CASE ConfigurationState(d) = "no_traffic" -> NoUsbTraffic
                    [] ConfigurationState(d) = "started" -> EnumerationStarted
                    [] ConfigurationState(d) = "suspended" -> Suspended
                    [] OTHER -> ConfiguredThenUnmounted

IsSuccess(score) == score >= Polling
AdapterAccepts(score) == score >= Configured

\* usb_verdict: the line of `couchlink usb-diag`.
UsbVerdict(d) ==
    CASE ConfigurationState(d) = "suspended" -> "WARN"
      [] ConfigurationState(d) = "configured" -> IF d.sent THEN "PASS" ELSE "WARN"
      [] OTHER -> "FAIL"

\* diag_has_usb_host_traffic
HasHostTraffic(d) ==
    d.desc \/ d.mounts \/ d.umounts \/ d.suspended \/ d.sent \/ d.out

-----------------------------------------------------------------------------
(* Which personas are tried, and in which order.                           *)

\* `order` without a persona that it names once at most.
Without(x, order) ==
    IF Contains(order, x) THEN RemoveAt(order, CHOOSE i \in DOMAIN order : order[i] = x)
    ELSE order

\* The first of `order` is the persona in use, if it is one of them.
CurrentFirst(current, order) ==
    IF Contains(order, current) THEN <<current>> \o Without(current, order) ELSE order

XboxFamily == <<"Xinput", "XboxOne">>
PlaystationFamily == <<"Ps3", "GenericHid", "Ps4">>

\* auto_candidates, family_candidates
AutoOrder == <<"Ps3", "GenericHid", "Ps4", "Xinput", "XboxOne", "Maple">>
AutoCandidates(current) == CurrentFirst(current, AutoOrder)
FamilyCandidates(current, family) == CurrentFirst(current, family)

\* ADAPTER_SURVEY_PERSONAS, adapter_survey_candidates
SurveyOrder ==
    <<"Ps3", "GenericHid", "Ps4", "Keyboard", "Xinput", "XboxOne", "Maple">>
SurveyCandidates(current, accepted) ==
    IF accepted /\ current # "Debug" THEN <<>>
    ELSE Without(current, SurveyOrder)

-----------------------------------------------------------------------------
(* The survey of one Pico: its attempts, in order.                         *)

\* survey_diag_accepted: Debug proves nothing.
SurveyAccepted(persona, d) ==
    persona # "Debug" /\ d # NoDiag /\ AdapterAccepts(Score(d))

\* adapter_survey_verdict
Verdict(persona, d) ==
    CASE SurveyAccepted(persona, d) -> "accepted"
      [] d = NoDiag -> "not_captured"
      [] ~SurveyAccepted(persona, d) /\ d # NoDiag ->
             CASE persona = "Debug" /\ AdapterAccepts(Score(d)) -> "evidence_only"
               [] ~d.desc -> "not_enumerated"
               [] OTHER -> "rejected"

\* survey_attempt_from_diag
Attempt(persona, atStart, d) ==
    [persona |-> persona, atStart |-> atStart, captured |-> d # NoDiag,
     score |-> IF d = NoDiag THEN NoUsbTraffic ELSE Score(d),
     accepted |-> SurveyAccepted(persona, d), verdict |-> Verdict(persona, d),
     traffic |-> d # NoDiag /\ HasHostTraffic(d)]

Beats(a, b) ==
    \/ a.accepted /\ ~b.accepted
    \/ a.accepted = b.accepted /\ a.score > b.score

\* Of the attempts at the places `among` the first that no other beats, or none.
FirstBest(attempts, among) ==
    LET top == {i \in among : \A j \in among : ~Beats(attempts[j], attempts[i])}
    IN IF top = {} THEN <<>> ELSE <<attempts[Min(top)]>>

Captured(attempts) == {i \in DOMAIN attempts : attempts[i].captured}

\* Mutant: Debug counts as well.
BestAttemptOfAll(attempts) == FirstBest(attempts, Captured(attempts))

\* best_adapter_survey_candidate
BestAttempt(attempts) ==
    FirstBest(attempts, {i \in Captured(attempts) : attempts[i].persona # "Debug"})

\* best_adapter_survey_bundle_candidate: over the reports of all Picos.
BundleBest(reports) ==
    LET some == {i \in DOMAIN reports : reports[i].best # <<>>}
    IN FirstBest([i \in some |-> reports[i].best[1]], some)

\* build_adapter_survey_report
SurveyReport(attempts, restored) ==
    LET tried == ToSet(attempts)
        current == \E a \in tried : a.atStart /\ a.accepted
        candidate == \E a \in tried : ~a.atStart /\ a.accepted
        missing == ToSet(SurveyOrder) \ {a.persona : a \in tried}
        failed == \E a \in tried : ~a.captured
    IN [attempts |-> attempts,
        best |-> BestAttempt(attempts),
        restored |-> restored,
        coverage |-> CASE current \/ candidate -> "stopped_after_acceptance"
                       [] ~(current \/ candidate) /\ missing = {} /\ ~failed -> "all_attempted"
                       [] OTHER -> "incomplete",
        stop |-> CASE current -> "accepted_current"
                   [] ~current /\ candidate -> "accepted_candidate"
                   [] OTHER -> IF missing # {} THEN "not_all_attempted"
                               ELSE IF failed THEN "failed" ELSE "exhausted"]

\* adapter_connection_report: a Pico's status ...
PicoStatus(attempts) ==
    LET tried == ToSet(attempts)
        accepted == \E a \in tried : a.accepted
        rejected == \E a \in tried : a.verdict = "rejected"
    IN CASE accepted -> "adapter_accepted"
         [] ~accepted /\ rejected -> "rejected"
         [] OTHER -> CASE \E a \in tried : a.traffic -> "traffic_seen"
                       [] \E a \in tried : ~a.captured -> "incomplete"
                       [] OTHER -> "no_traffic"

\* ... and that of the bundle.
ConnectionStatus(statuses) ==
    CASE statuses = {} -> "not_checked"
      [] "adapter_accepted" \in statuses -> "adapter_accepted"
      [] statuses # {} /\ "adapter_accepted" \notin statuses ->
             CASE "rejected" \in statuses -> "rejected"
               [] "traffic_seen" \in statuses -> "traffic_seen"
               [] statuses = {"no_traffic"} -> "no_traffic"
               [] OTHER -> "incomplete"
=============================================================================
