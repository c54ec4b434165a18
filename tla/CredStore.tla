------------------------------ MODULE CredStore ------------------------------
(***************************************************************************)
(* What the credential storage of the Pico promises to its callers: one    *)
(* durable record that a store call replaces in one step or leaves alone,  *)
(* whatever the moment at which the power goes.  FlashCreds implements it  *)
(* with two flash sectors.                                                 *)
(***************************************************************************)

CONSTANTS
    Records,   \* the credential records a caller may ask to store
    NoRecord   \* stands for "no credentials stored"

VARIABLES
    record,    \* what flash_creds_load returns
    pending,   \* the record of the store call in progress
    status,    \* "idle", "writing", "written" or "failed"
    outcome    \* the answer to the last store call: "none", "ok" or "error"

vars == <<record, pending, status, outcome>>

Init ==
    /\ record = NoRecord
    /\ pending = NoRecord
    /\ status = "idle"
    /\ outcome = "none"

\* A caller hands over a record.
Request(r) ==
    /\ status = "idle"
    /\ pending' = r
    /\ status' = "writing"
    /\ outcome' = "none"
    /\ UNCHANGED record

\* A record that is refused before anything is written.
Refuse ==
    /\ status = "idle"
    /\ outcome' = "error"
    /\ UNCHANGED <<record, pending, status>>

\* The single instant at which the new record replaces the old one.
Commit ==
    /\ status = "writing"
    /\ record' = pending
    /\ status' = "written"
    /\ UNCHANGED <<pending, outcome>>

\* The write did not take; the old record stays.
Miss ==
    /\ status = "writing"
    /\ status' = "failed"
    /\ UNCHANGED <<record, pending, outcome>>

\* The caller learns the result, which tells what the record is now.
Answer ==
    /\ status \in {"writing", "written", "failed"}
    /\ outcome' = IF status = "written" THEN "ok" ELSE "error"
    /\ status' = "idle"
    /\ pending' = NoRecord
    /\ UNCHANGED record

\* Power goes: the call is forgotten, the record is not.
PowerLoss ==
    /\ status' = "idle"
    /\ pending' = NoRecord
    /\ outcome' = "none"
    /\ UNCHANGED record

Next ==
    \/ \E r \in Records : Request(r)
    \/ Refuse
    \/ Commit
    \/ Miss
    \/ Answer
    \/ PowerLoss

Spec == Init /\ [][Next]_vars
=============================================================================
