------------------------------ MODULE MCSetupFlows ------------------------------
EXTENDS SetupFlows

CONSTANTS w, b   \* processes: one of the user's commands, and a stream

MCFlowsOf == [c \in Processes |->
                 IF c = b THEN {"recover"} ELSE Flows \ {"recover"}]

\* Which of two instances is explored: one process with two flows, or a flow
\* and a disturbance, in a row; or a single flow, with a stream beside it that
\* recovers Picos over and over.
VARIABLE alone

MCInit == Init /\ alone \in BOOLEAN

MCNext ==
    /\ Next
    /\ UNCHANGED alone
    /\ IF alone THEN my'[b].at = "idle" ELSE moves' <= MaxMoves - 1

MCSpec == MCInit /\ [][MCNext]_<<vars, alone>> /\ Fairness
=============================================================================
