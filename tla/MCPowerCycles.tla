---------------------------- MODULE MCPowerCycles -----------------------------
(***************************************************************************)
(* What a Pico remembers from one life to the next, in two parts that      *)
(* share nothing: the record in its flash (FlashCreds), and what a reset   *)
(* leaves in its registers and RAM (BootFlow).  A behaviour is one of one  *)
(* part; the other stands still.                                           *)
(***************************************************************************)
EXTENDS FlashCreds, BootFlow, TLC

CONSTANTS r1, r2, r3
MCRecords == {r1, r2, r3}
MCOversized == {r3}

ASSUME BootFlowAssumption

VARIABLE part

MCInit == Init /\ BootInit /\ part \in {"flash", "boot"}
MCNext ==
    /\ \/ part = "flash" /\ Next /\ UNCHANGED bootVars
       \/ part = "boot" /\ BootNext /\ UNCHANGED vars
    /\ UNCHANGED part
MCSpec == MCInit /\ [][MCNext]_<<vars, bootVars, part>>
=============================================================================
