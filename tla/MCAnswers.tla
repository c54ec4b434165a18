------------------------------- MODULE MCAnswers -------------------------------
(***************************************************************************)
(* The two ways of an answer out of a Pico: in datagrams (LogHarvest) and  *)
(* over the serial port (CdcExchange).  A behaviour is one of one way; the *)
(* other stands still.                                                     *)
(***************************************************************************)
EXTENDS LogHarvest, CdcExchange

VARIABLE overUsb

MCInit ==
    /\ Init /\ CdcInit /\ overUsb \in BOOLEAN
    /\ ~overUsb => device = "setup"   \* one will do
MCNext ==
    /\ \/ overUsb /\ CdcNext /\ UNCHANGED vars
       \/ ~overUsb /\ Next /\ UNCHANGED cdcVars
    /\ UNCHANGED overUsb
MCSpec == MCInit /\ [][MCNext]_<<vars, cdcVars, overUsb>>
=============================================================================
