------------------------------- MODULE MCRunMode -------------------------------
(***************************************************************************)
(* What a Pico does in run mode: it reports its pad over Bluetooth (BtHid) *)
(* or over USB (InputPath), and it keeps itself on the network (WifiJoin). *)
(* A behaviour is one of one part, for the model has nothing they share;   *)
(* the others stand still.                                                 *)
(***************************************************************************)
EXTENDS BtHid, InputPath, WifiJoin

ASSUME InputPathAssumption

MCFields == <<"buttons", "left_x">>

VARIABLE part

MCInit ==
    /\ Init /\ UsbInit /\ WifiInit /\ part \in {"bluetooth", "usb", "wifi"}
    \* Of a part that stands still, one initial state will do.
    /\ part # "bluetooth" => pad = sent /\ sent = b.report
    /\ part # "wifi" => air = "bad"
MCNext ==
    /\ \/ part = "usb" /\ UsbNext /\ UNCHANGED <<vars, wifiVars>>
       \/ part = "bluetooth" /\ Next /\ UNCHANGED <<usbVars, wifiVars>>
       \/ part = "wifi" /\ WifiNext /\ UNCHANGED <<vars, usbVars>>
    /\ UNCHANGED part

all == <<vars, usbVars, wifiVars, part>>
UsbStep(A) == part = "usb" /\ A /\ UNCHANGED <<vars, wifiVars, part>>
BtStep(A) == part = "bluetooth" /\ A /\ UNCHANGED <<usbVars, wifiVars, part>>
WifiStep(A) == part = "wifi" /\ A /\ UNCHANGED <<vars, usbVars, part>>

\* The fairness of the three specifications.
MCFairness ==
    /\ WF_all(UsbStep(UsbLoop)) /\ WF_all(UsbStep(Tick))
    /\ SF_all(UsbStep(UsbTask)) /\ SF_all(UsbStep(UsbReady))
    /\ SF_all(UsbStep(SendReport))
    /\ WF_all(BtStep(MainLoop)) /\ WF_all(BtStep(RetryTime))
    /\ WF_all(BtStep(SendTime)) /\ WF_all(BtStep(CanSendNow))
    /\ WF_all(BtStep(CallEnds))
    /\ WF_all(WifiStep(Turn)) /\ WF_all(WifiStep(WifiTick))
    /\ WF_all(WifiStep(LinkComesUp)) /\ WF_all(WifiStep(LeaseGranted))

MCSpec == MCInit /\ [][MCNext]_all /\ MCFairness
=============================================================================
