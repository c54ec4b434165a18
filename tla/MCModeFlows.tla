------------------------------- MODULE MCModeFlows -------------------------------
EXTENDS ModeFlows, TLC

Seen(mounted, desc, sent, mounts) ==
    [mounted |-> mounted, suspended |-> FALSE, mounts |-> mounts,
     umounts |-> FALSE, desc |-> desc, sent |-> sent, out |-> FALSE]

Polled == Seen(TRUE, TRUE, TRUE, TRUE)
Idles == Seen(TRUE, TRUE, FALSE, TRUE)
Rejects == Seen(FALSE, TRUE, FALSE, FALSE)
Drops == Seen(FALSE, TRUE, FALSE, TRUE)

\* A PC or an Xbox: XInput only; a console that knows one DInput pad and keeps
\* another configured without polling it; an adapter that is not plugged in.
Console == [x \in AllPersonas |-> IF x \in {"Xinput", "Debug"} THEN Polled ELSE Rejects]
Adapter == [x \in AllPersonas |-> CASE x = "Ps3" -> Idles [] x = "Ps4" -> Polled
                                    [] x = "Xinput" -> Drops [] OTHER -> Quiet]
Unplugged == [x \in AllPersonas |-> Quiet]

MCAdapters == {Console, Adapter, Unplugged}

\* A bundle surveys one Pico after the other: Pico 1, with no other about.
Alone == heard = {1} /\ adapter[2] = Unplugged /\ adapter[1] # Unplugged
MCInit == ModeInit /\ persona[2] = "Xinput"
MCNext ==
    /\ ModeNext
    /\ job.flow # "survey" /\ job'.flow = "survey" => Alone
    /\ job.flow = "survey" => 2 \notin heard'

MCSpec == MCInit /\ [][MCNext]_modeVars
=============================================================================
