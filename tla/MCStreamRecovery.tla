-------------------------- MODULE MCStreamRecovery --------------------------
(***************************************************************************)
(* What a stream does: it finds its Picos again (StreamRecovery), and it   *)
(* sends them what is typed (Keyboard).  A behaviour is one of one part,   *)
(* for the model has nothing they share; the other stands still.           *)
(***************************************************************************)
EXTENDS StreamRecovery

CONSTANTS p1, p2
MCRoutes == <<p1, p2>>

CONSTANTS Modifiers, Bit, Codes, Usage, Room, MaxNet
VARIABLES hook, injected, asked, down, net, keys, running, late

keyVars == <<hook, injected, asked, down, net, keys, running, late>>

Keys == INSTANCE Keyboard
ASSUME KeyAssumption == Keys!KeyboardAssumption

MCModifiers == <<"shift">>
MCBit == [c \in {"shift"} |-> "left shift"]
MCCodes == <<"a", "b">>
MCUsage == [c \in {"a", "b"} |-> c]

VARIABLE typing

MCInit ==
    /\ Init /\ Keys!Init /\ typing \in BOOLEAN
    \* The addresses are interchangeable: which one a route begins with says nothing.
    /\ peer[1] = CHOOSE a \in Addr : TRUE
    \* Of the routes that stand still, one initial state will do.
    /\ typing => \A i \in Index : session[peer[i]] = SessionOf(Routes[i])
MCNext ==
    /\ \/ ~typing /\ Next /\ UNCHANGED keyVars
       \/ typing /\ Keys!Next /\ UNCHANGED vars
    /\ UNCHANGED typing

all == <<vars, keyVars, typing>>
RouteStep(A) == ~typing /\ A /\ UNCHANGED <<keyVars, typing>>
KeyStep(A) == typing /\ A /\ UNCHANGED <<vars, typing>>

\* The fairness of the two specifications.
MCFairness ==
    /\ WF_all(RouteStep(Tick)) /\ WF_all(RouteStep(StatusTick))
    /\ WF_all(RouteStep(DiscoverEnds)) /\ WF_all(RouteStep(ApplyRecovery))
    /\ \A i \in Index : WF_all(RouteStep(SendTick(i)))
    /\ \A p \in Pico : WF_all(RouteStep(Keepalive(p))) /\ SF_all(RouteStep(Answer(p)))
    /\ WF_all(KeyStep(Keys!IsInjectedDown)) /\ SF_all(KeyStep(Keys!SendTick))
    /\ WF_all(KeyStep(Keys!Reception)) /\ WF_all(KeyStep(Keys!SilenceForGood))

MCSpec == MCInit /\ [][MCNext]_all /\ MCFairness

\* The properties of Keyboard.
TypedReachesConsole == Keys!TypedReachesConsole
SkewIsInvisible == Keys!SkewIsInvisible
=============================================================================
