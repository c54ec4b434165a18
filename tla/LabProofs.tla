------------------------------- MODULE LabProofs -------------------------------
(***************************************************************************)
(* Theorems about Lab, for any bench of Picos, any number of cycles and    *)
(* any number of disturbances.                                             *)
(***************************************************************************)
EXTENDS Lab, FiniteSetTheorems, WellFoundedInduction, TLAPS

-----------------------------------------------------------------------------
(* The inductive invariant.                                                *)

Cyclic == {"mode", "power", "flash"}
Stages == Cyclic \cup {"status", "recover", "normalize", "final", "signals",
                       "reconnect", "again", "done"}
Places == {"begin", "discover", "each", "wait", "ready", "torun", "wifi", "usb",
           "tosetup", "back", "setup", "boot", "drive", "absent", "on", "return",
           "take", "rejoin", "send", "match", "release", "settle"}

\* Where the harness can be, and what it can remember.
Labs == [stage : Stages, at : Places, cycle : 1 .. Cycles,
         cur : Picos \cup {Nobody}, todo : SUBSET Picos, probes : SUBSET Picos,
         known : SUBSET Picos, before : SUBSET Picos, targets : SUBSET Picos,
         found : Picos \cup {Nobody}]

Helpers == [left : SUBSET Picos, taken : SUBSET Picos, ok : BOOLEAN,
            elevated : BOOLEAN]

Failures == [device : SUBSET Picos, pad : SUBSET Picos]

Sorts ==
    /\ WorldTypeOK
    /\ opts \in Options
    /\ lab \in Labs
    /\ win \in Helpers
    /\ {failed, wrong} \subseteq BOOLEAN /\ stuck \in Failures

\* The places of a stage.
Cycling == {"begin", "ready", "torun", "wifi", "tosetup", "back", "setup"}
ToRunAgain == {"tosetup", "setup", "torun", "wifi", "usb"}

Placed ==
    /\ lab.stage \in {"status", "recover"} => lab.at = "begin"
    /\ lab.stage = "normalize" => lab.at \in {"begin", "discover", "each", "wait"}
    /\ lab.stage = "mode" => lab.at \in Cycling
    /\ lab.stage = "power" /\ opts.power = "reset" => lab.at \in Cycling
    /\ lab.stage = "power" /\ opts.power = "external" =>
           lab.at \in {"begin", "absent", "on", "return"}
    /\ lab.stage = "power" /\ opts.power \in {"restart", "remove"} =>
           lab.at \in {"begin", "take", "return"}
    /\ lab.stage = "flash" => lab.at \in {"begin", "boot", "drive", "back", "setup"}
    /\ lab.stage = "final" => lab.at \in {"begin", "ready", "torun", "wifi", "usb"}
    /\ Signalling => lab.at \in {"begin", "send", "match", "release", "settle"}
    /\ lab.stage = "reconnect" =>
           lab.at \in {"begin", "take", "rejoin"} \cup ToRunAgain
    /\ lab.stage = "done" => lab.at \in {"begin", "each"}
    /\ opts.scenario = "status" => lab.stage \in {"status", "done"}

\* Whose turn it is.
Early == {"status", "recover", "normalize"}
Bench ==
    /\ lab.stage \notin Early \cup {"done"} => lab.probes # {}
    /\ lab.targets \subseteq lab.probes
    /\ lab.stage \in Early => lab.targets = {}
    /\ lab.at = "wait" => Cur \in Picos
    /\ OneByOne => lab.todo # {} /\ lab.todo \subseteq lab.probes
    /\ OneByOne /\ lab.at # "begin" => Cur \in lab.todo
    /\ lab.stage = "reconnect" => lab.targets # {} /\ opts.power = "remove"
    /\ lab.stage = "reconnect" /\ lab.at \notin {"begin", "take"} =>
           lab.todo \subseteq lab.targets
    /\ lab.stage = "reconnect" /\ lab.at \in ToRunAgain => Cur \in lab.todo
    /\ Signalling /\ lab.at # "begin" =>
           lab.todo # {} /\ lab.todo \subseteq lab.targets
    /\ Signalling /\ lab.at \in {"match", "release", "settle"} => Cur \in lab.todo

\* What the Picos have gone through, at each place of a turn.
Ran ==
    /\ PassIsEarned
    /\ lab.at = "wifi" /\ mode[Cur] = "run" => "ran" \in been[Cur]
    /\ lab.at = "usb" => "ran" \in been[Cur]
    /\ lab.at \in {"tosetup", "back", "setup"} /\ lab.stage \in {"mode", "power"} =>
           "ran" \in been[Cur]

Flashed ==
    /\ lab.stage = "flash" /\ lab.at \in {"boot", "drive"} => NewDrives \subseteq {Cur}
    /\ lab.stage = "flash" /\ lab.at \in {"back", "setup"} => "flashed" \in been[Cur]

Taken ==
    /\ lab.at = "take" /\ win.ok => \A p \in Given \ win.left : "taken" \in been[p]
    /\ lab.at = "take" /\ Verb = "disabled" => win.ok
    /\ lab.stage = "power" /\ lab.at \in {"absent", "on", "return"}
       /\ opts.power = "external" /\ opts.cuts =>
           \A p \in lab.probes : "off" \in been[p]
    /\ lab.stage = "power" /\ lab.at = "return" /\ opts.power # "external" =>
           \A p \in lab.probes : "taken" \in been[p]
    /\ lab.stage = "reconnect" /\ lab.at \notin {"begin", "take"} =>
           \A p \in lab.targets : "taken" \in been[p]
    /\ lab.stage = "reconnect" /\ lab.at \in ToRunAgain =>
           \A p \in lab.targets \ lab.todo : "ran" \in been[p]

\* A device is only away while the helper works on it, or pnputil refused to bring
\* it back.
Back ==
    \A p \in Picos : device[p] # "fine" =>
        /\ device[p] = Verb
        /\ \/ p \in stuck.device
           \/ lab.at = "take" /\ (Verb = "disabled" => p \in win.taken)

\* No device is away but those.
AllBack ==
    \A p \in Picos : device[p] # "fine" => device[p] = Verb /\ p \in stuck.device

\* No pad is held but those whose release could not be sent.
AllReleased == \A p \in Picos : told[p] # 0 => p \in stuck.pad

\* A pad that shows a state shows its own, in its own check or after it.
Shown ==
    \A p \in Picos : pad[p] # 0 =>
        /\ Signalling \/ lab.stage \in {"reconnect", "done"}
        /\ p \in lab.targets /\ pad[p] = SignalState(p)

\* The way of a full run in which nothing went wrong.
Undisturbed == opts.scenario = "full" /\ ~failed /\ moves = 0
Smooth ==
    Undisturbed =>
        /\ Signalling \/ lab.stage \in {"reconnect", "done"} => lab.probes # {}
        /\ Signalling \/ lab.stage = "done" => \A p \in lab.probes : mode[p] = "run"
        /\ lab.stage = "final" =>
               \A p \in lab.probes \ lab.todo : mode[p] = "run"
        /\ lab.stage = "reconnect" =>
               \A p \in lab.probes :
                   mode[p] = "run"
                   \/ (p = Cur /\ lab.at \in {"setup", "torun", "wifi"})

LabCore == Sorts /\ Placed /\ Bench
LabInv == LabCore /\ Ran /\ Flashed /\ Taken /\ Back /\ NoPadLeftHeld /\ Shown
          /\ Smooth

-----------------------------------------------------------------------------
(* The control.                                                            *)

\* Sets of numbers have a least element.
LEMMA LeastIn ==
  ASSUME NEW S, S \subseteq Nat, S # {}
  PROVE  Least(S) \in S /\ \A q \in S : Least(S) <= q
<1>1. PICK x \in S : \A y \in S : ~(<<y, x>> \in OpToRel(<, Nat))
  <2> DEFINE R == OpToRel(<, Nat)
  <2>1. IsWellFoundedOn(R, Nat)
    BY NatLessThanWellFounded
  <2> HIDE DEF R
  <2>2. \E x \in S : \A y \in S : ~(<<y, x>> \in R)
    BY <2>1, WFMin
  <2> QED
    BY <2>2 DEF R
<1>2. ASSUME NEW y \in S, y < x PROVE FALSE
  <2>1. <<y, x>> \in Nat \X Nat /\ <<y, x>>[1] < <<y, x>>[2]
    BY <1>2
  <2>2. <<y, x>> \in OpToRel(<, Nat)
    BY <2>1, Zenon DEF OpToRel
  <2> QED
    BY <1>1, <2>2
<1>3. \A y \in S : x <= y
  BY <1>2
<1> QED
  BY <1>3 DEF Least

\* The stages of a cycle are in their places.
LEMMA OrderResult ==
  /\ \A i \in 1 .. 3 : Order[i] \in Cyclic
  /\ \A stage \in Cyclic : Position(stage) \in 1 .. 3
<1>1. Order[1] = "mode" /\ Order[2] = "power" /\ Order[3] = "flash"
  BY DEF Order
<1>2. \A stage \in Cyclic : \E i \in 1 .. 3 : Order[i] = stage
  BY <1>1 DEF Cyclic
<1>3. \A stage \in Cyclic : Position(stage) \in 1 .. 3
  BY <1>2 DEF Position
<1>4. \A i \in 1 .. 3 : i = 1 \/ i = 2 \/ i = 3
  OBVIOUS
<1> QED
  BY <1>1, <1>3, <1>4 DEF Cyclic

\* What run_scenario goes on to from a place in a cycle.
LEMMA FromResult ==
  ASSUME NEW l \in Labs, NEW i \in 1 .. 4,
         opts.scenario \in Scenarios, opts.scenario # "status"
  PROVE  \E s \in Cyclic \cup {"final", "done"}, c \in 1 .. Cycles :
            /\ From(l, i) = [l EXCEPT !.stage = s, !.cycle = c]
            /\ opts.scenario = "full" => s # "done"
<1> DEFINE later == {j \in i .. 3 : Includes(Order[j])}
           any == {j \in 1 .. 3 : Includes(Order[j])}
<1>1. l.cycle \in 1 .. Cycles /\ l = [l EXCEPT !.cycle = l.cycle]
  BY DEF Labs
<1>2. CASE later # {}
  <2>1. Least(later) \in 1 .. 3
    BY <1>2, LeastIn
  <2>2. Order[Least(later)] \in Cyclic
    BY <2>1, OrderResult
  <2>3. From(l, i) = [l EXCEPT !.stage = Order[Least(later)], !.cycle = l.cycle]
    BY <1>1, <1>2 DEF From, Labs
  <2> QED
    BY <1>1, <2>2, <2>3 DEF Cyclic
<1>3. CASE later = {} /\ l.cycle < Cycles
  <2>1. any # {}
    <3>1. Order[1] = "mode" /\ Order[2] = "power" /\ Order[3] = "flash"
      BY DEF Order
    <3>2. Includes("mode") \/ Includes("power") \/ Includes("flash")
      BY DEF Includes, Scenarios
    <3>3. 1 \in 1 .. 3 /\ 2 \in 1 .. 3 /\ 3 \in 1 .. 3
      OBVIOUS
    <3> QED
      BY <3>1, <3>2, <3>3
  <2>2. Least(any) \in 1 .. 3
    BY <2>1, LeastIn
  <2>3. Order[Least(any)] \in Cyclic
    BY <2>2, OrderResult
  <2>4. From(l, i) = [l EXCEPT !.stage = Order[Least(any)], !.cycle = l.cycle + 1]
    BY <1>3 DEF From, Labs
  <2>5. l.cycle + 1 \in 1 .. Cycles
    BY <1>1, <1>3, LabAssumption
  <2> QED
    BY <2>3, <2>4, <2>5 DEF Cyclic
<1>4. CASE later = {} /\ ~(l.cycle < Cycles)
  <2> DEFINE s == IF Includes("final") THEN "final" ELSE "done"
  <2>1. From(l, i) = [l EXCEPT !.stage = s, !.cycle = l.cycle]
    BY <1>1, <1>4 DEF From, Labs
  <2>2. opts.scenario = "full" => s # "done"
    BY DEF Includes
  <2> QED
    BY <1>1, <2>1, <2>2
<1> QED
  BY <1>2, <1>3, <1>4

\* The start of a stage or of a turn.
Begin(l, s, c, left, b) ==
    [l EXCEPT !.stage = s, !.cycle = c, !.at = "begin", !.todo = left,
              !.cur = Nobody, !.before = b]

LEMMA Started ==
  ASSUME NEW l \in Labs, NEW s \in Stages, NEW c \in 1 .. Cycles,
         NEW left \in SUBSET Picos, NEW b \in SUBSET Picos
  PROVE  LET k == Begin(l, s, c, left, b) IN
         /\ k \in Labs /\ k.at = "begin" /\ k.stage = s /\ k.todo = left
         /\ k.probes = l.probes /\ k.targets = l.targets
<1>1. "begin" \in Places
  BY DEF Places
<1> QED
  BY <1>1 DEF Labs, Begin

\* Where the harness goes once a stage is through: to the start of one.
LEMMA FollowingResult ==
  ASSUME NEW l \in Labs, opts.scenario \in Scenarios,
         opts.scenario # "status",
         l.stage \in Stages \ {"status", "recover", "done"}
  PROVE  \E s \in Stages, c \in 1 .. Cycles :
            /\ Following(l) = Begin(l, s, c, l.probes, {})
            /\ l.stage \in Cyclic \cup {"normalize"} =>
                   /\ s \in Cyclic \cup {"final", "done"}
                   /\ opts.scenario = "full" => s # "done"
            /\ l.stage = "final" => s = "signals"
            /\ l.stage = "signals" =>
                   \/ s = "reconnect" /\ l.targets # {} /\ opts.power = "remove"
                   \/ s = "done"
            /\ l.stage = "reconnect" => s = "again"
            /\ l.stage = "again" => s = "done"
<1> DEFINE To(s, c) == Begin(l, s, c, l.probes, {})
<1>1. \A s, c : Enter([l EXCEPT !.stage = s, !.cycle = c]) = To(s, c)
  BY DEF Enter, Begin, Labs
<1>2. \A s : Enter([l EXCEPT !.stage = s]) = To(s, l.cycle)
  <2> TAKE s
  <2>1. [l EXCEPT !.stage = s] = [l EXCEPT !.stage = s, !.cycle = l.cycle]
    BY DEF Labs
  <2>2. Enter([l EXCEPT !.stage = s, !.cycle = l.cycle]) = To(s, l.cycle)
    BY <1>1
  <2> QED
    BY <2>1, <2>2
<1>3. l.cycle \in 1 .. Cycles
  BY DEF Labs
<1>4. CASE l.stage \in Cyclic \cup {"normalize"}
  <2>1. \E i \in 1 .. 4 : Following(l) = Enter(From(l, i))
    <3>1. CASE l.stage = "normalize"
      <4>1. Following(l) = Enter(From(l, 1)) /\ 1 \in 1 .. 4
        BY <3>1 DEF Following
      <4> QED
        BY <4>1
    <3>2. CASE l.stage \in Cyclic
      <4>1. Position(l.stage) + 1 \in 1 .. 4
        BY <3>2, OrderResult
      <4>2. Following(l) = Enter(From(l, Position(l.stage) + 1))
        BY <3>2 DEF Following, Cyclic
      <4> QED
        BY <4>1, <4>2
    <3> QED
      BY <1>4, <3>1, <3>2
  <2>2. PICK s \in Cyclic \cup {"final", "done"}, c \in 1 .. Cycles :
           /\ Following(l) = Enter([l EXCEPT !.stage = s, !.cycle = c])
           /\ opts.scenario = "full" => s # "done"
    BY <2>1, FromResult
  <2>3. Following(l) = To(s, c)
    BY <1>1, <2>2
  <2>4. s \in Stages
    BY DEF Stages
  <2> QED
    BY <1>4, <2>2, <2>3, <2>4 DEF Cyclic
<1>5. CASE l.stage = "final"
  <2>1. Following(l) = Enter([l EXCEPT !.stage = "signals"])
    BY <1>5 DEF Following
  <2>2. Following(l) = To("signals", l.cycle)
    BY <1>2, <2>1
  <2> QED
    BY <1>3, <1>5, <2>2 DEF Stages, Cyclic
<1>6. CASE l.stage = "signals"
  <2> DEFINE s == IF opts.power = "remove" /\ l.targets # {} THEN "reconnect" ELSE "done"
  <2>1. Following(l) = Enter([l EXCEPT !.stage = s])
    BY <1>6 DEF Following
  <2>2. Following(l) = To(s, l.cycle)
    BY <1>2, <2>1
  <2> QED
    BY <1>3, <1>6, <2>2 DEF Stages, Cyclic
<1>7. CASE l.stage = "reconnect"
  <2>1. Following(l) = Enter([l EXCEPT !.stage = "again"])
    BY <1>7 DEF Following
  <2>2. Following(l) = To("again", l.cycle)
    BY <1>2, <2>1
  <2> QED
    BY <1>3, <1>7, <2>2 DEF Stages, Cyclic
<1>8. CASE l.stage = "again"
  <2>1. Following(l) = Enter([l EXCEPT !.stage = "done"])
    BY <1>8 DEF Following
  <2>2. Following(l) = To("done", l.cycle)
    BY <1>2, <2>1
  <2> QED
    BY <1>3, <1>8, <2>2 DEF Stages, Cyclic
<1> QED
  BY <1>4, <1>5, <1>6, <1>7, <1>8 DEF Stages

\* The places at which the harness works on one Pico.
Turning == {"ready", "torun", "wifi", "usb", "tosetup", "back", "setup", "boot",
            "drive", "match", "release", "settle"}

LEMMA Choices ==
  ASSUME LabCore
  PROVE  /\ opts.power \in Backends /\ opts.scenario \in Scenarios
         /\ lab.stage \in Stages /\ lab \in Labs /\ opts \in Options
         /\ WorldTypeOK /\ win \in Helpers
  BY DEF LabCore, Sorts, Options, Labs

LEMMA Whose ==
  ASSUME LabCore
  PROVE  /\ lab.probes \subseteq Picos /\ lab.targets \subseteq Picos
         /\ lab.todo \subseteq Picos
         /\ lab.at \in Turning => Cur \in lab.todo /\ Cur \in Picos
<1>1. lab.probes \subseteq Picos /\ lab.targets \subseteq Picos
      /\ lab.todo \subseteq Picos /\ lab.stage \in Stages
  BY DEF LabCore, Sorts, Labs
<1>2. opts.power \in Backends
  BY DEF LabCore, Sorts, Options
<1>3. lab.at \in Turning => Cur \in lab.todo
  BY <1>1, <1>2 DEF LabCore, Placed, Bench, OneByOne, Signalling, Cyclic, Stages,
     ToRunAgain, Cycling, Turning, Backends
<1> QED
  BY <1>1, <1>3

\* From one place of a stage to another.
LEMMA GoResult ==
  ASSUME lab \in Labs, NEW at \in Places, Go(at)
  PROVE  /\ lab' \in Labs /\ lab'.at = at
         /\ lab'.stage = lab.stage /\ lab'.cycle = lab.cycle
         /\ lab'.cur = lab.cur /\ lab'.todo = lab.todo
         /\ lab'.probes = lab.probes /\ lab'.known = lab.known
         /\ lab'.before = lab.before /\ lab'.targets = lab.targets
         /\ lab'.found = lab.found
  BY DEF Go, Labs

\* Nothing but the pass can be wrong at the start of a stage or a turn.
AtStart ==
    /\ lab' \in Labs /\ lab'.at = "begin"
    /\ Placed' /\ Bench' /\ Flashed' /\ Taken'
    /\ PassIsEarned' => Ran'

\* A stage is through.
LEMMA Arrive ==
  ASSUME LabCore, opts' = opts, NEW l \in Labs, l.stage = lab.stage,
         l.stage \in Stages \ {"status", "recover", "done"},
         l.probes # {}, l.targets \subseteq l.probes, lab' = Following(l)
  PROVE  /\ AtStart
         /\ lab'.probes = l.probes /\ lab'.targets = l.targets
         /\ lab'.todo = l.probes
         /\ l.stage \in Cyclic \cup {"normalize"} =>
                /\ lab'.stage \in Cyclic \cup {"final", "done"}
                /\ opts.scenario = "full" => lab'.stage # "done"
         /\ l.stage = "final" => lab'.stage = "signals"
         /\ l.stage = "signals" => lab'.stage \in {"reconnect", "done"}
         /\ l.stage = "reconnect" => lab'.stage = "again"
         /\ l.stage = "again" => lab'.stage = "done"
<1>1. opts.scenario \in Scenarios /\ opts.scenario # "status"
  BY DEF LabCore, Sorts, Placed, Options
<1>2. PICK s \in Stages, c \in 1 .. Cycles :
            /\ Following(l) = Begin(l, s, c, l.probes, {})
            /\ l.stage \in Cyclic \cup {"normalize"} =>
                   /\ s \in Cyclic \cup {"final", "done"}
                   /\ opts.scenario = "full" => s # "done"
            /\ l.stage = "final" => s = "signals"
            /\ l.stage = "signals" =>
                   \/ s = "reconnect" /\ l.targets # {} /\ opts.power = "remove"
                   \/ s = "done"
            /\ l.stage = "reconnect" => s = "again"
            /\ l.stage = "again" => s = "done"
  BY <1>1, FollowingResult
<1>3. /\ lab' \in Labs /\ lab'.at = "begin" /\ lab'.stage = s
      /\ lab'.probes = l.probes /\ lab'.targets = l.targets
      /\ lab'.todo = l.probes
  <2>1. l.probes \in SUBSET Picos /\ {} \in SUBSET Picos
    BY DEF Labs
  <2>2. lab' = Begin(l, s, c, l.probes, {})
    BY <1>2
  <2> QED
    BY <2>1, <2>2, Started
<1>4. l.stage \in Cyclic \cup {"normalize", "final", "signals", "reconnect", "again"}
  BY DEF Stages
<1>5. Placed'
  BY <1>1, <1>3 DEF Placed, Signalling, Cycling
<1>6. Bench'
  BY <1>2, <1>3, <1>4 DEF Bench, Signalling, OneByOne, Cyclic, ToRunAgain, Early
<1>7. Flashed' /\ Taken' /\ (PassIsEarned' => Ran')
  BY <1>3 DEF Flashed, Taken, Ran, PassIsEarned, ToRunAgain
<1> QED
  BY <1>2, <1>3, <1>5, <1>6, <1>7 DEF AtStart

\* The turn of a Pico is through.
LEMMA NextTurn ==
  ASSUME LabCore, OneByOne, opts' = opts, NEW l \in Labs, l.stage = lab.stage,
         l.cur = lab.cur, l.todo = lab.todo, l.probes = lab.probes,
         l.targets \subseteq l.probes, lab' = AfterTurn(l)
  PROVE  /\ AtStart
         /\ lab'.probes = lab.probes /\ lab'.targets = l.targets
         /\ \/ lab'.stage = lab.stage /\ lab'.todo = lab.todo \ {Cur}
            \/ /\ lab.todo \ {Cur} = {}
               /\ IF lab.stage = "final" THEN lab'.stage = "signals"
                  ELSE /\ lab'.stage \in Cyclic \cup {"final", "done"}
                       /\ lab'.todo = lab.probes
                       /\ opts.scenario = "full" => lab'.stage # "done"
<1>1. /\ lab.stage \in Cyclic \cup {"final"} /\ lab.probes # {}
      /\ lab.todo \subseteq lab.probes
  BY DEF LabCore, Bench, OneByOne, Cyclic
<1>2. CASE lab.todo \ {Cur} = {}
  <2>1. lab' = Following(l)
    BY <1>2 DEF AfterTurn, Cur
  <2>2. l.stage \in Stages \ {"status", "recover", "done"} /\ l.probes # {}
    BY <1>1 DEF Stages, Cyclic
  <2> QED
    BY <1>1, <1>2, <2>1, <2>2, Arrive DEF Cyclic
<1>3. CASE lab.todo \ {Cur} # {}
  <2>1. lab' = [l EXCEPT !.at = "begin", !.cur = Nobody, !.todo = l.todo \ {Cur}]
    BY <1>3 DEF AfterTurn, Cur
  <2>2. /\ lab' \in Labs /\ lab'.at = "begin" /\ lab'.stage = lab.stage
        /\ lab'.probes = lab.probes /\ lab'.targets = l.targets
        /\ lab'.todo = lab.todo \ {Cur}
    <3>1. l.todo \ {Cur} \in SUBSET Picos /\ l.before \in SUBSET Picos
          /\ l.stage \in Stages /\ l.cycle \in 1 .. Cycles
      BY DEF Labs
    <3>2. lab' = Begin(l, l.stage, l.cycle, l.todo \ {Cur}, l.before)
      BY <2>1 DEF Labs, Begin
    <3> QED
      BY <3>1, <3>2, Started
  <2>3. Placed'
    BY <1>1, <2>2 DEF LabCore, Placed, Signalling, Cycling, Cyclic
  <2>4. Bench'
    BY <1>1, <1>3, <2>2 DEF LabCore, Bench, Signalling, OneByOne, Cyclic, ToRunAgain, Early
  <2>5. Flashed' /\ Taken' /\ (PassIsEarned' => Ran')
    BY <2>2 DEF Flashed, Taken, Ran, PassIsEarned, ToRunAgain
  <2> QED
    BY <2>2, <2>3, <2>4, <2>5 DEF AtStart
<1> QED
  BY <1>2, <1>3

-----------------------------------------------------------------------------
(* The Picos by themselves.                                                *)

\* What Become makes of each Pico.
Became(S, m, e) ==
    /\ mode' \in [Picos -> Modes]
    /\ device' \in [Picos -> {"fine", "disabled", "removed"}]
    /\ pad' \in [Picos -> Pads]
    /\ been' \in [Picos -> SUBSET Events]
    /\ \A p \in Picos :
           /\ mode'[p] = IF p \in S THEN m ELSE mode[p]
           /\ pad'[p] = IF p \in S THEN 0 ELSE pad[p]
           /\ been'[p] = IF p \in S THEN been[p] \cup e ELSE been[p]
           /\ device'[p] \in {device[p], "fine"}

LEMMA BecomeResult ==
  ASSUME WorldTypeOK, NEW S \in SUBSET Picos, NEW m \in Modes,
         NEW e \in SUBSET Events, Become(S, m, e)
  PROVE  Became(S, m, e)
<1>1. 0 \in Pads
  BY LabWorldAssumption DEF Pads
<1>2. mode' \in [Picos -> Modes] /\ pad' \in [Picos -> Pads]
  BY <1>1 DEF Become, WorldTypeOK
<1>3. device' \in [Picos -> {"fine", "disabled", "removed"}]
  BY DEF Become, WorldTypeOK
<1>4. been' \in [Picos -> SUBSET Events]
  BY DEF Become, WorldTypeOK
<1> QED
  BY <1>2, <1>3, <1>4 DEF Become, Became

\* A Pico that changes its mode, or none does: its types, and what Windows and
\* its pad may show then.
Soft ==
    /\ mode' \in [Picos -> Modes] /\ pad' \in [Picos -> Pads]
    /\ device' \in [Picos -> {"fine", "disabled", "removed"}]
    /\ been' \in [Picos -> SUBSET Events]
    /\ \A p \in Picos :
           device'[p] \in {device[p], "fine"} /\ pad'[p] \in {pad[p], 0}

LEMMA BecomeSoft ==
  ASSUME WorldTypeOK, NEW S \in SUBSET Picos, NEW m \in Modes,
         NEW e \in SUBSET Events,
         Become(S, m, e) \/ UNCHANGED <<mode, device, pad, been>>
  PROVE  Soft
<1>1. CASE Become(S, m, e)
  BY <1>1, BecomeResult DEF Soft, Became
<1>2. CASE UNCHANGED <<mode, device, pad, been>>
  BY <1>2 DEF Soft, WorldTypeOK
<1> QED
  BY <1>1, <1>2

\* What a Pico does by itself: it forgets nothing it went through, it runs only
\* after it came to run, it does not enter its boot loader.
Drift ==
    /\ told' = told
    /\ \A q \in Picos :
           /\ been[q] \subseteq been'[q]
           /\ mode'[q] = "run" => mode[q] = "run" \/ "ran" \in been'[q]
           /\ mode'[q] = "bootsel" => mode[q] = "bootsel"
           /\ device'[q] \in {device[q], "fine"}
           /\ pad'[q] \in {pad[q], 0}
    /\ moves' = 0 => moves = 0 /\ \A q \in Picos : mode[q] = "run" => mode'[q] = "run"

LEMMA WorldDrifts == ASSUME WorldTypeOK, World PROVE WorldTypeOK' /\ Drift
<1> PICK p \in Picos : Boot(p) \/ Join(p) \/ Disturb(p) \/ PadSettles(p)
  BY DEF World
<1> USE DEF Drift
<1>1. moves \in Nat /\ MaxMoves \in Nat
  BY LabWorldAssumption DEF WorldTypeOK
<1>2. ASSUME Boot(p) PROVE WorldTypeOK' /\ Drift
  <2>1. PICK m \in Modes : m \in {"setup", "joining"} /\ Become({p}, m, {})
    BY <1>2 DEF Boot, Modes
  <2>2. creds' = creds /\ told' = told /\ moves' = moves /\ mode[p] = "reset"
    BY <1>2 DEF Boot
  <2>3. Became({p}, m, {})
    BY <2>1, BecomeResult
  <2> QED
    BY <2>1, <2>2, <2>3 DEF WorldTypeOK, Became
<1>3. ASSUME Join(p) PROVE WorldTypeOK' /\ Drift
  <2>1. PICK m \in Modes, e \in SUBSET Events :
           /\ m = "run" => "ran" \in e
           /\ m \in {"run", "setup"} /\ Become({p}, m, e)
    <3>1. {"ran"} \in SUBSET Events /\ {} \in SUBSET Events
          /\ "run" \in Modes /\ "setup" \in Modes
      BY DEF Events, Modes
    <3>2. CASE creds[p] = "good"
      BY <1>3, <3>1, <3>2 DEF Join
    <3>3. CASE creds[p] # "good"
      BY <1>3, <3>1, <3>3 DEF Join
    <3> QED
      BY <3>2, <3>3
  <2>2. creds' = creds /\ told' = told /\ moves' = moves /\ mode[p] = "joining"
    BY <1>3 DEF Join
  <2>3. Became({p}, m, e)
    BY <2>1, BecomeResult
  <2> QED
    BY <2>1, <2>2, <2>3 DEF WorldTypeOK, Became
<1>4. ASSUME Disturb(p) PROVE WorldTypeOK' /\ Drift
  <2>1. PICK m \in Modes : m \in {"reset", "joining"} /\ Become({p}, m, {})
    BY <1>4 DEF Disturb, Modes
  <2>2. creds' = creds /\ told' = told /\ moves' = moves + 1 /\ moves < MaxMoves
    BY <1>4 DEF Disturb
  <2>3. Became({p}, m, {})
    BY <2>1, BecomeResult
  <2> QED
    BY <1>1, <2>1, <2>2, <2>3 DEF WorldTypeOK, Became
<1>5. ASSUME PadSettles(p) PROVE WorldTypeOK' /\ Drift
  <2>1. 0 \in Pads
    BY LabWorldAssumption DEF Pads
  <2> QED
    BY <1>5, <2>1 DEF PadSettles, WorldTypeOK
<1> QED
  BY <1>2, <1>3, <1>4, <1>5

LEMMA WorldKeeps == LabInv /\ World => LabInv'
<1> SUFFICES ASSUME LabInv, World PROVE LabInv'
  OBVIOUS
<1>1. WorldTypeOK' /\ Drift
  BY WorldDrifts DEF LabInv, LabCore, Sorts
<1>2. /\ opts' = opts /\ lab' = lab /\ win' = win /\ failed' = failed
      /\ hollow' = hollow /\ wrong' = wrong /\ stuck' = stuck
  BY DEF World
<1>3. LabCore'
  BY <1>1, <1>2 DEF LabInv, LabCore, Sorts, Placed, Bench, Signalling, OneByOne, Cur
<1>4. /\ lab.probes \subseteq Picos /\ lab.targets \subseteq Picos
      /\ lab.at \in Turning => Cur \in Picos
  BY Whose DEF LabInv
<1>5. Ran'
  BY <1>1, <1>2, <1>4 DEF LabInv, Ran, PassIsEarned, Drift, Cur, Turning
<1>6. Flashed'
  BY <1>1, <1>2, <1>4 DEF LabInv, Flashed, Drift, Cur, NewDrives, Drives, Turning
<1>7. Taken'
  BY <1>1, <1>2, <1>4 DEF LabInv, Taken, Drift, Cur, Given, Verb
<1>8. Back'
  BY <1>1, <1>2 DEF LabInv, Back, Drift, Verb
<1>9. NoPadLeftHeld' /\ Shown'
  BY <1>1, <1>2 DEF LabInv, NoPadLeftHeld, Shown, Drift, Signalling, Cur, SignalState
<1>10. Smooth'
  BY <1>1, <1>2, <1>4 DEF LabInv, Smooth, Undisturbed, Drift, Signalling, Cur
<1> QED
  BY <1>3, <1>5, <1>6, <1>7, <1>8, <1>9, <1>10 DEF LabInv

-----------------------------------------------------------------------------
(* Finding the selected Picos.                                             *)

\* Before the first test nothing is asked of any Pico but to go to setup.
LEMMA EarlyKeeps ==
  ASSUME LabInv, lab.stage \in Early, Sorts', opts' = opts, hollow' = hollow,
         stuck' = stuck, told' = told,
         \A p \in Picos : device'[p] \in {device[p], "fine"} /\ pad'[p] \in {pad[p], 0},
         lab'.targets = {},
         \/ lab'.stage \in {"recover", "normalize"} /\ lab'.at = "begin"
         \/ lab'.stage = "normalize" /\ lab'.at \in {"discover", "each", "wait"}
         \/ lab'.stage = "done" /\ lab'.at \in {"begin", "each"}
            /\ (opts.scenario # "full" \/ failed'),
         opts.scenario = "status" => lab'.stage = "done",
         lab'.at = "wait" => lab'.cur \in Picos
  PROVE  LabInv'
<1>1. Placed' /\ Bench'
  BY DEF Placed, Bench, Early, Signalling, OneByOne, Cyclic, Cur
<1>2. Ran' /\ Flashed' /\ Taken'
  BY DEF LabInv, Ran, PassIsEarned, Flashed, Taken
<1>3. lab.at # "take" /\ ~Signalling
  BY DEF LabInv, LabCore, Placed, Early, Signalling
<1>4. Back'
  BY <1>3 DEF LabInv, Back, Verb
<1>5. NoPadLeftHeld'
  BY <1>3 DEF LabInv, NoPadLeftHeld
<1>6. Shown'
  BY <1>3 DEF LabInv, Shown, Early
<1>7. Smooth'
  BY DEF Smooth, Undisturbed, Signalling
<1> QED
  BY <1>1, <1>2, <1>4, <1>5, <1>6, <1>7 DEF LabInv, LabCore

LEMMA StatusKeeps == LabInv /\ StatusSnapshot => LabInv'
<1> SUFFICES ASSUME LabInv, StatusSnapshot PROVE LabInv'
  OBVIOUS
<1> USE DEF StatusSnapshot, At, NoWorld, Lab, Quiet, worldVars
<1>1. lab.stage = "status" /\ lab.at = "begin" /\ lab.targets = {}
  BY DEF LabInv, LabCore, Bench, Early
<1>2. /\ lab' \in Labs /\ lab'.at = "begin" /\ lab'.targets = {}
      /\ lab'.stage \in {"done", "recover", "normalize"}
      /\ opts.scenario = "status" <=> lab'.stage = "done"
  BY <1>1 DEF LabInv, LabCore, Sorts, Labs, Stages, Cyclic, Includes
<1>3. Sorts'
  BY <1>2 DEF LabInv, LabCore, Sorts, WorldTypeOK
<1> QED
  BY <1>1, <1>2, <1>3, EarlyKeeps DEF Early

LEMMA RecoverKeeps == LabInv /\ RecoverInitial => LabInv'
<1> SUFFICES ASSUME LabInv, RecoverInitial PROVE LabInv'
  OBVIOUS
<1>1. lab.stage = "recover" /\ lab.at = "begin" /\ lab.targets = {}
  BY DEF RecoverInitial, At, LabInv, LabCore, Bench, Early
<1>2. /\ lab' \in Labs /\ lab'.at = "begin" /\ lab'.targets = {}
      /\ lab'.stage = "normalize"
  BY <1>1 DEF RecoverInitial, LabInv, LabCore, Sorts, Labs, Stages, Cyclic
<1>3. /\ creds' = creds /\ told' = told /\ moves' = moves /\ opts' = opts
      /\ win' = win /\ hollow' = hollow /\ wrong' = wrong /\ stuck' = stuck
      /\ failed' \in {failed, TRUE}
  BY DEF RecoverInitial, Lab, Quiet, Fail
<1>4. Soft
  <2>1. PICK done \in SUBSET Drives :
           Become(done, "reset", {"flashed"}) \/ UNCHANGED <<mode, device, pad, been>>
    BY DEF RecoverInitial
  <2>2. done \in SUBSET Picos /\ "reset" \in Modes /\ {"flashed"} \in SUBSET Events
    BY DEF Drives, Modes, Events
  <2> QED
    BY <2>1, <2>2, BecomeSoft DEF LabInv, LabCore, Sorts
<1>5. Sorts'
  BY <1>2, <1>3, <1>4 DEF Soft, LabInv, LabCore, Sorts, WorldTypeOK
<1> QED
  BY <1>1, <1>2, <1>3, <1>4, <1>5, EarlyKeeps DEF Early, Soft, LabInv, LabCore, Placed

LEMMA SelectedPicos ==
  ASSUME LabCore, NEW S \in SUBSET Picos
  PROVE  Selected(S) \in SUBSET Picos /\ Selected(S) \subseteq S /\ Knowing(S) \in SUBSET Picos
  BY DEF Selected, Knowing, LabCore, Sorts, Labs

LEMMA SetupKeeps == LabInv /\ SetupSelected => LabInv'
<1> SUFFICES ASSUME LabInv, SetupSelected PROVE LabInv'
  OBVIOUS
<1>1. lab.stage = "normalize" /\ lab.at = "begin" /\ lab.targets = {}
      /\ opts.scenario # "status"
  BY DEF SetupSelected, At, LabInv, LabCore, Bench, Early, Placed
<1>2. PICK seen \in Seen :
         lab' = [lab EXCEPT !.at = "discover", !.probes = Selected(seen),
                            !.known = Knowing(Selected(seen))]
  BY DEF SetupSelected
<1>3. Selected(seen) \in SUBSET Picos /\ Knowing(Selected(seen)) \in SUBSET Picos
  BY SelectedPicos DEF Seen, LabInv
<1>4. /\ lab' \in Labs /\ lab'.at = "discover" /\ lab'.targets = {}
      /\ lab'.stage = "normalize"
  BY <1>1, <1>2, <1>3 DEF LabInv, LabCore, Sorts, Labs, Places
<1>5. UNCHANGED <<worldVars, opts, win, failed, hollow, wrong, stuck>>
  BY DEF SetupSelected, NoWorld, Lab, Quiet
<1>6. Sorts'
  BY <1>4, <1>5 DEF LabInv, LabCore, Sorts, WorldTypeOK, worldVars
<1> QED
  BY <1>1, <1>4, <1>5, <1>6, EarlyKeeps DEF Early, worldVars

LEMMA WifiKeeps == LabInv /\ WifiSelected => LabInv'
<1> SUFFICES ASSUME LabInv, WifiSelected PROVE LabInv'
  OBVIOUS
<1>1. lab.stage = "normalize" /\ lab.targets = {} /\ opts.scenario # "status"
  BY DEF WifiSelected, At, LabInv, LabCore, Bench, Early, Placed
<1>2. PICK heard \in SUBSET Running :
         lab' = [lab EXCEPT !.at = "each", !.todo = Selected(heard) \ lab.probes]
  BY DEF WifiSelected
<1>3. Selected(heard) \ lab.probes \in SUBSET Picos
  BY SelectedPicos DEF Running, LabInv
<1>4. /\ lab' \in Labs /\ lab'.at = "each" /\ lab'.targets = {}
      /\ lab'.stage = "normalize"
  BY <1>1, <1>2, <1>3 DEF LabInv, LabCore, Sorts, Labs, Places
<1>5. UNCHANGED <<worldVars, opts, win, failed, hollow, wrong, stuck>>
  BY DEF WifiSelected, NoWorld, Lab, Quiet
<1>6. Sorts'
  BY <1>4, <1>5 DEF LabInv, LabCore, Sorts, WorldTypeOK, worldVars
<1> QED
  BY <1>1, <1>4, <1>5, <1>6, EarlyKeeps DEF Early, worldVars

LEMMA RequestResult ==
  ASSUME WorldTypeOK, NEW p \in Picos, RequestSetup(p)
  PROVE  /\ Soft /\ creds' = creds /\ told' = told /\ moves' = moves
         /\ Become({p}, "setup", {}) \/ UNCHANGED <<mode, device, pad, been>>
         /\ \A q \in Picos : been'[q] = been[q] /\ (q # p => mode'[q] = mode[q])
<1>1. creds' = creds /\ told' = told /\ moves' = moves
      /\ (Become({p}, "setup", {}) \/ UNCHANGED <<mode, device, pad, been>>)
  BY DEF RequestSetup
<1>2. {p} \in SUBSET Picos /\ "setup" \in Modes /\ {} \in SUBSET Events
  BY DEF Modes
<1>3. Soft
  BY <1>1, <1>2, BecomeSoft
<1>4. Became({p}, "setup", {}) \/ UNCHANGED <<mode, device, pad, been>>
  BY <1>1, <1>2, BecomeResult
<1>5. \A q \in Picos : been'[q] = been[q] /\ (q # p => mode'[q] = mode[q])
  BY <1>4 DEF Became
<1> QED
  BY <1>1, <1>3, <1>5

LEMMA NormalizeKeeps == LabInv /\ (NormalizeOne \/ NormalizeEnds) => LabInv'
<1> SUFFICES ASSUME LabInv, NormalizeOne \/ NormalizeEnds PROVE LabInv'
  OBVIOUS
<1>1. lab.stage = "normalize" /\ lab.targets = {} /\ opts.scenario # "status"
      /\ lab \in Labs
  BY DEF NormalizeOne, NormalizeEnds, At, LabInv, LabCore, Bench, Early, Placed, Sorts
<1>2. CASE NormalizeOne
  <2>1. Least(lab.todo) \in lab.todo
    BY <1>1, <1>2, LeastIn, LabAssumption DEF NormalizeOne, Labs
  <2>2. Least(lab.todo) \in Picos
    BY <1>1, <2>1 DEF Labs
  <2>3. Soft /\ creds' = creds /\ told' = told /\ moves' = moves
    BY <1>2, <2>2, RequestResult DEF NormalizeOne, LabInv, LabCore, Sorts
  <2>4. UNCHANGED <<opts, win, failed, hollow, wrong, stuck>>
    BY <1>2 DEF NormalizeOne, Lab, Quiet
  <2>5. /\ lab' \in Labs /\ lab'.at = "wait" /\ lab'.targets = {}
        /\ lab'.stage = "normalize" /\ lab'.cur \in Picos
    BY <1>1, <1>2, <2>2 DEF NormalizeOne, Labs, Places
  <2>6. Sorts'
    BY <2>3, <2>4, <2>5 DEF Soft, LabInv, LabCore, Sorts, WorldTypeOK
  <2> QED
    BY <1>1, <2>3, <2>4, <2>5, <2>6, EarlyKeeps DEF Early, Soft
<1>3. CASE NormalizeEnds
  <2>1. UNCHANGED <<worldVars, opts, win, hollow, wrong, stuck>> /\ failed' \in BOOLEAN
    BY <1>3 DEF NormalizeEnds, NoWorld, Lab, Quiet, Fail, LabInv, LabCore, Sorts
  <2>2. Cur \in Picos /\ Knowing({Cur}) \in SUBSET Picos
    BY <1>1, <1>3 DEF NormalizeEnds, At, LabInv, LabCore, Bench, Labs, Knowing
  <2>3. /\ lab' \in Labs /\ lab'.at = "each" /\ lab'.targets = {}
        /\ lab'.stage = "normalize"
    <3>1. lab.todo \ {Cur} \in SUBSET Picos /\ lab.probes \cup {Cur} \in SUBSET Picos
          /\ "each" \in Places
      BY <1>1, <2>2 DEF Labs, Places
    <3>2. PICK found \in SUBSET Picos, known \in SUBSET Picos :
             lab' = [lab EXCEPT !.at = "each", !.todo = lab.todo \ {Cur},
                                !.probes = found, !.known = known]
      <4>1. lab.probes \in SUBSET Picos /\ lab.known \in SUBSET Picos
            /\ [lab EXCEPT !.at = "each", !.todo = lab.todo \ {Cur}] =
                 [lab EXCEPT !.at = "each", !.todo = lab.todo \ {Cur},
                             !.probes = lab.probes, !.known = lab.known]
        BY <1>1 DEF Labs
      <4> QED
        BY <1>3, <2>2, <3>1, <4>1 DEF NormalizeEnds
    <3> QED
      BY <1>1, <3>1, <3>2 DEF Labs
  <2>4. Sorts'
    BY <2>1, <2>3 DEF LabInv, LabCore, Sorts, WorldTypeOK, worldVars
  <2> QED
    BY <1>1, <2>1, <2>3, <2>4, EarlyKeeps DEF Early, worldVars
<1> QED
  BY <1>2, <1>3

LEMMA NormalizedKeeps == LabInv /\ Normalized => LabInv'
<1> SUFFICES ASSUME LabInv, Normalized PROVE LabInv'
  OBVIOUS
<1>1. lab.stage = "normalize" /\ lab.at = "each" /\ lab.targets = {}
      /\ opts.scenario # "status" /\ lab \in Labs /\ lab.probes \subseteq Picos
  BY Whose DEF Normalized, At, LabInv, LabCore, Bench, Early, Placed, Sorts
<1>2. UNCHANGED <<worldVars, opts, win, hollow, wrong, stuck>> /\ failed' \in BOOLEAN
  BY DEF Normalized, NoWorld, Lab, Quiet, Fail, LabInv, LabCore, Sorts
<1>3. CASE lab.probes = {}
  <2>1. /\ lab' \in Labs /\ lab'.at = "each" /\ lab'.targets = {}
        /\ lab'.stage = "done" /\ failed' = TRUE
    BY <1>1, <1>3 DEF Normalized, Fail, Labs, Stages
  <2>2. Sorts'
    BY <1>2, <2>1 DEF LabInv, LabCore, Sorts, WorldTypeOK, worldVars
  <2> QED
    BY <1>1, <1>2, <2>1, <2>2, EarlyKeeps DEF Early, worldVars
<1>4. CASE lab.probes # {}
  <2>1. lab' = Following(lab)
    BY <1>4 DEF Normalized
  <2>2. /\ AtStart
        /\ lab'.targets = lab.targets
        /\ lab'.todo = lab.probes /\ lab'.probes = lab.probes
        /\ lab'.stage \in Cyclic \cup {"final", "done"}
        /\ opts.scenario = "full" => lab'.stage # "done"
    BY <1>1, <1>2, <1>4, <2>1, Arrive DEF LabInv, Stages
  <2>3. Sorts'
    BY <1>2, <2>2 DEF AtStart, LabInv, LabCore, Sorts, WorldTypeOK, worldVars
  <2>4. ~Signalling /\ lab.at # "take"
    BY <1>1 DEF Signalling
  <2>5. Back' /\ NoPadLeftHeld' /\ Shown'
    BY <1>1, <1>2, <2>4 DEF LabInv, Back, Verb, NoPadLeftHeld, Shown, worldVars
  <2>6. Smooth'
    BY <1>2, <2>2 DEF Smooth, Undisturbed, Signalling, Cyclic
  <2>7. Ran'
    BY <1>2, <2>2 DEF LabInv, Ran, PassIsEarned, AtStart
  <2> QED
    BY <2>2, <2>3, <2>5, <2>6, <2>7 DEF AtStart, LabInv, LabCore
<1> QED
  BY <1>3, <1>4

-----------------------------------------------------------------------------
(* One Pico at a time.                                                     *)

Working == Turning \ {"match", "release", "settle"}

\* A step within the turn of a Pico leaves most of the invariant as it is.
LEMMA MoveKeeps ==
  ASSUME LabInv, NEW at \in Working, Go(at), Lab, Quiet, Soft,
         creds' \in [Picos -> {"none", "good", "bad"}], told' = told,
         moves' = moves, lab.at \in Working, Placed'
  PROVE  /\ LabCore' /\ Back' /\ NoPadLeftHeld' /\ Shown'
         /\ lab'.at = at /\ lab'.stage = lab.stage /\ lab'.cur = lab.cur
         /\ lab'.todo = lab.todo /\ lab'.probes = lab.probes
         /\ lab'.before = lab.before /\ lab'.targets = lab.targets
         /\ UNCHANGED <<opts, win, failed, hollow, wrong, stuck>>
         /\ ~Signalling /\ ~(lab.stage \in Early) /\ Cur \in Picos /\ Cur \in lab.todo
<1>1. at \in Places /\ lab \in Labs /\ at \in Turning /\ lab.at \in Turning
      /\ at \notin {"match", "release", "settle", "take", "begin", "wait"}
      /\ lab.at \notin {"match", "release", "settle", "take", "begin"}
  BY DEF Working, Turning, Places, LabInv, LabCore, Sorts
<1>2. /\ lab' \in Labs /\ lab'.at = at
      /\ lab'.stage = lab.stage /\ lab'.cur = lab.cur /\ lab'.todo = lab.todo
      /\ lab'.probes = lab.probes /\ lab'.before = lab.before
      /\ lab'.targets = lab.targets
  BY <1>1, GoResult
<1>3. UNCHANGED <<opts, win, failed, hollow, wrong, stuck>>
  BY DEF Lab, Quiet
<1>4. Sorts'
  BY <1>2, <1>3 DEF Soft, LabInv, LabCore, Sorts, WorldTypeOK
<1>5. ~Signalling /\ ~(lab.stage \in Early)
  BY <1>1 DEF LabInv, LabCore, Placed, Signalling, Early, Turning, Working
<1>6. Cur \in Picos /\ Cur \in lab.todo
  BY <1>1, Whose DEF LabInv
<1>7. lab.stage = "reconnect" => lab.at \in ToRunAgain
  BY <1>1 DEF LabInv, LabCore, Placed, Turning
<1>8. Bench'
  BY <1>1, <1>2, <1>3, <1>5, <1>6, <1>7
     DEF LabInv, LabCore, Bench, Signalling, OneByOne, Cur, ToRunAgain
<1>9. Back'
  BY <1>1, <1>2, <1>3 DEF LabInv, Back, Verb, Soft
<1>10. NoPadLeftHeld'
  BY <1>3, <1>5 DEF LabInv, NoPadLeftHeld
<1>11. Shown'
  <2>1. \A p \in Picos : SignalState(p)' = SignalState(p)
    BY <1>2 DEF SignalState
  <2> QED
    BY <1>2, <1>5, <2>1 DEF LabInv, Shown, Soft, Signalling
<1> QED
  BY <1>2, <1>3, <1>4, <1>5, <1>6, <1>8, <1>9, <1>10, <1>11 DEF LabCore

\* The stages that have a place, and the backend that has a turn.
LEMMA Where ==
  ASSUME LabCore, lab.at \in Working
  PROVE  /\ lab.stage \in {"mode", "power", "flash", "final", "reconnect"}
         /\ lab.stage = "power" => opts.power = "reset"
         /\ opts.scenario # "status"
         /\ lab.at = "ready" => lab.stage \in {"mode", "power", "final"}
         /\ lab.at \in {"torun", "wifi"} =>
                lab.stage \in {"mode", "power", "final", "reconnect"}
         /\ lab.at = "usb" => lab.stage \in {"final", "reconnect"}
         /\ lab.at = "tosetup" => lab.stage \in {"mode", "power", "reconnect"}
         /\ lab.at = "back" => lab.stage \in {"mode", "power", "flash"}
         /\ lab.at = "setup" => lab.stage \in {"mode", "power", "flash", "reconnect"}
         /\ lab.at \in {"boot", "drive"} => lab.stage = "flash"
<1>1. lab.stage \in Stages /\ opts.power \in Backends
  BY Choices
<1>2. lab.at \notin {"begin", "discover", "each", "wait", "absent", "on", "return",
                    "take", "rejoin", "send", "match", "release", "settle"}
  BY DEF Working, Turning
<1>3. lab.stage \in {"mode", "power", "flash", "final", "reconnect"}
  BY <1>1, <1>2 DEF LabCore, Placed, Stages, Cyclic, Signalling
<1>4. lab.stage = "power" => opts.power = "reset"
  BY <1>1, <1>2 DEF LabCore, Placed, Backends
<1>5. opts.scenario # "status"
  BY <1>3 DEF LabCore, Placed
<1> QED
  BY <1>3, <1>4, <1>5 DEF LabCore, Placed, Cycling, ToRunAgain

LEMMA WorldUnchanged ==
  ASSUME LabInv, NoWorld
  PROVE  /\ Soft /\ creds' \in [Picos -> {"none", "good", "bad"}]
         /\ UNCHANGED <<mode, creds, device, pad, told, moves, been>>
  BY DEF NoWorld, worldVars, Soft, LabInv, LabCore, Sorts, WorldTypeOK

LEMMA WifiReadyKeeps == LabInv /\ WifiReady => LabInv'
<1> SUFFICES ASSUME LabInv, WifiReady PROVE LabInv'
  OBVIOUS
<1>1. lab.at = "ready" /\ Go("torun") /\ Lab /\ Quiet /\ "torun" \in Working
      /\ lab.at \in Working
  BY DEF WifiReady, Working, Turning
<1>2. UNCHANGED <<mode, device, pad, told, moves, been>>
  BY DEF WifiReady
<1>3. Soft
  BY <1>2 DEF Soft, LabInv, LabCore, Sorts, WorldTypeOK
<1>4. creds' \in [Picos -> {"none", "good", "bad"}]
  BY DEF WifiReady, LabInv, LabCore, Sorts, WorldTypeOK, Options
<1>5. lab' \in Labs /\ lab'.at = "torun" /\ lab'.stage = lab.stage
  BY <1>1, GoResult DEF LabInv, LabCore, Sorts, Places
<1>6. lab.stage \in {"mode", "power", "final"} /\ opts' = opts
      /\ (lab.stage = "power" => opts.power = "reset") /\ opts.scenario # "status"
  BY <1>1, Where DEF LabInv, Lab
<1>7. Placed'
  BY <1>5, <1>6 DEF Placed, Signalling, Cycling
<1>8. /\ LabCore' /\ Back' /\ NoPadLeftHeld' /\ Shown'
      /\ lab'.at = "torun" /\ lab'.stage = lab.stage /\ lab'.cur = lab.cur
      /\ lab'.todo = lab.todo /\ lab'.probes = lab.probes
      /\ UNCHANGED <<opts, win, failed, hollow, wrong, stuck>>
  BY <1>1, <1>2, <1>3, <1>4, <1>7, MoveKeeps
<1>9. Ran' /\ Flashed' /\ Taken'
  BY <1>6, <1>8 DEF LabInv, Ran, PassIsEarned, Flashed, Taken
<1>10. Smooth'
  BY <1>2, <1>6, <1>8 DEF LabInv, Smooth, Undisturbed, Signalling
<1> QED
  BY <1>8, <1>9, <1>10 DEF LabInv

LEMMA RebootToRunKeeps == LabInv /\ RebootToRun => LabInv'
<1> SUFFICES ASSUME LabInv, RebootToRun PROVE LabInv'
  OBVIOUS
<1>1. lab.at = "torun" /\ Go("wifi") /\ Lab /\ Quiet /\ "wifi" \in Working
      /\ lab.at \in Working /\ creds' = creds /\ told' = told /\ moves' = moves
  BY DEF RebootToRun, Working, Turning
<1>2. Cur \in Picos
  BY <1>1, Whose DEF LabInv, Working
<1>3. Became({Cur}, "reset", {}) /\ Soft
  <2>1. {Cur} \in SUBSET Picos /\ "reset" \in Modes /\ {} \in SUBSET Events
    BY <1>2 DEF Modes
  <2> QED
    BY <2>1, BecomeResult, BecomeSoft DEF RebootToRun, LabInv, LabCore, Sorts
<1>4. creds' \in [Picos -> {"none", "good", "bad"}]
  BY <1>1 DEF LabInv, LabCore, Sorts, WorldTypeOK
<1>5. lab' \in Labs /\ lab'.at = "wifi" /\ lab'.stage = lab.stage
  BY <1>1, GoResult DEF LabInv, LabCore, Sorts, Places
<1>6. lab.stage \in {"mode", "power", "final", "reconnect"} /\ opts' = opts
      /\ (lab.stage = "power" => opts.power = "reset") /\ opts.scenario # "status"
  BY <1>1, Where DEF LabInv, Lab
<1>7. Placed'
  BY <1>5, <1>6 DEF Placed, Signalling, Cycling, ToRunAgain
<1>8. /\ LabCore' /\ Back' /\ NoPadLeftHeld' /\ Shown'
      /\ lab'.at = "wifi" /\ lab'.stage = lab.stage /\ lab'.cur = lab.cur
      /\ lab'.todo = lab.todo /\ lab'.probes = lab.probes
      /\ lab'.targets = lab.targets /\ Cur \in lab.todo
      /\ UNCHANGED <<opts, win, failed, hollow, wrong, stuck>>
  BY <1>1, <1>3, <1>4, <1>7, MoveKeeps
<1>9. Ran' /\ Flashed'
  BY <1>2, <1>3, <1>6, <1>8 DEF LabInv, Ran, PassIsEarned, Flashed, Became, Cur
<1>10. lab.probes \subseteq Picos /\ lab.targets \subseteq Picos
  BY Whose DEF LabInv
<1>11. Taken'
  BY <1>1, <1>3, <1>6, <1>8, <1>10 DEF LabInv, Taken, Became, ToRunAgain
<1>12. Smooth'
  BY <1>1, <1>2, <1>3, <1>6, <1>8, <1>10
     DEF LabInv, Smooth, Undisturbed, Signalling, Became, Cur
<1> QED
  BY <1>8, <1>9, <1>11, <1>12 DEF LabInv

LEMMA WaitWifiKeeps == LabInv /\ WaitWifi => LabInv'
<1> SUFFICES ASSUME LabInv, WaitWifi PROVE LabInv'
  OBVIOUS
<1> DEFINE next == IF lab.stage \in {"final", "reconnect"} THEN "usb" ELSE "tosetup"
<1>1. lab.at = "wifi" /\ Go(next) /\ Lab /\ Quiet /\ next \in Working
      /\ lab.at \in Working /\ NoWorld /\ mode[Cur] = "run"
  BY DEF WaitWifi, Working, Turning
<1>2. /\ Soft /\ creds' \in [Picos -> {"none", "good", "bad"}]
      /\ UNCHANGED <<mode, creds, device, pad, told, moves, been>>
  BY <1>1, WorldUnchanged
<1>3. lab' \in Labs /\ lab'.at = next /\ lab'.stage = lab.stage
  BY <1>1, GoResult DEF LabInv, LabCore, Sorts, Places
<1>4. lab.stage \in {"mode", "power", "final", "reconnect"} /\ opts' = opts
      /\ (lab.stage = "power" => opts.power = "reset") /\ opts.scenario # "status"
  BY <1>1, Where DEF LabInv, Lab
<1>5. Placed'
  BY <1>3, <1>4 DEF Placed, Signalling, Cycling, ToRunAgain
<1>6. /\ LabCore' /\ Back' /\ NoPadLeftHeld' /\ Shown'
      /\ lab'.at = next /\ lab'.stage = lab.stage /\ lab'.cur = lab.cur
      /\ lab'.todo = lab.todo /\ lab'.probes = lab.probes
      /\ lab'.targets = lab.targets /\ Cur \in lab.todo
      /\ UNCHANGED <<opts, win, failed, hollow, wrong, stuck>>
  BY <1>1, <1>2, <1>5, MoveKeeps
<1>7. Ran' /\ Flashed'
  BY <1>1, <1>2, <1>4, <1>6 DEF LabInv, Ran, PassIsEarned, Flashed, Cur
<1>8. Taken'
  BY <1>1, <1>2, <1>4, <1>6 DEF LabInv, Taken, ToRunAgain
<1>9. Smooth'
  BY <1>1, <1>2, <1>4, <1>6 DEF LabInv, Smooth, Undisturbed, Signalling, Cur
<1> QED
  BY <1>6, <1>7, <1>8, <1>9 DEF LabInv

LEMMA AskKeeps == LabInv /\ (AskForSetup \/ AskAgain) => LabInv'
<1> SUFFICES ASSUME LabInv, AskForSetup \/ AskAgain PROVE LabInv'
  OBVIOUS
<1> DEFINE next == IF lab.at = "tosetup" /\ lab.stage # "reconnect" THEN "back"
                   ELSE "setup"
<1>1. lab.at \in {"tosetup", "back"} /\ Go(next) /\ Lab /\ Quiet /\ next \in Working
      /\ lab.at \in Working /\ RequestSetup(Cur)
  BY DEF AskForSetup, AskAgain, Working, Turning
<1>2. Cur \in Picos
  BY <1>1, Whose DEF LabInv, Working
<1>3. /\ Soft /\ creds' = creds /\ told' = told /\ moves' = moves
      /\ \A q \in Picos : been'[q] = been[q] /\ (q # Cur => mode'[q] = mode[q])
  BY <1>1, <1>2, RequestResult DEF LabInv, LabCore, Sorts
<1>4. creds' \in [Picos -> {"none", "good", "bad"}]
  BY <1>3 DEF LabInv, LabCore, Sorts, WorldTypeOK
<1>5. lab' \in Labs /\ lab'.at = next /\ lab'.stage = lab.stage
  BY <1>1, GoResult DEF LabInv, LabCore, Sorts, Places
<1>6. lab.stage \in {"mode", "power", "flash", "reconnect"} /\ opts' = opts
      /\ (lab.stage = "power" => opts.power = "reset") /\ opts.scenario # "status"
      /\ (lab.at = "back" => lab.stage # "reconnect")
      /\ (lab.at = "tosetup" => lab.stage # "flash")
  BY <1>1, Where DEF LabInv, Lab
<1>7. Placed'
  BY <1>1, <1>5, <1>6 DEF Placed, Signalling, Cycling, ToRunAgain
<1>8. /\ LabCore' /\ Back' /\ NoPadLeftHeld' /\ Shown'
      /\ lab'.at = next /\ lab'.stage = lab.stage /\ lab'.cur = lab.cur
      /\ lab'.todo = lab.todo /\ lab'.probes = lab.probes
      /\ lab'.targets = lab.targets /\ Cur \in lab.todo
      /\ UNCHANGED <<opts, win, failed, hollow, wrong, stuck>>
  BY <1>1, <1>3, <1>4, <1>7, MoveKeeps
<1>9. Ran' /\ Flashed'
  BY <1>1, <1>2, <1>3, <1>6, <1>8 DEF LabInv, Ran, PassIsEarned, Flashed, Cur
<1>10. lab.probes \subseteq Picos /\ lab.targets \subseteq Picos
  BY Whose DEF LabInv
<1>11. Taken'
  BY <1>1, <1>3, <1>6, <1>8, <1>10 DEF LabInv, Taken, ToRunAgain
<1>12. Smooth'
  BY <1>1, <1>2, <1>3, <1>6, <1>8, <1>10
     DEF LabInv, Smooth, Undisturbed, Signalling, Cur
<1> QED
  BY <1>8, <1>9, <1>11, <1>12 DEF LabInv

LEMMA BootselKeeps == LabInv /\ RebootToBootsel => LabInv'
<1> SUFFICES ASSUME LabInv, RebootToBootsel PROVE LabInv'
  OBVIOUS
<1>1. lab.at = "boot" /\ Go("drive") /\ Lab /\ Quiet /\ "drive" \in Working
      /\ lab.at \in Working /\ creds' = creds /\ told' = told /\ moves' = moves
  BY DEF RebootToBootsel, Working, Turning
<1>2. Cur \in Picos
  BY <1>1, Whose DEF LabInv, Working
<1>3. Became({Cur}, "bootsel", {}) /\ Soft
  <2>1. {Cur} \in SUBSET Picos /\ "bootsel" \in Modes /\ {} \in SUBSET Events
    BY <1>2 DEF Modes
  <2> QED
    BY <2>1, BecomeResult, BecomeSoft DEF RebootToBootsel, LabInv, LabCore, Sorts
<1>4. creds' \in [Picos -> {"none", "good", "bad"}]
  BY <1>1 DEF LabInv, LabCore, Sorts, WorldTypeOK
<1>5. lab' \in Labs /\ lab'.at = "drive" /\ lab'.stage = lab.stage
  BY <1>1, GoResult DEF LabInv, LabCore, Sorts, Places
<1>6. lab.stage = "flash" /\ opts' = opts /\ opts.scenario # "status"
  BY <1>1, Where DEF LabInv, Lab
<1>7. Placed'
  BY <1>5, <1>6 DEF Placed, Signalling
<1>8. /\ LabCore' /\ Back' /\ NoPadLeftHeld' /\ Shown'
      /\ lab'.at = "drive" /\ lab'.stage = lab.stage /\ lab'.cur = lab.cur
      /\ lab'.before = lab.before
      /\ UNCHANGED <<opts, win, failed, hollow, wrong, stuck>>
  BY <1>1, <1>3, <1>4, <1>7, MoveKeeps
<1>9. Flashed'
  BY <1>1, <1>2, <1>3, <1>6, <1>8 DEF LabInv, Flashed, NewDrives, Drives, Became, Cur
<1>10. Ran' /\ Taken' /\ Smooth'
  BY <1>6, <1>8 DEF LabInv, Ran, PassIsEarned, Taken, Smooth, Signalling
<1> QED
  BY <1>8, <1>9, <1>10 DEF LabInv

LEMMA FlashKeeps == LabInv /\ FlashNewDrive => LabInv'
<1> SUFFICES ASSUME LabInv, FlashNewDrive PROVE LabInv'
  OBVIOUS
<1>1. lab.at = "drive" /\ Go("back") /\ Lab /\ Quiet /\ "back" \in Working
      /\ lab.at \in Working /\ creds' = creds /\ told' = told /\ moves' = moves
  BY DEF FlashNewDrive, Working, Turning
<1>2. Cur \in Picos
  BY <1>1, Whose DEF LabInv, Working
<1>3. lab.stage = "flash" /\ opts' = opts /\ opts.scenario # "status"
  BY <1>1, Where DEF LabInv, Lab
<1>4. Become({Cur}, "reset", {"flashed"})
  BY <1>1, <1>3 DEF FlashNewDrive, LabInv, Flashed
<1>5. Became({Cur}, "reset", {"flashed"}) /\ Soft
  <2>1. {Cur} \in SUBSET Picos /\ "reset" \in Modes /\ {"flashed"} \in SUBSET Events
    BY <1>2 DEF Modes, Events
  <2> QED
    BY <1>4, <2>1, BecomeResult, BecomeSoft DEF LabInv, LabCore, Sorts
<1>6. creds' \in [Picos -> {"none", "good", "bad"}]
  BY <1>1 DEF LabInv, LabCore, Sorts, WorldTypeOK
<1>7. lab' \in Labs /\ lab'.at = "back" /\ lab'.stage = lab.stage
  BY <1>1, GoResult DEF LabInv, LabCore, Sorts, Places
<1>8. Placed'
  BY <1>3, <1>7 DEF Placed, Signalling
<1>9. /\ LabCore' /\ Back' /\ NoPadLeftHeld' /\ Shown'
      /\ lab'.at = "back" /\ lab'.stage = lab.stage /\ lab'.cur = lab.cur
      /\ UNCHANGED <<opts, win, failed, hollow, wrong, stuck>>
  BY <1>1, <1>5, <1>6, <1>8, MoveKeeps
<1>10. Flashed'
  BY <1>2, <1>5, <1>9 DEF Flashed, Became, Cur
<1>11. Ran' /\ Taken' /\ Smooth'
  BY <1>3, <1>9 DEF LabInv, Ran, PassIsEarned, Taken, Smooth, Signalling
<1> QED
  BY <1>9, <1>10, <1>11 DEF LabInv

LEMMA SetupAgainKeeps == LabInv /\ SetupAgain => LabInv'
<1> SUFFICES ASSUME LabInv, SetupAgain PROVE LabInv'
  OBVIOUS
<1>1. lab.at = "setup" /\ lab.stage = "reconnect" /\ Go("torun") /\ Lab /\ Quiet
      /\ "torun" \in Working /\ lab.at \in Working /\ NoWorld
  BY DEF SetupAgain, At, Working, Turning
<1>2. /\ Soft /\ creds' \in [Picos -> {"none", "good", "bad"}]
      /\ UNCHANGED <<mode, creds, device, pad, told, moves, been>>
  BY <1>1, WorldUnchanged
<1>3. lab' \in Labs /\ lab'.at = "torun" /\ lab'.stage = lab.stage
  BY <1>1, GoResult DEF LabInv, LabCore, Sorts, Places
<1>4. opts' = opts /\ opts.scenario # "status"
  BY <1>1, Where DEF LabInv, Lab
<1>5. Placed'
  BY <1>1, <1>3, <1>4 DEF Placed, Signalling, ToRunAgain
<1>6. /\ LabCore' /\ Back' /\ NoPadLeftHeld' /\ Shown'
      /\ lab'.at = "torun" /\ lab'.stage = lab.stage /\ lab'.cur = lab.cur
      /\ lab'.todo = lab.todo /\ lab'.probes = lab.probes
      /\ lab'.targets = lab.targets
      /\ UNCHANGED <<opts, win, failed, hollow, wrong, stuck>>
  BY <1>1, <1>2, <1>5, MoveKeeps
<1>7. Ran' /\ Flashed'
  BY <1>1, <1>2, <1>6 DEF LabInv, Ran, PassIsEarned, Flashed
<1>8. Taken'
  BY <1>1, <1>2, <1>6 DEF LabInv, Taken, ToRunAgain
<1>9. Smooth'
  BY <1>1, <1>2, <1>6 DEF LabInv, Smooth, Undisturbed, Signalling, Cur
<1> QED
  BY <1>6, <1>7, <1>8, <1>9 DEF LabInv

\* The end of a turn changes no Pico.
LEMMA TurnKeeps ==
  ASSUME LabInv, OneByOne, lab.at # "begin", NoWorld, Lab,
         wrong' = wrong, stuck' = stuck, failed' \in BOOLEAN, PassIsEarned',
         NEW l \in Labs, l.stage = lab.stage, l.cur = lab.cur, l.todo = lab.todo,
         l.probes = lab.probes, l.targets \subseteq l.probes, lab' = AfterTurn(l),
         \/ failed' = TRUE
         \/ failed' = failed /\ (lab.stage = "final" => mode[Cur] = "run")
  PROVE  LabInv'
<1>1. UNCHANGED <<mode, creds, device, pad, told, moves, been>>
  BY DEF NoWorld, worldVars
<1>2. opts' = opts /\ win' = win
  BY DEF Lab
<1>3. /\ AtStart
      /\ lab'.probes = lab.probes /\ lab'.targets = l.targets
      /\ \/ lab'.stage = lab.stage /\ lab'.todo = lab.todo \ {Cur}
         \/ /\ lab.todo \ {Cur} = {}
            /\ IF lab.stage = "final" THEN lab'.stage = "signals"
               ELSE /\ lab'.stage \in Cyclic \cup {"final", "done"}
                    /\ lab'.todo = lab.probes
                    /\ opts.scenario = "full" => lab'.stage # "done"
  BY <1>2, NextTurn DEF LabInv
<1>4. Sorts'
  BY <1>1, <1>2, <1>3 DEF AtStart, LabInv, LabCore, Sorts, WorldTypeOK
<1>5. ~Signalling /\ lab.at # "take" /\ lab.stage \in Cyclic \cup {"final"}
      /\ lab.probes # {}
  <2>1. opts.power = "reset" \/ lab.stage # "power"
    BY DEF OneByOne
  <2> QED
    BY <2>1 DEF OneByOne, Signalling, LabInv, LabCore, Placed, Bench, Cyclic, Cycling
<1>6. Back' /\ NoPadLeftHeld' /\ Shown'
  BY <1>1, <1>2, <1>3, <1>5 DEF LabInv, Back, Verb, NoPadLeftHeld, Shown, Cyclic
<1>7. Smooth'
  <2>1. CASE failed' = TRUE
    BY <2>1 DEF Smooth, Undisturbed
  <2>2. CASE failed' = failed /\ lab.stage = "final" /\ mode[Cur] = "run"
    BY <1>1, <1>2, <1>3, <1>5, <2>2 DEF LabInv, Smooth, Undisturbed, Signalling, Cyclic
  <2>3. CASE failed' = failed /\ lab.stage # "final"
    BY <1>1, <1>2, <1>3, <1>5, <2>3 DEF LabInv, Smooth, Undisturbed, Signalling, Cyclic
  <2> QED
    BY <2>1, <2>2, <2>3
<1> QED
  BY <1>3, <1>4, <1>6, <1>7 DEF AtStart, LabInv, LabCore

\* A pass of what happened leaves the record of the passes as it is.
LEMMA PassResult ==
  ASSUME LabInv, Pass(TRUE), opts' = opts
  PROVE  /\ PassIsEarned' /\ failed' = failed /\ failed' \in BOOLEAN
         /\ wrong' = wrong /\ stuck' = stuck
<1>1. hollow' = hollow /\ UNCHANGED <<failed, wrong, stuck>>
  BY DEF Pass
<1>2. PassIsEarned /\ failed \in BOOLEAN
  BY DEF LabInv, Ran, LabCore, Sorts
<1> QED
  BY <1>1, <1>2 DEF PassIsEarned

LEMMA BackInSetupKeeps == LabInv /\ BackInSetup => LabInv'
<1> SUFFICES ASSUME LabInv, BackInSetup PROVE LabInv'
  OBVIOUS
<1> DEFINE l == [lab EXCEPT !.known = Knowing({Cur})]
<1>1. lab.at \in {"back", "setup"} /\ lab.stage # "reconnect" /\ lab' = AfterTurn(l)
      /\ NoWorld /\ Lab /\ Pass(Earned \in been[Cur]) /\ lab.at \in Working
  BY DEF BackInSetup, Working, Turning
<1>2. lab.stage \in {"mode", "power", "flash"}
      /\ (lab.stage = "power" => opts.power = "reset")
  BY <1>1, Where DEF LabInv
<1>3. Cur \in Picos /\ lab \in Labs /\ lab.targets \subseteq lab.probes
  BY <1>1, Whose, Choices DEF LabInv, LabCore, Bench, Working
<1>4. Knowing({Cur}) \in SUBSET Picos
  BY <1>3 DEF Knowing, Labs
<1>5. /\ l \in Labs /\ l.stage = lab.stage /\ l.cur = lab.cur /\ l.todo = lab.todo
      /\ l.probes = lab.probes /\ l.targets = lab.targets
  BY <1>3, <1>4 DEF Labs
<1>6. Earned \in been[Cur]
  BY <1>1, <1>2 DEF Earned, LabInv, Ran, PassIsEarned, Flashed
<1>7. PassIsEarned' /\ failed' = failed /\ failed' \in BOOLEAN
      /\ wrong' = wrong /\ stuck' = stuck
  BY <1>1, <1>6, PassResult DEF Lab
<1>8. OneByOne /\ lab.at # "begin" /\ lab.stage # "final"
  BY <1>1, <1>2 DEF OneByOne
<1> HIDE DEF l
<1> QED
  BY <1>1, <1>3, <1>5, <1>7, <1>8, TurnKeeps

LEMMA ControllerReadyKeeps == LabInv /\ ControllerReady => LabInv'
<1> SUFFICES ASSUME LabInv, ControllerReady PROVE LabInv'
  OBVIOUS
<1> DEFINE l == [lab EXCEPT !.targets = @ \cup {Cur}]
<1>1. lab.at = "usb" /\ lab.stage = "final" /\ lab' = AfterTurn(l)
      /\ NoWorld /\ Lab /\ Pass("ran" \in been[Cur]) /\ mode[Cur] = "run"
      /\ lab.at \in Turning
  BY DEF ControllerReady, At, Turning
<1>2. OneByOne /\ lab.at # "begin"
  BY <1>1 DEF OneByOne
<1>3. Cur \in Picos /\ lab \in Labs /\ lab.targets \subseteq lab.probes
      /\ Cur \in lab.probes
  BY <1>1, <1>2, Whose, Choices DEF LabInv, LabCore, Bench
<1>4. lab.targets \cup {Cur} \in SUBSET Picos
  BY <1>3 DEF Labs
<1>5. /\ l \in Labs /\ l.stage = lab.stage /\ l.cur = lab.cur /\ l.todo = lab.todo
      /\ l.probes = lab.probes /\ l.targets = lab.targets \cup {Cur}
  BY <1>3, <1>4 DEF Labs
<1>6. "ran" \in been[Cur]
  BY <1>1 DEF LabInv, Ran, PassIsEarned
<1>7. PassIsEarned' /\ failed' = failed /\ failed' \in BOOLEAN
      /\ wrong' = wrong /\ stuck' = stuck
  BY <1>1, <1>6, PassResult DEF Lab
<1>8. l.targets \subseteq l.probes
  BY <1>3, <1>5
<1> HIDE DEF l
<1> QED
  BY <1>1, <1>2, <1>5, <1>7, <1>8, TurnKeeps

LEMMA TurnFailsKeeps == LabInv /\ TurnFails => LabInv'
<1> SUFFICES ASSUME LabInv, TurnFails PROVE LabInv'
  OBVIOUS
<1>1. OneByOne /\ lab.at # "begin" /\ lab' = AfterTurn(lab) /\ NoWorld /\ Lab
      /\ failed' = TRUE /\ UNCHANGED <<hollow, wrong, stuck>>
  BY DEF TurnFails, Fail
<1>2. lab \in Labs /\ lab.targets \subseteq lab.probes /\ PassIsEarned'
  BY <1>1, Choices DEF LabInv, LabCore, Bench, Ran, PassIsEarned, Lab
<1>3. wrong' = wrong /\ stuck' = stuck /\ failed' \in BOOLEAN
  BY <1>1
<1> QED
  BY <1>1, <1>2, <1>3, TurnKeeps

LEMMA TakeKeeps == LabInv /\ Take => LabInv'
<1> SUFFICES ASSUME LabInv, Take PROVE LabInv'
  OBVIOUS
<1> DEFINE p == Least(lab.todo)
           at == IF lab.stage = "flash" THEN "boot" ELSE "ready"
<1>1. OneByOne /\ lab.at = "begin" /\ lab \in Labs /\ lab.todo # {}
      /\ lab.todo \subseteq lab.probes
  BY Choices DEF Take, LabInv, LabCore, Bench
<1>2. p \in lab.todo /\ p \in Picos
  BY <1>1, LeastIn, LabAssumption DEF Labs
<1>3. Drives \in SUBSET Picos /\ at \in Places
  BY DEF Drives, Places
<1>4. lab' = [lab EXCEPT !.cur = p, !.before = Drives, !.at = at]
  BY DEF Take
<1>5. /\ lab' \in Labs /\ lab'.at = at /\ lab'.stage = lab.stage /\ lab'.cur = p
      /\ lab'.todo = lab.todo /\ lab'.probes = lab.probes
      /\ lab'.before = Drives /\ lab'.targets = lab.targets
  BY <1>1, <1>2, <1>3, <1>4 DEF Labs
<1>6. /\ UNCHANGED <<mode, creds, device, pad, told, moves>>
      /\ UNCHANGED <<opts, win, failed, hollow, wrong, stuck>>
      /\ been' = [been EXCEPT ![p] = {}]
  BY DEF Take, Lab, Quiet
<1>7. Sorts'
  BY <1>5, <1>6 DEF LabInv, LabCore, Sorts, WorldTypeOK
<1>8. lab.stage \in {"mode", "flash", "final"}
      \/ (lab.stage = "power" /\ opts.power = "reset")
  BY <1>1 DEF OneByOne
<1>9. Placed'
  BY <1>5, <1>6, <1>8 DEF LabInv, LabCore, Placed, Signalling, Cycling
<1>10. Bench'
  BY <1>1, <1>2, <1>5, <1>6, <1>8
     DEF LabInv, LabCore, Bench, Signalling, OneByOne, Cur, ToRunAgain, Early
<1>11. Ran' /\ Flashed' /\ Taken'
  <2>1. Drives' = Drives
    BY <1>6 DEF Drives
  <2> QED
    BY <1>5, <1>6, <1>8, <2>1 DEF LabInv, Ran, PassIsEarned, Flashed, Taken, NewDrives
<1>12. Back' /\ NoPadLeftHeld' /\ Shown'
  BY <1>1, <1>5, <1>6, <1>8
     DEF LabInv, Back, Verb, NoPadLeftHeld, Shown, Signalling
<1>13. Smooth'
  BY <1>5, <1>6, <1>8 DEF LabInv, Smooth, Undisturbed, Signalling
<1> QED
  BY <1>7, <1>9, <1>10, <1>11, <1>12, <1>13 DEF LabInv, LabCore

\* A stage ends, well or in failure.
LEMMA LeaveKeeps ==
  ASSUME LabInv, NEW l \in Labs, l.stage = lab.stage, l.probes = lab.probes,
         l.targets = lab.targets, lab.stage \notin Early \cup {"done", "final"},
         lab' = Following(l), opts' = opts, WorldTypeOK', win' \in Helpers,
         {failed', wrong'} \subseteq BOOLEAN /\ stuck' \in Failures, PassIsEarned',
         AllBack', AllReleased',
         \A p \in Picos : pad'[p] \in {pad[p], 0},
         \/ failed' = TRUE
         \/ /\ failed' = failed /\ moves' = moves /\ mode' = mode
            /\ lab.stage = "reconnect" /\ Undisturbed =>
                  \A p \in lab.probes : mode[p] = "run"
  PROVE  LabInv'
<1>1. lab.probes # {} /\ l.targets \subseteq l.probes /\ lab.stage \in Stages
      /\ l.stage \in Stages \ {"status", "recover", "done"}
      /\ lab.stage \in Cyclic \cup {"signals", "reconnect", "again"}
  BY Choices DEF LabInv, LabCore, Bench, Early, Stages
<1>2. /\ AtStart
      /\ lab'.probes = lab.probes /\ lab'.targets = lab.targets
      /\ lab'.todo = lab.probes
      /\ lab.stage \in Cyclic =>
             /\ lab'.stage \in Cyclic \cup {"final", "done"}
             /\ opts.scenario = "full" => lab'.stage # "done"
      /\ lab.stage = "signals" => lab'.stage \in {"reconnect", "done"}
      /\ lab.stage = "reconnect" => lab'.stage = "again"
      /\ lab.stage = "again" => lab'.stage = "done"
  BY <1>1, Arrive DEF LabInv
<1>3. NoPadLeftHeld' /\ Back'
  BY DEF NoPadLeftHeld, AllReleased, Back, AllBack
<1>7. Sorts'
  BY <1>2 DEF LabInv, LabCore, Sorts, AtStart
<1>4. Shown'
  <2>1. \A p \in Picos : SignalState(p)' = SignalState(p)
    BY <1>2 DEF SignalState
  <2>2. \A p \in Picos : pad'[p] # 0 => pad[p] # 0 /\ pad'[p] = pad[p]
    OBVIOUS
  <2>3. (\E p \in Picos : pad[p] # 0) =>
            lab.stage \in {"signals", "reconnect", "again"}
    BY <1>1 DEF LabInv, Shown, Signalling
  <2>4. lab.stage \in {"signals", "reconnect", "again"} =>
            lab'.stage \in {"reconnect", "again", "done"}
    BY <1>2
  <2> QED
    BY <1>2, <2>1, <2>2, <2>3, <2>4 DEF LabInv, Shown, Signalling
<1>5. Smooth'
  <2>1. CASE failed' = TRUE
    BY <2>1 DEF Smooth, Undisturbed
  <2>2. CASE failed' = failed /\ moves' = moves /\ mode' = mode
             /\ (lab.stage = "reconnect" /\ Undisturbed =>
                    \A p \in lab.probes : mode[p] = "run")
    <3>1. CASE lab.stage \in Cyclic
      BY <1>1, <1>2, <2>2, <3>1 DEF LabInv, Smooth, Undisturbed, Signalling, Cyclic
    <3>2. CASE lab.stage \in {"signals", "again"}
      BY <1>1, <1>2, <2>2, <3>2 DEF LabInv, Smooth, Undisturbed, Signalling
    <3>3. CASE lab.stage = "reconnect"
      BY <1>1, <1>2, <2>2, <3>3 DEF LabInv, Smooth, Undisturbed, Signalling
    <3> QED
      BY <1>1, <3>1, <3>2, <3>3
  <2> QED
    BY <2>1, <2>2
<1>6. Placed' /\ Bench' /\ Flashed' /\ Taken' /\ Ran'
  BY <1>2 DEF AtStart
<1> QED
  BY <1>3, <1>4, <1>5, <1>6, <1>7 DEF LabInv, LabCore

\* No device is away outside the PnP helper, unless pnputil refused it.
LEMMA AllFine ==
  ASSUME LabInv, lab.at # "take"
  PROVE  AllBack
  BY DEF LabInv, Back, AllBack

\* No pad is held outside a check, unless its release could not be sent.
LEMMA NoneHeld ==
  ASSUME LabInv, lab.at \notin {"match", "release"}
  PROVE  AllReleased
  BY DEF LabInv, NoPadLeftHeld, AllReleased

LEMMA SkipFlashKeeps == LabInv /\ SkipFlash => LabInv'
<1> SUFFICES ASSUME LabInv, SkipFlash PROVE LabInv'
  OBVIOUS
<1>1. lab.stage = "flash" /\ lab.at = "begin" /\ lab' = Following(lab)
      /\ NoWorld /\ Lab /\ Quiet /\ lab \in Labs
  BY Choices DEF SkipFlash, At, LabInv
<1>2. /\ UNCHANGED <<mode, creds, device, pad, told, moves, been>>
      /\ UNCHANGED <<opts, win, failed, hollow, wrong, stuck>>
  BY <1>1 DEF NoWorld, worldVars, Lab, Quiet
<1>3. WorldTypeOK' /\ win' \in Helpers /\ PassIsEarned'
      /\ {failed', wrong'} \subseteq BOOLEAN /\ stuck' \in Failures
  BY <1>2 DEF LabInv, LabCore, Sorts, WorldTypeOK, Ran, PassIsEarned
<1>4. AllBack' /\ AllReleased'
  BY <1>1, <1>2, AllFine, NoneHeld DEF AllBack, AllReleased, Verb
<1> QED
  BY <1>1, <1>2, <1>3, <1>4, LeaveKeeps DEF Early

-----------------------------------------------------------------------------
(* All Picos at once.                                                      *)

\* A step of the harness that fails the stage it is at, and of no Pico.
LEMMA StageFailsKeeps ==
  ASSUME LabInv, lab.stage \notin Early \cup {"done", "final"}, AllFail, NoWorld, Lab,
         lab.at # "take", ~Signalling
  PROVE  LabInv'
<1>1. lab' = Following(lab) /\ failed' = TRUE /\ UNCHANGED <<hollow, wrong, stuck>>
      /\ lab \in Labs
  BY Choices DEF AllFail, Fail, LabInv
<1>2. UNCHANGED <<mode, creds, device, pad, told, moves, been>> /\ UNCHANGED <<opts, win>>
  BY DEF NoWorld, worldVars, Lab
<1>3. WorldTypeOK' /\ win' \in Helpers /\ PassIsEarned'
      /\ {failed', wrong'} \subseteq BOOLEAN /\ stuck' \in Failures
  BY <1>1, <1>2 DEF LabInv, LabCore, Sorts, WorldTypeOK, Ran, PassIsEarned
<1>4. lab.at \notin {"match", "release"}
  BY Choices DEF LabInv, LabCore, Placed, Stages, Cyclic, Early, Signalling, Backends,
     Cycling, ToRunAgain
<1>5. AllBack' /\ AllReleased'
  BY <1>1, <1>2, <1>4, AllFine, NoneHeld DEF AllBack, AllReleased, Verb
<1> QED
  BY <1>1, <1>2, <1>3, <1>5, LeaveKeeps

\* A step of the power stage to another place of it.
LEMMA PowerGoKeeps ==
  ASSUME LabInv, lab.stage = "power", opts.power = "external", NEW at,
         at \in {"absent", "on", "return"}, Go(at), opts' = opts, win' = win,
         UNCHANGED <<failed, hollow, wrong, stuck>>, WorldTypeOK', told' = told,
         opts.cuts => \A p \in lab.probes : "off" \in been'[p],
         \A p \in Picos : pad'[p] \in {pad[p], 0} /\ device'[p] \in {device[p], "fine"}
  PROVE  LabInv'
<1>1. /\ lab' \in Labs /\ lab'.at = at /\ lab'.stage = "power"
      /\ lab'.probes = lab.probes /\ lab'.targets = lab.targets
      /\ lab'.todo = lab.todo /\ lab'.cur = lab.cur
  <2>1. at \in Places /\ lab \in Labs
    BY Choices DEF Places, LabInv
  <2> QED
    BY <2>1, GoResult
<1>2. Sorts' /\ Placed' /\ ~Signalling
  BY <1>1 DEF LabInv, LabCore, Sorts, Placed, Signalling
<1>3. Bench'
  BY <1>1 DEF LabInv, LabCore, Bench, Signalling, OneByOne, Early
<1>4. Ran' /\ Flashed' /\ Taken' /\ Smooth'
  BY <1>1 DEF LabInv, Ran, PassIsEarned, Flashed, Taken, Smooth, Signalling
<1>5. lab.at # "take"
  BY DEF LabInv, LabCore, Placed
<1>6. Back' /\ NoPadLeftHeld' /\ Shown'
  BY <1>1, <1>2, <1>5 DEF LabInv, Back, Verb, NoPadLeftHeld, Shown, Signalling
<1> QED
  BY <1>2, <1>3, <1>4, <1>6 DEF LabInv, LabCore

LEMMA CutPowerKeeps == LabInv /\ CutPower => LabInv'
<1> SUFFICES ASSUME LabInv, CutPower PROVE LabInv'
  OBVIOUS
<1>1. lab.stage = "power" /\ lab.at = "begin" /\ opts.power = "external" /\ Lab
      /\ UNCHANGED <<creds, device, told, moves>> /\ opts' = opts /\ win' = win
  BY DEF CutPower, At, Lab
<1>2. PICK S \in SUBSET Picos :
           /\ mode' = [p \in Picos |-> IF p \in S THEN "off" ELSE mode[p]]
           /\ pad' = [p \in Picos |-> IF p \in S THEN 0 ELSE pad[p]]
           /\ been' = [p \in Picos |-> IF p \in S THEN {"off"} ELSE {}]
           /\ \/ (opts.cuts => lab.probes \subseteq S) /\ Go("absent") /\ Quiet
              \/ AllFail
  BY DEF CutPower
<1>3. WorldTypeOK'
  <2>1. 0 \in Pads /\ "off" \in Modes /\ {"off"} \in SUBSET Events /\ {} \in SUBSET Events
    BY LabWorldAssumption DEF Pads, Modes, Events
  <2>2. WorldTypeOK
    BY Choices DEF LabInv
  <2>3. mode' \in [Picos -> Modes] /\ pad' \in [Picos -> Pads]
    BY <1>2, <2>1, <2>2 DEF WorldTypeOK
  <2>4. been' \in [Picos -> SUBSET Events]
    BY <1>2, <2>1
  <2> QED
    BY <1>1, <2>2, <2>3, <2>4 DEF WorldTypeOK
<1>4. \A p \in Picos : pad'[p] \in {pad[p], 0} /\ device'[p] = device[p]
      /\ told'[p] = told[p]
  BY <1>1, <1>2
<1>5. CASE (opts.cuts => lab.probes \subseteq S) /\ Go("absent") /\ Quiet
  <2>1. lab.probes \subseteq Picos
    BY Choices DEF LabInv, Labs
  <2>2. opts.cuts => \A p \in lab.probes : "off" \in been'[p]
    BY <1>2, <1>5, <2>1
  <2> QED
    BY <1>1, <1>3, <1>4, <1>5, <2>2, PowerGoKeeps DEF Quiet
<1>6. CASE AllFail
  <2>1. lab' = Following(lab) /\ failed' = TRUE /\ UNCHANGED <<hollow, wrong, stuck>>
        /\ lab \in Labs
    BY <1>6, Choices DEF AllFail, Fail, LabInv
  <2>2. win' \in Helpers /\ PassIsEarned' /\ {failed', wrong'} \subseteq BOOLEAN /\ stuck' \in Failures
    BY <1>1, <2>1 DEF LabInv, LabCore, Sorts, Ran, PassIsEarned
  <2>3. AllBack' /\ AllReleased'
    BY <1>1, <2>1, AllFine, NoneHeld DEF AllBack, AllReleased, Verb
  <2> QED
    BY <1>1, <1>3, <1>4, <2>1, <2>2, <2>3, LeaveKeeps DEF Early
<1> QED
  BY <1>2, <1>5, <1>6

LEMMA PowerIsOffKeeps == LabInv /\ PowerIsOff => LabInv'
<1> SUFFICES ASSUME LabInv, PowerIsOff PROVE LabInv'
  OBVIOUS
<1>1. lab.stage = "power" /\ lab.at = "absent" /\ Go("on") /\ NoWorld /\ Lab /\ Quiet
  BY DEF PowerIsOff, At
<1>2. opts.power = "external"
  BY <1>1, Choices DEF LabInv, LabCore, Placed, Cycling, Backends
<1>3. WorldTypeOK' /\ UNCHANGED <<mode, creds, device, pad, told, moves, been>>
  BY <1>1 DEF NoWorld, worldVars, LabInv, LabCore, Sorts, WorldTypeOK
<1>4. opts.cuts => \A p \in lab.probes : "off" \in been[p]
  BY <1>1, <1>2 DEF LabInv, Taken
<1> QED
  BY <1>1, <1>2, <1>3, <1>4, PowerGoKeeps DEF Lab, Quiet

LEMMA RestorePowerKeeps == LabInv /\ RestorePower => LabInv'
<1> SUFFICES ASSUME LabInv, RestorePower PROVE LabInv'
  OBVIOUS
<1>1. lab.stage = "power" /\ lab.at = "on" /\ opts' = opts /\ win' = win
      /\ UNCHANGED <<creds, told, moves>>
  BY DEF RestorePower, At, Lab
<1>2. opts.power = "external"
  BY <1>1, Choices DEF LabInv, LabCore, Placed, Cycling, Backends
<1>3. PICK S \in SUBSET Picos : Become(S, "reset", {})
  BY DEF RestorePower
<1>4. Soft
  <2>1. "reset" \in Modes /\ {} \in SUBSET Events
    BY DEF Modes
  <2> QED
    BY <1>3, <2>1, Choices, BecomeSoft DEF LabInv
<1>5. WorldTypeOK'
  BY <1>1, <1>4 DEF Soft, LabInv, LabCore, Sorts, WorldTypeOK
<1>6. CASE Go("return") /\ Quiet
  <2>1. lab.probes \subseteq Picos
    BY Choices DEF LabInv, Labs
  <2>2. opts.cuts => \A p \in lab.probes : "off" \in been[p]
    BY <1>1, <1>2 DEF LabInv, Taken
  <2>3. opts.cuts => \A p \in lab.probes : "off" \in been'[p]
    BY <1>3, <2>1, <2>2 DEF Become
  <2> QED
    BY <1>1, <1>2, <1>4, <1>5, <1>6, <2>3, PowerGoKeeps DEF Quiet, Soft
<1>7. CASE AllFail
  <2>1. lab' = Following(lab) /\ failed' = TRUE /\ UNCHANGED <<hollow, wrong, stuck>>
        /\ lab \in Labs
    BY <1>7, Choices DEF AllFail, Fail, LabInv
  <2>2. win' \in Helpers /\ PassIsEarned' /\ {failed', wrong'} \subseteq BOOLEAN /\ stuck' \in Failures
    BY <1>1, <2>1 DEF LabInv, LabCore, Sorts, Ran, PassIsEarned
  <2>3. AllBack' /\ AllReleased'
    BY <1>1, <1>4, <2>1, AllFine, NoneHeld DEF Soft, AllBack, AllReleased, Verb
  <2> QED
    BY <1>1, <1>4, <1>5, <2>1, <2>2, <2>3, LeaveKeeps DEF Early, Soft
<1> QED
  BY <1>6, <1>7 DEF RestorePower

LEMMA AllReturnedKeeps == LabInv /\ AllReturned => LabInv'
<1> SUFFICES ASSUME LabInv, AllReturned PROVE LabInv'
  OBVIOUS
<1> DEFINE l == [lab EXCEPT !.known = Knowing(lab.probes)]
<1>1. lab.stage = "power" /\ lab.at = "return" /\ opts' = opts /\ win' = win
      /\ lab' = Following(l) /\ UNCHANGED <<mode, creds, device, pad, told, moves, been>>
  BY DEF AllReturned, At, Lab, NoWorld, worldVars
<1>2. l \in Labs /\ l.stage = lab.stage /\ l.probes = lab.probes /\ l.targets = lab.targets
  <2>1. Knowing(lab.probes) \in SUBSET Picos
    BY Choices DEF LabInv, Knowing, Labs
  <2> QED
    BY <2>1, Choices DEF LabInv, Labs
<1>3. PassIsEarned' /\ UNCHANGED <<failed, wrong, stuck>>
  <2> DEFINE event == IF opts.power = "external" THEN "off" ELSE "taken"
             earned == \A p \in lab.probes : event \in been[p]
  <2>1. Pass(earned)
    BY DEF AllReturned
  <2>2. opts.power # "external" \/ opts.cuts => earned
    BY <1>1 DEF LabInv, Taken
  <2>3. PassIsEarned
    BY DEF LabInv, Ran
  <2> HIDE DEF earned
  <2>4. CASE earned
    BY <1>1, <2>1, <2>3, <2>4 DEF Pass, PassIsEarned
  <2>5. CASE ~earned
    BY <1>1, <2>1, <2>2, <2>3, <2>5 DEF Pass, PassKind, PassIsEarned
  <2> QED
    BY <2>4, <2>5
<1>4. WorldTypeOK' /\ win' \in Helpers /\ {failed', wrong'} \subseteq BOOLEAN /\ stuck' \in Failures
  BY <1>1, <1>3 DEF LabInv, LabCore, Sorts, WorldTypeOK
<1>5. AllBack' /\ AllReleased'
  BY <1>1, <1>3, AllFine, NoneHeld DEF AllBack, AllReleased, Verb
<1> HIDE DEF l
<1> QED
  BY <1>1, <1>2, <1>3, <1>4, <1>5, LeaveKeeps DEF Early

LEMMA AbsentOrReturnFailsKeeps == LabInv /\ AbsentOrReturnFails => LabInv'
<1> SUFFICES ASSUME LabInv, AbsentOrReturnFails PROVE LabInv'
  OBVIOUS
<1> QED
  BY StageFailsKeeps DEF AbsentOrReturnFails, Signalling, Early

-----------------------------------------------------------------------------
(* The PnP helper.                                                         *)

\* Where the helper works, and with which backend.
LEMMA HelperAtWork ==
  ASSUME LabInv, lab.at = "take"
  PROVE  /\ lab.stage \in {"power", "reconnect"} /\ opts.power \in {"restart", "remove"}
         /\ lab.stage = "reconnect" => opts.power = "remove"
         /\ Given \subseteq Picos /\ Verb \in {"disabled", "removed"}
<1>1. lab.stage \in Stages /\ opts.power \in Backends
      /\ lab.probes \subseteq Picos /\ lab.targets \subseteq Picos
  BY Choices, Whose DEF LabInv
<1>2. lab.stage \in {"power", "reconnect"}
  BY <1>1 DEF LabInv, LabCore, Placed, Stages, Cyclic, Signalling, Cycling
<1>3. opts.power \in {"restart", "remove"} /\ (lab.stage = "reconnect" => opts.power = "remove")
  BY <1>1, <1>2 DEF LabInv, LabCore, Placed, Bench, Backends, Cycling
<1> QED
  BY <1>1, <1>2, <1>3 DEF Given, Verb

\* A step to the helper's work, or of it.
LEMMA WorkKeeps ==
  ASSUME LabInv, lab.stage \in {"power", "reconnect"}, lab.at \in {"begin", "take"},
         opts.power \in {"restart", "remove"}, lab' = lab \/ Go("take"),
         lab.at = "begin" => Go("take"),
         opts' = opts, win' \in Helpers, WorldTypeOK',
         mode' = mode, pad' = pad, told' = told, moves' = moves,
         UNCHANGED <<failed, hollow, wrong>>, stuck' \in Failures,
         win'.ok => \A p \in Given \ win'.left : "taken" \in been'[p],
         Verb = "disabled" => win'.ok,
         stuck'.pad = stuck.pad,
         \A p \in Picos : device'[p] # "fine" =>
             /\ device'[p] = Verb
             /\ p \in stuck'.device \/ (Verb = "disabled" => p \in win'.taken)
  PROVE  LabInv'
<1>1. /\ lab' \in Labs /\ lab'.at = "take" /\ lab'.stage = lab.stage
      /\ lab'.probes = lab.probes /\ lab'.targets = lab.targets
      /\ lab'.todo = lab.todo /\ lab'.cur = lab.cur
  <2>1. "take" \in Places /\ lab \in Labs
    BY Choices DEF Places, LabInv
  <2>2. CASE Go("take")
    BY <2>1, <2>2, GoResult
  <2>3. CASE lab' = lab /\ lab.at = "take"
    BY <2>1, <2>3
  <2> QED
    BY <2>2, <2>3
<1>2. Sorts' /\ ~Signalling
  BY <1>1 DEF LabInv, LabCore, Sorts, Signalling
<1>3. Placed'
  BY <1>1 DEF LabInv, LabCore, Placed, Signalling, Cycling
<1>4. Bench'
  BY <1>1 DEF LabInv, LabCore, Bench, Signalling, OneByOne, Early, ToRunAgain
<1>5. Ran' /\ Flashed'
  BY <1>1 DEF LabInv, Ran, PassIsEarned, Flashed
<1>6. Given' = Given /\ Verb' = Verb
  BY <1>1 DEF Given, Verb
<1>7. Taken'
  BY <1>1, <1>6 DEF Taken, ToRunAgain
<1>8. Back'
  BY <1>1, <1>6 DEF Back
<1>9. NoPadLeftHeld' /\ Shown'
  <2>1. \A p \in Picos : SignalState(p)' = SignalState(p)
    BY <1>1 DEF SignalState
  <2> QED
    BY <1>1, <1>2, <2>1 DEF LabInv, NoPadLeftHeld, Shown, Signalling
<1>10. Smooth'
  BY <1>1 DEF LabInv, Smooth, Undisturbed, Signalling
<1> QED
  BY <1>2, <1>3, <1>4, <1>5, <1>7, <1>8, <1>9, <1>10 DEF LabInv, LabCore

LEMMA ListDevicesKeeps == LabInv /\ ListDevices => LabInv'
<1> SUFFICES ASSUME LabInv, ListDevices PROVE LabInv'
  OBVIOUS
<1>1. lab.stage \in {"power", "reconnect"} /\ lab.at = "begin" /\ Go("take")
      /\ opts' = opts /\ UNCHANGED <<mode, creds, device, pad, told, moves>>
      /\ UNCHANGED <<failed, hollow, wrong, stuck>>
      /\ win' = [AtRest EXCEPT !.left = Given]
      /\ been' = [p \in Picos |-> {}]
  BY DEF ListDevices, At, Quiet
<1>2. opts.power \in {"restart", "remove"}
  BY <1>1 DEF ListDevices, At, LabInv, LabCore, Bench
<1>3. Given \in SUBSET Picos
  BY Whose DEF Given, LabInv
<1>4. win' \in Helpers /\ win'.left = Given /\ win'.ok
  BY <1>1, <1>3 DEF Helpers, AtRest
<1>5. WorldTypeOK' /\ stuck' \in Failures
  BY <1>1 DEF LabInv, LabCore, Sorts, WorldTypeOK
<1>6. \A p \in Picos : device'[p] # "fine" => device'[p] = Verb /\ p \in stuck'.device
  BY <1>1, AllFine DEF AllBack
<1> QED
  BY <1>1, <1>2, <1>4, <1>5, <1>6, WorkKeeps

LEMMA ListFailsKeeps == LabInv /\ ListFails => LabInv'
<1> SUFFICES ASSUME LabInv, ListFails PROVE LabInv'
  OBVIOUS
<1> QED
  BY StageFailsKeeps DEF ListFails, At, Signalling, Early

LEMMA TakeDeviceKeeps == LabInv /\ TakeDevice => LabInv'
<1> SUFFICES ASSUME LabInv, TakeDevice PROVE LabInv'
  OBVIOUS
<1>1. lab.at = "take" /\ lab' = lab /\ opts' = opts
      /\ UNCHANGED <<mode, creds, pad, told, moves>>
      /\ UNCHANGED <<failed, hollow, wrong>>
  BY DEF TakeDevice
<1> PICK p \in win.left :
         /\ device' = [device EXCEPT ![p] = Verb]
         /\ been' = [been EXCEPT ![p] = @ \cup {"taken"}]
         /\ win' = [win EXCEPT !.left = @ \ {p}, !.taken = @ \cup {p}]
         /\ stuck' = [stuck EXCEPT !.device = @ \ {p}]
  BY DEF TakeDevice
<1>2. win \in Helpers /\ WorldTypeOK /\ stuck \in Failures
  BY Choices DEF LabInv, LabCore, Sorts
<1>3. p \in win.left /\ p \in Picos
  BY <1>2 DEF Helpers
<1>4. lab.stage \in {"power", "reconnect"} /\ opts.power \in {"restart", "remove"}
      /\ Given \subseteq Picos /\ Verb \in {"disabled", "removed"}
  BY <1>1, HelperAtWork
<1>5. /\ win' \in Helpers /\ win'.left = win.left \ {p} /\ win'.taken = win.taken \cup {p}
      /\ win'.ok = win.ok
  BY <1>1, <1>2, <1>3 DEF Helpers
<1>6. WorldTypeOK'
  BY <1>1, <1>2, <1>3, <1>4 DEF WorldTypeOK, Events
<1>7. /\ \A q \in Picos : q # p => been'[q] = been[q] /\ device'[q] = device[q]
      /\ "taken" \in been'[p] /\ device'[p] = Verb
  BY <1>1, <1>2, <1>3 DEF WorldTypeOK
<1>8. win'.ok => \A q \in Given \ win'.left : "taken" \in been'[q]
  BY <1>1, <1>4, <1>5, <1>7 DEF LabInv, Taken
<1>9. Verb = "disabled" => win'.ok
  BY <1>1, <1>5 DEF LabInv, Taken
<1>10. stuck' \in Failures /\ stuck'.device = stuck.device \ {p} /\ stuck'.pad = stuck.pad
  BY <1>2 DEF Failures
<1>11. \A q \in Picos : device'[q] # "fine" =>
          /\ device'[q] = Verb
          /\ q \in stuck'.device \/ (Verb = "disabled" => q \in win'.taken)
  BY <1>1, <1>5, <1>7, <1>10 DEF LabInv, Back
<1> QED
  BY <1>1, <1>2, <1>4, <1>5, <1>6, <1>8, <1>9, <1>10, <1>11, WorkKeeps

\* The helper gives up, for good or until its second run: no device is away
\* then but those that pnputil would not bring back.
LEMMA RetryKeeps ==
  ASSUME LabInv, lab.at = "take", Retry, opts' = opts, WorldTypeOK',
         mode' = mode, pad' = pad, told' = told, moves' = moves,
         hollow' = hollow, wrong' = wrong, stuck' \in Failures, stuck'.pad = stuck.pad,
         AllBack'
  PROVE  LabInv'
<1>1. /\ lab.stage \in {"power", "reconnect"} /\ opts.power \in {"restart", "remove"}
      /\ Given \in SUBSET Picos /\ Verb' = Verb
  BY HelperAtWork DEF Verb
<1>2. CASE /\ win' = [AtRest EXCEPT !.left = Given, !.elevated = TRUE]
           /\ Go("take") /\ failed' = failed
  <2>1. win' \in Helpers /\ win'.left = Given /\ win'.ok
    BY <1>1, <1>2 DEF Helpers, AtRest
  <2>2. \A p \in Picos : device'[p] # "fine" => device'[p] = Verb /\ p \in stuck'.device
    BY <1>1 DEF AllBack
  <2> QED
    BY <1>1, <1>2, <2>1, <2>2, WorkKeeps
<1>3. CASE lab' = Following(lab) /\ failed' = TRUE /\ win' = AtRest
  <2>1. win' \in Helpers /\ PassIsEarned' /\ {failed', wrong'} \subseteq BOOLEAN /\ stuck' \in Failures
        /\ lab \in Labs
    BY <1>3, Choices DEF LabInv, LabCore, Sorts, Ran, PassIsEarned, Helpers, AtRest
  <2>2. AllReleased'
    BY NoneHeld DEF AllReleased
  <2> QED
    BY <1>1, <1>3, <2>1, <2>2, LeaveKeeps DEF Early
<1> QED
  BY <1>2, <1>3 DEF Retry

\* What pnputil is asked to bring back is stuck if it refuses.
LEMMA BroughtBackResult ==
  ASSUME stuck \in Failures, NEW asked, NEW refused \in SUBSET Picos,
         BroughtBack(asked, refused)
  PROVE  /\ stuck' \in Failures /\ stuck'.pad = stuck.pad
         /\ stuck'.device = (stuck.device \ asked) \cup refused
  BY DEF BroughtBack, Failures

LEMMA DisableFailsKeeps == LabInv /\ DisableFails => LabInv'
<1> SUFFICES ASSUME LabInv, DisableFails PROVE LabInv'
  OBVIOUS
<1>1. lab.at = "take" /\ Verb = "disabled" /\ Retry
      /\ UNCHANGED <<mode, creds, pad, told, moves, been, opts, hollow, wrong>>
  BY DEF DisableFails
<1>2. WorldTypeOK /\ stuck \in Failures /\ win \in Helpers
  BY Choices DEF LabInv, LabCore, Sorts
<1> PICK p \in win.left : Reenabled(p, win.taken \cup {p})
  BY DEF DisableFails
<1> DEFINE asked == win.taken \cup {p}
<1> PICK took \in SUBSET {p}, refused \in SUBSET asked :
         /\ device' = [q \in Picos |-> IF q \in asked \ refused THEN "fine"
                                       ELSE IF q \in took THEN "disabled"
                                       ELSE device[q]]
         /\ BroughtBack(asked, refused)
  BY DEF Reenabled
<1>3. asked \subseteq Picos
  BY <1>2 DEF Helpers
<1>4. /\ stuck' \in Failures /\ stuck'.pad = stuck.pad
      /\ stuck'.device = (stuck.device \ asked) \cup refused
  BY <1>2, <1>3, BroughtBackResult
<1>5. WorldTypeOK'
  BY <1>1, <1>2 DEF WorldTypeOK
<1>6. AllBack'
  <2> SUFFICES ASSUME NEW q \in Picos, device'[q] # "fine"
               PROVE  device'[q] = Verb' /\ q \in stuck'.device
    BY DEF AllBack
  <2>1. q \notin asked \ refused /\ (q \in took \/ device'[q] = device[q])
    OBVIOUS
  <2>2. device'[q] = Verb /\ Verb' = Verb
    BY <1>1, <2>1 DEF LabInv, Back, Verb
  <2>3. q \in refused \/ (q \notin asked /\ q \in stuck.device)
    BY <1>1, <2>1 DEF LabInv, Back
  <2> QED
    BY <1>4, <2>2, <2>3
<1> QED
  BY <1>1, <1>4, <1>5, <1>6, RetryKeeps

LEMMA RemoveFailsKeeps == LabInv /\ RemoveFails => LabInv'
<1> SUFFICES ASSUME LabInv, RemoveFails PROVE LabInv'
  OBVIOUS
<1>1. lab.at = "take" /\ Verb = "removed" /\ lab' = lab /\ opts' = opts
      /\ UNCHANGED <<mode, creds, pad, told, moves, been>>
      /\ UNCHANGED <<failed, hollow, wrong>>
      /\ win' = [win EXCEPT !.left = {}, !.ok = FALSE]
  BY DEF RemoveFails
<1> PICK p \in win.left :
         /\ device' \in {device, [device EXCEPT ![p] = "removed"]}
         /\ stuck' = [stuck EXCEPT !.device = @ \ {p}]
  BY DEF RemoveFails
<1>2. win' \in Helpers /\ ~win'.ok
  BY <1>1, Choices DEF Helpers, LabInv
<1>3. lab.stage \in {"power", "reconnect"} /\ opts.power \in {"restart", "remove"}
  BY <1>1, HelperAtWork
<1>4. WorldTypeOK' /\ stuck' \in Failures /\ stuck'.pad = stuck.pad
  BY <1>1 DEF LabInv, LabCore, Sorts, WorldTypeOK, Failures
<1>5. \A q \in Picos : device'[q] # "fine" => device'[q] = Verb
  <2> SUFFICES ASSUME NEW q \in Picos, device'[q] # "fine" PROVE device'[q] = Verb
    OBVIOUS
  <2>1. WorldTypeOK
    BY Choices DEF LabInv
  <2>2. device'[q] \in {device[q], "removed"}
    BY <2>1 DEF WorldTypeOK
  <2> QED
    BY <1>1, <2>2 DEF LabInv, Back
<1> QED
  BY <1>1, <1>2, <1>3, <1>4, <1>5, WorkKeeps

\* The helper is through: all devices were taken, and are back.
LEMMA RejoiningKeeps ==
  ASSUME LabInv, lab.at = "take", win.left = {}, win.ok, lab' = Rejoining,
         opts' = opts, win' \in Helpers, WorldTypeOK',
         mode' = mode, pad' = pad, told' = told, moves' = moves, been' = been,
         UNCHANGED <<failed, hollow, wrong>>, stuck' \in Failures,
         stuck'.pad = stuck.pad, AllBack'
  PROVE  LabInv'
<1>1. /\ lab.stage \in {"power", "reconnect"} /\ opts.power \in {"restart", "remove"}
      /\ lab.stage = "reconnect" => opts.power = "remove"
      /\ Given \subseteq Picos /\ lab \in Labs
  BY HelperAtWork, Choices DEF LabInv
<1>2. Return \in Places /\ Return = (IF lab.stage = "reconnect" THEN "rejoin" ELSE "return")
  BY DEF Return, Places
<1>3. /\ lab' \in Labs /\ lab'.at = Return /\ lab'.stage = lab.stage
      /\ lab'.probes = lab.probes /\ lab'.targets = lab.targets
      /\ lab'.todo = Given /\ lab'.cur = lab.cur
  BY <1>1, <1>2 DEF Rejoining, Labs
<1>4. Sorts' /\ ~Signalling
  BY <1>1, <1>3 DEF LabInv, LabCore, Sorts, Signalling
<1>5. Placed'
  BY <1>1, <1>2, <1>3 DEF LabInv, LabCore, Placed, Signalling, Cycling
<1>6. Bench'
  BY <1>1, <1>2, <1>3
     DEF LabInv, LabCore, Bench, Signalling, OneByOne, Early, ToRunAgain, Given
<1>7. Ran' /\ Flashed'
  BY <1>1, <1>2, <1>3 DEF LabInv, Ran, PassIsEarned, Flashed
<1>8. Taken'
  <2>1. \A p \in Given : "taken" \in been[p]
    BY DEF LabInv, Taken
  <2> QED
    BY <1>1, <1>2, <1>3, <2>1 DEF Taken, ToRunAgain, Given
<1>9. Back'
  BY DEF Back, AllBack
<1>10. NoPadLeftHeld' /\ Shown'
  <2>1. \A p \in Picos : SignalState(p)' = SignalState(p)
    BY <1>3 DEF SignalState
  <2> QED
    BY <1>3, <1>4, <2>1 DEF LabInv, NoPadLeftHeld, Shown, Signalling
<1>11. Smooth'
  BY <1>1, <1>2, <1>3 DEF LabInv, Smooth, Undisturbed, Signalling
<1> QED
  BY <1>4, <1>5, <1>6, <1>7, <1>8, <1>9, <1>10, <1>11 DEF LabInv, LabCore

LEMMA EnableDeviceKeeps == LabInv /\ EnableDevice => LabInv'
<1> SUFFICES ASSUME LabInv, EnableDevice PROVE LabInv'
  OBVIOUS
<1>1. lab.at = "take" /\ win.left = {} /\ Verb = "disabled" /\ opts' = opts
      /\ UNCHANGED <<mode, creds, pad, told, moves, been>>
      /\ UNCHANGED <<failed, hollow, wrong>>
  BY DEF EnableDevice
<1> PICK p \in win.taken :
         /\ device' = Enabled({p})
         /\ IF win.taken = {p}
            THEN lab' = Rejoining /\ win' = AtRest
            ELSE lab' = lab /\ win' = [win EXCEPT !.taken = @ \ {p}]
         /\ BroughtBack({p}, {})
  BY DEF EnableDevice
<1>2. WorldTypeOK /\ stuck \in Failures /\ win \in Helpers
  BY Choices DEF LabInv, LabCore, Sorts
<1>3. win.ok
  BY <1>1 DEF LabInv, Taken
<1>4. /\ stuck' \in Failures /\ stuck'.pad = stuck.pad
      /\ stuck'.device = stuck.device \ {p}
  BY <1>2, BroughtBackResult
<1>5. WorldTypeOK'
  BY <1>1, <1>2 DEF WorldTypeOK, Enabled
<1>6. \A q \in Picos : device'[q] = IF q = p THEN "fine" ELSE device[q]
  BY DEF Enabled
<1>7. CASE win.taken = {p}
  <2>1. win' = AtRest /\ AtRest \in Helpers
    BY <1>7 DEF Helpers, AtRest
  <2>2. AllBack'
    BY <1>1, <1>4, <1>6, <1>7 DEF LabInv, Back, AllBack, Verb
  <2> QED
    BY <1>1, <1>3, <1>4, <1>5, <1>7, <2>1, <2>2, RejoiningKeeps
<1>8. CASE win.taken # {p}
  <2>1. win' \in Helpers /\ win'.left = {} /\ win'.ok /\ win'.taken = win.taken \ {p}
    BY <1>1, <1>2, <1>3, <1>8 DEF Helpers
  <2>2. \A q \in Picos : device'[q] # "fine" =>
            device'[q] = Verb /\ (q \in stuck'.device \/ q \in win'.taken)
    BY <1>1, <1>4, <1>6, <2>1 DEF LabInv, Back
  <2>3. \A q \in Given \ win'.left : "taken" \in been'[q]
    BY <1>1, <1>3, <2>1 DEF LabInv, Taken
  <2>4. lab.stage \in {"power", "reconnect"} /\ opts.power \in {"restart", "remove"}
    BY <1>1, HelperAtWork
  <2> QED
    BY <1>1, <1>4, <1>5, <1>8, <2>1, <2>2, <2>3, <2>4, WorkKeeps
<1> QED
  BY <1>7, <1>8

LEMMA EnableFailsKeeps == LabInv /\ EnableFails => LabInv'
<1> SUFFICES ASSUME LabInv, EnableFails PROVE LabInv'
  OBVIOUS
<1>1. lab.at = "take" /\ Verb = "disabled" /\ Retry /\ BroughtBack(win.taken, win.taken)
      /\ UNCHANGED <<mode, creds, pad, told, moves, been>>
      /\ UNCHANGED <<opts, hollow, wrong>>
  BY DEF EnableFails
<1> PICK p \in win.taken : device' \in {device, Enabled({p})}
  BY DEF EnableFails
<1>2. WorldTypeOK /\ stuck \in Failures /\ win \in Helpers
  BY Choices DEF LabInv, LabCore, Sorts
<1>3. /\ stuck' \in Failures /\ stuck'.pad = stuck.pad
      /\ stuck'.device = (stuck.device \ win.taken) \cup win.taken
  BY <1>1, <1>2, BroughtBackResult DEF Helpers
<1>4. \A q \in Picos : device'[q] \in {device[q], "fine"}
  BY DEF Enabled
<1>5. WorldTypeOK'
  BY <1>1, <1>2 DEF WorldTypeOK, Enabled
<1>6. AllBack'
  BY <1>1, <1>3, <1>4 DEF LabInv, Back, AllBack, Verb
<1> QED
  BY <1>1, <1>3, <1>5, <1>6, RetryKeeps

LEMMA ScanFailsKeeps == LabInv /\ ScanFails => LabInv'
<1> SUFFICES ASSUME LabInv, ScanFails PROVE LabInv'
  OBVIOUS
<1>1. lab.at = "take" /\ Verb = "removed" /\ Retry /\ BroughtBack(Removed, Removed)
      /\ UNCHANGED <<mode, creds, pad, told, moves, been>>
      /\ UNCHANGED <<opts, hollow, wrong>>
  BY DEF ScanFails
<1> PICK found \in SUBSET Removed : device' = Enabled(found)
  BY DEF ScanFails
<1>2. WorldTypeOK /\ stuck \in Failures
  BY Choices DEF LabInv, LabCore, Sorts
<1>3. /\ stuck' \in Failures /\ stuck'.pad = stuck.pad
      /\ stuck'.device = (stuck.device \ Removed) \cup Removed
  <2>1. Removed \in SUBSET Picos
    BY DEF Removed
  <2> QED
    BY <1>1, <1>2, <2>1, BroughtBackResult
<1>4. \A q \in Picos : device'[q] \in {device[q], "fine"}
  BY DEF Enabled
<1>5. WorldTypeOK'
  BY <1>1, <1>2 DEF WorldTypeOK, Enabled
<1>6. AllBack'
  BY <1>1, <1>3, <1>4 DEF LabInv, Back, AllBack, Verb, Removed
<1> QED
  BY <1>1, <1>3, <1>5, <1>6, RetryKeeps

LEMMA ScanKeeps == LabInv /\ Scan => LabInv'
<1> SUFFICES ASSUME LabInv, Scan PROVE LabInv'
  OBVIOUS
<1>1. lab.at = "take" /\ win.left = {} /\ Verb = "removed"
      /\ UNCHANGED <<mode, creds, pad, told, moves, been>>
      /\ UNCHANGED <<opts, hollow, wrong>>
      /\ device' = Enabled(Removed) /\ BroughtBack(Removed, {})
  BY DEF Scan
<1>2. WorldTypeOK /\ stuck \in Failures
  BY Choices DEF LabInv, LabCore, Sorts
<1>3. /\ stuck' \in Failures /\ stuck'.pad = stuck.pad
      /\ stuck'.device = stuck.device \ Removed
  BY <1>1, <1>2, BroughtBackResult
<1>4. \A q \in Picos : device'[q] = IF q \in Removed THEN "fine" ELSE device[q]
  BY <1>1 DEF Enabled
<1>5. WorldTypeOK'
  BY <1>1, <1>2 DEF WorldTypeOK, Enabled
<1>6. AllBack'
  BY <1>1, <1>3, <1>4 DEF LabInv, Back, AllBack, Verb, Removed
<1>7. CASE win.ok
  <2>1. lab' = Rejoining /\ win' = AtRest /\ failed' = failed
    BY <1>7 DEF Scan
  <2>2. win' \in Helpers
    BY <2>1 DEF Helpers, AtRest
  <2> QED
    BY <1>1, <1>3, <1>5, <1>6, <1>7, <2>1, <2>2, RejoiningKeeps
<1>8. CASE ~win.ok
  BY <1>1, <1>3, <1>5, <1>6, <1>8, RetryKeeps DEF Scan
<1> QED
  BY <1>7, <1>8

-----------------------------------------------------------------------------
(* Once the devices are back.                                              *)

\* From one target to another.
LEMMA RejoinKeeps ==
  ASSUME LabInv, lab.stage = "reconnect", lab.at \notin {"begin", "take"},
         lab' \in Labs, lab'.stage = "reconnect", lab'.at \in {"rejoin", "tosetup"},
         lab'.probes = lab.probes, lab'.targets = lab.targets,
         lab'.todo \subseteq lab.targets, lab'.at = "tosetup" => lab'.cur \in lab'.todo,
         NoWorld, Lab, Quiet,
         Undisturbed => \A p \in lab.probes : mode[p] = "run",
         lab'.at = "tosetup" => \A p \in lab.targets \ lab'.todo : "ran" \in been[p]
  PROVE  LabInv'
<1>1. UNCHANGED <<mode, creds, device, pad, told, moves, been>>
      /\ UNCHANGED <<opts, win, failed, hollow, wrong, stuck>>
  BY DEF NoWorld, worldVars, Lab, Quiet
<1>2. Sorts' /\ ~Signalling
  BY <1>1 DEF LabInv, LabCore, Sorts, WorldTypeOK, Signalling
<1>3. Placed'
  BY <1>1 DEF LabInv, LabCore, Placed, Signalling, ToRunAgain
<1>4. Bench'
  BY <1>1 DEF LabInv, LabCore, Bench, Signalling, OneByOne, Early, ToRunAgain, Cur
<1>5. Ran' /\ Flashed'
  BY <1>1 DEF LabInv, Ran, PassIsEarned, Flashed
<1>6. Taken'
  BY <1>1 DEF LabInv, Taken, ToRunAgain
<1>7. Back' /\ NoPadLeftHeld'
  BY <1>1, <1>2 DEF LabInv, Back, Verb, NoPadLeftHeld
<1>8. Shown'
  <2>1. \A p \in Picos : SignalState(p)' = SignalState(p)
    BY DEF SignalState
  <2> QED
    BY <1>1, <2>1 DEF LabInv, Shown, Signalling
<1>9. Smooth'
  BY <1>1 DEF LabInv, Smooth, Undisturbed, Signalling
<1> QED
  BY <1>2, <1>3, <1>4, <1>5, <1>6, <1>7, <1>8, <1>9 DEF LabInv, LabCore

LEMMA RejoinedKeeps == LabInv /\ Rejoined => LabInv'
<1> SUFFICES ASSUME LabInv, Rejoined PROVE LabInv'
  OBVIOUS
<1>1. lab.stage = "reconnect" /\ lab.at = "rejoin" /\ NoWorld /\ Lab /\ Quiet
      /\ lab \in Labs
  BY Choices DEF Rejoined, At, LabInv
<1>2. Undisturbed => \A p \in lab.probes : mode[p] = "run"
  BY <1>1 DEF LabInv, Smooth
<1>3. lab.todo \subseteq lab.targets /\ lab.targets # {} /\ lab.targets \subseteq Picos
  BY <1>1, Whose DEF LabInv, LabCore, Bench
<1>4. CASE lab.todo # {}
  <2>1. lab' = [lab EXCEPT !.todo = lab.todo \ {Least(lab.todo)}]
    BY <1>4 DEF Rejoined
  <2>2. /\ lab' \in Labs /\ lab'.stage = "reconnect" /\ lab'.at = "rejoin"
        /\ lab'.probes = lab.probes /\ lab'.targets = lab.targets
        /\ lab'.todo \subseteq lab.targets
    BY <1>1, <1>3, <2>1 DEF Labs
  <2> QED
    BY <1>1, <1>2, <2>2, RejoinKeeps
<1>5. CASE lab.todo = {}
  <2>1. Least(lab.targets) \in lab.targets
    BY <1>3, LeastIn, LabAssumption
  <2>2. lab' = [lab EXCEPT !.at = "tosetup", !.todo = lab.targets,
                           !.cur = Least(lab.targets)]
    BY <1>5 DEF Rejoined
  <2>3. /\ lab' \in Labs /\ lab'.stage = "reconnect" /\ lab'.at = "tosetup"
        /\ lab'.probes = lab.probes /\ lab'.targets = lab.targets
        /\ lab'.todo = lab.targets /\ lab'.cur \in lab'.todo
    BY <1>1, <1>3, <2>1, <2>2 DEF Labs, Places
  <2> QED
    BY <1>1, <1>2, <2>3, RejoinKeeps
<1> QED
  BY <1>4, <1>5

LEMMA ReconnectedKeeps == LabInv /\ Reconnected => LabInv'
<1> SUFFICES ASSUME LabInv, Reconnected PROVE LabInv'
  OBVIOUS
<1> DEFINE left == lab.todo \ {Cur}
<1>1. lab.stage = "reconnect" /\ lab.at = "usb" /\ NoWorld /\ Lab /\ mode[Cur] = "run"
      /\ lab \in Labs
  BY Choices DEF Reconnected, At, LabInv
<1>2. Undisturbed => \A p \in lab.probes : mode[p] = "run"
  BY <1>1 DEF LabInv, Smooth
<1>3. lab.todo \subseteq lab.targets /\ lab.targets \subseteq Picos
      /\ \A p \in lab.targets \ left : "ran" \in been[p]
  BY <1>1, Whose DEF LabInv, LabCore, Bench, Ran, PassIsEarned, Taken, ToRunAgain
<1>4. CASE left # {}
  <2>1. Least(left) \in left
    BY <1>3, <1>4, LeastIn, LabAssumption
  <2>2. lab' = [lab EXCEPT !.at = "tosetup", !.todo = left, !.cur = Least(left)] /\ Quiet
    BY <1>4 DEF Reconnected
  <2>3. /\ lab' \in Labs /\ lab'.stage = "reconnect" /\ lab'.at = "tosetup"
        /\ lab'.probes = lab.probes /\ lab'.targets = lab.targets
        /\ lab'.todo = left /\ lab'.cur \in lab'.todo
    BY <1>1, <1>3, <2>1, <2>2 DEF Labs, Places
  <2> QED
    BY <1>1, <1>2, <1>3, <2>2, <2>3, RejoinKeeps
<1>5. CASE left = {}
  <2>1. lab' = Following(lab)
        /\ Pass(\A p \in lab.targets : {"taken", "ran"} \subseteq been[p])
    BY <1>5 DEF Reconnected
  <2>2. \A p \in lab.targets : {"taken", "ran"} \subseteq been[p]
    BY <1>1, <1>3, <1>5 DEF LabInv, Taken
  <2>3. PassIsEarned' /\ UNCHANGED <<failed, wrong, stuck>>
    BY <1>1, <2>1, <2>2, PassResult DEF Lab
  <2>4. UNCHANGED <<mode, creds, device, pad, told, moves, been>> /\ UNCHANGED <<opts, win>>
    BY <1>1 DEF NoWorld, worldVars, Lab
  <2>5. WorldTypeOK' /\ win' \in Helpers /\ {failed', wrong'} \subseteq BOOLEAN /\ stuck' \in Failures
    BY <2>3, <2>4 DEF LabInv, LabCore, Sorts, WorldTypeOK
  <2>6. AllBack' /\ AllReleased'
    BY <1>1, <2>3, <2>4, AllFine, NoneHeld DEF AllBack, AllReleased, Verb
  <2> QED
    BY <1>1, <1>2, <2>1, <2>3, <2>4, <2>5, <2>6, LeaveKeeps DEF Early
<1> QED
  BY <1>4, <1>5

LEMMA ReconnectFailsKeeps == LabInv /\ ReconnectFails => LabInv'
<1> SUFFICES ASSUME LabInv, ReconnectFails PROVE LabInv'
  OBVIOUS
<1> QED
  BY StageFailsKeeps DEF ReconnectFails, Signalling, Early

-----------------------------------------------------------------------------
(* Signal checks.                                                          *)

\* The state of a target is one of the pad's, and not neutral.
LEMMA SignalResult ==
  ASSUME LabInv, NEW p \in Picos
  PROVE  SignalState(p) \in Pads /\ SignalState(p) # 0
<1> DEFINE before == {q \in lab.targets : q < p}
<1>1. before \subseteq Picos
  BY Whose DEF LabInv
<1>2. IsFiniteSet(before)
  BY <1>1, LabAssumption, FS_Subset
<1>3. Cardinality(before) \in Nat /\ Signals \in Nat \ {0}
  BY <1>2, FS_CardinalityType, LabWorldAssumption
<1> HIDE DEF before
<1>4. Cardinality(before) % Signals \in 0 .. Signals - 1
  BY <1>3
<1>5. SignalState(p) = (Cardinality(before) % Signals) + 1
  BY DEF SignalState, before
<1> QED
  BY <1>3, <1>4, <1>5 DEF Pads

\* A step from one place of a check to another.
LEMMA CheckKeeps ==
  ASSUME LabInv, Signalling, lab' \in Labs, lab'.stage = lab.stage,
         lab'.at \in {"send", "match", "release", "settle"},
         lab'.probes = lab.probes, lab'.targets = lab.targets,
         lab'.todo \subseteq lab.targets, lab'.todo # {},
         lab'.at # "send" => lab'.cur \in lab'.todo,
         WorldTypeOK', opts' = opts, win' = win,
         mode' = mode, device' = device, moves' = moves, hollow' = hollow,
         stuck' \in Failures, stuck'.device = stuck.device,
         failed' \in {failed, TRUE}, wrong' \in BOOLEAN,
         NoPadLeftHeld',
         \A p \in Picos : pad'[p] \in {pad[p], 0}
                          \/ (p \in lab.targets /\ pad'[p] = SignalState(p))
  PROVE  LabInv'
<1>1. Sorts'
  BY DEF LabInv, LabCore, Sorts
<1>2. Placed'
  BY DEF LabInv, LabCore, Placed, Signalling
<1>3. Bench'
  BY DEF LabInv, LabCore, Bench, Signalling, OneByOne, Early, ToRunAgain, Cur
<1>4. Ran' /\ Flashed' /\ Taken'
  BY DEF LabInv, Ran, PassIsEarned, Flashed, Taken, Signalling
<1>5. Back'
  BY DEF LabInv, LabCore, Placed, Signalling, Back, Verb
<1>6. Shown'
  <2>1. \A p \in Picos : SignalState(p)' = SignalState(p)
    BY DEF SignalState
  <2> QED
    BY <2>1 DEF LabInv, Shown, Signalling
<1>7. Smooth'
  BY DEF LabInv, LabCore, Sorts, Smooth, Undisturbed, Signalling
<1> QED
  BY <1>1, <1>2, <1>3, <1>4, <1>5, <1>6, <1>7 DEF LabInv, LabCore

\* A burst to some Picos.
LEMMA SendResult ==
  ASSUME LabInv, NEW S \in SUBSET Picos, NEW signal \in Pads, Send(S, signal),
         been' \in [Picos -> SUBSET Events]
  PROVE  /\ WorldTypeOK' /\ mode' = mode /\ device' = device /\ moves' = moves
         /\ \A p \in Picos :
                /\ told'[p] = IF p \in S THEN signal ELSE told[p]
                /\ pad'[p] = pad[p] \/ (p \in S /\ pad'[p] = signal)
<1>1. PICK got \in SUBSET (S \cap Running) :
         pad' = [p \in Picos |-> IF p \in got THEN signal ELSE pad[p]]
  BY DEF Send
<1>2. told' = [p \in Picos |-> IF p \in S THEN signal ELSE told[p]]
      /\ UNCHANGED <<mode, creds, device, moves>>
  BY DEF Send
<1>3. WorldTypeOK
  BY Choices DEF LabInv
<1>4. pad' \in [Picos -> Pads] /\ told' \in [Picos -> Pads]
  BY <1>1, <1>2, <1>3 DEF WorldTypeOK
<1>5. WorldTypeOK'
  BY <1>2, <1>3, <1>4 DEF WorldTypeOK
<1> QED
  BY <1>1, <1>2, <1>5

LEMMA NeutralizeKeeps == LabInv /\ NeutralizeTargets => LabInv'
<1> SUFFICES ASSUME LabInv, NeutralizeTargets PROVE LabInv'
  OBVIOUS
<1>1. Signalling /\ lab.at = "begin" /\ opts' = opts /\ win' = win
      /\ UNCHANGED <<failed, hollow, wrong, stuck>> /\ lab \in Labs
  BY Choices DEF NeutralizeTargets, Lab, Quiet, LabInv
<1>2. lab.targets \in SUBSET Picos /\ 0 \in Pads
  BY Whose, LabWorldAssumption DEF LabInv, Pads
<1>3. /\ WorldTypeOK' /\ mode' = mode /\ device' = device /\ moves' = moves
      /\ \A p \in Picos : told'[p] \in {told[p], 0} /\ pad'[p] \in {pad[p], 0}
  <2>1. PICK sent \in SUBSET lab.targets : Send(sent, 0)
    BY DEF NeutralizeTargets
  <2>2. been' \in [Picos -> SUBSET Events]
    BY DEF NeutralizeTargets
  <2>3. sent \in SUBSET Picos
    BY <1>2
  <2> QED
    BY <1>2, <2>1, <2>2, <2>3, SendResult
<1>4. win \in Helpers /\ PassIsEarned' /\ {failed, wrong} \subseteq BOOLEAN
      /\ stuck \in Failures
  BY <1>1 DEF LabInv, LabCore, Sorts, Ran, PassIsEarned
<1>5. AllReleased'
  BY <1>1, <1>3, NoneHeld DEF AllReleased
<1>6. CASE lab.targets = {}
  <2>1. lab' = Following(lab)
    BY <1>6 DEF NeutralizeTargets
  <2>2. AllBack'
    BY <1>1, <1>3, AllFine DEF AllBack, Verb
  <2>3. lab.stage \notin Early \cup {"done", "final", "reconnect"}
    BY <1>1 DEF Signalling, Early
  <2> QED
    BY <1>1, <1>3, <1>4, <1>5, <2>1, <2>2, <2>3, LeaveKeeps
<1>7. CASE lab.targets # {}
  <2>1. lab' = [lab EXCEPT !.at = "send", !.todo = lab.targets]
    BY <1>7 DEF NeutralizeTargets
  <2>2. /\ lab' \in Labs /\ lab'.stage = lab.stage /\ lab'.at = "send"
        /\ lab'.probes = lab.probes /\ lab'.targets = lab.targets
        /\ lab'.todo = lab.targets
    BY <1>1, <1>2, <2>1 DEF Labs, Places
  <2>3. NoPadLeftHeld'
    BY <1>5 DEF NoPadLeftHeld, AllReleased
  <2> QED
    BY <1>1, <1>3, <1>4, <1>7, <2>2, <2>3, CheckKeeps
<1> QED
  BY <1>6, <1>7

\* Whom a check is about.
LEMMA Checked ==
  ASSUME LabInv, Signalling, lab.at # "begin"
  PROVE  /\ lab \in Labs /\ lab.todo # {} /\ lab.todo \subseteq lab.targets
         /\ lab.targets \subseteq Picos
         /\ lab.at # "send" => Cur \in lab.todo /\ Cur \in Picos
<1>1. lab \in Labs /\ lab.todo # {} /\ lab.todo \subseteq lab.targets
      /\ lab.targets \subseteq Picos
  BY Choices, Whose DEF LabInv, LabCore, Bench
<1>2. lab.at # "send" => Cur \in lab.todo
  BY DEF LabInv, LabCore, Bench, Placed
<1> QED
  BY <1>1, <1>2

\* The next check begins, or the stage is through.
LEMMA NextCheckKeeps ==
  ASSUME LabInv, Signalling, lab.at # "begin", NEW p \in lab.todo, lab' = NextCheck(p),
         WorldTypeOK', opts' = opts, win' = win,
         mode' = mode, device' = device, moves' = moves, hollow' = hollow, wrong' = wrong,
         stuck' \in Failures, stuck'.device = stuck.device,
         failed' \in {failed, TRUE}, AllReleased',
         \A q \in Picos : pad'[q] \in {pad[q], 0}
  PROVE  LabInv'
<1>1. lab \in Labs /\ lab.todo \subseteq lab.targets /\ lab.targets \subseteq Picos
  BY Checked
<1>2. win \in Helpers /\ PassIsEarned' /\ {failed', wrong'} \subseteq BOOLEAN
  BY DEF LabInv, LabCore, Sorts, Ran, PassIsEarned
<1>3. CASE lab.todo = {p}
  <2>1. lab' = Following(lab)
    BY <1>3 DEF NextCheck
  <2>2. AllBack'
    <3>1. lab.at # "take"
      BY DEF LabInv, LabCore, Placed, Signalling
    <3> QED
      BY <3>1, AllFine DEF AllBack, Verb
  <2>3. lab.stage \notin Early \cup {"done", "final", "reconnect"}
    BY DEF Signalling, Early
  <2> QED
    BY <1>1, <1>2, <2>1, <2>2, <2>3, LeaveKeeps
<1>4. CASE lab.todo # {p}
  <2>1. lab' = [lab EXCEPT !.at = "send", !.todo = @ \ {p}, !.cur = Nobody,
                           !.found = Nobody]
    BY <1>4 DEF NextCheck
  <2>2. lab.todo \ {p} \in SUBSET Picos /\ "send" \in Places
    BY <1>1 DEF Places
  <2>3. /\ lab' \in Labs /\ lab'.stage = lab.stage /\ lab'.at = "send"
        /\ lab'.probes = lab.probes /\ lab'.targets = lab.targets
        /\ lab'.todo = lab.todo \ {p}
    BY <1>1, <2>1, <2>2 DEF Labs
  <2>4. NoPadLeftHeld'
    BY DEF NoPadLeftHeld, AllReleased
  <2>5. lab'.todo # {} /\ lab'.todo \subseteq lab.targets
    BY <1>1, <1>4, <2>3
  <2> QED
    BY <1>2, <2>3, <2>4, <2>5, CheckKeeps
<1> QED
  BY <1>3, <1>4

\* From `p` on, a check is at another place.
LEMMA CheckingResult ==
  ASSUME LabInv, Signalling, lab.at # "begin", NEW p \in lab.todo,
         NEW at \in {"match", "release"}, lab' = Checking(p, at)
  PROVE  /\ lab' \in Labs /\ lab'.stage = lab.stage /\ lab'.at = at /\ lab'.cur = p
         /\ lab'.probes = lab.probes /\ lab'.targets = lab.targets
         /\ lab'.todo = lab.todo /\ Signalling' /\ Cur' = p
<1>1. lab \in Labs /\ p \in Picos /\ at \in Places
  BY Checked DEF Places
<1> QED
  BY <1>1 DEF Checking, Labs, Signalling, Cur

LEMMA SendSignalKeeps == LabInv /\ SendSignal => LabInv'
<1> SUFFICES ASSUME LabInv, SendSignal PROVE LabInv'
  OBVIOUS
<1> DEFINE p == Least(lab.todo)
<1>1. Signalling /\ lab.at = "send" /\ opts' = opts /\ win' = win
      /\ UNCHANGED <<been, failed, hollow, wrong>>
      /\ lab' = Checking(p, "match") /\ Send({p}, SignalState(p))
      /\ stuck' = [stuck EXCEPT !.pad = @ \ {p}]
  BY DEF SendSignal, Lab
<1>2. lab.todo # {} /\ lab.todo \subseteq lab.targets /\ lab.targets \subseteq Picos
  BY <1>1, Checked
<1>3. p \in lab.todo /\ p \in Picos
  BY <1>2, LeastIn, LabAssumption
<1> HIDE DEF p
<1>4. SignalState(p) \in Pads
  BY <1>3, SignalResult
<1>5. been' \in [Picos -> SUBSET Events] /\ stuck \in Failures /\ wrong \in BOOLEAN
  BY <1>1 DEF LabInv, LabCore, Sorts, WorldTypeOK
<1>6. /\ WorldTypeOK' /\ mode' = mode /\ device' = device /\ moves' = moves
      /\ \A q \in Picos :
            /\ told'[q] = IF q \in {p} THEN SignalState(p) ELSE told[q]
            /\ pad'[q] = pad[q] \/ (q \in {p} /\ pad'[q] = SignalState(p))
  BY <1>1, <1>3, <1>4, <1>5, SendResult
<1>7. /\ lab' \in Labs /\ lab'.stage = lab.stage /\ lab'.at = "match" /\ lab'.cur = p
      /\ lab'.probes = lab.probes /\ lab'.targets = lab.targets
      /\ lab'.todo = lab.todo /\ Signalling' /\ Cur' = p
  BY <1>1, <1>3, CheckingResult
<1>8. /\ stuck' \in Failures /\ stuck'.device = stuck.device
      /\ stuck'.pad = stuck.pad \ {p}
  BY <1>1, <1>5 DEF Failures
<1>9. NoPadLeftHeld'
  <2>1. \A q \in Picos : told'[q] # 0 => q = p \/ q \in stuck'.pad
    BY <1>1, <1>6, <1>8, NoneHeld DEF AllReleased
  <2> QED
    BY <1>7, <2>1 DEF NoPadLeftHeld
<1> QED
  BY <1>1, <1>2, <1>3, <1>5, <1>6, <1>7, <1>8, <1>9, CheckKeeps

LEMMA SendFailsKeeps == LabInv /\ SendFails => LabInv'
<1> SUFFICES ASSUME LabInv, SendFails PROVE LabInv'
  OBVIOUS
<1> DEFINE p == Least(lab.todo)
<1>1. Signalling /\ lab.at = "send" /\ opts' = opts /\ win' = win
      /\ UNCHANGED <<mode, creds, device, pad, told, moves, been>>
      /\ \/ lab' = Checking(p, "release") /\ Quiet
         \/ lab' = NextCheck(p) /\ Fail
  BY DEF SendFails, Lab, NoWorld, worldVars
<1>2. lab.todo # {} /\ lab.todo \subseteq lab.targets /\ lab.targets \subseteq Picos
  BY <1>1, Checked
<1>3. p \in lab.todo /\ p \in Picos
  BY <1>2, LeastIn, LabAssumption
<1> HIDE DEF p
<1>4. WorldTypeOK' /\ stuck \in Failures /\ wrong \in BOOLEAN
  BY <1>1 DEF LabInv, LabCore, Sorts, WorldTypeOK
<1>5. CASE lab' = Checking(p, "release") /\ Quiet
  <2>1. UNCHANGED <<failed, hollow, wrong, stuck>>
    BY <1>5 DEF Quiet
  <2>2. /\ lab' \in Labs /\ lab'.stage = lab.stage /\ lab'.at = "release"
        /\ lab'.probes = lab.probes /\ lab'.targets = lab.targets
        /\ lab'.todo = lab.todo /\ lab'.cur = p
    BY <1>1, <1>3, <1>5, CheckingResult
  <2>3. NoPadLeftHeld'
    BY <1>1, <2>1, NoneHeld DEF AllReleased, NoPadLeftHeld
  <2> QED
    BY <1>1, <1>2, <1>3, <1>4, <2>1, <2>2, <2>3, CheckKeeps
<1>6. CASE lab' = NextCheck(p) /\ Fail
  <2>1. failed' = TRUE /\ UNCHANGED <<hollow, wrong, stuck>>
    BY <1>6 DEF Fail
  <2>2. AllReleased'
    BY <1>1, <2>1, NoneHeld DEF AllReleased
  <2> QED
    BY <1>1, <1>3, <1>4, <1>6, <2>1, <2>2, NextCheckKeeps
<1> QED
  BY <1>1, <1>5, <1>6

LEMMA SendAgainKeeps == LabInv /\ SendAgain => LabInv'
<1> SUFFICES ASSUME LabInv, SendAgain PROVE LabInv'
  OBVIOUS
<1>1. Signalling /\ lab.at = "match" /\ opts' = opts /\ win' = win
      /\ UNCHANGED <<been, lab, failed, hollow, wrong, stuck>>
      /\ Send({Cur}, SignalState(Cur))
  BY DEF SendAgain, Lab, Quiet
<1>2. lab \in Labs /\ lab.todo # {} /\ lab.todo \subseteq lab.targets
      /\ Cur \in lab.todo /\ Cur \in Picos
  BY <1>1, Checked
<1>3. SignalState(Cur) \in Pads
  BY <1>2, SignalResult
<1>4. been' \in [Picos -> SUBSET Events] /\ stuck \in Failures /\ wrong \in BOOLEAN
  BY <1>1 DEF LabInv, LabCore, Sorts, WorldTypeOK
<1>5. /\ WorldTypeOK' /\ mode' = mode /\ device' = device /\ moves' = moves
      /\ \A q \in Picos :
            /\ told'[q] = IF q \in {Cur} THEN SignalState(Cur) ELSE told[q]
            /\ pad'[q] = pad[q] \/ (q \in {Cur} /\ pad'[q] = SignalState(Cur))
  BY <1>1, <1>2, <1>3, <1>4, SendResult
<1>6. NoPadLeftHeld'
  BY <1>1, <1>5 DEF LabInv, NoPadLeftHeld, Signalling, Cur
<1> QED
  BY <1>1, <1>2, <1>4, <1>5, <1>6, CheckKeeps DEF Cur

LEMMA MatchKeeps == LabInv /\ (SlotMatches \/ NoSlotMatches) => LabInv'
<1> SUFFICES ASSUME LabInv, SlotMatches \/ NoSlotMatches PROVE LabInv'
  OBVIOUS
<1>1. Signalling /\ lab.at = "match" /\ opts' = opts /\ win' = win
      /\ UNCHANGED <<mode, creds, device, pad, told, moves, been>>
      /\ UNCHANGED <<failed, hollow, stuck>>
  BY DEF SlotMatches, NoSlotMatches, Lab, Quiet, NoWorld, worldVars
<1>2. PICK q \in Picos \cup {Nobody} : lab' = [lab EXCEPT !.at = "release", !.found = q]
  BY DEF SlotMatches, NoSlotMatches, Slots, Running
<1>3. wrong' \in BOOLEAN
  BY DEF SlotMatches, NoSlotMatches, Quiet, LabInv, LabCore, Sorts
<1>4. lab \in Labs /\ lab.todo # {} /\ lab.todo \subseteq lab.targets /\ Cur \in lab.todo
  BY <1>1, Checked
<1>5. /\ lab' \in Labs /\ lab'.stage = lab.stage /\ lab'.at = "release"
      /\ lab'.cur = lab.cur /\ lab'.probes = lab.probes
      /\ lab'.targets = lab.targets /\ lab'.todo = lab.todo
  BY <1>2, <1>4 DEF Labs, Places
<1>6. WorldTypeOK' /\ stuck \in Failures
  BY <1>1 DEF LabInv, LabCore, Sorts, WorldTypeOK
<1>7. NoPadLeftHeld'
  BY <1>1, <1>5 DEF LabInv, NoPadLeftHeld, Signalling, Cur
<1> QED
  BY <1>1, <1>3, <1>4, <1>5, <1>6, <1>7, CheckKeeps DEF Cur

LEMMA ReleaseKeeps == LabInv /\ Release => LabInv'
<1> SUFFICES ASSUME LabInv, Release PROVE LabInv'
  OBVIOUS
<1>1. Signalling /\ lab.at = "release" /\ opts' = opts /\ win' = win
      /\ been' = been /\ Send({Cur}, 0)
      /\ \/ Go("settle") /\ Quiet
         \/ lab' = NextCheck(Cur) /\ Fail
  BY DEF Release, Lab
<1>2. lab \in Labs /\ lab.todo # {} /\ lab.todo \subseteq lab.targets
      /\ Cur \in lab.todo /\ Cur \in Picos
  BY <1>1, Checked
<1>3. been' \in [Picos -> SUBSET Events] /\ stuck \in Failures /\ wrong \in BOOLEAN
  BY <1>1 DEF LabInv, LabCore, Sorts, WorldTypeOK
<1>4. /\ WorldTypeOK' /\ mode' = mode /\ device' = device /\ moves' = moves
      /\ \A q \in Picos :
            /\ told'[q] = IF q \in {Cur} THEN 0 ELSE told[q]
            /\ pad'[q] = pad[q] \/ (q \in {Cur} /\ pad'[q] = 0)
  <2>1. 0 \in Pads
    BY LabWorldAssumption DEF Pads
  <2> QED
    BY <1>1, <1>2, <1>3, <2>1, SendResult
<1>5. stuck' = stuck /\ hollow' = hollow /\ wrong' = wrong /\ failed' \in {failed, TRUE}
  BY <1>1 DEF Quiet, Fail
<1>6. AllReleased'
  BY <1>4, <1>5 DEF LabInv, NoPadLeftHeld, AllReleased
<1>7. CASE Go("settle")
  <2>1. "settle" \in Places
    BY DEF Places
  <2>2. /\ lab' \in Labs /\ lab'.stage = lab.stage /\ lab'.at = "settle"
        /\ lab'.cur = lab.cur /\ lab'.probes = lab.probes
        /\ lab'.targets = lab.targets /\ lab'.todo = lab.todo
    BY <1>2, <1>7, <2>1, GoResult
  <2>3. NoPadLeftHeld'
    BY <1>6 DEF NoPadLeftHeld, AllReleased
  <2> QED
    BY <1>1, <1>2, <1>3, <1>4, <1>5, <2>2, <2>3, CheckKeeps DEF Cur
<1>8. CASE lab' = NextCheck(Cur)
  BY <1>1, <1>2, <1>3, <1>4, <1>5, <1>6, <1>8, NextCheckKeeps
<1> QED
  BY <1>1, <1>7, <1>8

LEMMA ReleaseFailsKeeps == LabInv /\ ReleaseFails => LabInv'
<1> SUFFICES ASSUME LabInv, ReleaseFails PROVE LabInv'
  OBVIOUS
<1>1. Signalling /\ lab.at = "release" /\ opts' = opts /\ win' = win
      /\ UNCHANGED <<mode, creds, device, pad, told, moves, been>>
      /\ UNCHANGED <<hollow, wrong>> /\ failed' = TRUE /\ lab' = NextCheck(Cur)
      /\ stuck' = [stuck EXCEPT !.pad = @ \cup {Cur}]
  BY DEF ReleaseFails, Lab, NoWorld, worldVars
<1>2. Cur \in lab.todo /\ Cur \in Picos
  BY <1>1, Checked
<1>3. WorldTypeOK' /\ stuck \in Failures
  BY <1>1 DEF LabInv, LabCore, Sorts, WorldTypeOK
<1>4. /\ stuck' \in Failures /\ stuck'.device = stuck.device
      /\ stuck'.pad = stuck.pad \cup {Cur}
  BY <1>1, <1>2, <1>3 DEF Failures
<1>5. AllReleased'
  BY <1>1, <1>4 DEF LabInv, NoPadLeftHeld, AllReleased
<1> QED
  BY <1>1, <1>2, <1>3, <1>4, <1>5, NextCheckKeeps

LEMMA SettlesKeeps == LabInv /\ Settles => LabInv'
<1> SUFFICES ASSUME LabInv, Settles PROVE LabInv'
  OBVIOUS
<1>1. Signalling /\ lab.at = "settle" /\ opts' = opts /\ win' = win
      /\ UNCHANGED <<mode, creds, device, pad, told, moves, been>>
      /\ UNCHANGED <<hollow, wrong, stuck>> /\ failed' \in {failed, TRUE}
      /\ lab' = NextCheck(Cur)
  BY DEF Settles, Lab, Quiet, Fail, NoWorld, worldVars
<1>2. Cur \in lab.todo
  BY <1>1, Checked
<1>3. WorldTypeOK' /\ stuck \in Failures
  BY <1>1 DEF LabInv, LabCore, Sorts, WorldTypeOK
<1>4. AllReleased'
  BY <1>1, NoneHeld DEF AllReleased
<1> QED
  BY <1>1, <1>2, <1>3, <1>4, NextCheckKeeps

-----------------------------------------------------------------------------
(* The invariant.                                                          *)

LEMMA InitLabInv == Init => LabInv
<1> SUFFICES ASSUME Init PROVE LabInv
  OBVIOUS
<1>1. lab = [stage |-> "status", at |-> "begin", cycle |-> 1, cur |-> Nobody,
             todo |-> {}, probes |-> {}, known |-> {}, before |-> {},
             targets |-> {}, found |-> Nobody]
      /\ win = AtRest /\ opts \in Options /\ failed \in BOOLEAN
      /\ hollow = {} /\ wrong = FALSE /\ stuck = [device |-> {}, pad |-> {}]
  BY DEF Init
<1>2. mode \in [Picos -> {"run", "setup", "bootsel"}]
      /\ creds \in [Picos -> {"none", "good"}] /\ moves = 0
      /\ device = [p \in Picos |-> "fine"] /\ pad = [p \in Picos |-> 0]
      /\ told = [p \in Picos |-> 0] /\ been = [p \in Picos |-> {}]
  BY DEF Init, WorldInit
<1>3. WorldTypeOK
  <2>1. 0 \in Pads /\ 0 \in 0 .. MaxMoves
    BY LabWorldAssumption DEF Pads
  <2>2. mode \in [Picos -> Modes]
    BY <1>2 DEF Modes
  <2> QED
    BY <1>2, <2>1, <2>2 DEF WorldTypeOK
<1>4. lab \in Labs
  <2>1. 1 \in 1 .. Cycles /\ "status" \in Stages /\ "begin" \in Places
    BY LabAssumption DEF Stages, Places
  <2> QED
    BY <1>1, <2>1 DEF Labs
<1>5. Sorts
  BY <1>1, <1>3, <1>4 DEF Sorts, Helpers, AtRest, Failures
<1>6. lab.stage = "status" /\ lab.at = "begin" /\ lab.targets = {}
  BY <1>1
<1>7. Placed /\ Bench
  BY <1>6 DEF Placed, Bench, Signalling, OneByOne, Early, Cyclic
<1>8. Ran /\ Flashed /\ Taken /\ Smooth
  BY <1>1, <1>6 DEF Ran, PassIsEarned, Flashed, Taken, Smooth, Signalling
<1>9. Back /\ NoPadLeftHeld /\ Shown
  BY <1>2 DEF Back, NoPadLeftHeld, Shown
<1> QED
  BY <1>5, <1>7, <1>8, <1>9 DEF LabInv, LabCore

LEMMA StutterKeeps == LabInv /\ UNCHANGED vars => LabInv'
<1> SUFFICES ASSUME LabInv, UNCHANGED vars PROVE LabInv'
  OBVIOUS
<1>1. UNCHANGED <<mode, creds, device, pad, told, moves, been>>
      /\ UNCHANGED <<opts, lab, win, failed, hollow, wrong, stuck>>
  BY DEF vars, worldVars
<1>2. Sorts' /\ Placed' /\ Bench'
  BY <1>1 DEF LabInv, LabCore, Sorts, WorldTypeOK, Placed, Bench, Signalling, OneByOne, Cur
<1>3. Ran' /\ Flashed' /\ Taken' /\ Back'
  BY <1>1 DEF LabInv, Ran, PassIsEarned, Flashed, NewDrives, Drives, Taken, Given, Verb, Back, Cur
<1>4. NoPadLeftHeld' /\ Shown'
  <2>1. \A p \in Picos : SignalState(p)' = SignalState(p)
    BY <1>1 DEF SignalState
  <2> QED
    BY <1>1, <2>1 DEF LabInv, NoPadLeftHeld, Shown, Signalling, Cur
<1>5. Smooth'
  BY <1>1 DEF LabInv, Smooth, Undisturbed, Signalling, Cur
<1> QED
  BY <1>2, <1>3, <1>4, <1>5 DEF LabInv, LabCore

LEMMA NextLabInv == LabInv /\ [Next]_vars => LabInv'
<1> SUFFICES ASSUME LabInv, [Next]_vars PROVE LabInv'
  OBVIOUS
<1>1. CASE World
  BY <1>1, WorldKeeps
<1>2. CASE Find
  BY <1>2, StatusKeeps, RecoverKeeps, SetupKeeps, WifiKeeps, NormalizedKeeps,
     NormalizeKeeps DEF Find
<1>3. CASE One
  <2>1. CASE Take \/ SkipFlash \/ WifiReady \/ RebootToRun \/ WaitWifi \/ AskForSetup
    BY <2>1, TakeKeeps, SkipFlashKeeps, WifiReadyKeeps, RebootToRunKeeps,
       WaitWifiKeeps, AskKeeps
  <2>2. CASE BackInSetup \/ AskAgain \/ RebootToBootsel \/ FlashNewDrive
             \/ ControllerReady \/ TurnFails
    BY <2>2, BackInSetupKeeps, AskKeeps, BootselKeeps, FlashKeeps,
       ControllerReadyKeeps, TurnFailsKeeps
  <2> QED
    BY <1>3, <2>1, <2>2 DEF One
<1>4. CASE All
  BY <1>4, CutPowerKeeps, PowerIsOffKeeps, RestorePowerKeeps, AllReturnedKeeps,
     AbsentOrReturnFailsKeeps DEF All
<1>5. CASE Pnp
  BY <1>5, ListDevicesKeeps, ListFailsKeeps, TakeDeviceKeeps, DisableFailsKeeps,
     RemoveFailsKeeps, EnableDeviceKeeps, EnableFailsKeeps, ScanFailsKeeps,
     ScanKeeps DEF Pnp
<1>6. CASE Reconnect
  BY <1>6, RejoinedKeeps, SetupAgainKeeps, ReconnectedKeeps, ReconnectFailsKeeps
     DEF Reconnect
<1>7. CASE Signal
  BY <1>7, NeutralizeKeeps, SendSignalKeeps, SendFailsKeeps, SendAgainKeeps,
     MatchKeeps, ReleaseKeeps, ReleaseFailsKeeps, SettlesKeeps DEF Signal
<1>8. CASE UNCHANGED vars
  BY <1>8, StutterKeeps
<1> QED
  BY <1>1, <1>2, <1>3, <1>4, <1>5, <1>6, <1>7, <1>8 DEF Next

LEMMA LabAlways == Spec => []LabInv
  BY InitLabInv, NextLabInv, PTL DEF Spec

-----------------------------------------------------------------------------
(* Theorems.                                                               *)

\* A pass of the report is earned, on any bench, in any number of cycles and
\* after any resets: a mode cycle, a flash, a cut of power or a PnP cycle is
\* reported as passed only when every Pico it is about ran, was flashed, lost power
\* or was taken from Windows since the step began (cmd_lab.rs:345-597, 648-812);
\* a cut of power only if the configured command cuts it when it exits with 0.
THEOREM PassesAreEarned == Spec => []PassIsEarned
<1>1. LabInv => PassIsEarned
  BY DEF LabInv, Ran
<1> QED
  BY <1>1, LabAlways, PTL

\* When the run is over, no device is left disabled or removed but one that
\* pnputil itself refused to bring back (cmd_lab/pnp.rs:164-244): a device that was
\* disabled though pnputil told of a failure, a failure half way, the second,
\* elevated attempt and a refusal by the user included.
THEOREM DevicesComeBack == Spec => []NothingLeftDisabled
<1>1. LabInv => NothingLeftDisabled
  BY DEF LabInv, LabCore, Placed, Back, NothingLeftDisabled
<1> QED
  BY <1>1, LabAlways, PTL

\* A Pico whose last word from the bench is a held pad is the one under check, or
\* not one packet of its release could be sent, which ends its check
\* (cmd_lab.rs:1069-1095, 1130-1146): every other way out of a check, a packet of
\* its state that cannot be sent included, releases its pad.
THEOREM PadsAreReleased == Spec => []NoPadLeftHeld
<1>1. LabInv => NoPadLeftHeld
  BY DEF LabInv
<1> QED
  BY <1>1, LabAlways, PTL

\* A full run in which no step failed and nothing disturbed the Picos leaves
\* every Pico it tested running, and tested one (cmd_lab.rs:148-191, 692-736).
THEOREM FullRunsEndRunning == Spec => []FullRunEndsRunning
<1>1. LabInv => FullRunEndsRunning
  BY DEF LabInv, Smooth, Undisturbed, FullRunEndsRunning
<1> QED
  BY <1>1, LabAlways, PTL

\* Targets no more than signals: no two are sent the same state.
LEMMA SignalsDiffer ==
  ASSUME LabInv, Cardinality(Picos) <= Signals,
         NEW p \in lab.targets, NEW q \in lab.targets,
         SignalState(p) = SignalState(q)
  PROVE  p = q
<1> DEFINE Before(r) == {s \in lab.targets : s < r}
<1>1. lab.targets \subseteq Picos /\ IsFiniteSet(lab.targets)
      /\ Cardinality(lab.targets) <= Cardinality(Picos)
  BY Whose, LabAssumption, FS_Subset DEF LabInv
<1>2. Cardinality(Picos) \in Nat /\ Cardinality(lab.targets) \in Nat /\ Signals \in Nat
  BY <1>1, LabAssumption, LabWorldAssumption, FS_CardinalityType
<1>3. \A r \in lab.targets :
         /\ IsFiniteSet(Before(r)) /\ Cardinality(Before(r)) \in Nat
         /\ Cardinality(Before(r)) < Signals
  <2> TAKE r \in lab.targets
  <2>1. r \in Nat
    BY <1>1, LabAssumption
  <2>2. Before(r) \subseteq lab.targets /\ Before(r) # lab.targets
    <3>1. ~(r < r)
      BY <2>1
    <3>2. r \notin Before(r)
      BY <3>1
    <3> QED
      BY <3>2
  <2>3. IsFiniteSet(Before(r)) /\ Cardinality(Before(r)) < Cardinality(lab.targets)
    <3> HIDE DEF Before
    <3>1. Before(r) \in SUBSET lab.targets
      BY <2>2
    <3>2. /\ IsFiniteSet(Before(r))
          /\ Cardinality(Before(r)) <= Cardinality(lab.targets)
          /\ Cardinality(lab.targets) # Cardinality(Before(r))
      BY <1>1, <2>2, <3>1, FS_Subset
    <3>3. Cardinality(Before(r)) \in Nat
      BY <3>2, FS_CardinalityType
    <3> QED
      BY <1>2, <3>2, <3>3
  <2>4. Cardinality(Before(r)) \in Nat
    BY <2>3, FS_CardinalityType
  <2> HIDE DEF Before
  <2> QED
    BY <1>1, <1>2, <2>3, <2>4
<1>4. \A r \in lab.targets : SignalState(r) = Cardinality(Before(r)) + 1
  <2> TAKE r \in lab.targets
  <2>1. SignalState(r) = (Cardinality(Before(r)) % Signals) + 1
    BY DEF SignalState
  <2> HIDE DEF Before
  <2>2. Cardinality(Before(r)) % Signals = Cardinality(Before(r))
    BY <1>2, <1>3
  <2> QED
    BY <2>1, <2>2
<1>5. \A r, s \in lab.targets : r < s =>
         Cardinality(Before(r)) < Cardinality(Before(s))
  <2> TAKE r \in lab.targets, s \in lab.targets
  <2> SUFFICES ASSUME r < s PROVE Cardinality(Before(r)) < Cardinality(Before(s))
    OBVIOUS
  <2>1. lab.targets \subseteq Nat /\ r \in Nat /\ s \in Nat
    BY <1>1, LabAssumption
  <2>2. r \in Before(s) /\ Before(r) \subseteq Before(s) /\ Before(r) # Before(s)
    <3>1. ~(r < r) /\ \A t \in lab.targets : t < r => t < s
      BY <2>1
    <3>2. r \in Before(s) /\ r \notin Before(r) /\ Before(r) \subseteq Before(s)
      BY <3>1
    <3> QED
      BY <3>2
  <2>3. IsFiniteSet(Before(s)) /\ Cardinality(Before(s)) \in Nat
    BY <1>3
  <2>4. Cardinality(Before(r)) \in Nat
    BY <1>3
  <2> HIDE DEF Before
  <2>5. Before(r) \in SUBSET Before(s)
    BY <2>2
  <2>6. /\ Cardinality(Before(r)) <= Cardinality(Before(s))
        /\ Cardinality(Before(s)) # Cardinality(Before(r))
    BY <2>2, <2>3, <2>5, FS_Subset
  <2> QED
    BY <2>3, <2>4, <2>6
<1>6. p \in Nat /\ q \in Nat
  BY <1>1, LabAssumption
<1>7. Cardinality(Before(p)) = Cardinality(Before(q))
  <2>1. Cardinality(Before(p)) \in Nat /\ Cardinality(Before(q)) \in Nat
    BY <1>3
  <2>2. SignalState(p) = Cardinality(Before(p)) + 1
    BY <1>4
  <2>3. SignalState(q) = Cardinality(Before(q)) + 1
    BY <1>4
  <2> HIDE DEF Before
  <2>4. Cardinality(Before(p)) + 1 = Cardinality(Before(q)) + 1
    BY <2>2, <2>3
  <2>5. \A a, b \in Nat : a + 1 = b + 1 => a = b
    OBVIOUS
  <2> QED
    BY <2>1, <2>4, <2>5
<1>8. ~(p < q) /\ ~(q < p)
  <2>1. Cardinality(Before(p)) \in Nat /\ Cardinality(Before(q)) \in Nat
    BY <1>3
  <2>2. /\ p < q => Cardinality(Before(p)) < Cardinality(Before(q))
        /\ q < p => Cardinality(Before(q)) < Cardinality(Before(p))
    BY <1>5
  <2> HIDE DEF Before
  <2> QED
    BY <1>7, <2>1, <2>2
<1> QED
  BY <1>6, <1>8

LEMMA NextWrong ==
  ASSUME Cardinality(Picos) <= Signals
  PROVE  LabInv /\ ~wrong /\ [Next]_vars => ~wrong'
<1> SUFFICES ASSUME LabInv, ~wrong, [Next]_vars PROVE ~wrong'
  OBVIOUS
<1>1. wrong \in BOOLEAN
  BY DEF LabInv, LabCore, Sorts
<1>2. CASE SlotMatches
  <2>1. PICK q \in Slots :
           /\ {r \in Slots : pad[r] = SignalState(Cur)} = {q}
           /\ wrong' = (wrong \/ q # Cur)
    BY <1>2 DEF SlotMatches
  <2>2. q \in Picos /\ pad[q] = SignalState(Cur)
    BY <2>1 DEF Slots, Running
  <2>3. Cur \in lab.targets /\ Cur \in Picos
    BY <1>2, Checked DEF SlotMatches
  <2>4. pad[q] # 0
    BY <2>2, <2>3, SignalResult
  <2>5. q \in lab.targets /\ pad[q] = SignalState(q)
    BY <2>2, <2>4 DEF LabInv, Shown
  <2>6. q = Cur
    BY <2>2, <2>3, <2>5, SignalsDiffer
  <2> QED
    BY <2>1, <2>6
<1>3. CASE World \/ UNCHANGED vars
  BY <1>3 DEF World, vars
<1>4. CASE Find
  BY <1>4 DEF Find, StatusSnapshot, RecoverInitial, SetupSelected, WifiSelected,
     Normalized, NormalizeOne, NormalizeEnds, Quiet, Fail
<1>5. CASE One
  BY <1>5 DEF One, Take, SkipFlash, WifiReady, RebootToRun, WaitWifi, AskForSetup,
     BackInSetup, AskAgain, RebootToBootsel, FlashNewDrive, ControllerReady,
     TurnFails, Quiet, Fail, Pass
<1>6. CASE All
  BY <1>6 DEF All, CutPower, PowerIsOff, RestorePower, AllReturned,
     AbsentOrReturnFails, AllFail, Quiet, Fail, Pass
<1>7. CASE Pnp
  BY <1>7 DEF Pnp, ListDevices, ListFails, TakeDevice, DisableFails, RemoveFails,
     EnableDevice, EnableFails, Scan, ScanFails, AllFail, Quiet, Fail
<1>8. CASE Reconnect
  BY <1>8 DEF Reconnect, Rejoined, SetupAgain, Reconnected, ReconnectFails,
     AllFail, Quiet, Fail, Pass
<1>9. CASE NeutralizeTargets \/ SendSignal \/ SendFails \/ SendAgain
           \/ NoSlotMatches \/ Release \/ ReleaseFails \/ Settles
  BY <1>9 DEF NeutralizeTargets, SendSignal, SendFails, SendAgain, NoSlotMatches,
     Release, ReleaseFails, Settles, Quiet, Fail
<1> QED
  BY <1>2, <1>3, <1>4, <1>5, <1>6, <1>7, <1>8, <1>9 DEF Next, Signal

\* A signal check takes a Pico's own slot or none (cmd_lab.rs:814-847,
\* 1097-1128), on a bench of no more Picos than there are signals: the code has
\* four of them, as Windows has four controllers.
THEOREM SlotsAreTheirOwn ==
  ASSUME Cardinality(Picos) <= Signals
  PROVE  Spec => []SlotIsItsOwn
<1>1. Init => SlotIsItsOwn
  BY DEF Init, SlotIsItsOwn
<1>2. LabInv /\ SlotIsItsOwn /\ [Next]_vars => SlotIsItsOwn'
  BY NextWrong DEF SlotIsItsOwn
<1> QED
  BY <1>1, <1>2, LabAlways, PTL DEF Spec
===============================================================================
