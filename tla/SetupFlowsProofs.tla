---------------------------- MODULE SetupFlowsProofs ----------------------------
(***************************************************************************)
(* Theorems about SetupFlows, for any Picos, any number of processes and   *)
(* any flows of theirs.                                                    *)
(***************************************************************************)
EXTENDS SetupFlows, WellFoundedInduction, TLAPS

-----------------------------------------------------------------------------
(* The inductive invariant.                                                *)

\* What a process can be doing, and what it does after a save.
Afters == {"wait", "flash", "send", "reboot", "idle"}
Doings == [flow : Flows \cup {"none"}, at : Steps, then : Afters,
           port : Picos \cup {Nobody}, seen : SUBSET Picos, todo : SUBSET Picos,
           flag : BOOLEAN, found : Picos \cup {Nobody}]

Sorts ==
    /\ WorldTypeOK /\ FileTypeOK
    /\ my \in [Processes -> Doings]
    /\ strayBounce \in BOOLEAN /\ strayName \in BOOLEAN

\* The steps between the opening of a port and its release.
Using(r) ==
    \/ r.at \in {"opened", "pair", "send", "reboot"}
    \/ r.at \in {"save", "fill"} /\ r.then \in {"send", "reboot", "idle"}

\* Nobody holds a port other than the one it works on.
Owners ==
    \A p \in Picos, c \in Processes :
        holder[p] = c => my[c].port = p /\ Using(my[c])

\* A port seen after one without any has come up since the reboot.
Awaits(r) == r.flow = "configure" /\ r.at = "confirm" /\ r.flag
Bounces ==
    /\ ~strayBounce
    /\ \A c \in Processes : Awaits(my[c]) => shown = {} \/ c \in since

Plainly == Sorts /\ Owners /\ Bounces

\* The keys.  The file, or the copy that is being written to it, and every
\* copy the file has not outrun have the keys the Picos obey; these copies
\* drop no key of the file; and a key on its way to a Pico is in all of them.
Knows(cfg) == \A p \in Picos : key[p] # 0 => cfg.keys[p] = key[p]
Keeps(cfg, old) ==
    \A p \in Picos \ Old : old.keys[p] # 0 => cfg.keys[p] = old.keys[p]
Everywhere(p, k) ==
    /\ k # 0
    /\ file # Torn => file.keys[p] = k
    /\ \A c \in fresh : copy[c].keys[p] = k

\* A key that is saved before it is sent.
Saving(r) == r.at \in {"save", "fill"} /\ r.then = "send"

Safe ==
    /\ file # Torn => Knows(file) /\ \A c \in fresh : Keeps(copy[c], file)
    /\ \A c \in fresh : Knows(copy[c])
    /\ file = Torn => \E c \in fresh : my[c].at = "fill"
    /\ \A c \in Processes :
           my[c].at = "send" /\ Port(c) \in Picos \ Old =>
               Everywhere(Port(c), copy[c].keys[Port(c)])

Keyed ==
    /\ \A p \in Old : key[p] = 0
    /\ \A c \in Processes :
           Saving(my[c]) => Port(c) \in Picos /\ copy[c].keys[Port(c)] # 0
    /\ ~clash => Safe

SetupInv == Plainly /\ Keyed

-----------------------------------------------------------------------------
(* A step of one process.                                                  *)

\* c goes on to r; the others keep what they hold, unless a Pico has left.
Hands(c, r) ==
    \A p \in Picos :
        /\ \A d \in Processes \ {c} : holder'[p] = d => holder[p] = d
        /\ holder'[p] = c => r.port = p /\ Using(r)

Calm(c, r) ==
    /\ my' = [my EXCEPT ![c] = r]
    /\ WorldTypeOK'
    /\ Hands(c, r)
    /\ shown' = shown /\ since \ {c} \subseteq since'
    /\ Awaits(r) => shown = {}

\* ... and neither keys nor the file are touched.
Plain(c, r) ==
    /\ Calm(c, r)
    /\ my[c].at # "fill" /\ r.at \notin {"send", "save", "fill"}
    /\ UNCHANGED <<key, file, copy, made, fresh, clash, strayBounce, strayName>>

LEMMA CalmKeeps ==
  ASSUME Plainly, NEW c \in Processes, NEW r \in Doings, Calm(c, r), FileTypeOK',
         ~strayBounce', strayBounce' \in BOOLEAN, strayName' \in BOOLEAN
  PROVE  Plainly'
<1>1. my' \in [Processes -> Doings]
  BY DEF Calm, Plainly, Sorts
<1>2. my'[c] = r /\ \A d \in Processes \ {c} : my'[d] = my[d]
  BY DEF Calm, Plainly, Sorts
<1>3. Sorts'
  BY <1>1 DEF Calm, Sorts
<1>4. Owners'
  <2> SUFFICES ASSUME NEW p \in Picos, NEW d \in Processes, holder'[p] = d
               PROVE  my'[d].port = p /\ Using(my'[d])
    BY DEF Owners
  <2>1. CASE d = c
    BY <2>1, <1>2 DEF Calm, Hands
  <2>2. CASE d # c
    BY <2>2, <1>2 DEF Calm, Hands, Plainly, Owners
  <2> QED
    BY <2>1, <2>2
<1>5. Bounces'
  <2> SUFFICES ASSUME NEW d \in Processes, Awaits(my'[d])
               PROVE  shown' = {} \/ d \in since'
    BY DEF Bounces
  <2>1. CASE d = c
    BY <2>1, <1>2 DEF Calm
  <2>2. CASE d # c
    BY <2>2, <1>2 DEF Calm, Plainly, Bounces
  <2> QED
    BY <2>1, <2>2
<1> QED
  BY <1>3, <1>4, <1>5 DEF Plainly

LEMMA PlainKeeps ==
  ASSUME SetupInv, NEW c \in Processes, NEW r \in Doings, Plain(c, r)
  PROVE  SetupInv'
<1>1. Plainly'
  BY CalmKeeps DEF Plain, SetupInv, Plainly, Sorts, Bounces, FileTypeOK
<1>2. my'[c] = r /\ \A d \in Processes \ {c} : my'[d] = my[d]
  BY DEF Plain, Calm, SetupInv, Plainly, Sorts
<1>3. /\ UNCHANGED <<key, file, copy, fresh, clash>>
      /\ \A d \in Processes : my'[d].at \in {"save", "fill", "send"} => my'[d] = my[d]
      /\ \A d \in Processes : my[d].at = "fill" => my'[d] = my[d]
  BY <1>2 DEF Plain
<1>4. fresh \subseteq Processes
  BY DEF SetupInv, Plainly, Sorts, FileTypeOK
<1>5. ASSUME Safe PROVE Safe'
  <2>1. /\ file' # Torn => Knows(file)' /\ \A d \in fresh' : Keeps(copy[d], file)'
        /\ \A d \in fresh' : Knows(copy[d])'
    BY <1>3, <1>5 DEF Safe, Knows, Keeps
  <2>2. file' = Torn => \E d \in fresh' : my'[d].at = "fill"
    BY <1>3, <1>4, <1>5 DEF Safe
  <2>3. ASSUME NEW d \in Processes, my'[d].at = "send", Port(d)' \in Picos \ Old
        PROVE  Everywhere(Port(d), copy[d].keys[Port(d)])'
    BY <2>3, <1>3, <1>5 DEF Safe, Port, Everywhere
  <2> QED
    BY <2>1, <2>2, <2>3 DEF Safe
<1>6. Keyed'
  BY <1>3, <1>5 DEF SetupInv, Keyed, Saving, Port
<1> QED
  BY <1>1, <1>6 DEF SetupInv

\* A step that opens no port.
LEMMA Turn ==
  ASSUME SetupInv, NEW c \in Processes, NEW r \in Doings,
         my' = [my EXCEPT ![c] = r], WorldTypeOK',
         \A p \in Picos : holder'[p] \in {holder[p], Nobody},
         shown' = shown, since' = since,
         UNCHANGED <<key, file, copy, made, fresh, clash, strayBounce, strayName>>,
         my[c].at # "fill", r.at \notin {"send", "save", "fill"},
         ~Using(my[c]) \/ (r.port = my[c].port /\ Using(r)),
         Awaits(r) => shown = {}
  PROVE  Plain(c, r)
<1>1. Hands(c, r)
  BY SetupFlowsAssumption DEF Hands, SetupInv, Plainly, Owners
<1> QED
  BY <1>1 DEF Plain, Calm

\* A step that changes nothing but what the process is doing.
LEMMA Alone ==
  ASSUME SetupInv, NEW c \in Processes, NEW r \in Doings,
         my' = [my EXCEPT ![c] = r], NoWorld, NoFile, Quiet,
         my[c].at # "fill", r.at \notin {"send", "save", "fill"},
         ~Using(my[c]) \/ (r.port = my[c].port /\ Using(r)),
         Awaits(r) => shown = {}
  PROVE  SetupInv'
<1>1. /\ WorldTypeOK' /\ shown' = shown /\ since' = since /\ holder' = holder
      /\ UNCHANGED <<key, file, copy, made, fresh, clash, strayBounce, strayName>>
  BY DEF NoWorld, NoFile, Quiet, worldVars, fileVars, history, WorldTypeOK,
         SetupInv, Plainly, Sorts
<1> QED
  BY <1>1, Turn, PlainKeeps

LEMMA BecomesResult ==
  ASSUME WorldTypeOK, NEW p, NEW m \in Modes, Becomes(p, m)
  PROVE  /\ mode' \in [Picos -> Modes]
         /\ holder' \in [Picos -> Processes \cup {Nobody}]
         /\ \A q \in Picos : holder'[q] \in {holder[q], Nobody}
         /\ since' = since
BY DEF Becomes, WorldTypeOK

\* A step that also takes a Pico to another mode.
LEMMA Moved ==
  ASSUME SetupInv, NEW c \in Processes, NEW r \in Doings,
         my' = [my EXCEPT ![c] = r], NEW p, NEW m \in Modes, Becomes(p, m),
         UNCHANGED <<creds, key, shown, moves>>, NoFile, Quiet,
         my[c].at # "fill", r.at \notin {"send", "save", "fill"},
         ~Using(my[c]) \/ (r.port = my[c].port /\ Using(r)),
         Awaits(r) => shown = {}
  PROVE  SetupInv'
<1>1. WorldTypeOK
  BY DEF SetupInv, Plainly, Sorts
<1>2. WorldTypeOK' /\ \A q \in Picos : holder'[q] \in {holder[q], Nobody}
  BY <1>1, BecomesResult DEF WorldTypeOK
<1>3. /\ shown' = shown /\ since' = since
      /\ UNCHANGED <<key, file, copy, made, fresh, clash, strayBounce, strayName>>
  BY DEF Becomes, NoFile, Quiet, fileVars, history
<1> QED
  BY <1>2, <1>3, Turn, PlainKeeps

\* request_reboot_to_setup, lost or not.
LEMMA Requested ==
  ASSUME SetupInv, NEW c \in Processes, NEW r \in Doings,
         my' = [my EXCEPT ![c] = r], NEW p, RequestSetup(p), NoFile, Quiet,
         my[c].at # "fill", r.at \notin {"send", "save", "fill"},
         ~Using(my[c]), ~Awaits(r)
  PROVE  SetupInv'
<1>1. CASE Becomes(p, "setup")
  BY <1>1, Moved DEF RequestSetup, Modes
<1>2. CASE UNCHANGED <<mode, holder, since>>
  BY <1>2, Alone DEF RequestSetup, NoWorld, worldVars
<1> QED
  BY <1>1, <1>2 DEF RequestSetup

\* Sets of Picos have a first.
LEMMA FirstIn ==
  ASSUME NEW S, S \subseteq Picos, S # {}
  PROVE  (CHOOSE p \in S : \A q \in S : p <= q) \in S
<1>1. S \subseteq Nat
  BY ConfigFileAssumption
<1>2. PICK x \in S : \A y \in S : ~(<<y, x>> \in OpToRel(<, Nat))
  <2> DEFINE R == OpToRel(<, Nat)
  <2>1. IsWellFoundedOn(R, Nat)
    BY NatLessThanWellFounded
  <2> HIDE DEF R
  <2>2. \E x \in S : \A y \in S : ~(<<y, x>> \in R)
    BY <1>1, <2>1, WFMin
  <2> QED
    BY <2>2 DEF R
<1>3. ASSUME NEW y \in S, y < x PROVE FALSE
  <2>1. <<y, x>> \in Nat \X Nat /\ <<y, x>>[1] < <<y, x>>[2]
    BY <1>1, <1>3
  <2>2. <<y, x>> \in OpToRel(<, Nat)
    BY <2>1, Zenon DEF OpToRel
  <2> QED
    BY <1>2, <2>2
<1>4. \A y \in S : x <= y
  BY <1>1, <1>3
<1> QED
  BY <1>4

-----------------------------------------------------------------------------
(* Finding the Pico.                                                       *)

LEMMA SortsThen ==
  ASSUME SetupInv, NEW c \in Processes
  PROVE  /\ my[c] \in Doings
         /\ shown \subseteq Picos /\ Running \subseteq Picos /\ Mounts \subseteq Picos
         /\ WorldTypeOK /\ FileTypeOK /\ {} \in SUBSET Picos
  BY DEF SetupInv, Plainly, Sorts, WorldTypeOK, Running, Mounts

LEMMA StartKeeps ==
  ASSUME SetupInv, NEW c \in Processes, NEW f \in Flows, Start(c, f)
  PROVE  SetupInv'
<1> DEFINE r == [Idle EXCEPT !.flow = f, !.at = "begin"]
<1>1. r \in Doings /\ r.at = "begin"
  BY DEF Idle, Doings, Steps, Afters
<1>2. my' = [my EXCEPT ![c] = r] /\ my[c].at = "idle"
  BY DEF Start
<1> HIDE DEF r
<1>3. /\ UNCHANGED <<mode, creds, key, shown, holder, since>> /\ NoFile /\ Quiet
      /\ moves' \in 0 .. MaxMoves
  BY SetupFlowsAssumption DEF Start, SetupInv, Plainly, Sorts, WorldTypeOK
<1>4. WorldTypeOK' /\ UNCHANGED <<file, copy, made, fresh, clash, strayBounce, strayName>>
  BY <1>3 DEF SetupInv, Plainly, Sorts, WorldTypeOK, NoFile, Quiet, fileVars, history
<1>5. Plain(c, r)
  BY <1>1, <1>2, <1>3, <1>4, Turn DEF Using, Awaits
<1> QED
  BY <1>1, <1>5, PlainKeeps

LEMMA FindKeeps ==
  ASSUME SetupInv, NEW c \in Processes,
         Baseline(c) \/ HoldBootsel(c) \/ PortFound(c) \/ ProbeNewcomer(c)
         \/ RebootRunning(c)
  PROVE  SetupInv'
<1>0. /\ my[c] \in Doings /\ {} \in SUBSET Picos
      /\ shown \subseteq Picos /\ Running \subseteq Picos
  BY SortsThen
<1>1. CASE Baseline(c)
  <2>1. PICK heard \in Baselines :
            my' = [my EXCEPT ![c].at = "flash", ![c].seen = heard]
    BY <1>1 DEF Baseline
  <2>4. heard \in SUBSET Picos
    BY <2>1, SortsThen DEF Baselines
  <2> DEFINE r == [my[c] EXCEPT !.at = "flash", !.seen = heard]
  <2>2. r \in Doings /\ r.at = "flash"
    BY <2>4, <1>0 DEF Doings, Steps
  <2>3. my' = [my EXCEPT ![c] = r]
    BY <2>1
  <2> HIDE DEF r
  <2> QED
    BY <1>1, <2>2, <2>3, Alone DEF Baseline, At, Using, Awaits
<1>2. CASE HoldBootsel(c)
  <2>1. PICK p \in Picos : Becomes(p, "bootsel")
    BY <1>2 DEF HoldBootsel
  <2>2. my' = [my EXCEPT ![c] = my[c]] /\ my[c] \in Doings
    BY <1>2, SortsThen DEF HoldBootsel, SetupInv, Plainly, Sorts
  <2> QED
    BY <1>2, <2>1, <2>2, Moved DEF HoldBootsel, At, Using, Awaits, Modes
<1>3. CASE PortFound(c)
  <2> DEFINE r == [my[c] EXCEPT !.at = "open", !.port = FirstPort,
                                !.flag = FALSE, !.seen = {}]
  <2>1. FirstPort \in Picos
    BY <1>3, SortsThen, FirstIn DEF PortFound, FirstPort
  <2>2. r \in Doings /\ r.at = "open"
    BY <2>1, <1>0 DEF Doings, Steps
  <2>3. my' = [my EXCEPT ![c] = r]
    BY <1>3 DEF PortFound
  <2> HIDE DEF r
  <2> QED
    BY <1>3, <2>2, <2>3, Alone DEF PortFound, At, Using, Awaits
<1>4. CASE ProbeNewcomer(c)
  <2>1. PICK p : RequestSetup(p)
    BY <1>4 DEF ProbeNewcomer
  <2> DEFINE r == [my[c] EXCEPT !.flag = TRUE]
  <2>2. r \in Doings /\ r.at = my[c].at
    BY SortsThen DEF Doings
  <2>3. my' = [my EXCEPT ![c] = r]
    BY <1>4 DEF ProbeNewcomer
  <2> HIDE DEF r
  <2> QED
    BY <1>4, <2>1, <2>2, <2>3, Requested DEF ProbeNewcomer, At, Using, Awaits
<1>5. CASE RebootRunning(c)
  <2>1. PICK p : RequestSetup(p)
    BY <1>5 DEF RebootRunning
  <2> DEFINE r == [my[c] EXCEPT !.at = "wait"]
  <2>2. r \in Doings /\ r.at = "wait"
    BY SortsThen DEF Doings, Steps
  <2>3. my' = [my EXCEPT ![c] = r]
    BY <1>5 DEF RebootRunning, Go
  <2> HIDE DEF r
  <2> QED
    BY <1>5, <2>1, <2>2, <2>3, Requested DEF RebootRunning, At, Using, Awaits
<1> QED
  BY <1>1, <1>2, <1>3, <1>4, <1>5

-----------------------------------------------------------------------------
(* Over USB serial.                                                        *)

\* open_named: the port was free, and c held no other.
LEMMA OpenKeeps ==
  ASSUME SetupInv, NEW c \in Processes, Open(c) PROVE SetupInv'
<1> DEFINE r == [my[c] EXCEPT !.at = "opened"]
<1>1. my[c] \in Doings /\ Port(c) \in Picos
  BY SortsThen DEF Open
<1>2. r \in Doings /\ r.at = "opened" /\ r.port = Port(c)
  BY <1>1 DEF Doings, Steps, Port
<1>3. my' = [my EXCEPT ![c] = r] /\ my[c].at = "open"
  BY DEF Open, Go
<1> HIDE DEF r
<1>4. /\ holder' = [holder EXCEPT ![Port(c)] = c]
      /\ UNCHANGED <<mode, creds, key, shown, moves, since>>
      /\ UNCHANGED <<file, copy, made, fresh, clash, strayBounce, strayName>>
  BY DEF Open, NoFile, Quiet, fileVars, history
<1>5. WorldTypeOK'
  BY <1>1, <1>4, SortsThen DEF WorldTypeOK
<1>6. \A p \in Picos : holder[p] # c
  BY <1>3 DEF SetupInv, Plainly, Owners, Using
<1>7. Hands(c, r)
  BY <1>1, <1>2, <1>4, <1>6, SortsThen DEF Hands, Using, WorldTypeOK
<1>8. Plain(c, r)
  BY <1>2, <1>3, <1>4, <1>5, <1>7 DEF Plain, Calm, Awaits
<1> QED
  BY <1>2, <1>8, PlainKeeps

\* Credentials are kept or stored.
LEMMA StoredKeeps ==
  ASSUME SetupInv, NEW c \in Processes, NEW r \in Doings,
         my' = [my EXCEPT ![c] = r], my[c].at = "opened",
         r.at = "pair", r.port = Port(c), creds' \in [Picos -> Creds],
         UNCHANGED <<mode, key, shown, holder, moves, since>>, NoFile, Quiet
  PROVE  SetupInv'
<1>1. WorldTypeOK' /\ UNCHANGED <<file, copy, made, fresh, clash, strayBounce, strayName>>
  BY SortsThen DEF WorldTypeOK, NoFile, Quiet, fileVars, history
<1> QED
  BY <1>1, Turn, PlainKeeps DEF Using, Awaits, Port

LEMMA StoreWifiResult ==
  ASSUME SetupInv, NEW c \in Processes, StoreWifi(c)
  PROVE  creds' \in [Picos -> Creds]
  BY SortsThen DEF StoreWifi, WorldTypeOK, Creds, Typed

\* The write meets a Pico or a dead handle; the port is free in either case.
LEMMA RebootToRunKeeps ==
  ASSUME SetupInv, NEW c \in Processes, RebootToRun(c) PROVE SetupInv'
<1> DEFINE at == IF my[c].flow = "setup" THEN "lan" ELSE "confirm"
           r == [my[c] EXCEPT !.flag = FALSE, !.at = at]
<1>1. my[c] \in Doings
  BY SortsThen
<1>2. at \in Steps /\ at \notin {"send", "save", "fill"}
  BY DEF Steps
<1>3. my' = [my EXCEPT ![c] = r] /\ my[c].at = "reboot"
  BY DEF RebootToRun
<1> HIDE DEF at
<1>4. r \in Doings /\ r.at = at /\ r.flag = FALSE
  BY <1>1, <1>2 DEF Doings
<1> HIDE DEF r
<1>5. /\ UNCHANGED <<creds, key, shown, moves>> /\ since' = since \ {c}
      /\ UNCHANGED <<file, copy, made, fresh, clash, strayBounce, strayName>>
      /\ holder' = [p \in Picos |-> IF holder[p] = c THEN Nobody ELSE holder[p]]
  BY DEF RebootToRun, NoFile, Quiet, fileVars, history, Released
<1>6. mode' \in [Picos -> Modes]
  BY SortsThen DEF RebootToRun, WorldTypeOK, Modes
<1>7. WorldTypeOK'
  BY <1>5, <1>6, SortsThen DEF WorldTypeOK
<1>8. Hands(c, r)
  BY <1>5, SetupFlowsAssumption DEF Hands
<1>9. Plain(c, r)
  BY <1>2, <1>3, <1>4, <1>5, <1>7, <1>8 DEF Plain, Calm, Awaits
<1> QED
  BY <1>4, <1>9, PlainKeeps

LEMMA SerialKeeps ==
  ASSUME SetupInv, NEW c \in Processes,
         Open(c) \/ KeepCreds(c) \/ WizardSetWifi(c) \/ ConfigureSetWifi(c)
         \/ RebootToRun(c)
  PROVE  SetupInv'
<1>0. my[c] \in Doings /\ Running \subseteq Picos /\ WorldTypeOK
  BY SortsThen
<1>1. CASE KeepCreds(c)
  <2> DEFINE r == [my[c] EXCEPT !.at = "pair"]
  <2>1. r \in Doings /\ r.at = "pair" /\ r.port = Port(c)
    BY <1>0 DEF Doings, Steps, Port
  <2>2. my' = [my EXCEPT ![c] = r]
    BY <1>1 DEF KeepCreds, Go
  <2> HIDE DEF r
  <2> QED
    BY <1>0, <1>1, <2>1, <2>2, StoredKeeps
    DEF KeepCreds, At, NoWorld, worldVars, WorldTypeOK
<1>2. CASE WizardSetWifi(c)
  <2> DEFINE r == [my[c] EXCEPT !.at = "pair"]
  <2>1. r \in Doings /\ r.at = "pair" /\ r.port = Port(c)
    BY <1>0 DEF Doings, Steps, Port
  <2>2. my' = [my EXCEPT ![c] = r]
    BY <1>2 DEF WizardSetWifi, Go
  <2> HIDE DEF r
  <2> QED
    BY <1>2, <2>1, <2>2, StoredKeeps, StoreWifiResult DEF WizardSetWifi, StoreWifi
<1>3. CASE ConfigureSetWifi(c)
  <2>1. PICK heard \in SUBSET Running :
            my' = [my EXCEPT ![c].at = "pair", ![c].seen = heard]
    BY <1>3 DEF ConfigureSetWifi
  <2> DEFINE r == [my[c] EXCEPT !.at = "pair", !.seen = heard]
  <2>2. r \in Doings /\ r.at = "pair" /\ r.port = Port(c)
    BY <1>0, <2>1 DEF Doings, Steps, Port
  <2>3. my' = [my EXCEPT ![c] = r]
    BY <2>1
  <2> HIDE DEF r
  <2> QED
    BY <1>3, <2>2, <2>3, StoredKeeps, StoreWifiResult DEF ConfigureSetWifi, StoreWifi
<1> QED
  BY <1>1, <1>2, <1>3, OpenKeeps, RebootToRunKeeps

-----------------------------------------------------------------------------
(* The end of a command.                                                   *)

LEMMA IdleDoing == Idle \in Doings /\ Idle.at = "idle" /\ ~Awaits(Idle)
  BY DEF Idle, Doings, Steps, Afters, Awaits

\* A command that ends inside a save leaves a clash; one that ends elsewhere
\* takes with it only a copy that nothing depended on.
LEMMA EndKeeps ==
  ASSUME SetupInv, NEW c \in Processes, NEW writing \in BOOLEAN,
         End(c), Drop(c, writing), writing \/ my[c].at # "fill",
         ~strayBounce', strayBounce' \in BOOLEAN, strayName' = strayName
  PROVE  SetupInv'
<1>1. /\ my' = [my EXCEPT ![c] = Idle]
      /\ holder' = [p \in Picos |-> IF holder[p] = c THEN Nobody ELSE holder[p]]
      /\ UNCHANGED <<mode, creds, key, shown, moves, since>>
  BY DEF End, Released
<1>2. /\ copy' = [copy EXCEPT ![c] = Default]
      /\ clash' = (clash \/ writing)
      /\ fresh' = IF clash' THEN {} ELSE fresh \ {c}
      /\ UNCHANGED <<file, made>>
  BY DEF Drop, Note
<1>3. WorldTypeOK'
  BY <1>1, SortsThen DEF WorldTypeOK
<1>4. Calm(c, Idle)
  BY <1>1, <1>3, IdleDoing, SetupFlowsAssumption DEF Calm, Hands
<1>5. Default \in Configs
  BY ConfigFileAssumption DEF Default, Configs, Listed
<1>6. FileTypeOK'
  BY <1>2, <1>5, SortsThen DEF FileTypeOK
<1>7. Plainly'
  BY <1>4, <1>6, IdleDoing, CalmKeeps DEF SetupInv, Plainly, Sorts
<1>8. /\ my'[c].at = "idle" /\ \A d \in Processes \ {c} : my'[d] = my[d]
      /\ \A d \in Processes \ {c} : copy'[d] = copy[d]
  BY <1>1, <1>2, IdleDoing DEF SetupInv, Plainly, Sorts, FileTypeOK
<1>9. ASSUME ~clash' PROVE Safe'
  <2>1. Safe /\ my[c].at # "fill" /\ fresh' = fresh \ {c} /\ fresh \subseteq Processes
    BY <1>2, <1>9 DEF SetupInv, Keyed, Plainly, Sorts, FileTypeOK
  <2>2. /\ file' # Torn => Knows(file)' /\ \A d \in fresh' : Keeps(copy[d], file)'
        /\ \A d \in fresh' : Knows(copy[d])'
    BY <1>1, <1>2, <1>8, <2>1 DEF Safe, Knows, Keeps
  <2>3. file' = Torn => \E d \in fresh' : my'[d].at = "fill"
    BY <1>2, <1>8, <2>1 DEF Safe
  <2>4. ASSUME NEW d \in Processes, my'[d].at = "send", Port(d)' \in Picos \ Old
        PROVE  Everywhere(Port(d), copy[d].keys[Port(d)])'
    BY <2>1, <2>4, <1>2, <1>8 DEF Safe, Port, Everywhere
  <2> QED
    BY <2>2, <2>3, <2>4 DEF Safe
<1>10. Keyed'
  BY <1>1, <1>8, <1>9 DEF SetupInv, Keyed, Saving, Port
<1> QED
  BY <1>7, <1>10 DEF SetupInv

\* The ways a command ends.
LEMMA EndsKeep ==
  ASSUME SetupInv, NEW c \in Processes,
         GiveUp(c) \/ DiagRecovery(c) \/ Confirmed(c) \/ Rejoined(c)
         \/ WifiAfter(c) \/ BootselEnds(c) \/ PortsAfter(c)
  PROVE  SetupInv'
<1>1. End(c) /\ Drop(c, FALSE) /\ Quiet
  BY DEF GiveUp, DiagRecovery, Confirmed, Rejoined, WifiAfter, BootselEnds, PortsAfter
<1>2. my[c].at # "fill"
  BY DEF GiveUp, DiagRecovery, Confirmed, Rejoined, WifiAfter, BootselEnds,
         PortsAfter, At
<1>3. ~strayBounce' /\ strayBounce' \in BOOLEAN /\ strayName' = strayName
  BY <1>1 DEF Quiet, history, SetupInv, Plainly, Sorts, Bounces
<1> QED
  BY <1>1, <1>2, <1>3, EndKeeps

LEMMA KillKeeps ==
  ASSUME SetupInv, NEW c \in Processes, Kill(c) PROVE SetupInv'
<1>1. ~strayBounce' /\ strayBounce' \in BOOLEAN /\ strayName' = strayName
  BY DEF Kill, Quiet, history, SetupInv, Plainly, Sorts, Bounces
<1> QED
  BY <1>1, EndKeeps DEF Kill

\* The port that is reported has come up since the reboot.
LEMMA ReportBounceKeeps ==
  ASSUME SetupInv, NEW c \in Processes, ReportBounce(c) PROVE SetupInv'
<1>1. c \in since /\ my[c].at # "fill"
  BY DEF ReportBounce, At, SetupInv, Plainly, Bounces, Awaits
<1>2. ~strayBounce' /\ strayBounce' \in BOOLEAN /\ strayName' = strayName
  BY <1>1 DEF ReportBounce, SetupInv, Plainly, Sorts, Bounces
<1> QED
  BY <1>1, <1>2, EndKeeps DEF ReportBounce

-----------------------------------------------------------------------------
(* Changes of the configuration.                                           *)

LEMMA ReadConfig == SetupInv => Read \in Configs
<1>1. Default \in Configs
  BY ConfigFileAssumption DEF Default, Configs, Listed
<1> QED
  BY <1>1 DEF SetupInv, Plainly, Sorts, FileTypeOK, Read

\* A process loads the file and changes its copy, dropping none of its keys.
LEMMA ChangeKeeps ==
  ASSUME SetupInv, NEW c \in Processes, NEW r \in Doings, NEW cfg \in Configs,
         Calm(c, r), key' = key, UNCHANGED strayBounce, strayName' \in BOOLEAN,
         copy' = [copy EXCEPT ![c] = cfg], Note(fresh \cup {c}, file = Torn),
         file' = file, made' \in 0 .. MaxKeys, my[c].at # "fill",
         \A p \in Picos : Read.keys[p] # 0 => cfg.keys[p] = Read.keys[p],
         \/ r.at = "save"
         \/ r.at = "send" /\ r.port \in Picos /\ Read.keys[r.port] # 0,
         Saving(r) => r.port \in Picos /\ cfg.keys[r.port] # 0
  PROVE  SetupInv'
<1>1. FileTypeOK'
  BY SortsThen DEF FileTypeOK, Note
<1>2. Plainly'
  BY <1>1, CalmKeeps DEF SetupInv, Plainly, Sorts, Bounces
<1>3. /\ my'[c] = r /\ \A d \in Processes \ {c} : my'[d] = my[d]
      /\ copy'[c] = cfg /\ \A d \in Processes \ {c} : copy'[d] = copy[d]
  BY DEF Calm, SetupInv, Plainly, Sorts, FileTypeOK
<1>4. ASSUME ~clash' PROVE Safe'
  <2>1. /\ Safe /\ file # Torn /\ fresh' = fresh \cup {c} /\ fresh \subseteq Processes
        /\ Read = file
    BY <1>4 DEF Note, SetupInv, Keyed, Plainly, Sorts, FileTypeOK, Read
  <2>2. Knows(cfg) /\ Keeps(cfg, file)
    BY <2>1 DEF Safe, Knows, Keeps
  <2>3. /\ file' # Torn => Knows(file)' /\ \A d \in fresh' : Keeps(copy[d], file)'
        /\ \A d \in fresh' : Knows(copy[d])'
    BY <1>3, <2>1, <2>2 DEF Safe, Knows, Keeps
  <2>4. ASSUME NEW d \in Processes, my'[d].at = "send", Port(d)' \in Picos \ Old
        PROVE  Everywhere(Port(d), copy[d].keys[Port(d)])'
    <3>1. CASE d = c
      <4>1. r.port \in Picos \ Old /\ file.keys[r.port] # 0
        BY <1>3, <2>1, <2>4, <3>1 DEF Port
      <4>2. /\ cfg.keys[r.port] = file.keys[r.port]
            /\ \A e \in fresh : copy[e].keys[r.port] = file.keys[r.port]
        BY <2>1, <2>2, <4>1 DEF Safe, Keeps
      <4> QED
        BY <1>3, <2>1, <3>1, <4>1, <4>2 DEF Everywhere, Port
    <3>2. CASE d # c
      <4>1. Everywhere(Port(d), copy[d].keys[Port(d)]) /\ Port(d)' = Port(d)
        BY <1>3, <2>1, <2>4, <3>2 DEF Safe, Port
      <4>2. cfg.keys[Port(d)] = copy[d].keys[Port(d)]
        BY <2>1, <2>2, <2>4, <4>1 DEF Everywhere, Keeps
      <4> QED
        BY <1>3, <2>1, <3>2, <4>1, <4>2 DEF Everywhere
    <3> QED
      BY <3>1, <3>2
  <2> QED
    BY <2>1, <2>3, <2>4 DEF Safe
<1>5. Keyed'
  BY <1>3, <1>4 DEF SetupInv, Keyed, Saving, Port
<1> QED
  BY <1>2, <1>5 DEF SetupInv

\* Steps that leave the world alone.
LEMMA StillCalm ==
  ASSUME SetupInv, NEW c \in Processes, NEW r \in Doings,
         my' = [my EXCEPT ![c] = r], NoWorld,
         ~Using(my[c]) \/ (r.port = Port(c) /\ Using(r)), ~Awaits(r)
  PROVE  Calm(c, r) /\ key' = key /\ holder' = holder
  BY SortsThen
  DEF NoWorld, worldVars, WorldTypeOK, Calm, Hands, SetupInv, Plainly, Owners, Port

\* flash_uf2_to_mount: last_uf2 is none of the keys.
LEMMA FlashDriveKeeps ==
  ASSUME SetupInv, NEW c \in Processes, FlashDrive(c) PROVE SetupInv'
<1>0. my[c] \in Doings /\ WorldTypeOK /\ Read \in Configs
  BY SortsThen, ReadConfig
<1>1. PICK p \in Mounts :
          /\ Becomes(p, "reset")
          /\ my' = [my EXCEPT ![c].at = "save", ![c].todo = @ \ {p},
                       ![c].then = IF my[c].flow = "setup" THEN "wait"
                                   ELSE IF my[c].todo \subseteq {p} THEN "idle"
                                   ELSE "flash"]
  BY DEF FlashDrive
<1> DEFINE then == IF my[c].flow = "setup" THEN "wait"
                   ELSE IF my[c].todo \subseteq {p} THEN "idle" ELSE "flash"
           left == my[c].todo \ {p}
           r == [my[c] EXCEPT !.at = "save", !.todo = left, !.then = then]
<1>2. "save" \in Steps /\ then \in Afters /\ then # "send"
  BY DEF Steps, Afters
<1>3. my' = [my EXCEPT ![c] = r]
  BY <1>1
<1>9. left \in SUBSET Picos
  BY <1>0 DEF Doings
<1> HIDE DEF then, left
<1>4. r \in Doings /\ r.at = "save" /\ r.then # "send"
  BY <1>0, <1>2, <1>9 DEF Doings
<1> HIDE DEF r
<1>5. /\ UNCHANGED <<creds, key, shown, moves, strayBounce, strayName>>
      /\ Load(c, Read) /\ my[c].at = "flash"
  BY DEF FlashDrive, Quiet, history
<1>6. /\ WorldTypeOK' /\ since' = since
      /\ \A q \in Picos : holder'[q] \in {holder[q], Nobody}
  BY <1>0, <1>1, <1>5, BecomesResult DEF WorldTypeOK, Modes
<1>7. Hands(c, r)
  BY <1>5, <1>6, SetupFlowsAssumption DEF Hands, SetupInv, Plainly, Owners, Using
<1>8. Calm(c, r)
  BY <1>3, <1>4, <1>5, <1>6, <1>7 DEF Calm, Awaits
<1> QED
  BY <1>0, <1>4, <1>5, <1>8, ChangeKeeps
  DEF Load, Saving, SetupInv, Plainly, Sorts, FileTypeOK

\* The name changes the list.
LEMMA NamePicoKeeps ==
  ASSUME SetupInv, NEW c \in Processes, NamePico(c) PROVE SetupInv'
<1>0. my[c] \in Doings /\ Read \in Configs
  BY SortsThen, ReadConfig
<1>1. PICK named \in BOOLEAN :
          /\ Load(c, Remember(Read, my[c].found, named))
          /\ strayName' = (strayName \/ (named /\ my[c].found # Port(c)))
  BY DEF NamePico
<1> DEFINE cfg == Remember(Read, my[c].found, named)
           r == [my[c] EXCEPT !.at = "save", !.then = "idle"]
<1>2. cfg \in Configs /\ cfg.keys = Read.keys
  <2>1. my[c].found \in Picos \cup {Nobody}
    BY <1>0 DEF Doings
  <2> QED
    BY <1>0, <2>1 DEF Remember, Configs, Listed
<1> HIDE DEF cfg
<1>3. r \in Doings /\ r.at = "save" /\ r.then = "idle"
  BY <1>0 DEF Doings, Steps, Afters
<1>4. my' = [my EXCEPT ![c] = r] /\ my[c].at = "name"
  BY DEF NamePico, At
<1> HIDE DEF r
<1>5. Calm(c, r) /\ key' = key /\ UNCHANGED strayBounce
  BY <1>3, <1>4, StillCalm DEF NamePico, Using, Awaits
<1>6. strayName' \in BOOLEAN
  BY <1>1 DEF SetupInv, Plainly, Sorts
<1> QED
  BY <1>1, <1>2, <1>3, <1>4, <1>5, <1>6, ChangeKeeps
  DEF Load, cfg, Saving, SetupInv, Plainly, Sorts, FileTypeOK

\* provision with a key on file: nothing is saved, the key goes out at once.
LEMMA PairKnownKeeps ==
  ASSUME SetupInv, NEW c \in Processes, PairKnown(c) PROVE SetupInv'
<1>0. my[c] \in Doings /\ Read \in Configs
  BY SortsThen, ReadConfig
<1> DEFINE r == [my[c] EXCEPT !.at = "send", !.flag = FALSE]
<1>1. r \in Doings /\ r.at = "send" /\ r.port = Port(c)
  BY <1>0 DEF Doings, Steps, Port
<1>2. my' = [my EXCEPT ![c] = r] /\ my[c].at = "pair" /\ Port(c) \in Picos
  BY <1>0 DEF PairKnown, Holds, Port, Doings
<1> HIDE DEF r
<1>3. Calm(c, r) /\ key' = key /\ UNCHANGED <<strayBounce, strayName>>
  BY <1>1, <1>2, StillCalm DEF PairKnown, Quiet, history, Using, Awaits
<1> QED
  BY <1>0, <1>1, <1>2, <1>3, ChangeKeeps
  DEF PairKnown, Load, Saving, SetupInv, Plainly, Sorts, FileTypeOK

\* A new key takes the place of none.
LEMMA PairNewKeeps ==
  ASSUME SetupInv, NEW c \in Processes, PairNew(c) PROVE SetupInv'
<1>0. my[c] \in Doings /\ Read \in Configs /\ FileTypeOK
  BY SortsThen, ReadConfig
<1> DEFINE cfg == SetKey(Read, Port(c), made')
           r == [my[c] EXCEPT !.at = "save", !.then = "send", !.flag = TRUE]
<1>1. made' \in 0 .. MaxKeys /\ made' # 0
  BY <1>0, ConfigFileAssumption DEF PairNew, FileTypeOK
<1>2. my' = [my EXCEPT ![c] = r] /\ my[c].at = "pair" /\ Port(c) \in Picos
  BY <1>0 DEF PairNew, Holds, Port, Doings
<1>3. r \in Doings /\ r.at = "save" /\ r.then = "send" /\ r.port = Port(c)
  BY <1>0 DEF Doings, Steps, Afters, Port
<1>4. /\ cfg \in Configs /\ cfg.keys[Port(c)] = made'
      /\ \A p \in Picos : p # Port(c) => cfg.keys[p] = Read.keys[p]
  BY <1>0, <1>1, <1>2 DEF SetKey, Configs
<1>5. \A p \in Picos : Read.keys[p] # 0 => cfg.keys[p] = Read.keys[p]
  BY <1>4 DEF PairNew
<1>6. /\ copy' = [copy EXCEPT ![c] = cfg] /\ Note(fresh \cup {c}, file = Torn)
      /\ file' = file
  BY DEF PairNew
<1> HIDE DEF r, cfg
<1>7. Calm(c, r) /\ key' = key /\ UNCHANGED <<strayBounce, strayName>>
  BY <1>2, <1>3, StillCalm DEF PairNew, Quiet, history, Using, Awaits
<1> QED
  BY <1>1, <1>2, <1>3, <1>4, <1>5, <1>6, <1>7, ChangeKeeps
  DEF SetupInv, Plainly, Sorts

\* The Pico gets a key that the file has, or the copy on its way to it.
LEMMA SendKeyKeeps ==
  ASSUME SetupInv, NEW c \in Processes, SendKey(c) PROVE SetupInv'
<1>0. my[c] \in Doings /\ FileTypeOK /\ WorldTypeOK /\ copy[c] \in Configs
  BY SortsThen DEF FileTypeOK
<1> DEFINE r == [my[c] EXCEPT !.at = "reboot"]
           k == copy[c].keys[Port(c)]
<1>1. r \in Doings /\ r.at = "reboot" /\ r.port = Port(c)
  BY <1>0 DEF Doings, Steps, Port
<1>2. /\ my' = [my EXCEPT ![c] = r] /\ my[c].at = "send"
      /\ Port(c) \in Picos \ Old /\ k \in 0 .. MaxKeys
  BY <1>0 DEF SendKey, Go, Holds, Port, Doings, Configs
<1> HIDE DEF r
<1>3. /\ key' = [key EXCEPT ![Port(c)] = k]
      /\ UNCHANGED <<mode, creds, shown, holder, moves, since>>
      /\ UNCHANGED <<file, copy, made, fresh, clash, strayBounce, strayName>>
  BY DEF SendKey, NoFile, fileVars, Quiet, history
<1>4. WorldTypeOK'
  BY <1>0, <1>2, <1>3 DEF WorldTypeOK
<1>5. Calm(c, r)
  BY <1>1, <1>2, <1>3, <1>4 DEF Calm, Hands, Using, Awaits, SetupInv, Plainly,
     Owners, Port
<1>6. FileTypeOK'
  BY <1>0, <1>3 DEF FileTypeOK
<1>7. Plainly'
  BY <1>1, <1>3, <1>5, <1>6, CalmKeeps DEF SetupInv, Plainly, Sorts, Bounces
<1>8. my'[c] = r /\ \A d \in Processes \ {c} : my'[d] = my[d]
  BY <1>2 DEF SetupInv, Plainly, Sorts
<1>9. ASSUME ~clash' PROVE Safe'
  <2>1. Safe /\ Everywhere(Port(c), k)
    BY <1>2, <1>3, <1>9 DEF SetupInv, Keyed, Safe
  <2>2. \A p \in Picos : p # Port(c) => key'[p] = key[p]
    BY <1>3, <1>0 DEF WorldTypeOK
  <2>3. key'[Port(c)] = k
    BY <1>0, <1>2, <1>3 DEF WorldTypeOK
  <2>4. /\ file' # Torn => Knows(file)'
        /\ \A d \in fresh' : Knows(copy[d])'
    BY <1>2, <1>3, <2>1, <2>2, <2>3 DEF Safe, Knows, Everywhere
  <2>5. file' # Torn => \A d \in fresh' : Keeps(copy[d], file)'
    BY <1>3, <2>1 DEF Safe, Keeps
  <2>6. file' = Torn => \E d \in fresh' : my'[d].at = "fill"
    BY <1>0, <1>2, <1>3, <1>8, <2>1 DEF Safe, FileTypeOK
  <2>7. ASSUME NEW d \in Processes, my'[d].at = "send", Port(d)' \in Picos \ Old
        PROVE  Everywhere(Port(d), copy[d].keys[Port(d)])'
    BY <1>1, <1>3, <1>8, <2>1, <2>7 DEF Safe, Port, Everywhere
  <2> QED
    BY <2>4, <2>5, <2>6, <2>7 DEF Safe
<1>10. Keyed'
  <2>1. \A p \in Old : key'[p] = 0
    BY <1>0, <1>2, <1>3, SetupFlowsAssumption DEF SetupInv, Keyed, WorldTypeOK
  <2>2. ASSUME NEW d \in Processes, Saving(my'[d])
        PROVE  Port(d)' \in Picos /\ copy'[d].keys[Port(d)'] # 0
    BY <1>1, <1>3, <1>8, <2>2 DEF SetupInv, Keyed, Saving, Port
  <2> QED
    BY <1>9, <2>1, <2>2 DEF Keyed
<1> QED
  BY <1>7, <1>10 DEF SetupInv

\* Firmware that knows no keys: the one made for it is cleared in the copy,
\* and no Pico obeys it.
LEMMA KeyRefusedKeeps ==
  ASSUME SetupInv, NEW c \in Processes, KeyRefused(c) PROVE SetupInv'
<1>0. /\ my[c] \in Doings /\ FileTypeOK /\ WorldTypeOK /\ copy[c] \in Configs
      /\ ConfigFileAssumption /\ SetupFlowsAssumption
  BY SortsThen, ConfigFileAssumption, SetupFlowsAssumption DEF FileTypeOK
<1> DEFINE cfg == IF my[c].flag THEN ClearKey(copy[c], Port(c)) ELSE copy[c]
           r == IF my[c].flag THEN [my[c] EXCEPT !.at = "save", !.then = "reboot"]
                ELSE [my[c] EXCEPT !.at = "reboot"]
<1>1. /\ r \in Doings /\ r.port = Port(c)
      /\ r.at = "reboot" \/ (r.at = "save" /\ r.then = "reboot")
  BY <1>0 DEF Doings, Steps, Afters, Port
<1>2. /\ my' = [my EXCEPT ![c] = r] /\ copy' = [copy EXCEPT ![c] = cfg]
      /\ my[c].at = "send" /\ Port(c) \in Old
  BY <1>0 DEF KeyRefused, Go, FileTypeOK
<1>3. /\ cfg \in Configs
      /\ \A p \in Picos \ Old : cfg.keys[p] = copy[c].keys[p]
      /\ \A p \in Picos : p # Port(c) => cfg.keys[p] = copy[c].keys[p]
  BY <1>0, <1>2 DEF ClearKey, Configs, SetupFlowsAssumption, ConfigFileAssumption
<1> HIDE DEF cfg, r
<1>4. UNCHANGED <<file, made, fresh, clash, strayBounce, strayName>>
  BY DEF KeyRefused, Quiet, history
<1>5. Calm(c, r) /\ key' = key
  BY <1>1, <1>2, StillCalm DEF KeyRefused, Using, Awaits
<1>6. FileTypeOK'
  BY <1>0, <1>2, <1>3, <1>4 DEF FileTypeOK
<1>7. Plainly'
  BY <1>1, <1>4, <1>5, <1>6, CalmKeeps DEF SetupInv, Plainly, Sorts, Bounces
<1>8. /\ my'[c] = r /\ \A d \in Processes \ {c} : my'[d] = my[d]
      /\ copy'[c] = cfg /\ \A d \in Processes \ {c} : copy'[d] = copy[d]
  BY <1>2 DEF SetupInv, Plainly, Sorts, FileTypeOK
<1>9. ASSUME ~clash' PROVE Safe'
  <2>1. Safe /\ fresh \subseteq Processes /\ \A p \in Old : key[p] = 0
    BY <1>0, <1>4, <1>9 DEF SetupInv, Keyed, FileTypeOK
  <2>2. /\ file' # Torn => Knows(file)'
        /\ \A d \in fresh' : Knows(copy[d])'
    BY <1>2, <1>3, <1>4, <1>5, <1>8, <2>1 DEF Safe, Knows
  <2>3. file' # Torn => \A d \in fresh' : Keeps(copy[d], file)'
    BY <1>3, <1>4, <1>8, <2>1 DEF Safe, Keeps
  <2>4. file' = Torn => \E d \in fresh' : my'[d].at = "fill"
    BY <1>2, <1>4, <1>8, <2>1 DEF Safe
  <2>5. ASSUME NEW d \in Processes, my'[d].at = "send", Port(d)' \in Picos \ Old
        PROVE  Everywhere(Port(d), copy[d].keys[Port(d)])'
    <3>1. d # c /\ Port(d)' = Port(d) /\ copy'[d] = copy[d]
      BY <1>1, <1>8, <2>5 DEF Port
    <3>2. Everywhere(Port(d), copy[d].keys[Port(d)])
      BY <1>8, <2>1, <2>5, <3>1 DEF Safe
    <3> QED
      BY <1>3, <1>4, <1>8, <2>1, <2>5, <3>1, <3>2 DEF Everywhere
  <2> QED
    BY <2>2, <2>3, <2>4, <2>5 DEF Safe
<1>10. Keyed'
  <2>1. \A p \in Old : key'[p] = 0
    BY <1>5 DEF SetupInv, Keyed
  <2>2. ASSUME NEW d \in Processes, Saving(my'[d])
        PROVE  Port(d)' \in Picos /\ copy'[d].keys[Port(d)'] # 0
    BY <1>1, <1>8, <2>2 DEF SetupInv, Keyed, Saving, Port
  <2> QED
    BY <1>9, <2>1, <2>2 DEF Keyed
<1> QED
  BY <1>7, <1>10 DEF SetupInv

-----------------------------------------------------------------------------
(* config::save in its two halves.                                         *)

\* A file emptied over no other save is about to be filled again.
LEMMA SaveOpenKeeps ==
  ASSUME SetupInv, NEW c \in Processes, SaveOpen(c) PROVE SetupInv'
<1>0. my[c] \in Doings /\ FileTypeOK
  BY SortsThen
<1> DEFINE r == [my[c] EXCEPT !.at = "fill"]
<1>1. r \in Doings /\ r.port = Port(c) /\ r.at = "fill" /\ r.then = my[c].then
  BY <1>0 DEF Doings, Steps, Port
<1>2. my' = [my EXCEPT ![c] = r] /\ my[c].at = "save"
  BY DEF SaveOpen, Go
<1> HIDE DEF r
<1>3. /\ UNCHANGED <<copy, made, strayBounce, strayName>> /\ file' = Torn
      /\ clash' = (clash \/ c \notin fresh)
      /\ fresh' = IF clash' THEN {} ELSE fresh
  BY DEF SaveOpen, Truncate, Note, Quiet, history
<1>4. Calm(c, r) /\ key' = key
  BY <1>1, <1>2, StillCalm DEF SaveOpen, Using, Awaits
<1>5. FileTypeOK'
  BY <1>0, <1>3 DEF FileTypeOK
<1>6. Plainly'
  BY <1>1, <1>3, <1>4, <1>5, CalmKeeps DEF SetupInv, Plainly, Sorts, Bounces
<1>7. my'[c] = r /\ \A d \in Processes \ {c} : my'[d] = my[d]
  BY <1>2 DEF SetupInv, Plainly, Sorts
<1>8. ASSUME ~clash' PROVE Safe'
  <2>1. Safe /\ c \in fresh /\ fresh' = fresh
    BY <1>3, <1>8 DEF SetupInv, Keyed
  <2>2. \A d \in fresh' : Knows(copy[d])'
    BY <1>3, <1>4, <2>1 DEF Safe, Knows
  <2>3. \E d \in fresh' : my'[d].at = "fill"
    BY <1>1, <1>7, <2>1
  <2>4. ASSUME NEW d \in Processes, my'[d].at = "send", Port(d)' \in Picos \ Old
        PROVE  Everywhere(Port(d), copy[d].keys[Port(d)])'
    BY <1>1, <1>3, <1>7, <2>1, <2>4 DEF Safe, Port, Everywhere
  <2> QED
    BY <1>3, <2>2, <2>3, <2>4 DEF Safe
<1>9. Keyed'
  <2>1. \A p \in Old : key'[p] = 0
    BY <1>4 DEF SetupInv, Keyed
  <2>2. ASSUME NEW d \in Processes, Saving(my'[d])
        PROVE  Port(d)' \in Picos /\ copy'[d].keys[Port(d)'] # 0
    BY <1>1, <1>2, <1>3, <1>7, <2>2 DEF SetupInv, Keyed, Saving, Port
  <2> QED
    BY <1>8, <2>1, <2>2 DEF Keyed
<1> QED
  BY <1>6, <1>9 DEF SetupInv

\* A save that clashes with none outruns every other copy.
LEMMA SaveFillKeeps ==
  ASSUME SetupInv, NEW c \in Processes, SaveFill(c) PROVE SetupInv'
<1>0. my[c] \in Doings /\ FileTypeOK /\ WorldTypeOK /\ copy[c] \in Configs
  BY SortsThen DEF FileTypeOK
<1> DEFINE r == IF my[c].then = "idle" THEN Idle
                ELSE [my[c] EXCEPT !.at = my[c].then]
<1>1. /\ r \in Doings /\ r.at = my[c].then /\ ~Awaits(r) /\ ~Saving(r)
      /\ r.at # "idle" => r.port = Port(c)
  <2>1. my[c].then \in Afters /\ my[c].then \in Steps
    BY <1>0 DEF Doings, Afters, Steps
  <2>2. [my[c] EXCEPT !.at = my[c].then] \in Doings
    BY <1>0, <2>1 DEF Doings
  <2>3. /\ [my[c] EXCEPT !.at = my[c].then].at = my[c].then
        /\ [my[c] EXCEPT !.at = my[c].then].port = Port(c)
    BY <1>0 DEF Doings, Port
  <2> QED
    BY <2>1, <2>2, <2>3, IdleDoing DEF Afters, Awaits, Saving
<1>2. my' = [my EXCEPT ![c] = r] /\ my[c].at = "fill"
  BY DEF SaveFill, Go
<1> HIDE DEF r
<1>3. /\ UNCHANGED <<copy, made, strayBounce, strayName>> /\ file' = copy[c]
      /\ clash' = (clash \/ c \notin fresh)
      /\ fresh' = IF clash' THEN {} ELSE fresh \cap {c}
      /\ UNCHANGED <<mode, creds, key, shown, moves, since>>
  BY DEF SaveFill, Fill, Note, Quiet, history
<1>4. /\ holder' \in [Picos -> Processes \cup {Nobody}]
      /\ \A p \in Picos : holder'[p] \in {holder[p], Nobody}
      /\ my[c].then = "idle" => \A p \in Picos : holder'[p] # c
  BY <1>0, SetupFlowsAssumption DEF SaveFill, Released, WorldTypeOK
<1>5. WorldTypeOK'
  BY <1>0, <1>3, <1>4 DEF WorldTypeOK
<1>6. Hands(c, r)
  <2> SUFFICES ASSUME NEW p \in Picos
               PROVE  /\ \A d \in Processes \ {c} : holder'[p] = d => holder[p] = d
                      /\ holder'[p] = c => r.port = p /\ Using(r)
    BY DEF Hands
  <2>1. \A d \in Processes : holder'[p] = d => holder[p] = d
    BY <1>4, SetupFlowsAssumption
  <2>2. ASSUME holder'[p] = c PROVE r.port = p /\ Using(r)
    <3>1. my[c].port = p /\ my[c].then \in {"send", "reboot"}
      BY <1>2, <1>4, <2>1, <2>2 DEF SetupInv, Plainly, Owners, Using
    <3> QED
      BY <1>1, <3>1 DEF Using, Port
  <2> QED
    BY <2>1, <2>2
<1>7. Calm(c, r)
  BY <1>1, <1>2, <1>3, <1>5, <1>6 DEF Calm
<1>8. FileTypeOK'
  BY <1>0, <1>3 DEF FileTypeOK
<1>9. Plainly'
  BY <1>1, <1>3, <1>7, <1>8, CalmKeeps DEF SetupInv, Plainly, Sorts, Bounces
<1>10. my'[c] = r /\ \A d \in Processes \ {c} : my'[d] = my[d]
  BY <1>2 DEF SetupInv, Plainly, Sorts
<1>11. ASSUME ~clash' PROVE Safe'
  <2>1. Safe /\ c \in fresh /\ fresh' = {c} /\ file' = copy'[c] /\ file' # Torn
    BY <1>0, <1>3, <1>11, SetupFlowsAssumption DEF SetupInv, Keyed
  <2>2. Knows(copy[c])' /\ Keeps(copy[c], file)'
    BY <1>3, <2>1 DEF Safe, Knows, Keeps
  <2>3. ASSUME NEW d \in Processes, my'[d].at = "send", Port(d)' \in Picos \ Old
        PROVE  Everywhere(Port(d), copy[d].keys[Port(d)])'
    <3>1. CASE d = c
      <4>1. Saving(my[c]) /\ Port(c)' = Port(c)
        BY <1>1, <1>2, <1>10, <2>3, <3>1 DEF Saving, Port
      <4>2. copy[c].keys[Port(c)] # 0
        BY <4>1 DEF SetupInv, Keyed
      <4> QED
        BY <1>3, <2>1, <3>1, <4>1, <4>2 DEF Everywhere
    <3>2. CASE d # c
      <4>1. Everywhere(Port(d), copy[d].keys[Port(d)]) /\ Port(d)' = Port(d)
        BY <1>10, <2>1, <2>3, <3>2 DEF Safe, Port
      <4> QED
        BY <1>3, <2>1, <4>1 DEF Everywhere
    <3> QED
      BY <3>1, <3>2
  <2> QED
    BY <1>3, <2>1, <2>2, <2>3 DEF Safe, Knows
<1>12. Keyed'
  <2>1. \A p \in Old : key'[p] = 0
    BY <1>3 DEF SetupInv, Keyed
  <2>2. ASSUME NEW d \in Processes, Saving(my'[d])
        PROVE  Port(d)' \in Picos /\ copy'[d].keys[Port(d)'] # 0
    BY <1>1, <1>3, <1>10, <2>2 DEF SetupInv, Keyed, Saving, Port
  <2> QED
    BY <1>11, <2>1, <2>2 DEF Keyed
<1> QED
  BY <1>9, <1>12 DEF SetupInv

-----------------------------------------------------------------------------
(* After the reboot.                                                       *)

LEMMA AfterKeeps ==
  ASSUME SetupInv, NEW c \in Processes,
         LanAnswer(c) \/ LanTimeout(c) \/ ManualAddress(c) \/ NoPort(c)
  PROVE  SetupInv'
<1>0. my[c] \in Doings /\ Running \subseteq Picos
  BY SortsThen
<1>1. CASE LanAnswer(c) \/ ManualAddress(c)
  <2>1. PICK p \in Running : my' = [my EXCEPT ![c].at = "name", ![c].found = p]
    BY <1>1 DEF LanAnswer, ManualAddress
  <2> DEFINE r == [my[c] EXCEPT !.at = "name", !.found = p]
  <2>2. r \in Doings /\ r.at = "name"
    BY <1>0 DEF Doings, Steps
  <2>3. my' = [my EXCEPT ![c] = r]
    BY <2>1
  <2> HIDE DEF r
  <2> QED
    BY <1>1, <2>2, <2>3, Alone DEF LanAnswer, ManualAddress, At, Using, Awaits
<1>2. CASE LanTimeout(c)
  <2> DEFINE r == [my[c] EXCEPT !.at = "address"]
  <2>1. r \in Doings /\ r.at = "address"
    BY <1>0 DEF Doings, Steps
  <2>2. my' = [my EXCEPT ![c] = r]
    BY <1>2 DEF LanTimeout, Go
  <2> HIDE DEF r
  <2> QED
    BY <1>2, <2>1, <2>2, Alone DEF LanTimeout, At, Using, Awaits
<1>3. CASE NoPort(c)
  <2> DEFINE r == [my[c] EXCEPT !.flag = TRUE]
  <2>1. r \in Doings /\ r.at = my[c].at
    BY <1>0 DEF Doings
  <2>2. my' = [my EXCEPT ![c] = r]
    BY <1>3 DEF NoPort
  <2> HIDE DEF r
  <2> QED
    BY <1>3, <2>1, <2>2, Alone DEF NoPort, At, Using
<1> QED
  BY <1>1, <1>2, <1>3

-----------------------------------------------------------------------------
(* Many Picos at once.                                                     *)

\* A round with one Pico done.
LEMMA DoneResult ==
  ASSUME SetupInv, NEW c \in Processes, NEW p, NEW at \in {"after"}, Done(c, p, at)
  PROVE  \E r \in Doings : my' = [my EXCEPT ![c] = r] /\ r.at \in {"each", "after"}
<1>0. my[c] \in Doings
  BY SortsThen
<1> DEFINE next == IF my[c].todo = {p} THEN at ELSE "each"
           left == my[c].todo \ {p}
           r == [my[c] EXCEPT !.todo = left, !.at = next]
<1>1. next \in Steps /\ next \in {"each", "after"} /\ left \in SUBSET Picos
  BY <1>0 DEF Steps, Doings
<1>2. my' = [my EXCEPT ![c] = r]
  BY DEF Done
<1> HIDE DEF next, left
<1>3. r \in Doings /\ r.at = next
  BY <1>0, <1>1 DEF Doings
<1> HIDE DEF r
<1> QED
  BY <1>1, <1>2, <1>3

\* Lists of ports, of Picos and of drives.
LEMMA ListKeeps ==
  ASSUME SetupInv, NEW c \in Processes,
         NEW at \in {"each", "flash"}, NEW seen \in SUBSET Picos,
         NEW todo \in SUBSET Picos,
         my' = [my EXCEPT ![c].at = at, ![c].todo = todo, ![c].seen = seen],
         my[c].at \in {"begin", "each"}, NoWorld, NoFile, Quiet
  PROVE  SetupInv'
<1> DEFINE r == [my[c] EXCEPT !.at = at, !.todo = todo, !.seen = seen]
<1>1. my[c] \in Doings /\ at \in Steps
  BY SortsThen DEF Steps
<1>2. r \in Doings /\ r.at = at
  BY <1>1 DEF Doings
<1>3. my' = [my EXCEPT ![c] = r]
  OBVIOUS
<1> HIDE DEF r
<1> QED
  BY <1>2, <1>3, Alone DEF Using, Awaits

LEMMA PortsKeep ==
  ASSUME SetupInv, NEW c \in Processes, Ports(c) PROVE SetupInv'
<1>0. shown \subseteq Picos /\ Running \subseteq Picos /\ Mounts \subseteq Picos
  BY SortsThen
<1>1. PICK picked \in PickedPorts :
          \E before \in CASE my[c].flow = "to_wifi" -> SUBSET Running
                          [] my[c].flow = "flash" -> {{}}
                          [] OTHER -> {Mounts} :
              my' = [my EXCEPT ![c].at = "each", ![c].todo = picked,
                               ![c].seen = before]
  BY DEF Ports
<1>2. PICK before \in CASE my[c].flow = "to_wifi" -> SUBSET Running
                        [] my[c].flow = "flash" -> {{}}
                        [] OTHER -> {Mounts} :
          my' = [my EXCEPT ![c].at = "each", ![c].todo = picked,
                           ![c].seen = before]
  BY <1>1
<1>3. picked \in SUBSET Picos
  BY <1>0, <1>1 DEF PickedPorts
<1>4. before \in SUBSET Picos
  BY <1>0, <1>2
<1> QED
  BY <1>2, <1>3, <1>4, ListKeeps DEF Ports

\* A Pico of a list boots: back to run mode, or into its boot loader.
LEMMA PortKeeps ==
  ASSUME SetupInv, NEW c \in Processes,
         (\E p \in Picos : RecoverPort(c, p) \/ WifiPort(c, p)) \/ BootselPort(c)
  PROVE  SetupInv'
<1>0. my[c] \in Doings
  BY SortsThen
<1>1. ASSUME NEW p \in Picos, RunPort(c, p) PROVE SetupInv'
  <2>1. PICK r \in Doings : my' = [my EXCEPT ![c] = r] /\ r.at \in {"each", "after"}
    BY <1>1, DoneResult DEF RunPort
  <2> QED
    BY <1>1, <2>1, Moved DEF RunPort, Using, Awaits, Modes
<1>2. CASE BootselPort(c)
  <2> DEFINE p == Next1(my[c].todo)
             left == my[c].todo \ {p}
             drives == IF my[c].flow = "flash" THEN my[c].seen \cup {p}
                       ELSE my[c].seen
             r == [my[c] EXCEPT !.todo = left, !.seen = drives]
  <2>1. my[c].todo \subseteq Picos /\ my[c].todo # {} /\ my[c].at = "each"
    BY <1>0, <1>2 DEF Doings, BootselPort
  <2>2. p \in Picos
    BY <2>1, FirstIn DEF Next1
  <2>3. my' = [my EXCEPT ![c] = r] /\ Becomes(p, "bootsel")
    BY <1>2 DEF BootselPort
  <2> HIDE DEF p
  <2>4. left \in SUBSET Picos /\ drives \in SUBSET Picos
    BY <1>0, <2>2 DEF Doings
  <2> HIDE DEF left, drives
  <2>5. r \in Doings /\ r.at = my[c].at
    BY <1>0, <2>4 DEF Doings
  <2> HIDE DEF r
  <2> QED
    BY <1>2, <2>1, <2>3, <2>5, Moved DEF BootselPort, Using, Awaits, Modes
<1> QED
  BY <1>1, <1>2 DEF RecoverPort, WifiPort

LEMMA ManyKeeps ==
  ASSUME SetupInv, NEW c \in Processes,
         RecoverPorts(c) \/ SkipPort(c) \/ FlashByHand(c) \/ FlashAll(c)
         \/ FlashOne(c) \/ UpdateDrive(c) \/ Targets(c) \/ AskTarget(c)
  PROVE  SetupInv'
<1>0. /\ my[c] \in Doings /\ {} \in SUBSET Picos /\ shown \in SUBSET Picos
      /\ Running \subseteq Picos /\ Mounts \in SUBSET Picos
  BY SortsThen
<1>1. CASE RecoverPorts(c)
  <2>1. PICK heard \in SUBSET Running :
            my' = [my EXCEPT ![c].at = "each", ![c].todo = shown, ![c].seen = heard]
    BY <1>1 DEF RecoverPorts
  <2> QED
    BY <1>0, <1>1, <2>1, ListKeeps DEF RecoverPorts, At
<1>2. CASE SkipPort(c)
  <2>1. PICK r \in Doings : my' = [my EXCEPT ![c] = r] /\ r.at \in {"each", "after"}
    BY <1>2, DoneResult DEF SkipPort
  <2> QED
    BY <1>2, <2>1, Alone DEF SkipPort, At, Using, Awaits
<1>3. CASE FlashByHand(c)
  BY <1>0, <1>3, ListKeeps DEF FlashByHand
<1>4. CASE FlashAll(c)
  BY <1>0, <1>4, ListKeeps DEF FlashAll, Flash, At
<1>5. CASE FlashOne(c)
  <2>1. {Next1(Mounts)} \in SUBSET Picos
    BY <1>0, <1>5, FirstIn DEF FlashOne, Next1
  <2> QED
    BY <1>0, <1>5, <2>1, ListKeeps DEF FlashOne, Flash, At
<1>6. CASE UpdateDrive(c)
  <2>1. PICK p \in MountsAfter(c) : Flash(c, {p})
    BY <1>6 DEF UpdateDrive
  <2>2. {p} \in SUBSET Picos
    BY <1>0, <2>1 DEF MountsAfter
  <2> QED
    BY <1>0, <1>6, <2>1, <2>2, ListKeeps DEF UpdateDrive, Flash, At
<1>7. CASE Targets(c)
  <2>1. PICK heard \in PickedTargets :
            my' = [my EXCEPT ![c].at = "each", ![c].todo = heard, ![c].seen = shown]
    BY <1>7 DEF Targets
  <2>2. heard \in SUBSET Picos
    BY <1>0, <2>1 DEF PickedTargets
  <2> QED
    BY <1>0, <1>7, <2>1, <2>2, ListKeeps DEF Targets, At
<1>8. CASE AskTarget(c)
  <2>1. PICK r \in Doings : my' = [my EXCEPT ![c] = r] /\ r.at \in {"each", "after"}
    BY <1>8, DoneResult DEF AskTarget
  <2> QED
    BY <1>8, <2>1, Requested DEF AskTarget, At, Using, Awaits
<1> QED
  BY <1>1, <1>2, <1>3, <1>4, <1>5, <1>6, <1>7, <1>8

-----------------------------------------------------------------------------
(* Windows and the Picos.                                                  *)

LEMMA WorldKeeps == ASSUME SetupInv, World PROVE SetupInv'
<1>0. WorldTypeOK /\ FileTypeOK
  BY DEF SetupInv, Plainly, Sorts
<1>1. /\ UNCHANGED <<my, key, creds, file, copy, made, fresh, clash>>
      /\ UNCHANGED <<strayBounce, strayName>>
  BY DEF World, Boot, Join, PortAppears, PortGone, Disturb, fileVars, history
<1>2. /\ mode' \in [Picos -> Modes] /\ moves' \in 0 .. MaxMoves
      /\ holder' \in [Picos -> Processes \cup {Nobody}]
      /\ \A p \in Picos : holder'[p] \in {holder[p], Nobody}
      /\ shown' \subseteq Picos /\ since' \subseteq Processes
      /\ \/ shown' \subseteq shown /\ since' = since
         \/ since' = Processes
  <2>1. PICK p \in Picos :
            Boot(p) \/ Join(p) \/ PortAppears(p) \/ PortGone(p) \/ Disturb(p)
    BY DEF World
  <2>2. CASE Boot(p)
    BY <1>0, <2>2, BecomesResult DEF Boot, Modes, WorldTypeOK
  <2>3. CASE Join(p)
    BY <1>0, <2>3, BecomesResult DEF Join, Modes, WorldTypeOK
  <2>4. CASE PortAppears(p)
    BY <1>0, <2>4 DEF PortAppears, WorldTypeOK
  <2>5. CASE PortGone(p)
    BY <1>0, <2>5 DEF PortGone, WorldTypeOK
  <2>6. CASE Disturb(p)
    BY <1>0, <2>6, BecomesResult, SetupFlowsAssumption DEF Disturb, Modes, WorldTypeOK
  <2> QED
    BY <2>1, <2>2, <2>3, <2>4, <2>5, <2>6
<1>3. Sorts'
  BY <1>0, <1>1, <1>2 DEF SetupInv, Plainly, Sorts, WorldTypeOK, FileTypeOK
<1>4. Owners'
  BY <1>1, <1>2, SetupFlowsAssumption DEF SetupInv, Plainly, Owners
<1>5. Bounces'
  BY <1>1, <1>2 DEF SetupInv, Plainly, Bounces
<1>6. Keyed'
  BY <1>1 DEF SetupInv, Keyed, Saving, Port, Safe, Knows, Keeps, Everywhere
<1> QED
  BY <1>3, <1>4, <1>5, <1>6 DEF SetupInv, Plainly

-----------------------------------------------------------------------------

LEMMA InitHolds == Init => SetupInv
<1> SUFFICES ASSUME Init PROVE SetupInv
  OBVIOUS
<1>1. Default \in Configs
  BY ConfigFileAssumption DEF Default, Configs, Listed
<1>2. WorldTypeOK
  BY SetupFlowsAssumption, ConfigFileAssumption
  DEF Init, WorldInit, WorldTypeOK, Modes, Creds
<1>3. FileTypeOK
  <2>1. 0 \in 0 .. MaxKeys
    BY ConfigFileAssumption
  <2>2. copy \in [Processes -> Configs]
    BY <1>1 DEF Init, FileInit
  <2> QED
    BY <1>1, <2>1, <2>2 DEF Init, FileInit, FileTypeOK
<1>4. Sorts
  BY <1>2, <1>3, IdleDoing DEF Init, Sorts
<1>5. Owners
  BY SetupFlowsAssumption DEF Init, WorldInit, Owners
<1>6. Bounces
  BY IdleDoing DEF Init, Bounces
<1>7. Keyed
  <2>1. /\ \A p \in Picos : key[p] = 0
        /\ \A c \in Processes : my[c].at = "idle"
        /\ fresh = {} /\ file = Default /\ file # Torn
    BY <1>1, IdleDoing, SetupFlowsAssumption DEF Init, WorldInit, FileInit
  <2> QED
    BY <2>1, SetupFlowsAssumption DEF Keyed, Saving, Safe, Knows
<1> QED
  BY <1>4, <1>5, <1>6, <1>7 DEF SetupInv, Plainly

LEMMA NextHolds == SetupInv /\ [Next]_vars => SetupInv'
<1> SUFFICES ASSUME SetupInv, [Next]_vars PROVE SetupInv'
  OBVIOUS
<1>1. CASE World
  BY <1>1, WorldKeeps
<1>2. ASSUME NEW c \in Processes,
             \/ \E f \in Flows : Start(c, f)
             \/ GiveUp(c) \/ Kill(c) \/ SaveOpen(c) \/ SaveFill(c)
      PROVE  SetupInv'
  BY <1>2, StartKeeps, EndsKeep, KillKeeps, SaveOpenKeeps, SaveFillKeeps
<1>3. ASSUME NEW c \in Processes, Find(c) PROVE SetupInv'
  BY <1>3, FindKeeps, FlashDriveKeeps DEF Find
<1>4. ASSUME NEW c \in Processes, Serial(c) PROVE SetupInv'
  BY <1>4, SerialKeeps, PairKnownKeeps, PairNewKeeps, SendKeyKeeps, KeyRefusedKeeps
  DEF Serial
<1>5. ASSUME NEW c \in Processes, After(c) PROVE SetupInv'
  BY <1>5, AfterKeeps, EndsKeep, NamePicoKeeps, ReportBounceKeeps DEF After
<1>6. ASSUME NEW c \in Processes, Many(c) PROVE SetupInv'
  BY <1>6, ManyKeeps, PortsKeep, PortKeeps, EndsKeep DEF Many
<1>7. CASE UNCHANGED vars
  BY <1>7 DEF vars, worldVars, fileVars, SetupInv, Plainly, Sorts, WorldTypeOK,
     FileTypeOK, Owners, Bounces, Keyed, Saving, Port, Safe, Knows, Keeps, Everywhere
<1> QED
  BY <1>1, <1>2, <1>3, <1>4, <1>5, <1>6, <1>7 DEF Next

LEMMA SetupAlways == Spec => []SetupInv
  BY InitHolds, NextHolds, PTL DEF Spec

-----------------------------------------------------------------------------
(* Theorems.                                                               *)

\* Every variable has its type, and whatever a flow does and however it ends,
\* no serial port stays open behind it (cmd_setup.rs, cmd_configure_wifi.rs).
THEOREM SetupTyped == Spec => []TypeOK
<1>1. SetupInv => TypeOK
  BY DEF SetupInv, Plainly, Sorts, Owners, Using, TypeOK, Doings, Afters, Steps,
     Holds, Port
<1> QED
  BY <1>1, SetupAlways, PTL

\* For any Picos, any number of processes that save to one file, and any
\* flows, killed at any step: unless a save of the file was cut short, read
\* half-way or undone by another's, the key a Pico obeys is in the file or in
\* the copy that is being written to it (udp_auth.rs:323-348,
\* config.rs:111-161).
THEOREM KeysStayOnFile == Spec => []KeyOnFile
<1>1. SetupInv => KeyOnFile
  <2> SUFFICES ASSUME SetupInv, ~clash, NEW p \in Picos, key[p] # 0
               PROVE  \/ file # Torn /\ file.keys[p] = key[p]
                      \/ \E c \in Processes : my[c].at = "fill" /\ copy[c].keys[p] = key[p]
    BY DEF KeyOnFile
  <2>1. Safe /\ fresh \subseteq Processes
    BY DEF SetupInv, Keyed, Plainly, Sorts, FileTypeOK
  <2> QED
    BY <2>1 DEF Safe, Knows
<1> QED
  BY <1>1, SetupAlways, PTL

\* configure-wifi reports a Pico as back in setup mode only after a COM port
\* has shown up since its reboot, with any number of Picos and processes that
\* reboot them meanwhile (cmd_configure_wifi.rs:165-193).
THEOREM BouncesAreReal == Spec => []BounceIsReal
<1>1. SetupInv => BounceIsReal
  BY DEF SetupInv, Plainly, Bounces, BounceIsReal
<1> QED
  BY <1>1, SetupAlways, PTL
=============================================================================
