------------------------------ MODULE RoutesProofs ------------------------------
(***************************************************************************)
(* Theorems about the routes from controllers to Picos: those on file,     *)
(* with any number of windows that save them (SavedPicos), and those of a  *)
(* stream, with any Picos and controllers that come and go (StreamStart).  *)
(***************************************************************************)
EXTENDS SavedPicos, StreamStart, FiniteSetTheorems, SequenceTheorems, TLAPS

-----------------------------------------------------------------------------
(* Saved Picos.  However many windows save over each other, the file holds *)
(* one window's copy, and no window ever makes a copy with a route to a    *)
(* Pico that the same copy does not list.                                  *)

\* What every copy keeps.
Sound(cfg) == cfg \in Configs /\ cfg.routes \subseteq Saved(cfg)

Inv ==
    /\ TypeOK
    /\ file # Torn => Sound(file)
    /\ \A c \in Processes : Sound(copy[c])
    /\ \A c \in Processes : At(c, "stream") => win[c].pico \in Picos
    /\ \A c \in Processes : win[c].then # "stream"

Wins == [at : Waits, then : Waits, pico : Picos \cup {Nobody},
         ask : Listed \cup {"none", "seed"}]

-----------------------------------------------------------------------------
(* The changes of a copy.                                                  *)

LEMMA DefaultSound == Sound(Default)
  BY ConfigFileAssumption DEF Sound, Default, Configs, Listed

LEMMA ReadSound == Inv => Sound(Read)
  BY DefaultSound DEF Inv, Read

LEMMA RememberSound ==
  ASSUME NEW cfg, Sound(cfg), NEW p \in Picos \cup {Nobody}
  PROVE  Sound(Remember(cfg, p, FALSE))
  BY DEF Sound, Remember, Saved, Configs, Listed

LEMMA SetNicknameSound ==
  ASSUME NEW cfg, Sound(cfg), NEW p, NEW name \in {"named", "plain"}
  PROVE  Sound(SetNickname(cfg, p, name))
  BY DEF Sound, SetNickname, Saved, Configs, Listed

LEMMA SetKeySound ==
  ASSUME NEW cfg, Sound(cfg), NEW p, NEW k \in 0 .. MaxKeys
  PROVE  Sound(SetKey(cfg, p, k))
  BY DEF Sound, SetKey, Saved, Configs, Listed

\* The layout of a stream: one route, to the Pico it has just saved.
LEMMA RoutesSound ==
  ASSUME NEW cfg, Sound(cfg), NEW p \in Picos
  PROVE  Sound([Remember(cfg, p, FALSE) EXCEPT !.routes = {p}])
<1> DEFINE new == Remember(cfg, p, FALSE)
<1>1. new \in Configs
  BY RememberSound DEF Sound
<1>2. new.list[p] # "unlisted"
  BY DEF Sound, Configs, Remember
<1> HIDE DEF new
<1>3. [new EXCEPT !.routes = {p}] \in Configs
  BY <1>1 DEF Configs
<1>4. p \in Saved([new EXCEPT !.routes = {p}]) /\ [new EXCEPT !.routes = {p}].routes = {p}
  BY <1>1, <1>2 DEF Saved, Configs
<1> QED
  BY <1>3, <1>4 DEF Sound, new

\* The Pico that takes over as the one seen last is one that is left.
LEMMA ForgetSound ==
  ASSUME NEW cfg, Sound(cfg), NEW p
  PROVE  Sound(Forget(cfg, p))
<1> DEFINE left == Saved(cfg) \ {p}
           first == IF left = {} THEN Nobody ELSE CHOOSE q \in left : TRUE
           new == [cfg EXCEPT !.list[p] = "unlisted", !.routes = @ \ {p},
                              !.last = IF @ = p THEN first ELSE @]
<1>1. first \in Picos \cup {Nobody}
  BY DEF Saved
<1> HIDE DEF first
<1>2. new \in Configs
  BY <1>1 DEF Sound, Configs, Listed
<1>3. new.routes \subseteq Saved(new)
  BY DEF Sound, Saved, Configs, Listed
<1>4. Forget(cfg, p) = new
  BY DEF Forget, first
<1> QED
  BY <1>2, <1>3, <1>4 DEF Sound

LEMMA SeedSound == ASSUME NEW cfg, Sound(cfg) PROVE Sound(Seed(cfg))
  BY RememberSound DEF Seed, Sound, Configs

LEMMA RefreshSound ==
  ASSUME NEW cfg, Sound(cfg), NEW seen, NEW new \in Refresh(cfg, seen)
  PROVE  Sound(new)
  BY RememberSound DEF Refresh, Saved

LEMMA CardsDoNotSave == ASSUME NEW cfg, NEW inv, NEW p
                        PROVE  Card(cfg, inv, p) \subseteq Waits \ {"idle", "save", "fill"}
  BY DEF Card, WifiCard, SetupUsbCard, MissingSavedCard, Waits

-----------------------------------------------------------------------------
(* The steps of a window.                                                  *)

\* No window is open.
LEMMA InitKeeps ==
  ASSUME Sound(file), asked \in [Picos -> Listed \cup {"legacy", "lost"}],
         copy = [c \in Processes |-> Default], win = [c \in Processes |-> Closed],
         made = 0, fresh = {}, clash = FALSE
  PROVE  Inv
<1>1. FileTypeOK
  <2>1. file \in Configs /\ Default \in Configs
    BY DefaultSound DEF Sound
  <2>2. made \in 0 .. MaxKeys
    BY ConfigFileAssumption
  <2> QED
    BY <2>1, <2>2 DEF FileTypeOK
<1>2. Closed \in Wins /\ Closed.at = "idle" /\ Closed.then = "idle"
  BY DEF Closed, Wins, Waits, Listed
<1>3. win \in [Processes -> Wins] /\ \A c \in Processes : win[c] = Closed /\ copy[c] = Default
  BY <1>2
<1>4. TypeOK
  BY <1>1, <1>3 DEF TypeOK, Wins
<1> QED
  BY <1>2, <1>3, <1>4, DefaultSound DEF Inv, At

LEMMA InitInv == SavedInit \/ LegacyInit => Inv
<1>1. ASSUME SavedInit PROVE Inv
  <2>1. file.list \in [Picos -> Listed \cup {"legacy", "lost"}]
    BY <1>1 DEF SavedInit, FileInit, Default, Listed
  <2> QED
    BY <1>1, <2>1, DefaultSound, InitKeeps DEF SavedInit, FileInit
<1>2. ASSUME LegacyInit PROVE Inv
  <2>1. PICK p \in Picos :
          /\ file = [Default EXCEPT !.last = p]
          /\ asked = [Default.list EXCEPT ![p] = "legacy"]
    BY <1>2 DEF LegacyInit
  <2>2. Sound(file)
    BY <2>1, DefaultSound DEF Sound, Default, Configs, Saved, Listed
  <2>3. asked \in [Picos -> Listed \cup {"legacy", "lost"}]
    BY <2>1 DEF Default, Listed
  <2> QED
    BY <1>2, <2>2, <2>3, InitKeeps DEF LegacyInit
<1> QED
  BY <1>1, <1>2

\* A sound copy is changed and goes to be saved.
LEMMA ChangeKeeps ==
  ASSUME Inv, NEW c \in Processes, NEW cfg, Sound(cfg),
         NEW p \in Picos \cup {Nobody}, NEW ask \in Listed \cup {"none", "seed"},
         NEW then \in Waits \ {"stream"},
         Change(c, cfg, p, ask, then), asked' = asked
  PROVE  Inv'
<1>1. /\ copy' = [copy EXCEPT ![c] = cfg]
      /\ file' = file /\ made' = made
      /\ fresh' \subseteq Processes /\ clash' \in BOOLEAN
  BY DEF Change, Load, Note, Inv, TypeOK, FileTypeOK
<1>2. win \in [Processes -> Wins]
  BY DEF Inv, TypeOK, Wins
<1> DEFINE new == [win[c] EXCEPT !.at = "save", !.then = then, !.pico = p, !.ask = ask]
<1>3. new \in Wins /\ new.at = "save" /\ new.then = then
  BY <1>2 DEF Wins, Waits
<1>4. win' = [win EXCEPT ![c] = new]
  BY <1>2 DEF Change
<1> HIDE DEF new
<1>5. TypeOK'
  BY <1>1, <1>2, <1>3, <1>4 DEF Inv, TypeOK, FileTypeOK, Sound, At, Wins
<1>6. \A d \in Processes : Sound(copy'[d])
  BY <1>1 DEF Inv, TypeOK, FileTypeOK
<1>7. file' # Torn => Sound(file')
  BY <1>1 DEF Inv
<1> QED
  BY <1>1, <1>2, <1>3, <1>4, <1>5, <1>6, <1>7 DEF Inv, At

\* A window goes back to the screen and forgets its copy.
LEMMA DropKeeps ==
  ASSUME Inv, NEW c \in Processes, NEW writing \in BOOLEAN,
         win' = [win EXCEPT ![c] = Closed], Drop(c, writing), asked' = asked
  PROVE  Inv'
<1>1. /\ copy' = [copy EXCEPT ![c] = Default]
      /\ file' = file /\ made' = made
      /\ fresh' \subseteq Processes /\ clash' \in BOOLEAN
  BY DEF Drop, Note, Inv, TypeOK, FileTypeOK
<1> QED
  BY <1>1, DefaultSound
  DEF Inv, TypeOK, FileTypeOK, Sound, Saved, At, Closed, Waits, Listed

LEMMA ScanKeeps == ASSUME Inv, NEW c \in Processes, ScanInventory(c) PROVE Inv'
<1>1. PICK heard \in SUBSET Picos : \E cfg \in Refresh(Seed(Read), heard) :
        Change(c, cfg, Nobody, "seed", "idle")
  BY DEF ScanInventory
<1>2. PICK cfg \in Refresh(Seed(Read), heard) : Change(c, cfg, Nobody, "seed", "idle")
  BY <1>1
<1>3. Sound(cfg)
  BY ReadSound, SeedSound, RefreshSound
<1> QED
  BY <1>2, <1>3, ChangeKeeps DEF ScanInventory, Waits, Listed

LEMMA BasicTabKeeps == ASSUME Inv, NEW c \in Processes, BasicTab(c) PROVE Inv'
<1>1. PICK inv \in [Picos -> Where], p \in Picos :
        \E act \in Card(Read, inv, p) \cup {"add"} :
           win' = [win EXCEPT ![c] = [Closed EXCEPT !.at = act, !.pico = p]]
  BY DEF BasicTab
<1>2. PICK act \in Card(Read, inv, p) \cup {"add"} :
        win' = [win EXCEPT ![c] = [Closed EXCEPT !.at = act, !.pico = p]]
  BY <1>1
<1>3. act \in Waits \ {"idle", "save", "fill"}
  BY CardsDoNotSave DEF Waits
<1> DEFINE next == [Closed EXCEPT !.at = act, !.pico = p]
<1>4. win' = [win EXCEPT ![c] = next]
  BY <1>2
<1>5. next \in Wins /\ next.at = act /\ next.then = "idle" /\ next.pico \in Picos
  BY <1>3 DEF Closed, Wins, Listed, Waits
<1> HIDE DEF next
<1>6. /\ UNCHANGED <<file, copy, made, asked>>
      /\ fresh' \subseteq Processes /\ clash' \in BOOLEAN
  BY DEF BasicTab, Note, Inv, TypeOK, FileTypeOK
<1> QED
  BY <1>3, <1>4, <1>5, <1>6 DEF Inv, TypeOK, FileTypeOK, Sound, Saved, At, Wins

LEMMA SaveIdentityKeeps ==
  ASSUME Inv, NEW c \in Processes, NEW from, NEW then \in Waits \ {"stream"},
         SaveIdentity(c, from, then)
  PROVE  Inv'
<1> DEFINE p == win[c].pico
           cfg == Remember(Read, p, FALSE)
           ask == IF Listing(Read, p) = "named" THEN "named" ELSE "plain"
<1>1. p \in Picos \cup {Nobody}
  BY DEF Inv, TypeOK
<1>2. Sound(cfg)
  BY <1>1, ReadSound, RememberSound
<1>3. ask \in Listed \cup {"none", "seed"}
  BY DEF Listed
<1>4. Change(c, cfg, p, ask, then) /\ asked' = asked
  BY DEF SaveIdentity
<1> HIDE DEF p, cfg, ask
<1> QED
  BY <1>1, <1>2, <1>3, <1>4, ChangeKeeps

LEMMA RenameKeeps == ASSUME Inv, NEW c \in Processes, Rename(c) PROVE Inv'
<1> DEFINE p == win[c].pico
<1>1. PICK name \in {"named", "plain"} : Change(c, SetNickname(Read, p, name), p, name, "idle")
  BY DEF Rename
<1>2. Sound(SetNickname(Read, p, name))
  BY ReadSound, SetNicknameSound
<1>3. p \in Picos \cup {Nobody}
  BY DEF Inv, TypeOK
<1> QED
  BY <1>1, <1>2, <1>3, ChangeKeeps DEF Rename, Waits, Listed

LEMMA RemoveKeeps == ASSUME Inv, NEW c \in Processes, RemoveSaved(c) PROVE Inv'
<1> DEFINE p == win[c].pico
<1>1. Sound(Forget(Read, p))
  BY ReadSound, ForgetSound
<1>2. p \in Picos \cup {Nobody}
  BY DEF Inv, TypeOK
<1> QED
  BY <1>1, <1>2, ChangeKeeps DEF RemoveSaved, Waits, Listed

LEMMA SaveRoutesKeeps == ASSUME Inv, NEW c \in Processes, SaveRoutes(c) PROVE Inv'
<1> DEFINE p == win[c].pico
           cfg == [Remember(Read, p, FALSE) EXCEPT !.routes = {p}]
           ask == IF Listing(Read, p) = "named" THEN "named" ELSE "plain"
<1>1. p \in Picos
  BY DEF SaveRoutes, Inv
<1>2. Sound(cfg)
  BY <1>1, ReadSound, RoutesSound
<1>3. ask \in Listed \cup {"none", "seed"}
  BY DEF Listed
<1>4. Change(c, cfg, p, ask, "idle") /\ asked' = asked
  BY DEF SaveRoutes
<1> HIDE DEF p, cfg, ask
<1> QED
  BY <1>1, <1>2, <1>3, <1>4, ChangeKeeps DEF Waits

LEMMA AddKeyKeeps == ASSUME Inv, NEW c \in Processes, AddKey(c) PROVE Inv'
<1> DEFINE cfg == SetKey(Read, win[c].pico, made + 1)
<1>1. made + 1 \in 0 .. MaxKeys
  BY ConfigFileAssumption DEF AddKey, Inv, TypeOK, FileTypeOK
<1>2. Sound(cfg)
  BY <1>1, ReadSound, SetKeySound
<1>3. /\ copy' = [copy EXCEPT ![c] = cfg]
      /\ file' = file /\ asked' = asked /\ made' = made + 1
      /\ fresh' \subseteq Processes /\ clash' \in BOOLEAN
  BY DEF AddKey, Note, Inv, TypeOK, FileTypeOK
<1>4. win \in [Processes -> Wins]
  BY DEF Inv, TypeOK, Wins
<1>5. /\ win' \in [Processes -> Wins]
      /\ win'[c].at = "save" /\ win'[c].then = "added"
      /\ \A d \in Processes \ {c} : win'[d] = win[d]
  <2> DEFINE w == [win[c] EXCEPT !.at = "save", !.then = "added"]
  <2>1. win[c] \in Wins
    BY <1>4
  <2>2. w \in Wins /\ w.at = "save" /\ w.then = "added"
    BY <2>1 DEF Wins, Waits
  <2> HIDE DEF w
  <2>3. win' = [win EXCEPT ![c] = w]
    BY DEF AddKey, w
  <2> QED
    BY <1>4, <2>2, <2>3
<1> HIDE DEF cfg
<1>6. copy' \in [Processes -> Configs] /\ \A d \in Processes : Sound(copy'[d])
  BY <1>2, <1>3 DEF Inv, TypeOK, FileTypeOK, Sound
<1>7. TypeOK'
  BY <1>1, <1>3, <1>5, <1>6 DEF Inv, TypeOK, FileTypeOK, At, Wins
<1> QED
  BY <1>3, <1>5, <1>6, <1>7 DEF Inv, Sound, Saved, At

\* The emptied file is no layout at all.
LEMMA SaveOpenKeeps == ASSUME Inv, NEW c \in Processes, SaveOpen(c) PROVE Inv'
<1>1. /\ file' = Torn /\ UNCHANGED <<copy, made, asked>>
      /\ fresh' \subseteq Processes /\ clash' \in BOOLEAN
  BY DEF SaveOpen, Truncate, Note, Inv, TypeOK, FileTypeOK
<1>2. win' = [win EXCEPT ![c].at = "fill"]
  BY DEF SaveOpen, Go
<1>3. win \in [Processes -> Wins]
  BY DEF Inv, TypeOK, Wins
<1>4. /\ win' \in [Processes -> Wins]
      /\ \A d \in Processes : win'[d].then = win[d].then /\ win'[d].pico = win[d].pico
      /\ win'[c].at = "fill" /\ \A d \in Processes \ {c} : win'[d] = win[d]
  <2> DEFINE w == [win[c] EXCEPT !.at = "fill"]
  <2>1. win[c] \in Wins
    BY <1>3
  <2>2. w \in Wins /\ w.at = "fill" /\ w.then = win[c].then /\ w.pico = win[c].pico
    BY <2>1 DEF Wins, Waits
  <2> HIDE DEF w
  <2>3. win' = [win EXCEPT ![c] = w]
    BY <1>2 DEF w
  <2> QED
    BY <1>3, <2>2, <2>3
<1>5. TypeOK'
  <2>1. FileTypeOK'
    BY <1>1 DEF Inv, TypeOK, FileTypeOK
  <2>2. \A d \in Processes : At(d, "idle")' => win'[d] = Closed /\ copy'[d] = Default
    BY <1>1, <1>4 DEF Inv, TypeOK, At
  <2> QED
    BY <1>1, <1>4, <2>1, <2>2 DEF Inv, TypeOK, Wins
<1> QED
  BY <1>1, <1>4, <1>5 DEF Inv, Sound, Saved, At

LEMMA SaveFillKeeps == ASSUME Inv, NEW c \in Processes, SaveFill(c) PROVE Inv'
<1> DEFINE next == IF win[c].then = "idle" THEN Closed
                   ELSE [Closed EXCEPT !.at = win[c].then, !.pico = win[c].pico]
<1>1. /\ file' = copy[c] /\ copy' = [copy EXCEPT ![c] = Default] /\ made' = made
      /\ fresh' \subseteq Processes /\ clash' \in BOOLEAN
  BY DEF SaveFill, FillAndDrop, Note, Inv, TypeOK, FileTypeOK
<1>2. win' = [win EXCEPT ![c] = next]
  BY DEF SaveFill
<1>3. next \in Wins /\ next.at # "stream" /\ next.then = "idle"
      /\ (next.at = "idle" => next = Closed)
  BY DEF Inv, TypeOK, Wins, Closed, Waits, Listed
<1>4. Sound(file') /\ file' \in Configs
  BY <1>1 DEF Inv, Sound
<1>5. asked' \in [Picos -> Listed \cup {"legacy", "lost"}]
  <2>1. \A q \in Picos : copy[c].list[q] \in Listed
    BY DEF Inv, Sound, Configs
  <2>2. Asking(c) \in [Picos -> Listed \cup {"legacy", "lost"}]
    BY <2>1 DEF Asking, Inv, TypeOK, Listed
  <2> QED
    BY <2>2 DEF SaveFill
<1> HIDE DEF next
<1> QED
  BY <1>1, <1>2, <1>3, <1>4, <1>5, DefaultSound
  DEF Inv, TypeOK, FileTypeOK, Sound, Saved, At, Wins

LEMMA NextInv == Inv /\ [SavedNext]_savedVars => Inv'
<1> SUFFICES ASSUME Inv, [SavedNext]_savedVars PROVE Inv'
  OBVIOUS
<1>1. ASSUME NEW c \in Processes, Leave(c) \/ Close(c) PROVE Inv'
  <2>1. /\ \E writing \in BOOLEAN : Drop(c, writing)
        /\ win' = [win EXCEPT ![c] = Closed] /\ asked' = asked
    BY <1>1 DEF Leave, Close, Return, At
  <2> QED
    BY <2>1, DropKeeps
<1>2. ASSUME NEW c \in Processes,
             \/ SaveIdentity(c, "keep", "nickname") \/ FindLastIp(c) \/ AddPico(c)
      PROVE  Inv'
  BY <1>2, SaveIdentityKeeps DEF FindLastIp, AddPico, Waits
<1>3. CASE UNCHANGED savedVars
  BY <1>3 DEF savedVars, fileVars, Inv, TypeOK, FileTypeOK, Sound, Saved, At
<1> QED
  BY <1>1, <1>2, <1>3, ScanKeeps, BasicTabKeeps, RenameKeeps, RemoveKeeps,
     SaveRoutesKeeps, AddKeyKeeps, SaveOpenKeeps, SaveFillKeeps DEF SavedNext

\* Any number of Picos and windows, in any interleaving of their loads and saves,
\* closed at any point: a config.toml that parses has no route to a Pico that it
\* does not list (config.rs:83-160; `couchlink run` resolves every route it reads).
THEOREM RoutesLeadToSaved == SavedSpec => []RoutesAreSaved
<1>1. Inv => RoutesAreSaved
  BY DEF Inv, Sound, RoutesAreSaved
<1> QED
  BY InitInv, NextInv, <1>1, PTL DEF SavedSpec

\* The state is well typed; in particular a window at its screen holds no copy,
\* so what it draws and does next is read from the file again.
THEOREM SavedTypes == SavedSpec => []TypeOK
<1>1. Inv => TypeOK
  BY DEF Inv
<1> QED
  BY InitInv, NextInv, <1>1, PTL DEF SavedSpec

-----------------------------------------------------------------------------
(* The list is what the user asked for.  The copy of a window whose load   *)
(* the file has not outrun holds it as it will be once the save is through *)
(* (Asking), and as long as there was no clash the file holds it as it is. *)

Wishes == [Picos -> Listed \cup {"legacy", "lost"}]

\* A copy against what was asked; only before the first seeding is the Pico
\* seen last one that is not listed, and then nothing is.
Agrees(cfg, want) ==
    /\ \A q \in Picos : want[q] \in Listed => cfg.list[q] = want[q]
    /\ \/ cfg.last = Nobody
       \/ cfg.last \in Saved(cfg)
       \/ Saved(cfg) = {} /\ want[cfg.last] \notin Listed

Saving(c) == At(c, "save") \/ At(c, "fill")

Faithful ==
    /\ clash => fresh = {}
    /\ \A c \in Processes : Saving(c) \/ (c \notin fresh /\ win[c].ask = "none")
    /\ ~clash /\ file # Torn => Agrees(file, asked)
    /\ \A c \in fresh : Agrees(copy[c], Asking(c))

\* What a change of a Pico's entry is asked to leave there.
Entry(cfg, p) == IF cfg.list[p] = "named" THEN "named" ELSE "plain"

LEMMA RememberAgrees ==
  ASSUME NEW cfg \in Configs, NEW want \in Wishes, Agrees(cfg, want),
         NEW p \in Picos \cup {Nobody}
  PROVE  Agrees(Remember(cfg, p, FALSE), [want EXCEPT ![p] = Entry(cfg, p)])
  BY DEF Agrees, Remember, Entry, Saved, Configs, Wishes, Listed

LEMMA NicknameAgrees ==
  ASSUME NEW cfg \in Configs, NEW want \in Wishes, Agrees(cfg, want),
         NEW p \in Saved(cfg), NEW name \in {"named", "plain"}
  PROVE  Agrees(SetNickname(cfg, p, name), [want EXCEPT ![p] = name])
  BY DEF Agrees, SetNickname, Saved, Configs, Wishes, Listed

LEMMA KeyAgrees ==
  ASSUME NEW cfg \in Configs, NEW want \in Wishes, Agrees(cfg, want), NEW p, NEW k
  PROVE  Agrees(SetKey(cfg, p, k), want)
  BY DEF Agrees, SetKey, Saved, Configs

LEMMA RoutesAgree ==
  ASSUME NEW cfg \in Configs, NEW want \in Wishes, Agrees(cfg, want), NEW layout
  PROVE  Agrees([cfg EXCEPT !.routes = layout], want)
  BY DEF Agrees, Saved, Configs

LEMMA ForgetAgrees ==
  ASSUME NEW cfg \in Configs, NEW want \in Wishes, Agrees(cfg, want), NEW p
  PROVE  Agrees(Forget(cfg, p), [want EXCEPT ![p] = "unlisted"])
<1> DEFINE left == Saved(cfg) \ {p}
           first == IF left = {} THEN Nobody ELSE CHOOSE q \in left : TRUE
           new == [cfg EXCEPT !.list[p] = "unlisted", !.routes = @ \ {p},
                              !.last = IF @ = p THEN first ELSE @]
<1>1. first \in left \cup {Nobody}
  OBVIOUS
<1> HIDE DEF first
<1>2. new.list = [cfg.list EXCEPT ![p] = "unlisted"]
  BY DEF Configs
<1>3. new.last = IF cfg.last = p THEN first ELSE cfg.last
  BY DEF Configs
<1>4. Forget(cfg, p) = new
  BY DEF Forget, first
<1> HIDE DEF new
<1>5. \A q \in Picos : new.list[q] = IF q = p THEN "unlisted" ELSE cfg.list[q]
  BY <1>2 DEF Configs
<1>6. Saved(new) = left
  BY <1>5 DEF Saved
<1> QED
  BY <1>1, <1>3, <1>4, <1>5, <1>6 DEF Agrees, Wishes, Listed

\* After the seeding, what was asked before lists were kept counts as asked.
LEMMA SeedAgrees ==
  ASSUME NEW cfg, Sound(cfg), NEW want \in Wishes, Agrees(cfg, want),
         NEW seen, NEW new \in Refresh(Seed(cfg), seen)
  PROVE  Agrees(new, [q \in Picos |-> IF want[q] = "legacy" THEN new.list[q] ELSE want[q]])
<1> DEFINE seeded == Seed(cfg)
<1>1. Sound(seeded) /\ seeded \in Configs
  BY SeedSound DEF Sound
<1>2. \/ seeded.last = Nobody
      \/ seeded.last \in Saved(seeded)
  BY DEF Seed, Remember, Agrees, Sound, Configs, Saved, Listed
<1>3. \A q \in Picos : want[q] \in Listed => seeded.list[q] = want[q]
  BY DEF Seed, Remember, Agrees, Sound, Configs, Saved, Listed
<1> HIDE DEF seeded
<1>4. \/ new = seeded
      \/ \E p \in Saved(seeded) : new = Remember(seeded, p, FALSE)
  BY DEF Refresh, seeded
<1>5. /\ \A q \in Picos : new.list[q] = seeded.list[q]
      /\ new.last = seeded.last \/ new.last \in Saved(seeded)
  <2>1. CASE new = seeded
    BY <2>1
  <2>2. ASSUME NEW p \in Saved(seeded), new = Remember(seeded, p, FALSE)
        PROVE  new.last = p /\ \A q \in Picos : new.list[q] = seeded.list[q]
    BY <1>1, <2>2 DEF Remember, Configs, Saved, Listed
  <2> QED
    BY <1>4, <2>1, <2>2
<1>6. Saved(new) = Saved(seeded)
  BY <1>5 DEF Saved
<1> QED
  BY <1>2, <1>3, <1>5, <1>6 DEF Agrees, Wishes, Listed

LEMMA InitFaithful == SavedInit \/ LegacyInit => Faithful
<1>1. ASSUME SavedInit PROVE Faithful
  BY <1>1 DEF SavedInit, FileInit, Faithful, Agrees, Default, At, Saving, Closed
<1>2. ASSUME LegacyInit PROVE Faithful
  <2>1. PICK p \in Picos :
          /\ file = [Default EXCEPT !.last = p]
          /\ asked = [Default.list EXCEPT ![p] = "legacy"]
    BY <1>2 DEF LegacyInit
  <2>2. Agrees(file, asked)
    BY <2>1 DEF Agrees, Default, Saved, Listed
  <2> QED
    BY <1>2, <2>2 DEF LegacyInit, Faithful, Saving, At, Closed
<1> QED
  BY <1>1, <1>2

\* The copies of other windows stay as faithful as they are.
LEMMA OthersFaithful ==
  ASSUME Inv, Faithful, NEW c \in Processes,
         copy' \in [Processes -> Configs],
         \A d \in Processes \ {c} : copy'[d] = copy[d] /\ win'[d] = win[d],
         fresh' \subseteq fresh \cup {c}, asked' = asked,
         clash' => fresh' = {},
         ~clash' => ~clash,
         ~clash' /\ file' # Torn => file' = file,
         Saving(c)' \/ (c \notin fresh' /\ win'[c].ask = "none"),
         c \in fresh' => Agrees(copy'[c], Asking(c)')
  PROVE  Faithful'
<1>1. \A d \in Processes \ {c} : d \in fresh' => d \in fresh
  OBVIOUS
<1>2. \A d \in Processes \ {c} : (Saving(d)' <=> Saving(d)) /\ Asking(d)' = Asking(d)
  BY DEF Saving, At, Asking
<1>3. fresh' \subseteq Processes
  BY DEF Inv, TypeOK, FileTypeOK
<1> QED
  BY <1>1, <1>2, <1>3 DEF Faithful

\* A change made of what the file holds, as it was asked.
LEMMA ChangeFaithful ==
  ASSUME Inv, Faithful, NEW c \in Processes, NEW cfg, Sound(cfg),
         NEW p \in Picos \cup {Nobody}, NEW ask \in Listed \cup {"seed"},
         NEW then,
         Change(c, cfg, p, ask, then), asked' = asked,
         ~clash /\ file # Torn =>
             Agrees(cfg, IF ask = "seed"
                         THEN [q \in Picos |-> IF asked[q] = "legacy"
                                                THEN cfg.list[q] ELSE asked[q]]
                         ELSE [asked EXCEPT ![p] = ask])
  PROVE  Faithful'
<1>1. /\ copy' = [copy EXCEPT ![c] = cfg] /\ file' = file
      /\ fresh' \subseteq fresh \cup {c} /\ (clash' => fresh' = {})
      /\ (~clash' => ~clash /\ file # Torn)
  BY DEF Change, Load, Note
<1> DEFINE new == [win[c] EXCEPT !.at = "save", !.then = then, !.pico = p, !.ask = ask]
<1>2. win \in [Processes -> Wins]
  BY DEF Inv, TypeOK, Wins
<1>3. new.at = "save" /\ new.ask = ask /\ new.pico = p
  BY <1>2 DEF Wins
<1>4. win' = [win EXCEPT ![c] = new]
  BY <1>2 DEF Change
<1> HIDE DEF new
<1>5. win'[c] = new /\ copy'[c] = cfg
  BY <1>1, <1>2, <1>4 DEF Inv, TypeOK, FileTypeOK
<1>6. Saving(c)'
  BY <1>3, <1>5 DEF Saving, At
<1>7. Asking(c)' = IF ask = "seed"
                   THEN [q \in Picos |-> IF asked[q] = "legacy"
                                          THEN cfg.list[q] ELSE asked[q]]
                   ELSE [asked EXCEPT ![p] = ask]
  BY <1>3, <1>5 DEF Asking, Listed
<1>8. c \in fresh' => Agrees(copy'[c], Asking(c)')
  BY <1>1, <1>5, <1>7
<1>9. copy' \in [Processes -> Configs]
  BY <1>1 DEF Inv, TypeOK, FileTypeOK, Sound
<1> QED
  BY <1>1, <1>2, <1>4, <1>6, <1>8, <1>9, OthersFaithful DEF Inv, TypeOK, FileTypeOK

\* What an action reads, and the user's wishes.
LEMMA FileAgrees ==
  ASSUME Inv, Faithful, ~clash, file # Torn
  PROVE  /\ Read = file /\ Sound(file) /\ file \in Configs
         /\ asked \in Wishes /\ Agrees(file, asked)
  BY DEF Inv, Faithful, Read, Sound, TypeOK, Wishes

LEMMA ScanFaithful ==
  ASSUME Inv, Faithful, NEW c \in Processes, ScanInventory(c) PROVE Faithful'
<1>1. PICK heard \in SUBSET Picos : \E cfg \in Refresh(Seed(Read), heard) :
        Change(c, cfg, Nobody, "seed", "idle")
  BY DEF ScanInventory
<1>2. PICK cfg \in Refresh(Seed(Read), heard) : Change(c, cfg, Nobody, "seed", "idle")
  BY <1>1
<1>3. Sound(cfg)
  BY ReadSound, SeedSound, RefreshSound
<1>4. ~clash /\ file # Torn =>
        Agrees(cfg, [q \in Picos |-> IF asked[q] = "legacy" THEN cfg.list[q] ELSE asked[q]])
  <2> SUFFICES ASSUME ~clash, file # Torn
               PROVE  Agrees(cfg, [q \in Picos |-> IF asked[q] = "legacy" THEN cfg.list[q]
                                                   ELSE asked[q]])
    OBVIOUS
  <2>1. /\ Read = file /\ Sound(file) /\ asked \in Wishes /\ Agrees(file, asked)
    BY FileAgrees
  <2>2. cfg \in Refresh(Seed(file), heard)
    BY <2>1
  <2> QED
    BY <2>1, <2>2, SeedAgrees
<1>5. asked' = asked /\ Nobody \in Picos \cup {Nobody} /\ "seed" \in Listed \cup {"seed"}
  BY DEF ScanInventory
<1> QED
  BY <1>2, <1>3, <1>4, <1>5, ChangeFaithful

LEMMA SaveIdentityFaithful ==
  ASSUME Inv, Faithful, NEW c \in Processes, NEW from, NEW then,
         SaveIdentity(c, from, then)
  PROVE  Faithful'
<1> DEFINE p == win[c].pico
           cfg == Remember(Read, p, FALSE)
           ask == Entry(Read, p)
<1>1. p \in Picos \cup {Nobody}
  BY DEF Inv, TypeOK
<1>2. Sound(cfg)
  BY <1>1, ReadSound, RememberSound
<1>3. ask \in Listed /\ ask # "seed"
  BY DEF Listed, Entry
<1>4. Change(c, cfg, p, ask, then) /\ asked' = asked
  BY DEF SaveIdentity, Entry, Listing
<1>5. ~clash /\ file # Torn => Agrees(cfg, [asked EXCEPT ![p] = ask])
  BY <1>1, FileAgrees, RememberAgrees
<1> HIDE DEF p, cfg, ask
<1> QED
  BY <1>1, <1>2, <1>3, <1>4, <1>5, ChangeFaithful

LEMMA RenameFaithful ==
  ASSUME Inv, Faithful, NEW c \in Processes, Rename(c) PROVE Faithful'
<1> DEFINE p == win[c].pico
<1>1. PICK name \in {"named", "plain"} : Change(c, SetNickname(Read, p, name), p, name, "idle")
  BY DEF Rename
<1>2. Sound(SetNickname(Read, p, name))
  BY ReadSound, SetNicknameSound
<1>3. p \in Picos /\ p \in Saved(Read) /\ asked' = asked
  BY DEF Rename, Saved
<1>4. ~clash /\ file # Torn => Agrees(SetNickname(Read, p, name), [asked EXCEPT ![p] = name])
  BY <1>3, FileAgrees, NicknameAgrees
<1> HIDE DEF p
<1> QED
  BY <1>1, <1>2, <1>3, <1>4, ChangeFaithful DEF Listed

LEMMA RemoveFaithful ==
  ASSUME Inv, Faithful, NEW c \in Processes, RemoveSaved(c) PROVE Faithful'
<1> DEFINE p == win[c].pico
<1>1. Sound(Forget(Read, p))
  BY ReadSound, ForgetSound
<1>2. p \in Picos \cup {Nobody}
  BY DEF Inv, TypeOK
<1>3. Change(c, Forget(Read, p), p, "unlisted", "idle") /\ asked' = asked
  BY DEF RemoveSaved
<1>4. ~clash /\ file # Torn => Agrees(Forget(Read, p), [asked EXCEPT ![p] = "unlisted"])
  BY FileAgrees, ForgetAgrees
<1> HIDE DEF p
<1> QED
  BY <1>1, <1>2, <1>3, <1>4, ChangeFaithful DEF Listed

LEMMA SaveRoutesFaithful ==
  ASSUME Inv, Faithful, NEW c \in Processes, SaveRoutes(c) PROVE Faithful'
<1> DEFINE p == win[c].pico
           kept == Remember(Read, p, FALSE)
           cfg == [kept EXCEPT !.routes = {p}]
           ask == Entry(Read, p)
<1>1. p \in Picos
  BY DEF SaveRoutes, Inv
<1>2. Sound(cfg) /\ (Sound(kept) => kept \in Configs)
  BY <1>1, ReadSound, RoutesSound DEF Sound
<1>3. ask \in Listed /\ ask # "seed"
  BY DEF Listed, Entry
<1>4. Change(c, cfg, p, ask, "idle") /\ asked' = asked
  BY DEF SaveRoutes, Entry, Listing
<1>5. ~clash /\ file # Torn => Agrees(kept, [asked EXCEPT ![p] = ask])
  BY <1>1, FileAgrees, RememberAgrees
<1>6. [asked EXCEPT ![p] = ask] \in Wishes
  BY <1>3 DEF Inv, TypeOK, Wishes
<1>7. Sound(kept)
  BY <1>1, ReadSound, RememberSound
<1> HIDE DEF kept
<1>8. ~clash /\ file # Torn => Agrees(cfg, [asked EXCEPT ![p] = ask])
  BY <1>2, <1>5, <1>6, <1>7, RoutesAgree
<1> HIDE DEF p, cfg, ask
<1> QED
  BY <1>1, <1>2, <1>3, <1>4, <1>8, ChangeFaithful

\* The key touches no entry: of the list nothing is asked.
LEMMA AddKeyFaithful ==
  ASSUME Inv, Faithful, NEW c \in Processes, AddKey(c) PROVE Faithful'
<1> DEFINE cfg == SetKey(Read, win[c].pico, made + 1)
           new == [win[c] EXCEPT !.at = "save", !.then = "added"]
<1>1. win \in [Processes -> Wins]
  BY DEF Inv, TypeOK, Wins
<1>2. win[c].ask = "none"
  BY DEF AddKey, Faithful, Saving, At
<1>3. new.at = "save" /\ new.ask = "none"
  BY <1>1, <1>2 DEF Wins
<1>4. win' = [win EXCEPT ![c] = new]
  BY <1>1 DEF AddKey
<1>5. /\ copy' = [copy EXCEPT ![c] = cfg] /\ file' = file /\ asked' = asked
      /\ fresh' \subseteq fresh \cup {c} /\ (clash' => fresh' = {})
      /\ (~clash' => ~clash /\ file # Torn)
  BY DEF AddKey, Note
<1>6. Sound(cfg)
  <2>1. made + 1 \in 0 .. MaxKeys
    BY ConfigFileAssumption DEF AddKey, Inv, TypeOK, FileTypeOK
  <2> QED
    BY <2>1, ReadSound, SetKeySound
<1>7. ~clash /\ file # Torn => Agrees(cfg, asked)
  BY FileAgrees, KeyAgrees
<1> HIDE DEF cfg, new
<1>8. win'[c] = new /\ copy'[c] = cfg /\ copy' \in [Processes -> Configs]
  BY <1>1, <1>4, <1>5, <1>6 DEF Inv, TypeOK, FileTypeOK, Sound
<1>9. Saving(c)' /\ Asking(c)' = asked
  BY <1>3, <1>5, <1>8 DEF Saving, At, Asking, Listed
<1>10. c \in fresh' => Agrees(copy'[c], Asking(c)')
  BY <1>5, <1>7, <1>8, <1>9
<1> QED
  BY <1>1, <1>4, <1>5, <1>8, <1>9, <1>10, OthersFaithful DEF Inv, TypeOK, FileTypeOK

LEMMA BasicTabFaithful ==
  ASSUME Inv, Faithful, NEW c \in Processes, BasicTab(c) PROVE Faithful'
<1>1. PICK inv \in [Picos -> Where], p \in Picos :
        \E act \in Card(Read, inv, p) \cup {"add"} :
           win' = [win EXCEPT ![c] = [Closed EXCEPT !.at = act, !.pico = p]]
  BY DEF BasicTab
<1>2. PICK act \in Card(Read, inv, p) \cup {"add"} :
        win' = [win EXCEPT ![c] = [Closed EXCEPT !.at = act, !.pico = p]]
  BY <1>1
<1> DEFINE next == [Closed EXCEPT !.at = act, !.pico = p]
<1>3. win' = [win EXCEPT ![c] = next]
  BY <1>2
<1>4. next.ask = "none"
  BY DEF Closed
<1> HIDE DEF next
<1>5. c \notin fresh
  BY DEF BasicTab, Faithful, Saving, At
<1>6. /\ UNCHANGED <<file, copy, asked>>
      /\ fresh' \subseteq fresh /\ (clash' => fresh' = {}) /\ (~clash' => ~clash)
  BY DEF BasicTab, Note
<1> QED
  BY <1>3, <1>4, <1>5, <1>6, OthersFaithful DEF Inv, TypeOK, FileTypeOK

\* A window that lets go of its copy says nothing of the file.
LEMMA DropFaithful ==
  ASSUME Inv, Faithful, NEW c \in Processes, NEW writing \in BOOLEAN,
         win' = [win EXCEPT ![c] = Closed], Drop(c, writing), asked' = asked
  PROVE  Faithful'
<1>1. /\ copy' = [copy EXCEPT ![c] = Default] /\ file' = file
      /\ fresh' \subseteq fresh \ {c} /\ (clash' => fresh' = {}) /\ (~clash' => ~clash)
  BY DEF Drop, Note
<1>2. Closed.ask = "none" /\ Default \in Configs
  BY DefaultSound DEF Closed, Sound
<1>3. win'[c].ask = "none" /\ copy' \in [Processes -> Configs]
  BY <1>1, <1>2 DEF Inv, TypeOK, FileTypeOK
<1> QED
  BY <1>1, <1>3, OthersFaithful DEF Inv, TypeOK, FileTypeOK

LEMMA SaveOpenFaithful ==
  ASSUME Inv, Faithful, NEW c \in Processes, SaveOpen(c) PROVE Faithful'
<1>1. /\ UNCHANGED <<copy, asked>> /\ file' = Torn
      /\ fresh' \subseteq fresh /\ (clash' => fresh' = {})
      /\ clash => clash'
      /\ win' = [win EXCEPT ![c].at = "fill"]
  BY DEF SaveOpen, Truncate, Note, Go
<1>2. win \in [Processes -> Wins]
  BY DEF Inv, TypeOK, Wins
<1>3. win'[c].at = "fill" /\ win'[c].ask = win[c].ask /\ win'[c].pico = win[c].pico
  BY <1>1, <1>2 DEF Wins
<1>4. Saving(c)' /\ Asking(c)' = Asking(c)
  BY <1>1, <1>3 DEF Saving, At, Asking
<1>5. c \in fresh' => Agrees(copy'[c], Asking(c)')
  BY <1>1, <1>4 DEF Faithful
<1> QED
  BY <1>1, <1>2, <1>4, <1>5, OthersFaithful DEF Inv, TypeOK, FileTypeOK, Faithful

\* A save that clashes with none puts into the file what was asked, and
\* outruns the copies of all others.
LEMMA SaveFillFaithful ==
  ASSUME Inv, Faithful, NEW c \in Processes, SaveFill(c) PROVE Faithful'
<1> DEFINE next == IF win[c].then = "idle" THEN Closed
                   ELSE [Closed EXCEPT !.at = win[c].then, !.pico = win[c].pico]
<1>1. /\ file' = copy[c] /\ fresh' = {} /\ (~clash' => ~clash /\ c \in fresh)
      /\ (~clash' => asked' = Asking(c))
  BY DEF SaveFill, FillAndDrop, Note
<1>2. win' = [win EXCEPT ![c] = next] /\ next.ask = "none"
  BY DEF SaveFill, Closed
<1> HIDE DEF next
<1>3. \A d \in Processes : Saving(d)' \/ win'[d].ask = "none"
  BY <1>2 DEF Inv, TypeOK, Faithful, Saving, At
<1>4. ~clash' => Agrees(file', asked')
  BY <1>1 DEF Faithful
<1> QED
  BY <1>1, <1>3, <1>4 DEF Faithful, Agrees, Saved

LEMMA NextFaithful == Inv /\ Faithful /\ [SavedNext]_savedVars => Faithful'
<1> SUFFICES ASSUME Inv, Faithful, [SavedNext]_savedVars PROVE Faithful'
  OBVIOUS
<1>1. ASSUME NEW c \in Processes, Leave(c) \/ Close(c) PROVE Faithful'
  <2>1. /\ \E writing \in BOOLEAN : Drop(c, writing)
        /\ win' = [win EXCEPT ![c] = Closed] /\ asked' = asked
    BY <1>1 DEF Leave, Close, Return, At
  <2> QED
    BY <2>1, DropFaithful
<1>2. ASSUME NEW c \in Processes,
             \/ SaveIdentity(c, "keep", "nickname") \/ FindLastIp(c) \/ AddPico(c)
      PROVE  Faithful'
  BY <1>2, SaveIdentityFaithful DEF FindLastIp, AddPico
<1>3. CASE UNCHANGED savedVars
  BY <1>3 DEF savedVars, fileVars, Faithful, Agrees, Saved, Saving, At, Asking
<1> QED
  BY <1>1, <1>2, <1>3, ScanFaithful, BasicTabFaithful, RenameFaithful, RemoveFaithful,
     SaveRoutesFaithful, AddKeyFaithful, SaveOpenFaithful, SaveFillFaithful DEF SavedNext

\* Any number of Picos and windows: as long as no save was cut short, read half-way
\* or overtaken, the file lists what the user asked for, no more and no less
\* (cmd_home.rs; config.rs:83-160).
THEOREM TheListIsAsAsked == SavedSpec => []ListAsAsked
<1>1. Faithful => ListAsAsked
  BY DEF Faithful, Agrees, ListAsAsked
<1> QED
  BY InitInv, NextInv, InitFaithful, NextFaithful, <1>1, PTL DEF SavedSpec

-----------------------------------------------------------------------------
(* The start of a stream.                                                  *)

\* What is a controller is known as one to a sequence of Picos or routes.
Current(ts) ==
    \A i \in DOMAIN ts : persona[ts[i].pico] = "usb" => ts[i].persona = "usb"

\* Unless a Pico was made a controller or Windows did not tell: the controllers are
\* known up to the stream, and from the check on no Bluetooth Pico of it is one.
Known ==
    /\ phase \in {"found", "released"} => Current(picos)
    /\ phase \in {"verify", "source", "links"} => Current(routes)
    /\ phase \in {"source", "links"} => OwnPads(BluetoothPicos(routes)) = {}
    /\ phase = "streaming" =>
           OwnPads(links) = {} /\ \A p \in links : persona[p] = "bluetooth"

\* At most one route to a Pico, and from a slot if they were laid out automatically.
Apart(rs, byAuto) ==
    \A i, j \in DOMAIN rs : i # j =>
        rs[i].pico # rs[j].pico /\ (byAuto => rs[i].slot # rs[j].slot)

StartInv ==
    /\ StartTypeOK
    /\ phase = "found" => picos # <<>>
    /\ ~excused => Known
    /\ Apart(routes, auto)
    /\ NoFeedback

Routings == [slot : Int, pico : Pico, persona : Personas]

-----------------------------------------------------------------------------
(* Picos and routes in order.                                              *)

\* What a table over the first n numbers is.
LEMMA TableIsSeq ==
  ASSUME NEW n \in Nat, NEW S, NEW f \in [1..n -> S]
  PROVE  f \in Seq(S) /\ DOMAIN f = 1..n
  BY SeqDef

LEMMA SeqTable ==
  ASSUME NEW S, NEW f \in Seq(S)
  PROVE  Len(f) \in Nat /\ DOMAIN f = 1..Len(f) /\ f \in [1..Len(f) -> S]
  OBVIOUS

LEMMA TargetType ==
  ASSUME StartInv, NEW p \in Pico
  PROVE  Target(p) \in Targets /\ Target(p).pico = p /\ Target(p).persona = persona[p]
  BY DEF Target, Targets, StartInv, StartTypeOK

\* Sequences of targets as they are now.
Found(ts) == ts \in Seq(Targets) /\ Current(ts)

LEMMA OrderedFound ==
  ASSUME StartInv, NEW S \in SUBSET Pico, NEW s \in Orders(S)
  PROVE  Found([i \in DOMAIN s |-> Target(s[i])])
<1>1. Cardinality(S) \in Nat
  BY StreamStartAssumption, FS_Subset, FS_CardinalityType
<1>2. s \in [1..Cardinality(S) -> S]
  BY DEF Orders
<1>3. \A i \in 1..Cardinality(S) : s[i] \in Pico
  BY <1>2
<1>4. [i \in DOMAIN s |-> Target(s[i])] \in [1..Cardinality(S) -> Targets]
  BY <1>2, <1>3, TargetType
<1> QED
  BY <1>1, <1>2, <1>3, <1>4, TableIsSeq, TargetType DEF Found, Current

LEMMA MergeFound ==
  ASSUME StartInv, NEW found, Found(found), NEW p \in Pico
  PROVE  Found(MergeUnique(found, p))
<1>0. Target(p) \in Targets /\ Target(p).pico = p /\ Target(p).persona = persona[p]
  BY TargetType
<1>1. found \in Seq(Targets) /\ Len(found) \in Nat /\ DOMAIN found = 1..Len(found)
  BY SeqTable DEF Found
<1>2. CASE p \in PicosOf(found)
  <2> DEFINE merged == [i \in DOMAIN found |->
                 IF found[i].pico = p THEN Target(p) ELSE found[i]]
  <2>1. merged \in [1..Len(found) -> Targets]
    BY <1>0, <1>1
  <2>2. MergeUnique(found, p) = merged
    BY <1>2 DEF MergeUnique
  <2>3. Current(merged)
    BY <1>0, <1>1 DEF Current, Found
  <2>4. merged \in Seq(Targets)
    BY <1>1, <2>1, TableIsSeq
  <2> QED
    BY <2>2, <2>3, <2>4 DEF Found
<1>3. CASE p \notin PicosOf(found)
  <2>1. MergeUnique(found, p) = Append(found, Target(p))
    BY <1>3 DEF MergeUnique
  <2>2. Append(found, Target(p)) \in Seq(Targets)
    BY <1>0, <1>1
  <2>3. Current(Append(found, Target(p)))
    BY <1>0, <1>1 DEF Current, Found
  <2> QED
    BY <2>1, <2>2, <2>3 DEF Found
<1> QED
  BY <1>2, <1>3

LEMMA JoinFound ==
  ASSUME NEW a, NEW b, Found(a), Found(b)
  PROVE  Found(a \o b)
<1>1. a \in Seq(Targets) /\ b \in Seq(Targets)
  BY DEF Found
<1>2. a \o b \in Seq(Targets) /\ Len(a \o b) = Len(a) + Len(b)
      /\ \A i \in 1..Len(a) + Len(b) :
            (a \o b)[i] = IF i <= Len(a) THEN a[i] ELSE b[i - Len(a)]
  BY <1>1, ConcatProperties
<1>3. Current(a \o b)
  BY <1>1, <1>2 DEF Found, Current
<1> QED
  BY <1>2, <1>3 DEF Found

\* The numbers of a set in order are told apart.
LEMMA SortedApart ==
  ASSUME NEW S \in SUBSET Int, NEW f \in Sorted(S)
  PROVE  /\ \A i \in DOMAIN f : f[i] \in S
         /\ \A i, j \in DOMAIN f : i \in Int /\ j \in Int /\ i # j => f[i] # f[j]
<1>1. \A i \in DOMAIN f : f[i] \in S /\ f[i] \in Int
  BY DEF Sorted
<1>2. \A i, j \in DOMAIN f : i < j => f[i] < f[j]
  BY DEF Sorted
<1> QED
  BY <1>1, <1>2

\* Those that are in a mode, in their order.
LEMMA ReadyFound ==
  ASSUME StartInv, NEW desired, NEW ready \in Ready(desired)
  PROVE  ready \in Seq(Targets) /\ (Current(picos) => Current(ready))
<1> DEFINE S == {j \in DOMAIN picos : picos[j].persona = desired}
<1>1. picos \in Seq(Targets) /\ Len(picos) \in Nat /\ DOMAIN picos = 1..Len(picos)
  BY SeqTable DEF StartInv, StartTypeOK
<1>2. Cardinality(S) \in Nat
  <2>1. IsFiniteSet(1..Len(picos)) /\ S \subseteq 1..Len(picos)
    BY <1>1, FS_Interval
  <2> QED
    BY <2>1, FS_Subset, FS_CardinalityType
<1>3. PICK f \in Sorted(S) : ready = [i \in DOMAIN f |-> picos[f[i]]]
  BY DEF Ready
<1>4. f \in [1..Cardinality(S) -> S]
  BY DEF Sorted
<1>5. ready \in [1..Cardinality(S) -> Targets]
  BY <1>1, <1>3, <1>4
<1> QED
  BY <1>2, <1>3, <1>4, <1>5, TableIsSeq DEF Current

\* What the routes are.
LEMMA Wired ==
  ASSUME StartInv
  PROVE  /\ routes \in Seq(Wires) /\ Len(routes) \in Nat /\ DOMAIN routes = 1..Len(routes)
         /\ routes \in [1..Len(routes) -> Wires]
         /\ \A i \in DOMAIN routes : /\ routes[i] \in Wires
                                    /\ routes[i].pico \in Pico /\ routes[i].slot \in Slot
         /\ BluetoothPicos(routes) \subseteq Pico /\ links \subseteq Pico
<1>1. routes \in Seq(Wires)
  BY DEF StartInv, StartTypeOK
<1>2. /\ Len(routes) \in Nat /\ DOMAIN routes = 1..Len(routes)
      /\ routes \in [1..Len(routes) -> Wires]
  BY <1>1, SeqTable
<1>3. \A i \in DOMAIN routes : /\ routes[i] \in Wires
                              /\ routes[i].pico \in Pico /\ routes[i].slot \in Slot
  BY <1>2 DEF Wires
<1> QED
  BY <1>1, <1>2, <1>3 DEF BluetoothPicos, StartInv, StartTypeOK

-----------------------------------------------------------------------------
(* Into the stream.                                                        *)

\* A layout that may be streamed.
Laid(rs) == rs \in Seq(Routings) /\ (~excused => Current(rs))

LEMMA RouteType ==
  ASSUME NEW s \in Int, NEW t \in Targets
  PROVE  /\ Route(s, t) \in Routings
         /\ Route(s, t).slot = s /\ Route(s, t).pico = t.pico
         /\ Route(s, t).persona = t.persona
  BY DEF Route, Routings, Targets

LEMMA AutoRoutesLaid ==
  ASSUME StartInv, NEW targets \in Seq(Targets), NEW preferred \in SUBSET Slot,
         ~excused => Current(targets), NEW rs \in AutoRoutes(targets, preferred)
  PROVE  /\ Laid(rs)
         /\ \A i, j \in DOMAIN rs : i # j => rs[i].slot # rs[j].slot
<1> DEFINE slots == IF preferred # {} THEN preferred
                    ELSE IF Live # {} THEN Live ELSE 0..(Len(targets) - 1)
<1>1. Len(targets) \in Nat /\ DOMAIN targets = 1..Len(targets)
      /\ \A i \in 1..Len(targets) : targets[i] \in Targets
  BY SeqTable
<1>2. Cardinality(Slot) \in Nat /\ Slot \subseteq Int
  BY StreamStartAssumption, FS_CardinalityType
<1>3. slots \subseteq Int
  <2>1. preferred \subseteq Int /\ Live \subseteq Int
    BY <1>2 DEF Live
  <2>2. 0..(Len(targets) - 1) \subseteq Int
    BY <1>1
  <2> QED
    BY <2>1, <2>2
<1>4. PICK f \in Sorted(slots) :
         /\ DOMAIN targets \subseteq DOMAIN f
         /\ rs = [i \in DOMAIN targets |-> Route(f[i], targets[i])]
  BY DEF AutoRoutes
<1> HIDE DEF slots
<1>5. /\ \A i \in 1..Len(targets) : f[i] \in Int
      /\ \A i, j \in 1..Len(targets) : i # j => f[i] # f[j]
  <2>1. \A i \in 1..Len(targets) : i \in DOMAIN f /\ i \in Int
    BY <1>1, <1>4
  <2> QED
    BY <1>3, <2>1, SortedApart
<1>6. \A i \in 1..Len(targets) :
         /\ rs[i] \in Routings /\ rs[i].slot = f[i]
         /\ rs[i].pico = targets[i].pico /\ rs[i].persona = targets[i].persona
  BY <1>1, <1>4, <1>5, RouteType
<1>7. rs \in [1..Len(targets) -> Routings]
  BY <1>1, <1>4, <1>6
<1>8. rs \in Seq(Routings) /\ DOMAIN rs = 1..Len(targets)
  BY <1>1, <1>7, TableIsSeq
<1>9. ~excused => Current(rs)
  BY <1>1, <1>6, <1>8 DEF Current
<1> QED
  BY <1>5, <1>6, <1>8, <1>9 DEF Laid

LEMMA MatchedFound ==
  ASSUME StartInv, NEW selectors, NEW t \in Matched(selectors)
  PROVE  t \in Targets /\ (Current(picos) /\ persona[t.pico] = "usb" => t.persona = "usb")
<1>1. \E i \in DOMAIN picos : t = picos[i]
  BY DEF Matched, Matching, SingleMatch
<1>2. \A i \in DOMAIN picos : picos[i] \in Targets
  <2>1. picos \in Seq(Targets)
    BY DEF StartInv, StartTypeOK
  <2> QED
    BY <2>1, SeqTable
<1> QED
  BY <1>1, <1>2 DEF Current

LEMMA RouteSpecsLaid ==
  ASSUME StartInv, phase = "found", NEW rs \in RouteSpecs
  PROVE  Laid(rs)
<1>1. ~excused => Current(picos)
  BY DEF StartInv, Known
<1>2. Slot \subseteq Int
  BY StreamStartAssumption, FS_CardinalityType
<1>3. ASSUME NEW a \in Pairs
      PROVE  a \in Seq(Routings) /\ Len(a) = 1 /\ (~excused => Current(a))
  <2>1. PICK s \in Slot, t \in Matched(Pico \cup {Board}) : a = <<Route(s, t)>>
    BY DEF Pairs
  <2>2. t \in Targets /\ (~excused /\ persona[t.pico] = "usb" => t.persona = "usb")
    BY <1>1, MatchedFound
  <2>3. /\ Route(s, t) \in Routings /\ Route(s, t).pico = t.pico
        /\ Route(s, t).persona = t.persona
    BY <1>2, <2>2, RouteType
  <2>4. a \in Seq(Routings) /\ Len(a) = 1 /\ DOMAIN a = 1..1 /\ a[1] = Route(s, t)
    BY <2>1, <2>3
  <2> QED
    BY <2>2, <2>3, <2>4 DEF Current
<1>4. CASE rs \in Pairs
  BY <1>3, <1>4 DEF Laid
<1>5. ASSUME NEW a \in Pairs, NEW b \in Pairs, rs = a \o b
      PROVE  Laid(rs)
  <2>1. /\ rs \in Seq(Routings) /\ Len(rs) = 2
        /\ rs[1] = a[1] /\ rs[2] = b[1] /\ DOMAIN rs = 1..2
    BY <1>3, <1>5, ConcatProperties
  <2>2. DOMAIN a = 1..1 /\ DOMAIN b = 1..1
    BY <1>3
  <2>3. ~excused => Current(rs)
    BY <1>3, <2>1, <2>2 DEF Current
  <2> QED
    BY <2>1, <2>3 DEF Laid
<1> QED
  BY <1>4, <1>5 DEF RouteSpecs

LEMMA EndKeeps ==
  ASSUME StartInv, End, UNCHANGED world
  PROVE  StartInv'
<1>1. StartTypeOK'
  <2>1. /\ picos' = <<>> /\ routes' = <<>> /\ links' = {} /\ fed' = {} /\ phase' = "idle"
        /\ auto' = FALSE /\ excused' = FALSE /\ UNCHANGED <<persona, plugged, pads>>
    BY DEF End, world
  <2>2. picos' \in Seq(Targets)
        /\ routes' \in Seq(Wires)
    BY <2>1
  <2> QED
    BY <2>1, <2>2 DEF StartInv, StartTypeOK
<1> QED
  BY <1>1 DEF StartInv, End, Known, Apart, NoFeedback

LEMMA StreamKeeps ==
  ASSUME StartInv, NEW rs, Laid(rs), NEW byAuto \in BOOLEAN,
         byAuto => \A i, j \in DOMAIN rs : i # j => rs[i].slot # rs[j].slot,
         Stream(rs, byAuto), UNCHANGED world
  PROVE  StartInv'
<1>1. CASE End
  BY <1>1, EndKeeps
<1>2. CASE ~End
  <2>1. /\ Valid(rs) /\ routes' = rs /\ auto' = byAuto /\ picos' = <<>>
        /\ phase' = IF \E i \in DOMAIN rs : IsBluetooth(rs[i]) THEN "verify" ELSE "links"
        /\ UNCHANGED <<links, fed, excused>>
    BY <1>2 DEF Stream
  <2>2. Len(rs) \in Nat /\ DOMAIN rs = 1..Len(rs) /\ \A i \in DOMAIN rs : rs[i] \in Routings
    BY SeqTable DEF Laid
  <2>3. rs \in [1..Len(rs) -> Wires]
    BY <2>1, <2>2, SeqTable DEF Laid, Valid, Routings, Wires
  <2>4. rs \in Seq(Wires)
    BY <2>2, <2>3, TableIsSeq
  <2>5. StartTypeOK'
    BY <2>1, <2>4 DEF StartInv, StartTypeOK, world
  <2>6. ~excused' => Known'
    <3>1. ~excused => Current(routes)'
      BY <2>1 DEF Laid, Current, world
    <3>2. phase' = "links" => BluetoothPicos(rs) = {}
      BY <2>1 DEF BluetoothPicos
    <3> QED
      BY <2>1, <3>1, <3>2 DEF Known, OwnPads
  <2>7. Apart(routes, auto)'
    BY <2>1 DEF Valid, Apart
  <2>8. NoFeedback'
    BY <2>1 DEF NoFeedback, StartInv
  <2> QED
    BY <2>1, <2>5, <2>6, <2>7, <2>8 DEF StartInv
<1> QED
  BY <1>1, <1>2

-----------------------------------------------------------------------------
(* The steps.                                                              *)

LEMMA InitStartInv == StartInit => StartInv
<1> SUFFICES ASSUME StartInit PROVE StartInv
  OBVIOUS
<1>1. StartTypeOK
  <2>1. /\ picos = <<>> /\ routes = <<>> /\ links = {} /\ fed = {} /\ phase = "idle"
        /\ auto = FALSE /\ excused = FALSE
        /\ persona \in [Pico -> Personas] /\ plugged \subseteq Pico
    BY DEF StartInit
  <2>2. pads \in [Slot -> {Free, User} \cup Pico]
    BY DEF StartInit
  <2>3. picos \in Seq(Targets)
        /\ routes \in Seq(Wires)
    BY <2>1
  <2> QED
    BY <2>1, <2>2, <2>3 DEF StartTypeOK
<1> QED
  BY <1>1 DEF StartInit, StartInv, Known, Apart, NoFeedback

LEMMA DiscoverKeeps == StartInv /\ Discover => StartInv'
<1> SUFFICES ASSUME StartInv, Discover PROVE StartInv'
  OBVIOUS
<1>1. PICK found \in DiscoverPicos :
        \E recovered \in WithRecovered(found) : picos' \in WithManual(recovered)
  BY DEF Discover
<1>2. Found(found)
  BY OrderedFound DEF DiscoverPicos
<1>3. PICK recovered \in WithRecovered(found) : picos' \in WithManual(recovered)
  BY <1>1
<1>4. Found(recovered)
  BY <1>2, <1>3, MergeFound DEF WithRecovered
<1>5. Found(picos')
  <2>1. CASE picos' = <<>>
    BY <2>1 DEF Found, Current
  <2>2. ASSUME NEW ips \in ManualIps,
               picos' = recovered \o [i \in DOMAIN ips |-> ProbeIp(ips[i])]
        PROVE  Found(picos')
    <3>1. Found([i \in DOMAIN ips |-> Target(ips[i])])
      BY OrderedFound DEF ManualIps
    <3> QED
      BY <1>4, <2>2, <3>1, JoinFound DEF ProbeIp
  <2> QED
    BY <1>3, <2>1, <2>2 DEF WithManual
<1>6. /\ UNCHANGED <<world, routes, auto, links, fed, excused>>
      /\ phase' \in {"idle", "found"} /\ (phase' = "found" => picos' # <<>>)
  BY DEF Discover
<1>7. StartTypeOK'
  BY <1>5, <1>6 DEF StartInv, StartTypeOK, world, Found
<1>8. Current(picos)'
  BY <1>5, <1>6 DEF Found, Current, world
<1> QED
  BY <1>6, <1>7, <1>8 DEF StartInv, Known, Apart, NoFeedback

LEMMA LayoutKeeps ==
  ASSUME StartInv, RunRoutes \/ RunPicos \/ RunLegacySingle \/ PersonaRoutes \/ HomeRoutes
  PROVE  StartInv'
<1>1. /\ picos \in Seq(Targets) /\ Len(picos) \in Nat /\ DOMAIN picos = 1..Len(picos)
      /\ \A i \in DOMAIN picos : picos[i] \in Targets
  <2>1. picos \in Seq(Targets)
    BY DEF StartInv, StartTypeOK
  <2> QED
    BY <2>1, SeqTable
<1>2. phase \in {"found", "released"} /\ ~excused => Current(picos)
  BY DEF StartInv, Known
<1>3. CASE RunRoutes
  <2>1. PICK rs \in RouteSpecs : Stream(rs, FALSE)
    BY <1>3 DEF RunRoutes, SavedRoutes
  <2> QED
    BY <1>3, <2>1, RouteSpecsLaid, StreamKeeps DEF RunRoutes
<1>4. CASE RunPicos
  <2>1. PICK targets \in {picos} \cup NamedPicos :
          \/ \E rs \in AutoRoutes(targets, Slot) : Stream(rs, TRUE)
          \/ AutoRoutes(targets, Slot) = {} /\ End
    BY <1>4 DEF RunPicos
  <2>2. targets \in Seq(Targets) /\ (~excused => Current(targets))
    <3>1. CASE targets = picos
      BY <1>1, <1>2, <1>4, <3>1 DEF RunPicos
    <3>2. ASSUME NEW t \in Matched(Pico \cup {Board}), targets = <<t>>
          PROVE  targets \in Seq(Targets) /\ (~excused => Current(targets))
      <4>1. t \in Targets /\ (~excused /\ persona[t.pico] = "usb" => t.persona = "usb")
        BY <1>2, <1>4, MatchedFound DEF RunPicos
      <4>2. DOMAIN targets = 1..1 /\ targets[1] = t
        BY <3>2
      <4> QED
        BY <3>2, <4>1, <4>2 DEF Current
    <3>3. ASSUME NEW t \in Matched(Pico), NEW u \in Matched(Pico), targets = <<t, u>>
          PROVE  targets \in Seq(Targets) /\ (~excused => Current(targets))
      <4>1. /\ t \in Targets /\ (~excused /\ persona[t.pico] = "usb" => t.persona = "usb")
            /\ u \in Targets /\ (~excused /\ persona[u.pico] = "usb" => u.persona = "usb")
        BY <1>2, <1>4, MatchedFound DEF RunPicos
      <4>2. DOMAIN targets = 1..2 /\ targets[1] = t /\ targets[2] = u
        BY <3>3
      <4> QED
        BY <3>3, <4>1, <4>2 DEF Current
    <3>4. targets \in NamedPicos =>
             \/ \E t \in Matched(Pico \cup {Board}) : targets = <<t>>
             \/ \E t \in Matched(Pico), u \in Matched(Pico) : targets = <<t, u>>
      BY DEF NamedPicos
    <3> QED
      BY <2>1, <3>1, <3>2, <3>3, <3>4
  <2>3. CASE End
    BY <1>4, <2>3, EndKeeps DEF RunPicos
  <2>4. ASSUME NEW rs \in AutoRoutes(targets, Slot), Stream(rs, TRUE)
        PROVE  StartInv'
    BY <1>4, <2>2, <2>4, AutoRoutesLaid, StreamKeeps DEF RunPicos
  <2> QED
    BY <2>1, <2>3, <2>4
<1>5. CASE RunLegacySingle
  <2>1. PICK rs \in AutoRoutes(<<picos[1]>>, {}) : Stream(rs, TRUE)
    BY <1>5 DEF RunLegacySingle
  <2>2. picos # <<>>
    BY <1>5 DEF RunLegacySingle, StartInv
  <2>3. 1 \in DOMAIN picos
    BY <1>1, <2>2
  <2>4. <<picos[1]>> \in Seq(Targets) /\ (~excused => Current(<<picos[1]>>))
    <3>1. DOMAIN <<picos[1]>> = 1..1 /\ <<picos[1]>>[1] = picos[1]
      OBVIOUS
    <3> QED
      BY <1>1, <1>2, <1>5, <2>3, <3>1 DEF Current, RunLegacySingle
  <2> QED
    BY <1>5, <2>1, <2>4, AutoRoutesLaid, StreamKeeps DEF RunLegacySingle
<1>6. CASE PersonaRoutes
  <2>1. PICK desired \in Personas :
          /\ phase = IF desired = "bluetooth" THEN "released" ELSE "found"
          /\ \E ready \in Ready(desired) :
             \E rs \in AutoRoutes(ready, PreferredSlots(desired)) : Stream(rs, TRUE)
          /\ UNCHANGED world
    BY <1>6 DEF PersonaRoutes
  <2>2. PICK ready \in Ready(desired) :
          \E rs \in AutoRoutes(ready, PreferredSlots(desired)) : Stream(rs, TRUE)
    BY <2>1
  <2>3. PICK rs \in AutoRoutes(ready, PreferredSlots(desired)) : Stream(rs, TRUE)
    BY <2>2
  <2>4. ready \in Seq(Targets) /\ (~excused => Current(ready))
    BY <1>2, <2>1, ReadyFound
  <2>5. PreferredSlots(desired) \in SUBSET Slot
    BY DEF PreferredSlots
  <2> QED
    BY <2>1, <2>3, <2>4, <2>5, AutoRoutesLaid, StreamKeeps
<1>7. CASE HomeRoutes
  <2>1. PICK slots \in ChosenSlots :
          Stream([i \in DOMAIN picos |-> Route(slots[i], picos[i])], FALSE)
    BY <1>7 DEF HomeRoutes
  <2> DEFINE rs == [i \in DOMAIN picos |-> Route(slots[i], picos[i])]
  <2>2. Slot \subseteq Int
    BY StreamStartAssumption, FS_CardinalityType
  <2>3. \A i \in DOMAIN picos : slots[i] \in Int
    BY <2>1, <2>2 DEF ChosenSlots
  <2>4. \A i \in DOMAIN picos :
          rs[i] \in Routings /\ rs[i].pico = picos[i].pico /\ rs[i].persona = picos[i].persona
    BY <1>1, <2>3, RouteType
  <2>5. rs \in [1..Len(picos) -> Routings]
    BY <1>1, <2>4
  <2>6. rs \in Seq(Routings)
    BY <1>1, <2>5, TableIsSeq
  <2>7. ~excused => Current(rs)
    BY <1>2, <1>7, <2>4 DEF Current, HomeRoutes
  <2>8. Stream(rs, FALSE) /\ UNCHANGED world
    BY <1>7, <2>1 DEF HomeRoutes
  <2> HIDE DEF rs
  <2> QED
    BY <2>6, <2>7, <2>8, StreamKeeps DEF Laid
<1> QED
  BY <1>3, <1>4, <1>5, <1>6, <1>7

\* The check: no Bluetooth Pico is a controller.
LEMMA VerifyKeeps ==
  ASSUME StartInv, WaitForRelease \/ ReleaseTimesOut \/ Verify
  PROVE  StartInv'
<1>1. CASE WaitForRelease
  <2>1. /\ phase = "found" /\ phase' = "released" /\ (excused' = excused \/ excused' = TRUE)
        /\ UNCHANGED <<persona, plugged, pads, picos, links, fed, routes, auto>>
    BY <1>1 DEF WaitForRelease, GoOn, world
  <2>2. StartTypeOK'
    BY <2>1 DEF StartInv, StartTypeOK
  <2>3. ~excused' => Known'
    BY <2>1 DEF StartInv, Known, Current
  <2> QED
    BY <2>1, <2>2, <2>3 DEF StartInv, Apart, NoFeedback
<1>2. CASE End /\ UNCHANGED world
  BY <1>2, EndKeeps
<1>3. CASE Verify /\ ~End
  <2>1. /\ phase = "verify" /\ phase' = "source"
        /\ (excused' = excused /\ NotASource) \/ excused' = TRUE
        /\ UNCHANGED <<persona, plugged, pads, picos, links, fed, routes, auto>>
    BY <1>3 DEF Verify, GoOn, world
  <2>2. StartTypeOK'
    BY <2>1 DEF StartInv, StartTypeOK
  <2>3. OwnPads(BluetoothPicos(routes))' = OwnPads(BluetoothPicos(routes))
    BY <2>1 DEF OwnPads, BluetoothPicos, IsBluetooth
  <2>4. ~excused' => Known'
    BY <2>1, <2>3 DEF StartInv, Known, Current, NotASource
  <2> QED
    BY <2>1, <2>2, <2>4 DEF StartInv, Apart, NoFeedback
<1> QED
  BY <1>1, <1>2, <1>3 DEF ReleaseTimesOut, Verify

\* A route that moves to another slot is the only one, and goes where it went.
LEMMA DecidedKeeps ==
  ASSUME StartInv
  PROVE  /\ Decided \in Seq(Wires)
         /\ DOMAIN Decided = DOMAIN routes
         /\ \A i \in DOMAIN routes : Decided[i].pico = routes[i].pico
                                    /\ Decided[i].persona = routes[i].persona
         /\ Apart(Decided, auto)
<1>1. /\ routes \in Seq(Wires) /\ Len(routes) \in Nat /\ DOMAIN routes = 1..Len(routes)
      /\ \A i \in DOMAIN routes : routes[i] \in Wires
  BY Wired
<1>2. ASSUME NEW i \in DOMAIN routes
      PROVE  /\ Decision(routes[i]) \in Slot
             /\ Len(routes) # 1 => Decision(routes[i]) = routes[i].slot
  <2>1. routes[i].slot \in Slot
    BY Wired
  <2>2. Cardinality(Live) = 1 => (CHOOSE s \in Live : TRUE) \in Slot
    <3>1. Cardinality(Live) = 1 => Live # {}
      BY FS_EmptySet
    <3> QED
      BY <3>1 DEF Live
  <2> QED
    BY <2>1, <2>2 DEF Decision, MaySwitch
<1>3. \A i \in DOMAIN routes :
        /\ Decided[i] = [routes[i] EXCEPT !.slot = Decision(routes[i])]
        /\ Decided[i] \in Wires
        /\ Decided[i].pico = routes[i].pico /\ Decided[i].persona = routes[i].persona
        /\ Decided[i].slot = Decision(routes[i])
  BY <1>1, <1>2 DEF Decided, Wires
<1>4. Decided \in [1..Len(routes) -> Wires] /\ DOMAIN Decided = DOMAIN routes
  BY <1>1, <1>3 DEF Decided
<1>5. Decided \in Seq(Wires)
  BY <1>1, <1>4, TableIsSeq
<1>6. Apart(Decided, auto)
  <2>1. CASE Len(routes) = 1
    BY <2>1, <1>1, <1>4 DEF Apart
  <2>2. CASE Len(routes) # 1
    <3>1. \A i \in DOMAIN routes : Decided[i].slot = routes[i].slot
      BY <2>2, <1>2, <1>3
    <3>2. \A i \in DOMAIN routes : Decided[i].pico = routes[i].pico
      BY <1>3
    <3>3. Apart(routes, auto) /\ DOMAIN Decided = DOMAIN routes
      BY <1>4 DEF StartInv
    <3> QED
      BY <3>1, <3>2, <3>3 DEF Apart
  <2> QED
    BY <2>1, <2>2
<1> QED
  BY <1>3, <1>4, <1>5, <1>6

\* The Bluetooth Picos stay those, whichever slots feed them.
LEMMA BluetoothDecided == StartInv => BluetoothPicos(Decided) = BluetoothPicos(routes)
  BY DecidedKeeps DEF BluetoothPicos, IsBluetooth

LEMMA LinkKeeps ==
  ASSUME StartInv, SourcesReady \/ SourcesMissing \/ OpenLinks
  PROVE  StartInv'
<1>1. CASE End /\ UNCHANGED world
  BY <1>1, EndKeeps
<1>2. CASE SourcesReady
  <2>1. /\ phase = "source" /\ phase' = "links" /\ routes' = Decided
        /\ UNCHANGED <<persona, plugged, pads, picos, links, fed, auto, excused>>
    BY <1>2 DEF SourcesReady, GoOn, world
  <2>2. StartTypeOK'
    BY <2>1, DecidedKeeps DEF StartInv, StartTypeOK
  <2>3. ~excused' => Known'
    <3>1. OwnPads(BluetoothPicos(routes))' = OwnPads(BluetoothPicos(Decided))
      BY <2>1 DEF OwnPads, BluetoothPicos, IsBluetooth
    <3>2. ~excused => Current(routes) /\ OwnPads(BluetoothPicos(routes)) = {}
      BY <2>1 DEF StartInv, Known
    <3>3. Current(routes) => Current(routes)'
      BY <2>1, DecidedKeeps DEF Current
    <3> QED
      BY <2>1, <3>1, <3>2, <3>3, BluetoothDecided DEF Known
  <2> QED
    BY <2>1, <2>2, <2>3, DecidedKeeps DEF StartInv, NoFeedback
<1>3. CASE OpenLinks /\ ~End
  <2>1. /\ phase = "links" /\ \A p \in BluetoothPicos(routes) : CanLink(p)
        /\ phase' = "streaming" /\ links' = BluetoothPicos(routes)
        /\ UNCHANGED <<persona, plugged, pads, picos, routes, auto, fed, excused>>
    BY <1>3 DEF OpenLinks, world
  <2>2. links' \subseteq Pico
    BY <2>1 DEF CanLink, StartInv, StartTypeOK
  <2>3. StartTypeOK'
    BY <2>1, <2>2 DEF StartInv, StartTypeOK
  <2> QED
    BY <2>1, <2>3 DEF StartInv, Known, OwnPads, CanLink, Apart, NoFeedback
<1> QED
  BY <1>1, <1>2, <1>3 DEF SourcesMissing, OpenLinks

\* A tick feeds linked Picos only, and they are no controllers.
LEMMA TickKeeps ==
  ASSUME StartInv, Tick
  PROVE  StartInv'
<1>1. CASE End /\ UNCHANGED world
  BY <1>1, EndKeeps
<1>2. CASE ~End
  <2>1. /\ phase = "streaming" /\ BluetoothPicos(routes) \subseteq links
        /\ routes' = Decided /\ fed' = Feeds
        /\ UNCHANGED <<persona, plugged, pads, phase, picos, auto, links, excused>>
    BY <1>2 DEF Tick, world
  <2>2. ASSUME NEW f \in Feeds
        PROVE  /\ f \in ({Free, User} \cup Pico) \X Pico
               /\ f[2] \in links
               /\ \E s \in Slot : f[1] = pads[s]
    <3>1. PICK i \in DOMAIN routes : f = <<Source(i), routes[i].pico>> /\ IsBluetooth(routes[i])
      BY DEF Feeds
    <3>2. Decided[i].slot \in Slot /\ routes[i].pico \in Pico
      <4>1. \A k \in DOMAIN Decided : Decided[k] \in Wires
        BY DecidedKeeps, SeqTable
      <4> QED
        BY <4>1, DecidedKeeps, Wired DEF Wires
    <3>3. pads[Decided[i].slot] \in {Free, User} \cup Pico
      BY <3>2 DEF StartInv, StartTypeOK
    <3>4. routes[i].pico \in links
      BY <2>1, <3>1 DEF BluetoothPicos
    <3> QED
      BY <3>1, <3>2, <3>3, <3>4 DEF Source
  <2>3. StartTypeOK'
    BY <2>1, <2>2, DecidedKeeps DEF StartInv, StartTypeOK
  <2>4. ~excused => Known
    BY DEF StartInv
  <2>5. ~excused' => Known'
    BY <2>1, <2>4 DEF Known, OwnPads
  <2>6. NoFeedback'
    <3> SUFFICES ASSUME ~excused, NEW f \in Feeds, f[1] = f[2] PROVE FALSE
      BY <2>1 DEF NoFeedback
    <3>1. OwnPads(links) = {}
      BY <2>1, <2>4 DEF Known
    <3> QED
      BY <2>2, <3>1 DEF OwnPads
  <2> QED
    BY <2>1, <2>3, <2>5, <2>6, DecidedKeeps DEF StartInv
<1> QED
  BY <1>1, <1>2 DEF Tick

LEMMA RecoveryKeeps ==
  ASSUME StartInv, ApplyRecovery
  PROVE  StartInv'
<1>1. PICK i \in DOMAIN routes :
        routes' = [routes EXCEPT ![i].persona = persona[routes[i].pico]]
  BY DEF ApplyRecovery
<1>2. /\ phase = "streaming" /\ fed' = {}
      /\ UNCHANGED <<persona, plugged, pads, phase, picos, auto, links, excused>>
  BY DEF ApplyRecovery, world
<1>3. /\ Len(routes) \in Nat /\ DOMAIN routes = 1..Len(routes)
      /\ \A j \in DOMAIN routes : routes[j] \in Wires /\ routes[j].pico \in Pico
      /\ routes \in [1..Len(routes) -> Wires]
  BY Wired
<1>4. persona[routes[i].pico] \in Personas
  BY <1>3 DEF StartInv, StartTypeOK
<1>5. /\ DOMAIN routes' = DOMAIN routes
      /\ \A j \in DOMAIN routes :
            /\ routes'[j] \in Wires
            /\ routes'[j].pico = routes[j].pico /\ routes'[j].slot = routes[j].slot
  BY <1>1, <1>3, <1>4 DEF Wires
<1>6. routes' \in [1..Len(routes) -> Wires]
  BY <1>1, <1>3, <1>5
<1>7. routes' \in Seq(Wires)
  BY <1>3, <1>6, TableIsSeq
<1>8. StartTypeOK'
  BY <1>2, <1>7 DEF StartInv, StartTypeOK
<1> QED
  BY <1>2, <1>5, <1>8 DEF StartInv, Known, Apart, NoFeedback, OwnPads

\* Outside: a Pico in a Bluetooth mode becomes no controller.
LEMMA OutsideKeeps ==
  ASSUME StartInv,
         PadAppears \/ PadVanishes \/ \E p \in Pico : SwitchMode(p) \/ Unplug(p)
  PROVE  StartInv'
<1>1. fed' = {} /\ UNCHANGED <<phase, picos, routes, auto>>
  BY DEF PadAppears, PadVanishes, SwitchMode, Unplug, Outside
<1>2. BluetoothPicos(routes)' = BluetoothPicos(routes)
  BY <1>1 DEF BluetoothPicos, IsBluetooth
<1>3. CASE PadAppears
  <2>1. PICK s \in Slot, who \in {User} \cup {p \in plugged : persona[p] = "usb"} :
          pads' = [pads EXCEPT ![s] = who]
    BY <1>3 DEF PadAppears
  <2>2. UNCHANGED <<links, persona, plugged, excused>>
    BY <1>3 DEF PadAppears
  <2>3. StartTypeOK'
    BY <1>1, <2>1, <2>2 DEF StartInv, StartTypeOK
  <2>4. ASSUME NEW S \in SUBSET Pico, \A p \in S : persona[p] # "usb", OwnPads(S) = {}
        PROVE  OwnPads(S)' = {}
    <3>1. who \notin S
      BY <2>4, StreamStartAssumption
    <3>2. pads \in [Slot -> {Free, User} \cup Pico]
      BY DEF StartInv, StartTypeOK
    <3> QED
      BY <2>1, <2>4, <3>1, <3>2 DEF OwnPads
  <2>5. ~excused' => Known'
    <3>1. Current(picos)' = Current(picos) /\ Current(routes)' = Current(routes)
      BY <1>1, <2>2 DEF Current
    <3>2. ~excused => Known
      BY DEF StartInv
    <3>3. Current(routes) => \A p \in BluetoothPicos(routes) : persona[p] # "usb"
      BY DEF Current, BluetoothPicos, IsBluetooth
    <3>4. BluetoothPicos(routes) \subseteq Pico /\ links \subseteq Pico
      BY Wired
    <3>5. OwnPads(links') = OwnPads(links)
      BY <2>2
    <3> QED
      <4>1. phase = "streaming" /\ ~excused => \A p \in links : persona[p] # "usb"
        BY <3>2 DEF Known
      <4> QED
        BY <1>1, <1>2, <2>2, <2>4, <3>1, <3>2, <3>3, <3>4, <4>1 DEF Known
  <2> QED
    BY <1>1, <2>3, <2>5 DEF StartInv, Apart, NoFeedback
<1>4. CASE PadVanishes
  <2>1. PICK s \in Slot : pads' = [pads EXCEPT ![s] = Free]
    BY <1>4 DEF PadVanishes, Live
  <2>2. UNCHANGED <<links, persona, plugged, excused>>
    BY <1>4 DEF PadVanishes
  <2>3. StartTypeOK'
    BY <1>1, <2>1, <2>2 DEF StartInv, StartTypeOK
  <2>4. ASSUME NEW S \in SUBSET Pico, OwnPads(S) = {}
        PROVE  OwnPads(S)' = {}
    <3>1. pads \in [Slot -> {Free, User} \cup Pico]
      BY DEF StartInv, StartTypeOK
    <3> QED
      BY <2>1, <2>4, <3>1, StreamStartAssumption DEF OwnPads
  <2>5. ~excused' => Known'
    <3>1. Current(picos)' = Current(picos) /\ Current(routes)' = Current(routes)
      BY <1>1, <2>2 DEF Current
    <3>2. ~excused => Known
      BY DEF StartInv
    <3>4. BluetoothPicos(routes) \subseteq Pico /\ links \subseteq Pico
      BY Wired
    <3> QED
      BY <1>1, <1>2, <2>2, <2>4, <3>1, <3>2, <3>4 DEF Known
  <2> QED
    BY <1>1, <2>3, <2>5 DEF StartInv, Apart, NoFeedback
<1>5. ASSUME NEW p \in Pico, SwitchMode(p) PROVE StartInv'
  <2>1. /\ \E m \in Personas : persona' = [persona EXCEPT ![p] = m]
        /\ links' = links \ {p} /\ UNCHANGED <<plugged, pads>>
        /\ excused' = (excused \/ (persona'[p] = "usb" /\ phase \notin {"idle", "streaming"}))
    <3>1. PICK m \in Personas \ {persona[p]} :
             /\ persona' = [persona EXCEPT ![p] = m]
             /\ excused' = (excused \/ (m = "usb" /\ phase \notin {"idle", "streaming"}))
      BY <1>5 DEF SwitchMode
    <3>2. persona'[p] = m
      BY <3>1 DEF StartInv, StartTypeOK
    <3> QED
      BY <1>5, <3>1, <3>2 DEF SwitchMode, Outside
  <2>2. StartTypeOK'
    BY <1>1, <2>1 DEF StartInv, StartTypeOK
  <2>3. phase = "streaming" /\ ~excused =>
          OwnPads(links) = {} /\ \A q \in links : persona[q] = "bluetooth"
    BY DEF StartInv, Known
  <2>4. \A q \in links' : q \in links /\ persona'[q] = persona[q]
    BY <2>1 DEF StartInv, StartTypeOK
  <2>5. OwnPads(links)' \subseteq OwnPads(links)
    BY <2>1 DEF OwnPads
  <2>6. ASSUME ~excused', phase \notin {"idle", "streaming"} PROVE Known'
    <3>1. \A q \in Pico : persona'[q] = "usb" => persona[q] = "usb"
      BY <2>1, <2>6 DEF StartInv, StartTypeOK
    <3>2. \A i \in DOMAIN picos : picos[i].pico \in Pico
      <4>1. picos \in Seq(Targets)
        BY DEF StartInv, StartTypeOK
      <4>2. picos \in [1..Len(picos) -> Targets] /\ DOMAIN picos = 1..Len(picos)
        BY <4>1, SeqTable
      <4> QED
        BY <4>2 DEF Targets
    <3>3. \A i \in DOMAIN routes : routes[i].pico \in Pico
      BY Wired
    <3>4. Known
      BY <2>1, <2>6 DEF StartInv
    <3>5. (Current(picos) => Current(picos)') /\ (Current(routes) => Current(routes)')
      BY <1>1, <3>1, <3>2, <3>3 DEF Current
    <3> QED
      BY <1>1, <2>1, <2>6, <3>4, <3>5 DEF Known, OwnPads, BluetoothPicos, IsBluetooth
  <2>7. ASSUME ~excused', phase \in {"idle", "streaming"} PROVE Known'
    BY <1>1, <2>1, <2>3, <2>4, <2>5, <2>7 DEF Known
  <2>8. ~excused' => Known'
    BY <2>6, <2>7
  <2> QED
    BY <1>1, <2>2, <2>8 DEF StartInv, Apart, NoFeedback
<1>6. ASSUME NEW p \in Pico, Unplug(p) PROVE StartInv'
  <2>1. /\ plugged' = plugged \ {p} /\ links' = links \ {p}
        /\ UNCHANGED <<persona, pads, excused>>
    BY <1>6 DEF Unplug
  <2>2. StartTypeOK'
    BY <1>1, <2>1 DEF StartInv, StartTypeOK
  <2>3. OwnPads(links)' \subseteq OwnPads(links)
    BY <2>1 DEF OwnPads
  <2>4. ~excused' => Known'
    <3>1. Current(picos)' = Current(picos) /\ Current(routes)' = Current(routes)
      BY <1>1, <2>1 DEF Current
    <3>2. OwnPads(BluetoothPicos(routes))' = OwnPads(BluetoothPicos(routes))
      BY <1>2, <2>1 DEF OwnPads
    <3> QED
      BY <1>1, <2>1, <2>3, <3>1, <3>2 DEF StartInv, Known
  <2> QED
    BY <1>1, <2>2, <2>4 DEF StartInv, Apart, NoFeedback
<1> QED
  BY <1>3, <1>4, <1>5, <1>6

LEMMA NextStartInv == StartInv /\ [StartNext]_startVars => StartInv'
<1> SUFFICES ASSUME StartInv, [StartNext]_startVars PROVE StartInv'
  OBVIOUS
<1>1. CASE UNCHANGED startVars
  <2>1. UNCHANGED <<persona, plugged, pads, phase, picos, routes, auto, links, fed, excused>>
    BY <1>1 DEF startVars, world
  <2> QED
    BY <2>1 DEF StartInv, StartTypeOK, Known, Current, OwnPads, BluetoothPicos,
       IsBluetooth, Apart, NoFeedback
<1>2. CASE Stop
  BY <1>2, EndKeeps DEF Stop
<1> QED
  BY <1>1, <1>2, DiscoverKeeps, LayoutKeeps, VerifyKeeps, LinkKeeps, TickKeeps,
     RecoveryKeeps, OutsideKeeps DEF StartNext

LEMMA StartAlways == StartSpec => []StartInv
  BY InitStartInv, NextStartInv, PTL DEF StartSpec

\* Every variable has its type.
THEOREM StartTyped == StartSpec => []StartTypeOK
  BY StartAlways, PTL DEF StartInv

\* However Picos and controllers come and go before a stream and in it, a
\* Bluetooth Pico is not fed with its own reports (cmd_run.rs:542-725,
\* cmd_run/bluetooth.rs:10-66).
THEOREM NobodyFeedsItself == StartSpec => []NoFeedback
  BY StartAlways, PTL DEF StartInv

\* Every stream has one route at most to a Pico, and a layout made automatically
\* one at most from a slot, whatever its routes move to (cmd_run/routing.rs:22-57,
\* 217-231, cmd_run.rs:706-725).
THEOREM EachHasItsSource == StartSpec => []OneSourceEach
<1>1. StartInv => OneSourceEach
  BY DEF StartInv, Apart, OneSourceEach
<1> QED
  BY <1>1, StartAlways, PTL
=================================================================================
