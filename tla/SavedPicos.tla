------------------------------- MODULE SavedPicos -------------------------------
(***************************************************************************)
(* The Picos a PC remembers: what the home screen (cmd_home.rs) does to    *)
(* config.toml, in several windows at once.  Each screen loads the file,   *)
(* refreshes it from a scan and saves it if that changed it; the user then *)
(* picks an action from the cards drawn from that copy, and the action     *)
(* loads the file again, changes it and saves it.                          *)
(*                                                                         *)
(* A step is what happens between two waits; a window may be closed at any *)
(* of them, also inside a save.  Actions that do not touch the file (blink *)
(* the LED, read the log, flash) only return to the screen; what they do   *)
(* to the Picos is modelled in SetupFlows and ModeFlows.                   *)
(***************************************************************************)
EXTENDS ConfigFile

VARIABLES
    win,      \* what each window is doing
    asked     \* History: what the user last asked of each Pico, "legacy" of one
              \* an old version left, "lost" of all once a save has clashed

savedVars == <<fileVars, win, asked>>

Where == {"wifi", "usb", "unseen"}

Waits == {"idle", "save", "fill", "stream", "keep", "nickname", "rename",
          "find", "remove", "add", "added"}

\* then: where a save leads; pico: the card picked; ask: what the change asks
\* of that Pico's entry.
Closed == [at |-> "idle", then |-> "idle", pico |-> Nobody, ask |-> "none"]

\* A first start, or a file of a version that knew last_pico but no list.
SavedInit ==
    /\ FileInit
    /\ win = [c \in Processes |-> Closed]
    /\ asked = file.list

LegacyInit ==
    \E p \in Picos :
        /\ file = [Default EXCEPT !.last = p]
        /\ copy = [c \in Processes |-> Default]
        /\ made = 0 /\ fresh = {} /\ clash = FALSE
        /\ win = [c \in Processes |-> Closed]
        /\ asked = [Default.list EXCEPT ![p] = "legacy"]

At(c, at) == win[c].at = at
Go(c, at) == win' = [win EXCEPT ![c].at = at]

\* The screen is drawn anew.
Return(c) == win' = [win EXCEPT ![c] = Closed] /\ Drop(c, FALSE)

\* The copy is changed to cfg and saved; then on to `then`.
Change(c, cfg, p, ask, then) ==
    /\ Load(c, cfg)
    /\ win' = [win EXCEPT ![c].at = "save", ![c].then = then,
                          ![c].pico = p, ![c].ask = ask]

Listing(cfg, p) == cfg.list[p]

-----------------------------------------------------------------------------
(* Drawing the screen.                                                     *)

\* refresh_saved_observations: saved Picos heard on Wi-Fi whose version or
\* address is new; the last of them becomes the one seen last.
Refresh(cfg, seen) ==
    {cfg} \cup {Remember(cfg, p, FALSE) : p \in seen \cap Saved(cfg)}

\* seed_saved_picos_from_legacy_last
Seed(cfg) ==
    IF Saved(cfg) = {} /\ cfg.last # Nobody
    THEN Remember(cfg, cfg.last, FALSE) ELSE cfg

\* The actions of a Pico's card: wifi_card, setup_usb_card (one whose number
\* could be read), missing_saved_card.
WifiCard(saved) == {"stream", IF saved THEN "rename" ELSE "keep"}
SetupUsbCard(saved) == {IF saved THEN "rename" ELSE "keep"}
MissingSavedCard == {"find", "rename", "remove"}

\* build_pico_cards
Card(cfg, inv, p) ==
    LET saved == p \in Saved(cfg)
    IN CASE inv[p] = "wifi" -> WifiCard(saved)
         [] inv[p] = "usb" -> SetupUsbCard(saved)
         [] OTHER -> IF saved THEN MissingSavedCard ELSE {}

\* scan_pico_inventory: what the scan says of saved Picos is saved first, and
\* the screen drawn from the result.  (A change of the file during that save
\* may as well come after the pick.)
ScanInventory(c) ==
    /\ At(c, "idle")
    /\ \E heard \in SUBSET Picos :
       \E cfg \in Refresh(Seed(Read), heard) \ {Read} :
           Change(c, cfg, Nobody, "seed", "idle")
    /\ UNCHANGED asked

\* basic_tab: the user picks an action of a card, or to add a Pico.
BasicTab(c) ==
    /\ At(c, "idle")
    /\ Seed(Read) = Read
    /\ \E inv \in [Picos -> Where], p \in Picos :
       \E act \in Card(Read, inv, p) \cup {"add"} :
           win' = [win EXCEPT ![c] = [Closed EXCEPT !.at = act, !.pico = p]]
    /\ Note(fresh, file = Torn)
    /\ UNCHANGED <<file, copy, made, asked>>

-----------------------------------------------------------------------------
(* Actions.                                                                *)

\* save_identity, also once a Pico has answered at its last address.
SaveIdentity(c, from, then) ==
    /\ At(c, from)
    /\ LET p == win[c].pico
           cfg == Remember(Read, p, FALSE)
       IN Change(c, cfg, p, IF Listing(Read, p) = "named" THEN "named" ELSE "plain", then)
    /\ UNCHANGED asked

\* find_saved_pico_by_last_ip: the same Pico answers; if not, nothing is saved.
FindLastIp(c) == SaveIdentity(c, "find", "idle")

\* rename_pico, and prompt_nickname behind a new entry (no name is removed
\* there), both through set_saved_nickname: nothing is saved of a Pico that is
\* no longer listed.
Rename(c) ==
    /\ win[c].at \in {"rename", "nickname"}
    /\ \E name \in {"named", "plain"} :
       LET p == win[c].pico
       IN /\ At(c, "nickname") => name = "named"
          /\ p \in Saved(Read)
          /\ Change(c, SetNickname(Read, p, name), p, name, "idle")
    /\ UNCHANGED asked

\* remove_saved_pico_identity, confirmed.
RemoveSaved(c) ==
    /\ At(c, "remove")
    /\ Change(c, Forget(Read, win[c].pico), win[c].pico, "unlisted", "idle")
    /\ UNCHANGED asked

\* save_routes, as the stream to this Pico starts.
SaveRoutes(c) ==
    /\ At(c, "stream")
    /\ LET p == win[c].pico
       IN Change(c, [Remember(Read, p, FALSE) EXCEPT !.routes = {p}], p,
                 IF Listing(Read, p) = "named" THEN "named" ELSE "plain", "idle")
    /\ UNCHANGED asked

\* add_new_pico: of the setup wizard, the two saves; first the key ...
AddKey(c) ==
    /\ At(c, "add")
    /\ made < MaxKeys
    /\ copy' = [copy EXCEPT ![c] = SetKey(Read, win[c].pico, made + 1)]
    /\ made' = made + 1
    /\ Note(fresh \cup {c}, file = Torn)
    /\ win' = [win EXCEPT ![c].at = "save", ![c].then = "added"]
    /\ UNCHANGED <<file, asked>>

\* ... then the Pico.
AddPico(c) == SaveIdentity(c, "added", "idle")

\* A prompt is left blank, a probe fails, the user says no.
Leave(c) ==
    /\ win[c].at \notin {"idle", "save", "fill"}
    /\ Return(c)
    /\ UNCHANGED asked

-----------------------------------------------------------------------------
(* config::save, in its two halves.                                        *)

SaveOpen(c) ==
    /\ At(c, "save")
    /\ Truncate(c)
    /\ Go(c, "fill")
    /\ UNCHANGED asked

\* What the user has asked for once this save is through.
Asking(c) ==
    CASE win[c].ask = "seed" ->
             [q \in Picos |-> IF asked[q] = "legacy" THEN copy[c].list[q] ELSE asked[q]]
      [] win[c].ask \in Listed -> [asked EXCEPT ![win[c].pico] = win[c].ask]
      [] OTHER -> asked

SaveFill(c) ==
    /\ At(c, "fill")
    /\ FillAndDrop(c)
    /\ win' = [win EXCEPT ![c] =
                  IF @.then = "idle" THEN Closed
                  ELSE [Closed EXCEPT !.at = win[c].then, !.pico = win[c].pico]]
    /\ asked' = IF clash' THEN [q \in Picos |-> "lost"] ELSE Asking(c)

\* The window is closed, or the save fails half-way.
Close(c) ==
    /\ win[c].at # "idle"
    /\ win' = [win EXCEPT ![c] = Closed]
    /\ Drop(c, At(c, "fill"))
    /\ UNCHANGED asked

SavedNext ==
    \E c \in Processes :
        \/ ScanInventory(c) \/ BasicTab(c)
        \/ SaveIdentity(c, "keep", "nickname") \/ FindLastIp(c) \/ Rename(c)
        \/ RemoveSaved(c) \/ SaveRoutes(c) \/ AddKey(c) \/ AddPico(c)
        \/ Leave(c) \/ SaveOpen(c) \/ SaveFill(c) \/ Close(c)

SavedSpec == (SavedInit \/ LegacyInit) /\ [][SavedNext]_savedVars

-----------------------------------------------------------------------------

TypeOK ==
    /\ FileTypeOK
    /\ asked \in [Picos -> Listed \cup {"legacy", "lost"}]
    /\ win \in [Processes -> [at : Waits, then : Waits, pico : Picos \cup {Nobody},
                              ask : Listed \cup {"none", "seed"}]]
    /\ \A c \in Processes : At(c, "idle") => win[c] = Closed /\ copy[c] = Default

\* As long as no save was cut short or ran into another one, the file lists
\* just the Picos the user saved, set up, found or streamed to and has not
\* removed since, under the names given: a scan adds none, a removed one does
\* not come back as "the one seen last", an entry written without a name does
\* not take the name away.
ListAsAsked ==
    ~clash /\ file # Torn =>
        \A p \in Picos : asked[p] \in Listed => file.list[p] = asked[p]

\* Every route of the saved layout leads to a saved Pico, whatever is removed
\* and whichever window saves last: `couchlink run` follows these routes and
\* fails if one leads nowhere.
RoutesAreSaved ==
    file # Torn => file.routes \subseteq Saved(file)
=============================================================================
