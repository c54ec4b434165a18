------------------------------- MODULE ConfigFile -------------------------------
(***************************************************************************)
(* config.toml (config.rs), shared without a lock by every bridge process  *)
(* of a PC: a process loads the whole file, changes its copy and writes    *)
(* the whole copy back, and fs::write empties the file before it fills it. *)
(*                                                                         *)
(* Kept of the file: the pairing keys, by number (0: none), the Picos it   *)
(* lists and whether the user has named them, those a route of the saved   *)
(* layout leads to, and the one seen last.  last_uf2, slots and addresses  *)
(* are data nothing here depends on.                                       *)
(***************************************************************************)
EXTENDS Integers

CONSTANTS
    Picos,       \* the Picos of the PC; COM ports sort in their order
    Processes,   \* bridge processes on it
    Nobody,      \* no Pico, or no process
    Torn,        \* a file that does not parse
    MaxKeys      \* pairing keys made

ASSUME ConfigFileAssumption ==
    /\ Picos \subseteq Nat
    /\ MaxKeys \in Nat

VARIABLES
    file,     \* config.toml, or Torn
    copy,     \* the Config in the memory of each process
    made,     \* pairing keys made so far
    \* History.
    fresh,    \* processes whose copy the file has not outrun,
              \* empty once there was a clash
    clash     \* a save was cut short, read half-way, or undone by another's

fileVars == <<file, copy, made, fresh, clash>>

Listed == {"unlisted", "plain", "named"}
Configs == [keys : [Picos -> 0 .. MaxKeys], list : [Picos -> Listed],
            routes : SUBSET Picos, last : Picos \cup {Nobody}]
Default == [keys |-> [p \in Picos |-> 0], list |-> [p \in Picos |-> "unlisted"],
            routes |-> {}, last |-> Nobody]

Saved(cfg) == {p \in Picos : cfg.list[p] # "unlisted"}

FileInit ==
    /\ file = Default
    /\ copy = [c \in Processes |-> Default]
    /\ made = 0
    /\ fresh = {}
    /\ clash = FALSE

-----------------------------------------------------------------------------
(* Changes of a copy.                                                      *)

SetKey(cfg, p, k) == [cfg EXCEPT !.keys[p] = k]
ClearKey(cfg, p) == [cfg EXCEPT !.keys[p] = 0]

\* remember_pico: an identity without a nickname keeps the one on file.
Remember(cfg, p, named) ==
    [cfg EXCEPT !.list[p] = IF named \/ @ = "named" THEN "named" ELSE "plain",
                !.last = p]

\* set_nickname: only of a Pico that is listed.
SetNickname(cfg, p, name) ==
    IF p \in Saved(cfg) THEN [cfg EXCEPT !.list[p] = name] ELSE cfg

\* Mutant: the Pico seen last is not forgotten.
ForgetTheList(cfg, p) ==
    [cfg EXCEPT !.list[p] = "unlisted", !.routes = @ \ {p}]

\* Mutant: the routes to the Pico stay.
ForgetTheName(cfg, p) ==
    [cfg EXCEPT !.list[p] = "unlisted", !.last = IF @ = p THEN Nobody ELSE @]

\* forget_pico: its routes go, its pairing key stays; the first of the Picos
\* left (here any of them) becomes the one seen last.
Forget(cfg, p) ==
    LET left == Saved(cfg) \ {p}
        first == IF left = {} THEN Nobody
                 ELSE CHOOSE q \in left : TRUE
    IN [cfg EXCEPT !.list[p] = "unlisted", !.routes = @ \ {p},
                   !.last = IF @ = p THEN first ELSE @]

-----------------------------------------------------------------------------
(* Access to the file.                                                     *)

\* load().unwrap_or_default()
Read == IF file = Torn THEN Default ELSE file

\* The history: who is up to date after a step, which clashes or does not.
Note(current, clashes) ==
    /\ clash' = (clash \/ clashes)
    /\ fresh' = IF clash' THEN {} ELSE current

Load(c, cfg) ==
    /\ copy' = [copy EXCEPT ![c] = cfg]
    /\ Note(fresh \cup {c}, file = Torn)
    /\ UNCHANGED <<file, made>>

\* save, which is fs::write: the file is emptied, then filled.  Over what
\* another process has saved since it is a clash from the start.
Truncate(c) ==
    /\ file' = Torn
    /\ Note(fresh, c \notin fresh)
    /\ UNCHANGED <<copy, made>>

Fill(c) ==
    /\ file' = copy[c]
    /\ Note(fresh \cap {c}, c \notin fresh)
    /\ UNCHANGED <<copy, made>>

\* A save after which the copy goes out of scope.
FillAndDrop(c) ==
    /\ file' = copy[c]
    /\ copy' = [copy EXCEPT ![c] = Default]
    /\ Note({}, c \notin fresh)
    /\ UNCHANGED made

\* The process ends: its memory is gone; `writing` if it was inside save.
Drop(c, writing) ==
    /\ copy' = [copy EXCEPT ![c] = Default]
    /\ Note(fresh \ {c}, writing)
    /\ UNCHANGED <<file, made>>

FileTypeOK ==
    /\ file \in Configs \cup {Torn}
    /\ copy \in [Processes -> Configs]
    /\ made \in 0 .. MaxKeys
    /\ fresh \subseteq Processes
    /\ clash \in BOOLEAN
=============================================================================
