----------------------------- MODULE FlashCreds ------------------------------
(***************************************************************************)
(* pico-bridge/src/flash_creds.c: the credential record kept in two flash  *)
(* sectors, A and B.  A store erases and programs the sector that does not *)
(* hold the current record, reads it back and reports; a load takes the    *)
(* valid record with the newer generation, compared with wrap-around.      *)
(*                                                                         *)
(* A sector is abstracted to the record it holds with its generation, or   *)
(* to Blank, which stands for every image that record_is_valid refuses:    *)
(* an erased sector, a page torn by a power cut or by a bad cell (the      *)
(* CRC-32 is assumed to tell a torn page from a whole one).                *)
(***************************************************************************)
EXTENDS Integers

CONSTANTS
    Records,      \* the records a caller may pass, without their generation
    Oversized,    \* those whose length fields are out of range
    Blank,        \* a sector image that is not a valid record
    NoRecord,     \* what a load finds when no sector is valid
    GenModulus    \* generations are counted modulo this (2^32 in the code)

ASSUME FlashCredsAssumption ==
    /\ GenModulus \in Nat /\ GenModulus > 2
    /\ Oversized \subseteq Records
    /\ NoRecord \notin Records
    /\ Blank \notin [gen : 0 .. GenModulus - 1, rec : Records \ Oversized]

VARIABLES
    slots,    \* the two sectors
    stage,    \* where the store call in progress is
    target,   \* the sector it writes
    image,    \* the page it programs
    rc        \* the return code of the last store, "none" while there is none

vars == <<slots, stage, target, image, rc>>

-----------------------------------------------------------------------------

Slots == {"A", "B"}
Other(s) == IF s = "A" THEN "B" ELSE "A"

Gens == 0 .. GenModulus - 1
Images == [gen : Gens, rec : Records \ Oversized]

\* winner->generation + 1 in uint32_t.
NextGen(g) == IF g = GenModulus - 1 THEN 0 ELSE g + 1

\* Mutant: the comparison forgets the wrap.
NewerNoWrap(g, h) == g > h

\* (int32_t)(g - h) > 0: the wrapped difference lies in the positive half.
Newer(g, h) ==
    LET diff == IF g >= h THEN g - h ELSE g - h + GenModulus
    IN  diff > 0 /\ 2 * diff < GenModulus

\* record_is_valid on what the sector reads back.
Valid(s) == slots[s] # Blank

\* The sector flash_creds_load reads; meaningful when one is valid.
Winner ==
    IF Valid("A") /\ Valid("B")
    THEN IF Newer(slots["A"].gen, slots["B"].gen) THEN "A" ELSE "B"
    ELSE IF Valid("A") THEN "A" ELSE "B"

Load == IF Valid(Winner) THEN slots[Winner].rec ELSE NoRecord

\* Mutant: the generation after A's.
StoreGenOfA == IF Valid("A") THEN NextGen(slots["A"].gen) ELSE 1

\* The sector flash_creds_store writes and the generation it gives it.
StoreTarget == IF Valid(Winner) THEN Other(Winner) ELSE "A"
StoreGen == IF Valid(Winner) THEN NextGen(slots[Winner].gen) ELSE 1

-----------------------------------------------------------------------------

Init ==
    /\ slots = [s \in Slots |-> Blank]
    /\ stage = "idle"
    /\ target = "A"
    /\ image = Blank
    /\ rc = "none"

\* flash_creds_store up to the call of program_slot.
StoreBegin(r) ==
    /\ stage = "idle"
    /\ r \notin Oversized
    /\ target' = StoreTarget
    /\ image' = [gen |-> StoreGen, rec |-> r]
    /\ stage' = "erase"
    /\ rc' = "none"
    /\ UNCHANGED slots

\* The length checks at the head of flash_creds_store: rc -1.
StoreRefused(r) ==
    /\ stage = "idle"
    /\ r \in Oversized
    /\ rc' = "bad_length"
    /\ UNCHANGED <<slots, stage, target, image>>

\* flash_safe_execute cannot lock the other core out within 1 s: rc -2.
LockoutFails ==
    /\ stage = "erase"
    /\ rc' = "flash_failed"
    /\ stage' = "idle"
    /\ image' = Blank
    /\ UNCHANGED <<slots, target>>

\* flash_range_erase.
EraseSector ==
    /\ stage = "erase"
    /\ slots' = [slots EXCEPT ![target] = Blank]
    /\ stage' = "program"
    /\ UNCHANGED <<target, image, rc>>

\* flash_range_program; a page that does not program well reads back invalid.
ProgramPage ==
    /\ stage = "program"
    /\ \E page \in {image, Blank} : slots' = [slots EXCEPT ![target] = page]
    /\ stage' = "verify"
    /\ UNCHANGED <<target, image, rc>>

\* Mutant: the page is not read back.
VerifyBlindly ==
    /\ stage = "verify"
    /\ rc' = "ok"
    /\ stage' = "idle"
    /\ image' = Blank
    /\ UNCHANGED <<slots, target>>

\* record_is_valid(back) ? 0 : -3.
Verify ==
    /\ stage = "verify"
    /\ rc' = IF Valid(target) THEN "ok" ELSE "verify_failed"
    /\ stage' = "idle"
    /\ image' = Blank
    /\ UNCHANGED <<slots, target>>

\* Power goes or the chip resets at any instant; flash stays as it is.
PowerLoss ==
    /\ stage' = "idle"
    /\ image' = Blank
    /\ target' = "A"
    /\ rc' = "none"
    /\ UNCHANGED slots

Next ==
    \/ \E r \in Records : StoreBegin(r) \/ StoreRefused(r)
    \/ LockoutFails
    \/ EraseSector
    \/ ProgramPage
    \/ Verify
    \/ PowerLoss

Spec == Init /\ [][Next]_vars

-----------------------------------------------------------------------------

\* Every variable has its type.
TypeOK ==
    /\ slots \in [Slots -> Images \cup {Blank}]
    /\ stage \in {"idle", "erase", "program", "verify"}
    /\ target \in Slots
    /\ image \in Images \cup {Blank}
    /\ rc \in {"none", "ok", "bad_length", "flash_failed", "verify_failed"}

\* When both sectors are valid, one generation is the successor of the other:
\* the comparison in flash_creds_load is never asked about two generations
\* half a turn apart or equal, so "newer" always means "written later".
GenerationsAdjacent ==
    Valid("A") /\ Valid("B") =>
        \/ slots["A"].gen = NextGen(slots["B"].gen)
        \/ slots["B"].gen = NextGen(slots["A"].gen)

\* While a store erases and programs, it works on the sector that does not
\* hold the current record ("keep at least one valid record at all times"),
\* and the page it programs will win over that record.
WritesBesideCurrent ==
    stage \in {"erase", "program"} =>
        /\ image # Blank
        /\ Valid(Other(target)) =>
               /\ Winner = Other(target)
               /\ image.gen = NextGen(slots[Other(target)].gen)
        /\ ~Valid(Other(target)) => ~Valid(target)
        /\ stage = "program" => ~Valid(target)

\* Once the page is written and reads back well, it is the current record.
VerifiedIsCurrent ==
    stage = "verify" =>
        /\ image # Blank
        /\ Valid(target) => Winner = target /\ slots[target] = image

\* The promise of CredStore, with the two sectors hidden.
AbsPending == IF stage = "idle" THEN NoRecord ELSE image.rec
AbsStatus ==
    IF stage = "idle" THEN "idle"
    ELSE IF stage # "verify" THEN "writing"
    ELSE IF Valid(target) THEN "written" ELSE "failed"
AbsOutcome == IF rc \in {"none", "ok"} THEN rc ELSE "error"

Durable == INSTANCE CredStore WITH
    Records <- Records \ Oversized,
    record <- Load,
    pending <- AbsPending,
    status <- AbsStatus,
    outcome <- AbsOutcome

\* Two-sector storage implements the one-record store: whatever is torn and
\* whenever power goes, a load finds the record that was current or the new
\* one, and an answered store tells the caller which (flash_creds.c:116-162).
ImplementsCredStore == Durable!Spec
=============================================================================
