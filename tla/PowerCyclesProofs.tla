-------------------------- MODULE PowerCyclesProofs ---------------------------
(***************************************************************************)
(* Theorems about the two components that survive a power cut: the         *)
(* credential store (FlashCreds, for every set of records and every        *)
(* generation modulus above 2) and the boot of the firmware (BootFlow, for *)
(* every set of personas and notes).                                       *)
(***************************************************************************)
EXTENDS FlashCreds, BootFlow, TLAPS

-----------------------------------------------------------------------------
(* The credential store.  The inductive invariant is the conjunction of    *)
(* the type invariant with the three facts the runs check; the refinement  *)
(* of CredStore follows from it step by step.                              *)

\* The inductive invariant: types, adjacent generations, and what a store in
\* progress knows about the sector it writes and the one it leaves alone.
FlashInv ==
    /\ TypeOK
    /\ GenerationsAdjacent
    /\ WritesBesideCurrent
    /\ VerifiedIsCurrent

\* uint32_t arithmetic: the successor of a generation is a generation.
LEMMA NextGenType == \A g \in Gens : NextGen(g) \in Gens
  BY FlashCredsAssumption DEF NextGen, Gens

\* uint32_t arithmetic: a successor is newer than its predecessor, never the
\* other way round, so the wrap of the counter does not confuse the load.
LEMMA NextGenNewer ==
  \A g \in Gens : Newer(NextGen(g), g) /\ ~Newer(g, NextGen(g))
  BY FlashCredsAssumption DEF NextGen, Newer, Gens

\* A valid image is never the Blank one.
LEMMA ImageNotBlank == \A i \in Images : i # Blank
  BY FlashCredsAssumption DEF Images, Gens

\* A factory-fresh flash satisfies the inductive invariant.
LEMMA InitFlashInv == Init => FlashInv
  BY FlashCredsAssumption
     DEF Init, FlashInv, TypeOK, GenerationsAdjacent, WritesBesideCurrent,
         VerifiedIsCurrent, Slots, Valid

\* What flash_creds_store decides: it writes beside the current record, with
\* the successor of its generation (flash_creds.c:124-145).
LEMMA StoreChoice ==
  ASSUME TypeOK, GenerationsAdjacent
  PROVE  /\ StoreTarget \in Slots
         /\ StoreGen \in Gens
         /\ Valid(Other(StoreTarget)) =>
                /\ Winner = Other(StoreTarget)
                /\ StoreGen = NextGen(slots[Other(StoreTarget)].gen)
         /\ ~Valid(Other(StoreTarget)) => ~Valid(StoreTarget)
<1>1. Winner \in Slots
  BY DEF Winner, Slots
<1>2. \A s \in Slots : Valid(s) => slots[s] \in Images /\ slots[s].gen \in Gens
  BY DEF TypeOK, Valid, Images
<1>3. CASE Valid(Winner)
  BY <1>1, <1>2, <1>3, NextGenType
     DEF StoreTarget, StoreGen, Other, Slots
<1>4. CASE ~Valid(Winner)
  <2>1. ~Valid("A") /\ ~Valid("B")
    BY <1>4 DEF Winner
  <2>2. 1 \in Gens
    BY FlashCredsAssumption DEF Gens
  <2> QED
    BY <1>4, <2>1, <2>2 DEF StoreTarget, StoreGen, Other, Slots
<1> QED
  BY <1>3, <1>4

\* Once the page that a store programs reads back well it is the newer of
\* the two, so a load takes it (flash_creds.c:60-78).
LEMMA ProgrammedWins ==
  ASSUME FlashInv, stage = "program", UNCHANGED target,
         slots' = [slots EXCEPT ![target] = image]
  PROVE  Winner' = target /\ Valid(target)'
<1>1. image \in Images /\ image # Blank /\ target \in Slots
  BY DEF FlashInv, TypeOK, WritesBesideCurrent
<1>2. slots'[target] = image /\ slots'[Other(target)] = slots[Other(target)]
  BY <1>1 DEF FlashInv, TypeOK, Slots, Other
<1>3. Valid(target)'
  BY <1>1, <1>2 DEF Valid
<1>4. CASE Valid(Other(target))
  <2>1. slots[Other(target)] \in Images
    BY <1>1, <1>4 DEF FlashInv, TypeOK, Valid, Slots, Other
  <2>2. image.gen = NextGen(slots[Other(target)].gen)
    BY <1>4 DEF FlashInv, WritesBesideCurrent
  <2>3. /\ Newer(slots'[target].gen, slots'[Other(target)].gen)
        /\ ~Newer(slots'[Other(target)].gen, slots'[target].gen)
    BY <1>2, <2>1, <2>2, NextGenNewer DEF Images
  <2> QED
    BY <1>1, <1>2, <1>3, <2>3 DEF Winner, Slots, Other
<1>5. CASE ~Valid(Other(target))
  BY <1>1, <1>2, <1>3, <1>5 DEF Winner, Valid, Slots, Other
<1> QED
  BY <1>3, <1>4, <1>5

\* Every step of the store, and a power cut between any two, preserves the
\* inductive invariant.
LEMMA NextFlashInv == FlashInv /\ [Next]_vars => FlashInv'
<1> SUFFICES ASSUME FlashInv, [Next]_vars PROVE FlashInv'
  OBVIOUS
<1>1. ASSUME NEW r \in Records, StoreBegin(r) PROVE FlashInv'
  <2>1. StoreTarget \in Slots /\ image' \in Images /\ image' # Blank
    BY <1>1, StoreChoice, ImageNotBlank DEF StoreBegin, FlashInv, Images
  <2>2. TypeOK'
    BY <1>1, <2>1 DEF StoreBegin, FlashInv, TypeOK
  <2>3. GenerationsAdjacent'
    BY <1>1 DEF StoreBegin, FlashInv, GenerationsAdjacent, Valid
  <2>4. WritesBesideCurrent'
    <3>1. image'.gen = StoreGen /\ target' = StoreTarget /\ stage' = "erase"
      BY <1>1 DEF StoreBegin
    <3>2. Winner' = Winner /\ slots' = slots
      BY <1>1 DEF StoreBegin, Winner, Valid
    <3> QED
      BY <1>1, <2>1, <3>1, <3>2, StoreChoice
         DEF StoreBegin, FlashInv, WritesBesideCurrent, Valid
  <2>5. VerifiedIsCurrent'
    BY <1>1 DEF StoreBegin, VerifiedIsCurrent
  <2> QED
    BY <2>2, <2>3, <2>4, <2>5 DEF FlashInv
<1>2. ASSUME NEW r \in Records, StoreRefused(r) PROVE FlashInv'
  BY <1>2 DEF StoreRefused, FlashInv, TypeOK, GenerationsAdjacent,
     WritesBesideCurrent, VerifiedIsCurrent, Valid, Winner
<1>3. CASE LockoutFails
  BY <1>3 DEF LockoutFails, FlashInv, TypeOK, GenerationsAdjacent,
     WritesBesideCurrent, VerifiedIsCurrent, Valid, Winner
<1>4. CASE EraseSector
  <2>1. TypeOK'
    BY <1>4 DEF EraseSector, FlashInv, TypeOK
  <2>2. ~Valid(target)' /\ UNCHANGED <<target, image>> /\ stage' = "program"
    BY <1>4 DEF EraseSector, FlashInv, TypeOK, Valid, Slots
  <2>3. slots'[Other(target)] = slots[Other(target)] /\ Other(target) \in Slots
    BY <1>4 DEF EraseSector, FlashInv, TypeOK, Slots, Other
  <2>4. GenerationsAdjacent'
    BY <2>2, <2>1 DEF GenerationsAdjacent, TypeOK, Slots
  <2>5. Valid(Other(target))' => Winner' = Other(target)
    BY <2>1, <2>2 DEF Winner, TypeOK, Slots, Other
  <2>6. WritesBesideCurrent'
    BY <1>4, <2>2, <2>3, <2>5
       DEF EraseSector, FlashInv, WritesBesideCurrent, Valid
  <2>7. VerifiedIsCurrent'
    BY <2>2 DEF VerifiedIsCurrent
  <2> QED
    BY <2>1, <2>4, <2>6, <2>7 DEF FlashInv
<1>5. CASE ProgramPage
  <2>1. UNCHANGED <<target, image>> /\ stage' = "verify" /\ image # Blank
    BY <1>5 DEF ProgramPage, FlashInv, WritesBesideCurrent
  <2>2. CASE slots' = [slots EXCEPT ![target] = image]
    <3>1. Winner' = target /\ Valid(target)'
      BY <1>5, <2>1, <2>2, ProgrammedWins DEF ProgramPage
    <3>2. slots'[target] = image /\ TypeOK'
      BY <1>5, <2>1, <2>2 DEF ProgramPage, FlashInv, TypeOK
    <3>3. slots'[Other(target)] = slots[Other(target)]
      BY <2>2 DEF FlashInv, TypeOK, Slots, Other
    <3>4. GenerationsAdjacent'
      BY <1>5, <2>1, <3>2, <3>3
         DEF ProgramPage, FlashInv, WritesBesideCurrent, GenerationsAdjacent,
             TypeOK, Valid, Slots, Other
    <3>5. WritesBesideCurrent' /\ VerifiedIsCurrent'
      BY <2>1, <3>1, <3>2 DEF WritesBesideCurrent, VerifiedIsCurrent
    <3> QED
      BY <3>2, <3>4, <3>5 DEF FlashInv
  <2>3. CASE slots' = [slots EXCEPT ![target] = Blank]
    <3>1. ~Valid(target)' /\ TypeOK'
      BY <1>5, <2>1, <2>3 DEF ProgramPage, FlashInv, TypeOK, Valid, Slots
    <3>2. GenerationsAdjacent'
      BY <2>1, <3>1 DEF GenerationsAdjacent, TypeOK, Slots
    <3>3. WritesBesideCurrent' /\ VerifiedIsCurrent'
      BY <2>1, <3>1 DEF WritesBesideCurrent, VerifiedIsCurrent
    <3> QED
      BY <3>1, <3>2, <3>3 DEF FlashInv
  <2> QED
    BY <1>5, <2>2, <2>3 DEF ProgramPage
<1>6. CASE Verify
  BY <1>6 DEF Verify, FlashInv, TypeOK, GenerationsAdjacent,
     WritesBesideCurrent, VerifiedIsCurrent, Valid, Winner
<1>7. CASE PowerLoss
  BY <1>7 DEF PowerLoss, FlashInv, TypeOK, GenerationsAdjacent, Slots,
     WritesBesideCurrent, VerifiedIsCurrent, Valid, Winner
<1>8. CASE UNCHANGED vars
  BY <1>8 DEF vars, FlashInv, TypeOK, GenerationsAdjacent,
     WritesBesideCurrent, VerifiedIsCurrent, Valid, Winner
<1> QED
  BY <1>1, <1>2, <1>3, <1>4, <1>5, <1>6, <1>7, <1>8 DEF Next

\* The inductive invariant holds in every behaviour of flash_creds.c.
THEOREM FlashInvHolds == Spec => []FlashInv
  BY InitFlashInv, NextFlashInv, PTL DEF Spec

\* TypeOK, the type invariant the runs check, holds for every instance.
THEOREM FlashTyped == Spec => []TypeOK
<1>1. FlashInv => TypeOK
  BY DEF FlashInv
<1> QED
  BY <1>1, FlashInvHolds, PTL

\* The comparison of flash_creds_load is only ever asked about a generation
\* and its successor, for every modulus above 2.
THEOREM GenerationsStayAdjacent == Spec => []GenerationsAdjacent
<1>1. FlashInv => GenerationsAdjacent
  BY DEF FlashInv
<1> QED
  BY <1>1, FlashInvHolds, PTL

\* When a store reads its sector back, a sector that is valid is the one a load
\* takes and holds what was asked for: an answer of 0 is never given for a
\* record the next boot would not find (flash_creds.c:109-113).
THEOREM VerifiedStoreIsCurrent == Spec => []VerifiedIsCurrent
<1>1. FlashInv => VerifiedIsCurrent
  BY DEF FlashInv
<1> QED
  BY <1>1, FlashInvHolds, PTL

-----------------------------------------------------------------------------

\* A step that leaves the sectors alone leaves the loaded record alone.
LEMMA LoadUnchanged == UNCHANGED slots => UNCHANGED Load
  BY DEF Load, Winner, Valid

\* Blanking the sector a store writes does not change what a load finds: that
\* sector did not hold the current record (flash_creds.c:124).
LEMMA BlankTargetKeepsLoad ==
  ASSUME FlashInv, stage \in {"erase", "program"},
         slots' = [slots EXCEPT ![target] = Blank]
  PROVE  UNCHANGED Load
<1>1. target \in Slots /\ Other(target) \in Slots /\ Other(target) # target
  BY DEF FlashInv, TypeOK, Slots, Other
<1>2. slots'[target] = Blank /\ slots'[Other(target)] = slots[Other(target)]
  BY <1>1 DEF FlashInv, TypeOK
<1>3. CASE Valid(Other(target))
  <2>1. Winner = Other(target)
    BY <1>3 DEF FlashInv, WritesBesideCurrent
  <2>2. Winner' = Other(target)
    BY <1>1, <1>2, <1>3 DEF Winner, Valid, Slots, Other
  <2> QED
    BY <1>2, <1>3, <2>1, <2>2 DEF Load, Valid
<1>4. CASE ~Valid(Other(target))
  <2>1. ~Valid(target)
    BY <1>4 DEF FlashInv, WritesBesideCurrent
  <2> QED
    BY <1>1, <1>2, <1>4, <2>1 DEF Load, Winner, Valid, Slots, Other
<1> QED
  BY <1>3, <1>4

\* Each step of the two-sector store is a step of the one-record store or
\* leaves it as it is.
LEMMA StoreSimulation == FlashInv /\ [Next]_vars => [Durable!Next]_(Durable!vars)
<1> SUFFICES ASSUME FlashInv, [Next]_vars
             PROVE  [Durable!Next]_(Durable!vars)
  OBVIOUS
<1> USE DEF Durable!Next, Durable!vars, AbsPending, AbsStatus, AbsOutcome
<1>1. ASSUME NEW r \in Records, StoreBegin(r) PROVE Durable!Next
  <2>1. Durable!Request(r) /\ r \in Records \ Oversized
    BY <1>1, LoadUnchanged DEF StoreBegin, Durable!Request
  <2> QED
    BY <2>1
<1>2. ASSUME NEW r \in Records, StoreRefused(r) PROVE Durable!Next
  <2>1. Durable!Refuse
    BY <1>2, LoadUnchanged DEF StoreRefused, Durable!Refuse, Valid
  <2> QED
    BY <2>1
<1>3. CASE LockoutFails
  <2>1. Durable!Answer
    BY <1>3, LoadUnchanged DEF LockoutFails, Durable!Answer
  <2> QED
    BY <2>1
<1>4. CASE EraseSector
  <2>1. UNCHANGED Load
    BY <1>4, BlankTargetKeepsLoad DEF EraseSector
  <2> QED
    BY <1>4, <2>1 DEF EraseSector
<1>5. CASE ProgramPage
  <2>1. CASE slots' = [slots EXCEPT ![target] = image]
    <3>1. Winner' = target /\ Valid(target)'
      BY <1>5, <2>1, ProgrammedWins DEF ProgramPage
    <3>2. slots'[target] = image /\ target' = target
      BY <1>5, <2>1 DEF ProgramPage, FlashInv, TypeOK
    <3>3. Load' = image.rec
      BY <3>1, <3>2 DEF Load, Valid
    <3>4. Durable!Commit
      BY <1>5, <3>1, <3>3 DEF ProgramPage, Durable!Commit
    <3> QED
      BY <3>4
  <2>2. CASE slots' = [slots EXCEPT ![target] = Blank]
    <3>1. UNCHANGED Load
      BY <1>5, <2>2, BlankTargetKeepsLoad DEF ProgramPage
    <3>2. ~Valid(target)'
      BY <1>5, <2>2 DEF ProgramPage, FlashInv, TypeOK, Valid
    <3>3. Durable!Miss
      BY <1>5, <3>1, <3>2 DEF ProgramPage, Durable!Miss
    <3> QED
      BY <3>3
  <2> QED
    BY <1>5, <2>1, <2>2 DEF ProgramPage
<1>6. CASE Verify
  <2>1. Durable!Answer
    BY <1>6, LoadUnchanged DEF Verify, Durable!Answer
  <2> QED
    BY <2>1
<1>7. CASE PowerLoss
  <2>1. Durable!PowerLoss
    BY <1>7, LoadUnchanged DEF PowerLoss, Durable!PowerLoss
  <2> QED
    BY <2>1
<1>8. CASE UNCHANGED vars
  BY <1>8, LoadUnchanged DEF vars, Valid
<1> QED
  BY <1>1, <1>2, <1>3, <1>4, <1>5, <1>6, <1>7, <1>8
     DEF Next

\* Two flash sectors implement one durable record: a store that is cut short
\* or fails leaves the record that was current, one that answers 0 has
\* replaced it, for every modulus above 2 and every set of records.
THEOREM Refinement == Spec => ImplementsCredStore
<1>1. Init => Durable!Init
  BY DEF Init, Durable!Init, AbsPending, AbsStatus, AbsOutcome, Load, Winner,
     Valid, Slots
<1> QED
  BY <1>1, StoreSimulation, FlashInvHolds, PTL
     DEF Spec, ImplementsCredStore, Durable!Spec

-----------------------------------------------------------------------------
(* The boot.  A request of one life reaches the next, and only the next.   *)
(* What a boot decides it reads from the breadcrumb, the scratch register  *)
(* and the marker; the invariant says, phase by phase, that these hold     *)
(* just what is owed to the life that will read them.                      *)

\* The report of a boot, against what started it.
Explains(i) ==
    /\ i.reason = "fault" => cause = "fault"
    /\ i.reason = "deliberate" =>
           cause = "watchdog" \/ (chip = "rp2040" /\ cause = "flash_update")
    /\ i.reason = "watchdog_hang" => chip = "rp2040" /\ cause = "flash_update"
    /\ i.line = "log" => cause = "fault"
    /\ i.line \in Notes => i.line = owed.note

\* Between the reset and Classify everything is still in the registers.
ToBeRead ==
    phase = "reset" =>
        /\ Classified.force = owed.setup
        /\ Explains(Classified)
        /\ marker = owed.capture
        /\ asked = Nothing
        /\ cause = "power" => crumb = NoCrumb /\ scratch = "zero" /\ marker = None

\* Between Classify and Decide it is in `info` and the marker.
BeingRead ==
    phase = "booting" =>
        /\ info.force = owed.setup
        /\ Explains(info)
        /\ marker = owed.capture
        /\ crumb = NoCrumb
        /\ asked = Nothing

\* A running life owes nothing, and has left nothing.
Running ==
    phase \in {"setup", "run"} =>
        /\ Explains(info)
        /\ crumb = NoCrumb /\ scratch = "normal" /\ marker = None
        /\ asked = Nothing

\* Until the watchdog fires, what was asked is where the next boot looks.
Leaving ==
    phase = "rebooting" =>
        /\ scratch = "normal"
        /\ marker = asked.capture
        /\ \/ crumb = NoCrumb /\ asked.setup = FALSE
           \/ crumb = MakeCrumb(TRUE, asked.note) /\ asked.setup = TRUE

\* The boot ROM is entered with nothing asked.
InRom ==
    phase = "rom" => crumb = NoCrumb /\ marker = None /\ scratch # "fault"

BootInv ==
    /\ owed \in Wants /\ asked \in Wants
    /\ chip \in {"rp2040", "rp2350"}
    /\ info.force \in BOOLEAN
    /\ phase \in {"reset", "booting", "setup", "run", "rebooting", "rom"}
    /\ ToBeRead /\ BeingRead /\ Running /\ Leaving /\ InRom

-----------------------------------------------------------------------------
(* What a boot reads from each kind of breadcrumb.                         *)

LEMMA EmptyCrumb ==
  ASSUME BootFlowAssumption
  PROVE  ForceIn(NoCrumb) = FALSE /\ LineIn(Filled(NoCrumb)) = None
  BY DEF ForceIn, LineIn, Filled, ValidCrumb, NoCrumb

\* The flag is erased under a checksum that is not renewed: the line is lost.
LEMMA RequestCrumb ==
  ASSUME NEW note
  PROVE  /\ ForceIn(MakeCrumb(TRUE, note)) = TRUE
         /\ LineIn(Filled(MakeCrumb(TRUE, note))) = None
  BY DEF ForceIn, LineIn, Filled, ValidCrumb, MakeCrumb, Crc

LEMMA FaultCrumb ==
  /\ ForceIn(MakeCrumb(FALSE, "log")) = FALSE
  /\ LineIn(Filled(MakeCrumb(FALSE, "log"))) = "log"
  BY DEF ForceIn, LineIn, Filled, ValidCrumb, MakeCrumb, Crc

LEMMA NothingWanted == Nothing \in Wants /\ Nothing.setup = FALSE /\ Nothing.capture = None
  BY DEF Nothing, Wants

-----------------------------------------------------------------------------

\* In every phase the marker is a capture that was asked for, or none.
LEMMA MarkerOwed == BootInv => marker \in Personas \cup {None}
  BY DEF BootInv, ToBeRead, BeingRead, Running, Leaving, InRom, Wants

LEMMA InitBootInv == BootFlowAssumption /\ BootInit => BootInv
<1> SUFFICES ASSUME BootFlowAssumption, BootInit PROVE BootInv
  OBVIOUS
<1>1. Classified = [reason |-> "cold_or_pin", force |-> FALSE, line |-> None]
  BY DEF BootInit, Classified, Reason
<1>2. Explains(Classified)
  BY <1>1 DEF Explains, BootFlowAssumption
<1> QED
  BY <1>1, <1>2, NothingWanted
  DEF BootInit, BootInv, ToBeRead, BeingRead, Running, Leaving, InRom, NoInfo

\* A reset of the chip, by what is left for the next boot to read.
LEMMA RestartBootInv ==
  ASSUME BootInv, NEW why, NEW debts \in Wants, Restart(why, debts),
         Classified'.force = debts.setup, Explains(Classified)',
         marker' = debts.capture,
         why = "power" => crumb' = NoCrumb /\ scratch' = "zero" /\ marker' = None
  PROVE  BootInv'
  BY NothingWanted
  DEF Restart, BootInv, ToBeRead, BeingRead, Running, Leaving, InRom, NoInfo

\* The watchdog: the scratch register says that it was asked for, the breadcrumb what.
LEMMA WatchdogBootInv == ASSUME BootFlowAssumption, BootInv, WatchdogFires PROVE BootInv'
<1>1. /\ phase = "rebooting" /\ Restart("watchdog", asked) /\ asked \in Wants
      /\ scratch' = "normal" /\ wdReason' = TRUE /\ romReport' = FALSE
      /\ marker' = asked.capture /\ crumb' = crumb
      /\ \/ crumb = NoCrumb /\ asked.setup = FALSE
         \/ crumb = MakeCrumb(TRUE, asked.note) /\ asked.setup = TRUE
  BY DEF WatchdogFires, BootInv, Leaving
<1>2. ForceIn(crumb) = asked.setup /\ LineIn(Filled(crumb)) = None
  BY <1>1, EmptyCrumb, RequestCrumb
<1>3. Classified' = [reason |-> "deliberate", force |-> asked.setup, line |-> None]
  BY <1>1, <1>2 DEF Classified, Reason
<1>4. Explains(Classified)'
  BY <1>1, <1>3 DEF Explains, Restart, BootFlowAssumption
<1> QED
  BY <1>1, <1>3, <1>4, RestartBootInv

\* A fault leaves its own breadcrumb; the request of the life it ends is dropped.
LEMMA FaultBootInv == ASSUME BootFlowAssumption, BootInv, Fault PROVE BootInv'
<1> DEFINE debts == [Nothing EXCEPT !.capture = marker]
<1>1. /\ scratch' = "fault" /\ crumb' = MakeCrumb(FALSE, "log") /\ romReport' = FALSE
      /\ marker' = marker /\ Restart("fault", debts)
  BY DEF Fault
<1>2. debts \in Wants /\ debts.setup = FALSE /\ debts.capture = marker
  BY MarkerOwed DEF Nothing, Wants
<1>3. \/ Classified' = [reason |-> "fault", force |-> FALSE, line |-> "log"]
      \/ Classified' = [reason |-> "cold_or_pin", force |-> FALSE, line |-> None]
  BY <1>1, FaultCrumb DEF Classified, Reason
<1>4. cause' = "fault"
  BY <1>1 DEF Restart
<1> HIDE DEF debts
<1>5. Classified'.force = FALSE /\ Classified'.reason \in {"fault", "cold_or_pin"}
      /\ Classified'.line \in {"log", None}
  BY <1>3
<1>6. Explains(Classified)'
  BY <1>4, <1>5 DEF Explains, BootFlowAssumption
<1> QED
  BY <1>1, <1>2, <1>5, <1>6, RestartBootInv

\* The RUN pin of an RP2040: what is left there is not looked at, but the marker.
LEMMA PinBootInv == ASSUME BootFlowAssumption, BootInv, PinReset PROVE BootInv'
<1> DEFINE debts == [Nothing EXCEPT !.capture = marker]
<1>1. debts \in Wants /\ debts.setup = FALSE /\ debts.capture = marker
  BY MarkerOwed DEF Nothing, Wants
<1>2. Classified' = [reason |-> "cold_or_pin", force |-> FALSE, line |-> None]
  BY DEF PinReset, Classified, Reason
<1>3. Explains(Classified)'
  BY <1>2 DEF Explains, BootFlowAssumption
<1> HIDE DEF debts
<1> QED
  BY <1>1, <1>2, <1>3, RestartBootInv DEF PinReset, debts

LEMMA PowerBootInv == ASSUME BootFlowAssumption, BootInv, PowerCut PROVE BootInv'
<1>1. Classified' = [reason |-> "cold_or_pin", force |-> FALSE, line |-> None]
  BY DEF PowerCut, Classified, Reason
<1>2. Explains(Classified)'
  BY <1>1 DEF Explains, BootFlowAssumption
<1> QED
  BY <1>1, <1>2, NothingWanted, RestartBootInv DEF PowerCut

\* The RP2040 takes a download for whatever its registers say, but no fault and
\* no request is left in them.
LEMMA FlashBootInv == ASSUME BootFlowAssumption, BootInv, FlashUpdate PROVE BootInv'
<1>1. /\ crumb' = NoCrumb /\ marker' = None /\ scratch' # "fault"
      /\ romReport' = (chip = "rp2350") /\ chip' = chip
      /\ chip \in {"rp2040", "rp2350"}
      /\ Restart("flash_update", Nothing) /\ cause' = "flash_update"
  BY DEF FlashUpdate, BootInv, InRom, Restart
<1>2. Classified'.force = FALSE /\ Classified'.line = None
  BY <1>1, EmptyCrumb DEF Classified
<1>3. Classified'.reason = Reason'
  BY DEF Classified
<1>4. /\ Reason' # "fault"
      /\ Reason' \in {"deliberate", "watchdog_hang"} => chip' = "rp2040"
  <2>1. CASE chip = "rp2350"
    BY <1>1, <2>1 DEF Reason
  <2>2. CASE chip # "rp2350"
    BY <1>1, <2>2 DEF Reason
  <2> QED
    BY <2>1, <2>2
<1>5. Explains(Classified)'
  BY <1>1, <1>2, <1>3, <1>4 DEF Explains, BootFlowAssumption
<1> QED
  BY <1>1, <1>2, <1>5, NothingWanted, RestartBootInv

-----------------------------------------------------------------------------
(* The steps within a life.                                                *)

LEMMA BootBootInv == ASSUME BootFlowAssumption, BootInv, Classify \/ Decide PROVE BootInv'
<1>1. CASE Classify
  <2>1. info'.force = Classified.force /\ Explains(info)'
    BY <1>1 DEF Classify, BootInv, ToBeRead, Explains
  <2>2. owed.setup \in BOOLEAN
    BY DEF BootInv, Wants
  <2> QED
    BY <1>1, <2>1, <2>2 DEF Classify, BootInv, ToBeRead, BeingRead, Running, Leaving, InRom
<1>2. CASE Decide
  <2>1. asked = Nothing
    BY <1>2 DEF Decide, BootInv, BeingRead
  <2>2. Explains(info)'
    BY <1>2 DEF Decide, BootInv, BeingRead, Explains
  <2> QED
    BY <1>2, <2>1, <2>2 DEF Decide, BootInv, ToBeRead, BeingRead, Running, Leaving, InRom
<1> QED
  BY <1>1, <1>2

\* Commands that ask nothing of the next boot, or only by the stored record.
LEMMA CommandBootInv ==
  ASSUME BootInv, \/ SetWifi \/ RebootToRun \/ RebootToBootsel \/ StopCapture
               \/ \E p \in Personas : SetPersona(p)
  PROVE  BootInv'
<1>1. CASE SetWifi \/ StopCapture
  BY <1>1 DEF SetWifi, StopCapture, survivors, BootInv, ToBeRead, BeingRead, Running,
              Leaving, InRom, Explains
<1>2. CASE RebootToRun \/ RebootToBootsel
  <2>1. phase \in {"setup", "run"} /\ phase' \in {"rebooting", "rom"}
        /\ UNCHANGED <<chip, survivors, info, owed, asked>>
    BY <1>2 DEF RebootToRun, RebootToBootsel
  <2> QED
    BY <2>1, NothingWanted DEF survivors, BootInv, ToBeRead, BeingRead, Running, Leaving, InRom
<1>3. ASSUME NEW p \in Personas, SetPersona(p) PROVE BootInv'
  <2>1. phase = "run" /\ phase' = "rebooting"
        /\ UNCHANGED <<chip, scratch, marker, crumb, info, owed, asked>>
    BY <1>3 DEF SetPersona
  <2> QED
    BY <2>1, NothingWanted DEF BootInv, ToBeRead, BeingRead, Running, Leaving, InRom
<1> QED
  BY <1>1, <1>2, <1>3

\* Commands that leave something for the next boot.
LEMMA RequestBootInv ==
  ASSUME BootInv, NEW note \in Notes \cup {None}, RequestSetup(note) PROVE BootInv'
<1>1. /\ phase' = "rebooting" /\ asked = Nothing /\ marker' = None /\ scratch' = "normal"
      /\ crumb' = MakeCrumb(TRUE, note)
  BY DEF RequestSetup, BootInv, Running
<1>2. /\ asked' \in Wants /\ asked'.setup = TRUE
      /\ asked'.note = note /\ asked'.capture = None
  BY <1>1 DEF RequestSetup, Nothing, Wants
<1> QED
  BY <1>1, <1>2 DEF RequestSetup, BootInv, ToBeRead, BeingRead, Running, Leaving, InRom

LEMMA CaptureBootInv == ASSUME BootInv, NEW p \in Personas, SetCapture(p) PROVE BootInv'
<1>1. /\ phase' = "rebooting" /\ asked = Nothing /\ marker' = p /\ scratch' = "normal"
      /\ crumb' = NoCrumb
  BY DEF SetCapture, BootInv, Running
<1>2. asked' \in Wants /\ asked'.setup = FALSE /\ asked'.capture = p
  BY <1>1 DEF SetCapture, Nothing, Wants
<1> QED
  BY <1>1, <1>2 DEF SetCapture, BootInv, ToBeRead, BeingRead, Running, Leaving, InRom

LEMMA EnterRomBootInv == ASSUME BootInv, EnterRom PROVE BootInv'
  BY DEF EnterRom, survivors, BootInv, ToBeRead, BeingRead, Running, Leaving, InRom

LEMMA NextBootInv == BootFlowAssumption /\ BootInv /\ [BootNext]_bootVars => BootInv'
<1>1. ASSUME BootInv, UNCHANGED bootVars PROVE BootInv'
  <2>1. Classified' = Classified
    BY <1>1 DEF bootVars, survivors, Classified, Reason
  <2>2. UNCHANGED <<chip, scratch, marker, crumb, phase, info, cause, owed, asked>>
    BY <1>1 DEF bootVars, survivors
  <2>3. ToBeRead'
    BY <1>1, <2>1, <2>2 DEF BootInv, ToBeRead, Explains
  <2>4. BeingRead' /\ Running'
    BY <1>1, <2>2 DEF BootInv, BeingRead, Running, Explains
  <2>5. Leaving' /\ InRom'
    BY <1>1, <2>2 DEF BootInv, Leaving, InRom
  <2> QED
    BY <1>1, <2>2, <2>3, <2>4, <2>5 DEF BootInv
<1>2. ASSUME BootInv, RebootToSetup \/ \E note \in Notes : BounceToSetup(note) PROVE BootInv'
  BY <1>2, RequestBootInv DEF RebootToSetup, BounceToSetup
<1> QED
  BY <1>1, <1>2, BootBootInv, CommandBootInv, CaptureBootInv, EnterRomBootInv, WatchdogBootInv, FaultBootInv,
     PinBootInv, PowerBootInv, FlashBootInv DEF BootNext

-----------------------------------------------------------------------------

\* For any set of personas and notes, and any order of resets, downloads and power
\* losses: a boot lands in setup mode just when the life before asked for it or
\* nothing is stored (reset_reason.c:97-199, boot_mode.c:64-143).
THEOREM EveryBootWhereAsked ==
  ASSUME BootFlowAssumption PROVE BootSpec => BootsWhereAsked
<1>1. BootInv /\ [BootNext]_bootVars => [Decide => (phase' = "setup" <=> owed.setup \/ creds = None)]_bootVars
  BY DEF BootInv, BeingRead, Decide
<1>2. BootFlowAssumption
  OBVIOUS
<1> QED
  BY <1>1, <1>2, InitBootInv, NextBootInv, PTL DEF BootSpec, BootsWhereAsked

\* Packet capture is on in the boot after the request for it and no other, and only
\* under the persona asked for (main.c:446-458, net_udp.c).
THEOREM EveryCaptureAsked ==
  ASSUME BootFlowAssumption PROVE BootSpec => CapturesWhatWasAsked
<1>1. ASSUME BootInv, Decide
      PROVE  capturing' <=> /\ owed.capture \in UsbPersonas
                            /\ phase' = "run"
                            /\ persona' = owed.capture
  <2>1. marker = owed.capture /\ (marker \in UsbPersonas => marker # None)
    BY <1>1 DEF BootInv, BeingRead, Decide, BootFlowAssumption, Personas
  <2> QED
    BY <1>1, <2>1 DEF Decide
<1>2. BootInv /\ [BootNext]_bootVars =>
        [Decide => (capturing' <=> /\ owed.capture \in UsbPersonas
                                   /\ phase' = "run"
                                   /\ persona' = owed.capture)]_bootVars
  BY <1>1
<1>3. BootFlowAssumption
  OBVIOUS
<1> QED
  BY <1>2, <1>3, InitBootInv, NextBootInv, PTL DEF BootSpec, CapturesWhatWasAsked

\* No boot blames a cause that was not its own, or shows a line of another life
\* (reset_reason.h:41-48).
THEOREM EveryReportTrue ==
  ASSUME BootFlowAssumption PROVE BootSpec => []NoFalseReport
<1>1. BootInv => NoFalseReport
  BY DEF BootInv, BeingRead, Running, NoFalseReport, Explains
<1>2. BootFlowAssumption
  OBVIOUS
<1> QED
  BY <1>1, <1>2, InitBootInv, NextBootInv, PTL DEF BootSpec
=============================================================================
