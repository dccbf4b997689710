---------------------- MODULE IosSimCapacityGate_proofs ----------------------
(***************************************************************************)
(* For every number of simulators, requests and permits: the gate never    *)
(* lets more simulators run than its limit (WithinLimit), keeps no slot or *)
(* permit that nobody uses (SlotsSound), and serves its queue in order     *)
(* (FirstComeFirstServed).                                                 *)
(*                                                                         *)
(* WithinLimit is not inductive: a decision is about a listing that may be *)
(* old.  What is inductive is that the slots in use (running simulators    *)
(* and ledger entries together) fit the limit, and that whatever runs is   *)
(* in a caller's listing, in the ledger, or ended in that caller's window, *)
(* which makes the count of a decision an upper bound of the slots in use. *)
(* SlotsSound and the order of permits rest on PermitInv, at the end: the  *)
(* waiting calls are the queue, each once, and a permit is free only while *)
(* nobody waits.                                                           *)
(***************************************************************************)
EXTENDS IosSimCapacityGate, FiniteSetTheorems, SequenceTheorems, TLAPS

\* the slot an entry holds: its device's, or one of its own before it names a device
SlotOf(b) == IF dev[b] = None THEN b ELSE dev[b]
Slots     == on \cup {SlotOf(b) : b \in ledger}

Typed ==
  /\ LedgerTypeOK
  /\ on \in SUBSET Sims
  /\ listing \in [Boots -> SUBSET Sims]
  /\ pc \in [Boots -> Steps]

\* an admitted request has its entry, and the entry names the right device
HoldsSlot ==
  \A b \in Boots :
     /\ pc[b] \in {"admitted", "queued", "booting"} => b \in ledger /\ dev[b] = Target[b]
     /\ pc[b] \in {"reserved", "stopped"} =>
          b \in ledger /\ Replaces[b] # None /\ dev[b] = Replaces[b]
     /\ pc[b] = "gone" => b \in ledger /\ IsReplacement(b) /\ dev[b] = None
     /\ pc[b] \in {"new", "sampling", "listed", "done"} => b \notin ledger

\* a sampling request has its window open, and what ended in a window is over
WindowOpen ==
  \A c \in Boots : /\ pc[c] \in {"sampling", "listed"} => c \in windows
                   /\ \A b \in ended[c] : pc[b] = "done"

\* whatever runs is in the listing, in the ledger, or ended in the window
Covered ==
  \A c \in Boots : pc[c] = "listed" =>
     \A x \in on : x \in listing[c] \/ \E b \in ledger \cup ended[c] : dev[b] = x

\* a replaced device stays off, a device to be reset stays on until its reset stops it
StoppedOff == \A b \in Boots : pc[b] = "stopped" /\ IsReplacement(b) => Replaces[b] \notin on
ResetOn    == \A b \in Boots : pc[b] = "listed" /\ IsReset(b) /\ Target[b] \in listing[b]
                                 => Target[b] \in on

SlotsFit == Cardinality(Slots) <= MaxBooted

IInv == /\ Typed /\ HoldsSlot /\ WindowOpen
        /\ Covered /\ StoppedOff /\ ResetOn /\ SlotsFit

-----------------------------------------------------------------------------
(* Counting. *)

\* exchanging one element for another does not enlarge a set
LEMMA Exchange ==
  ASSUME NEW S, IsFiniteSet(S), NEW T, NEW x \in S, NEW y, T \subseteq (S \ {x}) \cup {y}
  PROVE  Cardinality(T) <= Cardinality(S)
<1>1. IsFiniteSet(S \ {x}) /\ Cardinality(S \ {x}) = Cardinality(S) - 1
  BY FS_RemoveElement
<1> DEFINE U == S \ {x}
<1>2. Cardinality(U) \in Nat /\ Cardinality(S) \in Nat
  BY <1>1, FS_CardinalityType
<1>3. /\ IsFiniteSet(U \cup {y})
      /\ Cardinality(U \cup {y}) = IF y \in U THEN Cardinality(U) ELSE Cardinality(U) + 1
  <2> HIDE DEF U
  <2> QED BY <1>1, FS_AddElement DEF U
<1>4. Cardinality(T) <= Cardinality(U \cup {y}) /\ IsFiniteSet(T)
  BY <1>3, FS_Subset
<1>5. Cardinality(T) \in Nat /\ Cardinality(U \cup {y}) \in Nat
  BY <1>3, <1>4, FS_CardinalityType
<1> HIDE DEF U
<1> QED BY <1>1, <1>2, <1>3, <1>4, <1>5 DEF U

\* a set covered by a listing and by the slots of some boots is no larger than both together
LEMMA Counting ==
  ASSUME NEW L, IsFiniteSet(L), NEW C, IsFiniteSet(C), NEW f, f \in [C -> {f[b] : b \in C}],
         NEW T, T \subseteq L \cup {f[b] : b \in C}
  PROVE  /\ Cardinality(T) <= Cardinality(L) + Cardinality(C)
         /\ IsFiniteSet(T) /\ Cardinality(T) \in Nat
<1> DEFINE R == {f[b] : b \in C}
<1>1. f \in Surjection(C, R)
  BY DEF Surjection
<1>2. IsFiniteSet(R) /\ Cardinality(R) <= Cardinality(C)
  <2> HIDE DEF R
  <2> QED BY <1>1, FS_Surjection
<1> HIDE DEF R
<1>3. /\ Cardinality(L) \in Nat /\ Cardinality(R) \in Nat /\ Cardinality(C) \in Nat
      /\ Cardinality(L \cap R) \in Nat
  BY <1>2, FS_CardinalityType, FS_Intersection
<1>4. /\ IsFiniteSet(L \cup R)
      /\ Cardinality(L \cup R) = Cardinality(L) + Cardinality(R) - Cardinality(L \cap R)
  BY <1>2, FS_Union
<1>5. T \subseteq L \cup R
  BY DEF R
<1>6. Cardinality(T) <= Cardinality(L \cup R) /\ IsFiniteSet(T)
  BY <1>4, <1>5, FS_Subset
<1>7. Cardinality(T) \in Nat
  BY <1>6, FS_CardinalityType
<1> QED BY <1>2, <1>3, <1>4, <1>6, <1>7

\* The slots in use are finitely many, named by simulators and boots.
LEMMA SlotsFinite == Typed => Slots \subseteq Sims \cup Boots /\ IsFiniteSet(Slots)
<1> SUFFICES ASSUME Typed PROVE Slots \subseteq Sims \cup Boots /\ IsFiniteSet(Slots)
  OBVIOUS
<1>1. Slots \subseteq Sims \cup Boots
  BY DEF Typed, LedgerTypeOK, Slots, SlotOf
<1>2. IsFiniteSet(Sims \cup Boots)
  BY LedgerAssumption, FS_Union
<1> QED BY <1>1, <1>2, FS_Subset

-----------------------------------------------------------------------------
(* The steps.  What an action leaves alone is named once, here. *)

\* The inductive invariant holds at the start.
LEMMA InitEstablishes == Init => IInv
<1> SUFFICES ASSUME Init PROVE IInv
  OBVIOUS
<1> USE DEF Init, LedgerInit
<1>1. Typed
  BY DEF Typed, LedgerTypeOK, Steps
<1>2. HoldsSlot /\ WindowOpen /\ Covered /\ StoppedOff /\ ResetOn
  BY DEF HoldsSlot, WindowOpen, Covered, StoppedOff, ResetOn
<1>3. Slots = on
  BY DEF Slots
<1>4. SlotsFit
  BY <1>3 DEF SlotsFit
<1> QED BY <1>1, <1>2, <1>4 DEF IInv

\* No step breaks the types.
LEMMA TypedStep == Typed /\ [Next]_vars => Typed'
<1> SUFFICES ASSUME Typed, [Next]_vars PROVE Typed'
  OBVIOUS
<1> USE GateAssumption, LedgerAssumption DEF Typed, LedgerTypeOK, Steps, Reserving, Admitted, Go
<1>1. ASSUME NEW b \in Boots, OpenWindow(b) PROVE Typed'
  BY <1>1 DEF OpenWindow, BeginSample
<1>2. ASSUME NEW b \in Boots, TakeListing(b) PROVE Typed'
  BY <1>2 DEF TakeListing, ledgerVars
<1>3. ASSUME NEW b \in Boots, SampleFails(b) PROVE Typed'
  BY <1>3 DEF SampleFails, CloseWindow, Forget, NotAdmitted
<1>4. ASSUME NEW b \in Boots, NEW lim \in Limits, Decide(b, lim) PROVE Typed'
  BY <1>4 DEF Decide, CloseWindow, Forget, NotAdmitted, Admit, Exclude
<1>5. ASSUME NEW b \in Boots, StopReserved(b) PROVE Typed'
  BY <1>5 DEF StopReserved, ledgerVars
<1>6. ASSUME NEW b \in Boots, MarkReplacedGone(b) PROVE Typed'
  BY <1>6 DEF MarkReplacedGone, Bind
<1>7. ASSUME NEW b \in Boots, Take(b) PROVE Typed'
  BY <1>7 DEF Take, Bind
<1>8. ASSUME NEW b \in Boots, ReleaseReservation(b) PROVE Typed'
  BY <1>8 DEF ReleaseReservation, End
<1>9. ASSUME NEW b \in Boots, WaitForPermit(b) PROVE Typed'
  BY <1>9 DEF WaitForPermit, ledgerVars
<1>10. ASSUME NEW b \in Boots, AbortQueued(b) PROVE Typed'
  BY <1>10 DEF AbortQueued, End
<1>11. ASSUME NEW b \in Boots, StartBoot(b) PROVE Typed'
  BY <1>11 DEF StartBoot, ledgerVars
<1>12. ASSUME NEW b \in Boots, FinishBoot(b) PROVE Typed'
  BY <1>12 DEF FinishBoot, End
<1>13. ASSUME NEW s \in Sims, PowerOff(s) PROVE Typed'
  BY <1>13 DEF PowerOff, ledgerVars
<1>14. CASE UNCHANGED vars
  BY <1>14 DEF vars, ledgerVars, gateVars
<1> QED BY <1>1, <1>2, <1>3, <1>4, <1>5, <1>6, <1>7, <1>8, <1>9, <1>10, <1>11, <1>12, <1>13, <1>14
        DEF Next, BootStep

\* A step that adds no slot keeps the slots within the limit.
LEMMA FewerSlots == Typed /\ Typed' /\ SlotsFit /\ Slots' \subseteq Slots => SlotsFit'
<1> SUFFICES ASSUME Typed, Typed', SlotsFit, Slots' \subseteq Slots PROVE SlotsFit'
  OBVIOUS
<1>1. IsFiniteSet(Slots)
  BY SlotsFinite
<1>2. Cardinality(Slots') <= Cardinality(Slots) /\ IsFiniteSet(Slots')
  BY <1>1, FS_Subset
<1>3. Cardinality(Slots') \in Nat /\ Cardinality(Slots) \in Nat
  BY <1>1, <1>2, FS_CardinalityType
<1> QED BY <1>2, <1>3, GateAssumption DEF SlotsFit

\* So does a step that exchanges one slot for another.
LEMMA ExchangedSlot ==
  ASSUME Typed, SlotsFit, Typed', NEW x \in Slots, NEW y, Slots' \subseteq (Slots \ {x}) \cup {y}
  PROVE  SlotsFit'
<1>1. IsFiniteSet(Slots) /\ IsFiniteSet(Slots')
  <2>1. IsFiniteSet(Slots)
    BY SlotsFinite
  <2>2. IsFiniteSet((Slots \ {x}) \cup {y})
    BY <2>1, FS_AddElement, FS_RemoveElement
  <2> QED BY <2>1, <2>2, FS_Subset
<1>2. Cardinality(Slots') <= Cardinality(Slots)
  BY <1>1, Exchange
<1>3. Cardinality(Slots') \in Nat /\ Cardinality(Slots) \in Nat
  BY <1>1, FS_CardinalityType
<1> QED BY <1>2, <1>3, GateAssumption DEF SlotsFit

\* The decision: the count bounds the slots in use, the request's own left out, so an admission
\* below the limit stays within it; a reset that carries its own slot adds none.
LEMMA DecideFits ==
  ASSUME IInv, Typed', NEW b \in Boots, NEW lim \in Limits, Decide(b, lim)
  PROVE  SlotsFit'
<1> DEFINE x == Exclude(b)
           L == listing[b] \ {x}
           C == InFlight(b, listing[b], x)
           f == [c \in C |-> SlotOf(c)]
<1> USE GateAssumption, LedgerAssumption
<1>1. x \in Sims /\ pc[b] = "listed" /\ b \notin ledger
  BY DEF Exclude, Decide, IInv, HoldsSlot
<1>2. CASE ~Fits(b)
  <2>1. Slots' = Slots
    BY <1>2 DEF Decide, Slots, SlotOf
  <2> QED BY <2>1, FewerSlots DEF IInv
<1>3. CASE Fits(b)
  <2>1. Slots' \subseteq (Slots \ {x}) \cup {x}
    BY <1>1, <1>3 DEF Decide, Admit, Slots, SlotOf, IInv, Typed, LedgerTypeOK
  <2>2. CASE x \in Slots
    <3>1. Slots' \subseteq Slots
      BY <2>1, <2>2
    <3> QED BY <3>1, FewerSlots DEF IInv
  <2>3. CASE x \notin Slots
    <3>1. ~(IsReset(b) /\ Target[b] \in listing[b])
      BY <1>1, <2>3 DEF IInv, ResetOn, Slots, Exclude, IsReset
    <3>2. BootedCount(b) < MaxBooted
      BY <1>3, <3>1 DEF Fits
    <3>3. BootedCount(b) = Cardinality(L) + Cardinality(C)
      BY DEF BootedCount
    <3>4. IsFiniteSet(L) /\ IsFiniteSet(C)
      <4>1. L \subseteq Sims /\ C \subseteq Boots
        BY DEF IInv, Typed, LedgerTypeOK, InFlight
      <4> QED BY <4>1, FS_Subset
    <3>5. Slots \subseteq L \cup {f[c] : c \in C}
      <4> SUFFICES ASSUME NEW y \in Slots, y \notin L PROVE \E c \in C : y = SlotOf(c)
        OBVIOUS
      <4>1. y # x
        BY <2>3
      <4>2. CASE y \in on
        <5>1. PICK c \in ledger \cup ended[b] : dev[c] = y
          BY <1>1, <4>1, <4>2 DEF IInv, Covered
        <5> QED BY <4>1, <4>2, <5>1 DEF InFlight, SlotOf, IInv, Typed
      <4>3. CASE \E c \in ledger : y = SlotOf(c)
        <5>1. PICK c \in ledger : y = SlotOf(c)
          BY <4>3
        <5>2. c \in C
          BY <4>1, <5>1, <1>1 DEF InFlight, SlotOf, IInv, Typed, LedgerTypeOK
        <5> QED BY <5>1, <5>2
      <4> QED BY <4>2, <4>3 DEF Slots
    <3>6. f \in [C -> {f[c] : c \in C}]
      OBVIOUS
    <3>7. /\ Cardinality(Slots) <= Cardinality(L) + Cardinality(C)
          /\ IsFiniteSet(Slots) /\ Cardinality(Slots) \in Nat
      <4> HIDE DEF L, C, f
      <4> QED BY <3>4, <3>5, <3>6, Counting
    <3>8. Cardinality(L) \in Nat /\ Cardinality(C) \in Nat
      BY <3>4, FS_CardinalityType
    <3>9. /\ IsFiniteSet(Slots \cup {x})
          /\ Cardinality(Slots \cup {x}) = Cardinality(Slots) + 1
      <4>1. /\ IsFiniteSet(Slots \cup {x})
            /\ Cardinality(Slots \cup {x}) =
                 IF x \in Slots THEN Cardinality(Slots) ELSE Cardinality(Slots) + 1
        <5> HIDE DEF x
        <5> QED BY <3>7, FS_AddElement
      <4> HIDE DEF x
      <4> QED BY <4>1, <2>3
    <3>10. Slots' \subseteq Slots \cup {x}
      BY <2>1
    <3>11. Cardinality(Slots') <= Cardinality(Slots \cup {x}) /\ IsFiniteSet(Slots')
      <4> HIDE DEF x
      <4> QED BY <3>9, <3>10, FS_Subset
    <3>12. Cardinality(Slots') \in Nat /\ Cardinality(Slots \cup {x}) \in Nat
      <4> HIDE DEF x
      <4> QED BY <3>9, <3>11, FS_CardinalityType
    <3> HIDE DEF L, C, f, x
    <3> QED BY <3>2, <3>3, <3>7, <3>8, <3>9, <3>11, <3>12 DEF SlotsFit
  <2> QED BY <2>2, <2>3
<1> QED BY <1>2, <1>3

\* Every step keeps the inductive invariant.
LEMMA IInvStep == IInv /\ [Next]_vars => IInv'
<1> SUFFICES ASSUME IInv, [Next]_vars PROVE IInv'
  OBVIOUS
<1> USE GateAssumption, LedgerAssumption
<1>t. Typed'
  BY TypedStep DEF IInv
<1> USE DEF Go, IsReset, IsReplacement
<1>1. ASSUME NEW b \in Boots, OpenWindow(b) PROVE IInv'
  <2>1. HoldsSlot' /\ WindowOpen'
    BY <1>1, <1>t DEF OpenWindow, BeginSample, IInv, Typed, LedgerTypeOK, Steps, Reserving, Admitted, HoldsSlot, WindowOpen
  <2>2. Covered'
    BY <1>1, <1>t DEF OpenWindow, BeginSample, IInv, Typed, LedgerTypeOK, Steps, Reserving, Admitted, HoldsSlot, WindowOpen, Covered, StoppedOff
  <2>3. StoppedOff' /\ ResetOn'
    BY <1>1, <1>t DEF OpenWindow, BeginSample, IInv, Typed, LedgerTypeOK, Steps, Reserving, Admitted, HoldsSlot, StoppedOff, ResetOn
  <2>4. Slots' \subseteq Slots
    BY <1>1 DEF OpenWindow, BeginSample, Slots, SlotOf
  <2>5. SlotsFit'
    BY <1>t, <2>4, FewerSlots DEF IInv
  <2> QED BY <1>t, <2>1, <2>2, <2>3, <2>5 DEF IInv
<1>2. ASSUME NEW b \in Boots, TakeListing(b) PROVE IInv'
  <2>1. HoldsSlot' /\ WindowOpen'
    BY <1>2, <1>t DEF TakeListing, ledgerVars, IInv, Typed, LedgerTypeOK, Steps, Reserving, Admitted, HoldsSlot, WindowOpen
  <2>2. Covered'
    BY <1>2, <1>t DEF TakeListing, ledgerVars, IInv, Typed, LedgerTypeOK, Steps, Reserving, Admitted, HoldsSlot, WindowOpen, Covered, StoppedOff
  <2>3. StoppedOff' /\ ResetOn'
    BY <1>2, <1>t DEF TakeListing, ledgerVars, IInv, Typed, LedgerTypeOK, Steps, Reserving, Admitted, HoldsSlot, StoppedOff, ResetOn
  <2>4. Slots' \subseteq Slots
    BY <1>2 DEF TakeListing, ledgerVars, Slots, SlotOf
  <2>5. SlotsFit'
    BY <1>t, <2>4, FewerSlots DEF IInv
  <2> QED BY <1>t, <2>1, <2>2, <2>3, <2>5 DEF IInv
<1>3. ASSUME NEW b \in Boots, SampleFails(b) PROVE IInv'
  <2>1. HoldsSlot' /\ WindowOpen'
    BY <1>3, <1>t DEF SampleFails, CloseWindow, Forget, NotAdmitted, IInv, Typed, LedgerTypeOK, Steps, Reserving, Admitted, HoldsSlot, WindowOpen
  <2>2. Covered'
    BY <1>3, <1>t DEF SampleFails, CloseWindow, Forget, NotAdmitted, IInv, Typed, LedgerTypeOK, Steps, Reserving, Admitted, HoldsSlot, WindowOpen, Covered, StoppedOff
  <2>3. StoppedOff' /\ ResetOn'
    BY <1>3, <1>t DEF SampleFails, CloseWindow, Forget, NotAdmitted, IInv, Typed, LedgerTypeOK, Steps, Reserving, Admitted, HoldsSlot, StoppedOff, ResetOn
  <2>4. Slots' \subseteq Slots
    BY <1>3 DEF SampleFails, CloseWindow, Forget, NotAdmitted, Slots, SlotOf
  <2>5. SlotsFit'
    BY <1>t, <2>4, FewerSlots DEF IInv
  <2> QED BY <1>t, <2>1, <2>2, <2>3, <2>5 DEF IInv
<1>4. ASSUME NEW b \in Boots, NEW lim \in Limits, Decide(b, lim) PROVE IInv'
  <2>1. HoldsSlot' /\ WindowOpen'
    BY <1>4, <1>t DEF Decide, CloseWindow, Forget, NotAdmitted, Admit, Exclude, IInv, Typed, LedgerTypeOK, Steps, Reserving, Admitted, HoldsSlot, WindowOpen
  <2>2. Covered'
    BY <1>4, <1>t DEF Decide, CloseWindow, Forget, NotAdmitted, Admit, Exclude, IInv, Typed, LedgerTypeOK, Steps, Reserving, Admitted, HoldsSlot, WindowOpen, Covered, StoppedOff
  <2>3. StoppedOff' /\ ResetOn'
    BY <1>4, <1>t DEF Decide, CloseWindow, Forget, NotAdmitted, Admit, Exclude, IInv, Typed, LedgerTypeOK, Steps, Reserving, Admitted, HoldsSlot, StoppedOff, ResetOn
  <2>5. SlotsFit'
    BY <1>t, <1>4, DecideFits
  <2> QED BY <1>t, <2>1, <2>2, <2>3, <2>5 DEF IInv
<1>5. ASSUME NEW b \in Boots, StopReserved(b) PROVE IInv'
  <2>1. HoldsSlot' /\ WindowOpen'
    BY <1>5, <1>t DEF StopReserved, ledgerVars, IInv, Typed, LedgerTypeOK, Steps, Reserving, Admitted, HoldsSlot, WindowOpen
  <2>2. Covered'
    BY <1>5, <1>t DEF StopReserved, ledgerVars, IInv, Typed, LedgerTypeOK, Steps, Reserving, Admitted, HoldsSlot, WindowOpen, Covered, StoppedOff
  <2>3. StoppedOff' /\ ResetOn'
    BY <1>5, <1>t DEF StopReserved, ledgerVars, IInv, Typed, LedgerTypeOK, Steps, Reserving, Admitted, HoldsSlot, StoppedOff, ResetOn
  <2>4. Slots' \subseteq Slots
    BY <1>5 DEF StopReserved, ledgerVars, Slots, SlotOf
  <2>5. SlotsFit'
    BY <1>t, <2>4, FewerSlots DEF IInv
  <2> QED BY <1>t, <2>1, <2>2, <2>3, <2>5 DEF IInv
<1>6. ASSUME NEW b \in Boots, MarkReplacedGone(b) PROVE IInv'
  <2>1. HoldsSlot' /\ WindowOpen'
    BY <1>6, <1>t DEF MarkReplacedGone, Bind, IInv, Typed, LedgerTypeOK, Steps, Reserving, Admitted, HoldsSlot, WindowOpen
  <2>2. Covered'
    BY <1>6, <1>t DEF MarkReplacedGone, Bind, IInv, Typed, LedgerTypeOK, Steps, Reserving, Admitted, HoldsSlot, WindowOpen, Covered, StoppedOff
  <2>3. StoppedOff' /\ ResetOn'
    BY <1>6, <1>t DEF MarkReplacedGone, Bind, IInv, Typed, LedgerTypeOK, Steps, Reserving, Admitted, HoldsSlot, StoppedOff, ResetOn
  <2>4. /\ Replaces[b] \in Slots
        /\ Slots' \subseteq (Slots \ {Replaces[b]}) \cup {b}
    BY <1>6, <1>t DEF MarkReplacedGone, Bind, IInv, Typed, LedgerTypeOK, Steps, Reserving, Admitted, HoldsSlot, StoppedOff, Slots, SlotOf
  <2>5. SlotsFit'
    BY <1>t, <2>4, ExchangedSlot DEF IInv
  <2> QED BY <1>t, <2>1, <2>2, <2>3, <2>5 DEF IInv
<1>7. ASSUME NEW b \in Boots, Take(b) PROVE IInv'
  <2>1. HoldsSlot' /\ WindowOpen'
    BY <1>7, <1>t DEF Take, Bind, IInv, Typed, LedgerTypeOK, Steps, Reserving, Admitted, HoldsSlot, WindowOpen
  <2>2. Covered'
    BY <1>7, <1>t DEF Take, Bind, IInv, Typed, LedgerTypeOK, Steps, Reserving, Admitted, HoldsSlot, WindowOpen, Covered, StoppedOff
  <2>3. StoppedOff' /\ ResetOn'
    BY <1>7, <1>t DEF Take, Bind, IInv, Typed, LedgerTypeOK, Steps, Reserving, Admitted, HoldsSlot, StoppedOff, ResetOn
  <2>4. CASE IsReset(b)
    <3>1. Slots' \subseteq Slots
      BY <1>7, <2>4 DEF Take, Bind, IInv, Typed, LedgerTypeOK, Steps, Reserving, Admitted, HoldsSlot, Slots, SlotOf
    <3> QED BY <1>t, <2>1, <2>2, <2>3, <3>1, FewerSlots DEF IInv
  <2>5. CASE ~IsReset(b)
    <3>1. /\ b \in Slots
          /\ Slots' \subseteq (Slots \ {b}) \cup {Target[b]}
      BY <1>7, <2>5 DEF Take, Bind, IInv, Typed, LedgerTypeOK, Steps, Reserving, Admitted, HoldsSlot, Slots, SlotOf
    <3>2. SlotsFit'
      BY <1>t, <3>1, ExchangedSlot DEF IInv
    <3> QED BY <1>t, <2>1, <2>2, <2>3, <3>2 DEF IInv
  <2> QED BY <2>4, <2>5
<1>8. ASSUME NEW b \in Boots, ReleaseReservation(b) PROVE IInv'
  <2>1. HoldsSlot' /\ WindowOpen'
    BY <1>8, <1>t DEF ReleaseReservation, End, IInv, Typed, LedgerTypeOK, Steps, Reserving, Admitted, HoldsSlot, WindowOpen
  <2>2. Covered'
    BY <1>8, <1>t DEF ReleaseReservation, End, IInv, Typed, LedgerTypeOK, Steps, Reserving, Admitted, HoldsSlot, WindowOpen, Covered, StoppedOff
  <2>3. StoppedOff' /\ ResetOn'
    BY <1>8, <1>t DEF ReleaseReservation, End, IInv, Typed, LedgerTypeOK, Steps, Reserving, Admitted, HoldsSlot, StoppedOff, ResetOn
  <2>4. Slots' \subseteq Slots
    BY <1>8 DEF ReleaseReservation, End, Slots, SlotOf
  <2>5. SlotsFit'
    BY <1>t, <2>4, FewerSlots DEF IInv
  <2> QED BY <1>t, <2>1, <2>2, <2>3, <2>5 DEF IInv
<1>9. ASSUME NEW b \in Boots, WaitForPermit(b) PROVE IInv'
  <2>1. HoldsSlot' /\ WindowOpen'
    BY <1>9, <1>t DEF WaitForPermit, ledgerVars, IInv, Typed, LedgerTypeOK, Steps, Reserving, Admitted, HoldsSlot, WindowOpen
  <2>2. Covered'
    BY <1>9, <1>t DEF WaitForPermit, ledgerVars, IInv, Typed, LedgerTypeOK, Steps, Reserving, Admitted, HoldsSlot, WindowOpen, Covered, StoppedOff
  <2>3. StoppedOff' /\ ResetOn'
    BY <1>9, <1>t DEF WaitForPermit, ledgerVars, IInv, Typed, LedgerTypeOK, Steps, Reserving, Admitted, HoldsSlot, StoppedOff, ResetOn
  <2>4. Slots' \subseteq Slots
    BY <1>9 DEF WaitForPermit, ledgerVars, Slots, SlotOf
  <2>5. SlotsFit'
    BY <1>t, <2>4, FewerSlots DEF IInv
  <2> QED BY <1>t, <2>1, <2>2, <2>3, <2>5 DEF IInv
<1>10. ASSUME NEW b \in Boots, AbortQueued(b) PROVE IInv'
  <2>1. HoldsSlot' /\ WindowOpen'
    BY <1>10, <1>t DEF AbortQueued, End, IInv, Typed, LedgerTypeOK, Steps, Reserving, Admitted, HoldsSlot, WindowOpen
  <2>2. Covered'
    BY <1>10, <1>t DEF AbortQueued, End, IInv, Typed, LedgerTypeOK, Steps, Reserving, Admitted, HoldsSlot, WindowOpen, Covered, StoppedOff
  <2>3. StoppedOff' /\ ResetOn'
    BY <1>10, <1>t DEF AbortQueued, End, IInv, Typed, LedgerTypeOK, Steps, Reserving, Admitted, HoldsSlot, StoppedOff, ResetOn
  <2>4. Slots' \subseteq Slots
    BY <1>10 DEF AbortQueued, End, Slots, SlotOf
  <2>5. SlotsFit'
    BY <1>t, <2>4, FewerSlots DEF IInv
  <2> QED BY <1>t, <2>1, <2>2, <2>3, <2>5 DEF IInv
<1>11. ASSUME NEW b \in Boots, StartBoot(b) PROVE IInv'
  <2>1. HoldsSlot' /\ WindowOpen'
    BY <1>11, <1>t DEF StartBoot, ledgerVars, IInv, Typed, LedgerTypeOK, Steps, Reserving, Admitted, HoldsSlot, WindowOpen
  <2>2. Covered'
    BY <1>11, <1>t DEF StartBoot, ledgerVars, IInv, Typed, LedgerTypeOK, Steps, Reserving, Admitted, HoldsSlot, WindowOpen, Covered, StoppedOff
  <2>3. StoppedOff' /\ ResetOn'
    BY <1>11, <1>t DEF StartBoot, ledgerVars, IInv, Typed, LedgerTypeOK, Steps, Reserving, Admitted, HoldsSlot, StoppedOff, ResetOn
  <2>4. Slots' \subseteq Slots
    BY <1>11 DEF StartBoot, ledgerVars, IInv, Typed, LedgerTypeOK, Steps, Reserving, Admitted, HoldsSlot, Slots, SlotOf
  <2>5. SlotsFit'
    BY <1>t, <2>4, FewerSlots DEF IInv
  <2> QED BY <1>t, <2>1, <2>2, <2>3, <2>5 DEF IInv
<1>12. ASSUME NEW b \in Boots, FinishBoot(b) PROVE IInv'
  <2>1. HoldsSlot' /\ WindowOpen'
    BY <1>12, <1>t DEF FinishBoot, End, IInv, Typed, LedgerTypeOK, Steps, Reserving, Admitted, HoldsSlot, WindowOpen
  <2>2. Covered'
    BY <1>12, <1>t DEF FinishBoot, End, IInv, Typed, LedgerTypeOK, Steps, Reserving, Admitted, HoldsSlot, WindowOpen, Covered, StoppedOff
  <2>3. StoppedOff' /\ ResetOn'
    BY <1>12, <1>t DEF FinishBoot, End, IInv, Typed, LedgerTypeOK, Steps, Reserving, Admitted, HoldsSlot, StoppedOff, ResetOn
  <2>4. Slots' \subseteq Slots
    BY <1>12 DEF FinishBoot, End, Slots, SlotOf
  <2>5. SlotsFit'
    BY <1>t, <2>4, FewerSlots DEF IInv
  <2> QED BY <1>t, <2>1, <2>2, <2>3, <2>5 DEF IInv
<1>13. ASSUME NEW s \in Sims, PowerOff(s) PROVE IInv'
  <2>1. HoldsSlot' /\ WindowOpen'
    BY <1>13, <1>t DEF PowerOff, ledgerVars, IInv, Typed, LedgerTypeOK, Steps, Reserving, Admitted, HoldsSlot, WindowOpen
  <2>2. Covered'
    BY <1>13, <1>t DEF PowerOff, ledgerVars, IInv, Typed, LedgerTypeOK, Steps, Reserving, Admitted, HoldsSlot, WindowOpen, Covered, StoppedOff
  <2>3. StoppedOff' /\ ResetOn'
    BY <1>13, <1>t DEF PowerOff, ledgerVars, IInv, Typed, LedgerTypeOK, Steps, Reserving, Admitted, HoldsSlot, StoppedOff, ResetOn
  <2>4. Slots' \subseteq Slots
    BY <1>13 DEF PowerOff, ledgerVars, Slots, SlotOf
  <2>5. SlotsFit'
    BY <1>t, <2>4, FewerSlots DEF IInv
  <2> QED BY <1>t, <2>1, <2>2, <2>3, <2>5 DEF IInv
<1>14. CASE UNCHANGED vars
  BY <1>14 DEF vars, ledgerVars, gateVars, IInv, Typed, LedgerTypeOK, HoldsSlot, WindowOpen, Covered,
     StoppedOff, ResetOn, SlotsFit, Slots, SlotOf
<1> QED BY <1>1, <1>2, <1>3, <1>4, <1>5, <1>6, <1>7, <1>8, <1>9, <1>10, <1>11, <1>12, <1>13, <1>14
        DEF Next, BootStep

\* Slots that fit the limit leave no more simulators running than it allows.
LEMMA IInvImplies == IInv => WithinLimit
<1> SUFFICES ASSUME IInv PROVE WithinLimit
  OBVIOUS
<1>1. IsFiniteSet(Slots)
  BY SlotsFinite DEF IInv
<1>2. Cardinality(on) <= Cardinality(Slots) /\ IsFiniteSet(on)
  BY <1>1, FS_Subset DEF Slots
<1>3. Cardinality(on) \in Nat /\ Cardinality(Slots) \in Nat
  BY <1>1, <1>2, FS_CardinalityType
<1> QED BY <1>2, <1>3, GateAssumption DEF IInv, SlotsFit, WithinLimit

-----------------------------------------------------------------------------
\* However listings, decisions, resets, replacements and boots interleave, the simulators that
\* run never exceed limits.maxBooted (IosSimCapacityGate.decide), for any number of simulators
\* and requests.
THEOREM CapacityIsNeverExceeded == Spec => []WithinLimit
<1>1. Init => IInv
  BY InitEstablishes
<1>2. IInv /\ [Next]_vars => IInv'
  BY IInvStep
<1>3. IInv => WithinLimit
  BY IInvImplies
<1> QED BY <1>1, <1>2, <1>3, PTL DEF Spec

-----------------------------------------------------------------------------
(* Permits. *)

\* whoever waits is queued once and has no permit; permits and windows are of requests that
\* still need them
Places ==
  /\ \A i, j \in 1..Len(waiters) : waiters[i] = waiters[j] => i = j
  /\ \A i \in 1..Len(waiters) : waiters[i] \notin running /\ pc[waiters[i]] = "queued"
  /\ \A b \in running : pc[b] \in {"queued", "booting"}
  /\ \A b \in windows : pc[b] \in {"sampling", "listed"}

PermitInv == PermitTypeOK(Boots, Limits) /\ Places /\ NoIdlePermit

\* A drain grants the oldest waiters, as many as the limit allows, and leaves the others waiting
\* only if the permits of the limit are out.
LEMMA DrainSound ==
  ASSUME NEW out \in SUBSET Boots, NEW wait \in Seq(Boots), NEW lim \in Limits,
         \A i, j \in 1..Len(wait) : wait[i] = wait[j] => i = j,
         \A i \in 1..Len(wait) : wait[i] \notin out,
         Drain(out, wait, lim)
  PROVE  /\ PermitTypeOK(Boots, Limits)'
         /\ \A i, j \in 1..Len(waiters') : waiters'[i] = waiters'[j] => i = j
         /\ \A i \in 1..Len(waiters') :
              waiters'[i] \notin running' /\ \E k \in 1..Len(wait) : waiters'[i] = wait[k]
         /\ \A b \in running' : b \in out \/ \E k \in 1..Len(wait) : b = wait[k]
         /\ NoIdlePermit'
         /\ \A i, j \in 1..Len(wait) : i < j /\ wait[j] \in running' => wait[i] \in running'
<1> DEFINE n == Free(out, wait, lim)
           G == {wait[i] : i \in 1..n}
           c == Cardinality(out)
<1>1. lim \in Nat /\ IsFiniteSet(out) /\ c \in Nat /\ Len(wait) \in Nat
  BY GateAssumption, LedgerAssumption, FS_Subset, FS_CardinalityType
<1>2. n \in Nat /\ n <= Len(wait) /\ (n < Len(wait) => c + n >= lim)
  <2> HIDE DEF c
  <2>1. n = IF c >= lim THEN 0 ELSE IF lim - c < Len(wait) THEN lim - c ELSE Len(wait)
    BY DEF Free, c
  <2> HIDE DEF n
  <2> QED BY <2>1, <1>1
<1>3. running' = out \cup G /\ waiters' = SubSeq(wait, n + 1, Len(wait)) /\ limit' = lim
  BY DEF Drain
<1> HIDE DEF n
<1>4. IsFiniteSet(G) /\ Cardinality(G) = n
  <2> DEFINE f == [i \in 1..n |-> wait[i]]
  <2>1. f \in Bijection(1..n, G)
    BY <1>1, <1>2 DEF Bijection, Injection, Surjection, IsInjective
  <2>2. IsFiniteSet(1..n) /\ Cardinality(1..n) = n
    BY <1>2, FS_Interval
  <2>3. ExistsBijection(1..n, G)
    BY <2>1 DEF ExistsBijection
  <2> HIDE DEF G
  <2> QED BY <2>2, <2>3, FS_Bijection
<1>5. /\ waiters' \in Seq(Boots) /\ Len(waiters') = Len(wait) - n
      /\ \A i \in 1..Len(waiters') : n + i \in 1..Len(wait) /\ waiters'[i] = wait[n + i]
  BY <1>1, <1>2, <1>3, SubSeqProperties
<1>6. \A k \in 1..Len(wait) : wait[k] \in running' <=> k \in 1..n
  BY <1>1, <1>2, <1>3
<1>7. PermitTypeOK(Boots, Limits)'
  <2>1. running' \in SUBSET Boots
    BY <1>1, <1>2, <1>3
  <2> QED BY <2>1, <1>3, <1>5 DEF PermitTypeOK
<1>8. \A i, j \in 1..Len(waiters') : waiters'[i] = waiters'[j] => i = j
  BY <1>1, <1>2, <1>5
<1>9. \A i \in 1..Len(waiters') :
        waiters'[i] \notin running' /\ \E k \in 1..Len(wait) : waiters'[i] = wait[k]
  <2> SUFFICES ASSUME NEW i \in 1..Len(waiters')
               PROVE  waiters'[i] \notin running' /\ \E k \in 1..Len(wait) : waiters'[i] = wait[k]
    OBVIOUS
  <2>1. n + i \in 1..Len(wait) /\ n + i \notin 1..n /\ waiters'[i] = wait[n + i]
    BY <1>1, <1>2, <1>5
  <2> QED BY <2>1, <1>6
<1>10. \A b \in running' : b \in out \/ \E k \in 1..Len(wait) : b = wait[k]
  BY <1>1, <1>2, <1>3
<1>11. NoIdlePermit'
  <2> SUFFICES ASSUME waiters' # <<>> PROVE Cardinality(running') >= lim
    BY <1>3 DEF NoIdlePermit
  <2>1. n < Len(wait)
    BY <1>1, <1>2, <1>5
  <2>2. out \cap G = {}
    BY <1>1, <1>2
  <2>3. Cardinality(running') = c + n
    <3> HIDE DEF G, c
    <3>1. Cardinality(out \cup G) = Cardinality(out) + Cardinality(G) - Cardinality(out \cap G)
      BY <1>1, <1>4, FS_Union
    <3>2. Cardinality(out \cap G) = 0
      BY <2>2, FS_EmptySet
    <3>3. Cardinality(out) = c /\ Cardinality(G) = n
      BY <1>4 DEF c
    <3>4. Cardinality(running') = c + n - 0
      BY <3>1, <3>2, <3>3, <1>3
    <3> QED BY <3>4, <1>1, <1>2
  <2> HIDE DEF c, G
  <2> QED BY <2>1, <2>3, <1>2
<1>12. \A i, j \in 1..Len(wait) : i < j /\ wait[j] \in running' => wait[i] \in running'
  BY <1>1, <1>2, <1>6
<1> QED BY <1>7, <1>8, <1>9, <1>10, <1>11, <1>12

\* Where the elements of a concatenation come from.
LEMMA Concatenated ==
  ASSUME NEW S, NEW p \in Seq(S), NEW q \in Seq(S), NEW r, r = p \o q
  PROVE  /\ r \in Seq(S) /\ Len(r) = Len(p) + Len(q)
         /\ \A k \in 1..Len(r) : r[k] = IF k <= Len(p) THEN p[k] ELSE q[k - Len(p)]
OBVIOUS

\* The parts of a sequence before and after i.
LEMMA Parts ==
  ASSUME NEW S, NEW w \in Seq(S), NEW i \in 1..Len(w), NEW p, NEW q,
         p = SubSeq(w, 1, i - 1), q = SubSeq(w, i + 1, Len(w))
  PROVE  /\ p \in Seq(S) /\ Len(p) = i - 1 /\ \A k \in 1..Len(p) : p[k] = w[k]
         /\ q \in Seq(S) /\ Len(q) = Len(w) - i /\ \A k \in 1..Len(q) : q[k] = w[i + k]
<1>1. Len(w) \in Nat /\ i \in Nat
  OBVIOUS
<1>2. p \in Seq(S) /\ Len(p) = i - 1 /\ \A k \in 1..Len(p) : p[k] = w[k]
  BY <1>1, SubSeqProperties
<1>3. q \in Seq(S) /\ Len(q) = Len(w) - i /\ \A k \in 1..Len(q) : q[k] = w[i + k]
  BY <1>1, SubSeqProperties
<1> QED BY <1>2, <1>3

\* Nobody is granted a permit before a boot that waits longer and goes on waiting.
InOrder ==
  \A i, j \in 1..Len(waiters) :
     i < j /\ waiters[j] \in running' => waiters[i] \in running' \/ pc'[waiters[i]] = "done"

\* Every step keeps permits in place and grants them in order.
LEMMA PermitStep ==
  ASSUME Typed, PermitInv, [Next]_vars
  PROVE  PermitInv' /\ InOrder
<1> USE DEF PermitInv, Typed
<1>0. running \in SUBSET Boots /\ waiters \in Seq(Boots) /\ limit \in Limits /\ Len(waiters) \in Nat
      /\ \A i \in 1..Len(waiters) : waiters[i] \in Boots
  BY DEF PermitTypeOK
<1>1. ASSUME UNCHANGED permitVars,
             \A b \in Boots : pc'[b] # pc[b] => /\ b \in running => pc'[b] \in {"queued", "booting"}
                                                /\ pc[b] = "queued" => b \in running,
             \A b \in windows' : pc'[b] \in {"sampling", "listed"}
      PROVE  PermitInv' /\ InOrder
  BY <1>0, <1>1 DEF permitVars, PermitTypeOK, Places, NoIdlePermit, InOrder
<1>2. ASSUME NEW b \in Boots,
             OpenWindow(b) \/ TakeListing(b) \/ SampleFails(b) \/ StopReserved(b)
             \/ MarkReplacedGone(b) \/ Take(b) \/ ReleaseReservation(b) \/ StartBoot(b)
      PROVE  PermitInv' /\ InOrder
  <2>1. UNCHANGED permitVars
    BY <1>2 DEF OpenWindow, TakeListing, SampleFails, StopReserved, MarkReplacedGone, Take,
                ReleaseReservation, StartBoot
  <2>2. \A c \in Boots : pc'[c] # pc[c] => /\ c \in running => pc'[c] \in {"queued", "booting"}
                                           /\ pc[c] = "queued" => c \in running
    BY <1>2 DEF OpenWindow, TakeListing, SampleFails, StopReserved, MarkReplacedGone, Take,
                ReleaseReservation, StartBoot, Go, NotAdmitted, Places, Reserving
  <2>3. \A c \in windows' : pc'[c] \in {"sampling", "listed"}
    BY <1>2 DEF OpenWindow, TakeListing, SampleFails, StopReserved, MarkReplacedGone, Take,
                ReleaseReservation, StartBoot, Go, NotAdmitted, Places, Reserving, BeginSample,
                CloseWindow, Bind, End, ledgerVars, LedgerTypeOK
  <2> QED BY <2>1, <2>2, <2>3, <1>1
<1>3. ASSUME NEW s \in Sims, PowerOff(s)
      PROVE  PermitInv' /\ InOrder
  BY <1>1, <1>3 DEF PowerOff, ledgerVars, Places
<1>4. ASSUME NEW b \in Boots, NEW lim \in Limits, Decide(b, lim)
      PROVE  PermitInv' /\ InOrder
  <2>1. Drain(running, waiters, lim)
    BY <1>4 DEF Decide, SetLimit
  <2>2. /\ PermitTypeOK(Boots, Limits)' /\ NoIdlePermit'
        /\ \A i, j \in 1..Len(waiters') : waiters'[i] = waiters'[j] => i = j
        /\ \A i \in 1..Len(waiters') :
             waiters'[i] \notin running' /\ \E k \in 1..Len(waiters) : waiters'[i] = waiters[k]
        /\ \A c \in running' : c \in running \/ \E k \in 1..Len(waiters) : c = waiters[k]
        /\ \A i, j \in 1..Len(waiters) : i < j /\ waiters[j] \in running' => waiters[i] \in running'
    BY <2>1, <1>0, DrainSound DEF Places
  <2>3. \A c \in Boots : pc[c] \in {"queued", "booting"} => pc'[c] = pc[c]
    BY <1>4 DEF Decide, Go, NotAdmitted
  <2>4. \A c \in windows' : pc'[c] \in {"sampling", "listed"}
    BY <1>4 DEF Decide, Go, NotAdmitted, CloseWindow, Places, LedgerTypeOK
  <2>5. Places'
    BY <2>2, <2>3, <2>4, <1>0 DEF Places
  <2> QED BY <2>2, <2>5 DEF InOrder
<1>5. ASSUME NEW b \in Boots, WaitForPermit(b)
      PROVE  PermitInv' /\ InOrder
  <2> DEFINE w == Append(waiters, b)
  <2>1. /\ w \in Seq(Boots) /\ Len(w) = Len(waiters) + 1 /\ w[Len(waiters) + 1] = b
        /\ \A i \in 1..Len(waiters) : w[i] = waiters[i]
    BY <1>0
  <2>2. b \notin running /\ \A i \in 1..Len(waiters) : waiters[i] # b
    BY <1>5 DEF WaitForPermit, Places
  <2>3. Drain(running, w, limit)
    BY <1>5 DEF WaitForPermit, AcquirePermit
  <2> HIDE DEF w
  <2>4. /\ \A i, j \in 1..Len(w) : w[i] = w[j] => i = j
        /\ \A i \in 1..Len(w) : w[i] \notin running
    BY <2>1, <2>2, <1>0 DEF Places
  <2>5. /\ PermitTypeOK(Boots, Limits)' /\ NoIdlePermit'
        /\ \A i, j \in 1..Len(waiters') : waiters'[i] = waiters'[j] => i = j
        /\ \A i \in 1..Len(waiters') :
             waiters'[i] \notin running' /\ \E k \in 1..Len(w) : waiters'[i] = w[k]
        /\ \A c \in running' : c \in running \/ \E k \in 1..Len(w) : c = w[k]
        /\ \A i, j \in 1..Len(w) : i < j /\ w[j] \in running' => w[i] \in running'
    BY <2>1, <2>3, <2>4, <1>0, DrainSound, ZenonT(60)
  <2>6. pc'[b] = "queued" /\ pc[b] = "admitted" /\ \A c \in Boots : c # b => pc'[c] = pc[c]
    BY <1>5 DEF WaitForPermit, Go
  <2>7. windows' = windows
    BY <1>5 DEF WaitForPermit, ledgerVars
  <2>8. \A k \in 1..Len(w) : w[k] \in Boots /\ pc'[w[k]] = "queued"
    BY <2>1, <2>6, <1>0 DEF Places
  <2>9. Places'
    BY <2>5, <2>6, <2>7, <2>8, <1>0 DEF Places, LedgerTypeOK
  <2>10. InOrder
    BY <2>1, <2>5, <1>0 DEF InOrder
  <2> QED BY <2>5, <2>9, <2>10
<1>6. ASSUME NEW b \in Boots, FinishBoot(b)
      PROVE  PermitInv' /\ InOrder
  <2> DEFINE out == running \ {b}
  <2>1. out \in SUBSET Boots /\ Drain(out, waiters, limit) /\ \A c \in out : c \in running /\ c # b
    BY <1>0, <1>6 DEF FinishBoot, ReleasePermit
  <2>2. \A i \in 1..Len(waiters) : waiters[i] \notin out /\ waiters[i] # b
    BY <1>6 DEF FinishBoot, Places
  <2> HIDE DEF out
  <2>3. /\ PermitTypeOK(Boots, Limits)' /\ NoIdlePermit'
        /\ \A i, j \in 1..Len(waiters') : waiters'[i] = waiters'[j] => i = j
        /\ \A i \in 1..Len(waiters') :
             waiters'[i] \notin running' /\ \E k \in 1..Len(waiters) : waiters'[i] = waiters[k]
        /\ \A c \in running' : c \in out \/ \E k \in 1..Len(waiters) : c = waiters[k]
        /\ \A i, j \in 1..Len(waiters) : i < j /\ waiters[j] \in running' => waiters[i] \in running'
    BY <2>1, <2>2, <1>0, DrainSound DEF Places
  <2>4. pc[b] \in {"queued", "booting"} /\ windows' = windows /\ \A c \in Boots : c # b => pc'[c] = pc[c]
    BY <1>6 DEF FinishBoot, Go, End
  <2>5. Places'
    BY <2>1, <2>2, <2>3, <2>4, <1>0 DEF Places, LedgerTypeOK
  <2> QED BY <2>3, <2>5 DEF InOrder
<1>7. ASSUME NEW b \in Boots, AbortQueued(b)
      PROVE  PermitInv' /\ InOrder
  <2>1. PICK i \in 1..Len(waiters) :
          /\ waiters[i] = b
          /\ waiters' = SubSeq(waiters, 1, i - 1) \o SubSeq(waiters, i + 1, Len(waiters))
    BY <1>7 DEF AbortQueued, AbortWait
  <2>2. running' = running /\ limit' = limit /\ windows' = windows
    BY <1>7 DEF AbortQueued, AbortWait, End
  <2>3. pc'[b] = "done" /\ \A c \in Boots : c # b => pc'[c] = pc[c]
    BY <1>7 DEF AbortQueued, Go
  <2>5. /\ waiters' \in Seq(Boots) /\ Len(waiters') = Len(waiters) - 1
        /\ \A k \in 1..Len(waiters') :
             /\ k < i => k \in 1..Len(waiters) /\ waiters'[k] = waiters[k]
             /\ k >= i => k + 1 \in 1..Len(waiters) /\ waiters'[k] = waiters[k + 1]
    <3> DEFINE p == SubSeq(waiters, 1, i - 1)
               q == SubSeq(waiters, i + 1, Len(waiters))
    <3>1. /\ p \in Seq(Boots) /\ Len(p) = i - 1 /\ \A k \in 1..Len(p) : p[k] = waiters[k]
          /\ q \in Seq(Boots) /\ Len(q) = Len(waiters) - i /\ \A k \in 1..Len(q) : q[k] = waiters[i + k]
      BY <1>0, Parts
    <3>2. waiters' = p \o q
      BY <2>1
    <3> HIDE DEF p, q
    <3>3. p \in Seq(Boots) /\ q \in Seq(Boots)
      BY <3>1
    <3>4. /\ waiters' \in Seq(Boots) /\ Len(waiters') = Len(p) + Len(q)
          /\ \A k \in 1..Len(waiters') : waiters'[k] = IF k <= Len(p) THEN p[k] ELSE q[k - Len(p)]
      BY <3>2, <3>3, Concatenated
    <3> DEFINE w == waiters
               r == waiters'
    <3>5. /\ w \in Seq(Boots) /\ i \in 1..Len(w) /\ r \in Seq(Boots)
          /\ \A k \in 1..Len(p) : p[k] = w[k]
          /\ Len(q) = Len(w) - i /\ \A k \in 1..Len(q) : q[k] = w[i + k]
          /\ Len(r) = Len(p) + Len(q)
          /\ \A k \in 1..Len(r) : r[k] = IF k <= Len(p) THEN p[k] ELSE q[k - Len(p)]
      BY <3>1, <3>4, <1>0
    <3> HIDE DEF w, r
    <3>6. /\ Len(r) = Len(w) - 1
          /\ \A k \in 1..Len(r) : /\ k < i => k \in 1..Len(w) /\ r[k] = w[k]
                                  /\ k >= i => k + 1 \in 1..Len(w) /\ r[k] = w[k + 1]
      <4>1. Len(w) \in Nat /\ i \in Nat /\ Len(p) = i - 1
        BY <3>1, <3>5
      <4>2. Len(r) = Len(w) - 1
        BY <3>5, <4>1
      <4>3. ASSUME NEW k \in 1..Len(r), k < i
            PROVE  k \in 1..Len(w) /\ r[k] = w[k]
        <5>1. k \in 1..Len(p) /\ k \in 1..Len(w)
          BY <4>1, <4>2, <4>3
        <5> QED BY <5>1, <3>5
      <4>4. ASSUME NEW k \in 1..Len(r), k >= i
            PROVE  k + 1 \in 1..Len(w) /\ r[k] = w[k + 1]
        <5> DEFINE l == k - Len(p)
        <5>1. l \in 1..Len(q) /\ i + l = k + 1 /\ ~(k <= Len(p)) /\ k + 1 \in 1..Len(w)
          BY <4>1, <4>2, <4>4, <3>5
        <5>2. r[k] = q[l]
          BY <5>1, <3>5
        <5> HIDE DEF l
        <5> QED BY <5>1, <5>2, <3>5
      <4> QED BY <4>2, <4>3, <4>4
    <3> QED BY <3>4, <3>6 DEF w, r
  <2>6. \A k \in 1..Len(waiters') : /\ waiters'[k] \notin running /\ pc[waiters'[k]] = "queued"
                                    /\ waiters'[k] # b /\ waiters'[k] \in Boots
    <3> SUFFICES ASSUME NEW k \in 1..Len(waiters')
                 PROVE  /\ waiters'[k] \notin running /\ pc[waiters'[k]] = "queued"
                        /\ waiters'[k] # b /\ waiters'[k] \in Boots
      OBVIOUS
    <3>1. PICK l \in 1..Len(waiters) : l # i /\ waiters'[k] = waiters[l]
      <4>1. CASE k < i
        BY <4>1, <2>5, <1>0
      <4>2. CASE k >= i
        BY <4>2, <2>5, <1>0
      <4> QED BY <4>1, <4>2, <2>5, <1>0
    <3> QED BY <3>1, <2>1, <1>0 DEF Places
  <2>7. \A k, l \in 1..Len(waiters') : waiters'[k] = waiters'[l] => k = l
    <3> SUFFICES ASSUME NEW k \in 1..Len(waiters'), NEW l \in 1..Len(waiters'), waiters'[k] = waiters'[l]
                 PROVE  k = l
      OBVIOUS
    <3>1. k \in 1..Len(waiters) /\ k + 1 \in 1..Len(waiters) /\ l \in 1..Len(waiters)
          /\ l + 1 \in 1..Len(waiters)
      BY <2>5, <1>0
    <3>2. (IF k < i THEN k ELSE k + 1) = (IF l < i THEN l ELSE l + 1)
      BY <3>1, <2>5 DEF Places
    <3> QED BY <3>1, <3>2
  <2>8. PermitTypeOK(Boots, Limits)' /\ NoIdlePermit'
    <3>1. waiters # <<>>
      BY <2>1
    <3> QED BY <3>1, <2>2, <2>5, <1>0 DEF PermitTypeOK, NoIdlePermit
  <2>9. b \notin running /\ b \notin windows
    BY <2>1, <1>7 DEF Places, AbortQueued
  <2>10. Places'
    BY <2>2, <2>3, <2>6, <2>7, <2>9, <1>0 DEF Places, LedgerTypeOK
  <2>11. InOrder
    BY <2>2 DEF Places, InOrder
  <2> QED BY <2>8, <2>10, <2>11
<1>8. CASE UNCHANGED vars
  BY <1>8 DEF vars, permitVars, ledgerVars, gateVars, PermitTypeOK, Places, NoIdlePermit, InOrder
<1> QED BY <1>2, <1>3, <1>4, <1>5, <1>6, <1>7, <1>8 DEF Next, BootStep

\* At the start nobody waits.
LEMMA PermitInitial == Init => PermitInv
<1> SUFFICES ASSUME Init PROVE PermitInv
  OBVIOUS
<1>1. running = {} /\ waiters = <<>> /\ limit = 1 /\ windows = {}
  BY DEF Init, PermitInit, LedgerInit
<1>2. Len(waiters) = 0 /\ waiters \in Seq(Boots)
  BY <1>1
<1> QED BY <1>1, <1>2, GateAssumption DEF PermitInv, PermitTypeOK, Places, NoIdlePermit

\* No slot or permit leaks and no wakeup is lost, for any number of boots and whatever limits
\* the samples derive: a request that is over holds nothing, and a boot waits only while the
\* permits of the limit are out (BootConcurrencyGate.drain).
THEOREM SlotsAreSound == Spec => []SlotsSound
<1>1. Init => IInv /\ PermitInv
  BY InitEstablishes, PermitInitial
<1>2. IInv /\ PermitInv /\ [Next]_vars => (IInv /\ PermitInv)'
  BY IInvStep, PermitStep DEF IInv
<1>3. IInv /\ PermitInv => SlotsSound
  <2> SUFFICES ASSUME IInv, PermitInv PROVE SlotsSound
    OBVIOUS
  <2>1. TypeOK
    BY DEF IInv, Typed, PermitInv, TypeOK
  <2>2. NoLeak
    BY DEF IInv, HoldsSlot, PermitInv, Places, NoLeak, Queued
  <2> QED BY <2>1, <2>2 DEF PermitInv, SlotsSound
<1> QED BY <1>1, <1>2, <1>3, PTL DEF Spec

\* Permits are first come, first served (BootConcurrencyGate.drain shifts the oldest waiter):
\* whatever limits, aborts and releases there are, nobody is granted one before a boot that
\* waits longer.
THEOREM PermitsInOrder == Spec => FirstComeFirstServed
<1>1. Init => IInv /\ PermitInv
  BY InitEstablishes, PermitInitial
<1>2. IInv /\ PermitInv /\ [Next]_vars => (IInv /\ PermitInv)'
  BY IInvStep, PermitStep DEF IInv
<1>3. IInv /\ PermitInv /\ [Next]_vars =>
        [\A i, j \in 1..Len(waiters) : i < j /\ waiters[j] \in running'
           => waiters[i] \in running' \/ pc'[waiters[i]] = "done"]_vars
  BY PermitStep DEF IInv, InOrder
<1> QED BY <1>1, <1>2, <1>3, PTL DEF Spec, FirstComeFirstServed
=============================================================================
