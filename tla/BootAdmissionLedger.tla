------------------------ MODULE BootAdmissionLedger ------------------------
(***************************************************************************)
(* BootAdmissionLedger: the boots a gate has admitted and that no listing  *)
(* may show yet, and the sample windows of the calls that are deciding.    *)
(*                                                                         *)
(* A boot is its admission's token, and the token of the call that samples *)
(* for it.  A call admits at most once, so an entry that has left the      *)
(* ledger keeps its last device id, and a window need only remember which  *)
(* boots ended in it.  The hand-off of an entry to a spawned emulator is   *)
(* used by the Android gate alone and is not part of this module.          *)
(***************************************************************************)
EXTENDS Naturals, FiniteSets

CONSTANTS Sims,   \* devices, by their id
          Boots,  \* boot requests
          None    \* no device id

ASSUME LedgerAssumption ==
  /\ IsFiniteSet(Sims) /\ IsFiniteSet(Boots)
  /\ Sims \cap Boots = {} /\ None \notin Sims /\ None \notin Boots

VARIABLES
  ledger,   \* boots with an entry
  dev,      \* [Boots -> the entry's deviceId, or None]
  windows,  \* calls whose sample window is open
  ended     \* [Boots -> the boots that ended in its window]

ledgerVars == <<ledger, dev, windows, ended>>

LedgerTypeOK ==
  /\ ledger \in SUBSET Boots
  /\ dev \in [Boots -> Sims \cup {None}]
  /\ windows \in SUBSET Boots
  /\ ended \in [Boots -> SUBSET Boots]

LedgerInit ==
  /\ ledger = {}
  /\ dev = [b \in Boots |-> None]
  /\ windows = {}
  /\ ended = [b \in Boots |-> {}]

\* beginSample
BeginSample(c) ==
  /\ windows' = windows \cup {c}
  /\ UNCHANGED <<ledger, dev, ended>>

\* close: nobody reads what the window collected after the decision made in the same turn
CloseWindow(c) ==
  /\ windows' = windows \ {c}
  /\ ended' = [ended EXCEPT ![c] = {}]

\* admit
Admit(b, d) ==
  /\ ledger' = ledger \cup {b}
  /\ dev' = [dev EXCEPT ![b] = d]

\* bind: only while the entry is in the ledger
Bind(b, d) ==
  /\ dev' = IF b \in ledger THEN [dev EXCEPT ![b] = d] ELSE dev
  /\ UNCHANGED <<ledger, windows, ended>>

\* MUTANT of End: a window keeps only what was in flight when its sample began
End_NotCollected(b) ==
  /\ ledger' = ledger \ {b}
  /\ UNCHANGED <<dev, windows, ended>>

\* end, the only way out of the ledger: every open window keeps the entry
End(b) ==
  /\ ledger' = ledger \ {b}
  /\ ended' = [c \in Boots |-> IF c \in windows /\ b \in ledger THEN ended[c] \cup {b} ELSE ended[c]]
  /\ UNCHANGED <<dev, windows>>

\* inFlightView: boots the listing does not show, the target's own left out
InFlight(c, visible, exclude) ==
  {b \in ledger \cup ended[c] : dev[b] \notin visible \cup {exclude}}
=============================================================================
