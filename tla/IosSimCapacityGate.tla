------------------------- MODULE IosSimCapacityGate -------------------------
(***************************************************************************)
(* IosSimCapacityGate: a simulator boot is admitted against one fresh      *)
(* listing of the running simulators and the ledger of admitted boots.     *)
(* The listing is taken inside the call's sample window and may be old     *)
(* when the call decides.  A reset or a replacement reserves its slot      *)
(* (reserveBoot) before it stops its device; the boot inside it consumes   *)
(* the reservation.  An admitted boot waits for a permit, boots, and ends  *)
(* its admission, whether it succeeded or not.                             *)
(*                                                                         *)
(* External: the simulators.  One occupies a slot from the start of its    *)
(* boot until it is off (Booting, Booted, Shutting Down); it may go off at *)
(* any time, and only admitted boots start one.                            *)
(***************************************************************************)
EXTENDS BootAdmissionLedger, BootConcurrencyGate

CONSTANTS Target,     \* [Boots -> Sims]: the simulator the request boots
          Replaces,   \* [Boots -> replacingDeviceId, or None for a plain boot]
          MaxBooted,  \* limits.maxBooted
          Limits      \* bound: the boot-concurrency limits the samples derive

IsReset(b)       == Replaces[b] = Target[b]
IsReplacement(b) == Replaces[b] # None /\ ~IsReset(b)

\* a device is reset or replaced by the one operation its session or binding journal admits,
\* and a replaced device is not booted meanwhile
ASSUME GateAssumption ==
  /\ Target \in [Boots -> Sims] /\ Replaces \in [Boots -> Sims \cup {None}]
  /\ MaxBooted \in Nat
  /\ 1 \in Limits /\ Limits \subseteq Nat
  /\ \A b, c \in Boots : b # c /\ Replaces[b] # None => Replaces[c] # Replaces[b]
  /\ \A b, c \in Boots : IsReplacement(b) => Target[c] # Replaces[b]

VARIABLES
  on,       \* simulators that occupy a slot
  listing,  \* [Boots -> the simulators its sample showed]
  pc        \* [Boots -> where the request is]

gateVars == <<on, listing, pc>>
vars == <<ledgerVars, permitVars, gateVars>>

Reserving == {"reserved", "stopped", "gone"}
Admitted  == {"admitted", "queued", "booting"}
Steps == {"new", "sampling", "listed", "done"} \cup Reserving \cup Admitted

TypeOK ==
  /\ LedgerTypeOK /\ PermitTypeOK(Boots, Limits)
  /\ on \in SUBSET Sims
  /\ listing \in [Boots -> SUBSET Sims]
  /\ pc \in [Boots -> Steps]

Init ==
  /\ LedgerInit /\ PermitInit
  /\ on \in {run \in SUBSET Sims : Cardinality(run) <= MaxBooted}
  /\ listing = [b \in Boots |-> {}]
  /\ pc = [b \in Boots |-> "new"]

-----------------------------------------------------------------------------
Go(b, p)  == pc' = [pc EXCEPT ![b] = p]
Forget(b) == listing' = [listing EXCEPT ![b] = {}]

\* the slot the decision does not count: the boot's own target, or the device it replaces
Exclude(b) == IF Replaces[b] # None THEN Replaces[b] ELSE Target[b]

\* admitBootNow: the window opens before the sample is asked for
OpenWindow(b) ==
  /\ pc[b] = "new"
  /\ BeginSample(b)
  /\ Go(b, "sampling")
  /\ UNCHANGED <<permitVars, on, listing>>

\* collectFresh: the listing is read at some moment after the window opened
TakeListing(b) ==
  /\ pc[b] = "sampling"
  /\ listing' = [listing EXCEPT ![b] = on]
  /\ Go(b, "listed")
  /\ UNCHANGED <<ledgerVars, permitVars, on>>

\* a refused request is over; a reset waits and tries again, until its deadline
NotAdmitted(b) == Go(b, "done") \/ (IsReset(b) /\ Go(b, "new"))

\* the sample timed out, its listing failed (assertCountKnown), or the request was aborted
SampleFails(b) ==
  /\ pc[b] \in {"sampling", "listed"}
  /\ CloseWindow(b)
  /\ Forget(b)
  /\ NotAdmitted(b)
  /\ UNCHANGED <<ledger, dev, permitVars, on>>

BootedCount(b) ==
  Cardinality(listing[b] \ {Exclude(b)}) + Cardinality(InFlight(b, listing[b], Exclude(b)))

\* decide: a reset of an occupying target carries its own slot
Fits(b) == \/ BootedCount(b) < MaxBooted
           \/ IsReset(b) /\ Target[b] \in listing[b]

\* the sample returned: close the window, decide, and record the admission in the same turn
Decide(b, lim) ==
  /\ pc[b] = "listed"
  /\ SetLimit(lim)
  /\ CloseWindow(b)
  /\ IF Fits(b)
     THEN Admit(b, Exclude(b)) /\ Go(b, IF Replaces[b] = None THEN "admitted" ELSE "reserved")
     ELSE UNCHANGED <<ledger, dev>> /\ NotAdmitted(b)
  /\ Forget(b)
  /\ UNCHANGED on

-----------------------------------------------------------------------------
(* A reservation: BootReservationScope.hold. *)

\* the operation stops or deletes its device
StopReserved(b) ==
  /\ pc[b] = "reserved"
  /\ on' = on \ {Replaces[b]}
  /\ Go(b, "stopped")
  /\ UNCHANGED <<ledgerVars, permitVars, listing>>

\* markReplacedDeviceGone, after the deletion is verified
MarkReplacedGone(b) ==
  /\ pc[b] = "stopped" /\ IsReplacement(b)
  /\ Bind(b, None)
  /\ Go(b, "gone")
  /\ UNCHANGED <<permitVars, on, listing>>

\* take: the boot inside the operation consumes the reservation, which binds its own target
Take(b) ==
  /\ pc[b] = IF IsReset(b) THEN "stopped" ELSE "gone"
  /\ Bind(b, Target[b])
  /\ Go(b, "admitted")
  /\ UNCHANGED <<permitVars, on, listing>>

\* MUTANT of ReleaseReservation: the release does not ask whether the boot consumed the slot
ReleaseReservation_Always(b) ==
  /\ Replaces[b] # None /\ pc[b] \in Reserving \cup Admitted
  /\ End(b)
  /\ Go(b, IF pc[b] \in Reserving THEN "done" ELSE pc[b])
  /\ UNCHANGED <<permitVars, on, listing>>

\* the operation fails, or ends without a boot: an active reservation is released
ReleaseReservation(b) ==
  /\ pc[b] \in Reserving
  /\ End(b)
  /\ Go(b, "done")
  /\ UNCHANGED <<permitVars, on, listing>>

-----------------------------------------------------------------------------
(* withBootPermit and FleetBootInstrumentation.run. *)

WaitForPermit(b) ==
  /\ pc[b] = "admitted"
  /\ AcquirePermit(b)
  /\ Go(b, "queued")
  /\ UNCHANGED <<ledgerVars, on, listing>>

\* the request is aborted in the queue: the count slot goes back as a failed boot's
AbortQueued(b) ==
  /\ pc[b] = "queued" /\ Queued(b)
  /\ AbortWait(b)
  /\ End(b)
  /\ Go(b, "done")
  /\ UNCHANGED <<on, listing>>

\* granted: the boot starts, and the simulator occupies a slot
StartBoot(b) ==
  /\ pc[b] = "queued" /\ b \in running
  /\ on' = on \cup {Target[b]}
  /\ Go(b, "booting")
  /\ UNCHANGED <<ledgerVars, permitVars, listing>>

\* the boot returns or throws, before or after it started the simulator: count slot, then permit
FinishBoot(b) ==
  /\ pc[b] = "booting" \/ (pc[b] = "queued" /\ b \in running)
  /\ End(b)
  /\ ReleasePermit(b)
  /\ Go(b, "done")
  /\ UNCHANGED <<on, listing>>

\* external: a simulator goes off; one under reset is its session's, and stays
PowerOff(s) ==
  /\ s \in on
  /\ \A b \in Boots : IsReset(b) /\ Target[b] = s => pc[b] \in {"new", "done"}
  /\ on' = on \ {s}
  /\ UNCHANGED <<ledgerVars, permitVars, listing, pc>>

-----------------------------------------------------------------------------
BootStep(b) ==
  \/ TakeListing(b) \/ SampleFails(b)
  \/ \E lim \in Limits : Decide(b, lim)
  \/ StopReserved(b) \/ MarkReplacedGone(b) \/ Take(b) \/ ReleaseReservation(b)
  \/ WaitForPermit(b) \/ StartBoot(b) \/ FinishBoot(b)

Next == \/ \E b \in Boots : OpenWindow(b) \/ BootStep(b) \/ AbortQueued(b)
        \/ \E s \in Sims : PowerOff(s)

Spec == Init /\ [][Next]_vars

-----------------------------------------------------------------------------
(* Properties. *)

\* No interleaving of listings, decisions, resets, replacements and boots that end early starts
\* more simulators than limits.maxBooted.
WithinLimit == Cardinality(on) <= MaxBooted

\* No slot leaks: a request that is over, however it ended, or that is not admitted, holds
\* neither a ledger entry nor a permit nor a place in the queue, and no window.
NoLeak ==
  \A b \in Boots :
     /\ pc[b] \in {"new", "done"} => b \notin ledger /\ b \notin windows
     /\ pc[b] \notin {"queued", "booting"} => b \notin running /\ ~Queued(b)

\* No wakeup is lost: a boot waits only while the permits of the limit are out.
NoIdlePermit == waiters # <<>> => Cardinality(running) >= limit

\* Slots and permits are sound: none is lost, kept by a request that is over, or idle.
SlotsSound == TypeOK /\ NoLeak /\ NoIdlePermit

\* Permits are first come, first served: nobody is granted one before a boot that waits longer.
FirstComeFirstServed ==
  [][\A i, j \in 1..Len(waiters) :
        i < j /\ waiters[j] \in running' => waiters[i] \in running' \/ pc'[waiters[i]] = "done"]_vars

-----------------------------------------------------------------------------
\* Boots and samples are bounded by deadlines, and the event loop runs what is ready; nobody
\* has to abort a request.
Fairness == \A b \in Boots : WF_vars(BootStep(b))
FairSpec == Spec /\ Fairness

\* Every admitted boot gets its permit or gives up, and no request waits for ever.
RequestsEnd == \A b \in Boots : pc[b] # "new" ~> pc[b] \in {"new", "done"}
=============================================================================
