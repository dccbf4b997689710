--------------------------- MODULE DeviceQuarantine ---------------------------
(***************************************************************************)
(* One device between two sessions: the cleanup that outlives a release    *)
(* (DeviceCleanupQuarantine), the release of the session that held it, and *)
(* the pool's release of the device, which is deferred behind cleanup.     *)
(*                                                                         *)
(* The chained promise of a device's cleanup is the set of tracked work    *)
(* that has not settled; the entry is there while the set is not empty.    *)
(***************************************************************************)
EXTENDS Naturals, FiniteSets

CONSTANTS
  Sessions,
  Works,      \* pieces of asynchronous device work
  NoSession,
  NoRelease,
  MaxAssign   \* bound: assignments of the device

ASSUME QuarantineAssumption == NoSession \notin Sessions /\ MaxAssign \in Nat

VARIABLES
  owner,        \* SessionManager: the live session on the device
  releasing,    \* activeReleases on the device
  toFree,       \* released sessions whose caller has still to return the device
  captures,     \* releasedDeviceCaptures: the assignment a release was for
  holder,       \* DevicePool: the session the device is bound to
  assigning,    \* the session whose creation on the device is under way
  count,        \* assignmentCount
  deferred,     \* deferredDeviceReleases
  kind,         \* of each piece of work
  run,          \* of each piece of work
  pending,      \* work in the chained promise
  acquisition,  \* work the current acquisition started
  armed         \* capped work whose cap has started

sessionVars == <<owner, releasing, toFree>>
poolVars == <<holder, assigning, count, deferred, captures>>
workVars == <<kind, run, pending, acquisition, armed>>
vars == <<sessionVars, poolVars, workVars>>

Releases == [session : Sessions, count : 0..MaxAssign, waits : SUBSET Works, live : BOOLEAN]

TypeOK ==
  /\ owner \in Sessions \cup {NoSession}
  /\ releasing \in SUBSET Sessions /\ toFree \in SUBSET Sessions
  /\ captures \in [Sessions -> 0..MaxAssign]
  /\ holder \in Sessions \cup {NoSession} /\ assigning \in Sessions \cup {NoSession}
  /\ count \in 0..MaxAssign
  /\ deferred \in Releases \cup {NoRelease}
  /\ kind \in [Works -> {"plain", "capped"}]
  /\ run \in [Works -> {"none", "running", "settled", "abandoned"}]
  /\ pending \in SUBSET Works /\ acquisition \in SUBSET Works /\ armed \in SUBSET Works

Init ==
  /\ owner = NoSession /\ releasing = {} /\ toFree = {}
  /\ captures = [s \in Sessions |-> 0]
  /\ holder = NoSession /\ assigning = NoSession /\ count = 0 /\ deferred = NoRelease
  /\ kind \in [Works -> {"plain", "capped"}]
  /\ run = [w \in Works |-> "none"]
  /\ pending = {} /\ acquisition = {} /\ armed = {}

Capped(ws) == {w \in ws : kind[w] = "capped"}

-----------------------------------------------------------------------------
(* DeviceCleanupQuarantine *)

\* MUTANT of Chain: the new promise does not wait for the one before it
Chain_NewOnly(w) == {w}

\* track
Chain(w) == pending \cup {w}

\* MUTANT of Armed: a cap starts only with its registration
Armed_NotOnLeaving(ownerAfter, tracked) ==
  IF ownerAfter # NoSession \/ tracked = pending THEN armed ELSE armed \cup Capped(tracked)

\* MUTANT of Armed: a cap starts with its registration, whoever owns the device
Armed_AtOnce(ownerAfter, tracked) == armed \cup Capped(tracked)

\* armCaps: the caps start once nobody owns the device
Armed(ownerAfter, tracked) ==
  IF ownerAfter # NoSession THEN armed ELSE armed \cup Capped(tracked)

\* register, trackTeardown: work of a session or of its release, dispatched now
Register(w) ==
  /\ run[w] = "none" /\ (owner # NoSession \/ releasing # {})
  /\ run' = [run EXCEPT ![w] = "running"]
  /\ pending' = Chain(w)
  /\ armed' = Armed(owner, pending')
  /\ UNCHANGED <<sessionVars, poolVars, kind, acquisition>>

\* registerAcquisition: work the session started on its own device
RegisterAcquisition(w) ==
  /\ run[w] = "none" /\ owner # NoSession /\ kind[w] = "plain"
  /\ run' = [run EXCEPT ![w] = "running"]
  /\ acquisition' = acquisition \cup {w}
  /\ UNCHANGED <<sessionVars, poolVars, kind, pending, armed>>

\* every promise made of w advances
Retire(w, how) ==
  /\ run' = [run EXCEPT ![w] = how]
  /\ pending' = pending \ {w}
  /\ acquisition' = acquisition \ {w}
  /\ armed' = armed \ {w}
  /\ deferred' = IF deferred = NoRelease THEN deferred ELSE [deferred EXCEPT !.waits = @ \ {w}]
  /\ UNCHANGED <<sessionVars, holder, assigning, count, captures, kind>>

Settle(w) == run[w] = "running" /\ Retire(w, "settled")

\* the cap of work without a bound of its own: it is fenced and let go
Abandon(w) == run[w] = "running" /\ w \in armed /\ Retire(w, "abandoned")

\* hasDeviceCleanupInProgress
CleanupInProgress ==
  pending # {} \/ (acquisition # {} /\ owner = NoSession) \/ releasing # {}

-----------------------------------------------------------------------------
(* Binding *)

\* The pool binds the device, one bind at a time.  An explicit bind also takes a
\* device whose holder's session is gone but which the pool has still to return.
\* The bind is refused while cleanup is in progress.
Assign(s) ==
  /\ assigning = NoSession /\ owner = NoSession /\ ~CleanupInProgress
  /\ count < MaxAssign
  /\ holder' = s /\ assigning' = s /\ count' = count + 1
  /\ UNCHANGED <<sessionVars, deferred, captures, workVars>>

CreateSession(s) ==
  /\ assigning = s /\ holder = s /\ owner = NoSession
  /\ owner' = s /\ assigning' = NoSession
  /\ UNCHANGED <<releasing, toFree, holder, count, deferred, captures, workVars>>

\* MUTANT of RestoreAssignment: the rollback may run again after the device was given back
RestoreAssignment_Twice(s) ==
  /\ assigning = s
  /\ holder' = NoSession /\ count' = count - 1
  /\ UNCHANGED <<sessionVars, assigning, deferred, captures, workVars>>

\* the session could not be created: the device is as it was before the bind
RestoreAssignment(s) ==
  /\ assigning = s
  /\ assigning' = NoSession
  /\ IF holder = s THEN holder' = NoSession /\ count' = count - 1 ELSE UNCHANGED <<holder, count>>
  /\ UNCHANGED <<sessionVars, deferred, captures, workVars>>

-----------------------------------------------------------------------------
(* Release *)

ReleaseSession(s) ==
  /\ owner = s /\ s \notin releasing
  /\ releasing' = releasing \cup {s}
  /\ UNCHANGED <<owner, toFree, poolVars, workVars>>

\* abandonSupersededRelease: the session stays, what its teardown started is tracked
DeclineRelease(s) ==
  /\ owner = s /\ s \in releasing
  /\ releasing' = releasing \ {s}
  /\ UNCHANGED <<owner, toFree, poolVars, workVars>>

\* commitReleaseRemoval and notifySessionRelease: the session goes, caps start,
\* and the pool captures the assignment the release was for
CommitRelease(s) ==
  /\ owner = s /\ s \in releasing
  /\ owner' = NoSession
  /\ armed' = Armed(NoSession, pending)
  /\ captures' = [captures EXCEPT ![s] = IF holder = s THEN count ELSE 0]
  /\ toFree' = toFree \cup {s}
  /\ UNCHANGED <<releasing, holder, assigning, count, deferred, kind, run, pending, acquisition>>

\* the release's row is stored, or is left to a retry
FinalizeRelease(s) ==
  /\ s \in releasing /\ owner # s
  /\ releasing' = releasing \ {s}
  /\ UNCHANGED <<owner, toFree, poolVars, workVars>>

\* MUTANT of IsCurrent: only the session is compared
IsCurrent_SessionOnly(s, c) == holder = s

\* isCapturedReleaseCurrent
IsCurrent(s, c) == holder = s /\ count = c

\* releaseCapturedDevice: free the device, now or once its cleanup has settled; a
\* deferred release of the same assignment goes on, that of another is dropped
ReleaseCaptured(s, c, waitingFor) ==
  IF ~IsCurrent(s, c) \/ (waitingFor # NoRelease /\ waitingFor.session = s /\ waitingFor.count = c)
  THEN deferred' = waitingFor /\ UNCHANGED holder
  ELSE IF pending # {}
  THEN /\ deferred' = [session |-> s, count |-> c, waits |-> pending, live |-> TRUE]
       /\ UNCHANGED holder
  ELSE deferred' = NoRelease /\ holder' = NoSession

\* releaseDevice, by the caller of the release or by the expiry handler
ReleaseDevice(s) ==
  /\ s \in toFree
  /\ toFree' = toFree \ {s}
  /\ ReleaseCaptured(s, captures[s], deferred)
  /\ captures' = [captures EXCEPT ![s] = 0]
  /\ UNCHANGED <<owner, releasing, assigning, count, workVars>>

\* The promise a deferred release waits for has settled.  The entry of an assignment
\* that has been replaced stays behind and does nothing.
DeferredRelease ==
  /\ deferred # NoRelease /\ deferred.live /\ deferred.waits = {}
  /\ IF count = deferred.count
     THEN ReleaseCaptured(deferred.session, deferred.count, NoRelease)
     ELSE deferred' = [deferred EXCEPT !.live = FALSE] /\ UNCHANGED holder
  /\ UNCHANGED <<sessionVars, assigning, count, captures, workVars>>

Next ==
  \/ \E w \in Works : Register(w) \/ RegisterAcquisition(w) \/ Settle(w) \/ Abandon(w)
  \/ \E s \in Sessions :
       \/ Assign(s) \/ CreateSession(s) \/ RestoreAssignment(s)
       \/ ReleaseSession(s) \/ DeclineRelease(s) \/ CommitRelease(s) \/ FinalizeRelease(s)
       \/ ReleaseDevice(s)
  \/ DeferredRelease

Spec == Init /\ [][Next]_vars

\* Promise reactions, release callers and cap timers run.  Work with a bound of its
\* own settles; capped work may hang, and only its cap ends it.
FairSpec ==
  /\ Spec
  /\ \A w \in Works : WF_vars(kind[w] = "plain" /\ Settle(w)) /\ WF_vars(Abandon(w))
  /\ \A s \in Sessions : WF_vars(FinalizeRelease(s)) /\ WF_vars(ReleaseDevice(s))
  /\ WF_vars(DeferredRelease)

-----------------------------------------------------------------------------
(* Properties *)

\* A device is bound only when no work of an earlier session runs on it any more, other
\* than work that was fenced and abandoned, however work was added while older work
\* settled (track) and whichever session started it.
BoundClean ==
  [][assigning = NoSession /\ assigning' # NoSession
       => \A w \in Works : run[w] # "running"]_vars

\* The pool keeps the device bound to the live session: no late, deferred or stale
\* release of an earlier assignment takes it away (isCapturedReleaseCurrent).
LiveOwnerHolds == owner # NoSession => holder = owner

\* ... and every assignment is counted once, a rolled back one included.
OwnershipSound == TypeOK /\ LiveOwnerHolds

\* Nobody's work is abandoned under a live owner: a cap that starts only once the
\* device has no owner never ends the work of a session that holds it (armCaps).
OwnersWorkKept ==
  [][owner # NoSession => \A w \in Works : ~(run[w] = "running" /\ run'[w] = "abandoned")]_vars

\* A released device comes back though work hangs: its cap starts when the owner
\* leaves, and a deferred release runs once the work is gone.
DeviceComesBack ==
  \A s \in Sessions : s \in toFree ~> holder # s \/ s \in {owner, assigning}
=============================================================================
