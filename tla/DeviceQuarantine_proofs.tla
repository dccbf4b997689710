------------------------ MODULE DeviceQuarantine_proofs ------------------------
(***************************************************************************)
(* For every number of sessions and pieces of work: the pool never takes   *)
(* the device from the session that owns it (Spec => []OwnershipSound), a  *)
(* device is bound only when no work of an earlier session runs on it      *)
(* (Spec => BoundClean), and no work is abandoned under a live owner       *)
(* (Spec => OwnersWorkKept).                                               *)
(*                                                                         *)
(* OwnershipSound is not inductive: a captured or a deferred release looks *)
(* at the session and the assignment count only.  What is inductive is     *)
(* that the count has moved on: every release that is still under way is   *)
(* for an assignment no newer than the current one, and for an older one   *)
(* as soon as the device is being bound or owned again, rollbacks of       *)
(* binds (which count down) included.                                      *)
(***************************************************************************)
EXTENDS DeviceQuarantine, TLAPS

Busy == owner # NoSession \/ assigning # NoSession

\* a bind under way holds the device, alone and clean
BindAlone ==
  assigning # NoSession => owner = NoSession /\ holder = assigning /\ releasing = {} /\ pending = {}

\* assignment c is over as soon as the device is bound again
Past(c) == c <= count /\ (Busy => c < count)

ReleasesPast ==
  /\ Busy => count > 0
  /\ \A s \in toFree : Past(captures[s])
  /\ deferred # NoRelease => Past(deferred.count)

\* running work is tracked, and caps run for tracked work of nobody's device only
WorkTracked == \A w \in Works : run[w] = "running" => w \in pending \cup acquisition
CapsFenced  == armed \subseteq pending /\ (owner # NoSession => armed = {})

IInv ==
  TypeOK /\ LiveOwnerHolds /\ BindAlone /\ ReleasesPast /\ WorkTracked /\ CapsFenced

-----------------------------------------------------------------------------
(* The steps. *)

\* Work that is registered or retired leaves the sessions and the pool alone.
LEMMA WorkStep ==
  ASSUME IInv, NEW w \in Works, Register(w) \/ RegisterAcquisition(w) \/ Settle(w) \/ Abandon(w)
  PROVE  IInv'
<1> USE DEF sessionVars, poolVars, workVars
<1>1. CASE Register(w)
  <2>1. TypeOK'
    BY <1>1 DEF IInv, TypeOK, Register, Chain, Armed, Capped
  <2>2. LiveOwnerHolds' /\ BindAlone' /\ ReleasesPast'
    BY <1>1 DEF IInv, Register, LiveOwnerHolds, BindAlone, ReleasesPast, Past, Busy
  <2>3. WorkTracked'
    BY <1>1 DEF IInv, TypeOK, Register, WorkTracked, Chain
  <2>4. CapsFenced'
    BY <1>1 DEF IInv, Register, CapsFenced, Chain, Armed, Capped
  <2> QED BY <2>1, <2>2, <2>3, <2>4 DEF IInv
<1>2. CASE RegisterAcquisition(w)
  <2>1. TypeOK'
    BY <1>2 DEF IInv, TypeOK, RegisterAcquisition
  <2>2. LiveOwnerHolds' /\ BindAlone' /\ ReleasesPast' /\ CapsFenced'
    BY <1>2 DEF IInv, RegisterAcquisition, LiveOwnerHolds, BindAlone, ReleasesPast, Past, Busy,
                CapsFenced
  <2>3. WorkTracked'
    BY <1>2 DEF IInv, TypeOK, RegisterAcquisition, WorkTracked
  <2> QED BY <2>1, <2>2, <2>3 DEF IInv
<1>3. ASSUME NEW how \in {"settled", "abandoned"}, Retire(w, how) PROVE IInv'
  <2>1. deferred # NoRelease => deferred' \in Releases /\ deferred'.count = deferred.count
    BY <1>3 DEF IInv, TypeOK, Retire, Releases
  <2>2. deferred = NoRelease => deferred' = NoRelease
    BY <1>3 DEF Retire
  <2>3. TypeOK'
    BY <1>3, <2>1, <2>2 DEF IInv, TypeOK, Retire
  <2>4. LiveOwnerHolds' /\ BindAlone'
    BY <1>3 DEF IInv, Retire, LiveOwnerHolds, BindAlone
  <2>5. ReleasesPast'
    BY <1>3, <2>1, <2>2 DEF IInv, Retire, ReleasesPast, Past, Busy
  <2>6. WorkTracked'
    BY <1>3 DEF IInv, TypeOK, Retire, WorkTracked
  <2>7. CapsFenced'
    BY <1>3 DEF IInv, Retire, CapsFenced
  <2> QED BY <2>3, <2>4, <2>5, <2>6, <2>7 DEF IInv
<1> QED BY <1>1, <1>2, <1>3 DEF Settle, Abandon

\* A bind, its session and its rollback: the count moves with the bind.
LEMMA BindStep ==
  ASSUME IInv, NEW s \in Sessions, Assign(s) \/ CreateSession(s) \/ RestoreAssignment(s)
  PROVE  IInv'
<1> USE QuarantineAssumption DEF sessionVars, poolVars, workVars
<1>1. CASE Assign(s)
  <2>1. TypeOK'
    BY <1>1 DEF IInv, TypeOK, Assign
  <2>2. LiveOwnerHolds' /\ BindAlone'
    BY <1>1 DEF IInv, Assign, LiveOwnerHolds, BindAlone, CleanupInProgress
  <2>3. ReleasesPast'
    <3>1. count \in Nat /\ count' = count + 1
      BY <1>1 DEF IInv, TypeOK, Assign
    <3>2. \A t \in toFree : captures[t] \in Nat
      BY DEF IInv, TypeOK
    <3>3. deferred # NoRelease => deferred.count \in Nat
      BY DEF IInv, TypeOK, Releases
    <3> QED BY <1>1, <3>1, <3>2, <3>3 DEF IInv, Assign, ReleasesPast, Past, Busy
  <2>4. WorkTracked' /\ CapsFenced'
    BY <1>1 DEF IInv, Assign, WorkTracked, CapsFenced
  <2> QED BY <2>1, <2>2, <2>3, <2>4 DEF IInv
<1>2. CASE CreateSession(s)
  <2>1. TypeOK'
    BY <1>2 DEF IInv, TypeOK, CreateSession
  <2>2. LiveOwnerHolds' /\ BindAlone'
    BY <1>2 DEF IInv, CreateSession, LiveOwnerHolds, BindAlone
  <2>3. ReleasesPast'
    BY <1>2 DEF IInv, CreateSession, ReleasesPast, Past, Busy
  <2>4. WorkTracked' /\ CapsFenced'
    BY <1>2 DEF IInv, CreateSession, WorkTracked, CapsFenced, BindAlone
  <2> QED BY <2>1, <2>2, <2>3, <2>4 DEF IInv
<1>3. CASE RestoreAssignment(s)
  <2>1. holder' = NoSession /\ count > 0 /\ count' = count - 1 /\ count \in Nat /\ assigning # NoSession
    BY <1>3 DEF IInv, TypeOK, RestoreAssignment, BindAlone, ReleasesPast, Busy
  <2>2. TypeOK'
    BY <1>3, <2>1 DEF IInv, TypeOK, RestoreAssignment
  <2>3. LiveOwnerHolds' /\ BindAlone'
    BY <1>3 DEF IInv, RestoreAssignment, LiveOwnerHolds, BindAlone
  <2>4. ReleasesPast'
    <3>1. ~Busy'
      BY <1>3 DEF IInv, RestoreAssignment, BindAlone, Busy
    <3>2. \A t \in toFree : captures[t] \in Nat
      BY DEF IInv, TypeOK
    <3>3. deferred # NoRelease => deferred.count \in Nat
      BY DEF IInv, TypeOK, Releases
    <3> QED BY <1>3, <2>1, <3>1, <3>2, <3>3 DEF IInv, RestoreAssignment, ReleasesPast, Past, Busy
  <2>5. WorkTracked' /\ CapsFenced'
    BY <1>3 DEF IInv, RestoreAssignment, WorkTracked, CapsFenced
  <2> QED BY <2>2, <2>3, <2>4, <2>5 DEF IInv
<1> QED BY <1>1, <1>2, <1>3

\* The session's part of a release: what it captures is the current assignment.
LEMMA SessionReleaseStep ==
  ASSUME IInv, NEW s \in Sessions,
         ReleaseSession(s) \/ DeclineRelease(s) \/ CommitRelease(s) \/ FinalizeRelease(s)
  PROVE  IInv'
<1> USE QuarantineAssumption DEF sessionVars, poolVars, workVars
<1>1. CASE ReleaseSession(s) \/ DeclineRelease(s) \/ FinalizeRelease(s)
  <2>1. TypeOK'
    BY <1>1 DEF IInv, TypeOK, ReleaseSession, DeclineRelease, FinalizeRelease
  <2>2. LiveOwnerHolds' /\ BindAlone'
    BY <1>1 DEF IInv, LiveOwnerHolds, BindAlone, ReleaseSession, DeclineRelease, FinalizeRelease
  <2>3. ReleasesPast' /\ WorkTracked' /\ CapsFenced'
    BY <1>1 DEF IInv, ReleasesPast, Past, Busy, WorkTracked, CapsFenced,
                ReleaseSession, DeclineRelease, FinalizeRelease
  <2> QED BY <2>1, <2>2, <2>3 DEF IInv
<1>2. CASE CommitRelease(s)
  <2>1. TypeOK'
    BY <1>2 DEF IInv, TypeOK, CommitRelease, Armed, Capped
  <2>2. LiveOwnerHolds' /\ BindAlone'
    BY <1>2 DEF IInv, CommitRelease, LiveOwnerHolds, BindAlone
  <2>3. ReleasesPast'
    <3>1. ~Busy'
      BY <1>2 DEF IInv, CommitRelease, BindAlone, Busy
    <3>2. count \in Nat /\ captures \in [Sessions -> 0..MaxAssign] /\ toFree \subseteq Sessions
      BY DEF IInv, TypeOK
    <3>3. \A t \in toFree' : captures'[t] <= count
      BY <1>2, <3>2 DEF IInv, CommitRelease, ReleasesPast, Past
    <3> QED BY <1>2, <3>1, <3>3 DEF IInv, CommitRelease, ReleasesPast, Past
  <2>4. WorkTracked' /\ CapsFenced'
    BY <1>2 DEF IInv, CommitRelease, WorkTracked, CapsFenced, Armed, Capped
  <2> QED BY <2>1, <2>2, <2>3, <2>4 DEF IInv
<1> QED BY <1>1, <1>2

\* The pool's part: a release that frees the device finds it without owner and bind,
\* because the assignment it captured is the current one.
LEMMA CapturedStep ==
  ASSUME IInv, NEW s \in Sessions, NEW c \in 0..MaxAssign, Past(c),
         NEW d \in {deferred, NoRelease}, ReleaseCaptured(s, c, d),
         UNCHANGED <<owner, releasing, assigning, count, workVars>>,
         toFree' \subseteq toFree, \A t \in toFree' : captures'[t] = captures[t],
         captures' \in [Sessions -> 0..MaxAssign]
  PROVE  IInv'
<1> USE DEF workVars
<1>1. holder' = holder \/ (holder' = NoSession /\ ~Busy)
  <2> SUFFICES ASSUME holder' # holder PROVE holder' = NoSession /\ ~Busy
    OBVIOUS
  <2>1. holder' = NoSession /\ count = c
    BY DEF ReleaseCaptured, IsCurrent
  <2> QED BY <2>1 DEF Past, IInv, TypeOK
<1>2. deferred' \in {deferred, NoRelease} \/ (deferred' \in Releases /\ deferred'.count = c)
  <2> DEFINE new == [session |-> s, count |-> c, waits |-> pending, live |-> TRUE]
  <2>1. new \in Releases /\ new.count = c
    BY DEF Releases, IInv, TypeOK
  <2>2. deferred' \in {d, new, NoRelease}
    BY DEF ReleaseCaptured
  <2> HIDE DEF new
  <2> QED BY <2>1, <2>2
<1>3. TypeOK'
  BY <1>1, <1>2 DEF IInv, TypeOK
<1>4. LiveOwnerHolds' /\ BindAlone'
  BY <1>1 DEF IInv, LiveOwnerHolds, BindAlone, Busy
<1>5. ReleasesPast'
  <2>1. deferred' # NoRelease => Past(deferred'.count)
    BY <1>2 DEF IInv, ReleasesPast
  <2> QED BY <2>1 DEF IInv, ReleasesPast, Past, Busy
<1>6. WorkTracked' /\ CapsFenced'
  BY DEF IInv, WorkTracked, CapsFenced
<1> QED BY <1>3, <1>4, <1>5, <1>6 DEF IInv

\* The caller of a release, or a deferred release, gives the device back.
LEMMA PoolReleaseStep ==
  ASSUME IInv, DeferredRelease \/ \E s \in Sessions : ReleaseDevice(s)
  PROVE  IInv'
<1> USE DEF sessionVars, poolVars, workVars
<1>1. ASSUME NEW s \in Sessions, ReleaseDevice(s) PROVE IInv'
  <2>1. captures[s] \in 0..MaxAssign /\ Past(captures[s])
    BY <1>1 DEF IInv, TypeOK, ReleaseDevice, ReleasesPast
  <2>2. /\ toFree' \subseteq toFree
        /\ captures' \in [Sessions -> 0..MaxAssign]
        /\ \A t \in toFree' : captures'[t] = captures[t]
    BY <1>1, QuarantineAssumption DEF IInv, TypeOK, ReleaseDevice
  <2> QED BY <1>1, <2>1, <2>2, CapturedStep DEF ReleaseDevice
<1>2. CASE DeferredRelease
  <2>1. deferred \in Releases /\ Past(deferred.count)
    BY <1>2 DEF IInv, TypeOK, DeferredRelease, ReleasesPast
  <2>2. /\ deferred.session \in Sessions /\ deferred.count \in 0..MaxAssign
        /\ captures \in [Sessions -> 0..MaxAssign]
    BY <2>1 DEF Releases, IInv, TypeOK
  <2>3. CASE count = deferred.count
    BY <1>2, <2>1, <2>2, <2>3, CapturedStep DEF DeferredRelease
  <2>4. CASE count # deferred.count
    <3>1. deferred' \in Releases /\ deferred'.count = deferred.count /\ holder' = holder
      BY <1>2, <2>1, <2>4 DEF DeferredRelease, Releases
    <3>2. TypeOK'
      BY <1>2, <3>1 DEF DeferredRelease, IInv, TypeOK
    <3>3. ReleasesPast'
      BY <1>2, <2>1, <3>1 DEF DeferredRelease, IInv, ReleasesPast, Past, Busy
    <3>4. LiveOwnerHolds' /\ BindAlone' /\ WorkTracked' /\ CapsFenced'
      BY <1>2, <3>1 DEF DeferredRelease, IInv, LiveOwnerHolds, BindAlone, WorkTracked, CapsFenced
    <3> QED BY <3>2, <3>3, <3>4 DEF IInv
  <2> QED BY <2>3, <2>4
<1> QED BY <1>1, <1>2

\* The invariant holds in every reachable state.
LEMMA IInvHolds == Spec => []IInv
<1>1. Init => IInv
  BY QuarantineAssumption DEF Init, IInv, TypeOK, LiveOwnerHolds, BindAlone, ReleasesPast, Busy,
                              WorkTracked, CapsFenced
<1>2. IInv /\ [Next]_vars => IInv'
  <2> SUFFICES ASSUME IInv, [Next]_vars PROVE IInv'
    OBVIOUS
  <2>1. CASE Next
    BY <2>1, WorkStep, BindStep, SessionReleaseStep, PoolReleaseStep DEF Next
  <2>2. CASE UNCHANGED vars
    BY <2>2 DEF vars, sessionVars, poolVars, workVars, IInv, TypeOK, LiveOwnerHolds, BindAlone,
                ReleasesPast, Past, Busy, WorkTracked, CapsFenced
  <2> QED BY <2>1, <2>2
<1> QED BY <1>1, <1>2, PTL DEF Spec

-----------------------------------------------------------------------------
(* The theorems. *)

\* The pool keeps the device bound to its live session: no late, deferred or stale release
\* of an earlier assignment takes it away (isCapturedReleaseCurrent, releaseCapturedDevice).
THEOREM OwnershipIsSound == Spec => []OwnershipSound
<1>1. IInv => OwnershipSound
  BY DEF IInv, OwnershipSound
<1> QED BY <1>1, IInvHolds, PTL

\* A device is bound only when no work of an earlier session runs on it any more, however
\* work was chained while older work settled (track, hasDeviceCleanupInProgress).
THEOREM BindsAreClean == Spec => BoundClean
<1> DEFINE P == assigning = NoSession /\ assigning' # NoSession => \A w \in Works : run[w] # "running"
<1>1. IInv /\ [Next]_vars => [P]_vars
  <2> USE DEF sessionVars, poolVars, workVars
  <2> SUFFICES ASSUME IInv, Next, assigning = NoSession, assigning' # NoSession, NEW w \in Works
               PROVE  run[w] # "running"
    OBVIOUS
  <2>1. \E s \in Sessions : Assign(s)
    BY QuarantineAssumption
       DEF Next, Register, RegisterAcquisition, Settle, Abandon, Retire, CreateSession,
           RestoreAssignment, ReleaseSession, DeclineRelease, CommitRelease, FinalizeRelease,
           ReleaseDevice, DeferredRelease
  <2> QED BY <2>1 DEF Assign, CleanupInProgress, IInv, WorkTracked
<1> QED BY <1>1, IInvHolds, PTL DEF Spec, BoundClean

\* No work is abandoned under a live owner: a cap starts only once the device has no owner,
\* and what it covers is gone before the device can be bound again (armCaps).
THEOREM OwnersKeepTheirWork == Spec => OwnersWorkKept
<1> DEFINE P == owner # NoSession => \A w \in Works : ~(run[w] = "running" /\ run'[w] = "abandoned")
<1>1. IInv /\ [Next]_vars => [P]_vars
  <2> USE DEF sessionVars, poolVars, workVars
  <2> SUFFICES ASSUME IInv, Next, owner # NoSession, NEW w \in Works,
                      run[w] = "running", run'[w] = "abandoned"
               PROVE  FALSE
    OBVIOUS
  <2>1. run \in [Works -> {"none", "running", "settled", "abandoned"}] /\ armed = {}
    BY DEF IInv, TypeOK, CapsFenced
  <2>2. ASSUME NEW v \in Works, Register(v) \/ RegisterAcquisition(v) \/ Settle(v) PROVE FALSE
    BY <2>1, <2>2 DEF Register, RegisterAcquisition, Settle, Retire
  <2>3. ASSUME NEW v \in Works, Abandon(v) PROVE FALSE
    BY <2>1, <2>3 DEF Abandon
  <2>4. ASSUME NEW s \in Sessions, Assign(s) \/ CreateSession(s) \/ RestoreAssignment(s)
                  \/ ReleaseSession(s) \/ DeclineRelease(s) \/ CommitRelease(s)
                  \/ FinalizeRelease(s) \/ ReleaseDevice(s)
        PROVE FALSE
    BY <2>4 DEF Assign, CreateSession, RestoreAssignment, ReleaseSession, DeclineRelease,
                CommitRelease, FinalizeRelease, ReleaseDevice
  <2>5. CASE DeferredRelease
    BY <2>5 DEF DeferredRelease
  <2> QED BY <2>2, <2>3, <2>4, <2>5 DEF Next
<1> QED BY <1>1, IInvHolds, PTL DEF Spec, OwnersWorkKept
=============================================================================
