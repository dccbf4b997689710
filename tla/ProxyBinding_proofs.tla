-------------------------- MODULE ProxyBinding_proofs --------------------------
(***************************************************************************)
(* The proxy's session state, for every number of sessions and calls.      *)
(*                                                                         *)
(* The ledger (Spec => []LedgerSound): ReleasesExact and LedgerDrains are  *)
(* not inductive, since what a call needs is forgotten by reference        *)
(* counts.  The inductive invariant says what the counts count, and that a *)
(* record is there only while a count says somebody needs it.  With it a   *)
(* call never binds a session released while it ran (NoResurrection).      *)
(*                                                                         *)
(* The keeper (Spec => HeartbeatsSound): a keeper that is not running, or  *)
(* runs without its interval, is always some call's to start again; what   *)
(* the proxy holds it claims; and it claims no session that has ended, so  *)
(* the fence of a released session lets go of none that it claims.         *)
(***************************************************************************)
EXTENDS ProxyBinding, FiniteSetTheorems, TLAPS

-----------------------------------------------------------------------------
(* The inductive invariant. *)

InFlight(k, c)  == k[c].pc # "idle"
Learning(k, c)  == InFlight(k, c) /\ k[c].kind \in {"acquire", "select"}
Naming(k, c, s) == InFlight(k, c) /\ ~k[c].task /\ k[c].named = s
Watching(k, c, s) == Learning(k, c) \/ (InFlight(k, c) /\ k[c].named = s)

Refs(k, s) == {c \in Calls : Naming(k, c, s)}
Acqs(k, e) == {c \in Calls : Learning(k, c) /\ k[c].at = e}

CountedLedgers ==
  [epoch : Epochs, released : [Sessions -> Epochs], refs : [Sessions -> Nat], acq : [Epochs -> Nat]]

\* what the counts of ledger l count among the calls k
Counts(l, k) ==
  /\ \A s \in Sessions : l.refs[s] = Cardinality(Refs(k, s))
  /\ \A e \in Epochs : l.acq[e] = Cardinality(Acqs(k, e))

\* epochs only grow, and only a learning call is deferred to a task
Past(l, k) ==
  /\ \A c \in Calls : InFlight(k, c) => k[c].at <= l.epoch /\ (k[c].task => Learning(k, c))
  /\ \A s \in Sessions : l.released[s] <= l.epoch

Exact(l, k) ==
  \A c \in Calls, s \in Sessions : Watching(k, c, s) =>
     (l.released[s] > k[c].at <=> s \in k[c].seen)

\* a record is there only while a count says that somebody needs it
OnlyNeeded(l) ==
  \A s \in Sessions : l.released[s] > 0 => l.refs[s] > 0 \/ Needed(l, l.released[s])

LedgerInv(l, k) ==
  /\ l \in CountedLedgers /\ k \in [Calls -> CallStates]
  /\ Counts(l, k) /\ Past(l, k) /\ Exact(l, k) /\ OnlyNeeded(l)

\* what a call saw released has ended, what it mints had not ended before, and a call
\* that was not answered yet is no task
CallsSound ==
  \A c \in Calls :
     /\ call[c].seen \subseteq ended
     /\ call[c].pc \in {"sent", "waiting"} => ~call[c].task
     /\ call[c].pc \in {"stopping", "establishing"} =>
          call[c].kind = "acquire" /\ call[c].minted \in Sessions \ (ended \ call[c].seen)

\* of the sessions in H the proxy p claims each, stopped none, and is bound to none
HoldsOf(p, H) == H \subseteq p.claimable \ (p.stopped \cup {p.bound})

\* its keeper stays stopped once p closed
Closed(p) == p.closing = "stopped" => ~p.started /\ ~p.interval

\* what p holds it claims, and it claims none of the sessions that are over
Claims(p, over) == HoldsOf(p, p.held) /\ p.claimable \cap over = {} /\ Closed(p)

Stopping(k)     == \E c \in Calls : k[c].pc = "stopping"
Establishing(k) == \E c \in Calls : k[c].pc = "establishing"

\* only the pause of a keeper that is being stopped leaves it without its interval
Paused(p, k) == Open(p) /\ p.started /\ ~p.interval => Stopping(k)

\* KeeperServes looks at p
Serving(p) == Open(p) /\ p.link = "up" /\ None \in {p.fence, p.bound}

\* a keeper that is not running, or without its interval, is some call's to start again
Kept(p, k) ==
  /\ Paused(p, k)
  /\ Serving(p) /\ HasTargets(p) /\ ~p.started => Establishing(k)
  /\ Serving(p) /\ p.started => HasTargets(p) \/ p.bound \notin p.claimable \cup {None}

\* a sound state of the proxy, and one in which its keeper has yet to be synced
Ready(p, over, k) == p \in Proxies /\ Claims(p, over) /\ Paused(p, k)
Keeps(p, over, k) == p \in Proxies /\ Claims(p, over) /\ Kept(p, k)

IInv ==
  /\ ended \subseteq Sessions
  /\ LedgerInv(ledger, call) /\ CallsSound
  /\ Keeps(proxy, ended, call)

-----------------------------------------------------------------------------
(* Counting calls. *)

\* A set of calls has at most as many members as there are calls; one call is one.
LEMMA SomeCalls ==
  ASSUME NEW S \in SUBSET Calls
  PROVE  /\ IsFiniteSet(S) /\ Cardinality(S) \in 0..Cardinality(Calls) /\ Cardinality(S) \in Nat
         /\ \A c \in S : Cardinality(S) > 0 /\ (Cardinality(S) = 1 => S = {c})
         /\ Cardinality(S) > 0 => \E c \in S : TRUE
         /\ \A c \in Calls : Cardinality(S \cup {c}) = IF c \in S THEN Cardinality(S) ELSE Cardinality(S) + 1
         /\ \A c \in Calls : Cardinality(S \ {c}) = IF c \in S THEN Cardinality(S) - 1 ELSE Cardinality(S)
<1>1. IsFiniteSet(S) /\ Cardinality(S) <= Cardinality(Calls)
  BY ProxyAssumption, FS_Subset
<1>2. Cardinality(S) \in Nat /\ Cardinality(Calls) \in Nat
  BY <1>1, ProxyAssumption, FS_CardinalityType
<1>3. Cardinality(S) = 0 <=> S = {}
  BY <1>1, FS_EmptySet
<1>4. Cardinality(S) = 1 <=> \E x : S = {x}
  BY <1>1, FS_Singleton
<1>5. \A c \in Calls : Cardinality(S \cup {c}) = IF c \in S THEN Cardinality(S) ELSE Cardinality(S) + 1
  BY <1>1, FS_AddElement
<1>6. \A c \in Calls : Cardinality(S \ {c}) = IF c \in S THEN Cardinality(S) - 1 ELSE Cardinality(S)
  BY <1>1, FS_RemoveElement
<1>7. \A c \in S : Cardinality(S) > 0 /\ (Cardinality(S) = 1 => S = {c})
  BY <1>2, <1>3, <1>4
<1>8. Cardinality(S) > 0 => \E c \in S : TRUE
  BY <1>2, <1>3
<1> QED BY <1>1, <1>2, <1>5, <1>6, <1>7, <1>8

\* What the counts say of a call in flight.
LEMMA CountsTell ==
  ASSUME NEW l \in CountedLedgers, NEW k \in [Calls -> CallStates], Counts(l, k)
  PROVE  /\ \A c \in Calls, s \in Sessions : Naming(k, c, s) => l.refs[s] > 0
         /\ \A c, d \in Calls, s \in Sessions :
              Naming(k, c, s) /\ Naming(k, d, s) /\ l.refs[s] <= 1 => c = d
         /\ \A c \in Calls : Learning(k, c) => l.acq[k[c].at] > 0
         /\ \A e \in Epochs : l.acq[e] > 0 => \E c \in Calls : Learning(k, c) /\ k[c].at = e
<1>0. \A c \in Calls : k[c].at \in Epochs
  BY DEF CallStates
<1>1. \A s \in Sessions : Refs(k, s) \in SUBSET Calls
  BY DEF Refs
<1>2. \A e \in Epochs : Acqs(k, e) \in SUBSET Calls
  BY DEF Acqs
<1>3. \A s \in Sessions : l.refs[s] \in Nat
  BY DEF CountedLedgers
<1>4. ASSUME NEW c \in Calls, NEW s \in Sessions, Naming(k, c, s)
      PROVE  l.refs[s] > 0 /\ \A d \in Calls : Naming(k, d, s) /\ l.refs[s] <= 1 => c = d
  <2>1. c \in Refs(k, s) /\ l.refs[s] = Cardinality(Refs(k, s))
    BY <1>4 DEF Refs, Counts
  <2>2. l.refs[s] > 0 /\ (l.refs[s] = 1 => Refs(k, s) = {c})
    BY <1>1, <2>1, SomeCalls
  <2>3. l.refs[s] <= 1 => Refs(k, s) = {c}
    BY <1>3, <2>2
  <2> QED BY <2>2, <2>3 DEF Refs
<1>5. ASSUME NEW c \in Calls, Learning(k, c) PROVE l.acq[k[c].at] > 0
  <2>1. c \in Acqs(k, k[c].at) /\ l.acq[k[c].at] = Cardinality(Acqs(k, k[c].at))
    BY <1>0, <1>5 DEF Acqs, Counts
  <2> QED BY <1>0, <1>2, <2>1, SomeCalls
<1>6. ASSUME NEW e \in Epochs, l.acq[e] > 0 PROVE \E c \in Calls : Learning(k, c) /\ k[c].at = e
  <2>1. Cardinality(Acqs(k, e)) > 0
    BY <1>6 DEF Counts
  <2> QED BY <1>2, <2>1, SomeCalls DEF Acqs
<1> QED BY <1>4, <1>5, <1>6

-----------------------------------------------------------------------------
(* The operations of the ledger, field by field. *)

\* releaseReleaseEpochReference
LEMMA DropReferenceFields ==
  ASSUME NEW l \in CountedLedgers, NEW s \in Sessions, l.refs[s] > 0,
         NEW m, m = DropReference(l, s)
  PROVE  /\ m \in CountedLedgers /\ m.epoch = l.epoch /\ m.acq = l.acq
         /\ m.refs[s] = l.refs[s] - 1
         /\ m.released[s] = IF l.refs[s] > 1 \/ Needed(l, l.released[s]) THEN l.released[s] ELSE 0
         /\ \A t \in Sessions \ {s} : m.refs[t] = l.refs[t] /\ m.released[t] = l.released[t]
<1> DEFINE r == IF l.refs[s] > 1 \/ Needed(l, l.released[s]) THEN l.released[s] ELSE 0
<1>1. m = [l EXCEPT !.refs[s] = @ - 1, !.released[s] = r]
  BY DEF DropReference
<1>2. r \in Epochs
  BY ProxyAssumption DEF CountedLedgers, Epochs
<1>3. l.refs[s] - 1 \in Nat
  BY DEF CountedLedgers
<1> HIDE DEF r
<1>4. /\ m \in CountedLedgers /\ m.epoch = l.epoch /\ m.acq = l.acq
      /\ m.refs = [l.refs EXCEPT ![s] = @ - 1] /\ m.released = [l.released EXCEPT ![s] = r]
  <2> DEFINE n == [l EXCEPT !.refs[s] = @ - 1]
  <2>1. m = [n EXCEPT !.released[s] = r]
    BY <1>1
  <2>2. /\ n \in CountedLedgers /\ n.epoch = l.epoch /\ n.acq = l.acq /\ n.released = l.released
        /\ n.refs = [l.refs EXCEPT ![s] = @ - 1]
    BY <1>3 DEF CountedLedgers
  <2> HIDE DEF n
  <2> QED BY <1>2, <2>1, <2>2 DEF CountedLedgers
<1> QED BY <1>4 DEF r, CountedLedgers

\* releaseAcquisitionReleaseEpoch
LEMMA DropAcquisitionFields ==
  ASSUME NEW l \in CountedLedgers, NEW e \in Epochs, l.acq[e] > 0,
         NEW m, m = DropAcquisition(l, e)
  PROVE  /\ m \in CountedLedgers /\ m.epoch = l.epoch /\ m.refs = l.refs
         /\ m.acq = [l.acq EXCEPT ![e] = @ - 1]
         /\ \A s \in Sessions : m.released[s] =
              IF l.refs[s] = 0 /\ ~Needed(m, l.released[s]) THEN 0 ELSE l.released[s]
<1> DEFINE n == [l EXCEPT !.acq[e] = @ - 1]
           f == [s \in Sessions |->
                   IF n.refs[s] = 0 /\ ~Needed(n, n.released[s]) THEN 0 ELSE n.released[s]]
<1>1. m = [n EXCEPT !.released = f]
  BY DEF DropAcquisition
<1>2. l.acq[e] - 1 \in Nat
  BY DEF CountedLedgers
<1>3. /\ n \in CountedLedgers /\ n.epoch = l.epoch /\ n.refs = l.refs /\ n.released = l.released
      /\ n.acq = [l.acq EXCEPT ![e] = @ - 1]
  BY <1>2 DEF CountedLedgers
<1> HIDE DEF n
<1>4. f \in [Sessions -> Epochs]
  BY <1>3, ProxyAssumption DEF CountedLedgers, Epochs
<1>5. \A s \in Sessions : f[s] = IF l.refs[s] = 0 /\ ~Needed(n, l.released[s]) THEN 0 ELSE l.released[s]
  BY <1>3
<1> HIDE DEF f
<1>6. /\ m \in CountedLedgers /\ m.epoch = n.epoch /\ m.refs = n.refs /\ m.acq = n.acq /\ m.released = f
  BY <1>1, <1>3, <1>4 DEF CountedLedgers
<1>7. \A x : Needed(m, x) <=> Needed(n, x)
  BY <1>6 DEF Needed, Acquiring
<1> QED BY <1>3, <1>5, <1>6, <1>7

\* recordSessionReleased
LEMMA RecordReleasedFields ==
  ASSUME NEW l \in CountedLedgers, NEW s \in Sessions, l.epoch < MaxReleases,
         NEW m, m = RecordReleased(l, s)
  PROVE  /\ m \in CountedLedgers /\ m.epoch = l.epoch + 1 /\ m.acq = l.acq /\ m.refs = l.refs
         /\ m.released[s] = IF l.refs[s] = 0 /\ Acquiring(l) = {} THEN l.released[s] ELSE l.epoch + 1
         /\ \A t \in Sessions \ {s} : m.released[t] = l.released[t]
<1> DEFINE r == IF l.refs[s] = 0 /\ Acquiring(l) = {} THEN l.released[s] ELSE l.epoch + 1
<1>1. m = [l EXCEPT !.epoch = l.epoch + 1, !.released[s] = r]
  BY DEF RecordReleased
<1>2. l.epoch + 1 \in Epochs
  BY ProxyAssumption DEF CountedLedgers, Epochs
<1>3. r \in Epochs
  BY <1>2 DEF CountedLedgers
<1> HIDE DEF r
<1>4. /\ m \in CountedLedgers /\ m.epoch = l.epoch + 1 /\ m.acq = l.acq /\ m.refs = l.refs
      /\ m.released = [l.released EXCEPT ![s] = r]
  <2> DEFINE n == [l EXCEPT !.epoch = l.epoch + 1]
  <2>1. m = [n EXCEPT !.released[s] = r]
    BY <1>1
  <2>2. /\ n \in CountedLedgers /\ n.epoch = l.epoch + 1 /\ n.acq = l.acq /\ n.refs = l.refs
        /\ n.released = l.released
    BY <1>2 DEF CountedLedgers
  <2> HIDE DEF n
  <2> QED BY <1>3, <2>1, <2>2 DEF CountedLedgers
<1> QED BY <1>4 DEF r, CountedLedgers

-----------------------------------------------------------------------------
(* Steps of the ledger, from calls k to calls j. *)

\* A call that neither names a session any more nor learns any less changes nothing.
LEMMA SameForLedger ==
  ASSUME NEW l, NEW k, LedgerInv(l, k), NEW j \in [Calls -> CallStates],
         \A d \in Calls :
            /\ \A s \in Sessions : Naming(j, d, s) <=> Naming(k, d, s)
            /\ Learning(j, d) <=> Learning(k, d)
            /\ InFlight(j, d) =>
                 /\ InFlight(k, d) /\ j[d].at = k[d].at /\ j[d].seen = k[d].seen
                 /\ j[d].task => Learning(j, d)
                 /\ \A s \in Sessions : Watching(j, d, s) => Watching(k, d, s)
  PROVE  LedgerInv(l, j)
<1>1. \A s \in Sessions : Refs(j, s) = Refs(k, s)
  BY DEF Refs
<1>2. \A e \in Epochs : Acqs(j, e) = Acqs(k, e)
  BY DEF Acqs, Learning
<1>3. Counts(l, j)
  BY <1>1, <1>2 DEF LedgerInv, Counts
<1>4. Past(l, j)
  BY DEF LedgerInv, Past
<1>5. Exact(l, j)
  BY DEF LedgerInv, Exact, Watching, Learning
<1> QED BY <1>3, <1>4, <1>5 DEF LedgerInv

\* A call lets go of its reference to s: it ends, or it is deferred to a task and goes on
\* learning.  Whoever else may bind s still finds what the ledger knows of it.
LEMMA ReferenceDropped ==
  ASSUME NEW l, NEW k, LedgerInv(l, k), NEW c \in Calls, NEW s \in Sessions, Naming(k, c, s),
         NEW j \in [Calls -> CallStates], \A d \in Calls \ {c} : j[d] = k[d],
         \/ ~Learning(k, c) /\ ~InFlight(j, c)
         \/ /\ Learning(k, c) /\ Learning(j, c) /\ j[c].task
            /\ j[c].at = k[c].at /\ j[c].seen = k[c].seen
  PROVE  LedgerInv(DropReference(l, s), j)
<1> DEFINE m == DropReference(l, s)
<1>1. l \in CountedLedgers /\ k \in [Calls -> CallStates] /\ Counts(l, k)
  BY DEF LedgerInv
<1>2. l.refs[s] > 0
  BY <1>1, CountsTell
<1> HIDE DEF m
<1>3. /\ m \in CountedLedgers /\ m.epoch = l.epoch /\ m.acq = l.acq
      /\ m.refs[s] = l.refs[s] - 1
      /\ m.released[s] = IF l.refs[s] > 1 \/ Needed(l, l.released[s]) THEN l.released[s] ELSE 0
      /\ \A t \in Sessions \ {s} : m.refs[t] = l.refs[t] /\ m.released[t] = l.released[t]
  <2>1. m = DropReference(l, s)
    BY DEF m
  <2> QED BY <1>1, <1>2, <2>1, DropReferenceFields
<1>4. \A x : Needed(m, x) <=> Needed(l, x)
  BY <1>3 DEF Needed, Acquiring
<1>5. /\ l.refs \in [Sessions -> Nat] /\ l.released \in [Sessions -> Epochs]
      /\ m.refs \in [Sessions -> Nat] /\ m.released \in [Sessions -> Epochs] /\ Epochs \subseteq Nat
  BY <1>1, <1>3, ProxyAssumption DEF CountedLedgers, Epochs
<1>6. \A d \in Calls : Learning(j, d) <=> Learning(k, d)
  BY DEF Learning, InFlight
<1>7. \A d \in Calls : InFlight(j, d) => /\ InFlight(k, d) /\ j[d].at = k[d].at /\ j[d].seen = k[d].seen
                                         /\ j[d].at \in Nat
  BY <1>5 DEF Learning, InFlight, CallStates
<1>8. Counts(m, j)
  <2>1. \A t \in Sessions \ {s} : Refs(j, t) = Refs(k, t)
    BY DEF Refs, Naming, InFlight
  <2>2. Refs(j, s) = Refs(k, s) \ {c} /\ c \in Refs(k, s)
    BY DEF Refs, Naming, InFlight
  <2>3. Refs(k, s) \in SUBSET Calls
    BY DEF Refs
  <2>4. Cardinality(Refs(j, s)) = Cardinality(Refs(k, s)) - 1
    BY <2>2, <2>3, SomeCalls
  <2>5. \A e \in Epochs : Acqs(j, e) = Acqs(k, e)
    BY <1>6, <1>7 DEF Acqs, Learning
  <2> QED BY <1>1, <1>3, <1>5, <2>1, <2>4, <2>5 DEF Counts
<1>9. Past(m, j)
  <2>1. \A d \in Calls : InFlight(j, d) => j[d].at <= m.epoch /\ (j[d].task => Learning(j, d))
    BY <1>3, <1>6, <1>7 DEF LedgerInv, Past, Learning, InFlight
  <2>2. \A t \in Sessions : m.released[t] \in {l.released[t], 0} /\ l.released[t] <= l.epoch
    BY <1>3, <1>5 DEF LedgerInv, Past
  <2>3. m.epoch \in Nat
    BY <1>3, <1>5 DEF CountedLedgers
  <2> QED BY <1>3, <2>1, <2>2, <2>3 DEF Past
<1>10. Exact(m, j)
  <2> SUFFICES ASSUME NEW d \in Calls, NEW t \in Sessions, Watching(j, d, t)
               PROVE  m.released[t] > j[d].at <=> t \in j[d].seen
    BY DEF Exact
  <2>1. InFlight(j, d)
    BY DEF Watching, Learning
  <2>2. Watching(k, d, t)
    BY <1>6, <1>7, <2>1 DEF Watching, Learning, InFlight
  <2>3. l.released[t] > j[d].at <=> t \in j[d].seen
    BY <1>7, <2>1, <2>2 DEF LedgerInv, Exact
  <2>4. CASE m.released[t] = l.released[t]
    BY <2>3, <2>4
  <2>5. CASE m.released[t] # l.released[t]
    <3>1. t = s /\ l.refs[s] <= 1 /\ ~Needed(l, l.released[s]) /\ m.released[t] = 0
      BY <1>3, <1>5, <2>5
    <3>2. Learning(k, d)
      <4> SUFFICES ASSUME ~Learning(k, d) PROVE FALSE
        OBVIOUS
      <4>1. Naming(k, d, s)
        BY <1>7, <2>1, <2>2, <3>1 DEF Watching, Naming, LedgerInv, Past
      <4>2. c = d
        BY <1>1, <3>1, <4>1, CountsTell
      <4> QED BY <2>1, <4>2
    <3>3. l.acq[k[d].at] > 0 /\ k[d].at \in Epochs
      BY <1>1, <3>2, CountsTell DEF CallStates
    <3>4. ~(l.released[s] > k[d].at)
      BY <3>1, <3>3 DEF Needed, Acquiring
    <3> QED BY <1>7, <2>1, <2>3, <3>1, <3>4
  <2> QED BY <2>4, <2>5
<1>11. OnlyNeeded(m)
  <2> SUFFICES ASSUME NEW t \in Sessions, m.released[t] > 0
               PROVE  m.refs[t] > 0 \/ Needed(m, m.released[t])
    BY DEF OnlyNeeded
  <2>1. CASE t = s
    BY <1>3, <1>4, <1>5, <2>1
  <2>2. CASE t # s
    BY <1>3, <1>4, <1>5, <2>2 DEF LedgerInv, OnlyNeeded
  <2> QED BY <2>1, <2>2
<1> QED BY <1>3, <1>8, <1>9, <1>10, <1>11 DEF LedgerInv, m

\* A learning call ends: what it alone needed is forgotten.
LEMMA AcquisitionDropped ==
  ASSUME NEW l, NEW k, LedgerInv(l, k), NEW c \in Calls, Learning(k, c),
         \A s \in Sessions : ~Naming(k, c, s),
         NEW j \in [Calls -> CallStates], \A d \in Calls \ {c} : j[d] = k[d], ~InFlight(j, c)
  PROVE  LedgerInv(DropAcquisition(l, k[c].at), j)
<1> DEFINE m == DropAcquisition(l, k[c].at)
<1>1. l \in CountedLedgers /\ k \in [Calls -> CallStates] /\ Counts(l, k)
  BY DEF LedgerInv
<1>2. k[c].at \in Epochs /\ l.acq[k[c].at] > 0
  BY <1>1, CountsTell DEF CallStates
<1>3. /\ m \in CountedLedgers /\ m.epoch = l.epoch /\ m.refs = l.refs
      /\ m.acq = [l.acq EXCEPT ![k[c].at] = @ - 1]
      /\ \A s \in Sessions : m.released[s] =
           IF l.refs[s] = 0 /\ ~Needed(m, l.released[s]) THEN 0 ELSE l.released[s]
  BY <1>1, <1>2, DropAcquisitionFields
<1> HIDE DEF m
<1>4. /\ l.acq \in [Epochs -> Nat] /\ l.released \in [Sessions -> Epochs] /\ l.refs \in [Sessions -> Nat]
      /\ m.released \in [Sessions -> Epochs] /\ Epochs \subseteq Nat /\ m.epoch \in Nat
  BY <1>1, <1>3, ProxyAssumption DEF CountedLedgers, Epochs
<1>5. \A d \in Calls : InFlight(j, d) => d # c /\ j[d] = k[d] /\ InFlight(k, d) /\ k[d].at \in Epochs
  BY <1>1 DEF InFlight, CallStates
<1>6. Counts(m, j)
  <2>1. \A s \in Sessions : Refs(j, s) = Refs(k, s)
    BY DEF Refs, Naming, InFlight
  <2>2. \A e \in Epochs \ {k[c].at} : Acqs(j, e) = Acqs(k, e)
    BY DEF Acqs, Learning, InFlight
  <2>3. Acqs(j, k[c].at) = Acqs(k, k[c].at) \ {c} /\ c \in Acqs(k, k[c].at)
    BY DEF Acqs, Learning, InFlight
  <2>4. Acqs(k, k[c].at) \in SUBSET Calls
    BY DEF Acqs
  <2>5. Cardinality(Acqs(j, k[c].at)) = Cardinality(Acqs(k, k[c].at)) - 1
    BY <2>3, <2>4, SomeCalls
  <2> QED BY <1>1, <1>2, <1>3, <1>4, <2>1, <2>2, <2>5 DEF Counts
<1>7. Past(m, j)
  <2>1. \A d \in Calls : InFlight(j, d) => j[d].at <= m.epoch /\ (j[d].task => Learning(j, d))
    BY <1>3, <1>5 DEF LedgerInv, Past, Learning, InFlight
  <2>2. \A t \in Sessions : m.released[t] \in {l.released[t], 0} /\ l.released[t] <= l.epoch
    BY <1>3, <1>4 DEF LedgerInv, Past
  <2> QED BY <1>3, <1>4, <2>1, <2>2 DEF Past
<1>8. Exact(m, j)
  <2> SUFFICES ASSUME NEW d \in Calls, NEW t \in Sessions, Watching(j, d, t)
               PROVE  m.released[t] > j[d].at <=> t \in j[d].seen
    BY DEF Exact
  <2>1. /\ InFlight(j, d) /\ j[d] = k[d] /\ k[d].at \in Epochs /\ Watching(k, d, t)
        /\ Learning(j, d) <=> Learning(k, d)
    BY <1>5 DEF Watching, Learning, InFlight
  <2>2. l.released[t] > j[d].at <=> t \in j[d].seen
    BY <2>1 DEF LedgerInv, Exact
  <2>3. CASE m.released[t] = l.released[t]
    BY <2>2, <2>3
  <2>4. CASE m.released[t] # l.released[t]
    <3>1. l.refs[t] = 0 /\ ~Needed(m, l.released[t]) /\ m.released[t] = 0
      BY <1>3, <2>4
    <3>2. Learning(j, d)
      <4> SUFFICES ASSUME ~Learning(k, d) PROVE FALSE
        BY <2>1
      <4>1. Naming(k, d, t)
        BY <1>5, <2>1 DEF Watching, Naming, LedgerInv, Past
      <4>2. l.refs[t] > 0
        BY <1>1, <4>1, CountsTell
      <4> QED BY <3>1, <4>2
    <3>3. m.acq[j[d].at] > 0
      BY <1>3, <1>6, <3>2, CountsTell
    <3>4. ~(l.released[t] > j[d].at)
      BY <2>1, <3>1, <3>3 DEF Needed, Acquiring
    <3> QED BY <1>4, <2>1, <2>2, <3>1, <3>4
  <2> QED BY <2>3, <2>4
<1>9. OnlyNeeded(m)
  BY <1>3, <1>4 DEF OnlyNeeded
<1> QED BY <1>3, <1>6, <1>7, <1>8, <1>9 DEF LedgerInv, m

\* A release is recorded for whoever may bind its session, and seen by them.
LEMMA ReleaseRecorded ==
  ASSUME NEW l, NEW k, LedgerInv(l, k), NEW s \in Sessions, l.epoch < MaxReleases,
         NEW j \in [Calls -> CallStates],
         \A d \in Calls :
            /\ InFlight(j, d) <=> InFlight(k, d)
            /\ j[d].kind = k[d].kind /\ j[d].named = k[d].named /\ j[d].at = k[d].at
            /\ j[d].task = k[d].task
            /\ \A t \in Sessions : Watching(k, d, t) => (t \in j[d].seen <=> t \in k[d].seen \cup {s})
  PROVE  LedgerInv(RecordReleased(l, s), j)
<1> DEFINE m == RecordReleased(l, s)
<1>1. l \in CountedLedgers /\ k \in [Calls -> CallStates] /\ Counts(l, k)
  BY DEF LedgerInv
<1> HIDE DEF m
<1>2. /\ m \in CountedLedgers /\ m.epoch = l.epoch + 1 /\ m.acq = l.acq /\ m.refs = l.refs
      /\ m.released[s] = IF l.refs[s] = 0 /\ Acquiring(l) = {} THEN l.released[s] ELSE l.epoch + 1
      /\ \A t \in Sessions \ {s} : m.released[t] = l.released[t]
  <2>1. m = RecordReleased(l, s)
    BY DEF m
  <2> QED BY <1>1, <2>1, RecordReleasedFields
<1>3. /\ l.refs \in [Sessions -> Nat] /\ l.released \in [Sessions -> Epochs]
      /\ m.released \in [Sessions -> Epochs] /\ Epochs \subseteq Nat /\ l.epoch \in Nat
  BY <1>1, <1>2, ProxyAssumption DEF CountedLedgers, Epochs
<1>4. \A d \in Calls : k[d].at \in Nat /\ k[d].at \in Epochs
  BY <1>1, <1>3 DEF CallStates
<1>5. /\ \A d \in Calls : Learning(j, d) <=> Learning(k, d)
      /\ \A d \in Calls, t \in Sessions : /\ Naming(j, d, t) <=> Naming(k, d, t)
                                          /\ Watching(j, d, t) <=> Watching(k, d, t)
  BY DEF Learning, Naming, Watching
<1>6. Counts(m, j)
  <2>1. \A t \in Sessions : Refs(j, t) = Refs(k, t)
    BY <1>5 DEF Refs
  <2>2. \A e \in Epochs : Acqs(j, e) = Acqs(k, e)
    BY <1>5 DEF Acqs
  <2> QED BY <1>1, <1>2, <2>1, <2>2 DEF Counts
<1>7. Past(m, j)
  <2>1. \A d \in Calls : InFlight(j, d) => j[d].at <= m.epoch /\ (j[d].task => Learning(j, d))
    BY <1>2, <1>3, <1>4, <1>5 DEF LedgerInv, Past
  <2>2. ASSUME NEW t \in Sessions PROVE m.released[t] <= m.epoch
    <3>1. l.released[t] \in Nat /\ l.released[t] <= l.epoch
      BY <1>3 DEF LedgerInv, Past
    <3>2. m.released[t] \in {l.released[t], l.epoch + 1}
      BY <1>2
    <3> QED BY <1>2, <1>3, <3>1, <3>2
  <2> QED BY <2>1, <2>2 DEF Past
<1>8. Exact(m, j)
  <2> SUFFICES ASSUME NEW d \in Calls, NEW t \in Sessions, Watching(j, d, t)
               PROVE  m.released[t] > j[d].at <=> t \in j[d].seen
    BY DEF Exact
  <2>1. /\ Watching(k, d, t) /\ InFlight(k, d) /\ j[d].at = k[d].at /\ k[d].at <= l.epoch
        /\ t \in j[d].seen <=> t \in k[d].seen \cup {s}
    BY <1>5 DEF Watching, Learning, LedgerInv, Past
  <2>2. CASE t # s
    BY <1>2, <2>1, <2>2 DEF LedgerInv, Exact
  <2>3. CASE t = s
    <3>1. l.refs[s] > 0 \/ Acquiring(l) # {}
      <4>1. CASE Learning(k, d)
        <5>1. l.acq[k[d].at] > 0
          BY <1>1, <4>1, CountsTell
        <5> QED BY <1>4, <5>1 DEF Acquiring
      <4>2. CASE ~Learning(k, d)
        <5>1. Naming(k, d, s)
          BY <2>1, <2>3, <4>2 DEF Watching, Naming, LedgerInv, Past
        <5> QED BY <1>1, <5>1, CountsTell
      <4> QED BY <4>1, <4>2
    <3>2. m.released[t] = l.epoch + 1
      BY <1>2, <1>3, <2>3, <3>1
    <3> QED BY <1>3, <1>4, <2>1, <2>3, <3>2
  <2> QED BY <2>2, <2>3
<1>9. OnlyNeeded(m)
  <2> SUFFICES ASSUME NEW t \in Sessions, m.released[t] > 0
               PROVE  m.refs[t] > 0 \/ Needed(m, m.released[t])
    BY DEF OnlyNeeded
  <2>0. \A x : Needed(m, x) <=> Needed(l, x)
    BY <1>2 DEF Needed, Acquiring
  <2>1. CASE m.released[t] = l.released[t]
    BY <1>2, <2>0, <2>1 DEF LedgerInv, OnlyNeeded
  <2>2. CASE m.released[t] # l.released[t]
    <3>1. t = s /\ m.released[t] = l.epoch + 1 /\ (l.refs[s] > 0 \/ Acquiring(l) # {})
      BY <1>2, <1>3, <2>2
    <3>2. \A e \in Acquiring(l) : e <= l.epoch /\ e \in Nat
      <4> SUFFICES ASSUME NEW e \in Epochs, l.acq[e] > 0 PROVE e <= l.epoch
        BY <1>3 DEF Acquiring
      <4>1. PICK c \in Calls : Learning(k, c) /\ k[c].at = e
        BY <1>1, CountsTell
      <4> QED BY <4>1 DEF LedgerInv, Past, Learning
    <3>3. CASE Acquiring(l) # {}
      <4>1. PICK e \in Acquiring(l) : TRUE
        BY <3>3
      <4>2. l.epoch + 1 > e
        BY <1>3, <3>2, <4>1
      <4>3. Needed(l, l.epoch + 1)
        BY <4>1, <4>2 DEF Needed
      <4> QED BY <2>0, <3>1, <4>3
    <3> QED BY <1>2, <3>1, <3>3
  <2> QED BY <2>1, <2>2
<1> QED BY <1>2, <1>6, <1>7, <1>8, <1>9 DEF LedgerInv, m

\* A call that is forwarded starts at the current epoch, with nothing seen and nothing
\* recorded that is newer; it counts for the session it names and for what it learns.
LEMMA CallCounted ==
  ASSUME NEW l, NEW k, LedgerInv(l, k), NEW c \in Calls, ~InFlight(k, c),
         NEW j \in [Calls -> CallStates], \A d \in Calls \ {c} : j[d] = k[d],
         InFlight(j, c), ~j[c].task, j[c].at = l.epoch, j[c].seen = {},
         NEW m \in CountedLedgers, m.epoch = l.epoch, m.released = l.released,
         \A s \in Sessions : m.refs[s] = IF s = j[c].named THEN l.refs[s] + 1 ELSE l.refs[s],
         \A e \in Epochs : m.acq[e] = IF Learning(j, c) /\ e = l.epoch THEN l.acq[e] + 1 ELSE l.acq[e]
  PROVE  LedgerInv(m, j)
<1>1. l \in CountedLedgers /\ k \in [Calls -> CallStates] /\ Counts(l, k)
  BY DEF LedgerInv
<1>2. /\ l.refs \in [Sessions -> Nat] /\ l.acq \in [Epochs -> Nat] /\ l.released \in [Sessions -> Epochs]
      /\ Epochs \subseteq Nat /\ l.epoch \in Nat /\ l.epoch \in Epochs
  BY <1>1, ProxyAssumption DEF CountedLedgers, Epochs
<1>3. Counts(m, j)
  <2>1. \A s \in Sessions :
          /\ c \notin Refs(k, s) /\ Refs(k, s) \in SUBSET Calls
          /\ Refs(j, s) = IF s = j[c].named THEN Refs(k, s) \cup {c} ELSE Refs(k, s)
    BY DEF Refs, Naming, InFlight
  <2>2. \A e \in Epochs :
          /\ c \notin Acqs(k, e) /\ Acqs(k, e) \in SUBSET Calls
          /\ Acqs(j, e) = IF Learning(j, c) /\ e = l.epoch THEN Acqs(k, e) \cup {c} ELSE Acqs(k, e)
    BY DEF Acqs, Learning, InFlight
  <2>3. \A s \in Sessions : m.refs[s] = Cardinality(Refs(j, s))
    BY <1>1, <2>1, SomeCalls DEF Counts
  <2>4. \A e \in Epochs : m.acq[e] = Cardinality(Acqs(j, e))
    BY <1>1, <2>2, SomeCalls DEF Counts
  <2> QED BY <2>3, <2>4 DEF Counts
<1>4. Past(m, j)
  BY <1>2 DEF LedgerInv, Past, Learning, InFlight
<1>5. Exact(m, j)
  <2> SUFFICES ASSUME NEW d \in Calls, NEW t \in Sessions, Watching(j, d, t)
               PROVE  m.released[t] > j[d].at <=> t \in j[d].seen
    BY DEF Exact
  <2>1. CASE d = c
    <3>1. l.released[t] \in Nat /\ l.released[t] <= l.epoch
      BY <1>2 DEF LedgerInv, Past
    <3> QED BY <1>2, <2>1, <3>1
  <2>2. CASE d # c
    BY <2>2 DEF LedgerInv, Exact, Watching, Learning, InFlight
  <2> QED BY <2>1, <2>2
<1>6. OnlyNeeded(m)
  <2>1. \A t \in Sessions : l.refs[t] > 0 => m.refs[t] > 0
    BY <1>2
  <2>2. \A e \in Epochs : l.acq[e] > 0 => m.acq[e] > 0
    BY <1>2
  <2>3. \A x : Needed(l, x) => Needed(m, x)
    BY <2>2 DEF Needed, Acquiring
  <2> QED BY <2>1, <2>3 DEF LedgerInv, OnlyNeeded
<1> QED BY <1>3, <1>4, <1>5, <1>6 DEF LedgerInv

-----------------------------------------------------------------------------
(* The operations on the proxy's bindings. *)

\* q differs from p in its keeper alone
SameBindings(p, q) ==
  /\ q.bound = p.bound /\ q.fence = p.fence /\ q.held = p.held
  /\ q.owned = p.owned /\ q.claimable = p.claimable /\ q.stopped = p.stopped
  /\ q.link = p.link /\ q.closing = p.closing

SameLink(p, q) == q.link = p.link /\ q.closing = p.closing

\* syncHeartbeatKeeper: it touches no binding, and leaves a keeper that runs if it must.
LEMMA SyncKeeps ==
  ASSUME NEW p, NEW over, NEW k, Ready(p, over, k), NEW q, q = Sync(p)
  PROVE  /\ Keeps(q, over, k) /\ SameBindings(p, q) /\ Keeping(q) = Keeping(p)
         /\ Open(q) /\ Live(q) => (HasTargets(q) <=> q.started)
<1> DEFINE on  == [p EXCEPT !.started = TRUE, !.interval = TRUE]
           off == [p EXCEPT !.started = FALSE, !.interval = FALSE]
<1>0. p \in Proxies /\ Claims(p, over) /\ Paused(p, k)
  BY DEF Ready
<1>1. on \in Proxies /\ SameBindings(p, on) /\ on.started /\ on.interval
  BY <1>0 DEF Proxies, SameBindings
<1>2. off \in Proxies /\ SameBindings(p, off) /\ ~off.started /\ ~off.interval
  BY <1>0 DEF Proxies, SameBindings
<1>3. SameBindings(p, p)
  BY DEF SameBindings
<1>4. \/ q = p /\ (HasTargets(p) => p.started \/ ~Open(p) \/ ~Live(p)) /\ (p.started => HasTargets(p))
      \/ q = on /\ HasTargets(p) /\ Open(p)
      \/ q = off /\ ~HasTargets(p)
  BY DEF Sync
<1> HIDE DEF on, off
<1>5. q \in Proxies /\ SameBindings(p, q)
  BY <1>0, <1>1, <1>2, <1>3, <1>4
<1>6. /\ HasTargets(q) <=> HasTargets(p)
      /\ Open(q) <=> Open(p)
      /\ Live(q) <=> Live(p)
      /\ Serving(q) => Open(q) /\ Live(q)
      /\ Keeping(q) = Keeping(p)
  BY <1>5 DEF SameBindings, HasTargets, Heartbeatable, Claimable, Open, Live, Serving, Keeping
<1>7. Open(q) /\ Live(q) => (HasTargets(q) <=> q.started)
  BY <1>1, <1>2, <1>4, <1>6
<1>8. Paused(q, k)
  BY <1>0, <1>1, <1>2, <1>4, <1>6 DEF Paused
<1>9. Claims(q, over)
  BY <1>0, <1>1, <1>2, <1>4, <1>5 DEF Claims, HoldsOf, Closed, SameBindings, Open
<1>10. Kept(q, k)
  BY <1>6, <1>7, <1>8 DEF Kept
<1> QED BY <1>5, <1>6, <1>7, <1>9, <1>10 DEF Keeps

\* A sound state is one in which the keeper may be synced.
LEMMA KeepsReady ==
  ASSUME NEW p, NEW over, NEW k, Keeps(p, over, k)
  PROVE  Ready(p, over, k)
BY DEF Keeps, Ready, Kept

\* dropHeldSession, of a session that the proxy may have disowned before
LEMMA DropHeldKeeps ==
  ASSUME NEW p \in Proxies, NEW over, NEW k, NEW s, NEW h \in BOOLEAN,
         HoldsOf(p, p.held \ {s}), p.claimable \cap over = {},
         Closed(p), Kept(p, k), NEW q, q = DropHeld(p, s, h)
  PROVE  /\ Keeps(q, over, k) /\ s \notin q.held /\ Keeping(p) \ {s} \subseteq Keeping(q)
         /\ q.bound = p.bound /\ q.fence = p.fence /\ q.claimable = p.claimable /\ SameLink(p, q)
<1>1. CASE s \notin p.held
  <2>1. q = p /\ p.held = p.held \ {s}
    BY <1>1 DEF DropHeld
  <2> QED BY <1>1, <2>1 DEF Keeps, Claims, SameLink
<1>2. CASE s \in p.held
  <2> DEFINE stopped == IF h THEN p.stopped ELSE p.stopped \ {s}
             r == [p EXCEPT !.held = p.held \ {s}, !.stopped = stopped]
  <2>1. q = Sync(r)
    BY <1>2 DEF DropHeld
  <2>2. /\ stopped \subseteq p.stopped /\ p.stopped \subseteq stopped \cup {s}
        /\ p.stopped \subseteq Sessions /\ p.held \subseteq Sessions
    BY DEF Proxies
  <2> HIDE DEF stopped
  <2>3. r \in Proxies
    BY <2>2 DEF Proxies
  <2>4. /\ r.bound = p.bound /\ r.fence = p.fence /\ r.owned = p.owned /\ r.claimable = p.claimable
        /\ r.held = p.held \ {s} /\ r.stopped = stopped /\ r.started = p.started
        /\ r.interval = p.interval /\ r.link = p.link /\ r.closing = p.closing
    BY DEF Proxies
  <2> HIDE DEF r
  <2>5. Ready(r, over, k)
    BY <2>2, <2>3, <2>4 DEF Ready, Claims, HoldsOf, Closed, Paused, Kept, Open
  <2>6. Keeps(q, over, k) /\ SameBindings(r, q) /\ Keeping(q) = Keeping(r)
    BY <2>1, <2>5, SyncKeeps
  <2>7. Keeping(p) \ {s} \subseteq Keeping(r)
    BY <2>2, <2>4 DEF Keeping
  <2> QED BY <2>4, <2>6, <2>7 DEF SameBindings, SameLink
<1> QED BY <1>1, <1>2

\* fenceBoundSessionUuid, for a session that the proxy is bound to, if to any, or behind
\* another fence: it lets go of that session alone.
LEMMA FenceKeeps ==
  ASSUME NEW p, NEW over, NEW k, Keeps(p, over, k), NEW s \in Sessions,
         p.bound \in {None, s} \/ p.fence # None,
         NEW q, q = Fence(p, s)
  PROVE  /\ Keeps(q, over, k) /\ q.bound \in {p.bound, None} /\ SameLink(p, q)
         /\ Keeping(p) \ {s} \subseteq Keeping(q)
<1> DEFINE d == DropHeld(p, s, FALSE)
           r == [d EXCEPT !.stopped = d.stopped \ {s}]
           f == [r EXCEPT !.fence = s, !.bound = None, !.stopped = r.stopped \ {r.bound}]
<1>1. q = IF r.fence # None THEN r ELSE Sync(f)
  BY DEF Fence
<1>2. /\ Keeps(d, over, k) /\ s \notin d.held /\ Keeping(p) \ {s} \subseteq Keeping(d)
      /\ d.bound = p.bound /\ d.fence = p.fence /\ d.claimable = p.claimable /\ SameLink(p, d)
  <2>1. p \in Proxies /\ Kept(p, k) /\ p.claimable \cap over = {} /\ HoldsOf(p, p.held \ {s}) /\ Closed(p)
    BY DEF Keeps, Claims, HoldsOf, Closed
  <2> QED BY <2>1, DropHeldKeeps
<1>3. d \in Proxies /\ Claims(d, over) /\ Kept(d, k) /\ None \notin Sessions
  BY <1>2, ProxyAssumption DEF Keeps
<1> HIDE DEF d
<1>4. r \in Proxies
  BY <1>3 DEF Proxies
<1>5. /\ r.bound = d.bound /\ r.fence = d.fence /\ r.owned = d.owned /\ r.claimable = d.claimable
      /\ r.held = d.held /\ r.stopped = d.stopped \ {s} /\ r.started = d.started
      /\ r.interval = d.interval /\ r.link = d.link /\ r.closing = d.closing
  BY <1>3 DEF Proxies
<1> HIDE DEF r
<1>6. Claims(r, over) /\ Paused(r, k) /\ Keeping(p) \ {s} \subseteq Keeping(r)
  BY <1>2, <1>3, <1>5 DEF Claims, HoldsOf, Closed, Paused, Kept, Open, Keeping
<1>7. CASE r.fence # None
  <2>1. /\ HasTargets(r) <=> HasTargets(d)
        /\ Serving(r) <=> Serving(d)
    BY <1>5, <1>7 DEF HasTargets, Heartbeatable, Claimable, Serving, Open
  <2>2. Kept(r, k)
    BY <1>3, <1>5, <1>6, <2>1 DEF Kept
  <2> QED BY <1>1, <1>2, <1>4, <1>5, <1>6, <1>7, <2>2 DEF Keeps, SameLink
<1>8. CASE r.fence = None
  <2>1. p.bound \in {None, s} /\ r.bound \in {None, s}
    BY <1>2, <1>5, <1>8
  <2>2. f \in Proxies
    BY <1>4 DEF Proxies
  <2>3. /\ f.bound = None /\ f.fence = s /\ f.owned = r.owned /\ f.claimable = r.claimable
        /\ f.held = r.held /\ f.stopped = r.stopped \ {r.bound} /\ f.started = r.started
        /\ f.interval = r.interval /\ f.link = r.link /\ f.closing = r.closing
    BY <1>4 DEF Proxies
  <2> HIDE DEF f
  <2>4. r.held \subseteq Sessions
    BY <1>4 DEF Proxies
  <2>5. Ready(f, over, k)
    BY <1>3, <1>6, <2>2, <2>3, <2>4 DEF Ready, Claims, HoldsOf, Closed, Paused, Open
  <2>6. q = Sync(f)
    BY <1>1, <1>8
  <2>7. Keeps(q, over, k) /\ SameBindings(f, q) /\ Keeping(q) = Keeping(f)
    BY <2>5, <2>6, SyncKeeps
  <2>8. r.claimable \subseteq Sessions
    BY <1>4 DEF Proxies
  <2>9. Keeping(r) \ {s} \subseteq Keeping(f)
    BY <1>3, <2>1, <2>3, <2>8 DEF Keeping
  <2> QED BY <1>2, <1>5, <1>6, <2>3, <2>7, <2>9 DEF SameBindings, SameLink
<1> QED BY <1>7, <1>8

\* fenceReleasedForwardedSession: of an ended session, so that nothing claimed is let go.
LEMMA FenceForwardedKeeps ==
  ASSUME NEW p, NEW over, NEW k, Keeps(p, over, k), over \subseteq Sessions, NEW s \in over,
         NEW q, q = FenceForwarded(p, s)
  PROVE  /\ Keeps(q, over, k) /\ q.bound \in {p.bound, None} /\ SameLink(p, q)
         /\ Keeping(p) \subseteq Keeping(q)
<1>1. s \notin Keeping(p)
  BY DEF Keeps, Claims, Keeping
<1>2. CASE p.bound \in {None, s}
  BY <1>1, <1>2, FenceKeeps DEF FenceForwarded
<1>3. CASE p.bound \notin {None, s}
  BY <1>3 DEF FenceForwarded, SameLink
<1> QED BY <1>2, <1>3

\* the session that a binding to s leaves, if the proxy claims it
Left(p, s) == IF p.bound # s /\ p.bound \in p.claimable THEN {p.bound} ELSE {}

\* holdPreviousBinding
LEMMA HoldPreviousFields ==
  ASSUME NEW p \in Proxies, NEW s \in Sessions, NEW q, q = HoldPrevious(p, s)
  PROVE  /\ q \in Proxies
         /\ q.bound = p.bound /\ q.fence = p.fence /\ q.owned = p.owned /\ q.claimable = p.claimable
         /\ q.started = p.started /\ q.interval = p.interval /\ SameLink(p, q)
         /\ q.held = (p.held \ {s}) \cup Left(p, s) /\ q.stopped = p.stopped \ Left(p, s)
<1> DEFINE r == [p EXCEPT !.held = (@ \ {s}) \cup Left(p, s)]
<1>1. Left(p, s) \in SUBSET Sessions
  BY DEF Proxies, Left
<1>2. q = [r EXCEPT !.stopped = @ \ Left(p, s)]
  BY DEF HoldPrevious, Left
<1>3. r \in Proxies
  BY <1>1 DEF Proxies
<1>4. /\ r.bound = p.bound /\ r.fence = p.fence /\ r.owned = p.owned /\ r.claimable = p.claimable
      /\ r.started = p.started /\ r.interval = p.interval /\ SameLink(p, r)
      /\ r.held = (p.held \ {s}) \cup Left(p, s) /\ r.stopped = p.stopped
  BY DEF Proxies, SameLink
<1> HIDE DEF r
<1>5. q \in Proxies
  BY <1>2, <1>3 DEF Proxies
<1>6. /\ q.bound = r.bound /\ q.fence = r.fence /\ q.owned = r.owned /\ q.claimable = r.claimable
      /\ q.started = r.started /\ q.interval = r.interval /\ SameLink(r, q)
      /\ q.held = r.held /\ q.stopped = r.stopped \ Left(p, s)
  BY <1>2, <1>3 DEF Proxies, SameLink
<1> QED BY <1>4, <1>5, <1>6 DEF SameLink

\* updateBoundSessionUuid: the session the binding leaves is held if the proxy claims it.
LEMMA UpdateBoundKeeps ==
  ASSUME NEW p, NEW over, NEW k, Ready(p, over, k), NEW s \in Sessions,
         NEW q, q = UpdateBound(p, s)
  PROVE  /\ Ready(q, over, k) /\ q.bound = s /\ SameLink(p, q)
         /\ Keeping(p) \subseteq Keeping(q)
<1> DEFINE previous == Left(p, s)
           h == HoldPrevious(p, s)
           m == IF s = p.bound THEN p ELSE h
<1>0. p \in Proxies /\ Claims(p, over) /\ Paused(p, k)
  BY DEF Ready
<1>1. /\ h \in Proxies
      /\ h.bound = p.bound /\ h.fence = p.fence /\ h.owned = p.owned /\ h.claimable = p.claimable
      /\ h.started = p.started /\ h.interval = p.interval /\ SameLink(p, h)
      /\ h.held = (p.held \ {s}) \cup previous /\ h.stopped = p.stopped \ previous
  <2>1. h = HoldPrevious(p, s)
    OBVIOUS
  <2> HIDE DEF h
  <2> QED BY <1>0, <2>1, HoldPreviousFields
<1>2. q = [m EXCEPT !.bound = s, !.owned = @ \cup {s}, !.stopped = @ \ {s}]
  BY DEF UpdateBound
<1> HIDE DEF h
<1>3. previous \subseteq p.claimable \ {s}
  BY DEF Left
<1>4. /\ m \in Proxies
      /\ m.bound = p.bound /\ m.fence = p.fence /\ m.owned = p.owned /\ m.claimable = p.claimable
      /\ m.started = p.started /\ m.interval = p.interval /\ SameLink(p, m)
      /\ m.held = (p.held \ {s}) \cup previous /\ m.stopped = p.stopped \ previous
  <2>1. CASE s = p.bound
    <3>1. m = p /\ previous = {} /\ s \notin p.held
      BY <1>0, <2>1 DEF Claims, HoldsOf, Closed, Left
    <3> HIDE DEF m, previous
    <3> QED BY <1>0, <3>1 DEF SameLink
  <2>2. CASE s # p.bound
    <3>1. m = h
      BY <2>2
    <3> HIDE DEF m, previous
    <3> QED BY <1>1, <2>2, <3>1
  <2> QED BY <2>1, <2>2
<1>5. Keeping(p) \subseteq m.held \cup m.stopped \cup {s}
  BY <1>4 DEF Keeping, Left
<1> HIDE DEF m, previous
<1> DEFINE u == [m EXCEPT !.bound = s, !.owned = @ \cup {s}]
<1>6. m \in Proxies
  BY <1>4
<1>7. u \in Proxies
  BY <1>6 DEF Proxies
<1>8. /\ q \in Proxies
      /\ q.bound = s /\ q.fence = m.fence /\ q.owned = m.owned \cup {s} /\ q.claimable = m.claimable
      /\ q.held = m.held /\ q.stopped = m.stopped \ {s} /\ q.started = m.started
      /\ q.interval = m.interval /\ SameLink(m, q)
  <2>1. /\ u.bound = s /\ u.fence = m.fence /\ u.owned = m.owned \cup {s} /\ u.claimable = m.claimable
        /\ u.held = m.held /\ u.stopped = m.stopped /\ u.started = m.started
        /\ u.interval = m.interval /\ SameLink(m, u)
    BY <1>4 DEF Proxies, SameLink
  <2>2. q = [u EXCEPT !.stopped = @ \ {s}]
    BY <1>2
  <2> HIDE DEF u
  <2>3. q \in Proxies
    BY <1>7, <2>2 DEF Proxies
  <2>4. /\ q.bound = u.bound /\ q.fence = u.fence /\ q.owned = u.owned /\ q.claimable = u.claimable
        /\ q.held = u.held /\ q.stopped = u.stopped \ {s} /\ q.started = u.started
        /\ q.interval = u.interval /\ SameLink(u, q)
    BY <1>7, <2>2 DEF Proxies, SameLink
  <2> QED BY <2>1, <2>3, <2>4 DEF SameLink
<1>9. Claims(q, over) /\ Paused(q, k)
  BY <1>0, <1>3, <1>4, <1>8 DEF Claims, HoldsOf, Closed, Paused, Open, SameLink
<1>10. Keeping(p) \subseteq Keeping(q)
  BY <1>4, <1>5, <1>8 DEF Keeping
<1> QED BY <1>4, <1>8, <1>9, <1>10 DEF Ready, SameLink

\* startBoundSessionHeartbeat, for a binding: it starts the keeper unless there is nothing
\* to heartbeat.
LEMMA StartHeartbeatKeeps ==
  ASSUME NEW p, NEW over, NEW k, Ready(p, over, k), p.bound # None, NEW q, q = StartHeartbeat(p)
  PROVE  /\ Keeps(q, over, k) /\ SameBindings(p, q) /\ Keeping(q) = Keeping(p)
         /\ Open(q) /\ Live(q) /\ q.fence = None /\ HasTargets(q) => q.started
         /\ Open(q) /\ Live(q) /\ q.fence = None /\ q.started
              => HasTargets(q) \/ q.bound \notin q.claimable \cup {None}
<1>1. CASE q = Sync(p)
  BY <1>1, SyncKeeps
<1>2. CASE q # Sync(p)
  <2>1. q = p /\ ~(p.fence = None /\ (Claimable(p) \/ p.held # {}) /\ Live(p) /\ Open(p))
    BY <1>2 DEF StartHeartbeat
  <2>2. Live(p) /\ Open(p) /\ p.fence = None => ~HasTargets(p) /\ p.bound \notin p.claimable \cup {None}
    BY <2>1 DEF HasTargets, Heartbeatable, Claimable
  <2>3. Serving(p) => Live(p) /\ Open(p) /\ p.fence = None
    BY DEF Serving, Live
  <2>4. Keeps(p, over, k)
    BY <2>2, <2>3 DEF Keeps, Kept, Ready
  <2> QED BY <2>1, <2>2, <2>4 DEF SameBindings
<1> QED BY <1>1, <1>2

\* both, as every answer that binds does
LEMMA BindKeeps ==
  ASSUME NEW p, NEW over, NEW k, Ready(p, over, k), NEW s \in Sessions,
         NEW q, q = StartHeartbeat(UpdateBound(p, s))
  PROVE  Keeps(q, over, k) /\ q.bound = s /\ SameLink(p, q) /\ Keeping(p) \subseteq Keeping(q)
<1> DEFINE u == UpdateBound(p, s)
<1>1. q = StartHeartbeat(u)
  OBVIOUS
<1>2. Ready(u, over, k) /\ u.bound = s /\ SameLink(p, u) /\ Keeping(p) \subseteq Keeping(u)
  <2> HIDE DEF u
  <2>1. u = UpdateBound(p, s)
    BY DEF u
  <2> QED BY <2>1, UpdateBoundKeeps
<1> HIDE DEF u
<1>3. u.bound # None
  BY <1>2, ProxyAssumption
<1>4. Keeps(q, over, k) /\ SameBindings(u, q) /\ Keeping(q) = Keeping(u)
  BY <1>1, <1>2, <1>3, StartHeartbeatKeeps
<1> QED BY <1>2, <1>4 DEF SameBindings, SameLink

\* A proxy whose fence is lifted lets go of nothing.
LEMMA Unfenced ==
  ASSUME NEW p, NEW over, NEW k, Ready(p, over, k), NEW q, q = [p EXCEPT !.fence = None]
  PROVE  /\ Ready(q, over, k) /\ q.bound = p.bound /\ q.started = p.started /\ SameLink(p, q)
         /\ Keeping(p) \subseteq Keeping(q)
<1>0. p \in Proxies
  BY DEF Ready
<1>1. q \in Proxies
  BY <1>0 DEF Proxies
<1>2. /\ q.fence = None /\ q.bound = p.bound /\ q.held = p.held /\ q.owned = p.owned
      /\ q.claimable = p.claimable /\ q.stopped = p.stopped /\ q.started = p.started
      /\ q.interval = p.interval /\ q.link = p.link /\ q.closing = p.closing
  BY <1>0 DEF Proxies
<1>3. Claims(q, over) /\ Paused(q, k)
  BY <1>2 DEF Ready, Claims, HoldsOf, Closed, Paused, Open
<1>4. p.claimable \subseteq Sessions /\ None \notin Sessions
  BY <1>0, ProxyAssumption DEF Proxies
<1>5. Keeping(p) \subseteq Keeping(q)
  BY <1>2, <1>4 DEF Keeping
<1> QED BY <1>1, <1>2, <1>3, <1>5 DEF Ready, SameLink

\* bindRememberedSession
LEMMA BindRememberedKeeps ==
  ASSUME NEW p, NEW over, NEW k, Keeps(p, over, k), NEW s \in Sessions, NEW selects \in BOOLEAN,
         NEW q, q = BindRemembered(p, s, selects)
  PROVE  /\ Keeps(q, over, k) /\ q.bound \in {p.bound, s} /\ SameLink(p, q)
         /\ Keeping(p) \subseteq Keeping(q)
<1> DEFINE f == [p EXCEPT !.fence = None]
           r == IF selects /\ s # p.fence /\ s \in p.owned THEN f ELSE p
<1>1. Ready(p, over, k)
  BY KeepsReady
<1>2. Ready(f, over, k) /\ SameLink(p, f) /\ Keeping(p) \subseteq Keeping(f)
  BY <1>1, Unfenced
<1>3. q = p \/ q = StartHeartbeat(UpdateBound(r, s))
  BY DEF BindRemembered
<1> HIDE DEF f
<1>4. Ready(r, over, k) /\ SameLink(p, r) /\ Keeping(p) \subseteq Keeping(r)
  BY <1>1, <1>2 DEF SameLink
<1> HIDE DEF r
<1>5. CASE q = p
  BY <1>5 DEF SameLink
<1>6. CASE q = StartHeartbeat(UpdateBound(r, s))
  <2>1. Keeps(q, over, k) /\ q.bound = s /\ SameLink(r, q) /\ Keeping(r) \subseteq Keeping(q)
    BY <1>4, <1>6, BindKeeps
  <2> QED BY <1>4, <2>1 DEF SameLink
<1> QED BY <1>3, <1>5, <1>6

\* what an answer about session s makes of the proxy p
Answer(p, q, c, s) ==
  \/ \E selects \in BOOLEAN : q = Remember(p, c, s, selects)
  \/ \E echoed \in BOOLEAN : q = RememberError(p, c, s, echoed)
  \/ q = RememberFailure(p, c, s)

\* rememberSessionUuid, bindForwardedSessionOnErrorResult and
\* refreshReplayLeaseAfterAdmittedFailure: an answer binds nothing new but the session it is
\* about, and that one only if the ledger knows of no release since the call was forwarded.
LEMMA RememberKeeps ==
  ASSUME NEW p, NEW over, NEW k, Keeps(p, over, k), over \subseteq Sessions,
         NEW c \in Calls, NEW s \in Sessions \cup {None}, s # None /\ ReleasedSince(s, c) => s \in over,
         NEW q, Answer(p, q, c, s)
  PROVE  /\ Keeps(q, over, k) /\ SameLink(p, q) /\ Keeping(p) \subseteq Keeping(q)
         /\ q.bound \in {p.bound, None} \/ (q.bound = s /\ ~ReleasedSince(s, c))
<1>1. CASE s = None
  BY <1>1 DEF Answer, Remember, RememberError, RememberFailure, SameLink
<1>2. CASE s # None /\ ReleasedSince(s, c)
  <2>1. q = FenceForwarded(p, s)
    BY <1>2 DEF Answer, Remember, RememberError, RememberFailure
  <2> QED BY <1>2, <2>1, FenceForwardedKeeps
<1>3. CASE s # None /\ ~ReleasedSince(s, c)
  <2>1. \/ \E selects \in BOOLEAN : q = BindRemembered(p, s, selects)
        \/ q = p
        \/ q = StartHeartbeat(UpdateBound(p, s))
    BY <1>3 DEF Answer, Remember, RememberError, RememberFailure
  <2>2. CASE q = p
    BY <2>2 DEF SameLink
  <2>3. CASE q = StartHeartbeat(UpdateBound(p, s))
    BY <1>3, <2>3, KeepsReady, BindKeeps
  <2>4. CASE \E selects \in BOOLEAN : q = BindRemembered(p, s, selects)
    <3>1. PICK selects \in BOOLEAN : q = BindRemembered(p, s, selects)
      BY <2>4
    <3>2. /\ Keeps(q, over, k) /\ q.bound \in {p.bound, s} /\ SameLink(p, q)
          /\ Keeping(p) \subseteq Keeping(q)
      BY <1>3, <3>1, BindRememberedKeeps
    <3> QED BY <1>3, <3>2
  <2> QED BY <2>1, <2>2, <2>3, <2>4
<1> QED BY <1>1, <1>2, <1>3

\* noteSessionRestoredByCall: an open proxy heartbeats the session again if it claims it.
LEMMA RestoredKeeps ==
  ASSUME NEW p, NEW over, NEW k, Keeps(p, over, k), NEW s, NEW q, q = Restored(p, s)
  PROVE  /\ Keeps(q, over, k) /\ q.bound = p.bound /\ SameLink(p, q)
         /\ Open(p) => Keeping(p) \subseteq Keeping(q)
<1> DEFINE held == IF s \in {p.bound, p.fence} \/ s \notin p.claimable THEN {} ELSE {s}
           r == [p EXCEPT !.stopped = p.stopped \ {s}]
           m == [r EXCEPT !.held = r.held \cup held]
<1>0. p \in Proxies /\ Claims(p, over) /\ Kept(p, k)
  BY DEF Keeps
<1>1. q = IF s \notin p.stopped THEN p ELSE IF Open(p) THEN Sync(m) ELSE r
  BY DEF Restored
<1>2. held \subseteq p.claimable \ {p.bound} /\ (s \in Keeping(p) => s \in held \cup {p.bound})
      /\ held \subseteq {s}
  BY DEF Keeping
<1> HIDE DEF held
<1>3. r \in Proxies
  BY <1>0 DEF Proxies
<1>4. /\ r.bound = p.bound /\ r.fence = p.fence /\ r.owned = p.owned /\ r.claimable = p.claimable
      /\ r.held = p.held /\ r.stopped = p.stopped \ {s} /\ r.started = p.started
      /\ r.interval = p.interval /\ r.link = p.link /\ r.closing = p.closing
  BY <1>0 DEF Proxies
<1> HIDE DEF r
<1>5. m \in Proxies
  BY <1>2, <1>3, <1>4 DEF Proxies
<1>6. /\ m.bound = p.bound /\ m.fence = p.fence /\ m.owned = p.owned /\ m.claimable = p.claimable
      /\ m.held = p.held \cup held /\ m.stopped = p.stopped \ {s} /\ m.started = p.started
      /\ m.interval = p.interval /\ m.link = p.link /\ m.closing = p.closing
  BY <1>3, <1>4 DEF Proxies
<1> HIDE DEF m
<1>7. CASE s \notin p.stopped
  BY <1>1, <1>7 DEF SameLink
<1>8. CASE s \in p.stopped /\ ~Open(p)
  <2>1. Claims(r, over) /\ ~Open(r) /\ q = r
    BY <1>0, <1>1, <1>4, <1>8 DEF Claims, HoldsOf, Closed, Open
  <2>2. Kept(r, k)
    BY <2>1 DEF Kept, Paused, Serving
  <2> QED BY <1>3, <1>4, <1>8, <2>1, <2>2 DEF Keeps, SameLink
<1>9. CASE s \in p.stopped /\ Open(p)
  <2>1. Ready(m, over, k)
    BY <1>0, <1>2, <1>5, <1>6 DEF Ready, Claims, HoldsOf, Closed, Kept, Paused, Open
  <2>2. q = Sync(m)
    BY <1>1, <1>9
  <2>3. Keeps(q, over, k) /\ SameBindings(m, q) /\ Keeping(q) = Keeping(m)
    BY <2>1, <2>2, SyncKeeps
  <2>4. Keeping(p) \subseteq Keeping(m)
    BY <1>2, <1>6 DEF Keeping
  <2> QED BY <1>6, <2>3, <2>4 DEF SameBindings, SameLink
<1> QED BY <1>7, <1>8, <1>9

\* bindResultMintedDeviceSession: the minted session is bound and claimed.
LEMMA PublishKeeps ==
  ASSUME NEW p, NEW over, NEW k, Ready(p, over, k), NEW s \in Sessions \ over,
         NEW q, q = Publish(p, s)
  PROVE  /\ Ready(q, over, k) /\ q.bound = s /\ q.started = p.started /\ SameLink(p, q)
         /\ Keeping(p) \subseteq Keeping(q)
<1> DEFINE f == [p EXCEPT !.fence = None]
           h == HoldPrevious(f, s)
           u == [h EXCEPT !.bound = s, !.owned = @ \cup {s}]
<1>1. /\ Ready(f, over, k) /\ f.bound = p.bound /\ f.started = p.started /\ SameLink(p, f)
      /\ Keeping(p) \subseteq Keeping(f)
  BY Unfenced
<1>2. q = [u EXCEPT !.claimable = @ \cup {s}]
  BY DEF Publish
<1> HIDE DEF f
<1>3. /\ h \in Proxies
      /\ h.bound = f.bound /\ h.fence = f.fence /\ h.owned = f.owned /\ h.claimable = f.claimable
      /\ h.started = f.started /\ h.interval = f.interval /\ SameLink(f, h)
      /\ h.held = (f.held \ {s}) \cup Left(f, s) /\ h.stopped = f.stopped \ Left(f, s)
  <2>1. h = HoldPrevious(f, s) /\ f \in Proxies
    BY <1>1 DEF Ready
  <2> HIDE DEF h
  <2> QED BY <2>1, HoldPreviousFields
<1> HIDE DEF h
<1>4. h \in Proxies
  BY <1>3
<1>5. u \in Proxies
  BY <1>4 DEF Proxies
<1>6. /\ u.bound = s /\ u.fence = h.fence /\ u.held = h.held /\ u.owned = h.owned \cup {s}
      /\ u.claimable = h.claimable /\ u.stopped = h.stopped /\ u.started = h.started
      /\ u.interval = h.interval /\ SameLink(h, u)
  BY <1>4 DEF Proxies, SameLink
<1> HIDE DEF u
<1>7. q \in Proxies
  BY <1>2, <1>5 DEF Proxies
<1>8. /\ q.bound = u.bound /\ q.fence = u.fence /\ q.held = u.held /\ q.owned = u.owned
      /\ q.claimable = u.claimable \cup {s} /\ q.stopped = u.stopped /\ q.started = u.started
      /\ q.interval = u.interval /\ SameLink(u, q)
  BY <1>2, <1>5 DEF Proxies, SameLink
<1>9. Claims(q, over) /\ Paused(q, k)
  BY <1>1, <1>3, <1>6, <1>8 DEF Ready, Claims, HoldsOf, Closed, Left, Paused, Open, SameLink
<1>10. Keeping(f) \subseteq Keeping(q)
  BY <1>3, <1>6, <1>8 DEF Keeping, Left
<1> QED BY <1>1, <1>3, <1>6, <1>7, <1>8, <1>9, <1>10 DEF Ready, SameLink

\* establishBoundSessionHeartbeat without a first heartbeat of its own
LEMMA EstablishedKeeps ==
  ASSUME NEW p, NEW over, NEW k, Ready(p, over, k), NEW q, q = Established(p)
  PROVE  /\ Keeps(q, over, k) /\ SameBindings(p, q) /\ Keeping(q) = Keeping(p)
         /\ Open(q) /\ Live(q) /\ None \in {q.fence, q.bound} =>
              /\ HasTargets(q) => q.started
              /\ q.started => HasTargets(q) \/ q.bound \notin q.claimable \cup {None}
<1>1. CASE q = Sync(p)
  BY <1>1, SyncKeeps
<1>2. CASE q = StartHeartbeat(p) /\ p.bound # None /\ p.fence = None
  <2>1. /\ Keeps(q, over, k) /\ SameBindings(p, q) /\ Keeping(q) = Keeping(p)
        /\ Open(q) /\ Live(q) /\ q.fence = None /\ HasTargets(q) => q.started
        /\ Open(q) /\ Live(q) /\ q.fence = None /\ q.started
             => HasTargets(q) \/ q.bound \notin q.claimable \cup {None}
    BY <1>2, StartHeartbeatKeeps
  <2>2. q.fence = None
    BY <1>2, <2>1 DEF SameBindings
  <2> QED BY <2>1, <2>2
<1> QED BY <1>1, <1>2 DEF Established

\* the proxy without a claim to s
Disowned(p, s) == [p EXCEPT !.owned = @ \ {s}, !.claimable = @ \ {s}, !.stopped = @ \ {s}]

\* the proxy after the release of s was notified
Notified(p, s) ==
  LET d == DropHeld(Disowned(p, s), s, FALSE) IN IF s \in {d.bound, d.fence} THEN Fence(d, s) ELSE d

\* handleSessionReleasedNotification: the released session is no longer claimed, held or
\* bound, and no other one is let go.
LEMMA ReleasedKeeps ==
  ASSUME NEW p, NEW over, NEW k, Keeps(p, over, k), NEW s \in Sessions,
         NEW q, q = Notified(p, s)
  PROVE  /\ Keeps(q, over \cup {s}, k) /\ q.bound \in {p.bound, None}
         /\ Keeping(p) \ {s} \subseteq Keeping(q)
<1> DEFINE r == Disowned(p, s)
           d == DropHeld(r, s, FALSE)
           all == over \cup {s}
           o == [p EXCEPT !.owned = @ \ {s}, !.claimable = @ \ {s}]
<1>0. /\ p \in Proxies /\ Claims(p, over) /\ Kept(p, k)
      /\ q = IF s \in {d.bound, d.fence} THEN Fence(d, s) ELSE d
  BY DEF Keeps, Notified
<1> HIDE DEF d
<1>1. o \in Proxies
  BY <1>0 DEF Proxies
<1>2. /\ o.bound = p.bound /\ o.fence = p.fence /\ o.held = p.held
      /\ o.claimable = p.claimable \ {s} /\ o.stopped = p.stopped /\ o.started = p.started
      /\ o.interval = p.interval /\ SameLink(p, o)
  BY <1>0 DEF Proxies, SameLink
<1>3. r = [o EXCEPT !.stopped = @ \ {s}]
  BY DEF Disowned
<1> HIDE DEF r, o
<1>4. r \in Proxies
  BY <1>1, <1>3 DEF Proxies
<1>5. /\ r.bound = o.bound /\ r.fence = o.fence /\ r.held = o.held /\ r.claimable = o.claimable
      /\ r.stopped = o.stopped \ {s} /\ r.started = o.started /\ r.interval = o.interval
      /\ SameLink(o, r)
  BY <1>1, <1>3 DEF Proxies, SameLink
<1>6. /\ HoldsOf(r, r.held \ {s}) /\ r.claimable \cap all = {}
      /\ Closed(r)
      /\ Keeping(p) \ {s} \subseteq Keeping(r)
  BY <1>0, <1>2, <1>5 DEF Claims, HoldsOf, Closed, SameLink, Keeping
<1>7. Kept(r, k)
  <2>1. /\ Paused(r, k)
        /\ Serving(r) <=> Serving(p)
    BY <1>0, <1>2, <1>5 DEF Kept, Paused, Open, Serving, SameLink
  <2>2. HasTargets(r) => HasTargets(p)
    BY <1>2, <1>5 DEF HasTargets, Heartbeatable, Claimable
  <2>3. HasTargets(p) => HasTargets(r) \/ r.bound \notin r.claimable \cup {None}
    <3>1. p.bound \in Sessions => p.bound # None
      BY ProxyAssumption
    <3>2. p.claimable \subseteq Sessions
      BY <1>0 DEF Proxies
    <3> QED BY <1>2, <1>5, <3>1, <3>2 DEF HasTargets, Heartbeatable, Claimable
  <2> QED BY <1>0, <1>2, <1>5, <2>1, <2>2, <2>3 DEF Kept
<1> HIDE DEF all
<1>8. /\ Keeps(d, all, k) /\ s \notin d.held /\ Keeping(r) \ {s} \subseteq Keeping(d)
      /\ d.bound = r.bound /\ d.fence = r.fence /\ d.claimable = r.claimable /\ SameLink(r, d)
  <2>1. d = DropHeld(r, s, FALSE)
    BY DEF d
  <2>2. r \in Proxies /\ HoldsOf(r, r.held \ {s}) /\ r.claimable \cap all = {} /\ Closed(r) /\ Kept(r, k)
    BY <1>4, <1>6, <1>7
  <2>3. FALSE \in BOOLEAN
    OBVIOUS
  <2>4. \A x : x = DropHeld(r, s, FALSE) =>
          /\ Keeps(x, all, k) /\ s \notin x.held /\ Keeping(r) \ {s} \subseteq Keeping(x)
          /\ x.bound = r.bound /\ x.fence = r.fence /\ x.claimable = r.claimable /\ SameLink(r, x)
    BY <2>2, <2>3, DropHeldKeeps, ZenonT(60)
  <2> QED BY <2>1, <2>4
<1>9. CASE s \in {d.bound, d.fence}
  <2>1. d.bound \in {None, s} \/ d.fence # None
    BY <1>9, ProxyAssumption
  <2>2. q = Fence(d, s)
    BY <1>0, <1>9
  <2>3. /\ Keeps(q, all, k) /\ q.bound \in {d.bound, None} /\ SameLink(d, q)
        /\ Keeping(d) \ {s} \subseteq Keeping(q)
    BY <1>8, <2>1, <2>2, FenceKeeps, ZenonT(60)
  <2> QED BY <1>2, <1>5, <1>6, <1>8, <2>3 DEF all
<1>10. CASE s \notin {d.bound, d.fence}
  <2>1. q = d
    BY <1>0, <1>10
  <2> QED BY <1>2, <1>5, <1>6, <1>8, <2>1 DEF all
<1> QED BY <1>9, <1>10

\* The proxy lets go of s alone.
LEMMA LeaveKeeps ==
  ASSUME NEW p, NEW over, NEW k, Keeps(p, over, k), NEW s \in Sessions, NEW q, q = Leave(p, s)
  PROVE  /\ Keeps(q, over, k) /\ q.bound \in {p.bound, None}
         /\ Keeping(p) \ {s} \subseteq Keeping(q)
<1>1. CASE LatestIs(p, s)
  BY <1>1, FenceKeeps DEF LatestIs, Leave
<1>2. CASE ~LatestIs(p, s)
  <2>1. q = DropHeld(p, s, FALSE)
    BY <1>2 DEF Leave
  <2>2. /\ p \in Proxies /\ HoldsOf(p, p.held \ {s}) /\ p.claimable \cap over = {}
        /\ Closed(p) /\ Kept(p, k)
    BY DEF Keeps, Claims, HoldsOf, Closed
  <2>3. /\ Keeps(q, over, k) /\ s \notin q.held /\ Keeping(p) \ {s} \subseteq Keeping(q)
        /\ q.bound = p.bound /\ q.fence = p.fence /\ q.claimable = p.claimable /\ SameLink(p, q)
    BY <2>1, <2>2, DropHeldKeeps
  <2> QED BY <2>3
<1> QED BY <1>1, <1>2

\* A session that is not known is stopped, and is no longer held.
LEMMA UnknownKeeps ==
  ASSUME NEW p, NEW over, NEW k, Keeps(p, over, k), NEW s \in Sessions, NEW q, q = Unknown(p, s)
  PROVE  /\ Keeps(q, over, k) /\ q.bound = p.bound
         /\ Keeping(p) \ {s} \subseteq Keeping(q)
<1> DEFINE d == DropHeld(p, s, TRUE)
           r == [d EXCEPT !.stopped = d.stopped \cup {s}]
<1>1. /\ Keeps(d, over, k) /\ s \notin d.held /\ Keeping(p) \ {s} \subseteq Keeping(d)
      /\ d.bound = p.bound /\ d.fence = p.fence /\ d.claimable = p.claimable /\ SameLink(p, d)
  <2>1. /\ p \in Proxies /\ HoldsOf(p, p.held \ {s}) /\ p.claimable \cap over = {}
        /\ Closed(p) /\ Kept(p, k)
    BY DEF Keeps, Claims, HoldsOf, Closed
  <2> QED BY <2>1, DropHeldKeeps
<1>2. q = Sync(r)
  BY DEF Unknown
<1> HIDE DEF d
<1>3. d \in Proxies
  BY <1>1 DEF Keeps
<1>4. r \in Proxies
  BY <1>3 DEF Proxies
<1>5. /\ r.bound = d.bound /\ r.fence = d.fence /\ r.held = d.held /\ r.claimable = d.claimable
      /\ r.stopped = d.stopped \cup {s} /\ r.started = d.started /\ r.interval = d.interval
      /\ SameLink(d, r)
  BY <1>3 DEF Proxies, SameLink
<1> HIDE DEF r
<1>6. Ready(r, over, k) /\ Keeping(d) \subseteq Keeping(r)
  BY <1>1, <1>4, <1>5
     DEF Keeps, Kept, Ready, Claims, HoldsOf, Closed, Paused, Open, SameLink, Keeping
<1>7. Keeps(q, over, k) /\ SameBindings(r, q) /\ Keeping(q) = Keeping(r)
  BY <1>2, <1>6, SyncKeeps
<1> QED BY <1>1, <1>5, <1>6, <1>7 DEF SameBindings

-----------------------------------------------------------------------------
(* The steps of a call. *)

\* a step of a call binds no session that the call saw released
Fresh ==
  \A c \in Calls, s \in Sessions :
     call'[c] # call[c] /\ proxy'.bound = s /\ proxy.bound # s => s \notin call[c].seen

\* A call that is not under way is a call state.
LEMMA IdleTyped == Idle \in CallStates
<1>1. 0 \in Epochs
  BY ProxyAssumption DEF Epochs
<1> QED BY <1>1 DEF Idle, CallStates

\* The ledger's answer about a session a call may bind: released exactly if the call saw it.
LEMMA AskLedger ==
  ASSUME IInv, NEW c \in Calls, NEW s \in Sessions, Watching(call, c, s)
  PROVE  /\ ReleasedSince(s, c) <=> s \in call[c].seen
         /\ ReleasedSince(s, c) => s \in ended
BY DEF IInv, LedgerInv, Exact, ReleasedSince, CallsSound

\* The end of a call (the finally of forward): its reference goes, then its acquisition.
LEMMA EndKeepsLedger ==
  ASSUME IInv, NEW c \in Calls, InFlight(call, c), End(c)
  PROVE  LedgerInv(ledger', call') /\ CallsSound'
<1> DEFINE j == [call EXCEPT ![c] = Idle]
           t == [call EXCEPT ![c].task = TRUE]
           n == call[c].named
<1>1. LedgerInv(ledger, call) /\ call \in [Calls -> CallStates]
  BY DEF IInv, LedgerInv
<1>2. /\ j \in [Calls -> CallStates] /\ ~InFlight(j, c) /\ \A d \in Calls \ {c} : j[d] = call[d]
      /\ \A d \in Calls \ {c} : t[d] = call[d] /\ j[d] = t[d]
  BY <1>1, IdleTyped DEF Idle, InFlight
<1>3. t \in [Calls -> CallStates] /\ t[c] = [call[c] EXCEPT !.task = TRUE] /\ call[c] \in CallStates
  BY <1>1, ZenonT(60) DEF CallStates
<1>4. /\ t[c].task /\ t[c].at = call[c].at /\ t[c].seen = call[c].seen /\ t[c].named = n
      /\ t[c].kind = call[c].kind /\ t[c].pc = call[c].pc
  BY <1>3 DEF CallStates
<1>5. n \in Sessions \cup {None} /\ None \notin Sessions
  BY <1>1, ProxyAssumption DEF CallStates
<1>6. call' = j /\ ended' = ended /\ ledger' = Ended(c)
  BY DEF End
<1> HIDE DEF j, t, n
<1>7. LedgerInv(ledger', call')
  <2>1. CASE ~Learns(c)
    <3>1. ~Learning(call, c) /\ ~call[c].task
      BY <1>1, <2>1 DEF Learns, Learning, LedgerInv, Past
    <3>2. CASE n = None
      <4>1. ledger' = ledger
        BY <1>6, <2>1, <3>2 DEF Ended, n
      <4>2. \A d \in Calls :
              /\ \A s \in Sessions : Naming(j, d, s) <=> Naming(call, d, s)
              /\ Learning(j, d) <=> Learning(call, d)
              /\ InFlight(j, d) =>
                   /\ InFlight(call, d) /\ j[d].at = call[d].at /\ j[d].seen = call[d].seen
                   /\ j[d].task => Learning(j, d)
                   /\ \A s \in Sessions : Watching(j, d, s) => Watching(call, d, s)
        BY <1>1, <1>2, <1>5, <3>1, <3>2
           DEF Naming, Learning, InFlight, Watching, LedgerInv, Past, n
      <4>3. LedgerInv(ledger, j)
        BY <1>1, <1>2, <4>2, SameForLedger
      <4> QED BY <1>6, <4>1, <4>3
    <3>3. CASE n # None
      <4>1. ledger' = DropReference(ledger, n)
        BY <1>6, <2>1, <3>1, <3>3 DEF Ended, n
      <4>2. Naming(call, c, n) /\ n \in Sessions
        BY <1>5, <3>1, <3>3 DEF Naming, n
      <4>3. LedgerInv(DropReference(ledger, n), j)
        BY <1>1, <1>2, <3>1, <4>2, ReferenceDropped
      <4> QED BY <1>6, <4>1, <4>3
    <3> QED BY <3>2, <3>3
  <2>2. CASE Learns(c) /\ (call[c].task \/ n = None)
    <3>1. ledger' = DropAcquisition(ledger, call[c].at)
      BY <1>6, <2>2 DEF Ended, n
    <3>2. Learning(call, c) /\ \A s \in Sessions : ~Naming(call, c, s)
      BY <1>5, <2>2 DEF Learns, Learning, Naming, n
    <3>3. LedgerInv(DropAcquisition(ledger, call[c].at), j)
      BY <1>1, <1>2, <3>2, AcquisitionDropped
    <3> QED BY <1>6, <3>1, <3>3
  <2>3. CASE Learns(c) /\ ~call[c].task /\ n # None
    <3> DEFINE l == DropReference(ledger, n)
    <3>1. ledger' = DropAcquisition(l, t[c].at)
      BY <1>4, <1>6, <2>3 DEF Ended, n
    <3>2. Naming(call, c, n) /\ n \in Sessions /\ Learning(call, c) /\ Learning(t, c)
      BY <1>4, <1>5, <2>3 DEF Naming, Learns, Learning, InFlight, n
    <3>3. LedgerInv(l, t)
      BY <1>1, <1>2, <1>3, <1>4, <3>2, ReferenceDropped, ZenonT(60)
    <3> HIDE DEF l
    <3>4. \A s \in Sessions : ~Naming(t, c, s)
      BY <1>4 DEF Naming
    <3>5. LedgerInv(DropAcquisition(l, t[c].at), j)
      BY <1>2, <3>2, <3>3, <3>4, AcquisitionDropped
    <3> QED BY <1>6, <3>1, <3>5
  <2> QED BY <2>1, <2>2, <2>3
<1>8. CallsSound'
  <2>1. \A d \in Calls : j[d] = Idle \/ j[d] = call[d]
    BY <1>1 DEF j
  <2> QED BY <1>6, <2>1 DEF IInv, CallsSound, Idle
<1> QED BY <1>7, <1>8

\* A call that ends leaves the pauses of the others alone.
LEMMA OthersPause ==
  ASSUME call \in [Calls -> CallStates], NEW c \in Calls, NEW x,
         call' = [call EXCEPT ![c] = x]
  PROVE  /\ call[c].pc # "stopping" /\ Stopping(call) => Stopping(call')
         /\ call[c].pc # "establishing" /\ Establishing(call) => Establishing(call')
BY DEF Stopping, Establishing

\* A step keeps the invariant and binds nothing stale, and no session is let go unless it
\* ended, was answered not-found or was retired.
StepSound == IInv' /\ Fresh /\ OwnOutcome

\* A call ends with a sound proxy that is bound to nothing the call saw released.
LEMMA EndKeeps ==
  ASSUME IInv, NEW c \in Calls, InFlight(call, c), End(c),
         Keeps(proxy', ended, call'),
         proxy'.bound \in {proxy.bound, None} \/ proxy'.bound \notin call[c].seen,
         Open(proxy) => Keeping(proxy) \subseteq Keeping(proxy')
  PROVE  StepSound
<1>1. LedgerInv(ledger', call') /\ CallsSound'
  BY EndKeepsLedger
<1>2. ended' = ended
  BY DEF End
<1>3. \A d \in Calls \ {c} : call'[d] = call[d]
  BY DEF End, IInv, LedgerInv
<1>4. Fresh
  BY <1>3, ProxyAssumption DEF Fresh
<1>5. IInv'
  BY <1>1, <1>2 DEF IInv
<1> QED BY <1>4, <1>5 DEF StepSound, OwnOutcome

\* An answered call ends: the keeper waits for none of its own.
LEMMA AnswerKeeps ==
  ASSUME IInv, NEW c \in Calls, call[c].pc \in {"waiting", "sent", "task"}, End(c),
         Keeps(proxy', ended, call),
         proxy'.bound \in {proxy.bound, None} \/ proxy'.bound \notin call[c].seen,
         Open(proxy) => Keeping(proxy) \subseteq Keeping(proxy')
  PROVE  StepSound
<1>1. call \in [Calls -> CallStates] /\ call' = [call EXCEPT ![c] = Idle]
  BY DEF IInv, LedgerInv, End
<1>2. (Stopping(call) => Stopping(call')) /\ (Establishing(call) => Establishing(call'))
  BY <1>1, OthersPause
<1>3. Keeps(proxy', ended, call')
  BY <1>2 DEF Keeps, Kept, Paused
<1>4. InFlight(call, c)
  BY DEF InFlight
<1> QED BY <1>3, <1>4, EndKeeps

\* A step of the calls that lets the proxy be.
LEMMA CallsOnly ==
  ASSUME IInv, proxy' = proxy, ended' = ended, LedgerInv(ledger', call'), CallsSound',
         Stopping(call) => Stopping(call'), Establishing(call) => Establishing(call')
  PROVE  StepSound
<1>1. Keeps(proxy', ended, call')
  BY DEF IInv, Keeps, Kept, Paused
<1>2. IInv'
  BY <1>1 DEF IInv
<1> QED BY <1>2 DEF StepSound, Fresh, OwnOutcome

\* A step of the proxy that lets the ledger and the calls be.
LEMMA ProxyOnly ==
  ASSUME IInv, UNCHANGED <<ledger, call, ended>>, Keeps(proxy', ended, call), OwnOutcome
  PROVE  StepSound
<1>1. CallsSound'
  BY DEF IInv, CallsSound
<1>2. IInv'
  BY <1>1 DEF IInv
<1> QED BY <1>2 DEF StepSound, Fresh

\* forward
LEMMA ForwardStep ==
  ASSUME IInv, NEW c \in Calls, Forward(c)
  PROVE  StepSound
<1> DEFINE R(s) == IF s = None THEN ledger.refs ELSE [ledger.refs EXCEPT ![s] = @ + 1]
           A(k) == IF k = "use" THEN ledger.acq ELSE [ledger.acq EXCEPT ![ledger.epoch] = @ + 1]
           new(k, s) ==
             [Idle EXCEPT !.pc = "sent", !.kind = k, !.named = s, !.at = ledger.epoch, !.sends = 1]
           Sends(k, s) == /\ call' = [call EXCEPT ![c] = new(k, s)]
                          /\ ledger' = [ledger EXCEPT !.refs = R(s), !.acq = A(k)]
<1>0. PICK kind \in Kinds : \E s \in Routes(kind) : Sends(kind, s)
  BY DEF Forward
<1>1. PICK s \in Routes(kind) : Sends(kind, s)
  BY <1>0
<1>2. proxy' = proxy /\ ended' = ended /\ ~InFlight(call, c)
  BY DEF Forward, InFlight
<1>3. /\ ledger \in CountedLedgers /\ call \in [Calls -> CallStates] /\ ledger.epoch \in Epochs
      /\ LedgerInv(ledger, call) /\ None \notin Sessions /\ kind \in {"use", "acquire", "select"}
      /\ proxy \in Proxies
  BY ProxyAssumption DEF IInv, Keeps, LedgerInv, CountedLedgers
<1>4. s \in Sessions \cup {None}
  <2>1. proxy.owned \subseteq Sessions /\ proxy.bound \in Sessions \cup {None}
    BY <1>3 DEF Proxies
  <2>2. CASE kind = "acquire"
    BY <2>2 DEF Routes
  <2>3. CASE kind = "use"
    BY <2>1, <2>3 DEF Routes
  <2>4. CASE kind = "select"
    BY <2>1, <2>4 DEF Routes
  <2> QED BY <1>3, <2>2, <2>3, <2>4
<1> DEFINE x == new(kind, s)
<1>5. /\ x \in CallStates
      /\ x.pc = "sent" /\ x.kind = kind /\ x.named = s /\ x.at = ledger.epoch /\ ~x.task /\ x.seen = {}
  <2> DEFINE y == [Idle EXCEPT !.pc = "sent", !.kind = kind]
             z == [y EXCEPT !.named = s, !.at = ledger.epoch]
  <2>1. /\ y \in CallStates /\ y.pc = "sent" /\ y.kind = kind /\ y.task = FALSE /\ y.seen = {}
    BY IdleTyped DEF CallStates, Idle
  <2>2. x = [z EXCEPT !.sends = 1]
    OBVIOUS
  <2> HIDE DEF y
  <2>3. z \in CallStates
    BY <1>3, <1>4, <2>1 DEF CallStates
  <2>4. /\ z.named = s /\ z.at = ledger.epoch /\ z.pc = y.pc /\ z.kind = y.kind /\ z.task = y.task
        /\ z.seen = y.seen
    BY <1>3, <1>4, <2>1 DEF CallStates
  <2> HIDE DEF z, x
  <2>5. x \in CallStates
    BY <2>2, <2>3 DEF CallStates
  <2>6. /\ x.named = z.named /\ x.at = z.at /\ x.pc = z.pc /\ x.kind = z.kind /\ x.task = z.task
        /\ x.seen = z.seen
    BY <2>2, <2>3 DEF CallStates
  <2> QED BY <2>1, <2>4, <2>5, <2>6
<1>7. R(s) \in [Sessions -> Nat] /\ A(kind) \in [Epochs -> Nat]
  BY <1>3, <1>4 DEF CountedLedgers
<1>8. /\ \A t \in Sessions : R(s)[t] = IF t = s THEN ledger.refs[t] + 1 ELSE ledger.refs[t]
      /\ \A e \in Epochs : A(kind)[e] = IF kind \in {"acquire", "select"} /\ e = ledger.epoch
                                        THEN ledger.acq[e] + 1 ELSE ledger.acq[e]
  BY <1>3, <1>4 DEF CountedLedgers
<1>9. call' = [call EXCEPT ![c] = x] /\ ledger' = [ledger EXCEPT !.refs = R(s), !.acq = A(kind)]
  BY <1>1
<1> HIDE DEF x, R, A
<1>10. /\ ledger' \in CountedLedgers /\ ledger'.epoch = ledger.epoch /\ ledger'.released = ledger.released
       /\ ledger'.refs = R(s) /\ ledger'.acq = A(kind)
  BY <1>3, <1>7, <1>9 DEF CountedLedgers
<1>11. /\ call' \in [Calls -> CallStates] /\ call'[c] = x /\ \A d \in Calls \ {c} : call'[d] = call[d]
  BY <1>3, <1>5, <1>9
<1>12. /\ InFlight(call', c) /\ ~call'[c].task /\ call'[c].at = ledger.epoch /\ call'[c].seen = {}
       /\ call'[c].named = s /\ (Learning(call', c) <=> kind \in {"acquire", "select"})
  BY <1>5, <1>11 DEF InFlight, Learning
<1>13. LedgerInv(ledger', call')
  <2>1. /\ \A t \in Sessions : ledger'.refs[t] =
             IF t = call'[c].named THEN ledger.refs[t] + 1 ELSE ledger.refs[t]
        /\ \A e \in Epochs : ledger'.acq[e] =
             IF Learning(call', c) /\ e = ledger.epoch THEN ledger.acq[e] + 1 ELSE ledger.acq[e]
    BY <1>8, <1>10, <1>12
  <2> QED BY <1>2, <1>3, <1>10, <1>11, <1>12, <2>1, CallCounted
<1>14. CallsSound'
  BY <1>2, <1>5, <1>11 DEF CallsSound, IInv
<1>15. (Stopping(call) => Stopping(call')) /\ (Establishing(call) => Establishing(call'))
  <2>1. call[c].pc = "idle"
    BY DEF Forward
  <2> QED BY <1>3, <1>9, <2>1, OthersPause
<1> QED BY <1>2, <1>13, <1>14, <1>15, CallsOnly

\* A call in flight changes in nothing the ledger looks at.
LEMMA StaysCounted ==
  ASSUME IInv, NEW c \in Calls, InFlight(call, c), ledger' = ledger,
         NEW x \in CallStates, call' = [call EXCEPT ![c] = x],
         x.pc # "idle", x.kind = call[c].kind, x.named = call[c].named, x.at = call[c].at,
         x.task = call[c].task, x.seen = call[c].seen
  PROVE  LedgerInv(ledger', call')
<1>1. LedgerInv(ledger, call) /\ call \in [Calls -> CallStates]
  BY DEF IInv, LedgerInv
<1>2. call' \in [Calls -> CallStates] /\ call'[c] = x /\ \A d \in Calls \ {c} : call'[d] = call[d]
  BY <1>1
<1>3. \A d \in Calls :
        /\ \A s \in Sessions : Naming(call', d, s) <=> Naming(call, d, s)
        /\ Learning(call', d) <=> Learning(call, d)
        /\ InFlight(call', d) =>
             /\ InFlight(call, d) /\ call'[d].at = call[d].at /\ call'[d].seen = call[d].seen
             /\ call'[d].task => Learning(call', d)
             /\ \A s \in Sessions : Watching(call', d, s) => Watching(call, d, s)
  BY <1>1, <1>2 DEF Naming, Learning, InFlight, Watching, LedgerInv, Past
<1>4. LedgerInv(ledger, call')
  BY <1>1, <1>2, <1>3, SameForLedger
<1> QED BY <1>4

MovedTo(x, pc, n) == [x EXCEPT !.pc = pc, !.sends = n]

\* A call moves on, and its sends are counted anew.
LEMMA Moved ==
  ASSUME NEW x \in CallStates, NEW pc \in {"sent", "task"}, NEW n \in 0..2,
         NEW y, y = MovedTo(x, pc, n)
  PROVE  /\ y \in CallStates /\ y.pc = pc /\ y.kind = x.kind /\ y.named = x.named
         /\ y.at = x.at /\ y.task = x.task /\ y.seen = x.seen
<1> DEFINE z == [x EXCEPT !.pc = pc]
<1>1. z \in CallStates
  BY DEF CallStates
<1>2. /\ z.pc = pc /\ z.kind = x.kind /\ z.named = x.named /\ z.at = x.at /\ z.task = x.task
      /\ z.seen = x.seen
  BY DEF CallStates
<1>3. y = [z EXCEPT !.sends = n]
  BY DEF MovedTo
<1> HIDE DEF z
<1>4. y \in CallStates
  BY <1>1, <1>3 DEF CallStates
<1>5. /\ y.pc = z.pc /\ y.kind = z.kind /\ y.named = z.named /\ y.at = z.at /\ y.task = z.task
      /\ y.seen = z.seen
  BY <1>1, <1>3 DEF CallStates
<1> QED BY <1>2, <1>4, <1>5

\* withRecoverableReconnect
LEMMA ResendStep ==
  ASSUME IInv, NEW c \in Calls, Resend(c)
  PROVE  StepSound
<1> DEFINE s == call[c].named
<1>1. /\ call[c].pc = "waiting" /\ InFlight(call, c) /\ call \in [Calls -> CallStates]
      /\ call[c] \in CallStates /\ s \in Sessions \cup {None} /\ ~call[c].task
      /\ Keeps(proxy, ended, call) /\ ended \subseteq Sessions
  BY DEF Resend, InFlight, IInv, LedgerInv, CallStates, CallsSound
<1>2. CASE s # None /\ ReleasedSince(s, c)
  <2>1. s \in ended
    BY <1>1, <1>2, AskLedger DEF Watching
  <2>2. proxy' = FenceForwarded(proxy, s) /\ End(c)
    BY <1>2 DEF Resend
  <2> HIDE DEF s
  <2>3. /\ Keeps(proxy', ended, call) /\ proxy'.bound \in {proxy.bound, None} /\ SameLink(proxy, proxy')
        /\ Keeping(proxy) \subseteq Keeping(proxy')
    BY <1>1, <2>1, <2>2, FenceForwardedKeeps
  <2> QED BY <1>1, <2>2, <2>3, AnswerKeeps
<1>3. CASE ~(s # None /\ ReleasedSince(s, c))
  <2> DEFINE x == [call[c] EXCEPT !.pc = "sent", !.sends = 2]
  <2>1. call' = [call EXCEPT ![c] = x] /\ proxy' = proxy /\ ledger' = ledger /\ ended' = ended
    BY <1>1, <1>3 DEF Resend
  <2>2. /\ x \in CallStates /\ x.pc = "sent" /\ x.kind = call[c].kind /\ x.named = call[c].named
        /\ x.at = call[c].at /\ x.task = call[c].task /\ x.seen = call[c].seen
    <3>1. x = MovedTo(call[c], "sent", 2) /\ "sent" \in {"sent", "task"} /\ 2 \in 0..2
      BY DEF MovedTo
    <3>2. call[c] \in CallStates
      BY <1>1
    <3> HIDE DEF x
    <3> QED BY <3>1, <3>2, Moved
  <2> HIDE DEF x
  <2>3. LedgerInv(ledger', call')
    BY <1>1, <2>1, <2>2, StaysCounted
  <2>4. CallsSound'
    BY <1>1, <2>1, <2>2 DEF CallsSound, IInv
  <2>5. (Stopping(call) => Stopping(call')) /\ (Establishing(call) => Establishing(call'))
    BY <1>1, <2>1, OthersPause
  <2> QED BY <2>1, <2>3, <2>4, <2>5, CallsOnly
<1> QED BY <1>2, <1>3

\* ... or the call is given up
LEMMA GiveUpStep ==
  ASSUME IInv, NEW c \in Calls, GiveUp(c)
  PROVE  StepSound
<1>1. call[c].pc = "waiting" /\ End(c) /\ proxy' = proxy
  BY DEF GiveUp
<1>2. Keeps(proxy', ended, call)
  BY <1>1 DEF IInv
<1> QED BY <1>1, <1>2, AnswerKeeps

\* applyForwardedResult, for a call of any kind but an acquisition that mints
LEMMA AnswerStep ==
  ASSUME IInv, NEW c \in Calls, AnswerUse(c) \/ AnswerSelect(c) \/ AnswerNothing(c)
  PROVE  StepSound
<1> DEFINE n == call[c].named
           Sound(q) == /\ Keeps(q, ended, call)
                       /\ q.bound \in {proxy.bound, None} \/ q.bound \notin call[c].seen
                       /\ Open(proxy) => Open(q) /\ Keeping(proxy) \subseteq Keeping(q)
<1>1. /\ call[c].pc \in {"sent", "task"} /\ InFlight(call, c) /\ End(c)
      /\ call[c] \in CallStates /\ n \in Sessions \cup {None}
      /\ Keeps(proxy, ended, call) /\ ended \subseteq Sessions /\ None \notin Sessions
      /\ call[c].seen \subseteq Sessions
  BY ProxyAssumption
     DEF AnswerUse, AnswerSelect, AnswerNothing, Answered, InFlight, IInv, LedgerInv, CallStates
<1>2. Sound(proxy)
  BY <1>1
<1>3. n # None => (ReleasedSince(n, c) <=> n \in call[c].seen) /\ (ReleasedSince(n, c) => n \in ended)
  BY <1>1, AskLedger DEF Watching
<1> HIDE DEF n
<1>4. ASSUME NEW p, Sound(p), NEW q, NEW s \in Sessions \cup {None}, Answer(p, q, c, s),
             s # None => (ReleasedSince(s, c) <=> s \in call[c].seen) /\ (ReleasedSince(s, c) => s \in ended)
      PROVE  Sound(q)
  <2>1. /\ Keeps(q, ended, call) /\ SameLink(p, q) /\ Keeping(p) \subseteq Keeping(q)
        /\ q.bound \in {p.bound, None} \/ (q.bound = s /\ ~ReleasedSince(s, c))
    BY <1>1, <1>4, RememberKeeps
  <2>2. Open(p) => Open(q)
    BY <2>1 DEF SameLink, Open
  <2> QED BY <1>1, <1>4, <2>1, <2>2
<1>5. ASSUME Sound(proxy') PROVE StepSound
  BY <1>1, <1>5, AnswerKeeps
<1>6. CASE AnswerUse(c)
  <2>1. ASSUME NEW echoed \in BOOLEAN PROVE Sound(IF echoed THEN Restored(proxy, n) ELSE proxy)
    <3> DEFINE r == Restored(proxy, n)
    <3>1. /\ Keeps(r, ended, call) /\ r.bound = proxy.bound /\ SameLink(proxy, r)
          /\ Open(proxy) => Keeping(proxy) \subseteq Keeping(r)
      BY <1>1, RestoredKeeps
    <3> HIDE DEF r
    <3>2. Open(proxy) => Open(r)
      BY <3>1 DEF SameLink, Open
    <3>3. Sound(r)
      BY <3>1, <3>2
    <3> HIDE DEF Sound
    <3> QED BY <1>2, <3>3 DEF r
  <2> HIDE DEF Sound
  <2>2. \/ \E echoed \in BOOLEAN :
             LET p == IF echoed THEN Restored(proxy, n) ELSE proxy IN
             proxy' = p \/ Answer(p, proxy', c, n)
        \/ Answer(proxy, proxy', c, n)
    BY <1>6 DEF AnswerUse, Answer, n
  <2>3. Sound(proxy')
    BY <1>1, <1>2, <1>3, <1>4, <2>1, <2>2
  <2> QED BY <1>5, <2>3
<1>7. CASE AnswerSelect(c)
  <2> DEFINE p == Remember(proxy, c, n, FALSE)
  <2>0. Learning(call, c)
    BY <1>1, <1>7 DEF AnswerSelect, Learning
  <2>1. \/ proxy' \in {p, proxy}
        \/ \E s \in IF n = None THEN Sessions ELSE {n} :
             proxy' = IF ReleasedSince(s, c) THEN p ELSE Remember(p, c, s, TRUE)
    BY <1>7 DEF AnswerSelect, n
  <2> HIDE DEF Sound
  <2>2. Sound(p)
    <3>1. Answer(proxy, p, c, n)
      BY DEF Answer
    <3> QED BY <1>1, <1>2, <1>3, <1>4, <3>1
  <2> HIDE DEF p
  <2>3. ASSUME NEW s \in Sessions, proxy' = Remember(p, c, s, TRUE) PROVE Sound(proxy')
    <3>1. (ReleasedSince(s, c) <=> s \in call[c].seen) /\ (ReleasedSince(s, c) => s \in ended)
      BY <2>0, AskLedger DEF Watching
    <3>2. Answer(p, proxy', c, s)
      BY <2>3 DEF Answer
    <3> QED BY <1>4, <2>2, <3>1, <3>2
  <2>4. Sound(proxy')
    BY <1>1, <1>2, <2>1, <2>2, <2>3
  <2> QED BY <1>5, <2>4
<1>8. CASE AnswerNothing(c)
  <2>1. proxy' = proxy
    BY <1>8 DEF AnswerNothing
  <2> QED BY <1>2, <1>5, <2>1
<1> QED BY <1>6, <1>7, <1>8

\* deferredToTask: the call lets go of its reference and goes on learning.
LEMMA DeferStep ==
  ASSUME IInv, NEW c \in Calls, Defer(c)
  PROVE  StepSound
<1> DEFINE n == call[c].named
           x == [call[c] EXCEPT !.pc = "task", !.task = TRUE, !.sends = 0]
<1>1. /\ LedgerInv(ledger, call) /\ call \in [Calls -> CallStates] /\ call[c] \in CallStates
      /\ call[c].pc = "sent" /\ ~call[c].task /\ InFlight(call, c) /\ Learning(call, c)
      /\ n \in Sessions \cup {None} /\ None \notin Sessions /\ proxy' = proxy /\ ended' = ended
  BY ProxyAssumption DEF Defer, InFlight, Learning, Learns, IInv, LedgerInv, CallStates, CallsSound
<1>2. call' = [call EXCEPT ![c] = x]
  BY <1>1 DEF Defer
<1>3. /\ x \in CallStates
      /\ x.pc = "task" /\ x.task /\ x.kind = call[c].kind /\ x.named = n /\ x.at = call[c].at
      /\ x.seen = call[c].seen
  <2> DEFINE y == [call[c] EXCEPT !.pc = "task", !.sends = 0]
  <2>1. /\ y \in CallStates /\ y.pc = "task" /\ y.kind = call[c].kind /\ y.named = call[c].named
        /\ y.at = call[c].at /\ y.task = call[c].task /\ y.seen = call[c].seen
    <3>1. y = MovedTo(call[c], "task", 0) /\ "task" \in {"sent", "task"} /\ 0 \in 0..2
      BY DEF MovedTo
    <3>2. call[c] \in CallStates
      BY <1>1
    <3> HIDE DEF y
    <3> QED BY <3>1, <3>2, Moved
  <2>2. x = [y EXCEPT !.task = TRUE]
    OBVIOUS
  <2> HIDE DEF y, x
  <2>3. x \in CallStates
    BY <2>1, <2>2 DEF CallStates
  <2>4. /\ x.pc = y.pc /\ x.task /\ x.kind = y.kind /\ x.named = y.named /\ x.at = y.at
        /\ x.seen = y.seen
    BY <2>1, <2>2 DEF CallStates
  <2> QED BY <2>1, <2>3, <2>4
<1> HIDE DEF n, x
<1>5. call' \in [Calls -> CallStates] /\ call'[c] = x /\ \A d \in Calls \ {c} : call'[d] = call[d]
  BY <1>1, <1>2, <1>3
<1>6. Learning(call', c) /\ call'[c].task /\ call'[c].at = call[c].at /\ call'[c].seen = call[c].seen
  BY <1>1, <1>3, <1>5 DEF Learning, InFlight
<1>7. LedgerInv(ledger', call')
  <2>1. CASE n = None
    <3>1. ledger' = ledger
      BY <2>1 DEF Defer, n
    <3>2. \A d \in Calls :
            /\ \A s \in Sessions : Naming(call', d, s) <=> Naming(call, d, s)
            /\ Learning(call', d) <=> Learning(call, d)
            /\ InFlight(call', d) =>
                 /\ InFlight(call, d) /\ call'[d].at = call[d].at /\ call'[d].seen = call[d].seen
                 /\ call'[d].task => Learning(call', d)
                 /\ \A s \in Sessions : Watching(call', d, s) => Watching(call, d, s)
      BY <1>1, <1>5, <1>6, <2>1 DEF Naming, Learning, InFlight, Watching, LedgerInv, Past, n
    <3>3. LedgerInv(ledger, call')
      BY <1>1, <1>5, <3>2, SameForLedger
    <3> QED BY <3>1, <3>3
  <2>2. CASE n # None
    <3>1. ledger' = DropReference(ledger, n)
      BY <2>2 DEF Defer, n
    <3>2. Naming(call, c, n) /\ n \in Sessions
      BY <1>1, <2>2 DEF Naming, n
    <3>3. LedgerInv(DropReference(ledger, n), call')
      BY <1>1, <1>5, <1>6, <3>2, ReferenceDropped
    <3> QED BY <3>1, <3>3
  <2> QED BY <2>1, <2>2
<1>8. CallsSound'
  BY <1>1, <1>3, <1>5 DEF CallsSound, IInv
<1>9. (Stopping(call) => Stopping(call')) /\ (Establishing(call) => Establishing(call'))
  BY <1>1, <1>2, OthersPause
<1> QED BY <1>1, <1>7, <1>8, <1>9, CallsOnly

\* A call starts a pause of its own for the session s that it minted.
LEMMA PauseKeeps ==
  ASSUME IInv, NEW c \in Calls, call[c].kind = "acquire", InFlight(call, c),
         NEW s \in Sessions \ (ended \ call[c].seen), NEW pc \in {"stopping", "establishing"},
         call' = [call EXCEPT ![c].pc = pc, ![c].minted = s], ledger' = ledger, ended' = ended
  PROVE  /\ LedgerInv(ledger', call') /\ CallsSound'
         /\ call'[c].pc = pc /\ \A d \in Calls \ {c} : call'[d] = call[d]
<1> DEFINE x == [call[c] EXCEPT !.pc = pc, !.minted = s]
<1>1. call \in [Calls -> CallStates] /\ call[c] \in CallStates
  BY DEF IInv, LedgerInv
<1>2. call' = [call EXCEPT ![c] = x]
  BY <1>1
<1>3. x \in CallStates
  BY <1>1 DEF CallStates
<1>4. /\ x.pc = pc /\ x.minted = s /\ x.kind = call[c].kind /\ x.named = call[c].named
      /\ x.at = call[c].at /\ x.task = call[c].task /\ x.seen = call[c].seen
  BY <1>1 DEF CallStates
<1> HIDE DEF x
<1>5. LedgerInv(ledger', call')
  BY <1>2, <1>3, <1>4, StaysCounted
<1>6. call'[c] = x /\ \A d \in Calls \ {c} : call'[d] = call[d]
  BY <1>1, <1>2
<1>7. CallsSound'
  BY <1>4, <1>6, ZenonT(60) DEF CallsSound, IInv
<1> QED BY <1>4, <1>5, <1>6, <1>7

\* The minted session is published; its first heartbeat is under way, or the keeper serves it.
LEMMA EstablishKeeps ==
  ASSUME IInv, NEW c \in Calls, call[c].kind = "acquire", InFlight(call, c),
         NEW s \in Sessions \ ended, NEW p, Claims(p, ended), p \in Proxies, ~p.started,
         SameLink(proxy, p), Keeping(proxy) \subseteq Keeping(p),
         Establish(c, Publish(p, s), s)
  PROVE  StepSound
<1> DEFINE q == Publish(p, s)
<1> HIDE DEF q
<1>1. ASSUME NEW k
      PROVE  /\ Ready(q, ended, k) /\ q.bound = s /\ q.started = p.started /\ SameLink(p, q)
             /\ Keeping(p) \subseteq Keeping(q)
  <2>1. q = Publish(p, s)
    BY DEF q
  <2>2. Ready(p, ended, k)
    BY DEF Ready, Paused
  <2> QED BY <2>1, <2>2, PublishKeeps
<1>2. IF SendsFirst(q)
      THEN /\ proxy' = q
           /\ call' = [call EXCEPT ![c].pc = "establishing", ![c].minted = s]
           /\ ledger' = ledger /\ ended' = ended
      ELSE proxy' = Established(q) /\ End(c)
  BY DEF Establish, q
<1>3. s \in Sessions \ (ended \ call[c].seen) /\ s \notin call[c].seen
  BY DEF IInv, CallsSound
<1>4. CASE SendsFirst(q)
  <2>1. /\ proxy' = q
        /\ call' = [call EXCEPT ![c].pc = "establishing", ![c].minted = s]
        /\ ledger' = ledger /\ ended' = ended
    BY <1>2, <1>4
  <2>2. /\ LedgerInv(ledger', call') /\ CallsSound'
        /\ call'[c].pc = "establishing" /\ \A d \in Calls \ {c} : call'[d] = call[d]
    BY <1>3, <2>1, PauseKeeps
  <2>3. Ready(q, ended, call') /\ ~q.started
    BY <1>1
  <2>4. Keeps(proxy', ended, call')
    BY <2>1, <2>2, <2>3 DEF Keeps, Ready, Kept, Establishing
  <2>5. Fresh
    BY <1>1, <1>3, <2>1, <2>2 DEF Fresh
  <2>6. OwnOutcome
    BY <1>1, <2>1 DEF OwnOutcome
  <2> QED BY <2>1, <2>2, <2>4, <2>5, <2>6 DEF StepSound, IInv
<1>5. CASE ~SendsFirst(q)
  <2>1. proxy' = Established(q) /\ End(c)
    BY <1>2, <1>5
  <2>2. Keeps(proxy', ended, call') /\ SameBindings(q, proxy') /\ Keeping(proxy') = Keeping(q)
    <3>1. Ready(q, ended, call')
      BY <1>1
    <3> QED BY <2>1, <3>1, EstablishedKeeps
  <2>3. proxy'.bound = s /\ Keeping(proxy) \subseteq Keeping(proxy')
    BY <1>1, <2>2 DEF SameBindings
  <2> QED BY <1>3, <2>1, <2>2, <2>3, EndKeeps
<1> QED BY <1>4, <1>5

\* bindResultMintedDeviceSession, up to the stop of the previous binding's keeper
LEMMA AnswerMintedStep ==
  ASSUME IInv, NEW c \in Calls, NEW s \in Sessions, AnswerMinted(c, s)
  PROVE  StepSound
<1>1. /\ call[c].pc \in {"sent", "task"} /\ InFlight(call, c) /\ call[c].kind = "acquire"
      /\ Learning(call, c) /\ s \notin ended \ call[c].seen
      /\ Keeps(proxy, ended, call) /\ proxy \in Proxies /\ Claims(proxy, ended) /\ Kept(proxy, call)
  BY DEF AnswerMinted, Answered, InFlight, Learning, IInv, Keeps
<1>2. CASE s = proxy.bound \/ ReleasedSince(s, c)
  <2>1. proxy' = proxy /\ End(c)
    BY <1>2 DEF AnswerMinted
  <2> QED BY <1>1, <2>1, AnswerKeeps
<1>3. CASE ~(s = proxy.bound \/ ReleasedSince(s, c)) /\ proxy.started
  <2>1. /\ proxy' = [proxy EXCEPT !.interval = FALSE]
        /\ call' = [call EXCEPT ![c].pc = "stopping", ![c].minted = s]
        /\ ledger' = ledger /\ ended' = ended
    BY <1>3 DEF AnswerMinted
  <2>2. proxy' \in Proxies
    BY <1>1, <2>1 DEF Proxies
  <2>3. SameBindings(proxy, proxy') /\ proxy'.started = proxy.started /\ ~proxy'.interval
    BY <1>1, <2>1 DEF Proxies, SameBindings
  <2>4. /\ LedgerInv(ledger', call') /\ CallsSound'
        /\ call'[c].pc = "stopping" /\ \A d \in Calls \ {c} : call'[d] = call[d]
    BY <1>1, <2>1, PauseKeeps
  <2>5. Claims(proxy', ended) /\ Keeping(proxy') = Keeping(proxy)
    BY <1>1, <2>3 DEF SameBindings, Claims, HoldsOf, Closed, Keeping
  <2>6. Kept(proxy', call')
    <3>1. Stopping(call')
      BY <2>4 DEF Stopping
    <3>2. (HasTargets(proxy') <=> HasTargets(proxy)) /\ (Serving(proxy') <=> Serving(proxy))
      BY <2>3 DEF SameBindings, HasTargets, Heartbeatable, Claimable, Serving, Open
    <3> QED BY <1>1, <1>3, <2>3, <3>1, <3>2 DEF Kept, Paused, SameBindings
  <2>7. Fresh /\ OwnOutcome
    BY <2>3, <2>5 DEF Fresh, OwnOutcome, SameBindings
  <2> QED BY <2>1, <2>2, <2>4, <2>5, <2>6, <2>7 DEF IInv, Keeps, StepSound
<1>4. CASE ~(s = proxy.bound \/ ReleasedSince(s, c)) /\ ~proxy.started
  <2>1. s \notin ended
    BY <1>1, <1>4, AskLedger DEF Watching
  <2>2. Establish(c, Publish(proxy, s), s)
    BY <1>4 DEF AnswerMinted
  <2>3. SameLink(proxy, proxy)
    BY DEF SameLink
  <2> QED BY <1>1, <1>4, <2>1, <2>2, <2>3, EstablishKeeps
<1> QED BY <1>2, <1>3, <1>4

\* ... and after it: the ledger is asked again.
LEMMA KeeperStoppedStep ==
  ASSUME IInv, NEW c \in Calls, KeeperStopped(c)
  PROVE  StepSound
<1> DEFINE s == call[c].minted
           p == [proxy EXCEPT !.started = FALSE]
<1>1. /\ call[c].pc = "stopping" /\ InFlight(call, c) /\ call[c].kind = "acquire" /\ Learning(call, c)
      /\ s \in Sessions /\ s \notin ended \ call[c].seen
      /\ proxy \in Proxies /\ Claims(proxy, ended)
  BY DEF KeeperStopped, InFlight, Learning, IInv, Keeps, CallsSound
<1>2. p \in Proxies
  BY <1>1 DEF Proxies
<1>3. SameBindings(proxy, p) /\ ~p.started /\ p.interval = proxy.interval
  BY <1>1 DEF Proxies, SameBindings
<1>4. IF ReleasedSince(s, c) THEN proxy' = Sync(p) /\ End(c) ELSE Establish(c, Publish(p, s), s)
  BY DEF KeeperStopped
<1> HIDE DEF s, p
<1>5. /\ Claims(p, ended) /\ Keeping(p) = Keeping(proxy) /\ SameLink(proxy, p)
      /\ \A k : Ready(p, ended, k)
  BY <1>1, <1>2, <1>3 DEF SameBindings, Claims, HoldsOf, Closed, Keeping, SameLink, Ready, Paused
<1>6. CASE ReleasedSince(s, c)
  <2>1. Ready(p, ended, call') /\ proxy' = Sync(p) /\ End(c)
    BY <1>4, <1>5, <1>6
  <2>2. Keeps(proxy', ended, call') /\ SameBindings(p, proxy') /\ Keeping(proxy') = Keeping(p)
    BY <2>1, SyncKeeps
  <2>3. proxy'.bound = proxy.bound
    BY <1>3, <2>2 DEF SameBindings
  <2> QED BY <1>1, <1>5, <2>1, <2>2, <2>3, EndKeeps
<1>7. CASE ~ReleasedSince(s, c)
  <2>1. s \notin ended
    BY <1>1, <1>7, AskLedger DEF Watching
  <2>2. Establish(c, Publish(p, s), s)
    BY <1>4, <1>7
  <2> QED BY <1>1, <1>2, <1>3, <1>5, <2>1, <2>2, EstablishKeeps
<1> QED BY <1>6, <1>7

\* the first heartbeat's round trip ends
LEMMA FirstHeartbeatStep ==
  ASSUME IInv, NEW c \in Calls, FirstHeartbeat(c)
  PROVE  StepSound
<1>1. /\ call[c].pc = "establishing" /\ InFlight(call, c) /\ proxy' = Sync(proxy) /\ End(c)
      /\ Keeps(proxy, ended, call)
      /\ call \in [Calls -> CallStates] /\ call' = [call EXCEPT ![c] = Idle]
  BY DEF FirstHeartbeat, InFlight, IInv, LedgerInv, End
<1>2. Stopping(call) => Stopping(call')
  BY <1>1, OthersPause
<1>3. Ready(proxy, ended, call')
  BY <1>1, <1>2 DEF Keeps, Ready, Kept, Paused
<1>4. Keeps(proxy', ended, call') /\ SameBindings(proxy, proxy') /\ Keeping(proxy') = Keeping(proxy)
  BY <1>1, <1>3, SyncKeeps
<1>5. proxy'.bound = proxy.bound
  BY <1>4 DEF SameBindings
<1> QED BY <1>1, <1>4, <1>5, EndKeeps

\* handleSessionReleasedNotification
LEMMA ReleaseStep ==
  ASSUME IInv, NEW s \in Sessions, Release(s)
  PROVE  StepSound
<1>1. /\ LedgerInv(ledger, call) /\ call \in [Calls -> CallStates] /\ Keeps(proxy, ended, call)
      /\ ended \subseteq Sessions
      /\ ended' = ended \cup {s} /\ ledger' = RecordReleased(ledger, s) /\ ledger.epoch < MaxReleases
  BY DEF Release, IInv, LedgerInv
<1>2. \A d \in Calls : call'[d] = [call[d] EXCEPT !.seen = @ \cup (Watched(d) \cap {s})]
  BY DEF Release
<1>3. ASSUME NEW d \in Calls
      PROVE  /\ call'[d] \in CallStates /\ call'[d].pc = call[d].pc
             /\ call'[d].kind = call[d].kind /\ call'[d].named = call[d].named /\ call'[d].at = call[d].at
             /\ call'[d].task = call[d].task /\ call'[d].minted = call[d].minted
             /\ call'[d].seen = call[d].seen \cup (Watched(d) \cap {s})
  <2> DEFINE w == Watched(d) \cap {s}
             y == [call[d] EXCEPT !.seen = @ \cup w]
  <2>1. call[d] \in CallStates /\ w \subseteq Sessions
    BY <1>1
  <2> HIDE DEF w
  <2>2. y \in CallStates
    BY <2>1 DEF CallStates
  <2>3. /\ y.pc = call[d].pc /\ y.kind = call[d].kind /\ y.named = call[d].named /\ y.at = call[d].at
        /\ y.task = call[d].task /\ y.minted = call[d].minted /\ y.seen = call[d].seen \cup w
    BY <2>1 DEF CallStates
  <2>4. call'[d] = y
    BY <1>2 DEF w
  <2> HIDE DEF y
  <2> QED BY <2>2, <2>3, <2>4 DEF w
<1>4. call' \in [Calls -> CallStates]
  BY <1>3 DEF Release
<1>5. \A d \in Calls : Learns(d) => Watched(d) = Sessions
  BY DEF Watched
<1>6. LedgerInv(ledger', call')
  <2>1. \A d \in Calls :
          /\ InFlight(call', d) <=> InFlight(call, d)
          /\ call'[d].kind = call[d].kind /\ call'[d].named = call[d].named /\ call'[d].at = call[d].at
          /\ call'[d].task = call[d].task
    BY <1>3 DEF InFlight
  <2>2. ASSUME NEW d \in Calls, NEW t \in Sessions, Watching(call, d, t)
        PROVE  t \in call'[d].seen <=> t \in call[d].seen \cup {s}
    <3>1. t \in Watched(d)
      BY <2>2, ProxyAssumption DEF Watching, Learning, Learns, Watched
    <3> QED BY <1>3, <3>1
  <2>3. LedgerInv(RecordReleased(ledger, s), call')
    BY <1>1, <1>4, <2>1, <2>2, ReleaseRecorded
  <2> QED BY <1>1, <2>3
<1>7. CallsSound'
  <2> SUFFICES ASSUME NEW d \in Calls
               PROVE  /\ call'[d].seen \subseteq ended'
                      /\ call'[d].pc \in {"sent", "waiting"} => ~call'[d].task
                      /\ call'[d].pc \in {"stopping", "establishing"} =>
                           /\ call'[d].kind = "acquire"
                           /\ call'[d].minted \in Sessions \ (ended' \ call'[d].seen)
    BY DEF CallsSound
  <2>1. /\ call[d].seen \subseteq ended
        /\ call[d].pc \in {"sent", "waiting"} => ~call[d].task
        /\ call[d].pc \in {"stopping", "establishing"} =>
             call[d].kind = "acquire" /\ call[d].minted \in Sessions \ (ended \ call[d].seen)
    BY DEF IInv, CallsSound
  <2>2. call[d].kind = "acquire" => Watched(d) \cap {s} = {s}
    BY <1>5 DEF Learns
  <2> QED BY <1>1, <1>3, <2>1, <2>2
<1>8. proxy' = Notified(proxy, s)
  BY DEF Release, Notified, Disowned
<1>9. /\ Keeps(proxy', ended \cup {s}, call) /\ proxy'.bound \in {proxy.bound, None}
       /\ Keeping(proxy) \ {s} \subseteq Keeping(proxy')
  BY <1>1, <1>8, ReleasedKeeps
<1>10. Keeps(proxy', ended', call')
  BY <1>1, <1>3, <1>9 DEF Keeps, Kept, Paused, Stopping, Establishing
<1>11. Fresh
  BY <1>9, ProxyAssumption DEF Fresh
<1>12. OwnOutcome
  <2>1. s \in Keeping(proxy) => s \notin ended
    BY <1>1 DEF Keeps, Claims, Keeping
  <2> QED BY <1>1, <1>9, <2>1 DEF OwnOutcome
<1> QED BY <1>1, <1>6, <1>7, <1>10, <1>11, <1>12 DEF IInv, StepSound

-----------------------------------------------------------------------------
(* The steps of the heartbeats, of the connection and of the end. *)

\* a heartbeat is answered not-found, or the proxy lets go of a session
LEMMA OutcomeStep ==
  ASSUME IInv, NEW s \in Sessions, NotFound(s) \/ LetGo(s)
  PROVE  StepSound
<1>1. Keeps(proxy, ended, call) /\ UNCHANGED <<ledger, call, ended>>
  BY DEF IInv, NotFound, LetGo
<1>2. Keeps(proxy', ended, call) /\ Keeping(proxy) \ {s} \subseteq Keeping(proxy')
  <2>1. \/ proxy' = Sync(proxy)
        \/ proxy' = Sync(Leave(proxy, s))
        \/ proxy' = Leave(proxy, s)
        \/ proxy' = Unknown(proxy, s)
    BY DEF NotFound, LetGo
  <2>2. CASE proxy' = Sync(proxy)
    <3>1. Keeps(proxy', ended, call) /\ SameBindings(proxy, proxy') /\ Keeping(proxy') = Keeping(proxy)
      BY <1>1, <2>2, KeepsReady, SyncKeeps
    <3> QED BY <3>1
  <2>3. CASE proxy' = Sync(Leave(proxy, s))
    <3> DEFINE p == Leave(proxy, s)
    <3>1. /\ Keeps(p, ended, call) /\ p.bound \in {proxy.bound, None}
          /\ Keeping(proxy) \ {s} \subseteq Keeping(p)
      BY <1>1, LeaveKeeps
    <3> HIDE DEF p
    <3>2. proxy' = Sync(p)
      BY <2>3 DEF p
    <3>3. Keeps(proxy', ended, call) /\ SameBindings(p, proxy') /\ Keeping(proxy') = Keeping(p)
      BY <3>1, <3>2, KeepsReady, SyncKeeps
    <3> QED BY <3>1, <3>3
  <2>4. CASE proxy' = Leave(proxy, s)
    BY <1>1, <2>4, LeaveKeeps
  <2>5. CASE proxy' = Unknown(proxy, s)
    BY <1>1, <2>5, UnknownKeeps
  <2> QED BY <2>1, <2>2, <2>3, <2>4, <2>5
<1>3. OwnOutcome
  <2>1. \A t \in Keeping(proxy) \ Keeping(proxy') : t = s
    BY <1>2
  <2> QED BY <2>1 DEF OwnOutcome
<1> QED BY <1>1, <1>2, <1>3, ProxyOnly

\* What a state keeps does not depend on the connection.
LEMMA LinkMoves ==
  ASSUME NEW p \in Proxies, NEW over, Claims(p, over),
         NEW l \in {"down", "opening", "establishing", "up"}, NEW q, q = [p EXCEPT !.link = l]
  PROVE  /\ q \in Proxies /\ Claims(q, over) /\ Keeping(q) = Keeping(p) /\ q.link = l
         /\ q.bound = p.bound /\ q.fence = p.fence /\ q.claimable = p.claimable
         /\ q.started = p.started /\ q.interval = p.interval /\ q.closing = p.closing
         /\ HasTargets(q) <=> HasTargets(p)
<1>1. q \in Proxies
  BY DEF Proxies
<1>2. /\ q.bound = p.bound /\ q.fence = p.fence /\ q.held = p.held /\ q.claimable = p.claimable
      /\ q.stopped = p.stopped /\ q.started = p.started /\ q.interval = p.interval
      /\ q.link = l /\ q.closing = p.closing
  BY DEF Proxies
<1>3. /\ HasTargets(q) <=> HasTargets(p)
      /\ Keeping(q) = Keeping(p)
  BY <1>2 DEF HasTargets, Heartbeatable, Claimable, Keeping
<1> QED BY <1>1, <1>2, <1>3 DEF Claims, HoldsOf, Closed

\* resetConnection
LEMMA LoseStep ==
  ASSUME IInv, Lose
  PROVE  StepSound
<1>1. /\ LedgerInv(ledger, call) /\ call \in [Calls -> CallStates]
      /\ proxy \in Proxies /\ Claims(proxy, ended) /\ Kept(proxy, call)
      /\ proxy' = [proxy EXCEPT !.link = "down"] /\ ledger' = ledger /\ ended' = ended
      /\ call' = [c \in Calls |->
           IF call[c].pc = "sent" THEN [call[c] EXCEPT !.pc = "waiting"] ELSE call[c]]
  BY DEF Lose, IInv, Keeps, LedgerInv
<1>2. /\ proxy' \in Proxies /\ Claims(proxy', ended) /\ Keeping(proxy') = Keeping(proxy)
      /\ proxy'.link = "down" /\ proxy'.bound = proxy.bound
      /\ proxy'.started = proxy.started /\ proxy'.interval = proxy.interval
      /\ proxy'.closing = proxy.closing
  BY <1>1, LinkMoves
<1>3. ASSUME NEW c \in Calls
      PROVE  /\ call'[c] \in CallStates
             /\ call'[c].pc = IF call[c].pc = "sent" THEN "waiting" ELSE call[c].pc
             /\ call'[c].kind = call[c].kind /\ call'[c].named = call[c].named
             /\ call'[c].at = call[c].at /\ call'[c].task = call[c].task
             /\ call'[c].minted = call[c].minted /\ call'[c].seen = call[c].seen
  <2> DEFINE y == [call[c] EXCEPT !.pc = "waiting"]
  <2>1. call[c] \in CallStates
    BY <1>1
  <2>2. y \in CallStates
    BY <2>1 DEF CallStates
  <2>3. /\ y.pc = "waiting" /\ y.kind = call[c].kind /\ y.named = call[c].named /\ y.at = call[c].at
        /\ y.task = call[c].task /\ y.minted = call[c].minted /\ y.seen = call[c].seen
    BY <2>1 DEF CallStates
  <2>4. call'[c] = IF call[c].pc = "sent" THEN y ELSE call[c]
    BY <1>1
  <2> HIDE DEF y
  <2> QED BY <2>1, <2>2, <2>3, <2>4
<1>4. call' \in [Calls -> CallStates]
  BY <1>1, <1>3
<1>5. LedgerInv(ledger', call')
  <2>1. \A d \in Calls :
          /\ \A s \in Sessions : Naming(call', d, s) <=> Naming(call, d, s)
          /\ Learning(call', d) <=> Learning(call, d)
          /\ InFlight(call', d) =>
               /\ InFlight(call, d) /\ call'[d].at = call[d].at /\ call'[d].seen = call[d].seen
               /\ call'[d].task => Learning(call', d)
               /\ \A s \in Sessions : Watching(call', d, s) => Watching(call, d, s)
    BY <1>1, <1>3 DEF Naming, Learning, InFlight, Watching, LedgerInv, Past
  <2> QED BY <1>1, <1>4, <2>1, SameForLedger
<1>6. CallsSound'
  <2> SUFFICES ASSUME NEW d \in Calls
               PROVE  /\ call'[d].seen \subseteq ended'
                      /\ call'[d].pc \in {"sent", "waiting"} => ~call'[d].task
                      /\ call'[d].pc \in {"stopping", "establishing"} =>
                           /\ call'[d].kind = "acquire"
                           /\ call'[d].minted \in Sessions \ (ended' \ call'[d].seen)
    BY DEF CallsSound
  <2>1. /\ call[d].seen \subseteq ended
        /\ call[d].pc \in {"sent", "waiting"} => ~call[d].task
        /\ call[d].pc \in {"stopping", "establishing"} =>
             call[d].kind = "acquire" /\ call[d].minted \in Sessions \ (ended \ call[d].seen)
    BY DEF IInv, CallsSound
  <2> QED BY <1>1, <1>3, <2>1
<1>7. Kept(proxy', call')
  <2>1. Stopping(call) => Stopping(call')
    BY <1>3 DEF Stopping
  <2> QED BY <1>1, <1>2, <2>1 DEF Kept, Paused, Serving, Open
<1>8. Fresh /\ OwnOutcome
  BY <1>2 DEF Fresh, OwnOutcome
<1> QED BY <1>1, <1>2, <1>5, <1>6, <1>7, <1>8 DEF IInv, Keeps, StepSound

\* doConnect, up to the new client
LEMMA ConnectStep ==
  ASSUME IInv, Connect
  PROVE  StepSound
<1>1. /\ proxy \in Proxies /\ Claims(proxy, ended) /\ Kept(proxy, call)
      /\ proxy' = [proxy EXCEPT !.link = "opening"] /\ UNCHANGED <<ledger, call, ended>>
  BY DEF Connect, IInv, Keeps
<1>2. /\ proxy' \in Proxies /\ Claims(proxy', ended) /\ Keeping(proxy') = Keeping(proxy)
      /\ proxy'.link = "opening"
      /\ proxy'.started = proxy.started /\ proxy'.interval = proxy.interval
      /\ proxy'.closing = proxy.closing
  BY <1>1, LinkMoves
<1>3. Kept(proxy', call)
  BY <1>1, <1>2 DEF Kept, Paused, Serving, Open
<1>4. OwnOutcome
  BY <1>2 DEF OwnOutcome
<1> QED BY <1>1, <1>2, <1>3, <1>4, ProxyOnly DEF Keeps

\* The connection is up with a keeper that was looked after, and serves it.
LEMMA UpKeeps ==
  ASSUME NEW p, NEW over, NEW k, Keeps(p, over, k),
         Open(p) /\ None \in {p.fence, p.bound} =>
           /\ HasTargets(p) => p.started
           /\ p.started => HasTargets(p) \/ p.bound \notin p.claimable \cup {None},
         NEW q, q = [p EXCEPT !.link = "up"]
  PROVE  Keeps(q, over, k) /\ Keeping(q) = Keeping(p)
<1>1. p \in Proxies /\ Claims(p, over) /\ Paused(p, k)
  BY DEF Keeps, Kept
<1>2. /\ q \in Proxies /\ Claims(q, over) /\ Keeping(q) = Keeping(p) /\ q.link = "up"
      /\ q.bound = p.bound /\ q.fence = p.fence /\ q.claimable = p.claimable
      /\ q.started = p.started /\ q.interval = p.interval /\ q.closing = p.closing
      /\ HasTargets(q) <=> HasTargets(p)
  BY <1>1, LinkMoves
<1>3. Kept(q, k)
  BY <1>1, <1>2 DEF Kept, Paused, Serving, Open
<1> QED BY <1>2, <1>3 DEF Keeps

\* establishBoundSessionHeartbeat on the new client, before and after its first heartbeat
LEMMA ConnectionStep ==
  ASSUME IInv, EstablishConnection \/ ConnectionEstablished
  PROVE  StepSound
<1>1. /\ Keeps(proxy, ended, call) /\ proxy \in Proxies /\ Claims(proxy, ended)
      /\ Kept(proxy, call) /\ Ready(proxy, ended, call) /\ UNCHANGED <<ledger, call, ended>>
      /\ Live(proxy)
  BY DEF EstablishConnection, ConnectionEstablished, IInv, Keeps, Kept, Ready, Live
<1>2. CASE EstablishConnection /\ SendsFirst(proxy)
  <2>1. proxy' = [proxy EXCEPT !.link = "establishing"]
    BY <1>2 DEF EstablishConnection
  <2>2. /\ proxy' \in Proxies /\ Claims(proxy', ended) /\ Keeping(proxy') = Keeping(proxy)
        /\ proxy'.link = "establishing"
        /\ proxy'.started = proxy.started /\ proxy'.interval = proxy.interval
        /\ proxy'.closing = proxy.closing
    BY <1>1, <2>1, LinkMoves
  <2>3. Kept(proxy', call)
    BY <1>1, <2>2 DEF Kept, Paused, Serving, Open
  <2>4. OwnOutcome
    BY <2>2 DEF OwnOutcome
  <2> QED BY <1>1, <2>2, <2>3, <2>4, ProxyOnly DEF Keeps
<1>3. ASSUME NEW p, p \in {Sync(proxy), Established(proxy)}, proxy' = [p EXCEPT !.link = "up"]
      PROVE  StepSound
  <2>1. /\ Keeps(p, ended, call) /\ SameBindings(proxy, p) /\ Keeping(p) = Keeping(proxy)
        /\ Open(p) /\ Live(p) /\ None \in {p.fence, p.bound} =>
             /\ HasTargets(p) => p.started
             /\ p.started => HasTargets(p) \/ p.bound \notin p.claimable \cup {None}
    <3>1. CASE p = Sync(proxy)
      BY <1>1, <3>1, SyncKeeps
    <3>2. CASE p = Established(proxy)
      BY <1>1, <3>2, EstablishedKeeps
    <3> QED BY <1>3, <3>1, <3>2
  <2>2. Live(p)
    BY <1>1, <2>1 DEF SameBindings, Live
  <2>3. Keeps(proxy', ended, call) /\ Keeping(proxy') = Keeping(p)
    BY <1>3, <2>1, <2>2, UpKeeps
  <2>4. OwnOutcome
    BY <2>1, <2>3 DEF OwnOutcome
  <2> QED BY <1>1, <2>3, <2>4, ProxyOnly
<1> QED BY <1>2, <1>3 DEF EstablishConnection, ConnectionEstablished

\* closeOnce
LEMMA CloseStep ==
  ASSUME IInv, Close
  PROVE  StepSound
<1>1. /\ proxy \in Proxies /\ Claims(proxy, ended) /\ Kept(proxy, call)
      /\ UNCHANGED <<ledger, call, ended>>
  BY DEF Close, IInv, Keeps
<1>2. \/ proxy' = [proxy EXCEPT !.closing = "closing"] /\ proxy.closing = "open"
      \/ proxy' = [proxy EXCEPT !.closing = "stopped", !.started = FALSE, !.interval = FALSE]
  BY DEF Close
<1>3. /\ proxy' \in Proxies /\ proxy'.held = proxy.held /\ proxy'.claimable = proxy.claimable
      /\ proxy'.stopped = proxy.stopped /\ proxy'.bound = proxy.bound /\ proxy'.fence = proxy.fence
      /\ \/ proxy'.closing = "closing"
         \/ proxy'.closing = "stopped" /\ ~proxy'.started /\ ~proxy'.interval
  <2>1. CASE proxy' = [proxy EXCEPT !.closing = "closing"]
    BY <1>1, <2>1 DEF Proxies
  <2>2. CASE proxy' = [proxy EXCEPT !.closing = "stopped", !.started = FALSE, !.interval = FALSE]
    <3> DEFINE p == [proxy EXCEPT !.started = FALSE, !.interval = FALSE]
    <3>1. /\ p \in Proxies /\ p.held = proxy.held /\ p.claimable = proxy.claimable
          /\ p.stopped = proxy.stopped /\ p.bound = proxy.bound /\ p.fence = proxy.fence
          /\ ~p.started /\ ~p.interval
      BY <1>1 DEF Proxies
    <3>2. proxy' = [p EXCEPT !.closing = "stopped"]
      BY <2>2
    <3> HIDE DEF p
    <3>3. /\ proxy' \in Proxies /\ proxy'.held = p.held /\ proxy'.claimable = p.claimable
          /\ proxy'.stopped = p.stopped /\ proxy'.bound = p.bound /\ proxy'.fence = p.fence
          /\ proxy'.started = p.started /\ proxy'.interval = p.interval
          /\ proxy'.closing = "stopped"
      BY <3>1, <3>2 DEF Proxies
    <3> QED BY <3>1, <3>3
  <2> QED BY <1>2, <2>1, <2>2
<1>4. Claims(proxy', ended) /\ Kept(proxy', call) /\ Keeping(proxy') = Keeping(proxy)
  BY <1>1, <1>3 DEF Claims, HoldsOf, Closed, Kept, Paused, Serving, Open, Keeping
<1>5. OwnOutcome
  BY <1>4 DEF OwnOutcome
<1> QED BY <1>1, <1>3, <1>4, <1>5, ProxyOnly DEF Keeps

-----------------------------------------------------------------------------
(* The theorems. *)

\* Every step keeps the invariant, binds nothing stale and lets go of nothing unasked.
LEMMA Inductive == IInv /\ [Next]_vars => IInv' /\ (StepSound \/ UNCHANGED vars)
<1> SUFFICES ASSUME IInv, [Next]_vars PROVE IInv' /\ (StepSound \/ UNCHANGED vars)
  OBVIOUS
<1>1. CASE Next
  <2>1. StepSound
    BY <1>1, ForwardStep, ResendStep, GiveUpStep, AnswerStep, DeferStep, AnswerMintedStep,
       KeeperStoppedStep, FirstHeartbeatStep, ReleaseStep, OutcomeStep, LoseStep, ConnectStep,
       ConnectionStep, CloseStep DEF Next
  <2> QED BY <2>1 DEF StepSound
<1>2. CASE UNCHANGED vars
  <2>1. IInv'
    BY <1>2 DEF vars, IInv, CallsSound
  <2> QED BY <1>2, <2>1
<1> QED BY <1>1, <1>2

\* The invariant holds in every reachable state.
LEMMA IInvHolds == Spec => []IInv
<1>1. Init => IInv
  <2> SUFFICES ASSUME Init PROVE IInv
    OBVIOUS
  <2>1. proxy \in Proxies /\ ended = {}
    BY DEF Init, Proxies
  <2>2. \A c \in Calls : call[c] = Idle /\ call[c].pc = "idle" /\ call[c].seen = {}
    BY DEF Init, Idle
  <2>3. CallsSound
    BY <2>2 DEF CallsSound
  <2>4. Claims(proxy, ended)
    BY DEF Init, Claims, HoldsOf, Closed
  <2>5. Kept(proxy, call)
    BY DEF Init, Kept, Paused, Serving
  <2>6. 0 \in Epochs
    BY ProxyAssumption DEF Epochs
  <2>7. /\ ledger.epoch = 0 /\ ledger.released = [s \in Sessions |-> 0]
        /\ ledger.refs = [s \in Sessions |-> 0] /\ ledger.acq = [e \in Epochs |-> 0]
    BY DEF Init
  <2>8. ledger \in CountedLedgers /\ call \in [Calls -> CallStates]
    BY <2>6, IdleTyped DEF Init, CountedLedgers
  <2>9. Counts(ledger, call)
    <3>1. \A s \in Sessions : Refs(call, s) = {}
      BY <2>2 DEF Refs, Naming, InFlight
    <3>2. \A e \in Epochs : Acqs(call, e) = {}
      BY <2>2 DEF Acqs, Learning, InFlight
    <3> QED BY <2>7, <3>1, <3>2, FS_EmptySet DEF Counts
  <2>10. Past(ledger, call) /\ Exact(ledger, call) /\ OnlyNeeded(ledger)
    BY <2>2, <2>7 DEF Past, Exact, OnlyNeeded, Watching, Learning, InFlight
  <2> QED BY <2>1, <2>3, <2>4, <2>5, <2>8, <2>9, <2>10 DEF IInv, Keeps, LedgerInv
<1>2. IInv /\ [Next]_vars => IInv'
  BY Inductive
<1> QED BY <1>1, <1>2, PTL DEF Spec

\* The ledger answers exactly, for every session a call in flight may bind, and is empty
\* when no call is in flight and no task waits (ReleaseEpochLedger, #4655, #5412).
THEOREM LedgerIsSound == Spec => []LedgerSound
<1>1. IInv => LedgerSound
  <2> SUFFICES ASSUME IInv PROVE LedgerSound
    OBVIOUS
  <2>1. LedgerInv(ledger, call) /\ ledger \in CountedLedgers /\ Counts(ledger, call)
    BY DEF IInv, LedgerInv
  <2>2. ledger \in Ledgers
    <3>1. \A s \in Sessions : ledger.refs[s] \in 0..Cardinality(Calls)
      <4>1. \A s \in Sessions : Refs(call, s) \in SUBSET Calls
        BY DEF Refs
      <4> QED BY <2>1, <4>1, SomeCalls DEF Counts
    <3>2. \A e \in Epochs : ledger.acq[e] \in 0..Cardinality(Calls)
      <4>1. \A e \in Epochs : Acqs(call, e) \in SUBSET Calls
        BY DEF Acqs
      <4> QED BY <2>1, <4>1, SomeCalls DEF Counts
    <3> QED BY <2>1, <3>1, <3>2 DEF CountedLedgers, Ledgers
  <2>3. TypeOK
    BY <2>2 DEF TypeOK, IInv, Keeps, LedgerInv
  <2>4. ReleasesExact
    BY AskLedger DEF ReleasesExact, Watched, Watching, Learning, InFlight, Learns, IInv, LedgerInv, CallStates
  <2>5. LedgerDrains
    <3> SUFFICES ASSUME \A c \in Calls : call[c].pc = "idle"
                 PROVE  /\ \A s \in Sessions : ledger.released[s] = 0 /\ ledger.refs[s] = 0
                        /\ Acquiring(ledger) = {}
      BY DEF LedgerDrains
    <3>1. \A s \in Sessions : Refs(call, s) = {}
      BY DEF Refs, Naming, InFlight
    <3>2. \A e \in Epochs : Acqs(call, e) = {}
      BY DEF Acqs, Learning, InFlight
    <3>3. (\A s \in Sessions : ledger.refs[s] = 0) /\ (\A e \in Epochs : ledger.acq[e] = 0)
      BY <2>1, <3>1, <3>2, FS_EmptySet DEF Counts
    <3>4. Acquiring(ledger) = {}
      BY <3>3 DEF Acquiring
    <3>5. \A s \in Sessions : ledger.released[s] \in Nat /\ ~(ledger.released[s] > 0)
      BY <2>1, <3>3, <3>4, ProxyAssumption DEF CountedLedgers, Epochs, LedgerInv, OnlyNeeded, Needed
    <3> QED BY <3>3, <3>4, <3>5
  <2> QED BY <2>3, <2>4, <2>5 DEF LedgerSound
<1> QED BY <1>1, IInvHolds, PTL

\* A call never binds a session that was released while the call ran, by what it named, by
\* what its result minted, or by what it selected (#4611).
THEOREM NothingResurrected == Spec => NoResurrection
<1>1. IInv /\ [Next]_vars => [\A c \in Calls, s \in Sessions :
        call'[c] # call[c] /\ proxy'.bound = s /\ proxy.bound # s => s \notin call[c].seen]_vars
  BY Inductive DEF StepSound, Fresh
<1> QED BY <1>1, IInvHolds, PTL DEF Spec, NoResurrection

\* On a connection that is up, with no binding under way, the keeper runs if there is a
\* session to heartbeat and not for nothing; what the proxy holds besides the binding it
\* claims and heartbeats; a closed proxy's keeper stays stopped; and a session the proxy
\* claims is let go for no other session's sake (LatestBindingKeeper, #11411).
THEOREM HeartbeatsAreSound == Spec => HeartbeatsSound
<1>1. IInv => KeeperServes /\ HeldSound /\ StaysClosed
  <2> SUFFICES ASSUME IInv PROVE KeeperServes /\ HeldSound /\ StaysClosed
    OBVIOUS
  <2>1. Claims(proxy, ended) /\ Kept(proxy, call)
    BY DEF IInv, Keeps
  <2>2. KeeperServes
    BY <2>1 DEF KeeperServes, Settled, Kept, Paused, Serving, Stopping, Establishing
  <2>3. HeldSound
    BY <2>1 DEF HeldSound, Claims, HoldsOf
  <2>4. StaysClosed
    BY <2>1 DEF StaysClosed, Claims, Closed
  <2> QED BY <2>2, <2>3, <2>4
<1>2. IInv /\ IInv' /\ [Next]_vars => [KeeperServes' /\ HeldSound' /\ StaysClosed' /\ OwnOutcome]_vars
  <2>1. IInv' => (KeeperServes /\ HeldSound /\ StaysClosed)'
    BY <1>1, PTL
  <2> QED BY <2>1, Inductive DEF StepSound
<1> QED BY <1>2, IInvHolds, PTL DEF Spec, HeartbeatsSound
=============================================================================
