------------------------ MODULE SessionLiveness_proofs ------------------------
(***************************************************************************)
(* Who owns a session's liveness, for every set of sessions and tokens and *)
(* every lease and grace: RowsSound, LiveOwnerKept, NoSilentReturn and,    *)
(* for a session that is no label, OwnersKept.                             *)
(*                                                                         *)
(* None of them is inductive, because a write that fails puts back what    *)
(* its operation found.  The invariant therefore says of that, for each    *)
(* kind of operation inside the mutex, what it says of the session itself. *)
(***************************************************************************)
EXTENDS SessionLiveness, SequenceTheorems, TLAPS

\* Not both the write of an adoption and the write of a release can fail.  When they can, a
\* session adopted in vain and released in vain has a processed owner its row never named.
OneWriteLands == ~({"adopt", "release"} \subseteq FailOps)

\* t's last proof of life is no older than the lease of the session
ProvedBeat(x, t, p) ==
  p[t] < Cap => x.lease \in Ages /\ x.lease <= p[t] /\ x.heard = TRUE /\ x.waiting = NoAge

\* the row names the owner whose claim was processed
Named(x, r) == OneWriteLands /\ x.owner \in x.claims => r = x.owner

\* and any other owner, unless its write failed
Stored(x, r) == x.owner # NoToken => r = x.owner \/ "adopt" \in FailOps

Typed(st, x, q, h, r, p, bar) ==
  /\ st \in {"new", "up", "releasing", "gone"} /\ x \in Session
  /\ q \in Seq(Operations) /\ Len(q) <= MaxQueue
  /\ h \in Writes \cup {NoOp} /\ r \in Tokens \cup {NoToken}
  /\ p \in [Tokens -> Ages] /\ bar \in SUBSET Tokens

\* a session that was not created yet
Untouched(x, q, h, p, bar) == x = Fresh /\ q = <<>> /\ h = NoOp /\ p = Unproved /\ bar = {}

\* what a claim inside the mutex took over, and what it puts back if its write fails
ClaimOpen(st, x, h, r, p, bar) ==
  /\ x.owner = h.run.token /\ x.claims = h.before.claims \cup {h.run.token}
  /\ bar \subseteq h.before.claims
  /\ h.moved = FALSE /\ h.before.owner # NoToken => ProvedBeat(h.before, h.before.owner, p)
  /\ st = "up" => Named(h.before, r) /\ Stored(h.before, r)

ReleaseOpen(st, x, h, r, p) ==
  /\ x.owner = NoToken /\ h.run.token \in x.claims
  /\ ProvedBeat(x, h.run.token, p)
  /\ st = "up" /\ OneWriteLands /\ "release" \in FailOps => r = h.run.token

AdoptOpen(st, x, h, r) == x.owner = h.run.token /\ (st = "up" => Named(x, r))

\* with the mutex free: an adopted owner is in the row, or its write comes next
Closed(st, base, x, q, r) ==
  st = "up" => /\ Named(x, r)
               /\ base = "up" => Stored(x, r) \/ (q # <<>> /\ Head(q).op = "adopt")

\* of one session: its status, its base's status, its fields, its queue, the operation in
\* its mutex, its row and the two histories
Good(st, base, x, q, h, r, p, bar) ==
  /\ Typed(st, x, q, h, r, p, bar)
  /\ st = "new" => Untouched(x, q, h, p, bar)
  /\ x.owner # NoToken => ProvedBeat(x, x.owner, p)
  /\ bar \subseteq x.claims
  /\ h = NoOp => Closed(st, base, x, q, r)
  /\ h # NoOp /\ h.run.op = "claim" => ClaimOpen(st, x, h, r, p, bar)
  /\ h # NoOp /\ h.run.op = "release" => ReleaseOpen(st, x, h, r, p)
  /\ h # NoOp /\ h.run.op = "adopt" => AdoptOpen(st, x, h, r)

GoodAt(s) ==
  Good(status[s], status[Main], ses[s], queue[s], holder[s], row[s], proof[s], barred[s])

\* labels are created under their base
BaseFirst == status[Main] = "new" => \A s \in Sessions : status[s] = "new"

IInv == TypeOK /\ BaseFirst /\ \A s \in Sessions : GoodAt(s)
-----------------------------------------------------------------------------
(* Fields *)

\* The constants are numbers, and the ages an interval of them.
LEMMA Numbers ==
  /\ Lease \in Nat /\ Grace \in Nat /\ FirstGrace \in Nat /\ MaxQueue \in Nat /\ MaxRestarts \in Nat
  /\ FirstGrace <= Lease + Grace
  /\ Cap \in Nat /\ Cap = Lease + Grace + 1 /\ NoAge = Cap + 1 /\ NoAge \notin Ages /\ 0 \in Ages /\ Cap \in Ages
  /\ \A a \in Ages : a \in Nat /\ a <= Cap
  /\ \A a \in Nat : a <= Cap => a \in Ages
<1>1. Lease \in Nat /\ Grace \in Nat /\ FirstGrace \in Nat /\ MaxQueue \in Nat /\ MaxRestarts \in Nat
      /\ FirstGrace <= Lease + Grace
  BY LivenessAssumption
<1> QED BY <1>1 DEF Cap, NoAge, Ages

\* The age of a stamp after a tick.
LEMMA OlderAges ==
  /\ \A a \in Ages : Older(a) \in Ages /\ (a < Cap => Older(a) = a + 1) /\ (a >= Cap => Older(a) = Cap)
  /\ Older(NoAge) = NoAge
BY Numbers DEF Older

\* recordHeartbeat stamps the lease and leaves owner and claims alone.
LEMMA RecordedFields ==
  ASSUME NEW x \in Session
  PROVE  /\ Recorded(x) \in Session
         /\ Recorded(x).owner = x.owner /\ Recorded(x).claims = x.claims
         /\ Recorded(x).lease = 0 /\ Recorded(x).heard = TRUE /\ Recorded(x).waiting = NoAge
BY Numbers DEF Recorded, Session

\* An adoption changes the owner.
LEMMA AdoptedFields ==
  ASSUME NEW x \in Session, NEW t \in Tokens
  PROVE  /\ Adopted(x, t) \in Session
         /\ Adopted(x, t).owner = t /\ Adopted(x, t).claims = x.claims
BY Numbers DEF Adopted, Session

\* takeLivenessOwnership makes the claimant a processed owner with a fresh lease.
LEMMA TakenFields ==
  ASSUME NEW x \in Session, NEW t \in Tokens
  PROVE  /\ Taken(x, t) \in Session
         /\ Taken(x, t).owner = t /\ Taken(x, t).claims = x.claims \cup {t}
         /\ Taken(x, t).lease = 0 /\ Taken(x, t).heard = TRUE /\ Taken(x, t).waiting = NoAge
BY Numbers, ZenonT(60) DEF Taken, Session

\* releaseLivenessOwnership remembers the token it clears.
LEMMA ReleasedFields ==
  ASSUME NEW x \in Session, NEW t \in Tokens
  PROVE  /\ Released(x, t) \in Session
         /\ Released(x, t).owner = NoToken /\ Released(x, t).claims = x.claims \cup {t}
         /\ Released(x, t).lease = x.lease /\ Released(x, t).heard = x.heard
         /\ Released(x, t).waiting = x.waiting
BY Numbers DEF Released, Session

\* A tick ages every stamp and nothing else.
LEMMA AgedFields ==
  ASSUME NEW x \in Session
  PROVE  /\ Aged(x) \in Session
         /\ Aged(x).owner = x.owner /\ Aged(x).claims = x.claims /\ Aged(x).heard = x.heard
         /\ Aged(x).lease = Older(x.lease) /\ Aged(x).waiting = Older(x.waiting)
<1>1. \A a \in Ages \cup {NoAge} : Older(a) \in Ages \cup {NoAge}
  BY OlderAges
<1>2. \A a \in Ages : Older(a) \in Ages
  BY OlderAges
<1> QED BY <1>1, <1>2 DEF Aged, Session

\* The lease of a session is no older than the proof, after a tick as before it.
LEMMA AgedProof ==
  ASSUME NEW x \in Session, NEW t \in Tokens, NEW p \in [Tokens -> Ages], ProvedBeat(x, t, p),
         NEW o, o = [u \in Tokens |-> Older(p[u])]
  PROVE  o \in [Tokens -> Ages] /\ ProvedBeat(Aged(x), t, o)
<1>1. o \in [Tokens -> Ages] /\ o[t] = Older(p[t]) /\ p[t] \in Ages
  BY OlderAges
<1>2. ASSUME o[t] < Cap PROVE p[t] < Cap /\ o[t] = p[t] + 1
  <2>1. (p[t] < Cap => o[t] = p[t] + 1) /\ (p[t] >= Cap => o[t] = Cap)
    BY <1>1, OlderAges
  <2>2. p[t] \in Nat /\ Cap \in Nat
    BY <1>1, Numbers
  <2> QED BY <2>1, <2>2, <1>2
<1>3. ASSUME o[t] < Cap
      PROVE  Aged(x).lease \in Ages /\ Aged(x).lease <= o[t] /\ Aged(x).heard = TRUE /\ Aged(x).waiting = NoAge
  <2>1. x.lease \in Ages /\ x.lease <= p[t] /\ x.heard = TRUE /\ x.waiting = NoAge
    BY <1>2, <1>3 DEF ProvedBeat
  <2>2. x.lease \in Nat /\ p[t] \in Nat /\ Cap \in Nat /\ p[t] < Cap /\ o[t] = p[t] + 1
    BY <2>1, <1>1, <1>2, <1>3, Numbers
  <2>3. x.lease < Cap
    BY <2>1, <2>2
  <2>4. Older(x.lease) = x.lease + 1 /\ Older(x.lease) \in Ages
    BY <2>1, <2>3, OlderAges
  <2>5. x.lease + 1 <= o[t]
    BY <2>1, <2>2
  <2> QED BY <2>1, <2>4, <2>5, AgedFields, OlderAges
<1> QED BY <1>1, <1>3 DEF ProvedBeat

\* the mark of an activity on an operation under way
Touch(h) == IF h = NoOp THEN NoOp ELSE [h EXCEPT !.moved = TRUE]

\* Only the mark of an operation under way changes.
LEMMA TouchFields ==
  ASSUME NEW h \in Writes \cup {NoOp}
  PROVE  /\ Touch(h) \in Writes \cup {NoOp} /\ (Touch(h) = NoOp <=> h = NoOp)
         /\ h # NoOp => /\ Touch(h).run = h.run /\ Touch(h).before = h.before /\ Touch(h).moved = TRUE
                        /\ h.run \in Operations /\ h.before \in Session /\ h.moved \in BOOLEAN
BY LivenessAssumption DEF Touch, Writes

-----------------------------------------------------------------------------
(* What the steps do to one session *)

\* A heartbeat of the owner proves it alive, whatever is inside the mutex.
LEMMA RecordGood ==
  ASSUME NEW st, NEW base, NEW x, NEW q, NEW h, NEW r, NEW p, NEW bar,
         Good(st, base, x, q, h, r, p, bar), st # "new", NEW t \in Tokens, x.owner = t
  PROVE  Good(st, base, Recorded(x), q, Touch(h), r, [p EXCEPT ![t] = 0], bar)
<1> DEFINE y == Recorded(x)
           g == Touch(h)
           o == [p EXCEPT ![t] = 0]
<1>1. Typed(st, x, q, h, r, p, bar) /\ x \in Session /\ h \in Writes \cup {NoOp} /\ NoToken \notin Tokens
  BY LivenessAssumption DEF Good, Typed
<1>2. /\ y \in Session /\ y.owner = x.owner /\ y.claims = x.claims
      /\ y.lease = 0 /\ y.heard = TRUE /\ y.waiting = NoAge
  BY <1>1, RecordedFields
<1>3. /\ g \in Writes \cup {NoOp} /\ (g = NoOp <=> h = NoOp)
      /\ h # NoOp => g.run = h.run /\ g.before = h.before /\ g.moved = TRUE
  BY <1>1, TouchFields
<1>4. o \in [Tokens -> Ages] /\ o[t] = 0
  BY <1>1, Numbers DEF Typed
<1> HIDE DEF y, g, o
<1>5. ProvedBeat(y, y.owner, o)
  BY <1>2, <1>4, Numbers DEF ProvedBeat
<1>6. Typed(st, y, q, g, r, o, bar)
  BY <1>1, <1>2, <1>3, <1>4 DEF Typed
<1>7. ASSUME g = NoOp PROVE Closed(st, base, y, q, r)
  BY <1>2, <1>3, <1>7 DEF Good, Closed, Named, Stored
<1>8. ASSUME g # NoOp, g.run.op = "claim" PROVE ClaimOpen(st, y, g, r, o, bar)
  BY <1>2, <1>3, <1>8 DEF Good, ClaimOpen
<1>9. ASSUME g # NoOp, g.run.op = "release" PROVE ReleaseOpen(st, y, g, r, o)
  BY <1>1, <1>3, <1>9 DEF Good, ReleaseOpen
<1>10. ASSUME g # NoOp, g.run.op = "adopt" PROVE AdoptOpen(st, y, g, r)
  BY <1>2, <1>3, <1>10 DEF Good, AdoptOpen, Named
<1>11. Good(st, base, y, q, g, r, o, bar)
  BY <1>2, <1>5, <1>6, <1>7, <1>8, <1>9, <1>10 DEF Good
<1> QED BY <1>11 DEF y, g, o

\* Where the first of a queue comes from.
LEMMA Appended ==
  ASSUME NEW q \in Seq(Operations), NEW e \in Operations
  PROVE  /\ Append(q, e) \in Seq(Operations) /\ Len(Append(q, e)) = Len(q) + 1
         /\ Append(q, e) # <<>>
         /\ q # <<>> => Head(Append(q, e)) = Head(q)
         /\ q = <<>> => Head(Append(q, e)) = e
BY AppendProperties, HeadTailAppend

\* An operation joins the queue; the first one stays the first.
LEMMA AppendGood ==
  ASSUME NEW st, NEW base, NEW x, NEW q, NEW h, NEW r, NEW p, NEW bar,
         Good(st, base, x, q, h, r, p, bar), st # "new", Len(q) < MaxQueue, NEW e \in Operations
  PROVE  Good(st, base, x, Append(q, e), h, r, p, bar)
<1> DEFINE a == Append(q, e)
<1>1. q \in Seq(Operations)
  BY DEF Good, Typed
<1>2. a \in Seq(Operations) /\ Len(a) = Len(q) + 1 /\ a # <<>> /\ (q # <<>> => Head(a) = Head(q))
  BY <1>1, Appended
<1> HIDE DEF a
<1>3. Typed(st, x, a, h, r, p, bar)
  BY <1>1, <1>2, Numbers DEF Good, Typed
<1>4. h = NoOp => Closed(st, base, x, a, r)
  BY <1>2 DEF Good, Closed
<1>5. Good(st, base, x, a, h, r, p, bar)
  BY <1>3, <1>4 DEF Good
<1> QED BY <1>5 DEF a

\* A keeper's tick adopts a session only while nothing waits for its mutex; its write is next.
LEMMA AdoptGood ==
  ASSUME NEW st, NEW base, NEW x, NEW q, NEW h, NEW r, NEW p, NEW bar,
         Good(st, base, x, q, h, r, p, bar), st # "new", Len(q) < MaxQueue, NEW t \in Tokens,
         x.owner = NoToken, x.claims = {}, h = NoOp => q = <<>>
  PROVE  /\ h = NoOp
         /\ Good(st, base, Recorded(Adopted(x, t)), Append(q, [op |-> "adopt", token |-> t]), h, r,
                 [p EXCEPT ![t] = 0], bar)
<1> DEFINE e == [op |-> "adopt", token |-> t]
           a == Append(q, e)
           y == Recorded(Adopted(x, t))
           o == [p EXCEPT ![t] = 0]
<1>1. /\ Typed(st, x, q, h, r, p, bar) /\ x \in Session /\ h \in Writes \cup {NoOp}
      /\ NoToken \notin Tokens
  BY LivenessAssumption DEF Good, Typed
<1>2. h = NoOp
  BY <1>1, TouchFields DEF Good, ClaimOpen, ReleaseOpen, AdoptOpen, Operations
<1>3. /\ y \in Session /\ y.owner = t /\ y.claims = {}
      /\ y.lease = 0 /\ y.heard = TRUE /\ y.waiting = NoAge
  BY <1>1, RecordedFields, AdoptedFields
<1>4. e \in Operations /\ e.op = "adopt"
  BY DEF Operations
<1> HIDE DEF e
<1>5. a \in Seq(Operations) /\ Len(a) <= MaxQueue /\ a # <<>> /\ Head(a) = e
  <2>1. q \in Seq(Operations) /\ q = <<>>
    BY <1>1, <1>2 DEF Typed
  <2>2. a \in Seq(Operations) /\ Len(a) = Len(q) + 1 /\ a # <<>> /\ Head(a) = e
    BY <2>1, <1>4, Appended
  <2>3. Len(q) \in Nat
    BY <2>1
  <2> HIDE DEF a
  <2> QED BY <2>2, <2>3, Numbers
<1>6. o \in [Tokens -> Ages] /\ o[t] = 0
  BY <1>1, Numbers DEF Typed
<1> HIDE DEF a, y, o
<1>7. ProvedBeat(y, y.owner, o)
  BY <1>3, <1>6, Numbers DEF ProvedBeat
<1>8. Typed(st, y, a, h, r, o, bar)
  BY <1>1, <1>3, <1>5, <1>6 DEF Typed
<1>9. Closed(st, base, y, a, r)
  BY <1>3, <1>4, <1>5 DEF Closed, Named
<1>10. bar \subseteq y.claims
  BY <1>3 DEF Good
<1>11. Good(st, base, y, a, h, r, o, bar)
  BY <1>2, <1>7, <1>8, <1>9, <1>10 DEF Good
<1> QED BY <1>2, <1>11 DEF a, y, o, e

\* A control call refreshes what tool calls refresh.
LEMMA ToolGood ==
  ASSUME NEW st, NEW base, NEW x, NEW q, NEW h, NEW r, NEW p, NEW bar,
         Good(st, base, x, q, h, r, p, bar), st # "new"
  PROVE  Good(st, base, [x EXCEPT !.beat = 0, !.waiting = NoAge], q, Touch(h), r, p, bar)
<1> DEFINE y == [x EXCEPT !.beat = 0, !.waiting = NoAge]
           g == Touch(h)
<1>1. /\ Typed(st, x, q, h, r, p, bar) /\ x \in Session /\ h \in Writes \cup {NoOp}
  BY DEF Good, Typed
<1>2. /\ y \in Session /\ y.owner = x.owner /\ y.claims = x.claims
      /\ y.lease = x.lease /\ y.heard = x.heard /\ y.waiting = NoAge
  BY <1>1, Numbers DEF Session
<1>3. /\ g \in Writes \cup {NoOp} /\ (g = NoOp <=> h = NoOp)
      /\ h # NoOp => g.run = h.run /\ g.before = h.before /\ g.moved = TRUE
  BY <1>1, TouchFields
<1> HIDE DEF y, g
<1>4. \A t : ProvedBeat(x, t, p) => ProvedBeat(y, t, p)
  BY <1>2 DEF ProvedBeat
<1>6. Typed(st, y, q, g, r, p, bar)
  BY <1>1, <1>2, <1>3 DEF Typed
<1>7. ASSUME g = NoOp PROVE Closed(st, base, y, q, r)
  BY <1>2, <1>3, <1>7 DEF Good, Closed, Named, Stored
<1>8. ASSUME g # NoOp, g.run.op = "claim" PROVE ClaimOpen(st, y, g, r, p, bar)
  BY <1>2, <1>3, <1>8 DEF Good, ClaimOpen
<1>9. ASSUME g # NoOp, g.run.op = "release" PROVE ReleaseOpen(st, y, g, r, p)
  BY <1>2, <1>3, <1>4, <1>9 DEF Good, ReleaseOpen
<1>10. ASSUME g # NoOp, g.run.op = "adopt" PROVE AdoptOpen(st, y, g, r)
  BY <1>2, <1>3, <1>10 DEF Good, AdoptOpen, Named
<1>11. Good(st, base, y, q, g, r, p, bar)
  BY <1>2, <1>4, <1>6, <1>7, <1>8, <1>9, <1>10 DEF Good
<1> QED BY <1>11 DEF y, g

\* An operation that has nothing to do leaves the queue.
LEMMA DropGood ==
  ASSUME NEW st, NEW base, NEW x, NEW q, NEW h, NEW r, NEW p, NEW bar,
         Good(st, base, x, q, h, r, p, bar), h = NoOp, q # <<>>,
         Head(q).op # "adopt" \/ x.owner = NoToken \/ st # "up" \/ base # "up"
  PROVE  /\ st # "new"
         /\ Head(q) \in Operations
         /\ Good(st, base, x, Tail(q), h, r, p, bar)
         /\ st = "up" /\ base = "up" => Named(x, r) /\ Stored(x, r)
<1> DEFINE a == Tail(q)
<1>1. q \in Seq(Operations)
  BY DEF Good, Typed
<1>2. a \in Seq(Operations) /\ Len(a) <= Len(q) /\ Head(q) \in Operations
  BY <1>1
<1> HIDE DEF a
<1>3. Typed(st, x, a, h, r, p, bar) /\ st # "new"
  BY <1>1, <1>2, Numbers DEF Good, Typed, Untouched
<1>4. st = "up" /\ base = "up" => Named(x, r) /\ Stored(x, r)
  BY DEF Good, Closed, Stored
<1>5. Closed(st, base, x, a, r)
  BY <1>4 DEF Good, Closed
<1>6. Good(st, base, x, a, h, r, p, bar)
  BY <1>3, <1>5 DEF Good
<1> QED BY <1>2, <1>3, <1>4, <1>6 DEF a

\* an operation that enters the mutex
Begun(k, t, x) == [run |-> [op |-> k, token |-> t], before |-> x, moved |-> FALSE]

\* A claim takes the session over before its write: what it found is kept for the roll-back.
LEMMA EnterClaimGood ==
  ASSUME NEW st, NEW base, NEW x, NEW q, NEW h, NEW r, NEW p, NEW bar,
         Good(st, base, x, q, h, r, p, bar), h = NoOp, q # <<>>, st = "up" => base = "up",
         NEW t \in Tokens, Head(q).op = "claim", NEW o, o = IF x.owner = t THEN p ELSE [p EXCEPT ![t] = 0],
         NEW g, g = Begun("claim", t, x)
  PROVE  st # "new" /\ Good(st, base, Taken(x, t), Tail(q), g, r, o, bar)
<1> DEFINE y == Taken(x, t)
           a == Tail(q)
<1>1. /\ Typed(st, x, q, h, r, p, bar) /\ x \in Session /\ h \in Writes \cup {NoOp}
      /\ NoToken \notin Tokens /\ p \in [Tokens -> Ages] /\ bar \subseteq x.claims
  BY LivenessAssumption DEF Good, Typed
<1>2. /\ y \in Session /\ y.owner = t /\ y.claims = x.claims \cup {t}
      /\ y.lease = 0 /\ y.heard = TRUE /\ y.waiting = NoAge
  BY <1>1, TakenFields
<1>3. /\ g \in Writes /\ g # NoOp /\ g.run.op = "claim" /\ g.run.token = t
      /\ g.before = x /\ g.moved = FALSE
  <2>1. g \in Writes
    BY <1>1 DEF Begun, Writes, Operations
  <2>2. g # NoOp
    BY <2>1, LivenessAssumption
  <2> QED BY <2>1, <2>2 DEF Begun
<1>4. st # "new" /\ Good(st, base, x, a, h, r, p, bar) /\ (st = "up" => Named(x, r) /\ Stored(x, r))
  BY DropGood
<1>5. o \in [Tokens -> Ages] /\ \A u \in Tokens : u # t => o[u] = p[u]
  BY <1>1, Numbers
<1>6. x.owner = t => o = p
  OBVIOUS
<1>7. x.owner # t => o[t] = 0
  BY <1>1
<1> HIDE DEF y, a
<1>8. ProvedBeat(y, y.owner, o)
  <2>1. o[t] \in Nat
    BY <1>5, Numbers
  <2> QED BY <2>1, <1>2, Numbers DEF ProvedBeat
<1>9. x.owner # NoToken => ProvedBeat(x, x.owner, o)
  <2>1. x.owner # NoToken => x.owner \in Tokens /\ ProvedBeat(x, x.owner, p)
    BY <1>1 DEF Good, Session
  <2>2. x.owner # NoToken => o[x.owner] = p[x.owner] \/ x.owner = t
    BY <2>1, <1>5
  <2> QED BY <2>1, <2>2, <1>6 DEF ProvedBeat
<1>10. Typed(st, y, a, g, r, o, bar)
  BY <1>2, <1>3, <1>4, <1>5 DEF Good, Typed
<1>11. ClaimOpen(st, y, g, r, o, bar)
  BY <1>1, <1>2, <1>3, <1>4, <1>9 DEF ClaimOpen
<1>12. Good(st, base, y, a, g, r, o, bar)
  BY <1>1, <1>2, <1>3, <1>4, <1>8, <1>10, <1>11 DEF Good
<1> QED BY <1>4, <1>12 DEF y, a

\* A release fences the keepers' ticks before its write.
LEMMA EnterReleaseGood ==
  ASSUME NEW st, NEW base, NEW x, NEW q, NEW h, NEW r, NEW p, NEW bar,
         Good(st, base, x, q, h, r, p, bar), h = NoOp, q # <<>>, st = "up", base = "up",
         NEW t \in Tokens, Head(q).op = "release", x.owner = t,
         NEW g, g = Begun("release", t, x)
  PROVE  Good(st, base, Released(x, t), Tail(q), g, r, p, bar \cup {t})
<1> DEFINE y == Released(x, t)
           a == Tail(q)
           z == bar \cup {t}
<1>1. /\ Typed(st, x, q, h, r, p, bar) /\ x \in Session /\ h \in Writes \cup {NoOp}
      /\ NoToken \notin Tokens /\ p \in [Tokens -> Ages] /\ bar \subseteq x.claims
      /\ bar \subseteq Tokens
  BY LivenessAssumption DEF Good, Typed
<1>2. /\ y \in Session /\ y.owner = NoToken /\ y.claims = x.claims \cup {t}
      /\ y.lease = x.lease /\ y.heard = x.heard /\ y.waiting = x.waiting
  BY <1>1, ReleasedFields
<1>3. /\ g \in Writes /\ g # NoOp /\ g.run.op = "release" /\ g.run.token = t
  <2>1. g \in Writes
    BY <1>1 DEF Begun, Writes, Operations
  <2>2. g # NoOp
    BY <2>1, LivenessAssumption
  <2> QED BY <2>1, <2>2 DEF Begun
<1>4. st # "new" /\ Good(st, base, x, a, h, r, p, bar) /\ Named(x, r) /\ Stored(x, r)
  BY DropGood
<1>5. z \subseteq Tokens /\ z \subseteq y.claims
  BY <1>1, <1>2
<1> HIDE DEF y, a, z
<1>6. ProvedBeat(y, t, p)
  BY <1>1, <1>2 DEF Good, ProvedBeat
<1>7. OneWriteLands /\ "release" \in FailOps => r = t
  BY <1>1, <1>4 DEF Stored, OneWriteLands
<1>8. Typed(st, y, a, g, r, p, z)
  BY <1>1, <1>2, <1>3, <1>4, <1>5 DEF Good, Typed
<1>9. ReleaseOpen(st, y, g, r, p)
  BY <1>2, <1>3, <1>6, <1>7 DEF ReleaseOpen
<1>10. Good(st, base, y, a, g, r, p, z)
  BY <1>2, <1>3, <1>4, <1>5, <1>8, <1>9 DEF Good
<1> QED BY <1>10 DEF y, a, z

\* An adoption's write stores the owner it reads under the mutex.
LEMMA EnterAdoptGood ==
  ASSUME NEW st, NEW base, NEW x, NEW q, NEW h, NEW r, NEW p, NEW bar,
         Good(st, base, x, q, h, r, p, bar), h = NoOp, q # <<>>, st = "up", x.owner # NoToken,
         NEW g, g = Begun("adopt", x.owner, x)
  PROVE  Good(st, base, x, Tail(q), g, r, p, bar)
<1> DEFINE a == Tail(q)
<1>1. Typed(st, x, q, h, r, p, bar) /\ x \in Session /\ x.owner \in Tokens /\ q \in Seq(Operations)
  BY LivenessAssumption DEF Good, Typed, Session
<1>2. /\ g \in Writes /\ g # NoOp /\ g.run.op = "adopt" /\ g.run.token = x.owner
  <2>1. g \in Writes
    BY <1>1 DEF Begun, Writes, Operations
  <2>2. g # NoOp
    BY <2>1, LivenessAssumption
  <2> QED BY <2>1, <2>2 DEF Begun
<1>3. a \in Seq(Operations) /\ Len(a) <= Len(q) /\ Len(a) \in Nat /\ Len(q) \in Nat
  BY <1>1
<1> HIDE DEF a
<1>4. Typed(st, x, a, g, r, p, bar)
  BY <1>1, <1>2, <1>3, Numbers DEF Typed
<1>5. AdoptOpen(st, x, g, r)
  BY <1>2 DEF Good, Closed, AdoptOpen
<1>6. Good(st, base, x, a, g, r, p, bar)
  BY <1>2, <1>4, <1>5 DEF Good
<1> QED BY <1>6 DEF a

\* The fields of an operation under way.
LEMMA HolderFields ==
  ASSUME NEW st, NEW base, NEW x, NEW q, NEW h, NEW r, NEW p, NEW bar,
         Good(st, base, x, q, h, r, p, bar), h # NoOp
  PROVE  /\ st # "new" /\ x \in Session /\ p \in [Tokens -> Ages] /\ bar \subseteq Tokens
         /\ r \in Tokens \cup {NoToken} /\ NoToken \notin Tokens /\ bar \subseteq x.claims
         /\ x.claims \subseteq Tokens
         /\ h.run.token \in Tokens /\ h.run.op \in {"claim", "release", "adopt"}
         /\ h.before \in Session /\ h.moved \in BOOLEAN
<1>1. Typed(st, x, q, h, r, p, bar) /\ st # "new" /\ h \in Writes /\ bar \subseteq x.claims
  BY DEF Good, Typed, Untouched
<1>2. h.run \in Operations /\ h.before \in Session /\ h.moved \in BOOLEAN
  BY <1>1 DEF Writes
<1>3. x \in Session
  BY <1>1 DEF Typed
<1> QED BY <1>1, <1>2, <1>3, LivenessAssumption DEF Typed, Session, Operations

\* the row, the fields and the histories after a write that lands
Landed(x, h, p, bar, y, v, o, z) ==
  /\ v = IF h.run.op = "release" THEN NoToken ELSE h.run.token
  /\ \/ y = x /\ o = p
     \/ h.run.op = "claim" /\ y = Recorded(x) /\ o = [p EXCEPT ![h.run.token] = 0]
  /\ z = IF h.run.op = "claim"
         THEN (bar \cup ({h.before.owner} \cap h.before.claims)) \ {h.run.token}
         ELSE bar

\* A write that lands names the owner; the owner a claim displaced is barred.
LEMMA WriteOkGood ==
  ASSUME NEW st, NEW base, NEW x, NEW q, NEW h, NEW r, NEW p, NEW bar,
         Good(st, base, x, q, h, r, p, bar), h # NoOp,
         NEW y, NEW v, NEW o, NEW z, Landed(x, h, p, bar, y, v, o, z)
  PROVE  Good(st, base, y, q, NoOp, v, o, z)
<1> DEFINE t == h.run.token
<1> USE DEF Landed
<1>1. /\ st # "new" /\ x \in Session /\ p \in [Tokens -> Ages] /\ bar \subseteq Tokens
      /\ r \in Tokens \cup {NoToken} /\ NoToken \notin Tokens /\ bar \subseteq x.claims
      /\ x.claims \subseteq Tokens
      /\ t \in Tokens /\ h.run.op \in {"claim", "release", "adopt"}
  BY HolderFields
<1>2. y \in Session /\ y.owner = x.owner /\ y.claims = x.claims
  BY <1>1, RecordedFields
<1>3. o \in [Tokens -> Ages]
  BY <1>1, Numbers
<1>4. v \in Tokens \cup {NoToken}
  BY <1>1
<1>5. z \subseteq x.claims
  BY <1>1 DEF Good, ClaimOpen
<1>6. Typed(st, y, q, NoOp, v, o, z)
  BY <1>1, <1>2, <1>3, <1>4, <1>5 DEF Good, Typed
<1>7. x.owner # NoToken => ProvedBeat(y, y.owner, o)
  <2>1. CASE y = x /\ o = p
    BY <2>1 DEF Good
  <2>2. CASE h.run.op = "claim" /\ y = Recorded(x) /\ o = [p EXCEPT ![t] = 0]
    <3>1. x.owner = t
      BY <2>2 DEF Good, ClaimOpen
    <3>2. o[t] = 0 /\ y.lease = 0 /\ y.heard = TRUE /\ y.waiting = NoAge /\ y.owner = t
      BY <3>1, <2>2, <1>1, RecordedFields
    <3> QED BY <3>2, Numbers DEF ProvedBeat
  <2> QED BY <2>1, <2>2
<1>8. x.owner = NoToken \/ v = x.owner
  BY <1>1 DEF Good, ClaimOpen, ReleaseOpen, AdoptOpen
<1>9. Closed(st, base, y, q, v)
  BY <1>1, <1>2, <1>8 DEF Closed, Named, Stored
<1> QED BY <1>1, <1>2, <1>5, <1>6, <1>7, <1>9 DEF Good

\* what a claim whose write failed puts back
PutBack(y, x, h) ==
  /\ y \in Session /\ y.owner = h.before.owner /\ y.lease = h.before.lease
  /\ y.claims = (IF h.run.token \in h.before.claims THEN x.claims ELSE x.claims \ {h.run.token})
  /\ h.moved = FALSE => y.heard = h.before.heard /\ y.waiting = h.before.waiting

\* the fields and the histories after a write that fails
Failed(x, h, p, bar, y, o, z) ==
  /\ h.run.op = "claim" =>
       /\ PutBack(y, x, h) /\ z = bar
       /\ h.moved = TRUE => o = Unproved
       /\ h.moved = FALSE /\ h.before.owner # h.run.token => o = [p EXCEPT ![h.run.token] = Cap]
       /\ h.moved = FALSE /\ h.before.owner = h.run.token => o = p
  /\ h.run.op = "release" =>
       /\ y = [x EXCEPT !.owner = h.run.token, !.bound = h.before.bound]
       /\ o = p /\ z = bar \ {h.run.token}
  /\ h.run.op = "adopt" => y = x /\ o = p /\ z = bar

\* A write that fails puts back what its operation found.
LEMMA WriteFailsGood ==
  ASSUME NEW st, NEW base, NEW x, NEW q, NEW h, NEW r, NEW p, NEW bar,
         Good(st, base, x, q, h, r, p, bar), h # NoOp, h.run.op \in FailOps \/ st # "up",
         NEW y, NEW o, NEW z, Failed(x, h, p, bar, y, o, z)
  PROVE  Good(st, base, y, q, NoOp, r, o, z)
<1> DEFINE t == h.run.token
           b == h.before
<1> USE DEF Failed
<1>1. /\ st # "new" /\ x \in Session /\ p \in [Tokens -> Ages] /\ bar \subseteq Tokens
      /\ r \in Tokens \cup {NoToken} /\ NoToken \notin Tokens /\ bar \subseteq x.claims
      /\ x.claims \subseteq Tokens
      /\ t \in Tokens /\ h.run.op \in {"claim", "release", "adopt"}
      /\ b \in Session /\ h.moved \in BOOLEAN
  BY HolderFields
<1>2. SUFFICES /\ y \in Session /\ o \in [Tokens -> Ages] /\ z \subseteq Tokens /\ z \subseteq y.claims
               /\ y.owner # NoToken => ProvedBeat(y, y.owner, o)
               /\ Closed(st, base, y, q, r)
  <2>1. Typed(st, y, q, NoOp, r, o, z)
    BY <1>1, <1>2 DEF Good, Typed
  <2> QED BY <2>1, <1>1, <1>2 DEF Good
<1>3. CASE h.run.op = "claim"
  <2>1. ClaimOpen(st, x, h, r, p, bar)
    BY <1>3 DEF Good
  <2>2. /\ y \in Session /\ y.owner = b.owner /\ y.lease = b.lease
        /\ y.claims = (IF t \in b.claims THEN x.claims ELSE x.claims \ {t})
        /\ h.moved = FALSE => y.heard = b.heard /\ y.waiting = b.waiting
    BY <1>3 DEF PutBack
  <2>3. y.claims = b.claims
    BY <2>1, <2>2, SMTT(30) DEF ClaimOpen
  <2>4. z \subseteq y.claims /\ z \subseteq Tokens
    BY <1>1, <1>3, <2>1, <2>3 DEF ClaimOpen
  <2>5. Unproved \in [Tokens -> Ages] /\ \A u \in Tokens : Unproved[u] = Cap
    BY Numbers DEF Unproved
  <2>6. o \in [Tokens -> Ages]
    BY <1>1, <1>3, <2>5, Numbers
  <2>7. b.owner # NoToken => b.owner \in Tokens
    BY <1>1 DEF Session
  <2>8. ASSUME b.owner # NoToken PROVE ProvedBeat(y, b.owner, o)
    <3>1. CASE h.moved = TRUE
      BY <3>1, <2>5, <2>7, <2>8, <1>3, Numbers DEF ProvedBeat
    <3>2. CASE h.moved = FALSE
      <4>1. ProvedBeat(b, b.owner, p)
        BY <2>1, <2>8, <3>2 DEF ClaimOpen
      <4>2. o[b.owner] = p[b.owner]
        BY <1>1, <1>3, <2>7, <2>8, <3>2
      <4> QED BY <4>1, <4>2, <2>2, <3>2 DEF ProvedBeat
    <3> QED BY <3>1, <3>2, <1>1
  <2>9. Closed(st, base, y, q, r)
    BY <2>1, <2>2, <2>3 DEF ClaimOpen, Closed, Named, Stored
  <2> QED BY <2>2, <2>4, <2>6, <2>8, <2>9
<1>4. CASE h.run.op = "release"
  <2>1. ReleaseOpen(st, x, h, r, p)
    BY <1>4 DEF Good
  <2>2. /\ y \in Session /\ y.owner = t /\ y.claims = x.claims /\ y.lease = x.lease
        /\ y.heard = x.heard /\ y.waiting = x.waiting
    BY <1>1, <1>4, ZenonT(60) DEF Session
  <2>3. ProvedBeat(y, t, p)
    BY <2>1, <2>2 DEF ReleaseOpen, ProvedBeat
  <2>4. Closed(st, base, y, q, r)
    BY <2>1, <2>2, <1>4 DEF ReleaseOpen, Closed, Named, Stored, OneWriteLands
  <2> QED BY <2>2, <2>3, <2>4, <1>1, <1>4
<1>5. CASE h.run.op = "adopt"
  <2>1. AdoptOpen(st, x, h, r)
    BY <1>5 DEF Good
  <2>2. Closed(st, base, x, q, r)
    BY <2>1, <1>5 DEF AdoptOpen, Closed, Stored
  <2>3. x.owner # NoToken => ProvedBeat(x, x.owner, p)
    BY DEF Good
  <2> QED BY <2>2, <2>3, <1>1, <1>5
<1> QED BY <1>1, <1>3, <1>4, <1>5

\* the operation under way after a tick
AgedHolder(h) == IF h = NoOp THEN NoOp ELSE [h EXCEPT !.before = Aged(@)]

\* A tick ages the session, what a roll-back would put back, and the proofs alike.
LEMMA TickGood ==
  ASSUME NEW st, NEW base, NEW x, NEW q, NEW h, NEW r, NEW p, NEW bar,
         Good(st, base, x, q, h, r, p, bar),
         NEW y, y = IF st = "new" THEN x ELSE Aged(x),
         NEW o, o = [u \in Tokens |-> Older(p[u])]
  PROVE  Good(st, base, y, q, AgedHolder(h), r, o, bar)
<1> DEFINE g == AgedHolder(h)
<1>1. /\ Typed(st, x, q, h, r, p, bar) /\ x \in Session /\ h \in Writes \cup {NoOp}
      /\ p \in [Tokens -> Ages] /\ NoToken \notin Tokens
  BY LivenessAssumption DEF Good, Typed
<1>2. o \in [Tokens -> Ages]
  BY <1>1, OlderAges
<1>3. CASE st = "new"
  <2>1. x = Fresh /\ q = <<>> /\ h = NoOp /\ p = Unproved /\ bar = {}
    BY <1>3 DEF Good, Untouched
  <2>2. Older(Cap) = Cap
    BY OlderAges, Numbers
  <2>3. o = Unproved
    BY <2>1, <2>2 DEF Unproved
  <2>4. g = h /\ y = x
    BY <1>3, <2>1 DEF AgedHolder
  <2> QED BY <2>1, <2>3, <2>4
<1>4. CASE st # "new"
  <2>1. /\ y \in Session /\ y.owner = x.owner /\ y.claims = x.claims
    BY <1>1, <1>4, AgedFields
  <2>2. ASSUME h # NoOp
        PROVE  /\ g \in Writes /\ g # NoOp /\ g.run = h.run /\ g.moved = h.moved /\ g.before = Aged(h.before)
               /\ h.before \in Session /\ h.run.token \in Tokens
    <3>1. h \in Writes /\ h.before \in Session /\ h.run.token \in Tokens
      BY <1>1, <2>2, HolderFields
    <3>2. g = [h EXCEPT !.before = Aged(@)]
      BY <2>2 DEF AgedHolder
    <3>3. Aged(h.before) \in Session
      BY <3>1, AgedFields
    <3>4. g \in Writes /\ g.run = h.run /\ g.moved = h.moved /\ g.before = Aged(h.before)
      BY <3>1, <3>2, <3>3 DEF Writes
    <3>5. g # NoOp
      BY <3>4, LivenessAssumption
    <3> QED BY <3>1, <3>4, <3>5
  <2>3. h = NoOp => g = NoOp
    BY DEF AgedHolder
  <2> HIDE DEF g
  <2>4. Typed(st, y, q, g, r, o, bar)
    BY <1>1, <1>2, <2>1, <2>2, <2>3 DEF Typed
  <2>5. x.owner # NoToken => ProvedBeat(y, y.owner, o)
    <3>1. x.owner # NoToken => x.owner \in Tokens /\ ProvedBeat(x, x.owner, p)
      BY <1>1 DEF Good, Session
    <3> QED BY <3>1, <1>1, <1>4, <2>1, AgedProof
  <2>6. ASSUME g = NoOp PROVE Closed(st, base, y, q, r)
    BY <2>1, <2>2, <2>6 DEF Good, Closed, Named, Stored
  <2>7. ASSUME g # NoOp, g.run.op = "claim" PROVE ClaimOpen(st, y, g, r, o, bar)
    <3>1. h # NoOp /\ ClaimOpen(st, x, h, r, p, bar)
      BY <2>2, <2>3, <2>7 DEF Good
    <3>2. g.before.owner = h.before.owner /\ g.before.claims = h.before.claims
      BY <3>1, <2>2, AgedFields
    <3>3. h.before.owner # NoToken => h.before.owner \in Tokens
      BY <3>1, <2>2 DEF Session
    <3>4. h.moved = FALSE /\ h.before.owner # NoToken => ProvedBeat(g.before, h.before.owner, o)
      BY <3>1, <3>3, <2>2, <1>1, AgedProof DEF ClaimOpen
    <3> QED BY <3>1, <3>2, <3>4, <2>1, <2>2 DEF ClaimOpen, Named, Stored
  <2>8. ASSUME g # NoOp, g.run.op = "release" PROVE ReleaseOpen(st, y, g, r, o)
    <3>1. h # NoOp /\ ReleaseOpen(st, x, h, r, p)
      BY <2>2, <2>3, <2>8 DEF Good
    <3>2. ProvedBeat(y, h.run.token, o)
      BY <3>1, <2>2, <1>1, <1>4, AgedProof DEF ReleaseOpen
    <3> QED BY <3>1, <3>2, <2>1, <2>2 DEF ReleaseOpen
  <2>9. ASSUME g # NoOp, g.run.op = "adopt" PROVE AdoptOpen(st, y, g, r)
    BY <2>1, <2>2, <2>3, <2>9 DEF Good, AdoptOpen, Named
  <2>10. Good(st, base, y, q, g, r, o, bar)
    BY <1>4, <2>1, <2>4, <2>5, <2>6, <2>7, <2>8, <2>9 DEF Good
  <2> QED BY <2>10 DEF g
<1> QED BY <1>3, <1>4

\* The base of a label comes up only before the label is there.
LEMMA BaseGood ==
  ASSUME NEW st, NEW base, NEW x, NEW q, NEW h, NEW r, NEW p, NEW bar,
         Good(st, base, x, q, h, r, p, bar), NEW next, next = "up" => base = "up" \/ st = "new"
  PROVE  Good(st, next, x, q, h, r, p, bar)
BY DEF Good, Closed

\* A session that is being released, or is gone.
LEMMA EndGood ==
  ASSUME NEW st, NEW base, NEW x, NEW q, NEW h, NEW r, NEW p, NEW bar,
         Good(st, base, x, q, h, r, p, bar), NEW to \in {"releasing", "gone"}, NEW next
  PROVE  Good(to, next, x, q, h, r, p, bar)
<1>1. Typed(to, x, q, h, r, p, bar)
  BY DEF Good, Typed
<1> QED BY <1>1 DEF Good, Closed, ClaimOpen, ReleaseOpen, AdoptOpen

\* A session that was just created.
LEMMA CreateGood ==
  ASSUME NEW base, NEW x, NEW q, NEW h, NEW r, NEW p, NEW bar,
         Good("new", base, x, q, h, r, p, bar), NEW next
  PROVE  Good("up", next, x, q, h, r, p, bar)
<1>1. /\ x = Fresh /\ q = <<>> /\ h = NoOp /\ p = Unproved /\ bar = {} /\ NoToken \notin Tokens
      /\ Typed("new", x, q, h, r, p, bar)
  BY LivenessAssumption DEF Good, Untouched
<1>2. x.owner = NoToken /\ x.claims = {}
  BY <1>1 DEF Fresh
<1>3. Closed("up", next, x, q, r)
  BY <1>1, <1>2 DEF Closed, Named, Stored
<1>4. Typed("up", x, q, h, r, p, bar)
  BY <1>1 DEF Typed
<1> QED BY <1>1, <1>2, <1>3, <1>4 DEF Good

\* The proxy that mints a session owns it before any heartbeat; the write of it is next.
LEMMA MintGood ==
  ASSUME NEW base, NEW x, NEW q, NEW h, NEW r, NEW p, NEW bar,
         Good("new", base, x, q, h, r, p, bar), NEW next, NEW t \in Tokens, Len(q) < MaxQueue
  PROVE  Good("up", next, [Adopted(x, t) EXCEPT !.bound = 0],
              Append(q, [op |-> "adopt", token |-> t]), h, r, p, bar)
<1> DEFINE e == [op |-> "adopt", token |-> t]
           a == Append(q, e)
           y == [Adopted(x, t) EXCEPT !.bound = 0]
<1>1. /\ x = Fresh /\ q = <<>> /\ h = NoOp /\ p = Unproved /\ bar = {} /\ NoToken \notin Tokens
      /\ Typed("new", x, q, h, r, p, bar) /\ x \in Session /\ q \in Seq(Operations) /\ Len(q) \in Nat
  BY LivenessAssumption DEF Good, Untouched, Typed
<1>2. x.claims = {} /\ Adopted(x, t) \in Session /\ Adopted(x, t).owner = t /\ Adopted(x, t).claims = x.claims
  BY <1>1, AdoptedFields DEF Fresh
<1>3. y \in Session /\ y.owner = t /\ y.claims = {}
  BY <1>2, Numbers DEF Session
<1>4. e \in Operations /\ e.op = "adopt"
  BY DEF Operations
<1> HIDE DEF e
<1>6. a \in Seq(Operations) /\ Len(a) = Len(q) + 1 /\ a # <<>> /\ Head(a) = e
  BY <1>1, <1>4, Appended
<1> HIDE DEF a, y
<1>7. p[t] = Cap /\ ProvedBeat(y, t, p)
  BY <1>1, Numbers DEF Unproved, ProvedBeat
<1>8. Typed("up", y, a, h, r, p, bar)
  BY <1>1, <1>3, <1>6, Numbers DEF Typed
<1>9. Closed("up", next, y, a, r)
  BY <1>3, <1>4, <1>6 DEF Closed, Named
<1>10. Good("up", next, y, a, h, r, p, bar)
  BY <1>1, <1>3, <1>7, <1>8, <1>9 DEF Good
<1> QED BY <1>10 DEF y, a, e

\* A restarted daemon serves the owner the row names, or a session nobody created yet.
LEMMA RestartGood ==
  ASSUME NEW st \in {"new", "up", "gone"}, NEW next, NEW r \in Tokens \cup {NoToken},
         NEW y, y = IF st = "new" THEN Fresh ELSE Recovered(r)
  PROVE  Good(st, next, y, <<>>, NoOp, r, Unproved, {})
<1>1. Unproved \in [Tokens -> Ages] /\ \A t \in Tokens : Unproved[t] = Cap
  BY Numbers DEF Unproved
<1>2. Fresh \in Session /\ Fresh.owner = NoToken /\ Fresh.claims = {}
  BY Numbers DEF Fresh, Session
<1>3. Recovered(r) \in Session /\ Recovered(r).owner = r
  <2>1. {r} \ {NoToken} \in SUBSET Tokens
    OBVIOUS
  <2>2. (IF r = NoToken THEN NoAge ELSE 0) \in Ages \cup {NoAge}
    BY Numbers
  <2> QED BY <2>1, <2>2, Numbers DEF Recovered, Session
<1>4. <<>> \in Seq(Operations) /\ Len(<<>>) = 0
  OBVIOUS
<1>5. Typed(st, y, <<>>, NoOp, r, Unproved, {})
  BY <1>1, <1>2, <1>3, <1>4, Numbers DEF Typed
<1>6. y.owner # NoToken => y.owner \in Tokens /\ ProvedBeat(y, y.owner, Unproved)
  BY <1>1, <1>2, <1>3, Numbers DEF ProvedBeat
<1>7. Closed(st, next, y, <<>>, r)
  BY <1>2, <1>3 DEF Closed, Named, Stored
<1> QED BY <1>2, <1>5, <1>6, <1>7 DEF Good, Untouched

-----------------------------------------------------------------------------
(* Steps *)

\* What a step leaves alone, written as the update of one session.
LEMMA Keep ==
  ASSUME TypeOK, NEW s \in Sessions
  PROVE  /\ status = [status EXCEPT ![s] = status[s]] /\ ses = [ses EXCEPT ![s] = ses[s]]
         /\ queue = [queue EXCEPT ![s] = queue[s]] /\ holder = [holder EXCEPT ![s] = holder[s]]
         /\ row = [row EXCEPT ![s] = row[s]] /\ proof = [proof EXCEPT ![s] = proof[s]]
         /\ barred = [barred EXCEPT ![s] = barred[s]]
BY DEF TypeOK

\* A step of one session keeps the invariant if it keeps it there.
LEMMA Changed ==
  ASSUME IInv, NEW s \in Sessions,
         NEW st, NEW x, NEW q, NEW h, NEW r, NEW p, NEW bar,
         status' = [status EXCEPT ![s] = st], ses' = [ses EXCEPT ![s] = x],
         queue' = [queue EXCEPT ![s] = q], holder' = [holder EXCEPT ![s] = h],
         row' = [row EXCEPT ![s] = r], proof' = [proof EXCEPT ![s] = p],
         barred' = [barred EXCEPT ![s] = bar], restarts' = restarts,
         Good(st, IF s = Main THEN st ELSE status[Main], x, q, h, r, p, bar),
         st = "new" => status[s] = "new",
         st # "new" /\ s # Main => status[Main] # "new",
         s = Main /\ st = "up" => status[s] \in {"new", "up"}
  PROVE  IInv'
<1>1. TypeOK /\ BaseFirst /\ Main \in Sessions /\ Typed(st, x, q, h, r, p, bar)
  BY LivenessAssumption DEF IInv, Good
<1>2. TypeOK'
  BY <1>1 DEF TypeOK, Typed
<1>3. /\ status'[s] = st /\ ses'[s] = x /\ queue'[s] = q /\ holder'[s] = h /\ row'[s] = r
      /\ proof'[s] = p /\ barred'[s] = bar
      /\ \A c \in Sessions : c # s =>
           /\ status'[c] = status[c] /\ ses'[c] = ses[c] /\ queue'[c] = queue[c]
           /\ holder'[c] = holder[c] /\ row'[c] = row[c] /\ proof'[c] = proof[c]
           /\ barred'[c] = barred[c]
  BY <1>1 DEF TypeOK
<1>4. status'[Main] = IF s = Main THEN st ELSE status[Main]
  BY <1>1, <1>3
<1>5. BaseFirst'
  BY <1>1, <1>3, <1>4 DEF BaseFirst
<1>6. GoodAt(s)'
  BY <1>3, <1>4 DEF GoodAt
<1>7. ASSUME NEW c \in Sessions, c # s PROVE GoodAt(c)'
  <2>1. Good(status[c], status[Main], ses[c], queue[c], holder[c], row[c], proof[c], barred[c])
    BY DEF IInv, GoodAt
  <2>2. status'[Main] = "up" => status[Main] = "up" \/ status[c] = "new"
    BY <1>1, <1>4, <1>7 DEF BaseFirst
  <2>3. Good(status[c], status'[Main], ses[c], queue[c], holder[c], row[c], proof[c], barred[c])
    BY <2>1, <2>2, BaseGood
  <2> QED BY <2>3, <1>3, <1>7 DEF GoodAt
<1> QED BY <1>2, <1>5, <1>6, <1>7 DEF IInv

\* A session's own part of the invariant.
LEMMA At ==
  ASSUME IInv, NEW s \in Sessions
  PROVE  /\ TypeOK /\ Main \in Sessions /\ NoToken \notin Tokens
         /\ Good(status[s], status[Main], ses[s], queue[s], holder[s], row[s], proof[s], barred[s])
         /\ Good(status[s], IF s = Main THEN status[s] ELSE status[Main], ses[s], queue[s], holder[s],
                 row[s], proof[s], barred[s])
         /\ status[s] # "new" => status[Main] # "new"
         /\ status[s] \in {"new", "up", "releasing", "gone"}
<1>1. status[Main] = IF s = Main THEN status[s] ELSE status[Main]
  OBVIOUS
<1> QED BY <1>1, LivenessAssumption DEF IInv, GoodAt, BaseFirst, TypeOK

\* The same for a step that leaves the session's status alone.
LEMMA Moved ==
  ASSUME IInv, NEW s \in Sessions,
         NEW x, NEW q, NEW h, NEW r, NEW p, NEW bar,
         status' = status, ses' = [ses EXCEPT ![s] = x],
         queue' = [queue EXCEPT ![s] = q], holder' = [holder EXCEPT ![s] = h],
         row' = [row EXCEPT ![s] = r], proof' = [proof EXCEPT ![s] = p],
         barred' = [barred EXCEPT ![s] = bar], restarts' = restarts,
         Good(status[s], status[Main], x, q, h, r, p, bar)
  PROVE  IInv'
<1>1. status' = [status EXCEPT ![s] = status[s]]
  BY At, Keep
<1>2. status[Main] = IF s = Main THEN status[s] ELSE status[Main]
  OBVIOUS
<1>3. Good(status[s], IF s = Main THEN status[s] ELSE status[Main], x, q, h, r, p, bar)
  BY <1>2
<1>4. status[s] # "new" => status[Main] # "new"
  BY At
<1> QED BY <1>1, <1>3, <1>4, Changed

\* A heartbeat keeps the invariant.
LEMMA BeatStep ==
  ASSUME IInv, NEW s \in Sessions, NEW t \in Tokens, Beat(s, t)
  PROVE  IInv'
<1> DEFINE p == [proof[s] EXCEPT ![t] = 0]
           e == [op |-> "adopt", token |-> t]
<1>1. /\ Good(status[s], status[Main], ses[s], queue[s], holder[s], row[s], proof[s], barred[s])
      /\ TypeOK /\ NoToken \notin Tokens
  BY At
<1>2. /\ status' = status /\ row' = [row EXCEPT ![s] = row[s]] /\ restarts' = restarts
      /\ barred' = [barred EXCEPT ![s] = barred[s]]
      /\ holder' = [holder EXCEPT ![s] = Touch(holder[s])]
      /\ proof' = [proof EXCEPT ![s] = p]
  BY <1>1, Keep DEF Beat, Touched, Touch
<1>3. status[s] = "up"
  BY DEF Beat, Reachable
<1>4. CASE ses[s].owner = t
  <2>1. ses' = [ses EXCEPT ![s] = Recorded(ses[s])] /\ queue' = [queue EXCEPT ![s] = queue[s]]
    BY <1>1, <1>4, Keep DEF Beat, MayAdopt
  <2>2. Good(status[s], status[Main], Recorded(ses[s]), queue[s], Touch(holder[s]), row[s], p, barred[s])
    BY <1>1, <1>3, <1>4, RecordGood
  <2> HIDE DEF p
  <2> QED BY <2>1, <2>2, <1>2, Moved
<1>5. CASE ses[s].owner # t
  <2>1. /\ ses[s].owner = NoToken /\ ses[s].claims = {} /\ Len(queue[s]) < MaxQueue
        /\ queue' = [queue EXCEPT ![s] = Append(queue[s], e)]
        /\ ses' = [ses EXCEPT ![s] = Recorded(Adopted(ses[s], t))]
        /\ (holder[s] = NoOp => queue[s] = <<>>)
    BY <1>5 DEF Beat, MayAdopt, Enqueue, Settled
  <2>2. /\ holder[s] = NoOp
        /\ Good(status[s], status[Main], Recorded(Adopted(ses[s], t)), Append(queue[s], e), holder[s],
                row[s], p, barred[s])
    BY <1>1, <1>3, <2>1, AdoptGood
  <2>3. Touch(holder[s]) = holder[s]
    BY <2>2 DEF Touch
  <2> HIDE DEF p, e
  <2> QED BY <2>1, <2>2, <2>3, <1>2, Moved
<1> QED BY <1>4, <1>5

\* A claim that joins the queue keeps the invariant.
LEMMA ClaimStep ==
  ASSUME IInv, NEW s \in Sessions, NEW t \in Tokens, Claim(s, t)
  PROVE  IInv'
<1> DEFINE p == [proof[s] EXCEPT ![t] = 0]
           e == [op |-> "claim", token |-> t]
           a == Append(queue[s], e)
<1>1. /\ Good(status[s], status[Main], ses[s], queue[s], holder[s], row[s], proof[s], barred[s])
      /\ TypeOK /\ NoToken \notin Tokens
  BY At
<1>2. /\ status' = status /\ row' = [row EXCEPT ![s] = row[s]] /\ restarts' = restarts
      /\ barred' = [barred EXCEPT ![s] = barred[s]]
      /\ queue' = [queue EXCEPT ![s] = a]
      /\ status[s] = "up" /\ Len(queue[s]) < MaxQueue
  BY <1>1, Keep DEF Claim, Enqueue, Reachable
<1>3. e \in Operations
  BY DEF Operations
<1> HIDE DEF e
<1>4. Good(status[s], status[Main], ses[s], a, holder[s], row[s], proof[s], barred[s])
  BY <1>1, <1>2, <1>3, AppendGood
<1> HIDE DEF a
<1>5. CASE ses[s].owner = t
  <2>1. /\ ses' = [ses EXCEPT ![s] = Recorded(ses[s])]
        /\ holder' = [holder EXCEPT ![s] = Touch(holder[s])]
        /\ proof' = [proof EXCEPT ![s] = p]
    BY <1>5 DEF Claim, Touched, Touch
  <2>2. Good(status[s], status[Main], Recorded(ses[s]), a, Touch(holder[s]), row[s], p, barred[s])
    BY <1>2, <1>4, <1>5, RecordGood
  <2> HIDE DEF p
  <2> QED BY <2>1, <2>2, <1>2, Moved
<1>6. CASE ses[s].owner # t
  <2>1. /\ ses' = [ses EXCEPT ![s] = ses[s]] /\ holder' = [holder EXCEPT ![s] = holder[s]]
        /\ proof' = [proof EXCEPT ![s] = proof[s]]
    BY <1>1, <1>6, Keep DEF Claim
  <2> QED BY <2>1, <1>2, <1>4, Moved
<1> QED BY <1>5, <1>6

\* A release that joins the queue keeps the invariant.
LEMMA RelinquishStep ==
  ASSUME IInv, NEW s \in Sessions, NEW t \in Tokens, Relinquish(s, t)
  PROVE  IInv'
<1> DEFINE e == [op |-> "release", token |-> t]
           a == Append(queue[s], e)
<1>1. /\ Good(status[s], status[Main], ses[s], queue[s], holder[s], row[s], proof[s], barred[s])
      /\ TypeOK
  BY At
<1>2. /\ status' = status /\ row' = [row EXCEPT ![s] = row[s]] /\ restarts' = restarts
      /\ barred' = [barred EXCEPT ![s] = barred[s]] /\ proof' = [proof EXCEPT ![s] = proof[s]]
      /\ ses' = [ses EXCEPT ![s] = ses[s]] /\ holder' = [holder EXCEPT ![s] = holder[s]]
      /\ queue' = [queue EXCEPT ![s] = a]
      /\ status[s] = "up" /\ Len(queue[s]) < MaxQueue
  BY <1>1, Keep DEF Relinquish, Enqueue, Reachable
<1>3. e \in Operations
  BY DEF Operations
<1> HIDE DEF e
<1>4. Good(status[s], status[Main], ses[s], a, holder[s], row[s], proof[s], barred[s])
  BY <1>1, <1>2, <1>3, AppendGood
<1> HIDE DEF a
<1> QED BY <1>2, <1>4, Moved

\* A tool call keeps the invariant.
LEMMA ToolStep ==
  ASSUME IInv, NEW s \in Sessions, Tool(s)
  PROVE  IInv'
<1> DEFINE y == [ses[s] EXCEPT !.beat = 0, !.waiting = NoAge]
<1>1. /\ Good(status[s], status[Main], ses[s], queue[s], holder[s], row[s], proof[s], barred[s])
      /\ TypeOK
  BY At
<1>2. /\ status' = status /\ row' = [row EXCEPT ![s] = row[s]] /\ restarts' = restarts
      /\ barred' = [barred EXCEPT ![s] = barred[s]] /\ proof' = [proof EXCEPT ![s] = proof[s]]
      /\ queue' = [queue EXCEPT ![s] = queue[s]]
      /\ holder' = [holder EXCEPT ![s] = Touch(holder[s])]
      /\ status[s] = "up"
  BY <1>1, Keep DEF Tool, Touched, Touch, Reachable
<1>3. ses' = [ses EXCEPT ![s] = y]
  BY <1>1 DEF Tool, TypeOK
<1>4. Good(status[s], status[Main], y, queue[s], Touch(holder[s]), row[s], proof[s], barred[s])
  BY <1>1, <1>2, ToolGood
<1> HIDE DEF y
<1> QED BY <1>2, <1>3, <1>4, Moved

\* What every operation that enters the mutex does.
LEMMA EnterFacts ==
  ASSUME IInv, NEW s \in Sessions, Enter(s)
  PROVE  /\ Good(status[s], status[Main], ses[s], queue[s], holder[s], row[s], proof[s], barred[s])
         /\ TypeOK /\ NoToken \notin Tokens
         /\ holder[s] = NoOp /\ queue[s] # <<>> /\ Head(queue[s]).token \in Tokens
         /\ Head(queue[s]).op \in {"claim", "release", "adopt"}
         /\ status' = status /\ row' = [row EXCEPT ![s] = row[s]] /\ restarts' = restarts
         /\ queue' = [queue EXCEPT ![s] = Tail(queue[s])]
<1>1. /\ Good(status[s], status[Main], ses[s], queue[s], holder[s], row[s], proof[s], barred[s])
      /\ TypeOK /\ NoToken \notin Tokens
  BY At
<1>2. /\ holder[s] = NoOp /\ queue[s] # <<>>
      /\ status' = status /\ row' = [row EXCEPT ![s] = row[s]] /\ restarts' = restarts
      /\ queue' = [queue EXCEPT ![s] = Tail(queue[s])]
  BY <1>1, Keep DEF Enter
<1>3. queue[s] \in Seq(Operations)
  BY <1>1 DEF TypeOK
<1>4. Head(queue[s]) \in Operations
  BY <1>2, <1>3, HeadTailProperties
<1>5. Head(queue[s]).token \in Tokens /\ Head(queue[s]).op \in {"claim", "release", "adopt"}
  BY <1>4 DEF Operations
<1> QED BY <1>1, <1>2, <1>5

\* An operation that finds nothing to do keeps the invariant.
LEMMA RefusedStep ==
  ASSUME IInv, NEW s \in Sessions, EnterRefused(s)
  PROVE  IInv'
<1>0. Enter(s)
  BY DEF EnterRefused
<1>1. /\ Good(status[s], status[Main], ses[s], queue[s], holder[s], row[s], proof[s], barred[s])
      /\ TypeOK /\ holder[s] = NoOp /\ queue[s] # <<>>
      /\ status' = status /\ row' = [row EXCEPT ![s] = row[s]] /\ restarts' = restarts
      /\ queue' = [queue EXCEPT ![s] = Tail(queue[s])]
  BY <1>0, EnterFacts
<1>2. /\ barred' = [barred EXCEPT ![s] = barred[s]] /\ proof' = [proof EXCEPT ![s] = proof[s]]
      /\ ses' = [ses EXCEPT ![s] = ses[s]] /\ holder' = [holder EXCEPT ![s] = holder[s]]
  BY <1>1, Keep DEF EnterRefused
<1>3. Head(queue[s]).op # "adopt" \/ ses[s].owner = NoToken \/ status[s] # "up" \/ status[Main] # "up"
  BY DEF EnterRefused, First, Reachable
<1>4. Good(status[s], status[Main], ses[s], Tail(queue[s]), holder[s], row[s], proof[s], barred[s])
  BY <1>1, <1>3, DropGood
<1> QED BY <1>1, <1>2, <1>4, Moved

\* The owner's own retried claim keeps the invariant.
LEMMA RepeatedStep ==
  ASSUME IInv, NEW s \in Sessions, EnterRepeated(s)
  PROVE  IInv'
<1> DEFINE t == Head(queue[s]).token
           p == [proof[s] EXCEPT ![t] = 0]
<1>0. Enter(s)
  BY DEF EnterRepeated
<1>1. /\ Good(status[s], status[Main], ses[s], queue[s], holder[s], row[s], proof[s], barred[s])
      /\ TypeOK /\ holder[s] = NoOp /\ queue[s] # <<>> /\ t \in Tokens
      /\ status' = status /\ row' = [row EXCEPT ![s] = row[s]] /\ restarts' = restarts
      /\ queue' = [queue EXCEPT ![s] = Tail(queue[s])]
  BY <1>0, EnterFacts
<1>2. /\ barred' = [barred EXCEPT ![s] = barred[s]] /\ holder' = [holder EXCEPT ![s] = holder[s]]
      /\ ses' = [ses EXCEPT ![s] = Recorded(ses[s])] /\ proof' = [proof EXCEPT ![s] = p]
  BY <1>1, Keep DEF EnterRepeated, First
<1>3. Head(queue[s]).op = "claim" /\ ses[s].owner = t
  BY DEF EnterRepeated, First, Repeated
<1>4. /\ status[s] # "new"
      /\ Good(status[s], status[Main], ses[s], Tail(queue[s]), holder[s], row[s], proof[s], barred[s])
  BY <1>1, <1>3, DropGood
<1>5. Touch(holder[s]) = holder[s]
  BY <1>1 DEF Touch
<1> HIDE DEF t
<1>6. Good(status[s], status[Main], Recorded(ses[s]), Tail(queue[s]), Touch(holder[s]), row[s], p, barred[s])
  BY <1>1, <1>3, <1>4, RecordGood
<1> HIDE DEF p
<1> QED BY <1>1, <1>2, <1>5, <1>6, Moved

\* An accepted claim keeps the invariant.
LEMMA EnterClaimStep ==
  ASSUME IInv, NEW s \in Sessions, EnterClaim(s)
  PROVE  IInv'
<1> DEFINE t == Head(queue[s]).token
           p == IF ses[s].owner = t THEN proof[s] ELSE [proof[s] EXCEPT ![t] = 0]
           g == Begun("claim", t, ses[s])
<1>0. Enter(s)
  BY DEF EnterClaim
<1>1. /\ Good(status[s], status[Main], ses[s], queue[s], holder[s], row[s], proof[s], barred[s])
      /\ TypeOK /\ holder[s] = NoOp /\ queue[s] # <<>> /\ t \in Tokens
      /\ status' = status /\ row' = [row EXCEPT ![s] = row[s]] /\ restarts' = restarts
      /\ queue' = [queue EXCEPT ![s] = Tail(queue[s])]
  BY <1>0, EnterFacts
<1>2. /\ barred' = [barred EXCEPT ![s] = barred[s]]
      /\ holder' = [holder EXCEPT ![s] = g]
      /\ ses' = [ses EXCEPT ![s] = Taken(ses[s], t)]
  BY <1>1, Keep DEF EnterClaim, First, Write, Begun
<1>3. proof' = [proof EXCEPT ![s] = p]
  BY <1>1, Keep DEF EnterClaim, First
<1>4. Head(queue[s]).op = "claim" /\ (status[s] = "up" => status[Main] = "up")
  BY DEF EnterClaim, First
<1> HIDE DEF t
<1>5. Good(status[s], status[Main], Taken(ses[s], t), Tail(queue[s]), g, row[s], p, barred[s])
  BY <1>1, <1>4, EnterClaimGood
<1> HIDE DEF p, g
<1> QED BY <1>1, <1>2, <1>3, <1>5, Moved

\* A release that begins keeps the invariant.
LEMMA EnterReleaseStep ==
  ASSUME IInv, NEW s \in Sessions, EnterRelease(s)
  PROVE  IInv'
<1> DEFINE t == Head(queue[s]).token
           g == Begun("release", t, ses[s])
           z == barred[s] \cup {t}
<1>0. Enter(s)
  BY DEF EnterRelease
<1>1. /\ Good(status[s], status[Main], ses[s], queue[s], holder[s], row[s], proof[s], barred[s])
      /\ TypeOK /\ holder[s] = NoOp /\ queue[s] # <<>> /\ t \in Tokens
      /\ status' = status /\ row' = [row EXCEPT ![s] = row[s]] /\ restarts' = restarts
      /\ queue' = [queue EXCEPT ![s] = Tail(queue[s])]
  BY <1>0, EnterFacts
<1>2. /\ proof' = [proof EXCEPT ![s] = proof[s]]
      /\ holder' = [holder EXCEPT ![s] = g]
      /\ ses' = [ses EXCEPT ![s] = Released(ses[s], t)]
      /\ barred' = [barred EXCEPT ![s] = z]
  BY <1>1, Keep DEF EnterRelease, First, Write, Begun
<1>3. Head(queue[s]).op = "release" /\ status[s] = "up" /\ status[Main] = "up" /\ ses[s].owner = t
  BY DEF EnterRelease, First, Reachable
<1> HIDE DEF t
<1>4. Good(status[s], status[Main], Released(ses[s], t), Tail(queue[s]), g, row[s], proof[s], z)
  BY <1>1, <1>3, EnterReleaseGood
<1> HIDE DEF g, z
<1> QED BY <1>1, <1>2, <1>4, Moved

\* An adoption's write that begins keeps the invariant.
LEMMA EnterAdoptStep ==
  ASSUME IInv, NEW s \in Sessions, EnterAdopt(s)
  PROVE  IInv'
<1> DEFINE g == Begun("adopt", ses[s].owner, ses[s])
<1>0. Enter(s)
  BY DEF EnterAdopt
<1>1. /\ Good(status[s], status[Main], ses[s], queue[s], holder[s], row[s], proof[s], barred[s])
      /\ TypeOK /\ holder[s] = NoOp /\ queue[s] # <<>>
      /\ status' = status /\ row' = [row EXCEPT ![s] = row[s]] /\ restarts' = restarts
      /\ queue' = [queue EXCEPT ![s] = Tail(queue[s])]
  BY <1>0, EnterFacts
<1>2. /\ proof' = [proof EXCEPT ![s] = proof[s]] /\ barred' = [barred EXCEPT ![s] = barred[s]]
      /\ holder' = [holder EXCEPT ![s] = g]
      /\ ses' = [ses EXCEPT ![s] = ses[s]]
  BY <1>1, Keep DEF EnterAdopt, First, Write, Begun
<1>3. status[s] = "up" /\ ses[s].owner # NoToken
  BY DEF EnterAdopt
<1>4. Good(status[s], status[Main], ses[s], Tail(queue[s]), g, row[s], proof[s], barred[s])
  BY <1>1, <1>3, EnterAdoptGood
<1> HIDE DEF g
<1> QED BY <1>1, <1>2, <1>4, Moved

\* A write that lands keeps the invariant.
LEMMA WriteOkStep ==
  ASSUME IInv, NEW s \in Sessions, WriteOk(s)
  PROVE  IInv'
<1> DEFINE h == holder[s]
           v == IF h.run.op = "release" THEN NoToken ELSE h.run.token
           z == IF h.run.op = "claim"
                THEN (barred[s] \cup ({h.before.owner} \cap h.before.claims)) \ {h.run.token}
                ELSE barred[s]
           heard == h.run.op = "claim" /\ Reachable(s)
           y == IF heard THEN Recorded(ses[s]) ELSE ses[s]
           o == IF heard THEN [proof[s] EXCEPT ![h.run.token] = 0] ELSE proof[s]
<1>1. /\ Good(status[s], status[Main], ses[s], queue[s], h, row[s], proof[s], barred[s])
      /\ TypeOK
  BY At
<1>2. /\ status' = status /\ restarts' = restarts /\ h # NoOp
      /\ row' = [row EXCEPT ![s] = v] /\ holder' = [holder EXCEPT ![s] = NoOp]
      /\ queue' = [queue EXCEPT ![s] = queue[s]]
  BY <1>1, Keep DEF WriteOk
<1>3. ses' = [ses EXCEPT ![s] = y]
  BY <1>1, Keep DEF WriteOk
<1>4. proof' = [proof EXCEPT ![s] = o]
  BY <1>1, Keep DEF WriteOk
<1>5. barred' = [barred EXCEPT ![s] = z]
  BY <1>1, Keep DEF WriteOk
<1>6. Landed(ses[s], h, proof[s], barred[s], y, v, o, z)
  BY DEF Landed
<1> HIDE DEF h, heard, v, z, y, o
<1>8. Good(status[s], status[Main], y, queue[s], NoOp, v, o, z)
  BY <1>1, <1>2, <1>6, WriteOkGood
<1> QED BY <1>2, <1>3, <1>4, <1>5, <1>8, Moved

\* The roll-back of a claim puts back owner, lease and claims, and what no activity moved on.
LEMMA Undoing ==
  ASSUME NEW x \in Session, NEW h \in Writes,
         NEW y, y = Undone(x, h.before, h.run.token, h.moved)
  PROVE  PutBack(y, x, h)
<1>0. h.before \in Session /\ h.run.token \in Tokens /\ h.moved \in BOOLEAN
  BY DEF Writes, Operations
<1>1. y \in Session
  BY <1>0, ZenonT(60) DEF Undone, Session
<1>2. y.owner = h.before.owner
  BY <1>0 DEF Undone, Session
<1>3. y.claims = IF h.run.token \in h.before.claims THEN x.claims ELSE x.claims \ {h.run.token}
  BY <1>0 DEF Undone, Session
<1>4. y.lease = h.before.lease
  BY <1>0 DEF Undone, Session
<1>5. h.moved = FALSE => y.heard = h.before.heard
  BY <1>0 DEF Undone, Session
<1>6. h.moved = FALSE => y.waiting = h.before.waiting
  BY <1>0 DEF Undone, Session
<1> QED BY <1>1, <1>2, <1>3, <1>4, <1>5, <1>6 DEF PutBack

\* A write that fails keeps the invariant.
LEMMA WriteFailsStep ==
  ASSUME IInv, NEW s \in Sessions, WriteFails(s)
  PROVE  IInv'
<1> DEFINE h == holder[s]
           y == ses'[s]
           o == proof'[s]
           z == barred'[s]
<1>1. /\ Good(status[s], status[Main], ses[s], queue[s], h, row[s], proof[s], barred[s])
      /\ TypeOK /\ ses[s] \in Session
  BY At DEF TypeOK
<1>2. /\ status' = status /\ restarts' = restarts /\ h # NoOp /\ (h.run.op \in FailOps \/ status[s] # "up")
      /\ row' = [row EXCEPT ![s] = row[s]] /\ holder' = [holder EXCEPT ![s] = NoOp]
      /\ queue' = [queue EXCEPT ![s] = queue[s]]
  BY <1>1, Keep DEF WriteFails
<1>3. h \in Writes /\ h.run.op \in {"claim", "release", "adopt"} /\ h.moved \in BOOLEAN
  BY <1>1, <1>2, HolderFields DEF TypeOK
<1>4. CASE h.run.op = "claim"
  <2>1. ses' = [ses EXCEPT ![s] = Undone(ses[s], h.before, h.run.token, h.moved)] /\ barred' = barred
    BY <1>4 DEF WriteFails
  <2>2. y = Undone(ses[s], h.before, h.run.token, h.moved)
    BY <2>1, <1>1 DEF TypeOK
  <2>3. PutBack(y, ses[s], h)
    <3> HIDE DEF y, h
    <3> QED BY <2>2, <1>1, <1>3, Undoing
  <2>4. z = barred[s] /\ ses' = [ses EXCEPT ![s] = y] /\ barred' = [barred EXCEPT ![s] = z]
    BY <2>1, <2>2, <1>1, Keep
  <2>5. h.moved = TRUE => proof' = [proof EXCEPT ![s] = Unproved]
    BY <1>4 DEF WriteFails
  <2>6. h.moved = FALSE /\ h.before.owner # h.run.token =>
          proof' = [proof EXCEPT ![s] = [proof[s] EXCEPT ![h.run.token] = Cap]]
    BY <1>4 DEF WriteFails
  <2>7. h.moved = FALSE /\ h.before.owner = h.run.token => proof' = [proof EXCEPT ![s] = proof[s]]
    BY <1>1, <1>4, Keep DEF WriteFails
  <2>8. /\ proof' = [proof EXCEPT ![s] = o]
        /\ h.moved = TRUE => o = Unproved
        /\ h.moved = FALSE /\ h.before.owner # h.run.token => o = [proof[s] EXCEPT ![h.run.token] = Cap]
        /\ h.moved = FALSE /\ h.before.owner = h.run.token => o = proof[s]
    BY <2>5, <2>6, <2>7, <1>1, <1>3 DEF TypeOK
  <2> HIDE DEF h, y, o, z
  <2>9. Failed(ses[s], h, proof[s], barred[s], y, o, z)
    BY <1>4, <2>3, <2>4, <2>8 DEF Failed
  <2>10. Good(status[s], status[Main], y, queue[s], NoOp, row[s], o, z)
    BY <1>1, <1>2, <2>9, WriteFailsGood
  <2> QED BY <1>2, <2>4, <2>8, <2>10, Moved
<1>5. CASE h.run.op = "release"
  <2> DEFINE w == [ses[s] EXCEPT !.owner = h.run.token, !.bound = h.before.bound]
  <2>1. /\ ses' = [ses EXCEPT ![s] = w]
        /\ barred' = [barred EXCEPT ![s] = barred[s] \ {h.run.token}] /\ proof' = [proof EXCEPT ![s] = proof[s]]
    <3>1. ses' = [ses EXCEPT ![s].owner = h.run.token, ![s].bound = h.before.bound]
      BY <1>5 DEF WriteFails
    <3>2. ses' = [ses EXCEPT ![s] = w]
      BY <3>1, <1>1 DEF TypeOK
    <3>3. barred' = [barred EXCEPT ![s] = barred[s] \ {h.run.token}] /\ proof' = [proof EXCEPT ![s] = proof[s]]
      BY <1>1, <1>5, Keep DEF WriteFails
    <3> QED BY <3>2, <3>3
  <2>2. Failed(ses[s], h, proof[s], barred[s], w, proof[s], barred[s] \ {h.run.token})
    BY <1>5 DEF Failed
  <2> HIDE DEF h, w
  <2>3. Good(status[s], status[Main], w, queue[s], NoOp, row[s], proof[s], barred[s] \ {h.run.token})
    BY <1>1, <1>2, <2>2, WriteFailsGood
  <2> QED BY <1>2, <2>1, <2>3, Moved
<1>6. CASE h.run.op = "adopt"
  <2>1. /\ ses' = [ses EXCEPT ![s] = ses[s]]
        /\ barred' = [barred EXCEPT ![s] = barred[s]] /\ proof' = [proof EXCEPT ![s] = proof[s]]
    BY <1>1, <1>6, Keep DEF WriteFails
  <2>2. Failed(ses[s], h, proof[s], barred[s], ses[s], proof[s], barred[s])
    BY <1>6 DEF Failed
  <2> HIDE DEF h
  <2>3. Good(status[s], status[Main], ses[s], queue[s], NoOp, row[s], proof[s], barred[s])
    BY <1>1, <1>2, <2>2, WriteFailsGood
  <2> QED BY <1>2, <2>1, <2>3, Moved
<1> QED BY <1>3, <1>4, <1>5, <1>6

\* The creation of a session keeps the invariant.
LEMMA CreateStep ==
  ASSUME IInv, NEW s \in Sessions, Create(s)
  PROVE  IInv'
<1>1. /\ Good(status[s], status[Main], ses[s], queue[s], holder[s], row[s], proof[s], barred[s])
      /\ TypeOK /\ status[s] = "new" /\ (s # Main => status[Main] = "up")
  BY At DEF Create, Creates
<1>2. /\ status' = [status EXCEPT ![s] = "up"] /\ restarts' = restarts
      /\ ses' = [ses EXCEPT ![s] = ses[s]] /\ queue' = [queue EXCEPT ![s] = queue[s]]
      /\ holder' = [holder EXCEPT ![s] = holder[s]] /\ row' = [row EXCEPT ![s] = row[s]]
      /\ proof' = [proof EXCEPT ![s] = proof[s]] /\ barred' = [barred EXCEPT ![s] = barred[s]]
  BY <1>1, Keep DEF Create, Creates
<1>3. Good("up", IF s = Main THEN "up" ELSE status[Main], ses[s], queue[s], holder[s], row[s], proof[s], barred[s])
  BY <1>1, CreateGood
<1> QED BY <1>1, <1>2, <1>3, Changed

\* The creation of a session with its first owner keeps the invariant.
LEMMA MintStep ==
  ASSUME IInv, NEW s \in Sessions, NEW t \in Tokens, Mint(s, t)
  PROVE  IInv'
<1> DEFINE y == [Adopted(ses[s], t) EXCEPT !.bound = 0]
           a == Append(queue[s], [op |-> "adopt", token |-> t])
<1>1. /\ Good(status[s], status[Main], ses[s], queue[s], holder[s], row[s], proof[s], barred[s])
      /\ TypeOK /\ status[s] = "new" /\ (s # Main => status[Main] = "up")
  BY At DEF Mint, Creates
<1>2. /\ status' = [status EXCEPT ![s] = "up"] /\ restarts' = restarts
      /\ ses' = [ses EXCEPT ![s] = y] /\ queue' = [queue EXCEPT ![s] = a]
      /\ Len(queue[s]) < MaxQueue
  BY <1>1 DEF Mint, Creates, Enqueue
<1>3. /\ holder' = [holder EXCEPT ![s] = holder[s]] /\ row' = [row EXCEPT ![s] = row[s]]
      /\ proof' = [proof EXCEPT ![s] = proof[s]] /\ barred' = [barred EXCEPT ![s] = barred[s]]
  BY <1>1, Keep DEF Mint, Creates
<1>4. Good("up", IF s = Main THEN "up" ELSE status[Main], y, a, holder[s], row[s], proof[s], barred[s])
  BY <1>1, <1>2, MintGood
<1> HIDE DEF y, a
<1> QED BY <1>1, <1>2, <1>3, <1>4, Changed

\* The end of a session keeps the invariant.
LEMMA EndStep ==
  ASSUME IInv, NEW s \in Sessions, Reap(s) \/ Gone(s)
  PROVE  IInv'
<1>1. /\ Good(status[s], status[Main], ses[s], queue[s], holder[s], row[s], proof[s], barred[s])
      /\ TypeOK /\ status[s] # "new" /\ status[Main] # "new"
  BY At DEF Reap, Gone
<1>2. /\ ses' = [ses EXCEPT ![s] = ses[s]] /\ queue' = [queue EXCEPT ![s] = queue[s]]
      /\ holder' = [holder EXCEPT ![s] = holder[s]] /\ row' = [row EXCEPT ![s] = row[s]]
      /\ proof' = [proof EXCEPT ![s] = proof[s]] /\ barred' = [barred EXCEPT ![s] = barred[s]]
      /\ restarts' = restarts
  BY <1>1, Keep DEF Reap, Gone
<1>3. PICK to \in {"releasing", "gone"} : status' = [status EXCEPT ![s] = to]
  BY DEF Reap, Gone
<1>4. Good(to, IF s = Main THEN to ELSE status[Main], ses[s], queue[s], holder[s], row[s], proof[s], barred[s])
  BY <1>1, EndGood
<1> QED BY <1>1, <1>2, <1>3, <1>4, Changed

\* A tick keeps the invariant.
LEMMA TickStep ==
  ASSUME IInv, Tick
  PROVE  IInv'
<1>1. TypeOK /\ BaseFirst /\ status' = status /\ queue' = queue /\ row' = row /\ restarts' = restarts
      /\ barred' = barred
  BY DEF IInv, Tick
<1>2. ASSUME NEW s \in Sessions
      PROVE  Good(status'[s], status'[Main], ses'[s], queue'[s], holder'[s], row'[s], proof'[s], barred'[s])
  <2>1. Good(status[s], status[Main], ses[s], queue[s], holder[s], row[s], proof[s], barred[s])
    BY At
  <2>2. /\ ses'[s] = (IF status[s] = "new" THEN ses[s] ELSE Aged(ses[s]))
        /\ holder'[s] = AgedHolder(holder[s])
        /\ proof'[s] = [u \in Tokens |-> Older(proof[s][u])]
    BY DEF Tick, AgedHolder
  <2>3. Good(status[s], status[Main], ses'[s], queue[s], AgedHolder(holder[s]), row[s], proof'[s], barred[s])
    BY <2>1, <2>2, TickGood
  <2> QED BY <2>2, <2>3, <1>1
<1>3. \A s \in Sessions : ses'[s] \in Session /\ holder'[s] \in Writes \cup {NoOp} /\ proof'[s] \in [Tokens -> Ages]
  BY <1>2 DEF Good, Typed
<1>4. /\ ses' = [s \in Sessions |-> ses'[s]] /\ holder' = [s \in Sessions |-> holder'[s]]
      /\ proof' = [s \in Sessions |-> proof'[s]]
  BY DEF Tick
<1>5. TypeOK'
  BY <1>1, <1>3, <1>4 DEF TypeOK
<1>6. \A s \in Sessions : GoodAt(s)'
  BY <1>2 DEF GoodAt
<1> QED BY <1>1, <1>5, <1>6 DEF IInv, BaseFirst

\* A restart keeps the invariant.
LEMMA RestartStep ==
  ASSUME IInv, Restart
  PROVE  IInv'
<1>1. TypeOK /\ BaseFirst /\ Main \in Sessions
  BY LivenessAssumption DEF IInv
<1>2. /\ row' \in [Sessions -> Tokens \cup {NoToken}] /\ restarts' \in 0..MaxRestarts
      /\ queue' = [s \in Sessions |-> <<>>] /\ holder' = [s \in Sessions |-> NoOp]
      /\ proof' = [s \in Sessions |-> Unproved] /\ barred' = [s \in Sessions |-> {}]
  BY <1>1, Numbers DEF Restart, TypeOK
<1>3. \A s \in Sessions : /\ status'[s] \in {"new", "up", "gone"}
                          /\ status'[s] = "new" <=> status[s] = "new"
                          /\ ses'[s] = IF status[s] = "new" THEN ses[s] ELSE Recovered(row'[s])
  <2> TAKE s \in Sessions
  <2>1. ses'[s] = IF status[s] = "new" THEN ses[s] ELSE Recovered(row'[s])
    BY DEF Restart
  <2>2. status'[s] = CASE status[s] = "new" -> "new"
                       [] Reachable(s) -> "up"
                       [] OTHER -> "gone"
    BY DEF Restart
  <2>3. status'[s] \in {"new", "up", "gone"} /\ (status'[s] = "new" <=> status[s] = "new")
    BY <2>2 DEF Reachable
  <2> QED BY <2>1, <2>3
<1>4. /\ status' = [s \in Sessions |-> status'[s]] /\ ses' = [s \in Sessions |-> ses'[s]]
  BY DEF Restart
<1>5. ASSUME NEW s \in Sessions
      PROVE  Good(status'[s], status'[Main], ses'[s], queue'[s], holder'[s], row'[s], proof'[s], barred'[s])
  <2>1. Good(status[s], status[Main], ses[s], queue[s], holder[s], row[s], proof[s], barred[s])
    BY At
  <2>2. status[s] = "new" => ses[s] = Fresh
    BY <2>1 DEF Good, Untouched
  <2>3. ses'[s] = IF status'[s] = "new" THEN Fresh ELSE Recovered(row'[s])
    BY <2>2, <1>3
  <2>4. /\ status'[s] \in {"new", "up", "gone"} /\ row'[s] \in Tokens \cup {NoToken}
        /\ queue'[s] = <<>> /\ holder'[s] = NoOp /\ proof'[s] = Unproved /\ barred'[s] = {}
    BY <1>2, <1>3
  <2> QED BY <2>3, <2>4, RestartGood
<1>6. \A s \in Sessions : /\ ses'[s] \in Session /\ queue'[s] \in Seq(Operations) /\ Len(queue'[s]) <= MaxQueue
                          /\ proof'[s] \in [Tokens -> Ages]
  BY <1>5 DEF Good, Typed
<1>7. TypeOK'
  <2>1. status' \in [Sessions -> {"new", "up", "releasing", "gone"}] /\ ses' \in [Sessions -> Session]
    BY <1>3, <1>4, <1>6
  <2>2. /\ queue' \in [Sessions -> Seq(Operations)] /\ \A s \in Sessions : Len(queue'[s]) <= MaxQueue
    BY <1>2, <1>6
  <2>3. holder' \in [Sessions -> Writes \cup {NoOp}]
    BY <1>2
  <2>4. proof' \in [Sessions -> [Tokens -> Ages]] /\ barred' \in [Sessions -> SUBSET Tokens]
    BY <1>2, <1>6
  <2> QED BY <2>1, <2>2, <2>3, <2>4, <1>2 DEF TypeOK
<1>8. BaseFirst'
  BY <1>1, <1>3 DEF BaseFirst
<1>9. \A s \in Sessions : GoodAt(s)'
  BY <1>5 DEF GoodAt
<1> QED BY <1>7, <1>8, <1>9 DEF IInv

\* Nobody owns a session that was not created yet.
LEMMA Initial == Init => IInv
<1> SUFFICES ASSUME Init PROVE IInv
  OBVIOUS
<1>1. Main \in Sessions /\ NoToken \in Tokens \cup {NoToken}
  BY LivenessAssumption
<1>2. ASSUME NEW s \in Sessions PROVE GoodAt(s)
  <2>1. /\ status[s] = "new" /\ ses[s] = Fresh /\ queue[s] = <<>> /\ holder[s] = NoOp
        /\ row[s] = NoToken /\ proof[s] = Unproved /\ barred[s] = {}
    BY DEF Init
  <2>2. Good("new", status[Main], Fresh, <<>>, NoOp, NoToken, Unproved, {})
    BY <1>1, RestartGood
  <2> QED BY <2>1, <2>2 DEF GoodAt
<1>3. \A s \in Sessions : /\ Fresh \in Session /\ <<>> \in Seq(Operations) /\ Len(queue[s]) <= MaxQueue
                          /\ Unproved \in [Tokens -> Ages]
  BY <1>2 DEF GoodAt, Good, Typed, Init
<1>4. TypeOK
  BY <1>1, <1>3, Numbers DEF TypeOK, Init
<1> QED BY <1>2, <1>4 DEF IInv, BaseFirst, Init

\* Every step keeps the invariant.
LEMMA Inductive == IInv /\ [Next]_vars => IInv'
<1> SUFFICES ASSUME IInv, [Next]_vars PROVE IInv'
  OBVIOUS
<1>1. CASE UNCHANGED vars
  BY <1>1 DEF vars, IInv, TypeOK, BaseFirst, GoodAt
<1>2. ASSUME NEW s \in Sessions,
             \/ Create(s) \/ EnterAny(s) \/ WriteOk(s) \/ WriteFails(s) \/ Tool(s) \/ Reap(s) \/ Gone(s)
             \/ \E t \in Tokens : Mint(s, t) \/ Beat(s, t) \/ Claim(s, t) \/ Relinquish(s, t)
      PROVE  IInv'
  BY <1>2, CreateStep, RefusedStep, RepeatedStep, EnterClaimStep, EnterReleaseStep, EnterAdoptStep,
     WriteOkStep, WriteFailsStep, ToolStep, EndStep, MintStep, BeatStep, ClaimStep, RelinquishStep
     DEF EnterAny
<1> QED BY <1>1, <1>2, TickStep, RestartStep DEF Next

\* The invariant holds in every reachable state.
LEMMA IInvHolds == Spec => []IInv
BY Initial, Inductive, PTL DEF Spec

-----------------------------------------------------------------------------
(* Theorems *)

\* The rows name the owners the daemon serves, for every set of sessions and tokens, as long as
\* not both an adoption's write and a release's write can fail (releaseLivenessOwnership marks a
\* token as processed before its write): what a restart reads is the owner whose claim was
\* acknowledged.
THEOREM RowsAreSound == ASSUME OneWriteLands PROVE Spec => []RowsSound
<1>1. IInv => RowsSound
  <2> SUFFICES ASSUME IInv PROVE RowsSound
    OBVIOUS
  <2>1. ASSUME NEW s \in Sessions, status[s] = "up", holder[s] = NoOp, ses[s].owner \in ses[s].claims
        PROVE  row[s] = ses[s].owner
    <3>1. Good(status[s], status[Main], ses[s], queue[s], holder[s], row[s], proof[s], barred[s])
      BY At
    <3> QED BY <3>1, <2>1 DEF Good, Closed, Named
  <2> QED BY <2>1 DEF IInv, RowsSound, ClaimDurable
<1> QED BY <1>1, IInvHolds, PTL

\* An owner whose last proof of life is within lease and grace holds its session.
LEMMA ProvedHolds ==
  ASSUME IInv, NEW s \in Sessions, ses[s].owner # NoToken, ~(proof[s][ses[s].owner] > Lease + Grace)
  PROVE  /\ Holds(s) /\ ses[s].heard = TRUE /\ Owned(s) /\ ses[s].lease \in Ages
         /\ OwnerAge(s) = ses[s].lease /\ ses[s].lease <= Lease + Grace
<1> DEFINE o == ses[s].owner
<1>1. /\ Good(status[s], status[Main], ses[s], queue[s], holder[s], row[s], proof[s], barred[s])
      /\ TypeOK
  BY At
<1>2. o \in Tokens /\ proof[s][o] \in Ages
  BY <1>1 DEF TypeOK, Session
<1>3. proof[s][o] \in Nat /\ proof[s][o] < Cap /\ proof[s][o] <= Lease + Grace
  <2>1. /\ proof[s][o] \in Nat /\ Lease \in Nat /\ Grace \in Nat /\ Cap = Lease + Grace + 1
        /\ ~(proof[s][o] > Lease + Grace)
    BY <1>2, Numbers
  <2> QED BY <2>1
<1>4. ses[s].lease \in Ages /\ ses[s].lease <= proof[s][o] /\ ses[s].heard = TRUE /\ ses[s].waiting = NoAge
  BY <1>1, <1>3 DEF Good, ProvedBeat
<1>5. ses[s].lease # NoAge /\ ses[s].lease \in Nat
  BY <1>4, Numbers
<1>6. ses[s].lease <= Lease + Grace
  BY <1>3, <1>4, <1>5, Numbers
<1>7. OwnerAge(s) = ses[s].lease /\ Owned(s) /\ GraceOf(s) = Grace /\ ~MintBound(s)
  BY <1>4, <1>5 DEF OwnerAge, Owned, GraceOf, MintBound
<1> QED BY <1>4, <1>6, <1>7 DEF Holds

\* With its mutex free a session changes hands only by an adoption, while nobody owns it and no
\* claim was processed, or by a claim that is accepted.
LEMMA Handover ==
  ASSUME IInv, Next, NEW s \in Sessions, Forward(s), ses'[s].owner # ses[s].owner,
         ses'[s].owner # NoToken
  PROVE  \/ ses[s].owner = NoToken /\ ses[s].claims = {}
         \/ /\ EnterClaim(s) /\ Accepts(s, ses'[s].owner)
            /\ holder'[s] # NoOp /\ holder'[s].run.op = "claim"
<1>1. TypeOK /\ NoToken \notin Tokens /\ ses[s] \in Session /\ holder[s] = NoOp /\ restarts' = restarts
      /\ DOMAIN ses = Sessions /\ DOMAIN holder = Sessions
  BY At DEF TypeOK, Forward
<1>2. ~Restart
  <2>1. restarts \in Nat
    BY <1>1, Numbers DEF TypeOK
  <2> QED BY <1>1, <2>1 DEF Restart
<1>3. ~Tick
  <2>1. Tick => ses'[s] = ses[s] \/ ses'[s] = Aged(ses[s])
    BY DEF Tick
  <2> QED BY <2>1, <1>1, AgedFields
<1>4. PICK c \in Sessions :
        \/ Create(c) \/ EnterAny(c) \/ WriteOk(c) \/ WriteFails(c) \/ Tool(c) \/ Reap(c) \/ Gone(c)
        \/ \E t \in Tokens : Mint(c, t) \/ Beat(c, t) \/ Claim(c, t) \/ Relinquish(c, t)
  BY <1>2, <1>3 DEF Next
<1>5. ~(Create(c) \/ Reap(c) \/ Gone(c) \/ EnterRefused(c) \/ EnterAdopt(c))
  BY DEF Create, Reap, Gone, EnterRefused, EnterAdopt
<1>6. ~WriteOk(c)
  BY <1>1, RecordedFields DEF WriteOk
<1>7. ~WriteFails(c)
  <2> SUFFICES ASSUME WriteFails(c) PROVE FALSE
    OBVIOUS
  <2>1. holder[c] # NoOp /\ c # s
    BY <1>1 DEF WriteFails
  <2>2. holder[c].run.op \in {"claim", "release", "adopt"}
    BY <2>1, At, HolderFields
  <2>3. ses'[s] = ses[s]
    BY <1>1, <2>1, <2>2 DEF WriteFails
  <2> QED BY <2>3
<1>8. ~Tool(c)
  BY <1>1 DEF Tool, Session
<1>9. ~EnterRepeated(c)
  <2>1. EnterRepeated(c) => ses'[s] = ses[s] \/ ses'[s] = Recorded(ses[s])
    BY <1>1 DEF EnterRepeated
  <2> QED BY <2>1, <1>1, RecordedFields
<1>10. ~EnterRelease(c)
  <2>1. EnterRelease(c) => Head(queue[c]).token \in Tokens
    BY EnterFacts DEF EnterRelease
  <2> QED BY <2>1, <1>1, ReleasedFields DEF EnterRelease, First
<1>11. ASSUME NEW t \in Tokens, Mint(c, t) \/ Beat(c, t)
       PROVE  ses[s].owner = NoToken /\ ses[s].claims = {}
  BY <1>1, <1>11, RecordedFields, AdoptedFields, ZenonT(60) DEF Mint, Beat, MayAdopt
<1>12. ~ \E t \in Tokens : Claim(c, t) \/ Relinquish(c, t)
  BY <1>1, RecordedFields DEF Claim, Relinquish
<1>13. ASSUME EnterClaim(c)
       PROVE  /\ EnterClaim(s) /\ Accepts(s, ses'[s].owner)
              /\ holder'[s] # NoOp /\ holder'[s].run.op = "claim"
  <2> DEFINE t == Head(queue[c]).token
             g == Begun("claim", t, ses[c])
  <2>1. t \in Tokens /\ ses[c] \in Session
    BY <1>1, <1>13, EnterFacts DEF EnterClaim, TypeOK
  <2>2. /\ ses' = [ses EXCEPT ![c] = Taken(ses[c], t)] /\ Accepts(c, t)
        /\ holder' = [holder EXCEPT ![c] = g]
    BY <1>13 DEF EnterClaim, First, Write, Begun
  <2>3. g # NoOp /\ g.run.op = "claim"
    <3>1. g \in Writes
      BY <2>1 DEF Begun, Writes, Operations
    <3> QED BY <3>1, LivenessAssumption DEF Begun
  <2> HIDE DEF t, g
  <2>4. c = s
    BY <1>1, <2>2
  <2>5. ses'[s].owner = t
    BY <1>1, <2>1, <2>2, <2>4, TakenFields
  <2> QED BY <1>1, <1>13, <2>2, <2>3, <2>4, <2>5
<1> QED BY <1>4, <1>5, <1>6, <1>7, <1>8, <1>9, <1>10, <1>11, <1>12, <1>13 DEF EnterAny

\* No claim and no keeper's tick displaces an owner whose heartbeat or accepted claim is within
\* lease and grace (decideLivenessClaim), whatever writes fail and however often it is tried; only
\* the owner of the base may.
THEOREM LiveOwnersKept == Spec => LiveOwnerKept
<1>1. IInv /\ [Next]_vars =>
        [\A s \in Sessions :
           LET o == ses[s].owner  n == ses'[s].owner IN
           Forward(s) /\ o # n /\ o # NoToken /\ n # NoToken
             => proof[s][o] > Lease + Grace \/ OwnsHeldBase(s, n)]_vars
  <2> SUFFICES ASSUME IInv, Next, NEW s \in Sessions, Forward(s), ses[s].owner # ses'[s].owner,
                      ses[s].owner # NoToken, ses'[s].owner # NoToken,
                      ~(proof[s][ses[s].owner] > Lease + Grace)
               PROVE  OwnsHeldBase(s, ses'[s].owner)
    OBVIOUS
  <2>1. Holds(s)
    BY ProvedHolds
  <2>2. Accepts(s, ses'[s].owner)
    BY Handover
  <2> QED BY <2>1, <2>2 DEF Accepts, HoldsBase, OwnsHeldBase
<1> QED BY <1>1, IInvHolds, PTL DEF Spec, LiveOwnerKept

\* A token that gave the session up, or was displaced after a claim, does not come back by a
\* keeper's tick or by a retried claim (livenessOwnershipClaims), for any number of clients.
THEOREM ReturnsAreClaims == Spec => NoSilentReturn
<1>1. IInv /\ [Next]_vars =>
        [\A s \in Sessions : \A t \in barred[s] :
           Forward(s) /\ ses[s].owner # t /\ ses'[s].owner = t
             => /\ holder'[s] # NoOp /\ holder'[s].run.op = "claim"
                /\ ses[s].owner = NoToken \/ OwnsHeldBase(s, t)]_vars
  <2> SUFFICES ASSUME IInv, Next, NEW s \in Sessions, NEW t \in barred[s], Forward(s),
                      ses[s].owner # t, ses'[s].owner = t
               PROVE  /\ holder'[s] # NoOp /\ holder'[s].run.op = "claim"
                      /\ ses[s].owner = NoToken \/ OwnsHeldBase(s, t)
    OBVIOUS
  <2>1. /\ Good(status[s], status[Main], ses[s], queue[s], holder[s], row[s], proof[s], barred[s])
        /\ TypeOK /\ NoToken \notin Tokens
    BY At
  <2>2. t \in ses[s].claims /\ t # NoToken
    BY <2>1 DEF Good, TypeOK
  <2>3. Accepts(s, t) /\ holder'[s] # NoOp /\ holder'[s].run.op = "claim"
    BY <2>2, Handover
  <2> QED BY <2>2, <2>3 DEF Accepts, HoldsBase, OwnsHeldBase
<1> QED BY <1>1, IInvHolds, PTL DEF Spec, NoSilentReturn

\* The monitor ends no session whose owner is heard of within lease and grace.
LEMMA ReapedSilent ==
  ASSUME IInv, NEW s \in Sessions, Reap(s), ses[s].owner # NoToken, status[Main] # "gone"
  PROVE  proof[s][ses[s].owner] > Lease + Grace
<1> SUFFICES ASSUME ~(proof[s][ses[s].owner] > Lease + Grace) PROVE FALSE
  OBVIOUS
<1>1. /\ ses[s].heard = TRUE /\ Owned(s) /\ ses[s].lease \in Ages
      /\ OwnerAge(s) = ses[s].lease /\ ses[s].lease <= Lease + Grace
  BY ProvedHolds
<1>2. Stale(s)
  BY DEF Reap
<1>3. GraceOf(s) = Grace
  BY <1>1 DEF GraceOf
<1>4. JudgedAge(s) > Lease + Grace
  BY <1>1, <1>2, <1>3 DEF Stale
<1> DEFINE base == IF s # Main /\ status[Main] # "gone" /\ ses[Main].heard
                      /\ ses[Main].owner # NoToken /\ ses[Main].owner = ses[s].owner
                   THEN OwnerAge(Main) ELSE ses[s].lease
<1>5. JudgedAge(s) = IF base < ses[s].lease THEN base ELSE ses[s].lease
  BY <1>1 DEF JudgedAge
<1>6. base \in Nat
  <2>1. ses[Main] \in Session
    BY At DEF TypeOK
  <2>2. OwnerAge(Main) \in Ages
    BY <2>1 DEF OwnerAge, Session
  <2> QED BY <2>2, <1>1, Numbers
<1> HIDE DEF base
<1>7. ses[s].lease \in Nat /\ Lease \in Nat /\ Grace \in Nat
  BY <1>1, Numbers
<1> QED BY <1>1, <1>4, <1>5, <1>6, <1>7

\* A live owner keeps its session: no claim, tick, failing write or monitor takes it, for every
\* set of tokens and every lease and grace.  Of a session that is no label: a label is judged
\* on the heartbeats of its base too, with a shorter grace.
THEOREM OwnersAreKept == ASSUME Sessions = {Main} PROVE Spec => OwnersKept
<1>1. IInv /\ [Next]_vars =>
        [\A s \in Sessions :
           status[s] = "up" /\ status'[s] = "releasing" /\ ses[s].owner # NoToken
             => \/ status[Main] = "gone"
                \/ \A b \in ProvedBy(s) : proof[b][ses[s].owner] > Window(s, b)]_vars
  <2> SUFFICES ASSUME IInv, Next, NEW s \in Sessions, status[s] = "up", status'[s] = "releasing",
                      ses[s].owner # NoToken, status[Main] # "gone", NEW b \in ProvedBy(s)
               PROVE  proof[b][ses[s].owner] > Window(s, b)
    OBVIOUS
  <2>1. b = s
    BY DEF ProvedBy
  <2>2. DOMAIN status = Sessions
    BY At DEF TypeOK
  <2>3. Reap(s)
    BY <2>2, SMTT(30) DEF Next, Tick, Restart, Reachable, Create, Creates, Mint, EnterAny, EnterRefused, EnterRepeated,
                EnterClaim, EnterRelease, EnterAdopt, Enter, WriteOk, WriteFails, Tool, Reap, Gone,
                Beat, Claim, Relinquish
  <2>4. Window(s, b) = Lease + Grace
    BY <2>1 DEF Window
  <2> QED BY <2>1, <2>3, <2>4, ReapedSilent
<1> QED BY <1>1, IInvHolds, LiveOwnersKept, PTL DEF Spec, OwnersKept, OwnerNotReaped
=============================================================================
