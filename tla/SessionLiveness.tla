--------------------------- MODULE SessionLiveness ---------------------------
(***************************************************************************)
(* Who owns a session's liveness: heartbeats that renew the owner's lease, *)
(* claims and releases of the ownership under a per-session mutex with a   *)
(* row write inside it, adoption by a keeper's tick, and the monitor that  *)
(* releases a session whose owner is silent.                               *)
(*                                                                         *)
(* A clock is the time since it was stamped, in steps of Tick, capped just *)
(* past the longest window. Heartbeat policy only: no cli-idle session, no *)
(* stall of the daemon, no call in flight that vetoes a release.           *)
(***************************************************************************)
EXTENDS Naturals, FiniteSets, Sequences

CONSTANTS
  Sessions,
  Main,         \* the base session; every other one is a label of it
  Tokens,
  NoToken,
  NoOp,
  Lease,        \* heartbeatTimeoutMs
  Grace,        \* SUSPECT_GRACE_MS
  FirstGrace,   \* preFirstHeartbeatGraceMs
  Called,       \* bound: the sessions that other clients' tool calls reach
  Ops,          \* bound: the operations clients of the instance issue
  FailOps,      \* operations whose row write can fail
  MaxQueue,     \* bound: operations waiting for one session's mutex
  MaxRestarts   \* bound: daemon restarts

Cap == Lease + Grace + 1
NoAge == Cap + 1
Ages == 0..Cap

Operations == [op : {"claim", "release", "adopt"}, token : Tokens]

\* livenessOwnerToken, lastOwnerHeartbeat, lastHeartbeat (which any tool call stamps
\* too), livenessOwnerBoundAt, livenessOwnershipClaims, hasReceivedHeartbeat and
\* awaitingOwnerSince (NoAge once the session is owned)
Session == [owner : Tokens \cup {NoToken}, lease : Ages \cup {NoAge}, beat : Ages,
            bound : Ages \cup {NoAge}, claims : SUBSET Tokens, heard : BOOLEAN,
            waiting : Ages \cup {NoAge}]

\* an operation inside the mutex: "before" is the session it found, "moved" whether the
\* session was active since
Writes == [run : Operations, before : Session, moved : BOOLEAN]

ASSUME LivenessAssumption ==
  /\ Main \in Sessions /\ NoToken \notin Tokens /\ Called \subseteq Sessions
  /\ {Lease, Grace, FirstGrace, MaxQueue, MaxRestarts} \subseteq Nat
  /\ FirstGrace <= Lease + Grace
  /\ FailOps \subseteq Ops /\ Ops \subseteq {"claim", "release", "adopt"}
  /\ NoOp \notin Writes

VARIABLES
  status,    \* "new", "up", "releasing" or "gone"
  ses,       \* the liveness fields of each session
  queue,     \* operations waiting for the mutex
  holder,    \* the operation inside it, its row write under way
  row,       \* liveness_owner_token of the session's active row
  restarts,
  proof,     \* history: since a token's last heartbeat or accepted claim, as far as no
             \* restart came after it, nor a claim whose write failed while it was taken
  barred     \* history: tokens that gave the session up, or claimed it and were displaced

vars == <<status, ses, queue, holder, row, restarts, proof, barred>>

TypeOK ==
  /\ status \in [Sessions -> {"new", "up", "releasing", "gone"}]
  /\ ses \in [Sessions -> Session]
  /\ queue \in [Sessions -> Seq(Operations)] /\ \A s \in Sessions : Len(queue[s]) <= MaxQueue
  /\ holder \in [Sessions -> Writes \cup {NoOp}]
  /\ row \in [Sessions -> Tokens \cup {NoToken}] /\ restarts \in 0..MaxRestarts
  /\ proof \in [Sessions -> [Tokens -> Ages]] /\ barred \in [Sessions -> SUBSET Tokens]

\* a session as it is created
Fresh == [owner |-> NoToken, lease |-> NoAge, beat |-> 0, bound |-> NoAge,
          claims |-> {}, heard |-> FALSE, waiting |-> NoAge]

Unproved == [t \in Tokens |-> Cap]

Init ==
  /\ status = [s \in Sessions |-> "new"]
  /\ ses = [s \in Sessions |-> Fresh]
  /\ queue = [s \in Sessions |-> <<>>] /\ holder = [s \in Sessions |-> NoOp]
  /\ row = [s \in Sessions |-> NoToken] /\ restarts = 0
  /\ proof = [s \in Sessions |-> Unproved]
  /\ barred = [s \in Sessions |-> {}]

-----------------------------------------------------------------------------
(* Leases *)

Owned(s) == ses[s].waiting = NoAge

\* hasMintBoundClaimLease
MintBound(s) == ses[s].owner # NoToken /\ ses[s].lease = NoAge /\ ses[s].bound # NoAge

\* ownerLeaseHeartbeat
OwnerAge(s) == IF ses[s].lease = NoAge THEN ses[s].beat ELSE ses[s].lease

\* suspectGraceMsFor
GraceOf(s) == IF ses[s].heard /\ Owned(s) THEN Grace ELSE 0

\* MUTANT of Holds: an owner inside its suspect grace no longer holds
Holds_LiveOnly(s) ==
  /\ ses[s].owner # NoToken
  /\ IF MintBound(s) THEN ses[s].bound <= Lease ELSE OwnerAge(s) <= Lease

\* sessionOwnerLeaseSnapshot and holds: the lease is live or in its grace
Holds(s) ==
  /\ ses[s].owner # NoToken
  /\ IF MintBound(s)
     THEN ses[s].bound <= Lease + (IF Owned(s) THEN Grace ELSE 0)
     ELSE OwnerAge(s) <= Lease + GraceOf(s)

HeldBase(s) == s # Main /\ status[Main] \in {"up", "releasing"} /\ Holds(Main)

\* MUTANT of JudgedAge: a session is judged on the clock tool calls refresh
JudgedAge_Activity(s) == ses[s].beat

\* MUTANT of JudgedAge: a label is judged on its own heartbeats alone
JudgedAge_NoBase(s) ==
  IF ses[s].owner # NoToken /\ ses[s].heard THEN OwnerAge(s) ELSE ses[s].beat

\* judgedLeaseHeartbeat: the owner's own heartbeats, a same-token base's included
JudgedAge(s) ==
  LET own == IF ses[s].owner # NoToken /\ ses[s].heard THEN OwnerAge(s) ELSE ses[s].beat
      base == IF s # Main /\ status[Main] # "gone" /\ ses[Main].heard
                 /\ ses[Main].owner # NoToken /\ ses[Main].owner = ses[s].owner
              THEN OwnerAge(Main) ELSE own
  IN IF base < own THEN base ELSE own

\* staleReason and rehydrationOwnerStaleReason
Stale(s) ==
  CASE ~Owned(s) -> ses[s].waiting > Lease + Grace
    [] Owned(s) /\ ~ses[s].heard /\ JudgedAge(s) = ses[s].beat -> ses[s].beat > FirstGrace
    [] OTHER -> JudgedAge(s) > Lease + GraceOf(s)

-----------------------------------------------------------------------------
(* What the steps do to a session's fields *)

\* recordHeartbeat
Recorded(x) == [x EXCEPT !.beat = 0, !.lease = 0, !.heard = TRUE, !.waiting = NoAge]

\* a token is adopted by a session without an owner
Adopted(x, t) == [x EXCEPT !.owner = t, !.bound = NoAge]

\* MUTANT of Taken: the claimant counts as unheard until its write has resolved
Taken_Unheard(x, t) ==
  [x EXCEPT !.owner = t, !.bound = NoAge, !.lease = 0, !.claims = @ \cup {t}]

\* takeLivenessOwnership and markAcceptedClaimantHeartbeating
Taken(x, t) ==
  [x EXCEPT !.owner = t, !.bound = NoAge, !.lease = 0, !.claims = @ \cup {t},
            !.heard = TRUE, !.waiting = NoAge]

\* MUTANT of Undone: a claim whose write failed still counts as processed
Undone_Processed(x, b, t, moved) ==
  [x EXCEPT !.owner = b.owner, !.lease = b.lease, !.bound = b.bound,
            !.heard = IF moved THEN @ ELSE b.heard,
            !.waiting = IF moved THEN @ ELSE b.waiting]

\* persistNewLivenessOwnershipClaim: the write failed
Undone(x, b, t, moved) ==
  [x EXCEPT !.owner = b.owner, !.lease = b.lease, !.bound = b.bound,
            !.claims = IF t \in b.claims THEN @ ELSE @ \ {t},
            !.heard = IF moved THEN @ ELSE b.heard,
            !.waiting = IF moved THEN @ ELSE b.waiting]

\* MUTANT of Released: the released token is not remembered
Released_Forgotten(x, t) == [x EXCEPT !.owner = NoToken, !.bound = NoAge]

\* releaseLivenessOwnership: no keeper's tick adopts the session again
Released(x, t) == [x EXCEPT !.owner = NoToken, !.bound = NoAge, !.claims = @ \cup {t}]


Older(age) == IF age < Cap THEN age + 1 ELSE age

Aged(x) == [x EXCEPT !.lease = Older(@), !.beat = Older(@), !.bound = Older(@),
                     !.waiting = Older(@)]

\* recoverySessionFields: a restarted daemon knows the owner its row names
Recovered(t) ==
  [owner |-> t, lease |-> IF t = NoToken THEN NoAge ELSE 0, beat |-> 0, bound |-> NoAge,
   claims |-> {t} \ {NoToken}, heard |-> FALSE, waiting |-> 0]

-----------------------------------------------------------------------------
(* Heartbeats, claims and releases arrive *)

\* unlessBaseEnded: a label ends with its base
Reachable(s) == status[s] = "up" /\ status[Main] = "up"

\* the next waiter takes a free mutex before another request or timer runs
Settled == \A s \in Sessions : holder[s] = NoOp => queue[s] = <<>>

\* the session's activity generation moved while an operation's write is under way
Touched(s) ==
  holder' = [holder EXCEPT ![s] = IF @ = NoOp THEN NoOp ELSE [@ EXCEPT !.moved = TRUE]]

Enqueue(s, kind, t) ==
  /\ kind \in Ops /\ Len(queue[s]) < MaxQueue
  /\ queue' = [queue EXCEPT ![s] = Append(@, [op |-> kind, token |-> t])]

\* mayAdoptUnownedLiveness
MayAdopt(s, t) ==
  /\ ses[s].owner = NoToken /\ ses[s].claims = {}
  /\ ~(HeldBase(s) /\ ses[Main].owner # t)

\* a session is created, a label under its base
Creates(s) ==
  /\ Settled /\ status[s] = "new" /\ (s # Main => status[Main] = "up")
  /\ status' = [status EXCEPT ![s] = "up"]
  /\ UNCHANGED <<holder, row, restarts, proof, barred>>

\* without an owner: by a client that carries no token
Create(s) == Creates(s) /\ UNCHANGED <<ses, queue>>

\* bindAcquiredLivenessOwnerToken: the minting proxy is its first owner
Mint(s, t) ==
  /\ Creates(s) /\ MayAdopt(s, t) /\ Enqueue(s, "adopt", t)
  /\ ses' = [ses EXCEPT ![s] = [Adopted(@, t) EXCEPT !.bound = 0]]

\* a recurring keeper's heartbeat: the owner's, or one that adopts the session
Beat(s, t) ==
  /\ Settled /\ Reachable(s)
  /\ \/ ses[s].owner = t /\ queue' = queue
     \/ MayAdopt(s, t) /\ Enqueue(s, "adopt", t)
  /\ ses' = [ses EXCEPT ![s] = Recorded(IF @.owner = t THEN @ ELSE Adopted(@, t))]
  /\ proof' = [proof EXCEPT ![s][t] = 0]
  /\ Touched(s)
  /\ UNCHANGED <<status, row, restarts, barred>>

\* a claiming heartbeat: the owner's is recorded before the mutex is awaited
Claim(s, t) ==
  /\ Settled /\ Reachable(s) /\ Enqueue(s, "claim", t)
  /\ IF ses[s].owner = t
     THEN /\ ses' = [ses EXCEPT ![s] = Recorded(@)]
          /\ proof' = [proof EXCEPT ![s][t] = 0]
          /\ Touched(s)
     ELSE UNCHANGED <<ses, proof, holder>>
  /\ UNCHANGED <<status, row, restarts, barred>>

Relinquish(s, t) ==
  /\ Settled /\ Reachable(s) /\ Enqueue(s, "release", t)
  /\ UNCHANGED <<status, ses, holder, row, restarts, proof, barred>>

\* reclaimAndRefreshExistingSession: any client's control call
Tool(s) ==
  /\ Settled /\ Reachable(s) /\ s \in Called
  /\ ses' = [ses EXCEPT ![s].beat = 0, ![s].waiting = NoAge]
  /\ Touched(s)
  /\ UNCHANGED <<status, queue, row, restarts, proof, barred>>

-----------------------------------------------------------------------------
(* Operations run one at a time, their row write inside the mutex *)

\* MUTANT of HoldsBase: the base's last owner counts though its lease lapsed
HoldsBase_Lapsed(s, t) == s # Main /\ ses[Main].owner = t

HoldsBase(s, t) == HeldBase(s) /\ ses[Main].owner = t

\* MUTANT of Accepts: a displaced token's retried claim is judged like a first one
Accepts_Retries(s, t) ==
  \/ ses[s].owner = t \/ HoldsBase(s, t)
  \/ ~Holds(s) /\ ~HeldBase(s)

\* decideLivenessClaim
Accepts(s, t) ==
  \/ ses[s].owner = t \/ HoldsBase(s, t)
  \/ /\ ses[s].owner = NoToken \/ t \notin ses[s].claims
     /\ ~Holds(s) /\ ~HeldBase(s)

\* the owner's own retried claim
Repeated(s, t) == ses[s].owner = t /\ t \in ses[s].claims

First(s) == Head(queue[s])

Enter(s) ==
  /\ holder[s] = NoOp /\ queue[s] # <<>>
  /\ queue' = [queue EXCEPT ![s] = Tail(@)]
  /\ UNCHANGED <<status, row, restarts>>

Write(s, kind, t) ==
  holder' = [holder EXCEPT ![s] = [run |-> [op |-> kind, token |-> t],
                                   before |-> ses[s], moved |-> FALSE]]

\* refused, or there is nothing left to do
EnterRefused(s) ==
  /\ Enter(s)
  /\ \/ ~Reachable(s)
     \/ First(s).op = "claim" /\ ~Accepts(s, First(s).token)
     \/ First(s).op = "release" /\ ses[s].owner # First(s).token
     \/ First(s).op = "adopt" /\ ses[s].owner = NoToken
  /\ UNCHANGED <<ses, holder, proof, barred>>

EnterRepeated(s) ==
  /\ Enter(s) /\ First(s).op = "claim" /\ Reachable(s) /\ Repeated(s, First(s).token)
  /\ ses' = [ses EXCEPT ![s] = Recorded(@)]
  /\ proof' = [proof EXCEPT ![s][First(s).token] = 0]
  /\ UNCHANGED <<holder, barred>>

\* a session being released is still published until its release commits
EnterClaim(s) ==
  LET t == First(s).token IN
  /\ Enter(s) /\ First(s).op = "claim"
  /\ status[s] # "gone" /\ (s # Main => status[Main] = "up")
  /\ Accepts(s, t) /\ ~Repeated(s, t)
  /\ ses' = [ses EXCEPT ![s] = Taken(@, t)]
  /\ proof' = IF ses[s].owner = t THEN proof ELSE [proof EXCEPT ![s][t] = 0]
  /\ Write(s, "claim", t)
  /\ UNCHANGED barred

EnterRelease(s) ==
  LET t == First(s).token IN
  /\ Enter(s) /\ First(s).op = "release" /\ Reachable(s) /\ ses[s].owner = t
  /\ ses' = [ses EXCEPT ![s] = Released(@, t)]
  /\ barred' = [barred EXCEPT ![s] = @ \cup {t}]
  /\ Write(s, "release", t)
  /\ UNCHANGED proof

\* the token is read under the mutex
EnterAdopt(s) ==
  /\ Enter(s) /\ First(s).op = "adopt" /\ status[s] = "up" /\ ses[s].owner # NoToken
  /\ Write(s, "adopt", ses[s].owner)
  /\ UNCHANGED <<ses, proof, barred>>

\* the write landed; a claim's heartbeat is recorded unless the session was released
WriteOk(s) ==
  LET run == holder[s].run
      acknowledged == run.op = "claim" /\ Reachable(s) IN
  /\ holder[s] # NoOp /\ status[s] # "gone"
  /\ row' = [row EXCEPT ![s] = IF run.op = "release" THEN NoToken ELSE run.token]
  /\ ses' = IF acknowledged THEN [ses EXCEPT ![s] = Recorded(@)] ELSE ses
  /\ proof' = IF acknowledged THEN [proof EXCEPT ![s][run.token] = 0] ELSE proof
  /\ barred' = IF run.op = "claim"
               THEN [barred EXCEPT ![s] = (@ \cup ({holder[s].before.owner} \cap holder[s].before.claims))
                                             \ {run.token}]
               ELSE barred
  /\ holder' = [holder EXCEPT ![s] = NoOp]
  /\ UNCHANGED <<status, queue, restarts>>

\* it failed, or the session's release left no active row to write
WriteFails(s) ==
  LET run == holder[s].run  b == holder[s].before IN
  /\ holder[s] # NoOp /\ (run.op \in FailOps \/ status[s] # "up")
  /\ ses' = CASE run.op = "claim" ->
                   [ses EXCEPT ![s] = Undone(@, b, run.token, holder[s].moved)]
              [] run.op = "release" ->
                   [ses EXCEPT ![s].owner = run.token, ![s].bound = b.bound]
              [] run.op = "adopt" -> ses
  /\ barred' = IF run.op = "release" THEN [barred EXCEPT ![s] = @ \ {run.token}] ELSE barred
  /\ proof' = CASE run.op = "claim" /\ holder[s].moved -> [proof EXCEPT ![s] = Unproved]
                [] run.op = "claim" /\ ~holder[s].moved /\ b.owner # run.token ->
                     [proof EXCEPT ![s][run.token] = Cap]
                [] OTHER -> proof
  /\ holder' = [holder EXCEPT ![s] = NoOp]
  /\ UNCHANGED <<status, queue, row, restarts>>

-----------------------------------------------------------------------------
(* Time, the monitor and the daemon *)

Tick ==
  /\ Settled
  /\ ses' = [s \in Sessions |-> IF status[s] = "new" THEN ses[s] ELSE Aged(ses[s])]
  /\ holder' = [s \in Sessions |-> IF holder[s] = NoOp THEN NoOp
                                   ELSE [holder[s] EXCEPT !.before = Aged(@)]]
  /\ proof' = [s \in Sessions |-> [t \in Tokens |-> Older(proof[s][t])]]
  /\ UNCHANGED <<status, queue, row, restarts, barred>>

\* reapStaleSessions; a base that ended takes its labels with it
Reap(s) ==
  /\ Settled /\ status[s] = "up"
  /\ Stale(s) \/ status[Main] = "gone"
  /\ status' = [status EXCEPT ![s] = "releasing"]
  /\ UNCHANGED <<ses, queue, holder, row, restarts, proof, barred>>

\* the release commits
Gone(s) ==
  /\ status[s] = "releasing"
  /\ status' = [status EXCEPT ![s] = "gone"]
  /\ UNCHANGED <<ses, queue, holder, row, restarts, proof, barred>>

\* what the row of a session may say when the daemon dies
RowAtExit(s) ==
  {row[s]} \cup
  (IF holder[s] = NoOp THEN {}
   ELSE {IF holder[s].run.op = "release" THEN NoToken ELSE holder[s].run.token})

\* rehydration: the sessions wait for the owners their rows name
Restart ==
  /\ restarts < MaxRestarts
  /\ restarts' = restarts + 1
  /\ row' \in {r \in [Sessions -> Tokens \cup {NoToken}] :
                 \A s \in Sessions : r[s] \in RowAtExit(s)}
  /\ status' = [s \in Sessions |-> CASE status[s] = "new" -> "new"
                                   [] Reachable(s) -> "up"
                                   [] OTHER -> "gone"]
  /\ ses' = [s \in Sessions |-> IF status[s] = "new" THEN ses[s] ELSE Recovered(row'[s])]
  /\ queue' = [s \in Sessions |-> <<>>] /\ holder' = [s \in Sessions |-> NoOp]
  /\ proof' = [s \in Sessions |-> Unproved]
  /\ barred' = [s \in Sessions |-> {}]

EnterAny(s) ==
  EnterRefused(s) \/ EnterRepeated(s) \/ EnterClaim(s) \/ EnterRelease(s) \/ EnterAdopt(s)

Next ==
  \/ Tick \/ Restart
  \/ \E s \in Sessions :
       \/ Create(s) \/ EnterAny(s) \/ WriteOk(s) \/ WriteFails(s) \/ Tool(s) \/ Reap(s) \/ Gone(s)
       \/ \E t \in Tokens : Mint(s, t) \/ Beat(s, t) \/ Claim(s, t) \/ Relinquish(s, t)

Spec == Init /\ [][Next]_vars

\* the clock runs, writes resolve and the monitor's timer gets its turn between requests;
\* no client need ever act
Fairness ==
  /\ SF_vars(Tick)
  /\ \A s \in Sessions :
       /\ WF_vars(EnterAny(s)) /\ WF_vars(WriteOk(s) \/ WriteFails(s))
       /\ SF_vars(Reap(s)) /\ WF_vars(Gone(s))

FairSpec == Spec /\ Fairness

-----------------------------------------------------------------------------
(* Properties *)

\* an operation of the session is entered, or none is involved: no write is undone
Forward(s) == holder[s] = NoOp /\ restarts' = restarts

OwnsHeldBase(s, t) == HeldBase(s) /\ ses[Main].owner = t

\* An owner whose heartbeat or accepted claim is within lease and grace is not displaced
\* by another token's claim or tick, unless that token holds the base of the session.
LiveOwnerKept ==
  [][\A s \in Sessions :
       LET o == ses[s].owner  n == ses'[s].owner IN
       Forward(s) /\ o # n /\ o # NoToken /\ n # NoToken
         => proof[s][o] > Lease + Grace \/ OwnsHeldBase(s, n)]_vars

\* the sessions whose heartbeats prove the owner of s alive: its own and its base's, of which
\* a label that still waits for its owner after a restart takes no notice
ProvedBy(s) ==
  {s} \cup {b \in {Main} : Owned(s) /\ status[b] = "up" /\ ses[b].owner = ses[s].owner}

\* how long the heartbeats of b keep s: those of the base give no suspect grace to a label
\* that nobody heartbeated itself (suspectGraceMsFor)
Window(s, b) == Lease + (IF b = s \/ ses[s].heard THEN Grace ELSE 0)

\* The monitor ends a session only when its owner was silent past lease and grace on the
\* session, and for as long on its base, or with its base: an acknowledged heartbeat is never
\* lost to a claim or a slow write, nor one of the base to its labels.
OwnerNotReaped ==
  [][\A s \in Sessions :
       status[s] = "up" /\ status'[s] = "releasing" /\ ses[s].owner # NoToken
         => \/ status[Main] = "gone"
            \/ \A b \in ProvedBy(s) : proof[b][ses[s].owner] > Window(s, b)]_vars

\* A live owner keeps its session: neither another client's claim nor the monitor takes it.
OwnersKept == LiveOwnerKept /\ OwnerNotReaped

\* A token that gave the session up, or claimed it and was displaced, owns it again
\* only by a claim of its own, and past another owner only as the owner of the base.
NoSilentReturn ==
  [][\A s \in Sessions : \A t \in barred[s] :
       Forward(s) /\ ses[s].owner # t /\ ses'[s].owner = t
         => /\ holder'[s] # NoOp /\ holder'[s].run.op = "claim"
            /\ ses[s].owner = NoToken \/ OwnsHeldBase(s, t)]_vars

\* With no write under way, an owner whose claim was processed is the one its row names:
\* a restarted daemon waits for it and not for an earlier one.
ClaimDurable ==
  \A s \in Sessions :
    status[s] = "up" /\ holder[s] = NoOp /\ ses[s].owner \in ses[s].claims
      => row[s] = ses[s].owner

\* The rows name the owners the daemon serves.
RowsSound == TypeOK /\ ClaimDurable

SilentOwner(s) ==
  /\ status[s] = "up" /\ Owned(s) /\ ses[s].owner # NoToken
  /\ ses[s].heard /\ ses[s].lease # NoAge
  /\ proof[s][ses[s].owner] = Cap /\ proof[Main][ses[s].owner] = Cap

\* A session whose heartbeating owner went silent is released, handed over or heard from,
\* whatever calls other clients make on it.
DeadOwnerReleased == \A s \in Sessions : SilentOwner(s) ~> ~SilentOwner(s)

=============================================================================
