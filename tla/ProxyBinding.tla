----------------------------- MODULE ProxyBinding -----------------------------
(***************************************************************************)
(* The client proxy's session state: the latest binding, the sessions held *)
(* besides it, the terminal fence, the heartbeat keeper that serves them,  *)
(* and the release epoch ledger that keeps a call in flight from binding a *)
(* session the daemon released meanwhile.                                  *)
(*                                                                         *)
(* The daemon is the environment: it answers a call with any result the    *)
(* proxy tells apart, answers a heartbeat that it does not know the        *)
(* session, releases any session at any time, and its connection may be    *)
(* lost.  The proxy closes at any time; it is followed up to the stop of   *)
(* its keeper.                                                             *)
(***************************************************************************)
EXTENDS Naturals, FiniteSets

CONSTANTS
  Sessions,
  Calls,        \* tool calls in flight at once
  Kinds,        \* of "use", "acquire" and "select", the tools that are called
  None,
  Repeats,      \* bound: may the release of a session be notified again?
  MaxReleases   \* bound: release notifications

ASSUME ProxyAssumption ==
  /\ None \notin Sessions /\ IsFiniteSet(Calls) /\ MaxReleases \in Nat
  /\ Kinds \subseteq {"use", "acquire", "select"} /\ Repeats \in BOOLEAN

VARIABLES
  proxy,   \* ProxySessionState and LatestBindingKeeper
  ledger,  \* ReleaseEpochLedger
  call,    \* ToolCallForwarder.forward and TaskSessionBindings entries
  ended    \* the daemon's: sessions that were released

vars == <<proxy, ledger, call, ended>>

Epochs == 0..MaxReleases

\* `stopped`: answered not-found and no longer heartbeated.  The transport is live from
\* "opening" on, and calls run on it when it is "up".
Proxies ==
  [bound : Sessions \cup {None}, fence : Sessions \cup {None},
   held : SUBSET Sessions, owned : SUBSET Sessions, claimable : SUBSET Sessions,
   stopped : SUBSET Sessions, started : BOOLEAN, interval : BOOLEAN,
   link : {"down", "opening", "establishing", "up"},
   closing : {"open", "closing", "stopped"}]

Ledgers ==
  [epoch : Epochs, released : [Sessions -> Epochs],
   refs : [Sessions -> 0..Cardinality(Calls)], acq : [Epochs -> 0..Cardinality(Calls)]]

\* `seen` is history: the sessions whose release was notified since the call was forwarded
CallStates ==
  [pc : {"idle", "waiting", "sent", "task", "stopping", "establishing"}, kind : Kinds \cup {"none"},
   named : Sessions \cup {None}, at : Epochs, sends : 0..2, task : BOOLEAN,
   minted : Sessions \cup {None}, seen : SUBSET Sessions]

Idle ==
  [pc |-> "idle", kind |-> "none", named |-> None, at |-> 0, sends |-> 0, task |-> FALSE,
   minted |-> None, seen |-> {}]

TypeOK == proxy \in Proxies /\ ledger \in Ledgers /\ call \in [Calls -> CallStates]
          /\ ended \in SUBSET Sessions

Init ==
  /\ proxy = [bound |-> None, fence |-> None, held |-> {}, owned |-> {}, claimable |-> {},
              stopped |-> {}, started |-> FALSE, interval |-> FALSE,
              link |-> "down", closing |-> "open"]
  /\ ledger = [epoch |-> 0, released |-> [s \in Sessions |-> 0],
               refs |-> [s \in Sessions |-> 0], acq |-> [e \in Epochs |-> 0]]
  /\ call = [c \in Calls |-> Idle]
  /\ ended = {}

Learns(c) == call[c].kind \in {"acquire", "select"}

\* the sessions a call may bind
Watched(c) == IF Learns(c) THEN Sessions ELSE {call[c].named} \ {None}

-----------------------------------------------------------------------------
(* ReleaseEpochLedger *)

Acquiring(l) == {e \in Epochs : l.acq[e] > 0}

\* MUTANT of RecordReleased: every release is recorded, whether a call needs it or not
RecordReleased_Always(l, s) ==
  LET e == l.epoch + 1 IN [l EXCEPT !.epoch = e, !.released[s] = e]

\* recordSessionReleased
RecordReleased(l, s) ==
  LET e == l.epoch + 1 IN
  [l EXCEPT !.epoch = e,
            !.released[s] = IF l.refs[s] = 0 /\ Acquiring(l) = {} THEN @ ELSE e]

\* isReleaseNeededByActiveAcquisition
Needed(l, at) == \E e \in Acquiring(l) : at > e

\* MUTANT of DropReference: the record goes with any of the calls that need it
DropReference_First(l, s) ==
  [l EXCEPT !.refs[s] = @ - 1, !.released[s] = IF Needed(l, @) THEN @ ELSE 0]

\* releaseReleaseEpochReference
DropReference(l, s) ==
  [l EXCEPT !.refs[s] = @ - 1,
            !.released[s] = IF l.refs[s] > 1 \/ Needed(l, @) THEN @ ELSE 0]

\* releaseAcquisitionReleaseEpoch
DropAcquisition(l, e) ==
  LET m == [l EXCEPT !.acq[e] = @ - 1] IN
  [m EXCEPT !.released = [s \in Sessions |->
     IF m.refs[s] = 0 /\ ~Needed(m, m.released[s]) THEN 0 ELSE m.released[s]]]

\* sessionReleaseReasonSince
ReleasedSince(s, c) == ledger.released[s] > call[c].at

-----------------------------------------------------------------------------
(* LatestBindingKeeper *)

\* latestBindingClaimable
Claimable(p) == p.bound # None /\ p.fence = None /\ p.bound \in p.claimable

\* latestBindingHeartbeatable
Heartbeatable(p) == Claimable(p) /\ p.bound \notin p.stopped

\* heldSessionUuids
HeldBy(p) == p.held \cup (IF Claimable(p) THEN {p.bound} ELSE {})

\* hasHeartbeatTargets
HasTargets(p) == p.held # {} \/ Heartbeatable(p)

\* isTransportLive, not isClosing
Live(p) == p.link # "down"
Open(p) == p.closing = "open"

\* MUTANT of Sync: a keeper is started whether the proxy is closing or not
Sync_Closing(p) ==
  CASE ~HasTargets(p) /\ p.started  -> [p EXCEPT !.started = FALSE, !.interval = FALSE]
    [] HasTargets(p) /\ ~p.started /\ Live(p) -> [p EXCEPT !.started = TRUE, !.interval = TRUE]
    [] OTHER -> p

\* syncHeartbeatKeeper
Sync(p) ==
  CASE ~HasTargets(p) /\ p.started -> [p EXCEPT !.started = FALSE, !.interval = FALSE]
    [] HasTargets(p) /\ ~p.started /\ Open(p) /\ Live(p) ->
         [p EXCEPT !.started = TRUE, !.interval = TRUE]
    [] OTHER -> p

\* startBoundSessionHeartbeat
StartHeartbeat(p) ==
  IF /\ p.bound # None /\ p.fence = None /\ (Claimable(p) \/ p.held # {})
     /\ Live(p) /\ Open(p)
  THEN Sync(p) ELSE p

\* establishBoundSessionHeartbeat sends a first heartbeat, and waits for it
SendsFirst(p) ==
  p.bound # None /\ p.fence = None /\ Live(p) /\ Open(p) /\ ~p.started /\ Heartbeatable(p)

\* ... or leaves the heartbeats to the keeper
Established(p) ==
  IF p.bound # None /\ p.fence = None /\ Live(p) /\ Open(p) /\ p.started
  THEN StartHeartbeat(p) ELSE Sync(p)

-----------------------------------------------------------------------------
(* Binding, holding and fencing *)

\* dropHeldSession, which keeps what a not-found answer left if told so
DropHeld(p, s, keepNotFoundHistory) ==
  IF s \notin p.held THEN p
  ELSE Sync([p EXCEPT !.held = @ \ {s},
                      !.stopped = IF keepNotFoundHistory THEN @ ELSE @ \ {s}])

\* fenceBoundSessionUuid
Fence(p, s) ==
  LET q == [DropHeld(p, s, FALSE) EXCEPT !.stopped = @ \ {s}] IN
  IF q.fence # None THEN q
  ELSE Sync([q EXCEPT !.fence = s, !.bound = None, !.stopped = @ \ {q.bound}])

\* fenceReleasedForwardedSession
FenceForwarded(p, s) == IF p.bound \in {None, s} THEN Fence(p, s) ELSE p

\* MUTANT of HoldPrevious: the session the binding leaves is let go
HoldPrevious_Dropped(p, next) == [p EXCEPT !.held = @ \ {next}]

\* holdPreviousBinding
HoldPrevious(p, next) ==
  LET previous == IF p.bound # next /\ p.bound \in p.claimable THEN {p.bound} ELSE {} IN
  [p EXCEPT !.held = (@ \ {next}) \cup previous, !.stopped = @ \ previous]

\* updateBoundSessionUuid
UpdateBound(p, s) ==
  [(IF s = p.bound THEN p ELSE HoldPrevious(p, s))
     EXCEPT !.bound = s, !.owned = @ \cup {s}, !.stopped = @ \ {s}]

\* bindRememberedSession and keepsBindingFor
BindRemembered(p, s, selects) ==
  LET q == IF selects /\ s # p.fence /\ s \in p.owned THEN [p EXCEPT !.fence = None] ELSE p IN
  IF ~selects /\ (p.fence # None \/ p.bound \notin {None, s}) THEN p
  ELSE StartHeartbeat(UpdateBound(q, s))

\* rememberSessionUuid
Remember(p, c, s, selects) ==
  IF s = None THEN p
  ELSE IF ReleasedSince(s, c) THEN FenceForwarded(p, s)
  ELSE BindRemembered(p, s, selects)

\* bindForwardedSessionOnErrorResult
RememberError(p, c, s, echoed) ==
  IF s = None THEN p
  ELSE IF ReleasedSince(s, c) THEN FenceForwarded(p, s)
  ELSE IF s = p.bound \/ (p.bound = None /\ p.fence = None /\ echoed)
  THEN StartHeartbeat(UpdateBound(p, s))
  ELSE p

\* refreshReplayLeaseAfterAdmittedFailure
RememberFailure(p, c, s) ==
  IF s = None THEN p
  ELSE IF ReleasedSince(s, c) THEN FenceForwarded(p, s)
  ELSE IF p.fence = None /\ s \notin p.held /\ s = p.bound
  THEN StartHeartbeat(UpdateBound(p, s))
  ELSE p

\* bindResultMintedDeviceSession, from the last check of the ledger to the first heartbeat
Publish(p, s) ==
  [HoldPrevious([p EXCEPT !.fence = None], s)
     EXCEPT !.bound = s, !.owned = @ \cup {s}, !.claimable = @ \cup {s}]

\* MUTANT of Restored: a session that is not the latest binding is not held again
Restored_NotHeld(p, s) ==
  IF s \notin p.stopped THEN p
  ELSE LET q == [p EXCEPT !.stopped = @ \ {s}] IN IF Open(p) THEN Sync(q) ELSE q

\* noteSessionRestoredByCall: the daemon says that it used s for a call
Restored(p, s) ==
  IF s \notin p.stopped THEN p
  ELSE LET q == [p EXCEPT !.stopped = @ \ {s}]
           held == IF s \in {p.bound, p.fence} \/ s \notin p.claimable THEN {} ELSE {s}
       IN IF Open(p) THEN Sync([q EXCEPT !.held = @ \cup held]) ELSE q

-----------------------------------------------------------------------------
(* Calls *)

\* the finally of forward, and the end of a task's binding
Ended(c) ==
  LET l == IF call[c].task \/ call[c].named = None THEN ledger
           ELSE DropReference(ledger, call[c].named)
  IN IF Learns(c) THEN DropAcquisition(l, call[c].at) ELSE l

End(c) == ledger' = Ended(c) /\ call' = [call EXCEPT ![c] = Idle] /\ UNCHANGED ended

\* withBoundSessionUuid: the session a call is forwarded under.  A fenced proxy forwards
\* acquisitions, and calls that name or select a session it still owns.
Routes(kind) ==
  LET alive == proxy.owned \ {proxy.fence} IN
  CASE kind = "acquire" -> {None}
    [] kind = "use" ->
         IF proxy.fence # None THEN alive ELSE Sessions \cup {proxy.bound}
    [] kind = "select" ->
         IF proxy.fence = None THEN Sessions \cup {None}
         ELSE alive \cup (IF alive = {} THEN {} ELSE {None})

\* forward, up to the call of the daemon.  Bound: calls begin on a connection that is up.
Forward(c) ==
  /\ call[c].pc = "idle" /\ proxy.link = "up" /\ Open(proxy)
  /\ \E kind \in Kinds : \E s \in Routes(kind) :
       LET refs == IF s = None THEN ledger.refs ELSE [ledger.refs EXCEPT ![s] = @ + 1]
           acq == IF kind = "use" THEN ledger.acq ELSE [ledger.acq EXCEPT ![ledger.epoch] = @ + 1]
       IN
       /\ call' = [call EXCEPT ![c] =
            [Idle EXCEPT !.pc = "sent", !.kind = kind, !.named = s, !.at = ledger.epoch, !.sends = 1]]
       /\ ledger' = [ledger EXCEPT !.refs = refs, !.acq = acq]
  /\ UNCHANGED <<proxy, ended>>

\* withRecoverableReconnect: a call that lost its connection is sent once more on the next
\* one, unless the session it was forwarded under was released meanwhile
Resend(c) ==
  LET s == call[c].named IN
  /\ call[c].pc = "waiting" /\ call[c].sends = 1 /\ proxy.link = "up" /\ Open(proxy)
  /\ IF s # None /\ ReleasedSince(s, c)
     THEN proxy' = FenceForwarded(proxy, s) /\ End(c)
     ELSE /\ call' = [call EXCEPT ![c].pc = "sent", ![c].sends = 2]
          /\ UNCHANGED <<proxy, ledger, ended>>

\* the connection is lost and cannot be replaced, or the call may not be sent again
GiveUp(c) == call[c].pc = "waiting" /\ End(c) /\ UNCHANGED proxy

Answered(c) == call[c].pc \in {"sent", "task"} /\ proxy.link = "up"

\* applyForwardedResult for a tool that runs on the session it was forwarded under, whose
\* use the daemon echoes or not: a result, an error result, or an answer that binds nothing;
\* or a rejection
AnswerUse(c) ==
  LET s == call[c].named IN
  /\ Answered(c) /\ call[c].kind = "use"
  /\ \/ \E echoed \in BOOLEAN :
          LET p == IF echoed THEN Restored(proxy, s) ELSE proxy IN
          proxy' \in {Remember(p, c, s, FALSE), RememberError(p, c, s, echoed), p}
     \/ proxy' = RememberFailure(proxy, c, s)
  /\ End(c)

\* rememberActiveDeviceSession: the session the result selected becomes the binding
AnswerSelect(c) ==
  /\ Answered(c) /\ call[c].kind = "select"
  /\ LET p == Remember(proxy, c, call[c].named, FALSE) IN
     \/ proxy' \in {p, proxy}
     \/ \E s \in IF call[c].named = None THEN Sessions ELSE {call[c].named} :
          proxy' = IF ReleasedSince(s, c) THEN p ELSE Remember(p, c, s, TRUE)
  /\ End(c)

\* the acquisition failed, or its result mints no session
AnswerNothing(c) ==
  /\ Answered(c) /\ call[c].kind = "acquire"
  /\ End(c) /\ UNCHANGED proxy

\* deferredToTask: the result comes later, with a poll of the task
Defer(c) ==
  /\ call[c].pc = "sent" /\ Learns(c)
  /\ ledger' = IF call[c].named = None THEN ledger ELSE DropReference(ledger, call[c].named)
  /\ call' = [call EXCEPT ![c].pc = "task", ![c].task = TRUE, ![c].sends = 0]
  /\ UNCHANGED <<proxy, ended>>

\* establishBoundSessionHeartbeat for the session s that the call minted, up to the first
\* heartbeat's round trip
Establish(c, p, s) ==
  IF SendsFirst(p)
  THEN /\ proxy' = p
       /\ call' = [call EXCEPT ![c].pc = "establishing", ![c].minted = s]
       /\ UNCHANGED <<ledger, ended>>
  ELSE proxy' = Established(p) /\ End(c)

\* bindResultMintedDeviceSession: a result minted s.  The daemon mints no session under the
\* id of one that had ended when the call was forwarded.
AnswerMinted(c, s) ==
  /\ Answered(c) /\ call[c].kind = "acquire" /\ s \notin ended \ call[c].seen
  /\ IF s = proxy.bound \/ ReleasedSince(s, c) THEN End(c) /\ UNCHANGED proxy
     ELSE IF proxy.started
     THEN /\ proxy' = [proxy EXCEPT !.interval = FALSE]
          /\ call' = [call EXCEPT ![c].pc = "stopping", ![c].minted = s]
          /\ UNCHANGED <<ledger, ended>>
     ELSE Establish(c, Publish(proxy, s), s)

\* MUTANT of KeeperStopped: the ledger is not looked up again after the wait
KeeperStopped_NotRechecked(c) ==
  /\ call[c].pc = "stopping"
  /\ Establish(c, Publish([proxy EXCEPT !.started = FALSE], call[c].minted), call[c].minted)

\* MUTANT of KeeperStopped: a binding that is not published leaves the keeper stopped
KeeperStopped_NotSynced(c) ==
  LET s == call[c].minted
      p == [proxy EXCEPT !.started = FALSE]
  IN
  /\ call[c].pc = "stopping"
  /\ IF ReleasedSince(s, c) THEN proxy' = p /\ End(c) ELSE Establish(c, Publish(p, s), s)

\* the previous binding's keeper has stopped, or did not in time
KeeperStopped(c) ==
  LET s == call[c].minted
      p == [proxy EXCEPT !.started = FALSE]
  IN
  /\ call[c].pc = "stopping"
  /\ IF ReleasedSince(s, c) THEN proxy' = Sync(p) /\ End(c) ELSE Establish(c, Publish(p, s), s)

\* the first heartbeat was answered, or failed
FirstHeartbeat(c) ==
  /\ call[c].pc = "establishing"
  /\ proxy' = Sync(proxy) /\ End(c)

-----------------------------------------------------------------------------
(* Heartbeats, the connection and the end of the proxy *)

\* handleSessionReleasedNotification, for a release that ends the session
Release(s) ==
  /\ ledger.epoch < MaxReleases /\ (Repeats \/ s \notin ended)
  /\ ledger' = RecordReleased(ledger, s)
  /\ LET p == DropHeld([proxy EXCEPT !.owned = @ \ {s}, !.claimable = @ \ {s}, !.stopped = @ \ {s}],
                       s, FALSE)
     IN proxy' = IF s \in {p.bound, p.fence} THEN Fence(p, s) ELSE p
  /\ call' = [c \in Calls |->
       [call[c] EXCEPT !.seen = @ \cup (Watched(c) \cap {s})]]
  /\ ended' = ended \cup {s}

LatestIs(p, s) == p.bound = s /\ p.fence = None

\* the proxy lets go of session s
Leave(p, s) == IF LatestIs(p, s) THEN Fence(p, s) ELSE DropHeld(p, s, FALSE)

\* MUTANT of Unknown: a session that is stopped stays held
Unknown_StillHeld(p, s) == Sync([p EXCEPT !.stopped = @ \cup {s}])

\* the daemon does not know s, which may come back
Unknown(p, s) == Sync([DropHeld(p, s, TRUE) EXCEPT !.stopped = @ \cup {s}])

\* applyNotFoundOutcome: the outcomes "awaited", "ended", and "stopped"
NotFound(s) ==
  /\ s \in HeldBy(proxy) /\ Live(proxy)
  /\ proxy' \in {Sync(proxy), Sync(Leave(proxy, s)), Unknown(proxy, s)}
  /\ UNCHANGED <<ledger, call, ended>>

\* the proxy lets go of a session that was idle, that another owner claims, that liveness
\* recovery handed over or that a tool call was told is lost
LetGo(s) ==
  /\ LatestIs(proxy, s) \/ s \in proxy.held
  /\ Open(proxy)
  /\ proxy' = Leave(proxy, s)
  /\ UNCHANGED <<ledger, call, ended>>

\* resetConnection: the calls sent on the connection wait for another one
Lose ==
  /\ Live(proxy)
  /\ proxy' = [proxy EXCEPT !.link = "down"]
  /\ call' = [c \in Calls |->
       IF call[c].pc = "sent" THEN [call[c] EXCEPT !.pc = "waiting"] ELSE call[c]]
  /\ UNCHANGED <<ledger, ended>>

\* doConnect, up to the new client
Connect ==
  /\ proxy.link = "down" /\ Open(proxy)
  /\ proxy' = [proxy EXCEPT !.link = "opening"]
  /\ UNCHANGED <<ledger, call, ended>>

\* establishBoundSessionHeartbeat on the new client, up to the first heartbeat's round trip
EstablishConnection ==
  /\ proxy.link = "opening" /\ Open(proxy)
  /\ proxy' = IF SendsFirst(proxy) THEN [proxy EXCEPT !.link = "establishing"]
              ELSE [Established(proxy) EXCEPT !.link = "up"]
  /\ UNCHANGED <<ledger, call, ended>>

\* MUTANT of ConnectionEstablished: the keeper is not started after the first heartbeat
ConnectionEstablished_NotSynced ==
  /\ proxy.link = "establishing" /\ Open(proxy)
  /\ proxy' = [proxy EXCEPT !.link = "up"]
  /\ UNCHANGED <<ledger, call, ended>>

\* the connection's first heartbeat was answered, or failed
ConnectionEstablished ==
  /\ proxy.link = "establishing" /\ Open(proxy)
  /\ proxy' = [Sync(proxy) EXCEPT !.link = "up"]
  /\ UNCHANGED <<ledger, call, ended>>

\* closeOnce: it begins, and once the sessions are released it stops the keeper.  Nothing
\* starts a keeper during the wait for its stop, which is left out.
Close ==
  /\ \/ proxy.closing = "open" /\ proxy' = [proxy EXCEPT !.closing = "closing"]
     \/ /\ proxy.closing = "closing"
        /\ proxy' = [proxy EXCEPT !.closing = "stopped", !.started = FALSE, !.interval = FALSE]
  /\ UNCHANGED <<ledger, call, ended>>

Next ==
  \/ \E c \in Calls :
       \/ Forward(c) \/ Resend(c) \/ GiveUp(c) \/ AnswerUse(c) \/ AnswerSelect(c)
       \/ AnswerNothing(c) \/ Defer(c)
       \/ KeeperStopped(c) \/ FirstHeartbeat(c)
       \/ \E s \in Sessions : AnswerMinted(c, s)
  \/ \E s \in Sessions : Release(s) \/ NotFound(s) \/ LetGo(s)
  \/ Lose \/ Connect \/ EstablishConnection \/ ConnectionEstablished \/ Close

Spec == Init /\ [][Next]_vars

-----------------------------------------------------------------------------
(* Properties *)

\* The ledger answers exactly: for every session a call in flight, or a task waiting to
\* bind, may bind, it says released if and only if that session's release was notified
\* since the call was forwarded, whatever other calls ended and whatever other sessions
\* were released meanwhile (ReleaseEpochLedger, issue #4655).
ReleasesExact ==
  \A c \in Calls : call[c].pc # "idle" =>
    \A s \in Watched(c) : ReleasedSince(s, c) <=> s \in call[c].seen

\* Nothing is left behind: with no call in flight and no task waiting the ledger is empty
\* (#4655, #5412), so its maps are bounded by the calls in flight.
LedgerDrains ==
  (\A c \in Calls : call[c].pc = "idle") =>
    /\ \A s \in Sessions : ledger.released[s] = 0 /\ ledger.refs[s] = 0
    /\ Acquiring(ledger) = {}

\* The ledger knows what a call in flight may ask, and nothing more.
LedgerSound == TypeOK /\ ReleasesExact /\ LedgerDrains

\* A call never binds a session that was released while the call ran, by what it named,
\* by what its result minted, or by what it selected (#4611).
NoResurrection ==
  [][\A c \in Calls, s \in Sessions :
       call'[c] # call[c] /\ proxy'.bound = s /\ proxy.bound # s => s \notin call[c].seen]_vars

Settled == \A c \in Calls : call[c].pc \notin {"stopping", "establishing"}

\* Once no binding is under way on a connection that is up, the keeper runs with its interval
\* if there is a session to heartbeat, and not for nothing, however the pauses of concurrent
\* acquisitions, lost connections and not-found answers overlapped (#11411).  Left out: a
\* binding beside a fence, where the code starts no keeper, and a keeper left running for
\* nothing under a binding that a call only named and the proxy does not claim.
KeeperServes ==
  Settled /\ proxy.link = "up" /\ Open(proxy) /\ None \in {proxy.fence, proxy.bound} =>
    /\ HasTargets(proxy) => proxy.started
    /\ proxy.started =>
         proxy.interval /\ (HasTargets(proxy) \/ proxy.bound \notin proxy.claimable \cup {None})

\* A session held besides the binding is heartbeated: it is claimed, it is not the binding,
\* and no not-found answer stopped it.
HeldSound == proxy.held \subseteq proxy.claimable \ (proxy.stopped \cup {proxy.bound})

\* The closed proxy's keeper stays stopped, whatever was still on its way (I5).
StaysClosed == proxy.closing = "stopped" => ~proxy.started /\ ~proxy.interval

\* the sessions the proxy claims and keeps: the binding, those held besides it, and those
\* that a call brings back, which the fenced session is not
Keeping(p) == (p.claimable \cap (p.held \cup {p.bound} \cup p.stopped)) \ {p.fence}

\* One session's outcome never touches another session: the proxy lets go of a session it
\* claims only for a release, a heartbeat's answer or a retirement of that very session,
\* wherever the binding moves and whichever calls end meanwhile.
OwnOutcome ==
  Open(proxy) => \A s \in Keeping(proxy) \ Keeping(proxy') :
    s \in ended' \ ended \/ NotFound(s) \/ LetGo(s)

\* The keeper heartbeats the sessions the proxy must heartbeat, and stops with the proxy.
HeartbeatsSound == [][KeeperServes' /\ HeldSound' /\ StaysClosed' /\ OwnOutcome]_vars
=============================================================================
