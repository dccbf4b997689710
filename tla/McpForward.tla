----------------------------- MODULE McpForward -----------------------------
(***************************************************************************)
(* The forward queues of the control socket: one forward at a time per     *)
(* execution key.  A request queues on the key of its route, resolves the  *)
(* route again when it reaches the front, and queues on the new key when   *)
(* the route has moved.  Device inputs share the queues and time a cached  *)
(* text helper for eviction once their key is idle.                        *)
(*                                                                         *)
(* A chain tail is the promise of every unfinished run before it, so it is *)
(* the set of those runs: Promise.all([previous, run]) is a union, and a   *)
(* settled tail is the empty set.                                          *)
(*                                                                         *)
(* The forwards are those of one client socket.  A forward runs with the   *)
(* client of its route: the client of a session, which the request names   *)
(* or the socket is bound to, or the shared one.                           *)
(***************************************************************************)
EXTENDS Naturals, FiniteSets

CONSTANTS
  Requests,
  Inputs,       \* the requests that are device inputs; the others forward MCP
  Naming,       \* the forwards that name the session, as the one their caller is bound to
  Bounded,      \* the requests whose wait in a chain has a deadline (chainWait)
  Stuck,        \* the requests whose run may never settle
  Keys,         \* execution keys
  BoundKeys,    \* keys that are the bound client of some socket
  MaxReroutes,  \* MAX_MCP_FORWARD_REROUTES
  MaxMoves      \* bound: changes of routes in a behaviour

ASSUME ForwardAssumption ==
  /\ Inputs \subseteq Requests
  /\ Naming \subseteq Requests \ Inputs
  /\ Bounded \subseteq Requests
  /\ Stuck \subseteq Requests
  /\ BoundKeys \subseteq Keys
  /\ MaxReroutes \in Nat
  /\ MaxMoves \in Nat

VARIABLES
  pc,             \* of each request
  target,         \* the key its route has now (getMcpForwardRoute)
  connected,      \* is the socket of the forwards open?
  bound,          \* is the socket bound to the session (getBoundMcpClientRoute)?
  live,           \* is the session active?
  key,            \* the key it is queued on or holds
  seeded,         \* does its route use the session's client?
  reroutes,       \* how often it moved to another key
  waits,          \* the tail it found when it queued
  tails,          \* mcpForwardTails
  idleCloseKeys,  \* mcpForwardIdleCloseKeys: chains an input is part of
  idleTimers,     \* forwardKeyIdleTimers
  helpers,        \* keys of devices with a cached append helper
  moves           \* route changes so far

routeVars == <<target, connected, bound, live, moves>>
queueVars == <<waits, tails>>
idleVars == <<idleCloseKeys, idleTimers, helpers>>
vars == <<pc, key, seeded, reroutes, routeVars, queueVars, idleVars>>

States == {"new", "waiting", "resolving", "running", "rerouting", "done", "failed"}

TypeOK ==
  /\ pc \in [Requests -> States]
  /\ target \in [Requests -> Keys]
  /\ connected \in BOOLEAN /\ bound \in BOOLEAN /\ live \in BOOLEAN
  /\ key \in [Requests -> Keys]
  /\ seeded \in [Requests -> BOOLEAN]
  /\ reroutes \in [Requests -> 0..MaxReroutes]
  /\ waits \in [Requests -> SUBSET Requests]
  /\ tails \in [Keys -> SUBSET Requests]
  /\ idleCloseKeys \in SUBSET Keys /\ idleTimers \in SUBSET Keys /\ helpers \in SUBSET Keys
  /\ moves \in 0..MaxMoves

Init ==
  /\ pc = [r \in Requests |-> "new"]
  /\ target \in [Requests -> Keys]
  /\ connected = TRUE /\ bound = FALSE /\ live = TRUE
  /\ key = target
  /\ seeded = [r \in Requests |-> FALSE]
  /\ reroutes = [r \in Requests |-> 0]
  /\ waits = [r \in Requests |-> {}]
  /\ tails = [k \in Keys |-> {}]
  /\ idleCloseKeys = {} /\ idleTimers = {} /\ helpers = {}
  /\ moves = 0

Queued(r) == pc[r] = "waiting"
Holding(r) == pc[r] \in {"resolving", "running"}
Ended(r) == pc[r] \in {"done", "failed"}

-----------------------------------------------------------------------------
(* keyedSerialQueue *)

\* MUTANT of Enqueue: the new tail waits for the new run alone
Enqueue_OwnRunOnly(r, k) ==
  /\ waits' = [waits EXCEPT ![r] = tails[k]]
  /\ tails' = [tails EXCEPT ![k] = {r}]
  /\ pc' = [pc EXCEPT ![r] = "waiting"]
  /\ key' = [key EXCEPT ![r] = k]
  /\ idleCloseKeys' = IF r \in Inputs THEN idleCloseKeys \cup {k} ELSE idleCloseKeys

\* runKeyedSerial, up to the wait for the tail it found
Enqueue(r, k) ==
  /\ waits' = [waits EXCEPT ![r] = tails[k]]
  /\ tails' = [tails EXCEPT ![k] = @ \cup {r}]
  /\ pc' = [pc EXCEPT ![r] = "waiting"]
  /\ key' = [key EXCEPT ![r] = k]
  /\ idleCloseKeys' = IF r \in Inputs THEN idleCloseKeys \cup {k} ELSE idleCloseKeys

\* MUTANT of Leave: a run that ends opens the key to everyone
Leave_OpensKey(r, then) ==
  /\ waits' = [q \in Requests |-> IF key[q] = key[r] THEN {} ELSE waits[q]]
  /\ tails' = [tails EXCEPT ![key[r]] = @ \ {r}]
  /\ pc' = [pc EXCEPT ![r] = then]
  /\ UNCHANGED <<idleCloseKeys, idleTimers>>

\* MUTANT of Leave: a failed run is not taken out of the tail
Leave_FailureKeepsKey(r, then) ==
  /\ waits' = [q \in Requests |-> IF then = "failed" THEN waits[q] ELSE waits[q] \ {r}]
  /\ tails' = [tails EXCEPT ![key[r]] = IF then = "failed" THEN @ ELSE @ \ {r}]
  /\ pc' = [pc EXCEPT ![r] = then]
  /\ UNCHANGED <<idleCloseKeys, idleTimers>>

\* MUTANT of Leave: the chain's inputs are forgotten before their timers are armed
Leave_ForgetsInputs(r, then) ==
  LET k == key[r] IN
  LET drained == tails[k] \subseteq {r} IN
  /\ waits' = [q \in Requests |-> waits[q] \ {r}]
  /\ tails' = [tails EXCEPT ![k] = @ \ {r}]
  /\ pc' = [pc EXCEPT ![r] = then]
  /\ idleCloseKeys' = IF drained THEN idleCloseKeys \ {k} ELSE idleCloseKeys
  /\ idleTimers' = IF drained /\ k \in idleCloseKeys' THEN idleTimers \cup {k} ELSE idleTimers

\* r's run settles: every promise made of it advances, and the chain's last
\* run arms the idle timers of the inputs that were part of the chain
Leave(r, then) ==
  LET k == key[r] IN
  LET drained == tails[k] \subseteq {r} IN
  /\ waits' = [q \in Requests |-> waits[q] \ {r}]
  /\ tails' = [tails EXCEPT ![k] = @ \ {r}]
  /\ pc' = [pc EXCEPT ![r] = then]
  /\ idleCloseKeys' = IF drained THEN idleCloseKeys \ {k} ELSE idleCloseKeys
  /\ idleTimers' = IF drained /\ k \in idleCloseKeys THEN idleTimers \cup {k} ELSE idleTimers

\* MUTANT of GiveUp: only the first wait of a request has a deadline
GiveUp_FirstWaitOnly(r) ==
  /\ Queued(r) /\ r \in Bounded /\ waits[r] # {} /\ reroutes[r] = 0
  /\ Leave(r, "failed")
  /\ UNCHANGED <<key, seeded, reroutes, routeVars, helpers>>

\* waitForChain: the deadline of the wait passes while the chain is held
GiveUp(r) ==
  /\ Queued(r) /\ r \in Bounded /\ waits[r] # {}
  /\ Leave(r, "failed")
  /\ UNCHANGED <<key, seeded, reroutes, routeVars, helpers>>

-----------------------------------------------------------------------------
(* McpExecution, SocketAdmission and the input handlers *)

\* does the route of a forward, resolved now, use the session's client?
RoutedToSession(r) == r \in Naming \/ bound

\* withAdmittedBoundSession: a call that names its bound session needs it active
Admitted(r) == r \in Naming => live

\* a request arrives; its route is the admitted one
Receive(r) ==
  /\ pc[r] = "new"
  /\ r \in Inputs \/ connected
  /\ Admitted(r)
  /\ Enqueue(r, target[r])
  /\ seeded' = [seeded EXCEPT ![r] = r \notin Inputs /\ RoutedToSession(r)]
  /\ UNCHANGED <<reroutes, routeVars, idleTimers, helpers>>

\* it is refused before it queues: its session was released
Refuse(r) ==
  /\ pc[r] = "new" /\ connected /\ ~Admitted(r)
  /\ pc' = [pc EXCEPT ![r] = "failed"]
  /\ UNCHANGED <<key, seeded, reroutes, routeVars, queueVars, idleVars>>

\* an MCP forward is at the front of its chain and resolves its route again
Acquire(r) ==
  /\ Queued(r) /\ waits[r] = {} /\ r \notin Inputs
  /\ pc' = [pc EXCEPT ![r] = "resolving"]
  /\ UNCHANGED <<key, seeded, reroutes, routeVars, queueVars, idleVars>>

\* a device input is: it stops the idle timer and caches the append helper
AcquireInput(r) ==
  /\ Queued(r) /\ waits[r] = {} /\ r \in Inputs
  /\ pc' = [pc EXCEPT ![r] = "running"]
  /\ idleTimers' = idleTimers \ {key[r]}
  /\ helpers' = helpers \cup {key[r]}
  /\ UNCHANGED <<key, seeded, reroutes, routeVars, queueVars, idleCloseKeys>>

\* MUTANT of ForwardClient: the admitted client, whatever became of its session
ForwardClient_Admitted(r) == seeded[r]

\* MUTANT of ForwardClient: the client of the route as it is now
ForwardClient_Recomputed(r) == RoutedToSession(r)

\* runMcpForwardAttempt: the admitted client, unless its session was released
\* and the recomputed route points elsewhere
ForwardClient(r) ==
  IF seeded[r] /\ ~RoutedToSession(r) /\ ~live THEN FALSE ELSE seeded[r]

\* the route is unchanged: run the forward
Resolve(r) ==
  /\ pc[r] = "resolving" /\ Admitted(r) /\ target[r] = key[r]
  /\ pc' = [pc EXCEPT ![r] = "running"]
  /\ seeded' = [seeded EXCEPT ![r] = ForwardClient(r)]
  /\ UNCHANGED <<key, reroutes, routeVars, queueVars, idleVars>>

\* it moved: give the held key back, then queue on the new one
Reroute(r) ==
  /\ pc[r] = "resolving" /\ Admitted(r) /\ target[r] # key[r]
  /\ reroutes[r] < MaxReroutes
  /\ reroutes' = [reroutes EXCEPT ![r] = @ + 1]
  /\ seeded' = [seeded EXCEPT ![r] = RoutedToSession(r)]
  /\ Leave(r, "rerouting")
  /\ key' = [key EXCEPT ![r] = target[r]]
  /\ UNCHANGED <<routeVars, helpers>>

Requeue(r) ==
  /\ pc[r] = "rerouting"
  /\ Enqueue(r, key[r])
  /\ UNCHANGED <<seeded, reroutes, routeVars, idleTimers, helpers>>

\* re-routed too often
TooManyReroutes(r) ==
  /\ pc[r] = "resolving" /\ Admitted(r) /\ target[r] # key[r] /\ reroutes[r] = MaxReroutes
  /\ Leave(r, "failed")
  /\ UNCHANGED <<key, seeded, reroutes, routeVars, helpers>>

\* the resolution rejects, for a released session too, or no budget is left when
\* the run starts
ResolveFails(r) ==
  /\ pc[r] = "resolving"
  /\ Leave(r, "failed")
  /\ UNCHANGED <<key, seeded, reroutes, routeVars, helpers>>

\* MUTANT of BoundAfter: the session was released while the forward ran
BoundAfter_Released(r, how) ==
  IF r \in Naming /\ how = "done" /\ connected THEN TRUE ELSE bound

\* MUTANT of BoundAfter: the socket was closed while the forward ran
BoundAfter_Disconnected(r, how) ==
  IF r \in Naming /\ how = "done" THEN live ELSE bound

\* recordBoundMcpClientKey: an answered call binds its socket to the session it names
BoundAfter(r, how) ==
  IF r \in Naming /\ how = "done" /\ connected THEN live ELSE bound

\* the forward or the input settles, with a value or an error
Finish(r) ==
  /\ pc[r] = "running"
  /\ \E how \in {"done", "failed"} : Leave(r, how) /\ bound' = BoundAfter(r, how)
  /\ UNCHANGED <<key, seeded, reroutes, target, connected, live, moves, helpers>>

-----------------------------------------------------------------------------
(* What changes routes and helpers *)

\* the device or the lane a request resolves to changes
Move(r) ==
  /\ r \notin Inputs /\ moves < MaxMoves /\ ~Ended(r)
  /\ \E k \in Keys \ {target[r]} : target' = [target EXCEPT ![r] = k]
  /\ moves' = moves + 1
  /\ UNCHANGED <<pc, key, seeded, reroutes, connected, bound, live, queueVars, idleVars>>

\* the socket disconnects: its binding goes, the session stays active
Disconnect ==
  /\ connected
  /\ connected' = FALSE /\ bound' = FALSE
  /\ UNCHANGED <<pc, key, seeded, reroutes, target, live, moves, queueVars, idleVars>>

\* the session is released, and with it every binding to it
ReleaseSession ==
  /\ live
  /\ live' = FALSE /\ bound' = FALSE
  /\ UNCHANGED <<pc, key, seeded, reroutes, target, connected, moves, queueVars, idleVars>>

OnForwardKeyIdle(k) ==
  /\ k \in idleTimers
  /\ idleTimers' = idleTimers \ {k}
  /\ helpers' = IF tails[k] # {} \/ k \in BoundKeys THEN helpers ELSE helpers \ {k}
  /\ UNCHANGED <<pc, key, seeded, reroutes, routeVars, queueVars, idleCloseKeys>>

\* the pool saw the device's life cycle change
EvictDeviceInputCache(k) ==
  /\ k \in helpers
  /\ helpers' = helpers \ {k}
  /\ UNCHANGED <<pc, key, seeded, reroutes, routeVars, queueVars, idleCloseKeys, idleTimers>>

Step(r) ==
  \/ Receive(r) \/ Refuse(r) \/ Acquire(r) \/ AcquireInput(r) \/ GiveUp(r)
  \/ Resolve(r) \/ Reroute(r) \/ Requeue(r) \/ TooManyReroutes(r) \/ ResolveFails(r)
  \/ Finish(r) \/ Move(r)

Next ==
  \/ \E r \in Requests : Step(r)
  \/ Disconnect
  \/ ReleaseSession
  \/ \E k \in Keys : OnForwardKeyIdle(k) \/ EvictDeviceInputCache(k)

Spec == Init /\ [][Next]_vars

\* Promise reactions and timers run; a forward settles unless it is stuck
\* (forwardMcpRequest has the request's deadline, but an input may not).
Fairness ==
  /\ \A r \in Requests :
       /\ WF_vars(Acquire(r)) /\ WF_vars(AcquireInput(r)) /\ WF_vars(GiveUp(r))
       /\ WF_vars(Resolve(r) \/ Reroute(r) \/ TooManyReroutes(r) \/ ResolveFails(r))
       /\ WF_vars(Requeue(r))
  /\ \A r \in Requests \ Stuck : WF_vars(Finish(r))
  /\ \A k \in Keys : WF_vars(OnForwardKeyIdle(k))

FairSpec == Spec /\ Fairness

-----------------------------------------------------------------------------
(* Properties *)

\* Runs of one key never overlap, not even when a waiter between them gave up
\* or was sent to another key (runKeyedSerial: "a waiter that gave up must not
\* let the next waiter run concurrently with the forward still holding this key").
OneAtATime ==
  \A q, r \in Requests : q # r /\ Holding(q) /\ Holding(r) => key[q] # key[r]

\* Nobody overtakes on a key: a request that waits on the key of a running one
\* queued after it.
NoOvertaking ==
  \A q, r \in Requests : Holding(q) /\ Queued(r) /\ key[q] = key[r] => q \in waits[r]

\* A key has a tail exactly while a forward is queued on it or holds it, so no
\* chain entry leaks and none is lost (KeyedSerialState.tails).
TailsCoverChains ==
  \A k \in Keys : tails[k] = {r \in Requests : (Queued(r) \/ Holding(r)) /\ key[r] = k}

\* The chains of the keys are sound: every key is a first-come-first-served mutex, and
\* its entry in the map lives exactly as long as somebody is on it.
QueuesSound == TypeOK /\ OneAtATime /\ NoOvertaking /\ TailsCoverChains

\* A socket is bound to a session only while both are there, although calls that bind
\* it settle after their session was released or their socket closed ("Its result is no
\* longer allowed to publish a session/profile binding", isMcpRequestOwnerCurrent).
BindingIsCurrent == bound => live /\ connected

Starts(r) == pc[r] = "resolving" /\ pc'[r] = "running"

\* A forward that waited starts with the client it was admitted with, through a
\* disconnect, but never with that of a session released meanwhile, which would
\* "re-seed the released UUID and RESURRECT the session" (runMcpForwardAttempt).
StartsWithItsClient ==
  \A r \in Requests \ Inputs :
     Starts(r) => IF live THEN seeded'[r] = seeded[r] ELSE ~seeded'[r]

\* Neither a forward nor the socket it binds uses a session that is gone.
ClientsSound == [][BindingIsCurrent' /\ StartsWithItsClient]_vars

\* A request with a deadline ends, though a run before it never settles and its
\* route keeps moving: nobody parks for ever (issue #6388 in McpForwardChainWait).
BoundedRequestsEnd ==
  \A r \in Bounded \ Stuck : pc[r] # "new" ~> Ended(r)

\* While only device inputs used the queues, a helper of a key nobody uses any more
\* is dropped ("How long an execution key may stay unused before its cached
\* per-device helpers are dropped").  A forward that holds the key when the timer
\* fires ends that: onForwardKeyIdle returns, and nobody arms the timer again.
OnlyInputs == \A r \in Requests \ Inputs : pc[r] = "new"
UnusedHelperDropped ==
  \A k \in Keys \ BoundKeys : ~<>[](OnlyInputs /\ k \in helpers /\ tails[k] = {})
=============================================================================
