-------------------------- MODULE McpForward_proofs --------------------------
(***************************************************************************)
(* Every execution key is a first-come-first-served mutex, for every       *)
(* number of requests and keys: Spec => []QueuesSound; and no forward, and *)
(* no binding it leaves behind, uses a session that is gone:               *)
(* Spec => ClientsSound.                                                   *)
(*                                                                         *)
(* QueuesSound is not inductive: that a waiter waits for the run that      *)
(* holds its key says nothing about what the next holder has to wait for   *)
(* when a waiter between them gives up.  What is inductive is the order of *)
(* a chain: of any two requests on a key one waits for the other, whether  *)
(* they hold the key or queue on it, and a holder waits for nobody.  A     *)
(* forward that starts needs the binding to be current: it is the route    *)
(* resolved then that tells it whether its client's session was released.  *)
(***************************************************************************)
EXTENDS McpForward, TLAPS

OnChain(r) == Queued(r) \/ Holding(r)

\* a run starts only after everything it waited for has settled
HolderAtFront == \A r \in Requests : Holding(r) => waits[r] = {}

\* of two requests on one key, one waits for the other
Ordered ==
  \A q, r \in Requests :
     q # r /\ OnChain(q) /\ OnChain(r) /\ key[q] = key[r] => q \in waits[r] \/ r \in waits[q]

Chains == TailsCoverChains /\ HolderAtFront /\ Ordered

IInv == TypeOK /\ Chains /\ BindingIsCurrent

-----------------------------------------------------------------------------
(* The two operations of keyedSerialQueue. *)

\* A request that joins a chain (runKeyedSerial) finds all the others in the tail.
LEMMA EnqueueKeepsChains ==
  ASSUME TypeOK, Chains, NEW r \in Requests, NEW k \in Keys, ~OnChain(r), Enqueue(r, k)
  PROVE  Chains'
<1>1. TailsCoverChains'
  BY DEF TypeOK, Chains, TailsCoverChains, Enqueue, OnChain, Queued, Holding
<1>2. HolderAtFront'
  BY DEF TypeOK, Chains, HolderAtFront, Enqueue, Holding
<1>3. Ordered'
  BY DEF TypeOK, Chains, TailsCoverChains, Ordered, Enqueue, OnChain, Queued, Holding
<1> QED BY <1>1, <1>2, <1>3 DEF Chains

\* A request that leaves its chain takes nobody else's place in it with it, wherever in
\* the chain it was and whatever its key becomes.
LEMMA LeaveKeepsChains ==
  ASSUME TypeOK, Chains, NEW r \in Requests, OnChain(r),
         NEW then \in States \ {"waiting", "resolving", "running"}, Leave(r, then),
         NEW k \in Keys, key' = [key EXCEPT ![r] = k]
  PROVE  Chains'
<1>1. TailsCoverChains'
  BY DEF TypeOK, Chains, TailsCoverChains, Leave, OnChain, Queued, Holding
<1>2. HolderAtFront'
  BY DEF TypeOK, Chains, HolderAtFront, Leave, Holding
<1>3. Ordered'
  BY DEF TypeOK, Chains, Ordered, Leave, OnChain, Queued, Holding
<1> QED BY <1>1, <1>2, <1>3 DEF Chains

\* A run that starts had nobody left to wait for.
LEMMA StartKeepsChains ==
  ASSUME TypeOK, Chains, NEW r \in Requests, OnChain(r), waits[r] = {},
         NEW to \in {"resolving", "running"}, pc' = [pc EXCEPT ![r] = to],
         UNCHANGED <<key, waits, tails>>
  PROVE  Chains'
<1>1. TailsCoverChains'
  BY DEF TypeOK, Chains, TailsCoverChains, OnChain, Queued, Holding
<1>2. HolderAtFront'
  BY DEF TypeOK, Chains, HolderAtFront, Holding
<1>3. Ordered'
  BY DEF TypeOK, Chains, Ordered, OnChain, Queued, Holding
<1> QED BY <1>1, <1>2, <1>3 DEF Chains

\* A step that leaves the queues and the runs of requests alone keeps the chains.
LEMMA UntouchedChains ==
  ASSUME Chains, UNCHANGED <<pc, key, waits, tails>>
  PROVE  Chains'
BY DEF Chains, TailsCoverChains, HolderAtFront, Ordered, OnChain, Queued, Holding

-----------------------------------------------------------------------------
(* Types. *)

\* Every action keeps the types of the variables.
LEMMA TypeStep == TypeOK /\ [Next]_vars => TypeOK'
<1> USE ForwardAssumption
<1> USE DEF TypeOK, States, routeVars, queueVars, idleVars
<1> SUFFICES ASSUME TypeOK, [Next]_vars PROVE TypeOK'
  OBVIOUS
<1>1. ASSUME NEW r \in Requests, Receive(r) PROVE TypeOK'
  BY <1>1 DEF Receive, Enqueue, RoutedToSession
<1>0. ASSUME NEW r \in Requests, Refuse(r) PROVE TypeOK'
  BY <1>0 DEF Refuse
<1>2. ASSUME NEW r \in Requests, Acquire(r) PROVE TypeOK'
  BY <1>2 DEF Acquire
<1>3. ASSUME NEW r \in Requests, AcquireInput(r) PROVE TypeOK'
  BY <1>3 DEF AcquireInput
<1>4. ASSUME NEW r \in Requests, GiveUp(r) PROVE TypeOK'
  BY <1>4 DEF GiveUp, Leave
<1>5. ASSUME NEW r \in Requests, Resolve(r) PROVE TypeOK'
  BY <1>5 DEF Resolve, ForwardClient
<1>6. ASSUME NEW r \in Requests, Reroute(r) PROVE TypeOK'
  BY <1>6 DEF Reroute, Leave, RoutedToSession
<1>7. ASSUME NEW r \in Requests, Requeue(r) PROVE TypeOK'
  BY <1>7 DEF Requeue, Enqueue
<1>8. ASSUME NEW r \in Requests, TooManyReroutes(r) PROVE TypeOK'
  BY <1>8 DEF TooManyReroutes, Leave
<1>9. ASSUME NEW r \in Requests, ResolveFails(r) PROVE TypeOK'
  BY <1>9 DEF ResolveFails, Leave
<1>10. ASSUME NEW r \in Requests, Finish(r) PROVE TypeOK'
  BY <1>10 DEF Finish, Leave, BoundAfter
<1>11. ASSUME NEW r \in Requests, Move(r) PROVE TypeOK'
  BY <1>11 DEF Move
<1>12. CASE Disconnect
  BY <1>12 DEF Disconnect
<1>13. CASE ReleaseSession
  BY <1>13 DEF ReleaseSession
<1>14. ASSUME NEW k \in Keys, OnForwardKeyIdle(k) PROVE TypeOK'
  BY <1>14 DEF OnForwardKeyIdle
<1>15. ASSUME NEW k \in Keys, EvictDeviceInputCache(k) PROVE TypeOK'
  BY <1>15 DEF EvictDeviceInputCache
<1>16. CASE UNCHANGED vars
  BY <1>16 DEF vars
<1> QED BY <1>0, <1>1, <1>2, <1>3, <1>4, <1>5, <1>6, <1>7, <1>8, <1>9, <1>10, <1>11, <1>12,
           <1>13, <1>14, <1>15, <1>16 DEF Next, Step

-----------------------------------------------------------------------------
(* The chains. *)

\* Every action keeps the order of the chains.
LEMMA ChainsStep == TypeOK /\ Chains /\ [Next]_vars => Chains'
<1> USE DEF routeVars, queueVars, idleVars
<1> SUFFICES ASSUME TypeOK, Chains, [Next]_vars PROVE Chains'
  OBVIOUS
<1>0. \A r \in Requests : key[r] \in Keys /\ target[r] \in Keys /\ key = [key EXCEPT ![r] = key[r]]
  BY DEF TypeOK
<1>1. ASSUME NEW r \in Requests, Receive(r) PROVE Chains'
  BY <1>0, <1>1, EnqueueKeepsChains DEF Receive, OnChain, Queued, Holding
<1>17. ASSUME NEW r \in Requests, Refuse(r) PROVE Chains'
  <2>1. TailsCoverChains'
    BY <1>17 DEF Refuse, TypeOK, Chains, TailsCoverChains, Queued, Holding
  <2>2. HolderAtFront'
    BY <1>17 DEF Refuse, TypeOK, Chains, HolderAtFront, Holding
  <2>3. Ordered'
    BY <1>17 DEF Refuse, TypeOK, Chains, Ordered, OnChain, Queued, Holding
  <2> QED BY <2>1, <2>2, <2>3 DEF Chains
<1>2. ASSUME NEW r \in Requests, Acquire(r) PROVE Chains'
  BY <1>2, StartKeepsChains DEF Acquire, OnChain
<1>3. ASSUME NEW r \in Requests, AcquireInput(r) PROVE Chains'
  BY <1>3, StartKeepsChains DEF AcquireInput, OnChain
<1>4. ASSUME NEW r \in Requests, GiveUp(r) PROVE Chains'
  BY <1>0, <1>4, LeaveKeepsChains DEF GiveUp, OnChain, States
<1>5. ASSUME NEW r \in Requests, Resolve(r) PROVE Chains'
  BY <1>5, StartKeepsChains DEF Resolve, OnChain, Holding, Chains, HolderAtFront
<1>6. ASSUME NEW r \in Requests, Reroute(r) PROVE Chains'
  BY <1>0, <1>6, LeaveKeepsChains DEF Reroute, OnChain, Holding, States
<1>7. ASSUME NEW r \in Requests, Requeue(r) PROVE Chains'
  BY <1>0, <1>7, EnqueueKeepsChains DEF Requeue, OnChain, Queued, Holding
<1>8. ASSUME NEW r \in Requests, TooManyReroutes(r) PROVE Chains'
  BY <1>0, <1>8, LeaveKeepsChains DEF TooManyReroutes, OnChain, Holding, States
<1>9. ASSUME NEW r \in Requests, ResolveFails(r) PROVE Chains'
  BY <1>0, <1>9, LeaveKeepsChains DEF ResolveFails, OnChain, Holding, States
<1>10. ASSUME NEW r \in Requests, Finish(r) PROVE Chains'
  BY <1>0, <1>10, LeaveKeepsChains DEF Finish, OnChain, Holding, States
<1>11. ASSUME NEW r \in Requests, Move(r) PROVE Chains'
  BY <1>11, UntouchedChains DEF Move
<1>12. CASE Disconnect
  BY <1>12, UntouchedChains DEF Disconnect
<1>13. CASE ReleaseSession
  BY <1>13, UntouchedChains DEF ReleaseSession
<1>14. ASSUME NEW k \in Keys, OnForwardKeyIdle(k) PROVE Chains'
  BY <1>14, UntouchedChains DEF OnForwardKeyIdle
<1>15. ASSUME NEW k \in Keys, EvictDeviceInputCache(k) PROVE Chains'
  BY <1>15, UntouchedChains DEF EvictDeviceInputCache
<1>16. CASE UNCHANGED vars
  BY <1>16, UntouchedChains DEF vars
<1> QED BY <1>1, <1>2, <1>3, <1>4, <1>5, <1>6, <1>7, <1>8, <1>9, <1>10, <1>11, <1>12,
           <1>13, <1>14, <1>15, <1>16, <1>17 DEF Next, Step

-----------------------------------------------------------------------------
(* The clients. *)

\* Only an answered call binds the socket, and only to a session that is there.
LEMMA BindingStep == BindingIsCurrent /\ [Next]_vars => BindingIsCurrent'
<1> USE DEF BindingIsCurrent, routeVars
<1> SUFFICES ASSUME BindingIsCurrent, [Next]_vars PROVE BindingIsCurrent'
  OBVIOUS
<1>1. ASSUME NEW r \in Requests, Step(r) PROVE BindingIsCurrent'
  <2>1. CASE Finish(r)
    BY <2>1 DEF Finish, BoundAfter
  <2>2. CASE ~Finish(r)
    BY <1>1, <2>2 DEF Step, Receive, Refuse, Acquire, AcquireInput, GiveUp, Resolve, Reroute,
                      Requeue, TooManyReroutes, ResolveFails, Move
  <2> QED BY <2>1, <2>2
<1>2. CASE Disconnect
  BY <1>2 DEF Disconnect
<1>3. CASE ReleaseSession
  BY <1>3 DEF ReleaseSession
<1>4. ASSUME NEW k \in Keys, OnForwardKeyIdle(k) \/ EvictDeviceInputCache(k)
      PROVE  BindingIsCurrent'
  BY <1>4 DEF OnForwardKeyIdle, EvictDeviceInputCache
<1>5. CASE UNCHANGED vars
  BY <1>5 DEF vars
<1> QED BY <1>1, <1>2, <1>3, <1>4, <1>5 DEF Next

\* A forward starts by Resolve alone, which looks at the binding and the session.
LEMMA StartStep ==
  ASSUME TypeOK, BindingIsCurrent, [Next]_vars
  PROVE  StartsWithItsClient
<1> USE DEF TypeOK, States, routeVars, queueVars, idleVars
<1> SUFFICES ASSUME NEW r \in Requests \ Inputs, Starts(r)
             PROVE  IF live THEN seeded'[r] = seeded[r] ELSE ~seeded'[r]
  BY DEF StartsWithItsClient
<1>1. Resolve(r)
  <2>1. ASSUME NEW q \in Requests, Step(q) PROVE Resolve(r)
    BY <2>1 DEF Starts, Step, Receive, Refuse, Enqueue, Acquire, AcquireInput, GiveUp, Leave,
                Resolve, Reroute, Requeue, TooManyReroutes, ResolveFails, Finish, Move
  <2>2. ~(\E q \in Requests : Step(q)) => pc' = pc
    BY DEF Next, Disconnect, ReleaseSession, OnForwardKeyIdle, EvictDeviceInputCache, vars
  <2> QED BY <2>1, <2>2 DEF Starts
<1>2. seeded'[r] = ForwardClient(r)
  BY <1>1 DEF Resolve
<1>3. ~live => ~RoutedToSession(r)
  BY <1>1 DEF Resolve, Admitted, RoutedToSession, BindingIsCurrent
<1> QED BY <1>2, <1>3 DEF ForwardClient

\* The invariant holds in every reachable state.
LEMMA IInvHolds == Spec => []IInv
<1>1. Init => IInv
  <2> SUFFICES ASSUME Init PROVE IInv
    OBVIOUS
  <2>1. TypeOK
    <3>1. connected \in BOOLEAN /\ bound \in BOOLEAN /\ live \in BOOLEAN
      BY DEF Init
    <3> QED BY <3>1, ForwardAssumption DEF Init, TypeOK, States
  <2>2. Chains
    BY DEF Init, Chains, TailsCoverChains, HolderAtFront, Ordered, OnChain, Queued, Holding
  <2>3. BindingIsCurrent
    BY DEF Init, BindingIsCurrent
  <2> QED BY <2>1, <2>2, <2>3 DEF IInv
<1>2. IInv /\ [Next]_vars => IInv'
  BY TypeStep, ChainsStep, BindingStep DEF IInv
<1> QED BY <1>1, <1>2, PTL DEF Spec

-----------------------------------------------------------------------------
(* The theorems. *)

\* Runs of one key never overlap, nobody overtakes on a key, and a key has a tail exactly
\* while somebody is on it (runKeyedSerial and waitForChain in keyedSerialQueue).
THEOREM QueuesAreSound == Spec => []QueuesSound
<1>1. IInv => QueuesSound
  <2> SUFFICES ASSUME IInv PROVE QueuesSound
    OBVIOUS
  <2>1. OneAtATime
    BY DEF IInv, Chains, HolderAtFront, Ordered, OneAtATime, OnChain
  <2>2. NoOvertaking
    BY DEF IInv, Chains, HolderAtFront, Ordered, NoOvertaking, OnChain, Queued, Holding
  <2> QED BY <2>1, <2>2 DEF IInv, Chains, QueuesSound
<1> QED BY <1>1, IInvHolds, PTL

\* A forward starts with the client it was admitted with, never with that of a session
\* released while it waited, and a call that settles late does not bind its socket to a
\* session that is gone (runMcpForwardAttempt, recordBoundMcpClientKey).
THEOREM ClientsAreSound == Spec => ClientsSound
<1>1. IInv /\ IInv' /\ [Next]_vars => BindingIsCurrent' /\ StartsWithItsClient
  BY StartStep DEF IInv
<1> QED BY <1>1, IInvHolds, PTL DEF Spec, ClientsSound
=============================================================================
