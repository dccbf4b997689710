------------------------ MODULE BootConcurrencyGate ------------------------
(***************************************************************************)
(* BootConcurrencyGate: FIFO permits for simulator boots that were         *)
(* admitted.  The limit follows each capacity sample (setLimit), so it may *)
(* fall below the number of permits that are out.                          *)
(***************************************************************************)
EXTENDS Naturals, Sequences, FiniteSets

VARIABLES
  running,  \* boots with a permit
  waiters,  \* boots waiting for one, oldest first
  limit

permitVars == <<running, waiters, limit>>

PermitTypeOK(owners, limits) ==
  /\ running \in SUBSET owners
  /\ waiters \in Seq(owners)
  /\ limit \in limits

PermitInit == running = {} /\ waiters = <<>> /\ limit = 1

\* how many waiters a drain grants
Free(out, wait, lim) ==
  IF Cardinality(out) >= lim THEN 0
  ELSE IF lim - Cardinality(out) < Len(wait) THEN lim - Cardinality(out) ELSE Len(wait)

\* MUTANT of Drain: the newest waiter goes first
Drain_NewestFirst(out, wait, lim) ==
  LET n == Free(out, wait, lim) IN
  /\ running' = out \cup {wait[Len(wait) + 1 - i] : i \in 1..n}
  /\ waiters' = SubSeq(wait, 1, Len(wait) - n)
  /\ limit' = lim

\* drain, after the permits that are out, the queue and the limit changed
Drain(out, wait, lim) ==
  LET n == Free(out, wait, lim) IN
  /\ running' = out \cup {wait[i] : i \in 1..n}
  /\ waiters' = SubSeq(wait, n + 1, Len(wait))
  /\ limit' = lim

\* MUTANT of SetLimit: a raised limit does not wake the waiters
SetLimit_NoDrain(lim) == limit' = lim /\ UNCHANGED <<running, waiters>>

SetLimit(lim) == Drain(running, waiters, lim)

AcquirePermit(b) == Drain(running, Append(waiters, b), limit)

\* MUTANT of ReleasePermit: a permit that comes back is not passed on
ReleasePermit_NoDrain(b) == running' = running \ {b} /\ UNCHANGED <<waiters, limit>>

\* the permit's release; once per grant
ReleasePermit(b) == Drain(running \ {b}, waiters, limit)

\* MUTANT of AbortWait: the aborted waiter stays in the queue
AbortWait_Stays(b) == UNCHANGED permitVars

\* onAbort takes the waiter out of the queue
AbortWait(b) ==
  /\ \E i \in 1..Len(waiters) :
       /\ waiters[i] = b
       /\ waiters' = SubSeq(waiters, 1, i - 1) \o SubSeq(waiters, i + 1, Len(waiters))
  /\ UNCHANGED <<running, limit>>

Queued(b) == \E i \in 1..Len(waiters) : waiters[i] = b
=============================================================================
