------------------------------ MODULE McpTasks ------------------------------
(***************************************************************************)
(* MCP tasks: the rows of mcp_tasks, the manager of each daemon instance   *)
(* that shares them, the work of a task and the client that polls, answers *)
(* and cancels.  Statements of an instance run first come first served; a  *)
(* statement and what its caller does with the outcome are one step.       *)
(***************************************************************************)
EXTENDS Naturals, Sequences, FiniteSets

CONSTANTS
  Tasks,
  Instances,    \* daemon instances; each lives once
  Keys,         \* input-request keys
  NoInstance,
  NoWaiter,
  Peers,        \* may an instance start while another is alive?
  MaxCalls,     \* bound: tasks/update and tasks/cancel calls
  MaxProgress,  \* bound: progress reports
  MaxFailures,  \* bound: statements that fail
  MaxRestarts   \* bound: crashes

\* the wait of a requestInput: the keys it asked for and those not yet answered
Waiters == {w \in [asked : SUBSET Keys, outstanding : SUBSET Keys] : w.outstanding \subseteq w.asked}

ASSUME TasksAssumption ==
  /\ NoInstance \notin Instances /\ NoWaiter \notin Waiters
  /\ Peers \in BOOLEAN
  /\ {MaxCalls, MaxProgress, MaxFailures, MaxRestarts} \subseteq Nat

VARIABLES
  (* the table *)
  status, requests, expired,
  (* the instances *)
  alive, recovery, queue,
  (* the handle and the work of a task, in its instance's memory *)
  home, detach, work, waiter, answer, issued, cancelRequested, settling, settled,
  (* bounds *)
  calls, reports, failures, restarts

rowVars == <<status, requests, expired>>
createVars == <<home, detach>>   \* detach: the tasks with onCancel = "detach"
handleVars == <<waiter, answer, issued, cancelRequested, settling, settled>>
boundVars == <<calls, reports, failures, restarts>>
vars == <<rowVars, alive, recovery, queue, createVars, work, handleVars, boundVars>>

Running == {"working", "input_required"}
Terminal == {"completed", "failed", "cancelled"}
Works == {"none", "creating", "running", "storing", "asking", "finishing", "falling", "over"}

\* what an instance asks of its connection
Statements ==
  [op : {"recover"}] \cup [op : {"insert", "cancel", "direct"}, task : Tasks]
  \cup [op : {"input", "update", "partial", "answer"}, task : Tasks, keys : SUBSET Keys]
  \cup [op : {"status"}, task : Tasks, to : Running]
  \cup [op : {"settle"}, task : Tasks, to : Terminal]

TypeOK ==
  /\ status \in [Tasks -> {"none", "deleted"} \cup Running \cup Terminal]
  /\ requests \in [Tasks -> SUBSET Keys]
  /\ expired \in SUBSET Tasks
  /\ alive \in SUBSET Instances
  /\ recovery \in [Instances -> {"none", "pending", "done"}]
  /\ queue \in [Instances -> Seq(Statements)]
  /\ home \in [Tasks -> Instances \cup {NoInstance}]
  /\ detach \in SUBSET Tasks
  /\ work \in [Tasks -> Works]
  /\ waiter \in [Tasks -> Waiters \cup {NoWaiter}]
  /\ answer \in [Tasks -> {"pending", "resolved", "rejected"}]
  /\ issued \in [Tasks -> SUBSET Keys]
  /\ cancelRequested \in [Tasks -> BOOLEAN]
  /\ settling \in [Tasks -> BOOLEAN]
  /\ settled \in [Tasks -> BOOLEAN]
  /\ calls \in 0..MaxCalls /\ reports \in 0..MaxProgress
  /\ failures \in 0..MaxFailures /\ restarts \in 0..MaxRestarts

Init ==
  /\ status = [t \in Tasks |-> "none"]
  /\ requests = [t \in Tasks |-> {}]
  /\ expired = {}
  /\ alive = {}
  /\ recovery = [d \in Instances |-> "none"]
  /\ queue = [d \in Instances |-> <<>>]
  /\ home = [t \in Tasks |-> NoInstance]
  /\ detach = {}
  /\ work = [t \in Tasks |-> "none"]
  /\ waiter = [t \in Tasks |-> NoWaiter]
  /\ answer = [t \in Tasks |-> "pending"]
  /\ issued = [t \in Tasks |-> {}]
  /\ cancelRequested = [t \in Tasks |-> FALSE]
  /\ settling = [t \in Tasks |-> FALSE]
  /\ settled = [t \in Tasks |-> FALSE]
  /\ calls = 0 /\ reports = 0 /\ failures = 0 /\ restarts = 0

-----------------------------------------------------------------------------
(* Statements of the repository *)

\* MUTANT of Fenced: every row may be written
Fenced_Any(t) == status[t] # "none"

\* the WHERE of every write that changes a status
Fenced(t) == status[t] \in Running

\* updateRunning; the stored requests may be kept
UpdateRunning(t, to, keys) ==
  /\ status' = [status EXCEPT ![t] = IF Fenced(t) THEN to ELSE @]
  /\ requests' = [requests EXCEPT ![t] = IF Fenced(t) THEN keys ELSE @]
  /\ UNCHANGED expired

\* MUTANT of SettleRow: a task that waits for input is not settled
SettleRow_WorkingOnly(t, to) ==
  /\ status' = [status EXCEPT ![t] = IF @ = "working" THEN to ELSE @]
  /\ requests' = [requests EXCEPT ![t] = IF Fenced(t) THEN {} ELSE @]
  /\ UNCHANGED expired

\* settle
SettleRow(t, to) ==
  /\ status' = [status EXCEPT ![t] = IF Fenced(t) THEN to ELSE @]
  /\ requests' = [requests EXCEPT ![t] = IF Fenced(t) THEN {} ELSE @]
  /\ UNCHANGED expired

\* MUTANT of Interrupted: rows that wait for input are left alone
Interrupted_WorkingOnly(d) == {t \in Tasks : home[t] # d /\ status[t] = "working"}

\* MUTANT of Interrupted: the instance's own rows too
Interrupted_Own(d) == {t \in Tasks : status[t] \in Running}

\* failInterrupted: every running row of another instance
Interrupted(d) == {t \in Tasks : home[t] # d /\ status[t] \in Running}

\* the manager's `running` map
HasHandle(d, t) ==
  home[t] = d /\ d \in alive /\ ~settled[t] /\ work[t] \notin {"none", "creating"}

\* a call first waits for recovery
Ready(d) == IF recovery[d] = "none" THEN <<[op |-> "recover"]>> ELSE <<>>
ReadyState(d) == IF recovery[d] = "none" THEN [recovery EXCEPT ![d] = "pending"] ELSE recovery

\* MUTANT of RejectWaiter: the waiter is dropped, not rejected
RejectWaiter_Dropped(t) == waiter' = [waiter EXCEPT ![t] = NoWaiter] /\ UNCHANGED answer

RejectWaiter(t) ==
  /\ answer' = [answer EXCEPT ![t] = IF waiter[t] # NoWaiter THEN "rejected" ELSE @]
  /\ waiter' = [waiter EXCEPT ![t] = NoWaiter]

Push(d, s) == queue' = [queue EXCEPT ![d] = @ \o s]
\* the head is done and its caller issues more
Pop(d, s) == queue' = [queue EXCEPT ![d] = Tail(@) \o s]
HeadIs(d, op) == d \in alive /\ queue[d] # <<>> /\ Head(queue[d]).op = op
SettleItem(t, to) == <<[op |-> "settle", task |-> t, to |-> to]>>

-----------------------------------------------------------------------------
(* Instances *)

Start(d) ==
  /\ d \notin alive /\ restarts < MaxRestarts
  /\ recovery[d] = "none" /\ \A t \in Tasks : home[t] # d
  /\ Peers \/ alive = {}
  /\ alive' = alive \cup {d}
  /\ restarts' = restarts + 1
  /\ UNCHANGED <<rowVars, recovery, queue, createVars, work, handleVars, calls, reports, failures>>

\* what an instance has in memory and in its connection is gone; a statement
\* in flight may have been stored, which is a crash right after it
Crash(d) ==
  /\ d \in alive
  /\ alive' = alive \ {d}
  /\ recovery' = [recovery EXCEPT ![d] = "done"]
  /\ queue' = [queue EXCEPT ![d] = <<>>]
  /\ UNCHANGED <<rowVars, createVars, work, handleVars, boundVars>>

Recovered(d) ==
  /\ HeadIs(d, "recover")
  /\ status' = [t \in Tasks |-> IF t \in Interrupted(d) THEN "failed" ELSE status[t]]
  /\ requests' = [t \in Tasks |-> IF t \in Interrupted(d) THEN {} ELSE requests[t]]
  /\ recovery' = [recovery EXCEPT ![d] = "done"]
  /\ Pop(d, <<>>)
  /\ UNCHANGED <<expired, alive, createVars, work, handleVars, boundVars>>

\* the retention of a finished task ends
Expire(t) ==
  /\ status[t] \in Terminal
  /\ expired' = expired \cup {t}
  /\ UNCHANGED <<status, requests, alive, recovery, queue, createVars, work, handleVars, boundVars>>

-----------------------------------------------------------------------------
(* The work of a task *)

Create(t, d) ==
  /\ d \in alive /\ work[t] = "none"
  /\ Push(d, Append(Ready(d), [op |-> "insert", task |-> t]))
  /\ recovery' = ReadyState(d)
  /\ home' = [home EXCEPT ![t] = d]
  /\ detach' \in {detach, detach \cup {t}}
  /\ work' = [work EXCEPT ![t] = "creating"]
  /\ UNCHANGED <<rowVars, alive, handleVars, boundVars>>

\* purgeExpired, then insert
Inserted(d) ==
  /\ HeadIs(d, "insert")
  /\ LET t == Head(queue[d]).task IN
     /\ status' = [x \in Tasks |-> IF x = t THEN "working"
                                   ELSE IF x \in expired THEN "deleted" ELSE status[x]]
     /\ work' = [work EXCEPT ![t] = "running"]
  /\ expired' = {}
  /\ Pop(d, <<>>)
  /\ UNCHANGED <<requests, alive, recovery, createVars, handleVars, boundVars>>

\* requestInput, up to its write
RequestInput(t, ks) ==
  /\ work[t] = "running" /\ home[t] \in alive
  /\ ~cancelRequested[t] /\ ~settled[t] /\ waiter[t] = NoWaiter
  /\ ks # {} /\ ks \cap issued[t] = {}
  /\ waiter' = [waiter EXCEPT ![t] = [asked |-> ks, outstanding |-> ks]]
  /\ answer' = [answer EXCEPT ![t] = "pending"]
  /\ work' = [work EXCEPT ![t] = "storing"]
  /\ Push(home[t], <<[op |-> "input", task |-> t, keys |-> ks]>>)
  /\ UNCHANGED <<rowVars, alive, recovery, createVars, issued, cancelRequested, settling, settled, boundVars>>

InputStored(d) ==
  /\ HeadIs(d, "input")
  /\ LET s == Head(queue[d]) IN
     /\ UpdateRunning(s.task, "input_required", s.keys)
     /\ issued' = [issued EXCEPT ![s.task] = @ \cup s.keys]
     /\ work' = [work EXCEPT ![s.task] = "asking"]
  /\ Pop(d, <<>>)
  /\ UNCHANGED <<alive, recovery, createVars, waiter, answer, cancelRequested, settling, settled, boundVars>>

\* the responses arrived, or the wait was rejected
Resume(t) ==
  /\ work[t] = "asking" /\ answer[t] # "pending" /\ home[t] \in alive
  /\ work' = [work EXCEPT ![t] = "running"]
  /\ UNCHANGED <<rowVars, alive, recovery, queue, createVars, handleVars, boundVars>>

\* the status a progress report writes beside its message
StatusNow(t) == IF waiter[t] = NoWaiter THEN "working" ELSE "input_required"

\* setStatusMessage
Progress(t) ==
  /\ reports < MaxProgress
  /\ work[t] \in {"running", "storing", "asking"} /\ home[t] \in alive /\ ~settled[t]
  /\ Push(home[t], <<[op |-> "status", task |-> t, to |-> StatusNow(t)]>>)
  /\ reports' = reports + 1
  /\ UNCHANGED <<rowVars, alive, recovery, createVars, work, handleVars, calls, failures, restarts>>

StatusStored(d) ==
  /\ HeadIs(d, "status")
  /\ LET s == Head(queue[d]) IN UpdateRunning(s.task, s.to, requests[s.task])
  /\ Pop(d, <<>>)
  /\ UNCHANGED <<alive, recovery, createVars, work, handleVars, boundVars>>

\* how settleTask settles: `ok` is a result without isError, `thrown` an exception
Outcome(t, ok, thrown) ==
  IF cancelRequested[t] /\ (t \in detach \/ ~ok) THEN "cancelled"
  ELSE IF thrown THEN "failed" ELSE "completed"

\* the work returned or threw; settleTask settles, unless it is settled or is being settled
WorkEnds(t, ok, thrown) ==
  /\ work[t] = "running" /\ home[t] \in alive
  /\ ~(ok /\ thrown)
  /\ work' = [work EXCEPT ![t] = IF settled[t] THEN "over" ELSE IF thrown THEN "falling" ELSE "finishing"]
  /\ settling' = [settling EXCEPT ![t] = ~settled[t]]
  /\ Push(home[t], IF settled[t] \/ settling[t] THEN <<>> ELSE SettleItem(t, Outcome(t, ok, thrown)))
  /\ UNCHANGED <<rowVars, alive, recovery, createVars, waiter, answer, issued, cancelRequested, settled, boundVars>>

\* persistSettlement, stored
Settled(d) ==
  /\ HeadIs(d, "settle")
  /\ LET s == Head(queue[d])  t == s.task IN
     /\ SettleRow(t, s.to)
     /\ settled' = [settled EXCEPT ![t] = TRUE]
     /\ settling' = [settling EXCEPT ![t] = FALSE]
     /\ RejectWaiter(t)
     /\ work' = [work EXCEPT ![t] = IF @ \in {"finishing", "falling"} THEN "over" ELSE @]
  /\ Pop(d, <<>>)
  /\ UNCHANGED <<alive, recovery, createVars, issued, cancelRequested, boundVars>>

-----------------------------------------------------------------------------
(* The client *)

\* tasks/update and tasks/cancel, sent to an instance
Call(t, d, s) ==
  /\ d \in alive /\ calls < MaxCalls /\ status[t] # "none"
  /\ Push(d, Append(Ready(d), s))
  /\ recovery' = ReadyState(d)
  /\ calls' = calls + 1
  /\ UNCHANGED <<rowVars, alive, createVars, work, handleVars, reports, failures, restarts>>

Update(t, d, ks) == Call(t, d, [op |-> "update", task |-> t, keys |-> ks])
Cancel(t, d) == Call(t, d, [op |-> "cancel", task |-> t])

\* `get` finds no readable row
Unreadable(t) == status[t] \in {"none", "deleted"} \/ t \in expired

\* update, after its read: answers are taken from the waiter, then stored
UpdateRead(d) ==
  /\ HeadIs(d, "update")
  /\ LET s == Head(queue[d])  t == s.task IN
     IF Unreadable(t) \/ status[t] # "input_required" \/ ~HasHandle(d, t) \/ waiter[t] = NoWaiter
     THEN Pop(d, <<>>) /\ UNCHANGED waiter
     ELSE LET left == waiter[t].outstanding \ s.keys IN
          /\ waiter' = [waiter EXCEPT ![t].outstanding = left]
          /\ Pop(d, IF left # {}
                    THEN <<[op |-> "partial", task |-> t, keys |-> requests[t] \cap left]>>
                    ELSE <<[op |-> "answer", task |-> t, keys |-> waiter[t].asked]>>)
  /\ UNCHANGED <<rowVars, alive, recovery, createVars, work, answer, issued, cancelRequested, settling, settled, boundVars>>

PartialStored(d) ==
  /\ HeadIs(d, "partial")
  /\ LET s == Head(queue[d]) IN UpdateRunning(s.task, "input_required", s.keys)
  /\ Pop(d, <<>>)
  /\ UNCHANGED <<alive, recovery, createVars, work, handleVars, boundVars>>

\* MUTANT of Release: the waiter goes without its answers
Release_NotResolved(t, asked) ==
  /\ waiter' = [waiter EXCEPT ![t] = NoWaiter]
  /\ UNCHANGED answer

\* update, after its write: the waiter it answered is released
Release(t, asked) ==
  LET same == waiter[t] # NoWaiter /\ waiter[t].asked = asked IN
  /\ waiter' = [waiter EXCEPT ![t] = IF same THEN NoWaiter ELSE @]
  /\ answer' = [answer EXCEPT ![t] = IF same THEN "resolved" ELSE @]

AnswerStored(d) ==
  /\ HeadIs(d, "answer")
  /\ LET s == Head(queue[d]) IN
     /\ UpdateRunning(s.task, "working", {})
     /\ Release(s.task, s.keys)
  /\ Pop(d, <<>>)
  /\ UNCHANGED <<alive, recovery, createVars, work, issued, cancelRequested, settling, settled, boundVars>>

\* cancel, after its read
CancelRead(d) ==
  /\ HeadIs(d, "cancel")
  /\ LET t == Head(queue[d]).task
         detached == t \in detach /\ ~cancelRequested[t] IN
     IF Unreadable(t) \/ status[t] \in Terminal
     THEN Pop(d, <<>>) /\ UNCHANGED handleVars
     ELSE IF ~HasHandle(d, t)
     THEN Pop(d, <<[op |-> "direct", task |-> t]>>) /\ UNCHANGED handleVars
     ELSE /\ cancelRequested' = [cancelRequested EXCEPT ![t] = TRUE]
          /\ RejectWaiter(t)
          /\ settling' = [settling EXCEPT ![t] = @ \/ detached]
          /\ Pop(d, IF detached /\ ~settling[t] THEN SettleItem(t, "cancelled") ELSE <<>>)
          /\ UNCHANGED <<issued, settled>>
  /\ UNCHANGED <<rowVars, alive, recovery, createVars, work, boundVars>>

\* a running row without a live handle is cancelled in the table
DirectStored(d) ==
  /\ HeadIs(d, "direct")
  /\ SettleRow(Head(queue[d]).task, "cancelled")
  /\ Pop(d, <<>>)
  /\ UNCHANGED <<alive, recovery, createVars, work, handleVars, boundVars>>

-----------------------------------------------------------------------------
(* A statement fails *)

\* MUTANT of Fallback: a settlement that could not be stored is not tried again
Fallback_None(t) == <<>>

\* settleTask's catch settles once more when storing the result failed
Fallback(t) ==
  IF work[t] = "finishing"
  THEN SettleItem(t, IF cancelRequested[t] THEN "cancelled" ELSE "failed") ELSE <<>>

StatementFails(d) ==
  /\ d \in alive /\ queue[d] # <<>> /\ failures < MaxFailures
  /\ failures' = failures + 1
  /\ LET s == Head(queue[d]) IN
     CASE s.op = "recover" ->
            /\ recovery' = [recovery EXCEPT ![d] = "none"]
            /\ Pop(d, <<>>) /\ UNCHANGED <<work, handleVars>>
       [] s.op = "insert" ->
            /\ work' = [work EXCEPT ![s.task] = "over"]
            /\ Pop(d, <<>>) /\ UNCHANGED <<recovery, handleVars>>
       [] s.op = "input" ->
            /\ waiter' = [waiter EXCEPT ![s.task] = NoWaiter]
            /\ work' = [work EXCEPT ![s.task] = "running"]
            /\ Pop(d, <<>>)
            /\ UNCHANGED <<recovery, answer, issued, cancelRequested, settling, settled>>
       [] s.op = "settle" ->
            /\ settling' = [settling EXCEPT ![s.task] = Fallback(s.task) # <<>>]
            /\ work' = [work EXCEPT ![s.task] =
                 CASE @ = "finishing" -> "falling" [] @ = "falling" -> "over" [] OTHER -> @]
            /\ Pop(d, Fallback(s.task))
            /\ UNCHANGED <<recovery, waiter, answer, issued, cancelRequested, settled>>
       [] OTHER -> Pop(d, <<>>) /\ UNCHANGED <<recovery, work, handleVars>>
  /\ UNCHANGED <<rowVars, alive, createVars, calls, reports, restarts>>

-----------------------------------------------------------------------------
Stored(d) ==
  \/ Recovered(d) \/ Inserted(d) \/ InputStored(d) \/ StatusStored(d) \/ Settled(d)
  \/ UpdateRead(d) \/ PartialStored(d) \/ AnswerStored(d) \/ CancelRead(d) \/ DirectStored(d)

End(t) == \E ok, thrown \in BOOLEAN : WorkEnds(t, ok, thrown)

Next ==
  \/ \E d \in Instances : Start(d) \/ Crash(d) \/ Stored(d) \/ StatementFails(d)
  \/ \E t \in Tasks, d \in Instances :
       Create(t, d) \/ Cancel(t, d) \/ \E ks \in SUBSET Keys : Update(t, d, ks)
  \/ \E t \in Tasks : Expire(t) \/ Resume(t) \/ Progress(t) \/ End(t)
                      \/ \E ks \in SUBSET Keys : RequestInput(t, ks)

Spec == Init /\ [][Next]_vars

\* the connection serves its queue, and work that waits for nothing ends
FairSpec ==
  /\ Spec
  /\ \A d \in Instances : WF_vars(Stored(d))
  /\ \A t \in Tasks : WF_vars(Resume(t)) /\ WF_vars(End(t))

-----------------------------------------------------------------------------
(* Properties *)

Idle(t) == home[t] \in alive /\ queue[home[t]] = <<>>

\* A terminal status never changes, whoever settles, recovers, cancels or reports
\* late; the row only leaves after its retention (the fence of every status write).
TerminalStays ==
  [][\A t \in Tasks : status[t] \in Terminal /\ status'[t] # status[t]
       => status'[t] = "deleted" /\ t \in expired]_vars

\* While the work waits for answers and no statement is under way, tasks/get shows
\* every question that is still open, so that a client can always answer, also after
\* a failed write of its last answer (update: "if the write rejects, the waiter stays";
\* "pauses it in input_required; tasks/get inlines the question").  A progress report
\* during the write of an answer stores the status from before it, which ends that.
QuestionsAnswerable ==
  reports = 0 => \A t \in Tasks :
    Idle(t) /\ work[t] = "asking" /\ answer[t] = "pending"
    => /\ status[t] = "input_required" /\ requests[t] # {}
       /\ waiter[t] # NoWaiter /\ waiter[t].outstanding \subseteq requests[t]

\* A task the manager calls settled is terminal in the table, has no waiter left and
\* leaves no work waiting (persistSettlement: "only a durably stored terminal state
\* settles the task").
SettledIsStored ==
  \A t \in Tasks :
    settled[t] => /\ status[t] \in Terminal \cup {"deleted"}
                  /\ waiter[t] = NoWaiter
                  /\ work[t] = "asking" => answer[t] # "pending"

\* A live instance's task becomes terminal only by its own settlement: recovery and
\* direct cancellation take rows "another daemon instance left behind".
OwnerSettles ==
  \A t \in Tasks : home[t] \in alive /\ status[t] \in Terminal => settled[t]

\* After its recovery an instance finds no running row of another ("Running rows
\* belong to this instance after recovery", cancel).
RunningRowsAreOurs ==
  \A d \in alive, t \in Tasks :
    recovery[d] = "done" /\ status[t] \in Running => home[t] = d

\* What the manager believes of its tasks, the table says too.
TasksSound == TypeOK /\ SettledIsStored /\ RunningRowsAreOurs

\* Work that returned a result leaves a terminal row though one write fails, unless its
\* daemon dies (settleTask's fallback).
ResultsSettle ==
  \A t \in Tasks : work[t] = "finishing" ~> status[t] \in Terminal \cup {"deleted"} \/ home[t] \notin alive
=============================================================================
