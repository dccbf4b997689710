----------------------- MODULE ForeignDeviceOwnership -----------------------
(***************************************************************************)
(* How daemons on one host agree which of them drives ONE device:          *)
(* ForwardLeaseForeignDeviceOwnership.claim (the host-wide table decides,  *)
(* the claim file is written too, and decides alone when no table can),    *)
(* ConnectionOwnership (publish, withdraw), and the device pool's binding  *)
(* of the device to a session, its rollback and its release.               *)
(*                                                                         *)
(* Each step of claim() between two awaits is an action.  A claim file is  *)
(* complete or absent (it is published by link), and each file operation   *)
(* is synchronous.  An owner is judged by a question over its socket, so   *)
(* the answer is about the moment it was given, not the moment it is used. *)
(***************************************************************************)
EXTENDS ClaimMirror

CONSTANTS DaemonOf,        \* [Calls -> Daemons]: a session and its claim call
          Mirrored,        \* daemons that attached a claim mirror
          Writable,        \* daemons that can write the claim directory
          MayFail,         \* daemons that may crash, wedge or shut down
          AcquireAttempts  \* ACQUIRE_ATTEMPTS (3 in the code)

Sessions == Calls

ASSUME OwnershipAssumption ==
  /\ DaemonOf \in [Calls -> Daemons]
  /\ Mirrored \subseteq Daemons /\ Writable \subseteq Daemons /\ MayFail \subseteq Daemons
  /\ AcquireAttempts \in Nat \ {0}

VARIABLES
  status,   \* [Daemons -> "up" | "wedged" | "dead"]
  lapsed,   \* history: daemons judged gone while wedged (DEVICE_OWNER_UNANSWERED_LAPSE_MS)
  holder,   \* [Daemons -> None | the session its pool binds the device to]
  file,     \* the claim file: None or the daemon whose token it holds
  claimed,  \* daemons with the device in claimedDeviceIds
  call      \* [Sessions -> the state of its claim call]

ownershipVars == <<status, lapsed, holder, file, claimed, call>>
vars == <<mirrorVars, ownershipVars>>

\* where a claim call is; "held" and "over": it returned (held while the session has the device)
InFlight == {"assigned", "judgeFile", "acquire", "getRow", "judgeRow", "casRow", "winner",
             "takeFile", "judgeOwner", "takeOver", "confirm", "tableRead", "tableOk", "judgeTable",
             "publish", "rollback"}
Steps    == InFlight \cup {"new", "held", "threw", "over"}
CallStates == [pc : Steps, seenFile : Daemons \cup {None}, seenRow : Rows \cup {None},
               byTable : BOOLEAN, tries : 0..AcquireAttempts]
NewCall == [pc |-> "new", seenFile |-> None, seenRow |-> None, byTable |-> FALSE, tries |-> 0]

TypeOK ==
  /\ MirrorTypeOK
  /\ status \in [Daemons -> {"up", "wedged", "dead"}]
  /\ lapsed \in SUBSET Daemons
  /\ holder \in [Daemons -> Sessions \cup {None}]
  /\ file \in Daemons \cup {None}
  /\ claimed \in SUBSET Daemons
  /\ call \in [Sessions -> CallStates]

Init ==
  /\ MirrorInit
  /\ status = [d \in Daemons |-> "up"]
  /\ lapsed = {}
  /\ holder = [d \in Daemons |-> None]
  /\ file = None
  /\ claimed = {}
  /\ call = [s \in Sessions |-> NewCall]

-----------------------------------------------------------------------------
(* Judging another owner: evaluateContent and ownerStillHolds. *)

\* MUTANT of Verdicts: an owner that does not answer at once counts as gone
Verdicts_SlowIsGone(o) == IF status[o] = "dead" THEN {FALSE} ELSE BOOLEAN

\* A dead PID is gone.  A daemon with a session on the device answers so, or is merely slow:
\* it holds.  Without one it may still run a tool call or not answer.  A wedged one holds
\* until its run of unanswered requests is long enough.
Verdicts(o) == IF status[o] = "dead" THEN {FALSE}
               ELSE IF status[o] = "up" /\ holder[o] # None THEN {TRUE}
               ELSE BOOLEAN

NoteLapse(o, live) ==
  lapsed' = IF status[o] = "wedged" /\ ~live THEN lapsed \cup {o} ELSE lapsed

\* the claim file still names d (claimFileIsOurs)
Gone(d) == file # d

\* a version no row and no reader has: distinct writes of one owner have distinct updatedAtMs
InUse == {r.at : r \in ({row} \cup {write[d].seen : d \in {e \in Daemons : write[e] # None}}
                              \cup {call[s].seenRow : s \in Sessions}) \ {None}}
FreshStamp(at) == at \notin InUse /\ \A n \in Stamps : n < at => n \in InUse

-----------------------------------------------------------------------------
(* Helpers of the call's steps. *)

At(s, p) == call[s].pc = p /\ status[DaemonOf[s]] = "up"

\* what the next step does not need is forgotten
Go(s, p) == call' = [call EXCEPT ![s] = [@ EXCEPT !.pc = p, !.seenFile = None, !.seenRow = None]]
GoSeen(s, p, f, r) == call' = [call EXCEPT ![s] = [@ EXCEPT !.pc = p, !.seenFile = f, !.seenRow = r]]
End(s, p) == call' = [call EXCEPT ![s] = [NewCall EXCEPT !.pc = p]]

MirrorIdle == UNCHANGED <<queue, intent, armed, attempts, write>>

\* claim() answers false: a table-decided claim is given back, then the caller rolls back
Refused(s) ==
  LET d == DaemonOf[s] IN
  /\ End(s, "rollback")
  /\ IF call[s].byTable THEN Record(d, ReleaseIntent, FALSE) ELSE MirrorIdle

\* no table could decide: the claim files do (acquire answers "unavailable")
FilesDecide(s) == Go(s, "takeFile")

\* claimFile() answers "claimed": a file-decided claim is recorded in the mirror
FileClaimed(s, f) ==
  LET d == DaemonOf[s] IN
  /\ Go(s, "publish")
  /\ IF d \in Mirrored /\ ~call[s].byTable
     THEN Record(d, ClaimIntent(FALSE), f # d) ELSE MirrorIdle

\* releaseDeviceClaim -> ForeignDeviceOwnership.release: row and file both go
WithdrawClaim(d) ==
  IF d \notin claimed THEN UNCHANGED <<file, claimed>> /\ MirrorIdle
  ELSE /\ claimed' = claimed \ {d}
       /\ file' = IF file = d THEN None ELSE file
       /\ IF d \in Mirrored THEN Record(d, ReleaseIntent, FALSE) ELSE MirrorIdle

-----------------------------------------------------------------------------
(* A session is bound to the device, then its daemon claims the device. *)

Assign(s) ==
  LET d == DaemonOf[s] IN
  /\ At(s, "new") /\ holder[d] = None
  /\ mode[d] \in {"on", "skipped"}
  /\ holder' = [holder EXCEPT ![d] = s]
  /\ End(s, "assigned")
  /\ UNCHANGED <<mirrorVars, status, lapsed, file, claimed>>

\* claimInTable: a claim file of another daemon is judged before the table is asked
CheckFile(s) ==
  LET d == DaemonOf[s] IN
  /\ At(s, "assigned")
  /\ IF d \notin Mirrored THEN FilesDecide(s)
     ELSE IF file \in {None, d} THEN Go(s, "acquire")
     ELSE GoSeen(s, "judgeFile", file, None)
  /\ UNCHANGED <<mirrorVars, status, lapsed, holder, file, claimed>>

JudgeFile(s, live) ==
  /\ At(s, "judgeFile") /\ live \in Verdicts(call[s].seenFile)
  /\ NoteLapse(call[s].seenFile, live)
  /\ IF live THEN Refused(s) ELSE Go(s, "acquire") /\ MirrorIdle
  /\ UNCHANGED <<row, mode, store, status, holder, file, claimed>>

\* acquire(): reads the row once the registry is there; without one the files decide
Acquire(s) ==
  LET d == DaemonOf[s] IN
  /\ At(s, "acquire")
  /\ IF d \in store /\ mode[d] = "on"
     THEN Go(s, "getRow") /\ queue' = Enqueued(d, s)
     ELSE FilesDecide(s) /\ UNCHANGED queue
  /\ UNCHANGED <<row, mode, store, intent, armed, attempts, write, status, lapsed, holder, file, claimed>>

\* readStore(): an open already under way fails or stalls, and acquire() throws.  An explicit
\* bind of a new session rolls it back; an allocation leaves the session bound.
AcquireThrows(s) ==
  LET d == DaemonOf[s] IN
  /\ At(s, "acquire")
  /\ d \notin store /\ mode[d] = "on"
  /\ End(s, "rollback") \/ End(s, IF holder[d] = s THEN "threw" ELSE "over")
  /\ UNCHANGED <<mirrorVars, status, lapsed, holder, file, claimed>>

GetRow(s) ==
  LET d == DaemonOf[s] IN
  /\ At(s, "getRow") /\ Admitted(d, s)
  /\ IF row = None \/ Owns(d, row)
     THEN GoSeen(s, "casRow", None, row) /\ queue' = SettledThen(d, s)
     ELSE GoSeen(s, "judgeRow", None, row) /\ queue' = Settled(d)
  /\ UNCHANGED <<row, mode, store, intent, armed, attempts, write, status, lapsed, holder, file, claimed>>

JudgeRow(s, live) ==
  LET d == DaemonOf[s] IN
  /\ At(s, "judgeRow") /\ live \in Verdicts(call[s].seenRow.owner)
  /\ NoteLapse(call[s].seenRow.owner, live)
  /\ IF live THEN Refused(s)
     ELSE /\ GoSeen(s, "casRow", None, call[s].seenRow)
          /\ queue' = Enqueued(d, s)
          /\ UNCHANGED <<intent, armed, attempts, write>>
  /\ UNCHANGED <<row, mode, store, status, holder, file, claimed>>

\* MUTANT of CasRow: the retry sends the same compare-and-set again, without a new read
CasRow_SameAgain(s, at) ==
  LET d == DaemonOf[s] IN
  /\ At(s, "casRow") /\ Admitted(d, s)
  /\ IF StillExpected(call[s].seenRow)
     THEN /\ row' = NewRow(d, at)
          /\ RecordAcquired(d)
          /\ call' = [call EXCEPT ![s] = [NewCall EXCEPT !.pc = "takeFile", !.byTable = TRUE]]
          /\ queue' = Settled(d)
     ELSE /\ UNCHANGED <<row, intent, armed, attempts, write, call>>
          /\ queue' = SettledThen(d, s)
  /\ UNCHANGED <<mode, store, status, lapsed, holder, file, claimed>>

\* the compare-and-set; a row that changed meanwhile is judged again, AcquireAttempts times
CasRow(s, at) ==
  LET d == DaemonOf[s]
      tried == call[s].tries + 1 IN
  /\ At(s, "casRow") /\ Admitted(d, s)
  /\ IF StillExpected(call[s].seenRow)
     THEN /\ row' = NewRow(d, at)
          /\ RecordAcquired(d)
          /\ call' = [call EXCEPT ![s] = [NewCall EXCEPT !.pc = "takeFile", !.byTable = TRUE]]
          /\ queue' = Settled(d)
     ELSE /\ UNCHANGED <<row, intent, armed, attempts, write>>
          /\ call' = [call EXCEPT ![s] =
                        [NewCall EXCEPT !.pc = IF tried < AcquireAttempts THEN "getRow" ELSE "winner",
                                        !.tries = tried]]
          /\ queue' = SettledThen(d, s)
  /\ UNCHANGED <<mode, store, status, lapsed, holder, file, claimed>>

\* out of attempts: whoever holds the row now refuses the claim, an empty row leaves it to the files
Winner(s) ==
  LET d == DaemonOf[s] IN
  /\ At(s, "winner") /\ Admitted(d, s)
  /\ IF row = None THEN FilesDecide(s) ELSE End(s, "rollback")
  /\ queue' = Settled(d)
  /\ UNCHANGED <<row, mode, store, intent, armed, attempts, write, status, lapsed, holder, file, claimed>>

\* a statement of acquire() throws: the claim files decide
StatementThrows(s) ==
  LET d == DaemonOf[s] IN
  /\ At(s, "getRow") \/ At(s, "casRow") \/ At(s, "winner")
  /\ d \in Faulty /\ Admitted(d, s)
  /\ FilesDecide(s)
  /\ queue' = Settled(d)
  /\ UNCHANGED <<row, mode, store, intent, armed, attempts, write, status, lapsed, holder, file, claimed>>

\* MUTANT of TakeFile: a claim file that cannot be acquired is treated like no claim directory
TakeFile_Proceeds(s) ==
  LET d == DaemonOf[s] IN
  /\ At(s, "takeFile")
  /\ IF d \in Writable /\ file = None
     THEN file' = d /\ Go(s, "confirm") /\ MirrorIdle
     ELSE Go(s, "publish") /\ MirrorIdle /\ UNCHANGED file
  /\ UNCHANGED <<row, mode, store, status, lapsed, holder, claimed>>

\* claimFile: tryAcquire; a file that is already ours is claimed without question
TakeFile(s) ==
  LET d == DaemonOf[s] IN
  /\ At(s, "takeFile")
  /\ IF d \notin Writable
     THEN Go(s, "publish") /\ MirrorIdle /\ UNCHANGED file
     ELSE IF file = None
     THEN file' = d /\ Go(s, "confirm") /\ MirrorIdle
     ELSE IF file = d
     THEN FileClaimed(s, d) /\ UNCHANGED file
     ELSE GoSeen(s, "judgeOwner", file, None) /\ MirrorIdle /\ UNCHANGED file
  /\ UNCHANGED <<row, mode, store, status, lapsed, holder, claimed>>

JudgeOwner(s, live) ==
  /\ At(s, "judgeOwner") /\ live \in Verdicts(call[s].seenFile)
  /\ NoteLapse(call[s].seenFile, live)
  /\ IF live THEN Refused(s)
     ELSE GoSeen(s, "takeOver", call[s].seenFile, None) /\ MirrorIdle
  /\ UNCHANGED <<row, mode, store, status, holder, file, claimed>>

\* takeOverExclusiveLock: succeeds while the file still holds the token that was read
TakeOver(s) ==
  LET d == DaemonOf[s] IN
  /\ At(s, "takeOver")
  /\ IF file = call[s].seenFile
     THEN file' = d /\ Go(s, "confirm") /\ MirrorIdle
     ELSE Refused(s) /\ UNCHANGED file
  /\ UNCHANGED <<row, mode, store, status, lapsed, holder, claimed>>

\* unlessHeldInTable: the table is read when it can be
Confirm(s) ==
  LET d == DaemonOf[s] IN
  /\ At(s, "confirm")
  /\ IF d \in Mirrored /\ d \in store /\ mode[d] # "skipped"
     THEN Go(s, "tableRead") /\ queue' = Enqueued(d, s) /\ UNCHANGED <<intent, armed, attempts, write>>
     ELSE FileClaimed(s, file)
  /\ UNCHANGED <<row, mode, store, status, lapsed, holder, file, claimed>>

\* the read of unlessHeldInTable; one that throws leaves the files to decide
TableRead(s, readable) ==
  LET d == DaemonOf[s] IN
  /\ At(s, "tableRead") /\ Admitted(d, s)
  /\ readable \/ d \in Faulty
  /\ IF readable /\ row # None /\ ~Owns(d, row)
     THEN GoSeen(s, "judgeTable", None, row)
     ELSE Go(s, "tableOk")
  /\ queue' = Settled(d)
  /\ UNCHANGED <<row, mode, store, intent, armed, attempts, write, status, lapsed, holder, file, claimed>>

\* nobody else holds the row: the claim file stands
TableOk(s) ==
  /\ At(s, "tableOk")
  /\ FileClaimed(s, file)
  /\ UNCHANGED <<row, mode, store, status, lapsed, holder, file, claimed>>

\* a live owner in the table: the file just taken is given back
JudgeTable(s, live) ==
  LET d == DaemonOf[s] IN
  /\ At(s, "judgeTable") /\ live \in Verdicts(call[s].seenRow.owner)
  /\ NoteLapse(call[s].seenRow.owner, live)
  /\ IF live
     THEN Refused(s) /\ file' = IF file = d THEN None ELSE file
     ELSE FileClaimed(s, file) /\ UNCHANGED file
  /\ UNCHANGED <<row, mode, store, status, holder, claimed>>

\* MUTANT of Publish: a claim that lands late is kept
Publish_Keeps(s) ==
  LET d == DaemonOf[s] IN
  /\ At(s, "publish")
  /\ End(s, IF holder[d] = s THEN "held" ELSE "over")
  /\ claimed' = claimed \cup {d}
  /\ MirrorIdle
  /\ UNCHANGED <<row, mode, store, status, lapsed, holder, file>>

\* publishDeviceClaim: a claim that lands after its session let go is withdrawn again
Publish(s) ==
  LET d == DaemonOf[s] IN
  /\ At(s, "publish")
  /\ End(s, IF holder[d] = s THEN "held" ELSE "over")
  /\ IF holder[d] # None
     THEN claimed' = claimed \cup {d} /\ UNCHANGED file /\ MirrorIdle
     ELSE /\ claimed' = claimed \ {d}
          /\ file' = IF file = d THEN None ELSE file
          /\ IF d \in Mirrored THEN Record(d, ReleaseIntent, FALSE) ELSE MirrorIdle
  /\ UNCHANGED <<row, mode, store, status, lapsed, holder>>

\* rollbackAssignments: only while the device is still this session's
Rollback(s) ==
  LET d == DaemonOf[s] IN
  /\ At(s, "rollback")
  /\ End(s, "over")
  /\ IF holder[d] = s
     THEN holder' = [holder EXCEPT ![d] = None] /\ WithdrawClaim(d)
     ELSE UNCHANGED <<holder, file, claimed>> /\ MirrorIdle
  /\ UNCHANGED <<row, mode, store, status, lapsed>>

\* releaseCapturedDevice: unbind and withdraw the claim in one turn, whatever the call does
Release(s) ==
  LET d == DaemonOf[s] IN
  /\ status[d] = "up" /\ holder[d] = s
  /\ holder' = [holder EXCEPT ![d] = None]
  /\ IF call[s].pc \in InFlight THEN UNCHANGED call ELSE End(s, "over")
  /\ WithdrawClaim(d)
  /\ UNCHANGED <<row, mode, store, status, lapsed>>

-----------------------------------------------------------------------------
(* The mirror's own steps, taken while the daemon runs. *)

JudgeForWrite(d, live) ==
  /\ Stage(d, "judge") /\ live \in Verdicts(write[d].seen.owner)
  /\ NoteLapse(write[d].seen.owner, live)
  /\ WriteJudge(d, live)
  /\ UNCHANGED <<status, holder, file, claimed, call>>

MirrorStep(d) ==
  /\ status[d] = "up" /\ d \in Mirrored
  /\ \/ \E live \in BOOLEAN : JudgeForWrite(d, live)
     \/ /\ \/ WriteDelete(d) \/ WriteGet(d) \/ WriteThrows(d)
           \/ \E at \in Stamps : FreshStamp(at) /\ WritePut(d, at)
           \/ WriteSettles(d, Gone(d)) \/ RetryFires(d, Gone(d))
        /\ UNCHANGED ownershipVars

\* the registry opens once, or meets unknown migrations
Registry(d) ==
  /\ status[d] = "up" /\ d \in Mirrored
  /\ RegistryOpens(d, Gone(d)) \/ Skip(d)
  /\ UNCHANGED ownershipVars

-----------------------------------------------------------------------------
(* Failure and shutdown of a daemon. *)

Abandoned(d) ==
  call' = [s \in Sessions |-> IF DaemonOf[s] = d THEN [NewCall EXCEPT !.pc = "over"] ELSE call[s]]

\* the process is gone; its claim file and row stay
Crash(d) ==
  /\ d \in MayFail /\ status[d] # "dead"
  /\ status' = [status EXCEPT ![d] = "dead"]
  /\ holder' = [holder EXCEPT ![d] = None]
  /\ claimed' = claimed \ {d}
  /\ Abandoned(d)
  /\ MirrorDies(d)
  /\ UNCHANGED <<lapsed, file>>

\* alive but not answering, and answering again
Wedge(d) ==
  /\ d \in MayFail /\ status[d] = "up"
  /\ status' = [status EXCEPT ![d] = "wedged"]
  /\ UNCHANGED <<mirrorVars, lapsed, holder, file, claimed, call>>

Unwedge(d) ==
  /\ status[d] = "wedged"
  /\ status' = [status EXCEPT ![d] = "up"]
  /\ UNCHANGED <<mirrorVars, lapsed, holder, file, claimed, call>>

\* closeManagedExecutionRelease: dispose the mirror, drain it, withdraw this daemon's rows
ShutdownStep(d) ==
  /\ d \in MayFail /\ status[d] = "up" /\ d \in Mirrored
  /\ Dispose(d) \/ WithdrawOwned(d)
  /\ UNCHANGED ownershipVars

\* releaseDeviceClaimsForShutdown, then the process exits
Exit(d) ==
  /\ status[d] = "up" /\ mode[d] = "withdrawn" /\ holder[d] = None
  /\ status' = [status EXCEPT ![d] = "dead"]
  /\ claimed' = claimed \ {d}
  /\ file' = IF file = d /\ d \in claimed THEN None ELSE file
  /\ Abandoned(d)
  /\ MirrorDies(d)
  /\ UNCHANGED <<lapsed, holder>>

-----------------------------------------------------------------------------

CallStep(s) ==
  \/ CheckFile(s) \/ Acquire(s) \/ AcquireThrows(s) \/ GetRow(s) \/ Winner(s)
  \/ StatementThrows(s) \/ TakeFile(s) \/ TakeOver(s) \/ Confirm(s) \/ TableOk(s)
  \/ Publish(s) \/ Rollback(s)
  \/ \E live \in BOOLEAN : \/ JudgeFile(s, live) \/ JudgeRow(s, live) \/ JudgeOwner(s, live)
                           \/ JudgeTable(s, live) \/ TableRead(s, live)
  \/ \E at \in Stamps : FreshStamp(at) /\ CasRow(s, at)

Next ==
  \/ \E s \in Sessions : Assign(s) \/ CallStep(s) \/ Release(s)
  \/ \E d \in Daemons : \/ MirrorStep(d) \/ Registry(d) \/ Crash(d) \/ Wedge(d) \/ Unwedge(d)
                        \/ ShutdownStep(d) \/ Exit(d)

Spec == Init /\ [][Next]_vars

-----------------------------------------------------------------------------
(* Properties. *)

\* Two daemons never drive the same device: at most one serving daemon has a session whose
\* claim succeeded, daemons aside whose hold lapsed while they were wedged.
Serving(d) == status[d] = "up" /\ mode[d] \in {"on", "skipped"}
Drives(d) == /\ Serving(d) /\ d \notin lapsed
             /\ \E s \in Sessions : holder[d] = s /\ call[s].pc = "held"
Exclusive == \A d, e \in Daemons : Drives(d) /\ Drives(e) => d = e

\* A claim never outlives the assignment (publishDeviceClaim): once no session of a running
\* daemon holds the device, its claim file is gone unless a claim call is still under way.
Claiming(d) == \E s \in Sessions : DaemonOf[s] = d /\ call[s].pc \in InFlight
NoStrandedClaim ==
  \A d \in Daemons : status[d] = "up" /\ holder[d] = None =>
     d \notin claimed /\ (file = d => Claiming(d))

\* Nor does its row, once the mirror has nothing left to write or retry.
MirrorQuiet(d) == /\ d \in store /\ mode[d] = "on" /\ write[d] = None /\ d \notin armed
                  /\ attempts[d] < MaxRetries
NoStrandedRow ==
  \A d \in Daemons : /\ status[d] = "up" /\ holder[d] = None
                      /\ MirrorQuiet(d) /\ ~Claiming(d)
                     => ~Owns(d, row)

\* What a daemon drives, other daemons can see it holds.
DriverIsVisible ==
  \A d \in Daemons : Drives(d) /\ d \in Writable => file = d \/ Owns(d, row)

\* While a daemon drives the device, no step of anyone, a late write of its own included,
\* takes its claim file or its row away.
DriverKeepsClaim ==
  [][\A d \in Daemons : Drives(d) /\ Drives(d)' =>
        (file = d => file' = d) /\ (Owns(d, row) => Owns(d, row'))]_vars

\* The daemons together are one lock on the device, whose owner is the session that drives it.
Driver(s) == Drives(DaemonOf[s]) /\ holder[DaemonOf[s]] = s
LockOwner == IF \E s \in Sessions : Driver(s) THEN CHOOSE s \in Sessions : Driver(s) ELSE None
Lock == INSTANCE DeviceLock WITH Sessions <- Sessions, owner <- LockOwner
ImplementsLock == Lock!Spec

-----------------------------------------------------------------------------
(* Liveness: the event loop runs every continuation that is ready, probes and statements are *)
(* bounded by timeouts, and a retry timer fires.                                              *)

Fairness == /\ \A s \in Sessions : WF_vars(CallStep(s))
            /\ \A d \in Daemons : WF_vars(MirrorStep(d))
FairSpec == Spec /\ Fairness

\* Every claim call of a daemon that keeps running ends.
Stopped(d) == status[d] # "up" \/ mode[d] # "on"
CallsEnd ==
  \A s \in Sessions :
     call[s].pc \in InFlight ~> (call[s].pc \notin InFlight \/ Stopped(DaemonOf[s]))

\* Once a running daemon's sessions let go of the device, its claim leaves file and table.
ClaimLeaves ==
  \A d \in Daemons :
     holder[d] = None ~> (holder[d] # None \/ Stopped(d) \/ (file # d /\ ~Owns(d, row)))
=============================================================================
