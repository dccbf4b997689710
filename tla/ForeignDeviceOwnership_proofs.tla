-------------------- MODULE ForeignDeviceOwnership_proofs --------------------
(***************************************************************************)
(* What is proved of the claim protocol, for every number of daemons,      *)
(* sessions and retries: its types; that neither a claim nor its row       *)
(* outlives the assignment it was made for; that one daemon at a time      *)
(* drives the device, can be seen to, and keeps its claim; and that the    *)
(* daemons together implement DeviceLock.                                  *)
(***************************************************************************)
EXTENDS ForeignDeviceOwnership, TLAPS

\* what the steps of a mirror change besides the row, the mode and the registry
WriterTyped ==
  /\ queue \in [Daemons -> Seq(Calls \cup {None})]
  /\ intent \in [Daemons -> Intents \cup {None}]
  /\ armed \in SUBSET Daemons
  /\ attempts \in [Daemons -> 0..MaxRetries]
  /\ write \in [Daemons -> Writes \cup {None}]

-----------------------------------------------------------------------------
(* The helpers of ClaimMirror keep their types. *)

\* A statement that is queued, or leaves the connection and comes back, keeps the queue a sequence of calls.
LEMMA QueueTyped ==
  ASSUME queue \in [Daemons -> Seq(Calls \cup {None})], NEW d \in Daemons,
         NEW op \in Calls \cup {None}
  PROVE  /\ Enqueued(d, op) \in [Daemons -> Seq(Calls \cup {None})]
         /\ queue[d] # <<>> => Settled(d) \in [Daemons -> Seq(Calls \cup {None})]
         /\ queue[d] # <<>> => SettledThen(d, op) \in [Daemons -> Seq(Calls \cup {None})]
  BY DEF Enqueued, Settled, SettledThen

\* scheduleRetry never counts past the delays it has.
LEMMA RetryTyped ==
  ASSUME WriterTyped, NEW d \in Daemons, NEW used \in 0..MaxRetries,
         ScheduleRetry(d, used) \/ Unarmed(d, used)
  PROVE  armed' \in SUBSET Daemons /\ attempts' \in [Daemons -> 0..MaxRetries]
<1>1. CASE Unarmed(d, used)
  BY <1>1 DEF WriterTyped, Unarmed
<1>2. CASE ScheduleRetry(d, used)
  <2> DEFINE n == IF CanRetry(d, used) THEN used + 1 ELSE used
  <2>1. n \in 0..MaxRetries
    BY BoundsAssumption DEF CanRetry
  <2>2. attempts' = [attempts EXCEPT ![d] = n] /\ armed' \subseteq armed \cup {d}
    BY <1>2 DEF ScheduleRetry
  <2> HIDE DEF n
  <2> QED BY <2>1, <2>2 DEF WriterTyped
<1> QED BY <1>1, <1>2

\* A write issued for an intent is a write.
LEMMA NewWriteTyped ==
  ASSUME NEW i \in Intents
  PROVE  NewWrite(i) \in Writes
  BY DEF NewWrite, Writes, Intents, Stages

\* write(): forgetting, deferring and issuing all keep the types.
LEMMA IssueWriteTyped ==
  ASSUME WriterTyped, NEW d \in Daemons, NEW i \in Intents, NEW used \in 0..MaxRetries,
         NEW gone, NEW open, IssueWrite(d, i, used, gone, open)
  PROVE  WriterTyped'
<1>1. 0 \in 0..MaxRetries
  BY BoundsAssumption
<1>2. armed' \in SUBSET Daemons /\ attempts' \in [Daemons -> 0..MaxRetries]
  BY <1>1, RetryTyped DEF IssueWrite
<1>3. NewWrite(i) \in Writes
  BY NewWriteTyped
<1>4. queue' \in [Daemons -> Seq(Calls \cup {None})]
  BY QueueTyped DEF IssueWrite, WriterTyped
<1>5. intent' \in [Daemons -> Intents \cup {None}] /\ write' \in [Daemons -> Writes \cup {None}]
  BY <1>3 DEF IssueWrite, WriterTyped
<1> QED BY <1>2, <1>4, <1>5 DEF WriterTyped

\* a write in flight is a record, so one field of it may be changed
LEMMA WriteFieldTyped ==
  ASSUME WriterTyped, NEW d \in Daemons, write[d] # None
  PROVE  /\ [write EXCEPT ![d].old = TRUE] \in [Daemons -> Writes \cup {None}]
         /\ \A s \in Stages : [write EXCEPT ![d].stage = s] \in [Daemons -> Writes \cup {None}]
         /\ \A s \in Stages, r \in Rows \cup {None} :
              [write EXCEPT ![d].stage = s, ![d].seen = r] \in [Daemons -> Writes \cup {None}]
<1>1. write[d] \in Writes
  BY DEF WriterTyped
<1> QED BY <1>1 DEF WriterTyped, Writes

\* record() keeps the types.
LEMMA RecordTyped ==
  ASSUME WriterTyped, NEW d \in Daemons, NEW i \in Intents, NEW gone, Record(d, i, gone)
  PROVE  WriterTyped'
<1>1. 0 \in 0..MaxRetries
  BY BoundsAssumption
<1>2. CASE mode[d] # "on"
  BY <1>2 DEF Record, WriterTyped
<1>3. CASE mode[d] = "on" /\ write[d] = None
  BY <1>1, <1>3, IssueWriteTyped DEF Record
<1>4. CASE mode[d] = "on" /\ write[d] # None
  <2>1. armed' \in SUBSET Daemons /\ attempts' \in [Daemons -> 0..MaxRetries]
    BY <1>1, <1>4, RetryTyped DEF Record
  <2>2. write' \in [Daemons -> Writes \cup {None}]
    BY <1>4, WriteFieldTyped DEF Record
  <2> QED BY <1>4, <2>1, <2>2 DEF Record, WriterTyped
<1> QED BY <1>2, <1>3, <1>4

\* The intents that claim and release record.
LEMMA IntentsTyped ==
  /\ ReleaseIntent \in Intents
  /\ \A acq \in BOOLEAN : ClaimIntent(acq) \in Intents
  BY DEF ReleaseIntent, ClaimIntent, Intents

\* The helpers that move a claim call keep its type.
LEMMA CallTyped ==
  ASSUME call \in [Sessions -> CallStates], NEW s \in Sessions
  PROVE  /\ \A p \in Steps : Go(s, p) => call' \in [Sessions -> CallStates]
         /\ \A p \in Steps, f \in Daemons \cup {None}, r \in Rows \cup {None} :
              GoSeen(s, p, f, r) => call' \in [Sessions -> CallStates]
         /\ \A p \in Steps : End(s, p) => call' \in [Sessions -> CallStates]
<1>1. call[s] \in CallStates
  OBVIOUS
<1>2. NewCall \in CallStates
  BY OwnershipAssumption DEF NewCall, CallStates, Steps
<1>3. \A p \in Steps, f \in Daemons \cup {None}, r \in Rows \cup {None} :
        [call[s] EXCEPT !.pc = p, !.seenFile = f, !.seenRow = r] \in CallStates
  BY <1>1 DEF CallStates
<1>4. \A p \in Steps : [NewCall EXCEPT !.pc = p] \in CallStates
  BY <1>2 DEF CallStates
<1>5. ASSUME NEW p \in Steps, NEW f \in Daemons \cup {None}, NEW r \in Rows \cup {None},
             GoSeen(s, p, f, r)
      PROVE  call' \in [Sessions -> CallStates]
  <2> DEFINE c == [call[s] EXCEPT !.pc = p, !.seenFile = f, !.seenRow = r]
  <2>1. call' = [call EXCEPT ![s] = c]
    BY <1>5 DEF GoSeen
  <2>2. c \in CallStates
    BY <1>3
  <2> HIDE DEF c
  <2> QED BY <2>1, <2>2
<1>6. ASSUME NEW p \in Steps, Go(s, p) PROVE call' \in [Sessions -> CallStates]
  <2>1. GoSeen(s, p, None, None)
    BY <1>6 DEF Go, GoSeen
  <2> QED BY <1>5, <2>1
<1>7. \A p \in Steps : End(s, p) => call' \in [Sessions -> CallStates]
  BY <1>4 DEF End
<1> QED BY <1>5, <1>6, <1>7

\* What a call that judges an owner has seen, and the attempts it has left: TypeOK alone is not
\* inductive, because a verdict is noted of the owner that was seen and a lost compare-and-set
\* counts an attempt.
Early == {"new", "assigned", "judgeFile", "acquire", "getRow", "judgeRow", "casRow"}
CallInv ==
  \A s \in Sessions :
     /\ call[s].pc \in {"judgeFile", "judgeOwner"} => call[s].seenFile # None
     /\ call[s].pc \in {"judgeRow", "judgeTable"} => call[s].seenRow # None
     /\ call[s].pc \in Early => call[s].tries < AcquireAttempts
WriteInv == \A d \in Daemons : Stage(d, "judge") => write[d].seen # None

\* A refused claim keeps the types.
LEMMA RefusedTyped ==
  ASSUME TypeOK, NEW s \in Sessions, Refused(s)
  PROVE  WriterTyped' /\ call' \in [Sessions -> CallStates]
<1>1. DaemonOf[s] \in Daemons /\ "rollback" \in Steps
  BY OwnershipAssumption DEF Sessions, Steps, InFlight
<1>2. call' \in [Sessions -> CallStates]
  BY <1>1, CallTyped DEF Refused, TypeOK
<1>3. WriterTyped
  BY DEF TypeOK, MirrorTypeOK, WriterTyped
<1>d. Record(DaemonOf[s], ReleaseIntent, FALSE) \/ UNCHANGED <<queue, intent, armed, attempts, write>>
  BY Zenon DEF Refused, MirrorIdle
<1>4. CASE Record(DaemonOf[s], ReleaseIntent, FALSE)
  BY <1>1, <1>2, <1>3, <1>4, RecordTyped, IntentsTyped
<1>5. CASE UNCHANGED <<queue, intent, armed, attempts, write>>
  BY <1>2, <1>3, <1>5 DEF WriterTyped
<1> QED BY <1>d, <1>4, <1>5

\* A claim decided by the file keeps the types.
LEMMA FileClaimedTyped ==
  ASSUME TypeOK, NEW s \in Sessions, NEW f, FileClaimed(s, f)
  PROVE  WriterTyped' /\ call' \in [Sessions -> CallStates]
<1>1. DaemonOf[s] \in Daemons /\ "publish" \in Steps
  BY OwnershipAssumption DEF Sessions, Steps, InFlight
<1>2. call' \in [Sessions -> CallStates]
  BY <1>1, CallTyped DEF FileClaimed, TypeOK
<1>3. WriterTyped
  BY DEF TypeOK, MirrorTypeOK, WriterTyped
<1>d. \/ Record(DaemonOf[s], ClaimIntent(FALSE), f # DaemonOf[s])
      \/ UNCHANGED <<queue, intent, armed, attempts, write>>
  BY Zenon DEF FileClaimed, MirrorIdle
<1>4. CASE Record(DaemonOf[s], ClaimIntent(FALSE), f # DaemonOf[s])
  <2>1. ClaimIntent(FALSE) \in Intents
    BY IntentsTyped
  <2> QED BY <1>1, <1>2, <1>3, <1>4, <2>1, RecordTyped
<1>5. CASE UNCHANGED <<queue, intent, armed, attempts, write>>
  BY <1>2, <1>3, <1>5 DEF WriterTyped
<1> QED BY <1>d, <1>4, <1>5

\* The withdrawal of a claim keeps the types.
LEMMA WithdrawTyped ==
  ASSUME TypeOK, NEW d \in Daemons, WithdrawClaim(d)
  PROVE  WriterTyped' /\ file' \in Daemons \cup {None} /\ claimed' \in SUBSET Daemons
<1>1. WriterTyped
  BY DEF TypeOK, MirrorTypeOK, WriterTyped
<1>2. file' \in Daemons \cup {None} /\ claimed' \in SUBSET Daemons
  BY DEF WithdrawClaim, TypeOK
<1>3. WriterTyped' 
  <2>1. CASE d \in claimed /\ d \in Mirrored
    BY <1>1, <2>1, RecordTyped, IntentsTyped DEF WithdrawClaim
  <2>2. CASE ~(d \in claimed /\ d \in Mirrored)
    BY <1>1, <2>2 DEF WithdrawClaim, MirrorIdle, WriterTyped
  <2> QED BY <2>1, <2>2
<1> QED BY <1>2, <1>3

-----------------------------------------------------------------------------
(* Every step of a claim call keeps the types. *)

\* Every step of a session's claim call, its assignment and its release keep the types.
LEMMA CallStepTyped ==
  ASSUME TypeOK, CallInv, NEW s \in Sessions, Assign(s) \/ CallStep(s) \/ Release(s)
  PROVE  TypeOK'
<1> DEFINE d == DaemonOf[s]
<1>d. d \in Daemons
  BY OwnershipAssumption DEF Sessions
<1>w. WriterTyped
  BY DEF TypeOK, MirrorTypeOK, WriterTyped
<1>s. s \in Calls \cup {None} /\ call[s] \in CallStates
  BY DEF Sessions, TypeOK
<1>p. {"assigned", "judgeFile", "acquire", "getRow", "judgeRow", "casRow", "winner", "takeFile",
       "judgeOwner", "takeOver", "confirm", "tableRead", "tableOk", "judgeTable", "publish",
       "rollback", "held", "threw", "over"} \subseteq Steps
  BY DEF Steps, InFlight
<1>q. /\ Enqueued(d, s) \in [Daemons -> Seq(Calls \cup {None})]
      /\ Admitted(d, s) => /\ Settled(d) \in [Daemons -> Seq(Calls \cup {None})]
                           /\ SettledThen(d, s) \in [Daemons -> Seq(Calls \cup {None})]
  <2>1. queue \in [Daemons -> Seq(Calls \cup {None})]
    BY <1>w DEF WriterTyped
  <2>2. Admitted(d, s) => queue[d] # <<>>
    BY DEF Admitted
  <2> HIDE DEF d
  <2> QED BY <1>d, <1>s, <2>1, <2>2, QueueTyped
<1> HIDE DEF d
<1>1. CASE Assign(s)
  <2>1. call' \in [Sessions -> CallStates]
    BY <1>1, <1>p, CallTyped DEF Assign, TypeOK
  <2> QED BY <1>1, <1>d, <2>1 DEF Assign, mirrorVars, d, TypeOK, MirrorTypeOK
<1>2. CASE CheckFile(s)
  <2>1. call' \in [Sessions -> CallStates]
    BY <1>2, <1>p, CallTyped DEF CheckFile, FilesDecide, TypeOK
  <2> QED BY <1>2, <2>1 DEF CheckFile, mirrorVars, TypeOK, MirrorTypeOK
<1>3. CASE \E live \in BOOLEAN : JudgeFile(s, live)
  <2>1. WriterTyped' /\ call' \in [Sessions -> CallStates]
    BY <1>3, <1>d, <1>s, <1>w, <1>p, <1>q, CallTyped, RefusedTyped, FileClaimedTyped
       DEF JudgeFile, TypeOK, CallStates, MirrorIdle, WriterTyped, d
  <2>2. lapsed' \in SUBSET Daemons /\ file' \in Daemons \cup {None}
    BY <1>3, <1>s DEF JudgeFile, NoteLapse, TypeOK, MirrorTypeOK, CallStates, At, Rows, CallInv, Sessions
  <2> QED BY <1>3, <2>1, <2>2 DEF JudgeFile, TypeOK, MirrorTypeOK, WriterTyped
<1>4. CASE Acquire(s)
  <2>1. call' \in [Sessions -> CallStates]
    BY <1>4, <1>p, CallTyped DEF Acquire, FilesDecide, TypeOK
  <2>2. queue' \in [Daemons -> Seq(Calls \cup {None})]
    BY <1>4, <1>q, <1>w DEF Acquire, d, WriterTyped
  <2> QED BY <1>4, <2>1, <2>2 DEF Acquire, TypeOK, MirrorTypeOK
<1>5. CASE AcquireThrows(s)
  <2>1. call' \in [Sessions -> CallStates]
    BY <1>5, <1>p, CallTyped DEF AcquireThrows, TypeOK
  <2> QED BY <1>5, <2>1 DEF AcquireThrows, mirrorVars, TypeOK, MirrorTypeOK
<1>6. CASE GetRow(s)
  <2>1. call' \in [Sessions -> CallStates]
    BY <1>6, <1>p, CallTyped DEF GetRow, FilesDecide, TypeOK, MirrorTypeOK
  <2>2. queue' \in [Daemons -> Seq(Calls \cup {None})]
    BY <1>6, <1>q, <1>w DEF GetRow, d, WriterTyped
  <2> QED BY <1>6, <2>1, <2>2 DEF GetRow, TypeOK, MirrorTypeOK
<1>7. CASE \E live \in BOOLEAN : JudgeRow(s, live)
  <2>1. WriterTyped' /\ call' \in [Sessions -> CallStates]
    BY <1>7, <1>d, <1>s, <1>w, <1>p, <1>q, CallTyped, RefusedTyped, FileClaimedTyped
       DEF JudgeRow, TypeOK, CallStates, MirrorIdle, WriterTyped, d
  <2>2. lapsed' \in SUBSET Daemons /\ file' \in Daemons \cup {None}
    BY <1>7, <1>s DEF JudgeRow, NoteLapse, TypeOK, MirrorTypeOK, CallStates, At, Rows, CallInv, Sessions
  <2> QED BY <1>7, <2>1, <2>2 DEF JudgeRow, TypeOK, MirrorTypeOK, WriterTyped
<1>8. CASE \E at \in Stamps : FreshStamp(at) /\ CasRow(s, at)
  <2>1. PICK at \in Stamps : CasRow(s, at)
    BY <1>8
  <2>2. row' \in Rows \cup {None}
    BY <2>1, <1>d DEF CasRow, NewRow, Rows, TypeOK, MirrorTypeOK, d
  <2>3. queue' \in [Daemons -> Seq(Calls \cup {None})]
    BY <2>1, <1>q DEF CasRow, d
  <2>4. call' \in [Sessions -> CallStates]
    <3> DEFINE tried == call[s].tries + 1
    <3>1. CASE StillExpected(call[s].seenRow)
      <4> DEFINE c == [NewCall EXCEPT !.pc = "takeFile", !.byTable = TRUE]
      <4>1. c \in CallStates
        <5>1. NewCall \in CallStates /\ "takeFile" \in Steps
          BY <1>p, OwnershipAssumption DEF NewCall, CallStates, Steps
        <5> QED BY <5>1 DEF CallStates
      <4>2. call' = [call EXCEPT ![s] = c]
        BY <2>1, <3>1 DEF CasRow
      <4> HIDE DEF c
      <4> QED BY <4>1, <4>2 DEF TypeOK
    <3>2. CASE ~StillExpected(call[s].seenRow)
      <4>1. tried \in 0..AcquireAttempts
        BY <1>s, <2>1, OwnershipAssumption DEF CasRow, At, CallStates, CallInv, Early, Sessions
      <4> HIDE DEF tried
      <4>2. call' = [call EXCEPT ![s] =
                       [NewCall EXCEPT !.pc = IF tried < AcquireAttempts THEN "getRow" ELSE "winner",
                                       !.tries = tried]]
        BY <2>1, <3>2 DEF CasRow, tried
      <4> QED BY <1>p, <4>1, <4>2 DEF CallStates, NewCall, TypeOK
    <3> QED BY <3>1, <3>2
  <2>5. WriterTyped'
    <3>1. CASE StillExpected(call[s].seenRow)
      <4>1. 0 \in 0..MaxRetries
        BY BoundsAssumption
      <4>2. armed' \in SUBSET Daemons /\ attempts' \in [Daemons -> 0..MaxRetries]
        BY <1>d, <1>w, <2>1, <3>1, <4>1, RetryTyped DEF CasRow, RecordAcquired, d
      <4>3. write' \in [Daemons -> Writes \cup {None}]
        <5>1. CASE write[d] = None
          BY <1>w, <2>1, <3>1, <5>1 DEF CasRow, RecordAcquired, d, WriterTyped
        <5>2. CASE write[d] # None
          BY <1>d, <1>w, <2>1, <3>1, <5>2, WriteFieldTyped, ZenonT(60) DEF CasRow, RecordAcquired, d
        <5> QED BY <5>1, <5>2
      <4>4. intent' \in [Daemons -> Intents \cup {None}]
        <5>1. ClaimIntent(TRUE) \in Intents
          BY IntentsTyped
        <5>2. intent' = [intent EXCEPT ![d] = ClaimIntent(TRUE)]
          BY <2>1, <3>1 DEF CasRow, RecordAcquired, d
        <5> QED BY <1>w, <5>1, <5>2 DEF WriterTyped
      <4> QED BY <2>3, <4>2, <4>3, <4>4 DEF WriterTyped
    <3>2. CASE ~StillExpected(call[s].seenRow)
      BY <1>w, <2>1, <2>3, <3>2 DEF CasRow, WriterTyped
    <3> QED BY <3>1, <3>2
  <2> QED BY <2>1, <2>2, <2>4, <2>5 DEF CasRow, TypeOK, MirrorTypeOK, WriterTyped
<1>9. CASE Winner(s)
  <2>1. call' \in [Sessions -> CallStates]
    BY <1>9, <1>p, CallTyped DEF Winner, FilesDecide, TypeOK, MirrorTypeOK
  <2>2. queue' \in [Daemons -> Seq(Calls \cup {None})]
    BY <1>9, <1>q, <1>w DEF Winner, d, WriterTyped
  <2> QED BY <1>9, <2>1, <2>2 DEF Winner, TypeOK, MirrorTypeOK
<1>10. CASE StatementThrows(s)
  <2>1. call' \in [Sessions -> CallStates]
    BY <1>10, <1>p, CallTyped DEF StatementThrows, FilesDecide, TypeOK, MirrorTypeOK
  <2>2. queue' \in [Daemons -> Seq(Calls \cup {None})]
    BY <1>10, <1>q, <1>w DEF StatementThrows, d, WriterTyped
  <2> QED BY <1>10, <2>1, <2>2 DEF StatementThrows, TypeOK, MirrorTypeOK
<1>11. CASE TakeFile(s)
  <2>1. WriterTyped' /\ call' \in [Sessions -> CallStates]
    BY <1>11, <1>w, <1>p, CallTyped, FileClaimedTyped DEF TakeFile, TypeOK, MirrorIdle, WriterTyped
  <2> QED BY <1>11, <1>d, <2>1 DEF TakeFile, d, TypeOK, MirrorTypeOK, WriterTyped
<1>12. CASE \E live \in BOOLEAN : JudgeOwner(s, live)
  <2>1. WriterTyped' /\ call' \in [Sessions -> CallStates]
    BY <1>12, <1>d, <1>s, <1>w, <1>p, <1>q, CallTyped, RefusedTyped, FileClaimedTyped
       DEF JudgeOwner, TypeOK, CallStates, MirrorIdle, WriterTyped, d
  <2>2. lapsed' \in SUBSET Daemons /\ file' \in Daemons \cup {None}
    BY <1>12, <1>s DEF JudgeOwner, NoteLapse, TypeOK, MirrorTypeOK, CallStates, At, Rows, CallInv, Sessions
  <2> QED BY <1>12, <2>1, <2>2 DEF JudgeOwner, TypeOK, MirrorTypeOK, WriterTyped
<1>13. CASE TakeOver(s)
  <2>1. WriterTyped' /\ call' \in [Sessions -> CallStates]
    BY <1>13, <1>w, <1>p, CallTyped, RefusedTyped DEF TakeOver, TypeOK, MirrorIdle, WriterTyped
  <2> QED BY <1>13, <1>d, <2>1 DEF TakeOver, d, TypeOK, MirrorTypeOK, WriterTyped
<1>14. CASE Confirm(s)
  <2>1. WriterTyped' /\ call' \in [Sessions -> CallStates]
    BY <1>14, <1>w, <1>p, <1>q, CallTyped, FileClaimedTyped DEF Confirm, TypeOK, WriterTyped, d
  <2> QED BY <1>14, <2>1 DEF Confirm, TypeOK, MirrorTypeOK, WriterTyped
<1>15. CASE \E live \in BOOLEAN : TableRead(s, live)
  <2>1. call' \in [Sessions -> CallStates]
    BY <1>15, <1>p, CallTyped DEF TableRead, FilesDecide, TypeOK, MirrorTypeOK
  <2>2. queue' \in [Daemons -> Seq(Calls \cup {None})]
    BY <1>15, <1>q, <1>w DEF TableRead, d, WriterTyped
  <2> QED BY <1>15, <2>1, <2>2 DEF TableRead, TypeOK, MirrorTypeOK
<1>16. CASE TableOk(s)
  <2>1. WriterTyped' /\ call' \in [Sessions -> CallStates]
    BY <1>16, FileClaimedTyped DEF TableOk
  <2> QED BY <1>16, <2>1 DEF TableOk, TypeOK, MirrorTypeOK, WriterTyped
<1>17. CASE \E live \in BOOLEAN : JudgeTable(s, live)
  <2>1. WriterTyped' /\ call' \in [Sessions -> CallStates]
    BY <1>17, <1>d, <1>s, <1>w, <1>p, <1>q, CallTyped, RefusedTyped, FileClaimedTyped
       DEF JudgeTable, TypeOK, CallStates, MirrorIdle, WriterTyped, d
  <2>2. lapsed' \in SUBSET Daemons /\ file' \in Daemons \cup {None}
    BY <1>17, <1>s DEF JudgeTable, NoteLapse, TypeOK, MirrorTypeOK, CallStates, At, Rows, CallInv, Sessions
  <2> QED BY <1>17, <2>1, <2>2 DEF JudgeTable, TypeOK, MirrorTypeOK, WriterTyped
<1>18. CASE Publish(s)
  <2>1. call' \in [Sessions -> CallStates]
    BY <1>18, <1>p, CallTyped DEF Publish, TypeOK
  <2>2. WriterTyped'
    BY <1>18, <1>d, <1>w, RecordTyped, IntentsTyped DEF Publish, MirrorIdle, WriterTyped, d
  <2>3. file' \in Daemons \cup {None} /\ claimed' \in SUBSET Daemons
    BY <1>18, <1>d DEF Publish, d, TypeOK
  <2>4. UNCHANGED <<row, mode, store, status, lapsed, holder>>
    BY <1>18 DEF Publish
  <2> QED BY <2>1, <2>2, <2>3, <2>4 DEF TypeOK, MirrorTypeOK, WriterTyped
<1>19. CASE Rollback(s)
  <2>1. call' \in [Sessions -> CallStates]
    BY <1>19, <1>p, CallTyped DEF Rollback, TypeOK
  <2>2. WriterTyped' /\ file' \in Daemons \cup {None} /\ claimed' \in SUBSET Daemons
    BY <1>19, <1>d, <1>w, WithdrawTyped DEF Rollback, MirrorIdle, WriterTyped, d, TypeOK
  <2> QED BY <1>19, <1>d, <2>1, <2>2 DEF Rollback, d, TypeOK, MirrorTypeOK, WriterTyped
<1>20. CASE Release(s)
  <2>1. call' \in [Sessions -> CallStates]
    BY <1>20, <1>p, CallTyped DEF Release, TypeOK
  <2>2. WriterTyped' /\ file' \in Daemons \cup {None} /\ claimed' \in SUBSET Daemons
    BY <1>20, <1>d, WithdrawTyped DEF Release, d
  <2> QED BY <1>20, <1>d, <2>1, <2>2 DEF Release, d, TypeOK, MirrorTypeOK, WriterTyped
<1> QED BY <1>1, <1>2, <1>3, <1>4, <1>5, <1>6, <1>7, <1>8, <1>9, <1>10, <1>11, <1>12, <1>13, <1>14, <1>15,
           <1>16, <1>17, <1>18, <1>19, <1>20 DEF CallStep

\* A call that goes on to judge an owner has seen one, and has an attempt left while it needs one.
LEMMA CallInvStep ==
  ASSUME TypeOK, CallInv, NEW s \in Sessions, Assign(s) \/ CallStep(s) \/ Release(s)
  PROVE  CallInv'
<1>t. call \in [Sessions -> CallStates] /\ AcquireAttempts \in Nat \ {0}
  BY OwnershipAssumption DEF TypeOK
<1>c. \A c \in CallStates : c.tries \in 0..AcquireAttempts
  BY DEF CallStates
<1> DEFINE Good(c) == /\ c.pc \in {"judgeFile", "judgeOwner"} => c.seenFile # None
                      /\ c.pc \in {"judgeRow", "judgeTable"} => c.seenRow # None
                      /\ c.pc \in Early => c.tries < AcquireAttempts
<1>g. ASSUME NEW c, call' = [call EXCEPT ![s] = c], Good(c) PROVE CallInv'
  BY <1>g, <1>t DEF CallInv
<1>u. ASSUME UNCHANGED call PROVE CallInv'
  BY <1>u DEF CallInv
<1>o. Good(call[s])
  BY DEF CallInv
<1>e. ASSUME NEW p \in Steps \ {"judgeFile", "judgeOwner", "judgeRow", "judgeTable"}, End(s, p)
      PROVE  CallInv'
  <2> DEFINE c == [NewCall EXCEPT !.pc = p]
  <2>1. call' = [call EXCEPT ![s] = c]
    BY <1>e DEF End
  <2>2. Good(c)
    BY <1>e, <1>t DEF NewCall
  <2> QED BY <1>g, <2>1, <2>2
<1>k. ASSUME NEW p \in Steps, NEW f, NEW r, GoSeen(s, p, f, r),
             p \in {"judgeFile", "judgeOwner"} => f # None,
             p \in {"judgeRow", "judgeTable"} => r # None,
             p \in Early => call[s].pc \in Early
      PROVE  CallInv'
  <2> DEFINE c == [call[s] EXCEPT !.pc = p, !.seenFile = f, !.seenRow = r]
  <2>1. call' = [call EXCEPT ![s] = c]
    BY <1>k DEF GoSeen
  <2>2. call[s] \in CallStates
    BY <1>t
  <2>3. c.pc = p /\ c.seenFile = f /\ c.seenRow = r /\ c.tries = call[s].tries
    BY <2>2 DEF CallStates
  <2>4. Good(c)
    <3> HIDE DEF c
    <3> QED BY <1>k, <1>o, <2>3
  <2> QED BY <1>g, <2>1, <2>4
<1>m. ASSUME NEW p \in Steps, Go(s, p),
             p \notin {"judgeFile", "judgeOwner", "judgeRow", "judgeTable"},
             p \in Early => call[s].pc \in Early
      PROVE  CallInv'
  <2>1. GoSeen(s, p, None, None)
    BY <1>m DEF Go, GoSeen
  <2> QED BY <1>k, <1>m, <2>1
<1>p. {"assigned", "judgeFile", "acquire", "getRow", "judgeRow", "casRow", "winner", "takeFile",
       "judgeOwner", "takeOver", "confirm", "tableRead", "tableOk", "judgeTable", "publish",
       "rollback", "held", "threw", "over"} \subseteq Steps
  BY DEF Steps, InFlight
<1>r. Refused(s) => CallInv'
  BY <1>e, <1>p DEF Refused
<1>f. ASSUME NEW f, FileClaimed(s, f) PROVE CallInv'
  BY <1>f, <1>m, <1>p DEF FileClaimed, Early
<1> HIDE DEF Good
<1>1. CASE Assign(s)
  BY <1>1, <1>e, <1>k, <1>m, <1>p, <1>r, <1>f, <1>u DEF Assign, At, Early, FilesDecide
<1>2. CASE CheckFile(s)
  BY <1>2, <1>e, <1>k, <1>m, <1>p, <1>r, <1>f, <1>u DEF CheckFile, At, Early, FilesDecide
<1>3. CASE Acquire(s)
  BY <1>3, <1>e, <1>k, <1>m, <1>p, <1>r, <1>f, <1>u DEF Acquire, At, Early, FilesDecide
<1>4. CASE AcquireThrows(s)
  BY <1>4, <1>e, <1>k, <1>m, <1>p, <1>r, <1>f, <1>u DEF AcquireThrows, At, Early, FilesDecide
<1>5. CASE GetRow(s)
  BY <1>5, <1>e, <1>k, <1>m, <1>p, <1>r, <1>f, <1>u DEF GetRow, At, Early, FilesDecide
<1>6. CASE Winner(s)
  BY <1>6, <1>e, <1>k, <1>m, <1>p, <1>r, <1>f, <1>u DEF Winner, At, Early, FilesDecide
<1>7. CASE StatementThrows(s)
  BY <1>7, <1>e, <1>k, <1>m, <1>p, <1>r, <1>f, <1>u DEF StatementThrows, At, Early, FilesDecide
<1>8. CASE TakeFile(s)
  BY <1>8, <1>e, <1>k, <1>m, <1>p, <1>r, <1>f, <1>u DEF TakeFile, At, Early, FilesDecide
<1>9. CASE TakeOver(s)
  BY <1>9, <1>e, <1>k, <1>m, <1>p, <1>r, <1>f, <1>u DEF TakeOver, At, Early, FilesDecide
<1>10. CASE Confirm(s)
  BY <1>10, <1>e, <1>k, <1>m, <1>p, <1>r, <1>f, <1>u DEF Confirm, At, Early, FilesDecide
<1>11. CASE TableOk(s)
  BY <1>11, <1>e, <1>k, <1>m, <1>p, <1>r, <1>f, <1>u DEF TableOk, At, Early, FilesDecide
<1>12. CASE Publish(s)
  BY <1>12, <1>e, <1>k, <1>m, <1>p, <1>r, <1>f, <1>u DEF Publish, At, Early, FilesDecide
<1>13. CASE Rollback(s)
  BY <1>13, <1>e, <1>k, <1>m, <1>p, <1>r, <1>f, <1>u DEF Rollback, At, Early, FilesDecide
<1>14. CASE Release(s)
  BY <1>14, <1>e, <1>k, <1>m, <1>p, <1>r, <1>f, <1>u DEF Release, At, Early, FilesDecide
<1>15. CASE \E live \in BOOLEAN : JudgeFile(s, live)
  BY <1>15, <1>e, <1>k, <1>m, <1>p, <1>r, <1>f, <1>u, <1>o DEF JudgeFile, At, Early, Good
<1>16. CASE \E live \in BOOLEAN : JudgeRow(s, live)
  BY <1>16, <1>e, <1>k, <1>m, <1>p, <1>r, <1>f, <1>u, <1>o DEF JudgeRow, At, Early, Good
<1>17. CASE \E live \in BOOLEAN : JudgeOwner(s, live)
  BY <1>17, <1>e, <1>k, <1>m, <1>p, <1>r, <1>f, <1>u, <1>o DEF JudgeOwner, At, Early, Good
<1>18. CASE \E live \in BOOLEAN : JudgeTable(s, live)
  BY <1>18, <1>e, <1>k, <1>m, <1>p, <1>r, <1>f, <1>u, <1>o DEF JudgeTable, At, Early, Good
<1>19. CASE \E live \in BOOLEAN : TableRead(s, live)
  BY <1>19, <1>e, <1>k, <1>m, <1>p, <1>r, <1>f, <1>u, <1>o DEF TableRead, At, Early, Good
<1>20. CASE \E at \in Stamps : FreshStamp(at) /\ CasRow(s, at)
  <2>1. PICK at \in Stamps : CasRow(s, at)
    BY <1>20
  <2>2. CASE StillExpected(call[s].seenRow)
    <3>1. Good([NewCall EXCEPT !.pc = "takeFile", !.byTable = TRUE])
      BY DEF Good, NewCall, Early
    <3>2. call' = [call EXCEPT ![s] = [NewCall EXCEPT !.pc = "takeFile", !.byTable = TRUE]]
      BY <2>1, <2>2 DEF CasRow
    <3> QED BY <1>g, <3>1, <3>2
  <2>3. CASE ~StillExpected(call[s].seenRow)
    <3> DEFINE tried == call[s].tries + 1
               c == [NewCall EXCEPT !.pc = IF tried < AcquireAttempts THEN "getRow" ELSE "winner", !.tries = tried]
    <3>1. Good(c)
      BY DEF Good, NewCall, Early
    <3>2. call' = [call EXCEPT ![s] = c]
      BY <2>1, <2>3 DEF CasRow
    <3> QED BY <1>g, <3>1, <3>2
  <2> QED BY <2>2, <2>3
<1> QED BY <1>1, <1>2, <1>3, <1>4, <1>5, <1>6, <1>7, <1>8, <1>9, <1>10, <1>11, <1>12, <1>13, <1>14, <1>15,
           <1>16, <1>17, <1>18, <1>19, <1>20 DEF CallStep

\* A write just issued has judged nobody yet.
LEMMA IssueWriteInv ==
  ASSUME WriterTyped, WriteInv, NEW d \in Daemons, NEW i \in Intents, NEW used, NEW gone, NEW open,
         IssueWrite(d, i, used, gone, open)
  PROVE  WriteInv'
<1>1. NewWrite(i).stage # "judge" /\ NewWrite(i) \in Writes
  BY NewWriteTyped DEF NewWrite
<1>2. write' = [write EXCEPT ![d] = None] \/ write' = [write EXCEPT ![d] = NewWrite(i)]
  BY DEF IssueWrite
<1> QED BY <1>1, <1>2 DEF WriteInv, Stage, WriterTyped

\* Marking a write in flight as outdated leaves what it has seen.
LEMMA OldFlagInv ==
  ASSUME WriterTyped, WriteInv, NEW d \in Daemons, write[d] # None,
         write' = [write EXCEPT ![d].old = TRUE]
  PROVE  WriteInv'
<1> DEFINE c == [write[d] EXCEPT !.old = TRUE]
<1>1. write[d] \in Writes
  BY DEF WriterTyped
<1>2. c.stage = write[d].stage /\ c.seen = write[d].seen
  BY <1>1 DEF Writes
<1>3. write' = [write EXCEPT ![d] = c]
  OBVIOUS
<1> HIDE DEF c
<1>4. ASSUME NEW e \in Daemons, Stage(e, "judge")' PROVE write'[e].seen # None
  BY <1>2, <1>3, <1>4 DEF WriteInv, Stage, WriterTyped
<1> QED BY <1>4 DEF WriteInv

\* record() keeps what the write in flight has seen.
LEMMA RecordWriteInv ==
  ASSUME WriterTyped, WriteInv, NEW d \in Daemons, NEW i \in Intents, NEW gone, Record(d, i, gone)
  PROVE  WriteInv'
<1>1. CASE mode[d] # "on"
  BY <1>1 DEF Record, WriteInv, Stage
<1>2. CASE mode[d] = "on" /\ write[d] = None
  BY <1>2, IssueWriteInv DEF Record
<1>3. CASE mode[d] = "on" /\ write[d] # None
  BY <1>3, OldFlagInv DEF Record
<1> QED BY <1>1, <1>2, <1>3

\* A claim call's steps keep what its mirror's write has seen.
LEMMA CallStepWriteInv ==
  ASSUME TypeOK, WriteInv, NEW s \in Sessions, Assign(s) \/ CallStep(s) \/ Release(s)
  PROVE  WriteInv'
<1>d. DaemonOf[s] \in Daemons
  BY OwnershipAssumption DEF Sessions
<1>w. WriterTyped
  BY DEF TypeOK, MirrorTypeOK, WriterTyped
<1>u. UNCHANGED write => WriteInv'
  BY DEF WriteInv, Stage
<1>l. \A gone : Record(DaemonOf[s], ReleaseIntent, gone) => WriteInv'
  BY <1>d, <1>w, RecordWriteInv, IntentsTyped
<1>c. \A gone : Record(DaemonOf[s], ClaimIntent(FALSE), gone) => WriteInv'
  <2>1. ClaimIntent(FALSE) \in Intents
    BY IntentsTyped
  <2> QED BY <1>d, <1>w, <2>1, RecordWriteInv
<1>r. Refused(s) => WriteInv'
  BY <1>l, <1>u, Zenon DEF Refused, MirrorIdle
<1>f. \A f : FileClaimed(s, f) => WriteInv'
  BY <1>c, <1>u, Zenon DEF FileClaimed, MirrorIdle
<1>h. WithdrawClaim(DaemonOf[s]) => WriteInv'
  BY <1>l, <1>u DEF WithdrawClaim, MirrorIdle
<1>1. CASE Assign(s)
  BY <1>1, <1>u DEF Assign, mirrorVars
<1>2. CASE CheckFile(s)
  BY <1>2, <1>u DEF CheckFile, mirrorVars
<1>3. CASE Acquire(s)
  BY <1>3, <1>u DEF Acquire
<1>4. CASE AcquireThrows(s)
  BY <1>4, <1>u DEF AcquireThrows, mirrorVars
<1>5. CASE GetRow(s)
  BY <1>5, <1>u DEF GetRow
<1>6. CASE Winner(s)
  BY <1>6, <1>u DEF Winner
<1>7. CASE StatementThrows(s)
  BY <1>7, <1>u DEF StatementThrows
<1>8. CASE TakeFile(s)
  BY <1>8, <1>f, <1>u DEF TakeFile, MirrorIdle
<1>9. CASE TakeOver(s)
  BY <1>9, <1>r, <1>u DEF TakeOver, MirrorIdle
<1>10. CASE Confirm(s)
  BY <1>10, <1>f, <1>u DEF Confirm
<1>11. CASE TableOk(s)
  BY <1>11, <1>f DEF TableOk
<1>12. CASE Publish(s)
  BY <1>12, <1>l, <1>u DEF Publish, MirrorIdle
<1>13. CASE Rollback(s)
  BY <1>13, <1>h, <1>u DEF Rollback, MirrorIdle
<1>14. CASE Release(s)
  BY <1>14, <1>h DEF Release
<1>15. CASE \E live \in BOOLEAN : JudgeFile(s, live)
  BY <1>15, <1>r, <1>u DEF JudgeFile, MirrorIdle
<1>16. CASE \E live \in BOOLEAN : JudgeRow(s, live)
  BY <1>16, <1>r, <1>u DEF JudgeRow, MirrorIdle
<1>17. CASE \E live \in BOOLEAN : JudgeOwner(s, live)
  BY <1>17, <1>r, <1>u DEF JudgeOwner, MirrorIdle
<1>18. CASE \E live \in BOOLEAN : JudgeTable(s, live)
  BY <1>18, <1>r, <1>f DEF JudgeTable, MirrorIdle
<1>19. CASE \E live \in BOOLEAN : TableRead(s, live)
  BY <1>19, <1>u DEF TableRead, MirrorIdle
<1>20. CASE \E at \in Stamps : FreshStamp(at) /\ CasRow(s, at)
  <2>1. PICK at \in Stamps : CasRow(s, at)
    BY <1>20
  <2>2. UNCHANGED write \/ (write[DaemonOf[s]] # None /\ write' = [write EXCEPT ![DaemonOf[s]].old = TRUE])
    BY <2>1 DEF CasRow, RecordAcquired
  <2> QED BY <1>d, <1>u, <1>w, <2>2, OldFlagInv
<1> QED BY <1>1, <1>2, <1>3, <1>4, <1>5, <1>6, <1>7, <1>8, <1>9, <1>10, <1>11, <1>12, <1>13, <1>14, <1>15,
           <1>16, <1>17, <1>18, <1>19, <1>20 DEF CallStep

-----------------------------------------------------------------------------
(* So does every step of a mirror, of a registry, and of a daemon that fails or shuts down. *)

TypeInv == TypeOK /\ CallInv /\ WriteInv

\* The verdict on the row a write has read keeps TypeInv.
LEMMA JudgeForWriteTyped ==
  ASSUME TypeInv, NEW d \in Daemons, NEW live \in BOOLEAN, JudgeForWrite(d, live)
  PROVE  TypeInv'
<1>w. WriterTyped
  BY DEF TypeInv, TypeOK, MirrorTypeOK, WriterTyped
<1>1. write[d] \in Writes /\ write[d].seen \in Rows
  BY <1>w DEF JudgeForWrite, Stage, WriterTyped, TypeInv, WriteInv, Writes
<1>2. lapsed' \in SUBSET Daemons
  BY <1>1 DEF JudgeForWrite, NoteLapse, TypeInv, TypeOK, Rows
<1>3. queue' \in [Daemons -> Seq(Calls \cup {None})]
  BY <1>w, QueueTyped DEF JudgeForWrite, WriteJudge, WriterTyped
<1>4. PICK st \in {"failed", "put"} : write' = [write EXCEPT ![d].stage = st]
  BY DEF JudgeForWrite, WriteJudge, GoTo
<1>5. write' \in [Daemons -> Writes \cup {None}]
  BY <1>1, <1>4, <1>w DEF Writes, Stages, WriterTyped
<1>6. WriteInv'
  BY <1>1, <1>4, <1>w DEF WriteInv, Stage, Writes, WriterTyped, TypeInv
<1>7. UNCHANGED <<row, mode, store, intent, armed, attempts, status, holder, file, claimed, call>>
  BY DEF JudgeForWrite, WriteJudge
<1> QED BY <1>2, <1>3, <1>5, <1>6, <1>7 DEF TypeInv, TypeOK, MirrorTypeOK, CallInv

\* A write that moves on to another stage than the judging of a row keeps its type.
LEMMA WriteStageTyped ==
  ASSUME WriterTyped, WriteInv, NEW d \in Daemons, write[d] # None, NEW st \in Stages \ {"judge"},
         GoTo(d, st)
  PROVE  write' \in [Daemons -> Writes \cup {None}] /\ WriteInv'
<1>1. write[d] \in Writes /\ write' = [write EXCEPT ![d].stage = st]
  BY DEF WriterTyped, GoTo
<1> QED BY <1>1 DEF WriteInv, Stage, Writes, WriterTyped

\* dropIntent keeps the types.
LEMMA DropTyped ==
  ASSUME WriterTyped, NEW d \in Daemons,
         Drop(d) \/ UNCHANGED <<intent, armed, attempts>>
  PROVE  /\ intent' \in [Daemons -> Intents \cup {None}]
         /\ armed' \in SUBSET Daemons /\ attempts' \in [Daemons -> 0..MaxRetries]
<1>1. 0 \in 0..MaxRetries
  BY BoundsAssumption
<1>2. \/ UNCHANGED <<intent, armed, attempts>>
      \/ intent' = [intent EXCEPT ![d] = None] /\ Unarmed(d, 0)
  BY Zenon DEF Drop
<1>3. CASE UNCHANGED <<intent, armed, attempts>>
  BY <1>3 DEF WriterTyped
<1>4. CASE intent' = [intent EXCEPT ![d] = None] /\ Unarmed(d, 0)
  BY <1>1, <1>4, RetryTyped DEF WriterTyped
<1> QED BY <1>2, <1>3, <1>4

\* Every stage of the mirror's write keeps the types.
LEMMA MirrorWriteTyped ==
  ASSUME WriterTyped, WriteInv, row \in Rows \cup {None}, NEW d \in Daemons, NEW gone,
         \/ WriteDelete(d) \/ WriteGet(d) \/ WriteThrows(d)
         \/ \E at \in Stamps : WritePut(d, at)
         \/ WriteSettles(d, gone) \/ RetryFires(d, gone)
  PROVE  WriterTyped' /\ WriteInv' /\ row' \in Rows \cup {None}
<1>q. Admitted(d, None) => /\ Settled(d) \in [Daemons -> Seq(Calls \cup {None})]
                           /\ SettledThen(d, None) \in [Daemons -> Seq(Calls \cup {None})]
  <2>1. queue \in [Daemons -> Seq(Calls \cup {None})] /\ (Admitted(d, None) => queue[d] # <<>>)
    BY DEF WriterTyped, Admitted
  <2> QED BY <2>1, QueueTyped
<1>s. {"ok", "failed", "put"} \subseteq Stages \ {"judge"} /\ "judge" \in Stages
  BY DEF Stages
<1>z. 0 \in 0..MaxRetries /\ attempts[d] \in 0..MaxRetries
  BY BoundsAssumption DEF WriterTyped
<1>1. CASE WriteDelete(d)
  <2>1. write' \in [Daemons -> Writes \cup {None}] /\ WriteInv'
    BY <1>1, <1>s, WriteStageTyped DEF WriteDelete, Stage
  <2>2. row' \in Rows \cup {None} /\ queue' \in [Daemons -> Seq(Calls \cup {None})]
    BY <1>1, <1>q DEF WriteDelete, DeleteOwn
  <2> QED BY <1>1, <2>1, <2>2 DEF WriteDelete, WriterTyped
<1>2. CASE WriteGet(d)
  <2>1. /\ intent' \in [Daemons -> Intents \cup {None}]
        /\ armed' \in SUBSET Daemons /\ attempts' \in [Daemons -> 0..MaxRetries]
    <3>1. Drop(d) \/ UNCHANGED <<intent, armed, attempts>>
      BY <1>2, Zenon DEF WriteGet
    <3> QED BY <3>1, DropTyped
  <2>2. queue' \in [Daemons -> Seq(Calls \cup {None})] /\ UNCHANGED row
    BY <1>2, <1>q DEF WriteGet
  <2>3. write[d] # None /\ write[d] \in Writes
    BY <1>2 DEF WriteGet, Stage, WriterTyped
  <2>4. \/ GoTo(d, "ok")
        \/ row # None /\ write' = [write EXCEPT ![d].stage = "judge", ![d].seen = row]
        \/ write' = [write EXCEPT ![d].stage = "put", ![d].seen = row]
    BY <1>2, Zenon DEF WriteGet
  <2>5. CASE GoTo(d, "ok")
    BY <1>2, <1>s, <2>1, <2>2, <2>3, <2>5, WriteStageTyped DEF WriterTyped
  <2>6. ASSUME NEW st \in {"judge", "put"}, st = "judge" => row # None,
               write' = [write EXCEPT ![d].stage = st, ![d].seen = row]
        PROVE  write' \in [Daemons -> Writes \cup {None}] /\ WriteInv'
    <3> DEFINE c == [write[d] EXCEPT !.stage = st, !.seen = row]
    <3>1. c \in Writes /\ c.stage = st /\ c.seen = row
      BY <1>s, <2>3, <2>6 DEF Writes
    <3>2. write' = [write EXCEPT ![d] = c]
      BY <2>6
    <3> HIDE DEF c
    <3>3. write' \in [Daemons -> Writes \cup {None}]
      BY <3>1, <3>2 DEF WriterTyped
    <3>4. ASSUME NEW e \in Daemons, Stage(e, "judge")' PROVE write'[e].seen # None
      BY <2>6, <3>1, <3>2, <3>4 DEF WriteInv, Stage, WriterTyped
    <3> QED BY <3>3, <3>4 DEF WriteInv
  <2> QED BY <2>1, <2>2, <2>4, <2>5, <2>6 DEF WriterTyped
<1>3. CASE WriteThrows(d)
  <2>1. write' \in [Daemons -> Writes \cup {None}] /\ WriteInv'
    BY <1>3, <1>s, WriteStageTyped DEF WriteThrows
  <2> QED BY <1>3, <1>q, <2>1 DEF WriteThrows, WriterTyped
<1>4. CASE \E at \in Stamps : WritePut(d, at)
  <2>1. PICK at \in Stamps : WritePut(d, at)
    BY <1>4
  <2>2. /\ intent' \in [Daemons -> Intents \cup {None}]
        /\ armed' \in SUBSET Daemons /\ attempts' \in [Daemons -> 0..MaxRetries]
    <3>1. Drop(d) \/ UNCHANGED <<intent, armed, attempts>>
      BY <2>1, Zenon DEF WritePut
    <3> QED BY <3>1, DropTyped
  <2>3. write' \in [Daemons -> Writes \cup {None}] /\ WriteInv'
    <3>1. write[d] # None /\ (GoTo(d, "ok") \/ GoTo(d, "failed"))
      BY <2>1, Zenon DEF WritePut, Stage
    <3> QED BY <1>s, <3>1, WriteStageTyped
  <2>4. row' \in Rows \cup {None} /\ queue' \in [Daemons -> Seq(Calls \cup {None})]
    BY <2>1, <1>q DEF WritePut, NewRow, Rows
  <2> QED BY <2>2, <2>3, <2>4 DEF WriterTyped
<1>5. CASE WriteSettles(d, gone)
  <2>r. UNCHANGED row
    BY <1>5 DEF WriteSettles
  <2>1. CASE write' = [write EXCEPT ![d] = None] /\ UNCHANGED <<queue, intent, armed, attempts>>
    BY <2>1, <2>r DEF WriterTyped, WriteInv, Stage
  <2>2. CASE intent[d] # None /\ IssueWrite(d, intent[d], attempts[d], gone, d \in store)
    <3>1. intent[d] \in Intents
      BY <2>2 DEF WriterTyped
    <3> QED BY <1>z, <2>2, <2>r, <3>1, IssueWriteTyped, IssueWriteInv
  <2>3. CASE /\ intent[d] # None /\ write' = [write EXCEPT ![d] = None]
             /\ intent' = [intent EXCEPT ![d] = Confirmed(intent[d])]
             /\ UNCHANGED queue /\ Unarmed(d, 0)
    <3>1. Confirmed(intent[d]) \in Intents \cup {None}
      BY <2>3, ZenonT(60) DEF Confirmed, Intents, WriterTyped
    <3>2. armed' \in SUBSET Daemons /\ attempts' \in [Daemons -> 0..MaxRetries]
      BY <1>z, <2>3, RetryTyped
    <3> QED BY <2>3, <2>r, <3>1, <3>2 DEF WriterTyped, WriteInv, Stage
  <2>4. CASE /\ write' = [write EXCEPT ![d] = None] /\ UNCHANGED <<queue, intent>>
             /\ ScheduleRetry(d, attempts[d])
    <3>1. armed' \in SUBSET Daemons /\ attempts' \in [Daemons -> 0..MaxRetries]
      BY <1>z, <2>4, RetryTyped
    <3> QED BY <2>4, <2>r, <3>1 DEF WriterTyped, WriteInv, Stage
  <2> QED BY <1>5, <2>1, <2>2, <2>3, <2>4, Zenon DEF WriteSettles
<1>6. CASE RetryFires(d, gone)
  <2>1. CASE intent[d] # None /\ IssueWrite(d, intent[d], attempts[d], gone, d \in store)
    <3>1. intent[d] \in Intents /\ UNCHANGED row
      BY <1>6, <2>1 DEF WriterTyped, RetryFires
    <3> QED BY <1>z, <2>1, <3>1, IssueWriteTyped, IssueWriteInv
  <2>2. CASE armed' = armed \ {d} /\ UNCHANGED <<queue, intent, write, attempts>>
    BY <1>6, <2>2 DEF WriterTyped, WriteInv, Stage, RetryFires
  <2> QED BY <1>6, <2>1, <2>2, Zenon DEF RetryFires
<1> QED BY <1>1, <1>2, <1>3, <1>4, <1>5, <1>6

\* Every step of a mirror keeps TypeInv.
LEMMA MirrorStepTyped ==
  ASSUME TypeInv, NEW d \in Daemons, MirrorStep(d)
  PROVE  TypeInv'
<1>w. WriterTyped /\ WriteInv /\ row \in Rows \cup {None}
  BY DEF TypeInv, TypeOK, MirrorTypeOK, WriterTyped
<1>1. CASE \E live \in BOOLEAN : JudgeForWrite(d, live)
  BY <1>1, JudgeForWriteTyped
<1>2. CASE /\ \/ WriteDelete(d) \/ WriteGet(d) \/ WriteThrows(d)
              \/ \E at \in Stamps : FreshStamp(at) /\ WritePut(d, at)
              \/ WriteSettles(d, Gone(d)) \/ RetryFires(d, Gone(d))
           /\ UNCHANGED ownershipVars
  <2>1. WriterTyped' /\ WriteInv' /\ row' \in Rows \cup {None}
    BY <1>w, <1>2, MirrorWriteTyped
  <2>2. UNCHANGED <<mode, store>>
    BY <1>2 DEF WriteDelete, WriteGet, WriteThrows, WritePut, WriteSettles, RetryFires
  <2> QED BY <1>2, <2>1, <2>2 DEF TypeInv, TypeOK, MirrorTypeOK, WriterTyped, CallInv, ownershipVars
<1> QED BY <1>1, <1>2 DEF MirrorStep

\* The opening of the registry, a crash, a wedge and a shutdown keep TypeInv.
LEMMA LifecycleTyped ==
  ASSUME TypeInv, NEW d \in Daemons,
         Registry(d) \/ Crash(d) \/ Wedge(d) \/ Unwedge(d) \/ ShutdownStep(d) \/ Exit(d)
  PROVE  TypeInv'
<1>w. WriterTyped
  BY DEF TypeInv, TypeOK, MirrorTypeOK, WriterTyped
<1>z. 0 \in 0..MaxRetries
  BY BoundsAssumption
<1>n. <<>> \in Seq(Calls \cup {None})
  OBVIOUS
<1>o. ASSUME UNCHANGED ownershipVars, MirrorTypeOK', WriteInv' PROVE TypeInv'
  BY <1>o DEF TypeInv, TypeOK, CallInv, ownershipVars
<1>1. CASE Registry(d)
  <2>1. CASE RegistryOpens(d, Gone(d))
    <3>1. WriterTyped' /\ WriteInv'
      <4>1. CASE intent[d] = None
        BY <1>w, <2>1, <4>1 DEF RegistryOpens, WriterTyped, TypeInv, WriteInv, Stage
      <4>2. CASE intent[d] # None
        <5>1. [intent[d] EXCEPT !.synced = FALSE] \in Intents
          BY <1>w, <4>2 DEF WriterTyped, Intents
        <5> QED BY <1>w, <1>z, <2>1, <4>2, <5>1, IssueWriteTyped, IssueWriteInv
                DEF RegistryOpens, TypeInv
      <4> QED BY <4>1, <4>2
    <3> QED BY <1>1, <1>o, <2>1, <3>1
            DEF Registry, RegistryOpens, MirrorTypeOK, WriterTyped, TypeInv, TypeOK
  <2>2. CASE Skip(d)
    <3>1. armed' \in SUBSET Daemons /\ attempts' \in [Daemons -> 0..MaxRetries]
      BY <1>w, <1>z, <2>2, RetryTyped DEF Skip
    <3> QED BY <1>1, <1>o, <2>2, <3>1
            DEF Registry, Skip, Modes, MirrorTypeOK, TypeInv, TypeOK, WriteInv, Stage
  <2> QED BY <1>1, <2>1, <2>2 DEF Registry
<1>2. CASE ShutdownStep(d)
  BY <1>2, <1>o DEF ShutdownStep, Dispose, WithdrawOwned, DeleteOwn, Modes, MirrorTypeOK, TypeInv,
     TypeOK, WriteInv, Stage
<1>3. CASE Wedge(d) \/ Unwedge(d)
  BY <1>3 DEF Wedge, Unwedge, mirrorVars, TypeInv, TypeOK, MirrorTypeOK, CallInv, WriteInv, Stage
<1>4. CASE Crash(d) \/ Exit(d)
  <2>1. MirrorDies(d) /\ Abandoned(d)
    BY <1>4 DEF Crash, Exit
  <2>2. armed' \in SUBSET Daemons /\ attempts' \in [Daemons -> 0..MaxRetries]
    BY <1>w, <1>z, <2>1, RetryTyped DEF MirrorDies
  <2>3. MirrorTypeOK' /\ WriteInv'
    BY <1>n, <1>w, <2>1, <2>2
       DEF MirrorDies, MirrorTypeOK, TypeInv, TypeOK, WriterTyped, WriteInv, Stage
  <2>4. call' \in [Sessions -> CallStates] /\ CallInv'
    <3> DEFINE c == [NewCall EXCEPT !.pc = "over"]
    <3>1. NewCall \in CallStates /\ "over" \in Steps
      BY OwnershipAssumption DEF NewCall, CallStates, Steps
    <3>2. c \in CallStates /\ c.pc = "over"
      BY <3>1 DEF CallStates, NewCall
    <3>3. call' = [s \in Sessions |-> IF DaemonOf[s] = d THEN c ELSE call[s]]
      BY <2>1 DEF Abandoned
    <3> HIDE DEF c
    <3>4. call' \in [Sessions -> CallStates]
      BY <3>2, <3>3 DEF TypeInv, TypeOK
    <3> QED BY <3>2, <3>3, <3>4 DEF CallInv, TypeInv, TypeOK, Early
  <2>5. /\ status' \in [Daemons -> {"up", "wedged", "dead"}]
        /\ holder' \in [Daemons -> Sessions \cup {None}] /\ claimed' \in SUBSET Daemons
        /\ file' \in Daemons \cup {None} /\ UNCHANGED lapsed
    BY <1>4 DEF Crash, Exit, TypeInv, TypeOK
  <2> QED BY <2>3, <2>4, <2>5 DEF TypeInv, TypeOK
<1> QED BY <1>1, <1>2, <1>3, <1>4

\* TypeInv holds at the start.
LEMMA TypeInvInit == Init => TypeInv
<1> SUFFICES ASSUME Init PROVE TypeInv
  OBVIOUS
<1>1. MirrorTypeOK
  BY BoundsAssumption DEF Init, MirrorInit, MirrorTypeOK, Modes
<1>2. NewCall \in CallStates /\ NewCall.pc = "new" /\ NewCall.tries = 0
  BY OwnershipAssumption DEF NewCall, CallStates, Steps
<1>3. TypeOK
  BY <1>1, <1>2 DEF Init, TypeOK
<1>4. CallInv /\ WriteInv
  BY <1>2, OwnershipAssumption DEF Init, MirrorInit, CallInv, WriteInv, Stage, Early
<1> QED BY <1>3, <1>4 DEF TypeInv

\* TypeInv is inductive.
LEMMA TypeInvStep == TypeInv /\ [Next]_vars => TypeInv'
<1> SUFFICES ASSUME TypeInv, [Next]_vars PROVE TypeInv'
  OBVIOUS
<1>1. ASSUME NEW s \in Sessions, Assign(s) \/ CallStep(s) \/ Release(s) PROVE TypeInv'
  BY <1>1, CallStepTyped, CallInvStep, CallStepWriteInv DEF TypeInv
<1>2. ASSUME NEW d \in Daemons, MirrorStep(d) PROVE TypeInv'
  BY <1>2, MirrorStepTyped
<1>3. ASSUME NEW d \in Daemons,
             Registry(d) \/ Crash(d) \/ Wedge(d) \/ Unwedge(d) \/ ShutdownStep(d) \/ Exit(d)
      PROVE  TypeInv'
  BY <1>3, LifecycleTyped
<1>4. CASE UNCHANGED vars
  BY <1>4 DEF vars, mirrorVars, ownershipVars, TypeInv, TypeOK, MirrorTypeOK, CallInv, WriteInv, Stage
<1> QED BY <1>1, <1>2, <1>3, <1>4 DEF Next

\* The types hold in every reachable state: in particular a mirror never uses more retries than
\* retryDelaysMs has, and a claim call never exceeds ACQUIRE_ATTEMPTS.
THEOREM TypeCorrect == Spec => []TypeOK
<1>1. Init => TypeInv
  BY TypeInvInit
<1>2. TypeInv /\ [Next]_vars => TypeInv'
  BY TypeInvStep
<1>3. TypeInv => TypeOK
  BY DEF TypeInv
<1> QED BY <1>1, <1>2, <1>3, PTL DEF Spec

-----------------------------------------------------------------------------
(* A claim never outlives its assignment.  NoStrandedClaim is not inductive: a file that    *)
(* names a daemon is excused by any claim call under way, but only a call that has taken    *)
(* the file gives it back or publishes it.                                                  *)

Taken == {"confirm", "tableRead", "tableOk", "judgeTable", "publish"}

\* a claim file names a running daemon that published it, or has a call that will decide on it
FileAccounted ==
  \A d \in Daemons : status[d] # "dead" /\ file = d =>
     d \in claimed \/ \E s \in Sessions : DaemonOf[s] = d /\ call[s].pc \in Taken

\* what is published is held by a session
ClaimedHeld == \A d \in claimed : holder[d] # None

ClaimInv == TypeOK /\ FileAccounted /\ ClaimedHeld

\* Where a claim call is after the helpers that move it.
LEMMA PcAfter ==
  ASSUME TypeOK, NEW s \in Sessions
  PROVE  /\ \A p : Go(s, p) => /\ call'[s].pc = p
                               /\ \A t \in Sessions : t # s => call'[t] = call[t]
         /\ \A p, f, r : GoSeen(s, p, f, r) => /\ call'[s].pc = p
                                               /\ \A t \in Sessions : t # s => call'[t] = call[t]
         /\ \A p : End(s, p) => /\ call'[s].pc = p
                                /\ \A t \in Sessions : t # s => call'[t] = call[t]
<1>1. call \in [Sessions -> CallStates] /\ call[s] \in CallStates
  BY DEF TypeOK
<1>2. ASSUME NEW p, NEW f, NEW r, GoSeen(s, p, f, r)
      PROVE  call'[s].pc = p /\ \A t \in Sessions : t # s => call'[t] = call[t]
  BY <1>1, <1>2 DEF GoSeen, CallStates
<1>3. ASSUME NEW p, Go(s, p)
      PROVE  call'[s].pc = p /\ \A t \in Sessions : t # s => call'[t] = call[t]
  BY <1>1, <1>3 DEF Go, CallStates
<1>4. ASSUME NEW p, End(s, p)
      PROVE  call'[s].pc = p /\ \A t \in Sessions : t # s => call'[t] = call[t]
  BY <1>1, <1>4 DEF End, NewCall
<1> QED BY <1>2, <1>3, <1>4

\* Every step of a session's claim call, its assignment and its release keep ClaimInv.
LEMMA ClaimCallStep ==
  ASSUME ClaimInv, NEW s \in Sessions, Assign(s) \/ CallStep(s) \/ Release(s)
  PROVE  FileAccounted' /\ ClaimedHeld'
<1> DEFINE d == DaemonOf[s]
           Others == \A t \in Sessions : t # s => call'[t] = call[t]
<1>d. d \in Daemons /\ d # None /\ s # None
  BY OwnershipAssumption, NoneAssumption DEF Sessions
<1>t. TypeOK
  BY DEF ClaimInv
<1>h. holder \in [Daemons -> Sessions \cup {None}]
  BY <1>t DEF TypeOK
\* a step that leaves files, publications and bindings alone, and keeps a taken file's call going
<1>k. ASSUME UNCHANGED <<status, holder, file, claimed>>, Others,
             call[s].pc \in Taken => call'[s].pc \in Taken
      PROVE  FileAccounted' /\ ClaimedHeld'
  <2>1. ClaimedHeld'
    BY <1>k DEF ClaimInv, ClaimedHeld
  <2>2. ASSUME NEW e \in Daemons, status[e] # "dead", file = e, e \notin claimed
        PROVE  \E t \in Sessions : DaemonOf[t] = e /\ call'[t].pc \in Taken
    <3>1. PICK t \in Sessions : DaemonOf[t] = e /\ call[t].pc \in Taken
      BY <2>2 DEF ClaimInv, FileAccounted
    <3> QED BY <1>k, <3>1
  <2> QED BY <1>k, <2>1, <2>2 DEF FileAccounted
\* a step that takes the file for its daemon
<1>f. ASSUME UNCHANGED <<status, holder, claimed>>, file' = d, call'[s].pc \in Taken
      PROVE  FileAccounted' /\ ClaimedHeld'
  BY <1>f DEF FileAccounted, ClaimedHeld, ClaimInv
\* a step that gives back the file of its daemon, and withdraws its publication with it
<1>g. ASSUME UNCHANGED status, Others, file' = (IF file = d THEN None ELSE file),
             claimed \ {d} \subseteq claimed', claimed' \subseteq claimed,
             \A e \in claimed' : holder'[e] = holder[e]
      PROVE  FileAccounted' /\ ClaimedHeld'
  <2>1. ClaimedHeld'
    BY <1>g DEF ClaimInv, ClaimedHeld
  <2>2. ASSUME NEW e \in Daemons, status[e] # "dead", file' = e, e \notin claimed'
        PROVE  \E t \in Sessions : DaemonOf[t] = e /\ call'[t].pc \in Taken
    <3>1. e # d /\ file = e /\ e \notin claimed
      BY <1>d, <1>g, <2>2, NoneAssumption
    <3>2. PICK t \in Sessions : DaemonOf[t] = e /\ call[t].pc \in Taken
      BY <2>2, <3>1 DEF ClaimInv, FileAccounted
    <3> QED BY <1>g, <3>1, <3>2
  <2> QED BY <1>g, <2>1, <2>2 DEF FileAccounted
<1> HIDE DEF d, Others
<1>1. CASE CheckFile(s)
  BY <1>1, <1>t, <1>k, PcAfter DEF CheckFile, At, FilesDecide, FileClaimed, Taken, Others
<1>2. CASE Acquire(s)
  BY <1>2, <1>t, <1>k, PcAfter DEF Acquire, At, FilesDecide, FileClaimed, Taken, Others
<1>3. CASE AcquireThrows(s)
  BY <1>3, <1>t, <1>k, PcAfter DEF AcquireThrows, At, FilesDecide, FileClaimed, Taken, Others
<1>4. CASE GetRow(s)
  BY <1>4, <1>t, <1>k, PcAfter DEF GetRow, At, FilesDecide, FileClaimed, Taken, Others
<1>5. CASE Winner(s)
  BY <1>5, <1>t, <1>k, PcAfter DEF Winner, At, FilesDecide, FileClaimed, Taken, Others
<1>6. CASE StatementThrows(s)
  BY <1>6, <1>t, <1>k, PcAfter DEF StatementThrows, At, FilesDecide, FileClaimed, Taken, Others
<1>7. CASE Confirm(s)
  BY <1>7, <1>t, <1>k, PcAfter DEF Confirm, At, FilesDecide, FileClaimed, Taken, Others
<1>8. CASE TableOk(s)
  BY <1>8, <1>t, <1>k, PcAfter DEF TableOk, At, FilesDecide, FileClaimed, Taken, Others
<1>9. CASE \E live \in BOOLEAN : JudgeFile(s, live)
  BY <1>9, <1>t, <1>k, PcAfter DEF JudgeFile, At, Refused, Taken, Others
<1>10. CASE \E live \in BOOLEAN : JudgeRow(s, live)
  BY <1>10, <1>t, <1>k, PcAfter DEF JudgeRow, At, Refused, Taken, Others
<1>11. CASE \E live \in BOOLEAN : JudgeOwner(s, live)
  BY <1>11, <1>t, <1>k, PcAfter DEF JudgeOwner, At, Refused, Taken, Others
<1>12. CASE \E live \in BOOLEAN : TableRead(s, live)
  BY <1>12, <1>t, <1>k, PcAfter DEF TableRead, At, Refused, Taken, Others
<1>13. CASE \E at \in Stamps : FreshStamp(at) /\ CasRow(s, at)
  <2>1. PICK at \in Stamps : CasRow(s, at)
    BY <1>13
  <2>2. call \in [Sessions -> CallStates]
    BY <1>t DEF TypeOK
  <2>3. Others
    BY <2>1, <2>2 DEF CasRow, Others
  <2> QED BY <1>k, <2>1, <2>3 DEF CasRow, At, Taken
<1>14. CASE Assign(s)
  <2>1. Others /\ call[s].pc \notin Taken
    BY <1>14, <1>t, PcAfter DEF Assign, At, Taken, Others
  <2>2. ClaimedHeld'
    BY <1>14, <1>d, <1>h DEF Assign, ClaimInv, ClaimedHeld, TypeOK, d
  <2>3. ASSUME NEW e \in Daemons, status[e] # "dead", file = e, e \notin claimed
        PROVE  \E t \in Sessions : DaemonOf[t] = e /\ call'[t].pc \in Taken
    <3>1. PICK t \in Sessions : DaemonOf[t] = e /\ call[t].pc \in Taken
      BY <2>3 DEF ClaimInv, FileAccounted
    <3> QED BY <2>1, <3>1 DEF Others
  <2> QED BY <1>14, <2>2, <2>3 DEF Assign, FileAccounted
<1>15. CASE TakeFile(s)
  <2>1. CASE d \in Writable /\ file = None
    BY <1>15, <1>t, <1>f, <2>1, PcAfter DEF TakeFile, Taken, d
  <2>2. CASE ~(d \in Writable /\ file = None)
    BY <1>15, <1>t, <1>k, <2>2, PcAfter DEF TakeFile, At, FileClaimed, Taken, Others, d
  <2> QED BY <2>1, <2>2
<1>16. CASE TakeOver(s)
  <2>1. CASE file = call[s].seenFile
    BY <1>16, <1>t, <1>f, <2>1, PcAfter DEF TakeOver, Taken, d
  <2>2. CASE file # call[s].seenFile
    BY <1>16, <1>t, <1>k, <2>2, PcAfter DEF TakeOver, At, Refused, Taken, Others
  <2> QED BY <2>1, <2>2
<1>17. CASE \E live \in BOOLEAN : JudgeTable(s, live)
  <2>1. CASE JudgeTable(s, TRUE)
    <3>1. Others /\ file' = (IF file = d THEN None ELSE file) /\ UNCHANGED <<status, holder, claimed>>
      BY <1>t, <2>1, PcAfter DEF JudgeTable, Refused, Others, d
    <3>2. claimed \ {d} \subseteq claimed' /\ claimed' \subseteq claimed
      BY <3>1
    <3> QED BY <1>g, <3>1, <3>2
  <2>2. CASE JudgeTable(s, FALSE)
    BY <1>t, <1>k, <2>2, PcAfter DEF JudgeTable, FileClaimed, Taken, Others
  <2> QED BY <1>17, <2>1, <2>2
<1>18. CASE Publish(s)
  <2>1. Others /\ UNCHANGED <<status, holder>>
    BY <1>18, <1>t, PcAfter DEF Publish, Others
  <2>2. CASE holder[d] = None
    <3>1. /\ claimed' = claimed \ {d}
          /\ file' = IF file = d THEN None ELSE file
      BY <1>18, <2>2 DEF Publish, d
    <3> QED BY <1>g, <2>1, <3>1
  <2>3. CASE holder[d] # None
    <3>1. claimed' = claimed \cup {d} /\ file' = file
      BY <1>18, <2>3 DEF Publish, d
    <3>2. ClaimedHeld'
      BY <2>1, <2>3, <3>1 DEF ClaimInv, ClaimedHeld
    <3>3. ASSUME NEW e \in Daemons, status[e] # "dead", file = e, e \notin claimed'
          PROVE  \E t \in Sessions : DaemonOf[t] = e /\ call'[t].pc \in Taken
      <4>1. PICK t \in Sessions : DaemonOf[t] = e /\ call[t].pc \in Taken
        BY <3>1, <3>3 DEF ClaimInv, FileAccounted
      <4>2. t # s
        BY <3>1, <3>3, <4>1 DEF d
      <4> QED BY <2>1, <4>1, <4>2 DEF Others
    <3> QED BY <2>1, <3>1, <3>2, <3>3 DEF FileAccounted
  <2> QED BY <2>2, <2>3
<1>19. CASE Rollback(s)
  <2>1. UNCHANGED status /\ Others /\ (call[s].pc \in Taken => call'[s].pc \in Taken)
    BY <1>19, <1>t, PcAfter DEF Rollback, At, Taken, InFlight, Others
  <2>2. CASE holder[d] = s /\ d \in claimed
    <3>1. /\ claimed' = claimed \ {d} /\ holder' = [holder EXCEPT ![d] = None]
          /\ file' = IF file = d THEN None ELSE file
      BY <1>19, <2>2 DEF Rollback, WithdrawClaim, d
    <3>2. \A e \in claimed' : holder'[e] = holder[e]
      BY <1>h, <1>t, <3>1 DEF TypeOK
    <3> QED BY <1>g, <2>1, <3>1, <3>2
  <2>3. CASE ~(holder[d] = s /\ d \in claimed)
    <3>1. UNCHANGED <<file, claimed>> /\ (UNCHANGED holder \/ (d \notin claimed /\ holder' = [holder EXCEPT ![d] = None]))
      BY <1>19, <2>3 DEF Rollback, WithdrawClaim, d
    <3>2. ClaimedHeld'
      BY <1>h, <1>t, <3>1 DEF TypeOK, ClaimInv, ClaimedHeld
    <3>3. ASSUME NEW e \in Daemons, status[e] # "dead", file = e, e \notin claimed
          PROVE  \E t \in Sessions : DaemonOf[t] = e /\ call'[t].pc \in Taken
      <4>1. PICK t \in Sessions : DaemonOf[t] = e /\ call[t].pc \in Taken
        BY <3>3 DEF ClaimInv, FileAccounted
      <4> QED BY <2>1, <4>1 DEF Others
    <3> QED BY <2>1, <3>1, <3>2, <3>3 DEF FileAccounted
  <2> QED BY <2>2, <2>3
<1>20. CASE Release(s)
  <2>1. UNCHANGED status /\ Others /\ (call[s].pc \in Taken => call'[s].pc \in Taken)
    BY <1>20, <1>t, PcAfter DEF Release, At, Taken, InFlight, Others
  <2>2. CASE holder[d] = s /\ d \in claimed
    <3>1. /\ claimed' = claimed \ {d} /\ holder' = [holder EXCEPT ![d] = None]
          /\ file' = IF file = d THEN None ELSE file
      BY <1>20, <2>2 DEF Release, WithdrawClaim, d
    <3>2. \A e \in claimed' : holder'[e] = holder[e]
      BY <1>h, <1>t, <3>1 DEF TypeOK
    <3> QED BY <1>g, <2>1, <3>1, <3>2
  <2>3. CASE ~(holder[d] = s /\ d \in claimed)
    <3>1. UNCHANGED <<file, claimed>> /\ (UNCHANGED holder \/ (d \notin claimed /\ holder' = [holder EXCEPT ![d] = None]))
      BY <1>20, <2>3 DEF Release, WithdrawClaim, d
    <3>2. ClaimedHeld'
      BY <1>h, <1>t, <3>1 DEF TypeOK, ClaimInv, ClaimedHeld
    <3>3. ASSUME NEW e \in Daemons, status[e] # "dead", file = e, e \notin claimed
          PROVE  \E t \in Sessions : DaemonOf[t] = e /\ call'[t].pc \in Taken
      <4>1. PICK t \in Sessions : DaemonOf[t] = e /\ call[t].pc \in Taken
        BY <3>3 DEF ClaimInv, FileAccounted
      <4> QED BY <2>1, <4>1 DEF Others
    <3> QED BY <2>1, <3>1, <3>2, <3>3 DEF FileAccounted
  <2> QED BY <2>2, <2>3
<1> QED BY <1>1, <1>2, <1>3, <1>4, <1>5, <1>6, <1>7, <1>8, <1>9, <1>10, <1>11, <1>12, <1>13, <1>14, <1>15,
           <1>16, <1>17, <1>18, <1>19, <1>20 DEF CallStep

\* Every step of a daemon that is not a claim call's keeps ClaimInv.
LEMMA ClaimDaemonStep ==
  ASSUME ClaimInv, NEW d \in Daemons,
         \/ MirrorStep(d) \/ Registry(d) \/ Crash(d) \/ Wedge(d) \/ Unwedge(d)
         \/ ShutdownStep(d) \/ Exit(d)
  PROVE  FileAccounted' /\ ClaimedHeld'
<1>t. TypeOK
  BY DEF ClaimInv
<1>1. CASE MirrorStep(d) \/ Registry(d) \/ ShutdownStep(d)
  <2>1. UNCHANGED <<status, holder, file, claimed, call>>
    BY <1>1 DEF MirrorStep, JudgeForWrite, Registry, ShutdownStep, ownershipVars
  <2> QED BY <2>1 DEF ClaimInv, FileAccounted, ClaimedHeld
<1>2. CASE Wedge(d) \/ Unwedge(d)
  BY <1>2, <1>t DEF Wedge, Unwedge, ClaimInv, FileAccounted, ClaimedHeld, TypeOK
<1>3. CASE Crash(d) \/ Exit(d)
  <2>1. /\ status' = [status EXCEPT ![d] = "dead"] /\ claimed' = claimed \ {d} /\ Abandoned(d)
        /\ file' \in {file, None}
        /\ UNCHANGED holder \/ holder' = [holder EXCEPT ![d] = None]
    BY <1>3 DEF Crash, Exit
  <2>2. ClaimedHeld'
    BY <1>t, <2>1 DEF ClaimInv, ClaimedHeld, TypeOK
  <2>3. ASSUME NEW e \in Daemons, status'[e] # "dead", file' = e, e \notin claimed'
        PROVE  \E t \in Sessions : DaemonOf[t] = e /\ call'[t].pc \in Taken
    <3>1. e # d /\ status[e] # "dead" /\ file = e /\ e \notin claimed
      BY <1>t, <2>1, <2>3, NoneAssumption DEF TypeOK
    <3>2. PICK t \in Sessions : DaemonOf[t] = e /\ call[t].pc \in Taken
      BY <3>1 DEF ClaimInv, FileAccounted
    <3>3. call'[t] = call[t]
      BY <2>1, <3>1, <3>2 DEF Abandoned
    <3> QED BY <3>2, <3>3
  <2> QED BY <2>2, <2>3 DEF FileAccounted
<1> QED BY <1>1, <1>2, <1>3

\* ClaimInv holds at the start.
LEMMA ClaimInvInit == Init => ClaimInv
<1> SUFFICES ASSUME Init PROVE ClaimInv
  OBVIOUS
<1>1. TypeOK
  BY TypeInvInit DEF TypeInv
<1> QED BY <1>1, NoneAssumption DEF Init, ClaimInv, FileAccounted, ClaimedHeld

\* ClaimInv is inductive, given the types.
LEMMA ClaimInvStep == ClaimInv /\ TypeOK' /\ [Next]_vars => ClaimInv'
<1> SUFFICES ASSUME ClaimInv, TypeOK', [Next]_vars PROVE ClaimInv'
  OBVIOUS
<1>1. ASSUME NEW s \in Sessions, Assign(s) \/ CallStep(s) \/ Release(s) PROVE ClaimInv'
  BY <1>1, ClaimCallStep DEF ClaimInv
<1>2. ASSUME NEW d \in Daemons,
             \/ MirrorStep(d) \/ Registry(d) \/ Crash(d) \/ Wedge(d) \/ Unwedge(d)
             \/ ShutdownStep(d) \/ Exit(d)
      PROVE  ClaimInv'
  BY <1>2, ClaimDaemonStep DEF ClaimInv
<1>3. CASE UNCHANGED vars
  BY <1>3 DEF vars, ownershipVars, ClaimInv, FileAccounted, ClaimedHeld
<1> QED BY <1>1, <1>2, <1>3 DEF Next

\* A claim never outlives the assignment (publishDeviceClaim, releaseDeviceClaim): once no session
\* of a running daemon holds the device, the daemon has published no claim, and its claim file is
\* gone unless a claim call is still under way; whatever crashes, wedges, registry faults and
\* interleavings of calls, releases and rollbacks there were.
THEOREM ClaimEndsWithAssignment == Spec => []NoStrandedClaim
<1>1. ClaimInv => NoStrandedClaim
  BY DEF ClaimInv, FileAccounted, ClaimedHeld, NoStrandedClaim, Claiming, Taken, InFlight
<1> QED BY <1>1, ClaimInvInit, ClaimInvStep, TypeCorrect, PTL DEF Spec

-----------------------------------------------------------------------------
(* Nor does its row.  NoStrandedRow is not inductive: whether a row that still names the     *)
(* daemon will be deleted is in the intent the mirror keeps and in the write that carries it. *)

TableSteps == {"judgeFile", "acquire", "getRow", "judgeRow", "casRow", "winner"}
FileSteps  == {"takeFile", "judgeOwner", "takeOver", "confirm", "tableRead", "tableOk", "judgeTable",
               "publish"}

Live(d) == status[d] # "dead" /\ mode[d] = "on"

\* the mirror still has to delete the row, or will be told so by a claim that is published or
\* by a call that must yet give back what it claimed
ReleaseOwed(d) == intent[d] # None /\ intent[d].kind = "release"
Owed(d) == \/ d \in claimed
           \/ \E s \in Sessions : DaemonOf[s] = d /\ (call[s].pc = "publish" \/ call[s].byTable)

\* only a daemon with a mirror uses the table, and a call it decided goes on to the file
TableUse(d) ==
  /\ \A s \in Sessions : DaemonOf[s] = d =>
        /\ call[s].pc \in TableSteps \/ call[s].byTable => d \in Mirrored
        /\ call[s].byTable => call[s].pc \in FileSteps
  /\ Owns(d, row) \/ intent[d] # None => d \in Mirrored

\* what the mirror of a running daemon knows of the row it may have left behind
RowKept(d) ==
  /\ Owns(d, row) => Owed(d) \/ ReleaseOwed(d)
  /\ intent[d] # None /\ intent[d].kind = "claim" => Owed(d)
  /\ write[d] # None /\ write[d].stage \notin {"ok", "failed"} => intent[d] # None
  /\ ReleaseOwed(d) =>
       /\ ~intent[d].synced
       /\ write[d] = None => d \in armed \/ attempts[d] = MaxRetries
       /\ write[d] # None /\ ~write[d].old =>
            /\ write[d].stage \in {"delete", "ok", "failed"}
            /\ write[d].stage = "ok" => ~Owns(d, row)

RowInv == \A d \in Daemons : TableUse(d) /\ (Live(d) => RowKept(d))

\* what a step of daemon d leaves alone of another daemon, whose row it may only take
LeavesAlone(e) ==
  /\ status'[e] = status[e] /\ mode'[e] = mode[e]
  /\ intent'[e] = intent[e] /\ write'[e] = write[e] /\ attempts'[e] = attempts[e]
  /\ (e \in armed') <=> (e \in armed)
  /\ (e \in claimed') <=> (e \in claimed)
  /\ Owns(e, row') => Owns(e, row)
  /\ \A t \in Sessions : DaemonOf[t] = e => call'[t] = call[t]

\* A daemon that a step leaves alone keeps its part of the invariant.
LEMMA RowInvAlone ==
  ASSUME NEW e \in Daemons, LeavesAlone(e), TableUse(e), Live(e) => RowKept(e)
  PROVE  TableUse(e)' /\ (Live(e) => RowKept(e))'
<1>1. Live(e)' = Live(e) /\ ReleaseOwed(e)' = ReleaseOwed(e)
  BY DEF LeavesAlone, Live, ReleaseOwed
<1>2. Owed(e)' <=> Owed(e)
  BY DEF LeavesAlone, Owed
<1>3. TableUse(e)'
  BY DEF LeavesAlone, TableUse
<1>4. RowKept(e) => RowKept(e)'
  BY <1>1, <1>2 DEF LeavesAlone, RowKept
<1> QED BY <1>1, <1>3, <1>4

\* Where a claim call is after a step, and what it has seen.
CallIs(s, p, f, r) ==
  /\ call'[s].pc = p /\ call'[s].seenFile = f /\ call'[s].seenRow = r
  /\ \A t \in Sessions : t # s => call'[t] = call[t]

\* The helpers that move a claim call, by what the call is afterwards.
LEMMA CallAfter ==
  ASSUME TypeOK, NEW s \in Sessions
  PROVE  /\ \A p : Go(s, p) => CallIs(s, p, None, None) /\ call'[s].byTable = call[s].byTable
         /\ \A p, f, r : GoSeen(s, p, f, r) => CallIs(s, p, f, r) /\ call'[s].byTable = call[s].byTable
         /\ \A p : End(s, p) => CallIs(s, p, None, None) /\ ~call'[s].byTable
<1>1. call \in [Sessions -> CallStates] /\ call[s] \in CallStates
  BY DEF TypeOK
<1>2. ASSUME NEW p, NEW f, NEW r, GoSeen(s, p, f, r)
      PROVE  CallIs(s, p, f, r) /\ call'[s].byTable = call[s].byTable
  BY <1>1, <1>2 DEF GoSeen, CallStates, CallIs
<1>3. ASSUME NEW p, Go(s, p)
      PROVE  CallIs(s, p, None, None) /\ call'[s].byTable = call[s].byTable
  BY <1>1, <1>3 DEF Go, CallStates, CallIs
<1>4. ASSUME NEW p, End(s, p)
      PROVE  CallIs(s, p, None, None) /\ ~call'[s].byTable
  BY <1>1, <1>4 DEF End, NewCall, CallIs
<1> QED BY <1>2, <1>3, <1>4

\* A compare-and-set that succeeded goes on to the file, one that lost reads again or gives up.
LEMMA CasRowAfter ==
  ASSUME TypeOK, NEW s \in Sessions, NEW at, CasRow(s, at)
  PROVE  /\ StillExpected(call[s].seenRow) => CallIs(s, "takeFile", None, None) /\ call'[s].byTable
         /\ ~StillExpected(call[s].seenRow) =>
              /\ CallIs(s, "getRow", None, None) \/ CallIs(s, "winner", None, None)
              /\ ~call'[s].byTable
<1>1. call \in [Sessions -> CallStates] /\ call[s] \in CallStates
  BY DEF TypeOK
<1>2. CASE StillExpected(call[s].seenRow)
  <2>1. call' = [call EXCEPT ![s] = [NewCall EXCEPT !.pc = "takeFile", !.byTable = TRUE]]
    BY <1>2 DEF CasRow
  <2> QED BY <1>1, <1>2, <2>1 DEF CallIs, NewCall
<1>3. CASE ~StillExpected(call[s].seenRow)
  <2>1. PICK p \in {"getRow", "winner"} :
          call' = [call EXCEPT ![s] = [NewCall EXCEPT !.pc = p, !.tries = call[s].tries + 1]]
    BY <1>3 DEF CasRow
  <2>2. CallIs(s, p, None, None) /\ ~call'[s].byTable
    BY <1>1, <2>1 DEF CallIs, NewCall
  <2> QED BY <1>3, <2>2
<1> QED BY <1>2, <1>3

\* write() for an intent keeps what the mirror knows, when a claim it records or forgets is owed.
LEMMA IssueWriteKept ==
  ASSUME TypeOK, NEW d \in Daemons, NEW i \in Intents, NEW used \in 0..MaxRetries,
         NEW gone, NEW open, IssueWrite(d, i, used, gone, open), UNCHANGED row,
         i.kind = "claim" => Owed(d)',
         i.kind = "release" => ~i.synced,
         mode[d] = "on"
  PROVE  RowKept(d)'
<1>t. /\ intent \in [Daemons -> Intents \cup {None}] /\ write \in [Daemons -> Writes \cup {None}]
      /\ attempts \in [Daemons -> 0..MaxRetries] /\ armed \in SUBSET Daemons
      /\ i # None /\ i.kind \in {"claim", "release"} /\ MaxRetries \in Nat
  BY NoneAssumption, BoundsAssumption DEF TypeOK, MirrorTypeOK, Intents
<1>1. CASE i.kind = "claim" /\ ~i.acquired /\ gone
  <2>1. intent'[d] = None /\ write'[d] = None
    BY <1>1, <1>t DEF IssueWrite
  <2> QED BY <1>1, <2>1 DEF RowKept, ReleaseOwed
<1>2. CASE ~(i.kind = "claim" /\ ~i.acquired /\ gone) /\ open
  <2>1. NewWrite(i) # None /\ NewWrite(i).stage = IF i.kind = "release" THEN "delete" ELSE "get"
    BY NewWriteTyped, NoneAssumption DEF NewWrite
  <2>2. intent'[d] = i /\ write'[d] = NewWrite(i)
    BY <1>2, <1>t DEF IssueWrite
  <2> QED BY <1>t, <2>1, <2>2 DEF RowKept, ReleaseOwed
<1>3. CASE ~(i.kind = "claim" /\ ~i.acquired /\ gone) /\ ~open
  <2>1. intent'[d] = i /\ write'[d] = None /\ ScheduleRetry(d, used)
    BY <1>3, <1>t DEF IssueWrite
  <2>2. d \in armed' \/ attempts'[d] = MaxRetries
    BY <1>t, <2>1 DEF ScheduleRetry, CanRetry
  <2> QED BY <1>t, <2>1, <2>2 DEF RowKept, ReleaseOwed
<1> QED BY <1>1, <1>2, <1>3

\* record() keeps what the mirror knows: a release replaces whatever was recorded, a claim is owed.
LEMMA RecordKept ==
  ASSUME TypeOK, NEW d \in Daemons, NEW i \in Intents, NEW gone,
         Record(d, i, gone), UNCHANGED <<row, mode, status>>,
         i.kind = "claim" => Owed(d)',
         i.kind = "release" => ~i.synced
  PROVE  Live(d)' => RowKept(d)'
<1> SUFFICES ASSUME Live(d)' PROVE RowKept(d)'
  OBVIOUS
<1>1. mode[d] = "on" /\ 0 \in 0..MaxRetries
  BY BoundsAssumption DEF Live
<1>2. CASE write[d] = None
  BY <1>1, <1>2, IssueWriteKept DEF Record
<1>3. CASE write[d] # None
  <2>1. /\ intent' = [intent EXCEPT ![d] = i] /\ write' = [write EXCEPT ![d].old = TRUE]
        /\ intent \in [Daemons -> Intents \cup {None}] /\ write \in [Daemons -> Writes \cup {None}]
        /\ write[d] \in Writes
    BY <1>1, <1>3 DEF Record, TypeOK, MirrorTypeOK
  <2>2. /\ intent'[d] = i /\ i # None /\ i.kind \in {"claim", "release"}
        /\ write'[d] # None /\ write'[d].old
    BY <2>1, NoneAssumption DEF Writes, Intents
  <2> QED BY <2>2 DEF RowKept, ReleaseOwed
<1> QED BY <1>2, <1>3

\* recordAcquired() keeps it: the claim the table has just decided is owed by its call.
LEMMA AcquiredKept ==
  ASSUME TypeOK, NEW d \in Daemons, RecordAcquired(d), Owed(d)'
  PROVE  RowKept(d)'
<1>1. intent'[d] = ClaimIntent(TRUE) /\ ClaimIntent(TRUE) # None /\ ClaimIntent(TRUE).kind = "claim"
  BY IntentsTyped, NoneAssumption DEF RecordAcquired, TypeOK, MirrorTypeOK, ClaimIntent
<1> QED BY <1>1 DEF RowKept, ReleaseOwed

\* What a step of a claim call does to its daemon's mirror.
RowEffect(s, d) ==
  \/ /\ UNCHANGED <<row, intent, armed, attempts, write>>
     /\ d \in Mirrored /\ Owed(d) => Owed(d)'
  \/ /\ d \in Mirrored /\ UNCHANGED row /\ Record(d, ReleaseIntent, FALSE)
     /\ call'[s].pc = "rollback" \/ holder'[d] = None
  \/ /\ d \in Mirrored /\ UNCHANGED row /\ Owed(d)'
     /\ \E gone \in BOOLEAN : Record(d, ClaimIntent(FALSE), gone)
  \/ d \in Mirrored /\ Owns(d, row') /\ Owed(d)' /\ RecordAcquired(d)

\* and to the call itself, and to the claims that are published
CallEffect(s, d) ==
  /\ UNCHANGED <<mode, status>>
  /\ claimed' \in {claimed, claimed \cup {d}, claimed \ {d}}
  /\ \A t \in Sessions : t # s => call'[t] = call[t]
  /\ call'[s].pc \in TableSteps \/ call'[s].byTable => d \in Mirrored
  /\ call'[s].byTable => call'[s].pc \in FileSteps

\* A session's claim call, its assignment and its release: each records a release where the daemon
\* gives back what it claimed, and otherwise what is owed stays owed.
LEMMA CallRowEffect ==
  ASSUME TypeOK, NEW s \in Sessions, NEW d \in Daemons, d = DaemonOf[s], TableUse(d),
         Assign(s) \/ CallStep(s) \/ Release(s)
  PROVE  CallEffect(s, d) /\ RowEffect(s, d)
<1> DEFINE Owing(c) == c.pc = "publish" \/ c.byTable
<1>u. /\ call[s].pc \in TableSteps \/ call[s].byTable => d \in Mirrored
      /\ call[s].byTable => call[s].pc \in FileSteps
      /\ call[s].byTable \in BOOLEAN
  BY DEF TableUse, TypeOK, CallStates
<1>h. holder \in [Daemons -> Sessions \cup {None}]
  BY DEF TypeOK
\* a step that leaves the mirror alone, and keeps owing what its call owes
<1>k. ASSUME UNCHANGED <<row, intent, armed, attempts, write>>, d \in claimed => d \in claimed',
             \A t \in Sessions : t # s => call'[t] = call[t],
             Owing(call[s]) => Owing(call'[s]) \/ d \in claimed'
      PROVE  RowEffect(s, d)
  <2>1. ASSUME Owed(d) PROVE Owed(d)'
    <3>1. CASE d \in claimed
      BY <1>k, <3>1 DEF Owed
    <3>2. CASE \E t \in Sessions : DaemonOf[t] = d /\ Owing(call[t])
      <4>1. PICK t \in Sessions : DaemonOf[t] = d /\ Owing(call[t])
        BY <3>2
      <4> QED BY <1>k, <4>1 DEF Owed
    <3> QED BY <2>1, <3>1, <3>2 DEF Owed
  <2> QED BY <1>k, <2>1 DEF RowEffect
<1>o. ASSUME Owing(call'[s]) PROVE Owed(d)'
  BY <1>o DEF Owed
\* a step that moves the call and may publish or withdraw a claim
<1>e. ASSUME NEW p, NEW f, NEW r, CallIs(s, p, f, r), call'[s].byTable => call[s].byTable,
             UNCHANGED <<mode, status>>, claimed' \in {claimed, claimed \cup {d}, claimed \ {d}},
             p \in TableSteps => d \in Mirrored, call'[s].byTable => p \in FileSteps
      PROVE  CallEffect(s, d)
  BY <1>e, <1>u DEF CallIs, CallEffect
\* a call that is refused, and one that has its file
<1>r. ASSUME Refused(s), UNCHANGED row, UNCHANGED claimed, call[s].pc # "publish" PROVE RowEffect(s, d)
  <2>1. CASE call[s].byTable
    BY <1>r, <1>u, <2>1, CallAfter DEF Refused, RowEffect, CallIs
  <2>2. CASE ~call[s].byTable /\ call[s].pc # "publish"
    BY <1>k, <1>r, <2>2, CallAfter DEF Refused, MirrorIdle, CallIs
  <2> QED BY <1>r, <2>1, <2>2
<1>f. ASSUME NEW f, FileClaimed(s, f), UNCHANGED row, UNCHANGED claimed PROVE RowEffect(s, d)
  <2>1. CallIs(s, "publish", None, None) /\ call'[s].byTable = call[s].byTable
    BY <1>f, CallAfter DEF FileClaimed
  <2>2. CASE d \in Mirrored /\ ~call[s].byTable
    BY <1>f, <1>o, <2>1, <2>2 DEF FileClaimed, RowEffect, CallIs
  <2>3. CASE ~(d \in Mirrored /\ ~call[s].byTable)
    BY <1>f, <1>k, <2>1, <2>3 DEF FileClaimed, MirrorIdle, CallIs
  <2> QED BY <2>2, <2>3
<1>1. CASE Assign(s)
  <2>1. /\ CallIs(s, "assigned", None, None) /\ ~call'[s].byTable /\ call[s].pc = "new"
        /\ UNCHANGED <<row, mode, intent, armed, attempts, write, status, claimed>>
    BY <1>1, CallAfter DEF Assign, At, mirrorVars
  <2>2. CallEffect(s, d)
    BY <2>1 DEF CallEffect, CallIs, TableSteps
  <2>3. RowEffect(s, d)
    BY <1>k, <1>u, <2>1 DEF CallIs, FileSteps
  <2> QED BY <2>2, <2>3
<1>2. CASE CheckFile(s)
  <2>1. PICK p, f :
          p \in {"takeFile", "acquire", "judgeFile"} /\ CallIs(s, p, f, None)
          /\ call'[s].byTable = call[s].byTable /\ (p # "takeFile" => d \in Mirrored)
    BY <1>2, CallAfter DEF CheckFile, FilesDecide
  <2>2. /\ UNCHANGED <<row, mode, intent, armed, attempts, write, status, claimed>>
        /\ ~call[s].byTable /\ call[s].pc = "assigned"
    BY <1>2, <1>u DEF CheckFile, At, mirrorVars, FileSteps
  <2>3. CallEffect(s, d)
    BY <1>u, <2>1, <2>2 DEF CallEffect, CallIs, TableSteps
  <2>4. RowEffect(s, d)
    BY <1>k, <2>1, <2>2 DEF CallIs
  <2> QED BY <2>3, <2>4
<1>3. CASE Acquire(s)
  <2>1. CallEffect(s, d)
    BY <1>3, <1>u, CallAfter DEF Acquire, At, FilesDecide, mirrorVars, CallEffect, CallIs, TableSteps,
       FileSteps
  <2>2. RowEffect(s, d)
    BY <1>3, <1>k, <1>u, CallAfter DEF Acquire, At, FilesDecide, mirrorVars, CallIs, TableSteps, FileSteps
  <2> QED BY <2>1, <2>2
<1>4. CASE AcquireThrows(s)
  <2>1. CallEffect(s, d)
    BY <1>4, <1>u, CallAfter DEF AcquireThrows, At, FilesDecide, mirrorVars, CallEffect, CallIs,
       TableSteps, FileSteps
  <2>2. RowEffect(s, d)
    BY <1>4, <1>k, <1>u, CallAfter DEF AcquireThrows, At, FilesDecide, mirrorVars, CallIs, TableSteps,
       FileSteps
  <2> QED BY <2>1, <2>2
<1>5. CASE GetRow(s)
  <2>1. CallEffect(s, d)
    BY <1>5, <1>u, CallAfter DEF GetRow, At, FilesDecide, mirrorVars, CallEffect, CallIs, TableSteps,
       FileSteps
  <2>2. RowEffect(s, d)
    BY <1>5, <1>k, <1>u, CallAfter DEF GetRow, At, FilesDecide, mirrorVars, CallIs, TableSteps, FileSteps
  <2> QED BY <2>1, <2>2
<1>6. CASE Winner(s)
  <2>1. CallEffect(s, d)
    BY <1>6, <1>u, CallAfter DEF Winner, At, FilesDecide, mirrorVars, CallEffect, CallIs, TableSteps,
       FileSteps
  <2>2. RowEffect(s, d)
    BY <1>6, <1>k, <1>u, CallAfter DEF Winner, At, FilesDecide, mirrorVars, CallIs, TableSteps, FileSteps
  <2> QED BY <2>1, <2>2
<1>7. CASE StatementThrows(s)
  <2>1. CallEffect(s, d)
    BY <1>7, <1>u, CallAfter DEF StatementThrows, At, FilesDecide, mirrorVars, CallEffect, CallIs,
       TableSteps, FileSteps
  <2>2. RowEffect(s, d)
    BY <1>7, <1>k, <1>u, CallAfter DEF StatementThrows, At, FilesDecide, mirrorVars, CallIs, TableSteps,
       FileSteps
  <2> QED BY <2>1, <2>2
<1>8. CASE \E live \in BOOLEAN : TableRead(s, live)
  <2>1. CallEffect(s, d)
    <3>1. PICK p, r : p \in {"judgeTable", "tableOk"} /\ CallIs(s, p, None, r)
                      /\ (call'[s].byTable => call[s].byTable)
      BY <1>8, CallAfter DEF TableRead
    <3>2. UNCHANGED <<mode, status>> /\ claimed' \in {claimed, claimed \cup {d}, claimed \ {d}}
      BY <1>8, Zenon DEF TableRead, At, WithdrawClaim
    <3> QED BY <1>e, <1>u, <3>1, <3>2 DEF TableSteps, FileSteps
  <2>2. RowEffect(s, d)
    BY <1>8, <1>k, <1>u, CallAfter DEF TableRead, At, mirrorVars, CallIs, TableSteps, FileSteps
  <2> QED BY <2>1, <2>2
<1>9. CASE \E live \in BOOLEAN : JudgeFile(s, live)
  <2> PICK live \in BOOLEAN : JudgeFile(s, live)
    BY <1>9
  <2>1. CallEffect(s, d)
    BY <1>u, CallAfter DEF JudgeFile, At, Refused, FileClaimed, CallEffect, CallIs, TableSteps, FileSteps
  <2>2. CASE live
    BY <1>r, <2>1, <2>2 DEF JudgeFile, At
  <2>3. CASE ~live
    BY <1>f, <1>k, <1>u, <2>3, CallAfter, <2>1 DEF JudgeFile, At, MirrorIdle, CallIs, TableSteps, FileSteps
  <2> QED BY <2>1, <2>2, <2>3
<1>10. CASE \E live \in BOOLEAN : JudgeRow(s, live)
  <2> PICK live \in BOOLEAN : JudgeRow(s, live)
    BY <1>10
  <2>1. CallEffect(s, d)
    BY <1>u, CallAfter DEF JudgeRow, At, Refused, FileClaimed, CallEffect, CallIs, TableSteps, FileSteps
  <2>2. CASE live
    BY <1>r, <2>1, <2>2 DEF JudgeRow, At
  <2>3. CASE ~live
    BY <1>f, <1>k, <1>u, <2>3, CallAfter, <2>1 DEF JudgeRow, At, MirrorIdle, CallIs, TableSteps, FileSteps
  <2> QED BY <2>1, <2>2, <2>3
<1>11. CASE \E live \in BOOLEAN : JudgeOwner(s, live)
  <2> PICK live \in BOOLEAN : JudgeOwner(s, live)
    BY <1>11
  <2>1. CallEffect(s, d)
    <3>1. PICK p, f : p \in {"rollback", "takeOver"} /\ CallIs(s, p, f, None)
                      /\ (call'[s].byTable => call[s].byTable /\ p \in FileSteps)
      BY CallAfter DEF FileSteps, JudgeOwner, Refused
    <3>2. UNCHANGED <<mode, status>> /\ claimed' \in {claimed, claimed \cup {d}, claimed \ {d}}
      BY Zenon DEF JudgeOwner, Refused, At, WithdrawClaim
    <3> QED BY <1>e, <1>u, <3>1, <3>2 DEF TableSteps, FileSteps
  <2>2. CASE live
    BY <1>r, <2>1, <2>2 DEF JudgeOwner, At
  <2>3. CASE ~live
    BY <1>f, <1>k, <1>u, <2>3, CallAfter, <2>1 DEF JudgeOwner, At, MirrorIdle, CallIs, TableSteps, FileSteps
  <2> QED BY <2>1, <2>2, <2>3
<1>12. CASE \E live \in BOOLEAN : JudgeTable(s, live)
  <2> PICK live \in BOOLEAN : JudgeTable(s, live)
    BY <1>12
  <2>1. CallEffect(s, d)
    <3>1. PICK p \in {"rollback", "publish"} : CallIs(s, p, None, None)
                                               /\ (call'[s].byTable => call[s].byTable /\ p \in FileSteps)
      BY CallAfter DEF FileSteps, JudgeTable, Refused, FileClaimed
    <3>2. UNCHANGED <<mode, status>> /\ claimed' \in {claimed, claimed \cup {d}, claimed \ {d}}
      BY Zenon DEF JudgeTable, Refused, FileClaimed, At, WithdrawClaim
    <3> QED BY <1>e, <1>u, <3>1, <3>2 DEF TableSteps, FileSteps
  <2>2. CASE live
    BY <1>r, <2>1, <2>2 DEF JudgeTable, At
  <2>3. CASE ~live
    BY <1>f, <1>k, <1>u, <2>3, CallAfter, <2>1 DEF JudgeTable, At, MirrorIdle, CallIs, TableSteps, FileSteps
  <2> QED BY <2>1, <2>2, <2>3
<1>13. CASE TakeFile(s)
  <2>1. CallEffect(s, d)
    <3>1. PICK p, f : p \in {"publish", "confirm", "judgeOwner"} /\ CallIs(s, p, f, None)
                      /\ (call'[s].byTable => call[s].byTable)
      BY <1>13, CallAfter DEF TakeFile, FileClaimed
    <3>2. UNCHANGED <<mode, status>> /\ claimed' \in {claimed, claimed \cup {d}, claimed \ {d}}
      BY <1>13, Zenon DEF TakeFile, FileClaimed, At, WithdrawClaim
    <3> QED BY <1>e, <1>u, <3>1, <3>2 DEF TableSteps, FileSteps
  <2>2. RowEffect(s, d)
    BY <1>13, <1>f, <1>k, <1>r, CallAfter DEF TakeFile, At, MirrorIdle, CallIs
  <2> QED BY <2>1, <2>2
<1>14. CASE TakeOver(s)
  <2>1. CallEffect(s, d)
    <3>1. PICK p \in {"rollback", "confirm"} : CallIs(s, p, None, None)
                                               /\ (call'[s].byTable => call[s].byTable /\ p \in FileSteps)
      BY <1>14, CallAfter DEF FileSteps, TakeOver, Refused
    <3>2. UNCHANGED <<mode, status>> /\ claimed' \in {claimed, claimed \cup {d}, claimed \ {d}}
      BY <1>14, Zenon DEF TakeOver, Refused, At, WithdrawClaim
    <3> QED BY <1>e, <1>u, <3>1, <3>2 DEF TableSteps, FileSteps
  <2>2. RowEffect(s, d)
    BY <1>14, <1>f, <1>k, <1>r, CallAfter DEF TakeOver, At, MirrorIdle, CallIs
  <2> QED BY <2>1, <2>2
<1>15. CASE Confirm(s)
  <2>1. CallEffect(s, d)
    <3>1. PICK p \in {"publish", "tableRead"} : CallIs(s, p, None, None)
                                                /\ (call'[s].byTable => call[s].byTable)
      BY <1>15, CallAfter DEF Confirm, FileClaimed
    <3>2. UNCHANGED <<mode, status>> /\ claimed' \in {claimed, claimed \cup {d}, claimed \ {d}}
      BY <1>15, Zenon DEF Confirm, FileClaimed, At, WithdrawClaim
    <3> QED BY <1>e, <1>u, <3>1, <3>2 DEF TableSteps, FileSteps
  <2>2. RowEffect(s, d)
    BY <1>15, <1>f, <1>k, <1>r, CallAfter DEF Confirm, At, MirrorIdle, CallIs
  <2> QED BY <2>1, <2>2
<1>16. CASE TableOk(s)
  <2>1. CallEffect(s, d)
    <3>1. PICK p \in {"publish"} : CallIs(s, p, None, None) /\ (call'[s].byTable => call[s].byTable)
      BY <1>16, CallAfter DEF TableOk, FileClaimed
    <3>2. UNCHANGED <<mode, status>> /\ claimed' \in {claimed, claimed \cup {d}, claimed \ {d}}
      BY <1>16, Zenon DEF TableOk, FileClaimed, At, WithdrawClaim
    <3> QED BY <1>e, <1>u, <3>1, <3>2 DEF TableSteps, FileSteps
  <2>2. RowEffect(s, d)
    BY <1>16, <1>f, <1>k, <1>r, CallAfter DEF TableOk, At, MirrorIdle, CallIs
  <2> QED BY <2>1, <2>2
<1>17. CASE \E at \in Stamps : FreshStamp(at) /\ CasRow(s, at)
  <2>1. PICK at \in Stamps : CasRow(s, at)
    BY <1>17
  <2>2. CallEffect(s, d)
    BY <1>u, <2>1, CasRowAfter DEF CasRow, At, CallEffect, CallIs, TableSteps, FileSteps
  <2>3. CASE StillExpected(call[s].seenRow)
    <3>1. Owns(d, row') /\ d \in Mirrored /\ RecordAcquired(d)
      BY <1>u, <2>1, <2>3, NoneAssumption DEF CasRow, At, NewRow, Owns, Rows, TableSteps
    <3> QED BY <1>o, <2>1, <2>2, <2>3, <3>1, CasRowAfter DEF RowEffect, CallIs
  <2>4. CASE ~StillExpected(call[s].seenRow)
    BY <1>k, <1>u, <2>1, <2>2, <2>4, CasRowAfter DEF CasRow, At, CallIs, FileSteps
  <2> QED BY <2>3, <2>4
<1>18. CASE Publish(s)
  <2>1. CallEffect(s, d)
    <3>1. PICK p \in {"held", "over"} : CallIs(s, p, None, None)
                                        /\ (call'[s].byTable => call[s].byTable /\ p \in FileSteps)
      BY <1>18, CallAfter DEF FileSteps, Publish
    <3>2. UNCHANGED <<mode, status>> /\ claimed' \in {claimed, claimed \cup {d}, claimed \ {d}}
      BY <1>18, Zenon DEF Publish, At, WithdrawClaim
    <3> QED BY <1>e, <1>u, <3>1, <3>2 DEF TableSteps, FileSteps
  <2>2. CASE holder[d] # None
    BY <1>18, <1>k, <2>1, <2>2 DEF Publish, MirrorIdle, CallEffect
  <2>3. CASE holder[d] = None /\ d \in Mirrored
    BY <1>18, <2>3, <2>1 DEF Publish, RowEffect
  <2>4. CASE holder[d] = None /\ d \notin Mirrored
    BY <1>18, <2>4, <2>1 DEF Publish, MirrorIdle, RowEffect
  <2> QED BY <2>1, <2>2, <2>3, <2>4
<1>19. CASE Rollback(s)
  <2>1. CallEffect(s, d)
    <3>1. PICK p \in {"over"} : CallIs(s, p, None, None)
                                /\ (call'[s].byTable => call[s].byTable /\ p \in FileSteps)
      BY <1>19, CallAfter DEF FileSteps, Rollback
    <3>2. UNCHANGED <<mode, status>> /\ claimed' \in {claimed, claimed \cup {d}, claimed \ {d}}
      BY <1>19, Zenon DEF Rollback, At, WithdrawClaim
    <3> QED BY <1>e, <1>u, <3>1, <3>2 DEF TableSteps, FileSteps
  <2>2. Owing(call[s]) => Owing(call'[s])
    BY <1>19, <1>u, CallAfter DEF Rollback, At, CallIs, FileSteps, InFlight
  <2>3. CASE d \in claimed /\ holder[d] = s /\ d \in Mirrored
    BY <1>19, <1>h, <2>3, <2>1 DEF Rollback, WithdrawClaim, RowEffect
  <2>4. CASE d \in claimed /\ holder[d] = s /\ d \notin Mirrored
    BY <1>19, <2>4, <2>1 DEF Rollback, WithdrawClaim, MirrorIdle, RowEffect
  <2>5. CASE ~(d \in claimed /\ holder[d] = s)
    BY <1>19, <1>k, <2>1, <2>2, <2>5 DEF Rollback, WithdrawClaim, MirrorIdle, CallEffect
  <2> QED BY <2>1, <2>3, <2>4, <2>5
<1>20. CASE Release(s)
  <2>1. CallEffect(s, d)
    <3>1. UNCHANGED <<mode, status>> /\ claimed' \in {claimed, claimed \cup {d}, claimed \ {d}}
      BY <1>20, Zenon DEF Release, WithdrawClaim
    <3>2. CASE call[s].pc \in InFlight
      BY <1>20, <1>u, <3>1, <3>2 DEF Release, CallEffect
    <3>3. CASE call[s].pc \notin InFlight
      <4>1. CallIs(s, "over", None, None) /\ ~call'[s].byTable
        BY <1>20, <3>3, CallAfter DEF Release
      <4> QED BY <1>e, <3>1, <4>1 DEF TableSteps
    <3> QED BY <3>2, <3>3
  <2>2. Owing(call[s]) => Owing(call'[s])
    BY <1>20, <1>u, CallAfter DEF Release, At, CallIs, FileSteps, InFlight
  <2>3. CASE d \in claimed /\ holder[d] = s /\ d \in Mirrored
    BY <1>20, <1>h, <2>3, <2>1 DEF Release, WithdrawClaim, RowEffect
  <2>4. CASE d \in claimed /\ holder[d] = s /\ d \notin Mirrored
    BY <1>20, <2>4, <2>1 DEF Release, WithdrawClaim, MirrorIdle, RowEffect
  <2>5. CASE ~(d \in claimed /\ holder[d] = s)
    BY <1>20, <1>k, <2>1, <2>2, <2>5 DEF Release, WithdrawClaim, MirrorIdle, CallEffect
  <2> QED BY <2>1, <2>3, <2>4, <2>5
<1> QED BY <1>1, <1>2, <1>3, <1>4, <1>5, <1>6, <1>7, <1>8, <1>9, <1>10, <1>11, <1>12, <1>13, <1>14, <1>15,
           <1>16, <1>17, <1>18, <1>19, <1>20 DEF CallStep

\* A step of a claim call keeps its daemon's part of the invariant.
LEMMA CallRowStep ==
  ASSUME TypeOK, NEW s \in Sessions, NEW d \in Daemons, d = DaemonOf[s],
         TableUse(d), Live(d) => RowKept(d),
         CallEffect(s, d), RowEffect(s, d)
  PROVE  TableUse(d)' /\ (Live(d) => RowKept(d))'
<1>t. intent \in [Daemons -> Intents \cup {None}]
  BY DEF TypeOK, MirrorTypeOK
<1>c. \A t \in Sessions : DaemonOf[t] = d =>
        /\ call'[t].pc \in TableSteps \/ call'[t].byTable => d \in Mirrored
        /\ call'[t].byTable => call'[t].pc \in FileSteps
  BY DEF CallEffect, TableUse
<1>1. CASE /\ UNCHANGED <<row, intent, armed, attempts, write>>
           /\ d \in Mirrored /\ Owed(d) => Owed(d)'
  <2>1. TableUse(d)'
    BY <1>c, <1>1 DEF TableUse
  <2>2. ASSUME Live(d)' PROVE RowKept(d)'
    <3>1. RowKept(d) /\ ReleaseOwed(d)' = ReleaseOwed(d)
      BY <1>1, <2>2 DEF CallEffect, Live, ReleaseOwed
    <3>2. Owns(d, row) \/ intent[d] # None => d \in Mirrored
      BY DEF TableUse
    <3> QED BY <1>1, <3>1, <3>2 DEF RowKept
  <2> QED BY <2>1, <2>2
<1>2. CASE d \in Mirrored /\ UNCHANGED row /\ Record(d, ReleaseIntent, FALSE)
  <2>1. TableUse(d)'
    BY <1>c, <1>2 DEF TableUse
  <2>2. ReleaseIntent \in Intents /\ ReleaseIntent.kind = "release" /\ ~ReleaseIntent.synced
    BY IntentsTyped DEF ReleaseIntent
  <2>3. Live(d)' => RowKept(d)'
    BY <1>2, <2>2, RecordKept DEF CallEffect
  <2> QED BY <2>1, <2>3
<1>3. CASE /\ d \in Mirrored /\ UNCHANGED row /\ Owed(d)'
           /\ \E gone \in BOOLEAN : Record(d, ClaimIntent(FALSE), gone)
  <2>1. TableUse(d)'
    BY <1>c, <1>3 DEF TableUse
  <2>2. ClaimIntent(FALSE) \in Intents /\ ClaimIntent(FALSE).kind = "claim"
    BY IntentsTyped DEF ClaimIntent
  <2>3. Live(d)' => RowKept(d)'
    BY <1>3, <2>2, RecordKept DEF CallEffect
  <2> QED BY <2>1, <2>3
<1>4. CASE d \in Mirrored /\ Owns(d, row') /\ Owed(d)' /\ RecordAcquired(d)
  <2>1. TableUse(d)'
    BY <1>c, <1>4 DEF TableUse
  <2>2. RowKept(d)'
    BY <1>4, AcquiredKept
  <2> QED BY <2>1, <2>2
<1> QED BY <1>1, <1>2, <1>3, <1>4 DEF RowEffect

\* A write that moves on is still a write, for the same intent.
LEMMA StageAfter ==
  ASSUME write \in [Daemons -> Writes \cup {None}], NEW d \in Daemons, write[d] # None,
         NEW st \in Stages, NEW seen \in Rows \cup {None},
         write' = [write EXCEPT ![d] = [write[d] EXCEPT !.stage = st, !.seen = seen]]
  PROVE  /\ write'[d] # None /\ write'[d].stage = st /\ write'[d].seen = seen
         /\ write'[d].old = write[d].old
         /\ \A e \in Daemons \ {d} : write'[e] = write[e]
<1> DEFINE c == [write[d] EXCEPT !.stage = st, !.seen = seen]
<1>1. write[d] \in Writes
  OBVIOUS
<1>2. c \in Writes /\ c.stage = st /\ c.seen = seen /\ c.old = write[d].old
  BY <1>1 DEF Writes
<1>3. c # None
  BY <1>2, NoneAssumption
<1>4. write' = [write EXCEPT ![d] = c]
  OBVIOUS
<1> HIDE DEF c
<1> QED BY <1>2, <1>3, <1>4

\* A stage that only moves on keeps the row the write has read.
LEMMA GoToAfter ==
  ASSUME write \in [Daemons -> Writes \cup {None}], NEW d \in Daemons, write[d] # None,
         NEW st \in Stages, GoTo(d, st)
  PROVE  /\ write'[d] # None /\ write'[d].stage = st /\ write'[d].seen = write[d].seen
         /\ write'[d].old = write[d].old
         /\ \A e \in Daemons \ {d} : write'[e] = write[e]
<1> DEFINE c == [write[d] EXCEPT !.stage = st]
<1>1. write[d] \in Writes
  OBVIOUS
<1>2. c \in Writes /\ c.stage = st /\ c.seen = write[d].seen /\ c.old = write[d].old
  BY <1>1 DEF Writes
<1>3. c # None
  BY <1>2, NoneAssumption
<1>4. write' = [write EXCEPT ![d] = c]
  BY DEF GoTo
<1> HIDE DEF c
<1> QED BY <1>2, <1>3, <1>4

\* Every step of a mirror keeps its daemon's part of the invariant: a put is made for an intent
\* that is still there, an intent is dropped only where the row is another's or is owed, and a
\* release is forgotten only when its own delete succeeded.
LEMMA MirrorRowStep ==
  ASSUME TypeOK, NEW d \in Daemons, TableUse(d), Live(d) => RowKept(d), MirrorStep(d)
  PROVE  TableUse(d)' /\ (Live(d) => RowKept(d))'
<1>t. /\ intent \in [Daemons -> Intents \cup {None}] /\ write \in [Daemons -> Writes \cup {None}]
      /\ attempts \in [Daemons -> 0..MaxRetries] /\ armed \in SUBSET Daemons
      /\ row \in Rows \cup {None} /\ MaxRetries \in Nat
  BY BoundsAssumption DEF TypeOK, MirrorTypeOK
<1>o. UNCHANGED <<status, mode, store, claimed, call>>
  BY DEF MirrorStep, JudgeForWrite, WriteJudge, WriteDelete, WriteGet, WriteThrows, WritePut, WriteSettles,
         RetryFires, ownershipVars
<1>u. TableUse(d)'
  BY <1>o DEF MirrorStep, TableUse
<1>l. SUFFICES ASSUME Live(d)' PROVE RowKept(d)'
  BY <1>u
<1>s. {"ok", "failed", "put", "judge"} \subseteq Stages
  BY DEF Stages
<1>k. RowKept(d) /\ mode[d] = "on"
  BY <1>l, <1>o DEF Live
<1>w. Owed(d)' = Owed(d)
  BY <1>o DEF Owed
\* a write that goes to another stage without touching row or intent
<1>g. ASSUME write[d] # None, NEW st, UNCHANGED <<row, intent, armed, attempts>>,
             write'[d] # None, write'[d].stage = st, write'[d].old = write[d].old,
             write[d].stage \notin {"ok", "failed"},
             st \in {"put", "judge"} => write[d].stage # "delete",
             st \in {"put", "judge", "failed"}
      PROVE  RowKept(d)'
  <2>2. intent[d] # None /\ ReleaseOwed(d)' = ReleaseOwed(d)
    BY <1>g, <1>k DEF RowKept, ReleaseOwed
  <2> QED BY <1>g, <1>k, <1>w, <2>2 DEF RowKept
<1>1. CASE \E live \in BOOLEAN : JudgeForWrite(d, live)
  <2>1. PICK st \in {"failed", "put"} : GoTo(d, st)
    BY <1>1 DEF JudgeForWrite, WriteJudge
  <2>2. write[d] # None /\ write[d].stage = "judge" /\ UNCHANGED <<row, intent, armed, attempts>>
    BY <1>1 DEF JudgeForWrite, WriteJudge, Stage
  <2>3. write'[d] # None /\ write'[d].stage = st /\ write'[d].old = write[d].old
    BY <1>s, <1>t, <2>1, <2>2, GoToAfter
  <2> QED BY <1>g, <2>2, <2>3
<1>2. CASE WriteDelete(d)
  <2>1. /\ write[d] # None /\ write[d] \in Writes /\ GoTo(d, "ok")
        /\ UNCHANGED <<intent, armed, attempts>> /\ ~Owns(d, row')
    BY <1>2, <1>t DEF WriteDelete, Stage, DeleteOwn, Owns
  <2>2. write'[d] # None /\ write'[d].stage = "ok" /\ write'[d].old = write[d].old
    BY <1>s, <1>t, <2>1, GoToAfter
  <2> QED BY <1>k, <1>w, <2>1, <2>2 DEF RowKept, ReleaseOwed
<1>3. CASE WriteThrows(d)
  <2>1. /\ write[d] # None /\ write[d].stage \in {"delete", "get", "put"}
        /\ GoTo(d, "failed") /\ UNCHANGED <<row, intent, armed, attempts>>
    BY <1>3 DEF WriteThrows
  <2>2. write'[d] # None /\ write'[d].stage = "failed" /\ write'[d].old = write[d].old
    BY <1>s, <1>t, <2>1, GoToAfter
  <2> QED BY <1>g, <2>1, <2>2
\* a claim that lost its row is dropped: the row is another's, or its call still owes it
<1>d. ASSUME write[d] # None, write[d].stage \in {"get", "put"}, Drop(d), GoTo(d, "ok"), UNCHANGED row
      PROVE  RowKept(d)'
  <2>1. /\ write[d] \in Writes /\ write'[d] # None /\ write'[d].stage = "ok" /\ write'[d].old = write[d].old
    BY <1>d, <1>s, <1>t, GoToAfter
  <2>2. CASE write[d].old
    BY <1>d, <1>k, <1>w, <2>1, <2>2 DEF Drop, RowKept, ReleaseOwed
  <2>3. CASE ~write[d].old
    <3>1. intent'[d] = None
      BY <1>d, <1>t, <2>3 DEF Drop
    <3>2. intent[d] # None /\ intent[d].kind = "claim"
      BY <1>d, <1>k, <1>t, <2>3 DEF RowKept, ReleaseOwed, Intents
    <3> QED BY <1>k, <1>w, <2>1, <3>1, <3>2 DEF RowKept, ReleaseOwed
  <2> QED BY <2>2, <2>3
<1>4. CASE WriteGet(d)
  <2>1. write[d] # None /\ write[d].stage = "get" /\ UNCHANGED row
    BY <1>4 DEF WriteGet, Stage
  <2>2. CASE GoTo(d, "ok") /\ Drop(d)
    BY <1>d, <2>1, <2>2
  <2>3. CASE \E st \in {"judge", "put"} :
               /\ write' = [write EXCEPT ![d].stage = st, ![d].seen = row]
               /\ UNCHANGED <<intent, armed, attempts>>
    <3>1. PICK st \in {"judge", "put"} :
               /\ write' = [write EXCEPT ![d].stage = st, ![d].seen = row]
               /\ UNCHANGED <<intent, armed, attempts>>
      BY <2>3
    <3>2. write' = [write EXCEPT ![d] = [write[d] EXCEPT !.stage = st, !.seen = row]]
      BY <3>1
    <3>3. write'[d] # None /\ write'[d].stage = st /\ write'[d].old = write[d].old
      BY <1>s, <1>t, <2>1, <3>2, StageAfter
    <3> QED BY <1>g, <2>1, <3>1, <3>3
  <2> QED BY <1>4, <2>2, <2>3 DEF WriteGet
<1>5. CASE \E at \in Stamps : WritePut(d, at)
  <2>1. PICK at \in Stamps : WritePut(d, at)
    BY <1>5
  <2>2. write[d] # None /\ write[d] \in Writes /\ write[d].stage = "put"
    BY <1>t, <2>1 DEF WritePut, Stage
  <2>3. CASE StillExpected(write[d].seen)
    <3>1. GoTo(d, "ok") /\ UNCHANGED <<intent, armed, attempts>>
      BY <2>1, <2>3 DEF WritePut
    <3>2. write'[d] # None /\ write'[d].stage = "ok" /\ write'[d].old = write[d].old
      BY <1>s, <1>t, <2>2, <3>1, GoToAfter
    <3>3. Owed(d) \/ ReleaseOwed(d)
      BY <1>k, <1>t, <2>2 DEF RowKept, ReleaseOwed, Intents
    <3> QED BY <1>k, <1>w, <2>2, <3>1, <3>2, <3>3 DEF RowKept, ReleaseOwed
  <2>4. CASE ~StillExpected(write[d].seen)
    <3>1. CASE GoTo(d, "ok") /\ Drop(d)
      BY <1>d, <2>1, <2>2, <2>4, <3>1 DEF WritePut
    <3>2. CASE GoTo(d, "failed") /\ UNCHANGED <<intent, armed, attempts>>
      <4>1. write'[d] # None /\ write'[d].stage = "failed" /\ write'[d].old = write[d].old
        BY <1>s, <1>t, <2>2, <3>2, GoToAfter
      <4> QED BY <1>g, <2>1, <2>2, <2>4, <3>2, <4>1 DEF WritePut
    <3> QED BY <2>1, <2>4, <3>1, <3>2 DEF WritePut
  <2> QED BY <2>3, <2>4
\* the recorded intent is written, again or for the first time
<1>i. ASSUME intent[d] # None, IssueWrite(d, intent[d], attempts[d], Gone(d), d \in store), UNCHANGED row
      PROVE  RowKept(d)'
  <2>1. intent[d] \in Intents /\ attempts[d] \in 0..MaxRetries
    BY <1>i, <1>t
  <2>2. /\ intent[d].kind = "claim" => Owed(d)'
        /\ intent[d].kind = "release" => ~intent[d].synced
    BY <1>i, <1>k, <1>w DEF RowKept, ReleaseOwed
  <2> QED BY <1>i, <1>k, <2>1, <2>2, IssueWriteKept
<1>6. CASE WriteSettles(d, Gone(d))
  <2>1. write[d] # None /\ write[d] \in Writes /\ write[d].stage \in {"ok", "failed"} /\ UNCHANGED row
    BY <1>6, <1>t DEF WriteSettles
  <2>2. CASE /\ intent[d] = None
             /\ write' = [write EXCEPT ![d] = None] /\ UNCHANGED <<queue, intent, armed, attempts>>
    BY <1>k, <1>t, <1>w, <2>1, <2>2 DEF RowKept, ReleaseOwed
  <2>3. CASE intent[d] # None /\ IssueWrite(d, intent[d], attempts[d], Gone(d), d \in store)
    BY <1>i, <2>1, <2>3
  <2>4. CASE /\ intent[d] # None /\ ~write[d].old /\ write[d].stage = "ok"
             /\ write' = [write EXCEPT ![d] = None]
             /\ intent' = [intent EXCEPT ![d] = Confirmed(intent[d])]
    <3>1. intent[d] \in Intents /\ write'[d] = None /\ intent'[d] = Confirmed(intent[d])
      BY <1>t, <2>4
    <3>2. CASE intent[d].kind = "release"
      <4>1. intent'[d] = None
        BY <3>1, <3>2 DEF Confirmed
      <4>2. ~Owns(d, row)
        BY <1>k, <2>1, <2>4, <3>2 DEF RowKept, ReleaseOwed
      <4> QED BY <2>1, <3>1, <4>1, <4>2 DEF RowKept, ReleaseOwed
    <3>3. CASE intent[d].kind = "claim"
      <4>1. Owed(d)' /\ intent'[d].kind = "claim"
        BY <1>k, <1>w, <2>4, <3>1, <3>3 DEF Confirmed, RowKept, Intents
      <4> QED BY <3>1, <4>1 DEF RowKept, ReleaseOwed
    <3> QED BY <3>1, <3>2, <3>3 DEF Intents
  <2>5. CASE /\ intent[d] # None
             /\ write' = [write EXCEPT ![d] = None] /\ UNCHANGED intent
             /\ ScheduleRetry(d, attempts[d])
    <3>1. write'[d] = None /\ (d \in armed' \/ attempts'[d] = MaxRetries)
      BY <1>k, <1>t, <2>5 DEF ScheduleRetry, CanRetry
    <3> QED BY <1>k, <1>w, <2>1, <2>5, <3>1 DEF RowKept, ReleaseOwed
  <2> QED BY <1>6, <1>k, <2>2, <2>3, <2>4, <2>5, Zenon DEF WriteSettles
<1>7. CASE RetryFires(d, Gone(d))
  <2>1. CASE intent[d] # None /\ IssueWrite(d, intent[d], attempts[d], Gone(d), d \in store)
    BY <1>7, <1>i, <2>1 DEF RetryFires
  <2>2. CASE /\ ~(intent[d] # None /\ ~intent[d].synced /\ write[d] = None)
             /\ armed' = armed \ {d} /\ UNCHANGED <<queue, intent, write, attempts>>
    BY <1>7, <1>k, <1>w, <2>2 DEF RetryFires, RowKept, ReleaseOwed
  <2> QED BY <1>7, <2>1, <2>2, Zenon DEF RetryFires
<1> QED BY <1>1, <1>2, <1>3, <1>4, <1>5, <1>6, <1>7 DEF MirrorStep

\* The opening of the registry, a crash, a wedge and a shutdown keep their daemon's part of it.
LEMMA LifecycleRowStep ==
  ASSUME TypeOK, NEW d \in Daemons, TableUse(d), Live(d) => RowKept(d),
         Registry(d) \/ Crash(d) \/ Wedge(d) \/ Unwedge(d) \/ ShutdownStep(d) \/ Exit(d)
  PROVE  TableUse(d)' /\ (Live(d) => RowKept(d))'
<1>t. /\ intent \in [Daemons -> Intents \cup {None}] /\ mode \in [Daemons -> Modes]
      /\ status \in [Daemons -> {"up", "wedged", "dead"}]
  BY DEF TypeOK, MirrorTypeOK
<1>1. CASE Registry(d)
  <2>1. TableUse(d)'
    BY <1>1 DEF Registry, ownershipVars, TableUse
  <2>2. CASE Skip(d)
    BY <1>t, <2>1, <2>2 DEF Skip, Live
  <2>3. CASE RegistryOpens(d, Gone(d)) /\ Live(d)'
    <3>1. /\ UNCHANGED <<row, mode, status, claimed, call>> /\ RowKept(d) /\ mode[d] = "on"
      BY <1>1, <2>3 DEF Registry, RegistryOpens, ownershipVars, Live
    <3>2. Owed(d)' = Owed(d)
      BY <3>1 DEF Owed
    <3>3. CASE intent[d] = None
      BY <2>1, <2>3, <3>1, <3>2, <3>3 DEF RegistryOpens, RowKept, ReleaseOwed
    <3>4. CASE intent[d] # None
      <4> DEFINE i == [intent[d] EXCEPT !.synced = FALSE]
      <4>0. 0 \in 0..MaxRetries /\ intent[d] \in Intents
        BY <1>t, <3>4, BoundsAssumption
      <4>1. i \in Intents /\ i.kind = intent[d].kind /\ ~i.synced
        BY <4>0 DEF Intents
      <4>2. IssueWrite(d, i, 0, Gone(d), TRUE)
        BY <2>3, <3>4 DEF RegistryOpens
      <4>3. i.kind = "claim" => Owed(d)'
        BY <3>1, <3>2, <3>4, <4>1 DEF RowKept
      <4> HIDE DEF i
      <4> QED BY <2>1, <3>1, <4>0, <4>1, <4>2, <4>3, IssueWriteKept
    <3> QED BY <3>3, <3>4
  <2> QED BY <1>1, <2>1, <2>2, <2>3 DEF Registry
<1>2. CASE Wedge(d) \/ Unwedge(d)
  <2>1. UNCHANGED <<row, mode, intent, armed, attempts, write, claimed, call>> /\ Live(d)' = Live(d)
    BY <1>2, <1>t DEF Wedge, Unwedge, mirrorVars, Live
  <2> QED BY <2>1 DEF TableUse, RowKept, Owed, ReleaseOwed
<1>3. CASE ShutdownStep(d)
  <2>1. ~Live(d)' /\ d \in Mirrored /\ UNCHANGED call
    BY <1>3, <1>t DEF ShutdownStep, Dispose, WithdrawOwned, Live, ownershipVars
  <2> QED BY <2>1 DEF TableUse
<1>4. CASE Crash(d) \/ Exit(d)
  <2>1. ~Live(d)'
    BY <1>4, <1>t DEF Crash, Exit, Live
  <2>2. UNCHANGED row /\ intent'[d] = None /\ Abandoned(d)
    BY <1>4, <1>t DEF Crash, Exit, MirrorDies
  <2>3. \A s \in Sessions : DaemonOf[s] = d => call'[s].pc = "over" /\ ~call'[s].byTable
    BY <2>2 DEF Abandoned, NewCall
  <2> QED BY <2>1, <2>2, <2>3 DEF TableUse, TableSteps
<1> QED BY <1>1, <1>2, <1>3, <1>4

\* A mirror records and writes for its own daemon.
MirrorAlone(e) ==
  /\ intent'[e] = intent[e] /\ write'[e] = write[e] /\ attempts'[e] = attempts[e]
  /\ (e \in armed') <=> (e \in armed)

\* The helpers of a mirror leave the other mirrors alone.
LEMMA HelpersAlone ==
  ASSUME TypeOK, NEW d \in Daemons, NEW e \in Daemons \ {d}
  PROVE  /\ \A used : ScheduleRetry(d, used) \/ Unarmed(d, used) =>
              attempts'[e] = attempts[e] /\ ((e \in armed') <=> (e \in armed))
         /\ \A i, used, gone, open : IssueWrite(d, i, used, gone, open) => MirrorAlone(e)
         /\ \A i, gone : Record(d, i, gone) => MirrorAlone(e)
         /\ RecordAcquired(d) => MirrorAlone(e)
<1>t. WriterTyped
  BY DEF TypeOK, MirrorTypeOK, WriterTyped
<1>1. ASSUME NEW used, ScheduleRetry(d, used) \/ Unarmed(d, used)
      PROVE  attempts'[e] = attempts[e] /\ ((e \in armed') <=> (e \in armed))
  BY <1>1, <1>t DEF WriterTyped, ScheduleRetry, Unarmed
<1>2. ASSUME NEW i, NEW used, NEW gone, NEW open, IssueWrite(d, i, used, gone, open)
      PROVE  MirrorAlone(e)
  <2>1. intent'[e] = intent[e] /\ write'[e] = write[e]
    BY <1>2, <1>t DEF IssueWrite, WriterTyped
  <2>2. \E n : ScheduleRetry(d, n) \/ Unarmed(d, n)
    BY <1>2, Zenon DEF IssueWrite
  <2> QED BY <1>1, <2>1, <2>2 DEF MirrorAlone
<1>3. ASSUME NEW i, NEW gone, Record(d, i, gone) PROVE MirrorAlone(e)
  <2>1. CASE mode[d] # "on"
    BY <1>3, <2>1 DEF Record, MirrorAlone
  <2>2. CASE mode[d] = "on" /\ write[d] = None
    BY <1>2, <1>3, <2>2 DEF Record
  <2>3. CASE mode[d] = "on" /\ write[d] # None
    <3>1. /\ intent' = [intent EXCEPT ![d] = i] /\ write' = [write EXCEPT ![d].old = TRUE]
          /\ Unarmed(d, 0)
      BY <1>3, <2>3 DEF Record
    <3> QED BY <1>1, <1>t, <3>1 DEF MirrorAlone, WriterTyped
  <2> QED BY <2>1, <2>2, <2>3
<1>4. ASSUME RecordAcquired(d) PROVE MirrorAlone(e)
  <2>1. intent'[e] = intent[e] /\ write'[e] = write[e]
    BY <1>4, <1>t DEF RecordAcquired, WriterTyped
  <2> QED BY <1>1, <1>4, <2>1 DEF MirrorAlone, RecordAcquired
<1> QED BY <1>1, <1>2, <1>3, <1>4

\* A claim call's step leaves the other daemons alone.
LEMMA CallLeavesAlone ==
  ASSUME TypeOK, NEW s \in Sessions, NEW d \in Daemons, d = DaemonOf[s], NEW e \in Daemons \ {d},
         CallEffect(s, d), RowEffect(s, d)
  PROVE  LeavesAlone(e)
<1>1. /\ UNCHANGED <<mode, status>> /\ ((e \in claimed') <=> (e \in claimed))
      /\ \A t \in Sessions : DaemonOf[t] = e => call'[t] = call[t]
  BY DEF CallEffect
<1>2. MirrorAlone(e)
  <2>1. CASE UNCHANGED <<row, intent, armed, attempts, write>>
    BY <2>1 DEF MirrorAlone
  <2>2. CASE RecordAcquired(d) \/ \E i, gone : Record(d, i, gone)
    BY <2>2, HelpersAlone
  <2> QED BY <2>1, <2>2 DEF RowEffect
<1>3. Owns(e, row') => Owns(e, row)
  BY DEF RowEffect, Owns
<1> QED BY <1>1, <1>2, <1>3 DEF LeavesAlone, MirrorAlone

\* So does every other step of a daemon, whose mirror takes a row only for itself.
LEMMA DaemonLeavesAlone ==
  ASSUME TypeOK, NEW d \in Daemons, NEW e \in Daemons \ {d},
         \/ MirrorStep(d) \/ Registry(d) \/ Crash(d) \/ Wedge(d) \/ Unwedge(d)
         \/ ShutdownStep(d) \/ Exit(d)
  PROVE  LeavesAlone(e)
<1>t. WriterTyped /\ mode \in [Daemons -> Modes] /\ status \in [Daemons -> {"up", "wedged", "dead"}]
  BY DEF TypeOK, MirrorTypeOK, WriterTyped
<1>n. ASSUME NEW at PROVE ~Owns(e, NewRow(d, at))
  BY DEF Owns, NewRow
<1>d. Drop(d) => intent'[e] = intent[e] /\ attempts'[e] = attempts[e] /\ ((e \in armed') <=> (e \in armed))
  BY <1>t, HelpersAlone DEF Drop, WriterTyped
<1>g. \A st : GoTo(d, st) => write'[e] = write[e]
  BY <1>t DEF GoTo, WriterTyped
<1>1. CASE MirrorStep(d)
  <2>1. UNCHANGED <<status, mode, claimed, call>>
    BY <1>1 DEF MirrorStep, JudgeForWrite, WriteJudge, WriteDelete, WriteGet, WriteThrows, WritePut,
       WriteSettles, RetryFires, ownershipVars
  <2>2. Owns(e, row') => Owns(e, row)
    BY <1>1, <1>n DEF MirrorStep, JudgeForWrite, WriteJudge, WriteDelete, WriteGet, WriteThrows, WritePut,
       WriteSettles, RetryFires, DeleteOwn, Owns
  <2>3. MirrorAlone(e)
    <3>1. CASE \E live \in BOOLEAN : JudgeForWrite(d, live)
      BY <1>g, <3>1 DEF JudgeForWrite, WriteJudge, MirrorAlone
    <3>2. CASE WriteDelete(d) \/ WriteThrows(d)
      BY <1>g, <3>2 DEF WriteDelete, WriteThrows, MirrorAlone
    <3>3. CASE WriteGet(d)
      <4>1. CASE GoTo(d, "ok") /\ Drop(d)
        BY <1>d, <1>g, <4>1 DEF MirrorAlone
      <4>2. CASE \E st : /\ write' = [write EXCEPT ![d].stage = st, ![d].seen = row]
                         /\ UNCHANGED <<intent, armed, attempts>>
        BY <1>t, <4>2 DEF MirrorAlone, WriterTyped
      <4> QED BY <3>3, <4>1, <4>2 DEF WriteGet
    <3>4. CASE \E at \in Stamps : WritePut(d, at)
      <4>1. PICK at \in Stamps : WritePut(d, at)
        BY <3>4
      <4>2. \E st : GoTo(d, st)
        BY <4>1, Zenon DEF WritePut
      <4>3. Drop(d) \/ UNCHANGED <<intent, armed, attempts>>
        BY <4>1, Zenon DEF WritePut
      <4> QED BY <1>d, <1>g, <4>2, <4>3 DEF MirrorAlone
    <3>5. CASE WriteSettles(d, Gone(d))
      <4>1. CASE IssueWrite(d, intent[d], attempts[d], Gone(d), d \in store)
        BY <4>1, HelpersAlone
      <4>2. CASE /\ write' = [write EXCEPT ![d] = None]
                 /\ UNCHANGED intent \/ intent' = [intent EXCEPT ![d] = Confirmed(intent[d])]
                 /\ \/ UNCHANGED <<armed, attempts>>
                    \/ \E n : ScheduleRetry(d, n) \/ Unarmed(d, n)
        BY <1>t, <4>2, HelpersAlone DEF MirrorAlone, WriterTyped
      <4> QED BY <3>5, <4>1, <4>2, Zenon DEF WriteSettles
    <3>6. CASE RetryFires(d, Gone(d))
      <4>1. CASE IssueWrite(d, intent[d], attempts[d], Gone(d), d \in store)
        BY <4>1, HelpersAlone
      <4>2. CASE armed' = armed \ {d} /\ UNCHANGED <<queue, intent, write, attempts>>
        BY <4>2 DEF MirrorAlone
      <4> QED BY <3>6, <4>1, <4>2 DEF RetryFires
    <3> QED BY <1>1, <3>1, <3>2, <3>3, <3>4, <3>5, <3>6 DEF MirrorStep
  <2> QED BY <2>1, <2>2, <2>3 DEF LeavesAlone, MirrorAlone
<1>2. CASE Registry(d)
  <2>1. CASE RegistryOpens(d, Gone(d))
    <3>1. UNCHANGED <<row, mode, status, claimed, call>>
      BY <1>2, <2>1 DEF Registry, RegistryOpens, ownershipVars
    <3>2. MirrorAlone(e)
      <4>1. CASE UNCHANGED <<queue, intent, write, armed, attempts>>
        BY <4>1 DEF MirrorAlone
      <4>2. CASE \E i : IssueWrite(d, i, 0, Gone(d), TRUE)
        BY <4>2, HelpersAlone
      <4> QED BY <2>1, <4>1, <4>2 DEF RegistryOpens
    <3> QED BY <3>1, <3>2 DEF LeavesAlone, MirrorAlone
  <2>2. CASE Skip(d)
    <3>1. attempts'[e] = attempts[e] /\ ((e \in armed') <=> (e \in armed))
      BY <2>2, HelpersAlone DEF Skip
    <3> QED BY <1>2, <1>t, <2>2, <3>1 DEF Registry, Skip, ownershipVars, LeavesAlone, WriterTyped
  <2> QED BY <1>2, <2>1, <2>2 DEF Registry
<1>3. CASE Wedge(d) \/ Unwedge(d)
  BY <1>3, <1>t DEF Wedge, Unwedge, mirrorVars, LeavesAlone
<1>4. CASE ShutdownStep(d)
  BY <1>4, <1>t DEF ShutdownStep, Dispose, WithdrawOwned, DeleteOwn, Owns, ownershipVars, LeavesAlone
<1>5. CASE Crash(d) \/ Exit(d)
  <2>1. MirrorDies(d) /\ Abandoned(d) /\ status' = [status EXCEPT ![d] = "dead"] /\ claimed' = claimed \ {d}
    BY <1>5 DEF Crash, Exit
  <2>2. attempts'[e] = attempts[e] /\ ((e \in armed') <=> (e \in armed))
    BY <2>1, HelpersAlone DEF MirrorDies
  <2>3. \A t \in Sessions : DaemonOf[t] = e => call'[t] = call[t]
    BY <2>1 DEF Abandoned
  <2> QED BY <1>t, <2>1, <2>2, <2>3 DEF MirrorDies, LeavesAlone, WriterTyped
<1> QED BY <1>1, <1>2, <1>3, <1>4, <1>5

\* RowInv is inductive, given the types.
LEMMA RowInvStep == TypeOK /\ RowInv /\ [Next]_vars => RowInv'
<1> SUFFICES ASSUME TypeOK, RowInv, [Next]_vars PROVE RowInv'
  OBVIOUS
<1>d. \A s \in Sessions : DaemonOf[s] \in Daemons
  BY OwnershipAssumption DEF Sessions
<1>1. ASSUME NEW s \in Sessions, Assign(s) \/ CallStep(s) \/ Release(s) PROVE RowInv'
  <2> DEFINE d == DaemonOf[s]
  <2>1. d \in Daemons /\ d = DaemonOf[s]
    BY <1>d
  <2> HIDE DEF d
  <2>2. CallEffect(s, d) /\ RowEffect(s, d)
    BY <1>1, <2>1, CallRowEffect DEF RowInv
  <2>3. TableUse(d)' /\ (Live(d) => RowKept(d))'
    BY <2>1, <2>2, CallRowStep DEF RowInv
  <2>4. ASSUME NEW e \in Daemons \ {d} PROVE TableUse(e)' /\ (Live(e) => RowKept(e))'
    BY <2>1, <2>2, CallLeavesAlone, RowInvAlone DEF RowInv
  <2> QED BY <2>3, <2>4 DEF RowInv
<1>2. ASSUME NEW d \in Daemons,
             \/ MirrorStep(d) \/ Registry(d) \/ Crash(d) \/ Wedge(d) \/ Unwedge(d)
             \/ ShutdownStep(d) \/ Exit(d)
      PROVE  RowInv'
  <2>1. TableUse(d)' /\ (Live(d) => RowKept(d))'
    BY <1>2, MirrorRowStep, LifecycleRowStep DEF RowInv
  <2>2. ASSUME NEW e \in Daemons \ {d} PROVE TableUse(e)' /\ (Live(e) => RowKept(e))'
    <3>1. LeavesAlone(e)
      BY <1>2, DaemonLeavesAlone
    <3> QED BY <3>1, RowInvAlone DEF RowInv
  <2> QED BY <2>1, <2>2 DEF RowInv
<1>3. CASE UNCHANGED vars
  BY <1>3 DEF vars, mirrorVars, ownershipVars, RowInv, TableUse, Live, RowKept, Owed, ReleaseOwed
<1> QED BY <1>1, <1>2, <1>3 DEF Next

\* RowInv holds at the start.
LEMMA RowInvInit == Init => RowInv
<1> SUFFICES ASSUME Init PROVE RowInv
  OBVIOUS
<1>1. \A s \in Sessions : call[s].pc = "new" /\ ~call[s].byTable
  BY DEF Init, NewCall
<1>2. \A d \in Daemons : intent[d] = None /\ write[d] = None /\ ~Owns(d, row)
  BY DEF Init, MirrorInit, Owns
<1> QED BY <1>1, <1>2 DEF RowInv, TableUse, RowKept, ReleaseOwed, TableSteps

\* A row never outlives the assignment either (recordRelease, the mirror's retries): once no session
\* of a running daemon holds the device and no claim call is under way, the row names the daemon only
\* while its mirror still has the delete to write, to retry, or has used up its retries.
THEOREM RowEndsWithAssignment == Spec => []NoStrandedRow
<1>1. Init => ClaimInv /\ RowInv
  BY ClaimInvInit, RowInvInit
<1>2. ClaimInv /\ RowInv /\ TypeOK' /\ [Next]_vars => (ClaimInv /\ RowInv)'
  BY ClaimInvStep, RowInvStep DEF ClaimInv
<1>3. ClaimInv /\ RowInv => NoStrandedRow
  <2> SUFFICES ASSUME ClaimInv, RowInv, NEW d \in Daemons, status[d] = "up", holder[d] = None,
                      MirrorQuiet(d), ~Claiming(d), Owns(d, row)
               PROVE  FALSE
    BY DEF NoStrandedRow
  <2>1. RowKept(d)
    BY DEF MirrorQuiet, RowInv, Live
  <2>2. ~Owed(d)
    BY DEF ClaimInv, ClaimedHeld, Owed, Claiming, RowInv, TableUse, InFlight, FileSteps
  <2>3. attempts[d] # MaxRetries
    BY BoundsAssumption DEF MirrorQuiet, ClaimInv, TypeOK, MirrorTypeOK
  <2> QED BY <2>1, <2>2, <2>3 DEF RowKept, MirrorQuiet
<1> QED BY <1>1, <1>2, <1>3, TypeCorrect, PTL DEF Spec

-----------------------------------------------------------------------------
(* Two daemons never drive the same device.  The claim file is what decides between them, so  *)
(* every daemon has to be able to write it, and what a daemon did not finish about one        *)
(* binding of the device must not reach the next: a verdict that its owner is gone is used    *)
(* only later, and a call that is still under way gives the file of its daemon back.          *)

\* no claim call of daemon d is under way, and nobody is about to take over its claim file
FileQuiet(d) == ~Claiming(d) /\ \A s \in Sessions : call[s].pc = "takeOver" => call[s].seenFile # d

\* a daemon binds the device again only when its file is quiet
RebindsQuietly == \A s \in Sessions : Assign(s) => FileQuiet(DaemonOf[s])

\* daemon d does not drive the device, and will not before it binds a session again
Quit(d) == status[d] = "dead" \/ d \in lapsed \/ holder[d] = None

\* a binding is that of a session of the daemon, and only its call is under way
CallsHold ==
  /\ \A d \in Daemons : holder[d] # None => DaemonOf[holder[d]] = d
  /\ \A s \in Sessions :
        /\ call[s].pc \in {"held", "threw"} => holder[DaemonOf[s]] = s
        /\ call[s].pc \in InFlight => holder[DaemonOf[s]] \in {s, None}

\* only a daemon that can write the claim directory gets past the attempt to
FileUse == FileSteps \ {"takeFile", "publish"}
FileWritten ==
  /\ file # None => file \in Writable
  /\ \A s \in Sessions : call[s].pc \in FileUse => DaemonOf[s] \in Writable

\* the session that has the device, once its call has taken the file, is named by the file
FileHeld ==
  \A s \in Sessions :
     /\ call[s].pc \in Taken \cup {"held"} /\ DaemonOf[s] \in Writable
     /\ holder[DaemonOf[s]] = s /\ ~Quit(DaemonOf[s])
     => file = DaemonOf[s]

\* who is about to take over a file has judged an owner that still does not drive the device
FileVerdict ==
  \A s \in Sessions, d \in Daemons : call[s].pc = "takeOver" /\ call[s].seenFile = d => Quit(d)

FileInv == CallsHold /\ FileWritten /\ FileHeld /\ FileVerdict

\* A verdict that an owner is gone is given of one that does not drive the device.
LEMMA VerdictQuit ==
  ASSUME TypeOK, NEW o \in Daemons, FALSE \in Verdicts(o), NoteLapse(o, FALSE),
         UNCHANGED <<status, holder>>
  PROVE  Quit(o)'
<1>1. CASE status[o] = "dead"
  BY <1>1 DEF Quit
<1>2. CASE status[o] = "wedged"
  BY <1>2 DEF NoteLapse, Quit
<1>3. CASE status[o] = "up"
  BY <1>3 DEF Verdicts, Quit
<1> QED BY <1>1, <1>2, <1>3 DEF TypeOK

\* The steps of a claim call after its assignment, and the release, keep FileInv.
LEMMA FileCallStep ==
  ASSUME TypeOK, FileInv, NEW s \in Sessions, NEW d \in Daemons, d = DaemonOf[s],
         CallStep(s) \/ Release(s)
  PROVE  FileInv'
<1>t. /\ call \in [Sessions -> CallStates] /\ holder \in [Daemons -> Sessions \cup {None}]
      /\ file \in Daemons \cup {None} /\ None \notin Sessions /\ None \notin Daemons
      /\ \A t \in Sessions : DaemonOf[t] \in Daemons
  BY NoneAssumption, OwnershipAssumption DEF TypeOK, Sessions
<1>q. ASSUME UNCHANGED status, lapsed \subseteq lapsed', NEW e \in Daemons,
             holder'[e] \in {holder[e], None}, Quit(e)
      PROVE  Quit(e)'
  BY <1>q DEF Quit
\* a step that moves the call, and leaves bindings and file alone
<1>m. ASSUME UNCHANGED <<status, holder, file>>, lapsed \subseteq lapsed', NEW p, NEW f, NEW r,
             CallIs(s, p, f, r), call[s].pc \in InFlight,
             p \in InFlight \/ p = "over" \/ (p \in {"held", "threw"} /\ holder[d] = s),
             p \in FileUse => d \in Writable,
             p \in Taken \cup {"held"} /\ d \in Writable => call[s].pc \in Taken \/ file = d,
             p = "takeOver" => \A e \in Daemons : f = e => Quit(e)'
      PROVE  FileInv'
  <2>1. CallsHold'
    BY <1>m DEF FileInv, CallsHold, CallIs, InFlight
  <2>2. FileWritten'
    BY <1>m DEF FileInv, FileWritten, CallIs
  <2>3. FileHeld'
    BY <1>m, <1>q, <1>t DEF FileInv, FileHeld, CallIs
  <2>4. FileVerdict'
    BY <1>m, <1>q, <1>t DEF FileInv, FileVerdict, CallIs
  <2> QED BY <2>1, <2>2, <2>3, <2>4 DEF FileInv
\* a step that takes the file for its daemon, from nobody or from an owner that was judged
<1>f. ASSUME UNCHANGED <<status, holder, lapsed>>, file' = d, d \in Writable,
             CallIs(s, "confirm", None, None), call[s].pc \in InFlight,
             \A e \in Daemons : file = e => Quit(e)
      PROVE  FileInv'
  <2>1. CallsHold'
    BY <1>f DEF FileInv, CallsHold, CallIs, InFlight
  <2>2. FileWritten'
    BY <1>f DEF FileInv, FileWritten, CallIs
  <2>3. FileHeld'
    BY <1>f, <1>t DEF FileInv, FileHeld, CallIs, Quit
  <2>4. FileVerdict'
    BY <1>f, <1>q, <1>t DEF FileInv, FileVerdict, CallIs
  <2> QED BY <2>1, <2>2, <2>3, <2>4 DEF FileInv
\* a step that gives the file of its daemon back, or unbinds the device, or both
<1>g. ASSUME UNCHANGED status, lapsed \subseteq lapsed',
             file' \in {file, IF file = d THEN None ELSE file},
             holder' \in {holder, [holder EXCEPT ![d] = None]}, holder[d] \in {s, None},
             \A t \in Sessions : t # s => call'[t] = call[t],
             \/ call'[s] = call[s] /\ call[s].pc \in InFlight /\ holder'[d] = None
             \/ call'[s].pc = "over" /\ (holder'[d] = None \/ UNCHANGED holder)
             \/ call'[s].pc = "rollback" /\ UNCHANGED holder
      PROVE  FileInv'
  <2>h. \A e \in Daemons : holder'[e] \in {holder[e], None} /\ (e # d => holder'[e] = holder[e])
    BY <1>g, <1>t
  <2>1. CallsHold'
    BY <1>g, <1>t, <2>h DEF FileInv, CallsHold, InFlight
  <2>2. FileWritten'
    BY <1>g, <1>t DEF FileInv, FileWritten, FileUse, FileSteps
  <2>3. ASSUME NEW t \in Sessions, call'[t].pc \in Taken \cup {"held"}, DaemonOf[t] \in Writable,
               holder'[DaemonOf[t]] = t, ~Quit(DaemonOf[t])'
        PROVE  file' = DaemonOf[t]
    <3>1. t # s /\ call'[t] = call[t]
      BY <1>g, <1>t, <2>3 DEF Taken
    <3>2. DaemonOf[t] # d
      BY <1>g, <1>t, <2>3, <3>1
    <3>3. ~Quit(DaemonOf[t]) /\ holder[DaemonOf[t]] = t
      BY <1>g, <1>q, <1>t, <2>3, <2>h, <3>2
    <3>4. file = DaemonOf[t]
      BY <2>3, <3>1, <3>3 DEF FileInv, FileHeld
    <3> QED BY <1>g, <3>2, <3>4
  <2>4. FileVerdict'
    BY <1>g, <1>q, <1>t, <2>h DEF FileInv, FileVerdict
  <2> QED BY <2>1, <2>2, <2>3, <2>4 DEF FileInv, FileHeld
<1>1. CASE CheckFile(s)
  <2>1. PICK p, f : p \in {"takeFile", "acquire", "judgeFile"} /\ CallIs(s, p, f, None)
    BY <1>1, CallAfter DEF CheckFile, FilesDecide
  <2>2. UNCHANGED <<status, holder, file>> /\ lapsed \subseteq lapsed' /\ call[s].pc \in InFlight
    BY <1>1 DEF CheckFile, FilesDecide, At, InFlight, mirrorVars
  <2> QED BY <1>m, <2>1, <2>2 DEF InFlight, Taken, FileUse, FileSteps
<1>2. CASE Acquire(s)
  <2>1. PICK p \in {"getRow", "takeFile"} : CallIs(s, p, None, None)
    BY <1>2, CallAfter DEF Acquire, FilesDecide
  <2>2. UNCHANGED <<status, holder, file>> /\ lapsed \subseteq lapsed' /\ call[s].pc \in InFlight
    BY <1>2 DEF Acquire, FilesDecide, At, InFlight, mirrorVars
  <2> QED BY <1>m, <2>1, <2>2 DEF InFlight, Taken, FileUse, FileSteps
<1>3. CASE AcquireThrows(s)
  <2>1. PICK p \in {"rollback", "threw", "over"} : CallIs(s, p, None, None) /\ (p = "threw" => holder[d] = s)
    BY <1>3, CallAfter DEF AcquireThrows
  <2>2. UNCHANGED <<status, holder, file, lapsed>> /\ call[s].pc \in InFlight
    BY <1>3 DEF AcquireThrows, At, InFlight
  <2> QED BY <1>m, <2>1, <2>2 DEF InFlight, Taken, FileUse, FileSteps
<1>4. CASE GetRow(s)
  <2>1. PICK p, r : p \in {"casRow", "judgeRow"} /\ CallIs(s, p, None, r)
    BY <1>4, CallAfter DEF GetRow
  <2>2. UNCHANGED <<status, holder, file>> /\ lapsed \subseteq lapsed' /\ call[s].pc \in InFlight
    BY <1>4 DEF GetRow, At, InFlight, mirrorVars
  <2> QED BY <1>m, <2>1, <2>2 DEF InFlight, Taken, FileUse, FileSteps
<1>5. CASE Winner(s)
  <2>1. PICK p \in {"takeFile", "rollback"} : CallIs(s, p, None, None)
    BY <1>5, CallAfter DEF Winner, FilesDecide
  <2>2. UNCHANGED <<status, holder, file>> /\ lapsed \subseteq lapsed' /\ call[s].pc \in InFlight
    BY <1>5 DEF Winner, FilesDecide, At, InFlight, mirrorVars
  <2> QED BY <1>m, <2>1, <2>2 DEF InFlight, Taken, FileUse, FileSteps
<1>6. CASE StatementThrows(s)
  <2>1. PICK p \in {"takeFile"} : CallIs(s, p, None, None)
    BY <1>6, CallAfter DEF StatementThrows, FilesDecide
  <2>2. UNCHANGED <<status, holder, file>> /\ lapsed \subseteq lapsed' /\ call[s].pc \in InFlight
    BY <1>6 DEF StatementThrows, FilesDecide, At, InFlight, mirrorVars
  <2> QED BY <1>m, <2>1, <2>2 DEF InFlight, Taken, FileUse, FileSteps
<1>7. CASE \E live \in BOOLEAN : JudgeFile(s, live)
  <2>1. PICK p \in {"rollback", "acquire"} : CallIs(s, p, None, None)
    BY <1>7, CallAfter DEF JudgeFile, Refused
  <2>2. UNCHANGED <<status, holder, file>> /\ lapsed \subseteq lapsed' /\ call[s].pc \in InFlight
    BY <1>7 DEF JudgeFile, Refused, At, InFlight, NoteLapse, mirrorVars
  <2> QED BY <1>m, <2>1, <2>2 DEF InFlight, Taken, FileUse, FileSteps
<1>8. CASE \E live \in BOOLEAN : JudgeRow(s, live)
  <2>1. PICK p \in {"rollback", "casRow"}, r \in {None, call[s].seenRow} : CallIs(s, p, None, r)
    BY <1>8, CallAfter DEF JudgeRow, Refused
  <2>2. UNCHANGED <<status, holder, file>> /\ lapsed \subseteq lapsed' /\ call[s].pc \in InFlight
    BY <1>8 DEF JudgeRow, Refused, At, InFlight, NoteLapse, mirrorVars
  <2> QED BY <1>m, <2>1, <2>2 DEF InFlight, Taken, FileUse, FileSteps
<1>9. CASE \E at \in Stamps : FreshStamp(at) /\ CasRow(s, at)
  <2>1. PICK at \in Stamps : CasRow(s, at)
    BY <1>9
  <2>2. PICK p \in {"takeFile", "getRow", "winner"} : CallIs(s, p, None, None)
    BY <2>1, CasRowAfter
  <2>3. UNCHANGED <<status, holder, file, lapsed>> /\ call[s].pc \in InFlight
    BY <2>1 DEF CasRow, At, InFlight
  <2> QED BY <1>m, <2>2, <2>3 DEF InFlight, Taken, FileUse, FileSteps
<1>10. CASE Confirm(s)
  <2>1. PICK p \in {"publish", "tableRead"} : CallIs(s, p, None, None)
    BY <1>10, CallAfter DEF Confirm, FileClaimed
  <2>2. UNCHANGED <<status, holder, file, lapsed>> /\ call[s].pc \in FileUse \cap Taken
    BY <1>10 DEF Confirm, At, FileUse, FileSteps, Taken
  <2>3. d \in Writable
    BY <2>2 DEF FileInv, FileWritten
  <2> QED BY <1>m, <2>1, <2>2, <2>3 DEF InFlight, Taken, FileUse, FileSteps
<1>11. CASE \E live \in BOOLEAN : TableRead(s, live)
  <2>1. PICK p, r : p \in {"judgeTable", "tableOk"} /\ CallIs(s, p, None, r)
    BY <1>11, CallAfter DEF TableRead
  <2>2. UNCHANGED <<status, holder, file, lapsed>> /\ call[s].pc \in FileUse \cap Taken
    BY <1>11 DEF TableRead, At, FileUse, FileSteps, Taken
  <2>3. d \in Writable
    BY <2>2 DEF FileInv, FileWritten
  <2> QED BY <1>m, <2>1, <2>2, <2>3 DEF InFlight, Taken, FileUse, FileSteps
<1>12. CASE TableOk(s)
  <2>1. PICK p \in {"publish"} : CallIs(s, p, None, None)
    BY <1>12, CallAfter DEF TableOk, FileClaimed
  <2>2. UNCHANGED <<status, holder, file, lapsed>> /\ call[s].pc \in FileUse \cap Taken
    BY <1>12 DEF TableOk, At, FileUse, FileSteps, Taken
  <2>3. d \in Writable
    BY <2>2 DEF FileInv, FileWritten
  <2> QED BY <1>m, <2>1, <2>2, <2>3 DEF InFlight, Taken, FileUse, FileSteps
<1>13. CASE TakeFile(s)
  <2>1. UNCHANGED <<status, holder, lapsed>> /\ call[s].pc \in InFlight
    BY <1>13 DEF TakeFile, At, InFlight
  <2>2. CASE d \in Writable /\ file = None
    BY <1>13, <1>f, <1>t, <2>1, <2>2, CallAfter DEF TakeFile
  <2>3. CASE ~(d \in Writable /\ file = None)
    <3>1. PICK p \in {"publish", "judgeOwner"}, f \in {None, file} :
                         /\ CallIs(s, p, f, None)
                         /\ (p = "publish" /\ d \in Writable => file = d) /\ (p = "judgeOwner" => d \in Writable)
      BY <1>13, <2>3, CallAfter DEF TakeFile, FileClaimed
    <3>2. UNCHANGED file
      BY <1>13, <2>3 DEF TakeFile
    <3> QED BY <1>m, <2>1, <3>1, <3>2 DEF InFlight, Taken, FileUse, FileSteps
  <2> QED BY <2>2, <2>3
<1>14. CASE \E live \in BOOLEAN : JudgeOwner(s, live)
  <2> DEFINE o == call[s].seenFile
  <2>0. /\ UNCHANGED <<status, holder, file>> /\ lapsed \subseteq lapsed' /\ call[s].pc \in InFlight
        /\ call[s].pc \in FileUse
    BY <1>14 DEF JudgeOwner, NoteLapse, At, InFlight, FileUse, FileSteps
  <2>w. d \in Writable
    BY <2>0 DEF FileInv, FileWritten
  <2>1. CASE JudgeOwner(s, TRUE)
    <3>1. CallIs(s, "rollback", None, None)
      BY <2>1, CallAfter DEF JudgeOwner, Refused
    <3> QED BY <1>m, <2>0, <3>1 DEF InFlight, Taken, FileUse, FileSteps
  <2>2. CASE JudgeOwner(s, FALSE)
    <3>1. CallIs(s, "takeOver", o, None)
      BY <2>2, CallAfter DEF JudgeOwner
    <3>2. ASSUME NEW e \in Daemons, o = e PROVE Quit(e)'
      BY <2>0, <2>2, <3>2, VerdictQuit DEF JudgeOwner
    <3> HIDE DEF o
    <3> QED BY <1>m, <2>0, <2>w, <3>1, <3>2 DEF InFlight, Taken, FileUse, FileSteps
  <2> QED BY <1>14, <2>1, <2>2
<1>15. CASE TakeOver(s)
  <2>1. UNCHANGED <<status, holder, lapsed>> /\ call[s].pc = "takeOver" /\ call[s].pc \in InFlight
    BY <1>15 DEF TakeOver, At, InFlight
  <2>2. CASE file = call[s].seenFile
    <3>1. file' = d /\ CallIs(s, "confirm", None, None)
      BY <1>15, <2>2, CallAfter DEF TakeOver
    <3>2. \A e \in Daemons : file = e => Quit(e)
      BY <2>1, <2>2 DEF FileInv, FileVerdict
    <3>3. d \in Writable
      BY <2>1 DEF FileInv, FileWritten, FileUse, FileSteps
    <3> QED BY <1>f, <2>1, <3>1, <3>2, <3>3
  <2>3. CASE file # call[s].seenFile
    <3>1. UNCHANGED file /\ CallIs(s, "rollback", None, None)
      BY <1>15, <2>3, CallAfter DEF TakeOver, Refused
    <3> QED BY <1>m, <2>1, <3>1 DEF InFlight, Taken, FileUse, FileSteps
  <2> QED BY <2>2, <2>3
<1>16. CASE \E live \in BOOLEAN : JudgeTable(s, live)
  <2>1. /\ UNCHANGED <<status, holder>> /\ lapsed \subseteq lapsed' /\ call[s].pc \in Taken
        /\ call[s].pc \in InFlight
    BY <1>16 DEF JudgeTable, NoteLapse, At, InFlight, Taken
  <2>2. CASE JudgeTable(s, TRUE)
    <3>1. CallIs(s, "rollback", None, None) /\ file' = (IF file = d THEN None ELSE file)
      BY <2>2, CallAfter DEF JudgeTable, Refused
    <3>2. holder[d] \in {s, None}
      BY <2>1 DEF FileInv, CallsHold
    <3> QED BY <1>g, <2>1, <3>1, <3>2 DEF CallIs
  <2>3. CASE JudgeTable(s, FALSE)
    <3>1. CallIs(s, "publish", None, None) /\ UNCHANGED file
      BY <2>3, CallAfter DEF JudgeTable, FileClaimed
    <3> QED BY <1>m, <2>1, <3>1 DEF InFlight, Taken, FileUse, FileSteps
  <2> QED BY <1>16, <2>2, <2>3
<1>17. CASE Publish(s)
  <2>1. UNCHANGED <<status, holder, lapsed>> /\ call[s].pc \in Taken /\ call[s].pc \in InFlight
    BY <1>17 DEF Publish, At, InFlight, Taken
  <2>2. CASE holder[d] # None
    <3>1. PICK p \in {"held", "over"} : CallIs(s, p, None, None) /\ (p = "held" => holder[d] = s)
      BY <1>17, CallAfter DEF Publish
    <3>2. UNCHANGED file
      BY <1>17, <2>2 DEF Publish
    <3> QED BY <1>m, <2>1, <3>1, <3>2 DEF Taken, FileUse, FileSteps
  <2>3. CASE holder[d] = None
    <3>1. CallIs(s, "over", None, None) /\ file' = (IF file = d THEN None ELSE file)
      BY <1>17, <1>t, <2>3, CallAfter DEF Publish
    <3> QED BY <1>g, <2>1, <2>3, <3>1 DEF CallIs
  <2> QED BY <2>2, <2>3
<1>18. CASE Rollback(s)
  <2>1. UNCHANGED <<status, lapsed>> /\ call[s].pc \in InFlight /\ CallIs(s, "over", None, None)
    BY <1>18, CallAfter DEF Rollback, At, InFlight
  <2>2. holder[d] \in {s, None}
    BY <2>1 DEF FileInv, CallsHold
  <2>3. CASE holder[d] = s
    <3>1. holder' = [holder EXCEPT ![d] = None] /\ file' \in {file, IF file = d THEN None ELSE file}
      BY <1>18, <2>3 DEF Rollback, WithdrawClaim
    <3>2. holder'[d] = None
      BY <1>t, <3>1
    <3> QED BY <1>g, <2>1, <2>3, <3>1, <3>2 DEF CallIs
  <2>4. CASE holder[d] # s
    BY <1>18, <1>g, <2>1, <2>2, <2>4 DEF Rollback, CallIs
  <2> QED BY <2>3, <2>4
<1>19. CASE Release(s)
  <2>1. /\ UNCHANGED <<status, lapsed>> /\ holder' = [holder EXCEPT ![d] = None]
        /\ file' \in {file, IF file = d THEN None ELSE file}
    BY <1>19 DEF Release, WithdrawClaim
  <2>2. holder'[d] = None /\ holder[d] = s
    BY <1>19, <1>t, <2>1 DEF Release
  <2>3. CASE call[s].pc \in InFlight
    BY <1>19, <1>g, <2>1, <2>2, <2>3 DEF Release
  <2>4. CASE call[s].pc \notin InFlight
    <3>1. CallIs(s, "over", None, None)
      BY <1>19, <2>4, CallAfter DEF Release
    <3> QED BY <1>g, <2>1, <2>2, <3>1 DEF CallIs
  <2> QED BY <2>3, <2>4
<1> QED BY <1>1, <1>2, <1>3, <1>4, <1>5, <1>6, <1>7, <1>8, <1>9, <1>10, <1>11, <1>12, <1>13, <1>14, <1>15,
           <1>16, <1>17, <1>18, <1>19 DEF CallStep

\* The assignment of the device keeps FileInv when the daemon's file is quiet.
LEMMA FileAssignStep ==
  ASSUME TypeOK, FileInv, NEW s \in Sessions, NEW d \in Daemons, d = DaemonOf[s],
         Assign(s), FileQuiet(d)
  PROVE  FileInv'
<1>t. /\ holder \in [Daemons -> Sessions \cup {None}] /\ None \notin Sessions
      /\ \A t \in Sessions : DaemonOf[t] \in Daemons
  BY NoneAssumption, OwnershipAssumption DEF TypeOK, Sessions
<1>1. /\ CallIs(s, "assigned", None, None) /\ UNCHANGED <<status, lapsed, file>>
      /\ holder[d] = None /\ holder' = [holder EXCEPT ![d] = s]
  BY CallAfter DEF Assign
<1>2. holder'[d] = s /\ \A e \in Daemons : e # d => holder'[e] = holder[e] /\ (Quit(e)' <=> Quit(e))
  BY <1>1, <1>t DEF Quit
<1>3. \A t \in Sessions : DaemonOf[t] = d /\ t # s => call[t].pc \notin InFlight \cup {"held", "threw"}
  BY <1>1, <1>t DEF FileQuiet, Claiming, FileInv, CallsHold
<1>4. CallsHold'
  <2>1. \A e \in Daemons : holder'[e] # None => DaemonOf[holder'[e]] = e
    BY <1>2 DEF FileInv, CallsHold
  <2>2. ASSUME NEW t \in Sessions
        PROVE  /\ call'[t].pc \in {"held", "threw"} => holder'[DaemonOf[t]] = t
               /\ call'[t].pc \in InFlight => holder'[DaemonOf[t]] \in {t, None}
    <3>1. CASE t = s
      BY <1>1, <1>2, <3>1 DEF CallIs, InFlight
    <3>2. CASE t # s
      BY <1>1, <1>2, <1>3, <1>t, <3>2 DEF CallIs, FileInv, CallsHold
    <3> QED BY <3>1, <3>2
  <2> QED BY <2>1, <2>2 DEF CallsHold
<1>5. FileWritten'
  BY <1>1 DEF FileInv, FileWritten, CallIs, FileUse, FileSteps
<1>6. FileHeld'
  <2> SUFFICES ASSUME NEW t \in Sessions, call'[t].pc \in Taken \cup {"held"}, DaemonOf[t] \in Writable,
                      holder'[DaemonOf[t]] = t, ~Quit(DaemonOf[t])'
               PROVE  file' = DaemonOf[t]
    BY DEF FileHeld
  <2>1. t # s
    BY <1>1 DEF CallIs, Taken
  <2>2. DaemonOf[t] # d
    BY <1>2, <2>1
  <2> QED BY <1>1, <1>2, <1>t, <2>1, <2>2 DEF FileInv, FileHeld, CallIs
<1>7. FileVerdict'
  <2> SUFFICES ASSUME NEW t \in Sessions, NEW e \in Daemons, call'[t].pc = "takeOver", call'[t].seenFile = e
               PROVE  Quit(e)'
    BY DEF FileVerdict
  <2>1. t # s /\ call'[t] = call[t]
    BY <1>1 DEF CallIs
  <2>2. e # d /\ Quit(e)
    BY <2>1 DEF FileQuiet, FileInv, FileVerdict
  <2> QED BY <1>2, <2>2
<1> QED BY <1>4, <1>5, <1>6, <1>7 DEF FileInv

\* Every other step of a daemon keeps it.
LEMMA FileDaemonStep ==
  ASSUME TypeOK, FileInv, NEW d \in Daemons,
         \/ MirrorStep(d) \/ Registry(d) \/ Crash(d) \/ Wedge(d) \/ Unwedge(d)
         \/ ShutdownStep(d) \/ Exit(d)
  PROVE  FileInv'
<1>t. /\ holder \in [Daemons -> Sessions \cup {None}] /\ None \notin Sessions /\ None \notin Daemons
      /\ \A t \in Sessions : DaemonOf[t] \in Daemons
      /\ status \in [Daemons -> {"up", "wedged", "dead"}]
  BY NoneAssumption, OwnershipAssumption DEF TypeOK, Sessions
<1>1. CASE MirrorStep(d) \/ Registry(d) \/ ShutdownStep(d) \/ Wedge(d) \/ Unwedge(d)
  <2>1. UNCHANGED <<holder, file, call>> /\ \A e \in Daemons : Quit(e) => Quit(e)'
    BY <1>1, <1>t DEF MirrorStep, JudgeForWrite, NoteLapse, Registry, ShutdownStep, Wedge, Unwedge,
       ownershipVars, Quit
  <2> QED BY <1>t, <2>1 DEF FileInv, CallsHold, FileWritten, FileHeld, FileVerdict
<1>2. CASE Crash(d) \/ Exit(d)
  <2>1. /\ status' = [status EXCEPT ![d] = "dead"] /\ UNCHANGED lapsed /\ Abandoned(d)
        /\ file' \in {file, IF file = d THEN None ELSE file}
        /\ holder' \in {holder, [holder EXCEPT ![d] = None]}
    BY <1>2 DEF Crash, Exit
  <2>0. holder'[d] = None
    BY <1>2, <1>t DEF Crash, Exit
  <2>2. /\ holder'[d] = None /\ Quit(d)'
        /\ \A e \in Daemons : e # d => holder'[e] = holder[e] /\ (Quit(e)' <=> Quit(e))
    BY <1>t, <2>0, <2>1 DEF Quit
  <2>3. \A s \in Sessions : IF DaemonOf[s] = d THEN call'[s].pc = "over" ELSE call'[s] = call[s]
    BY <2>1 DEF Abandoned, NewCall
  <2>4. CallsHold'
    BY <1>t, <2>2, <2>3 DEF FileInv, CallsHold, InFlight
  <2>5. FileWritten'
    BY <2>1, <2>3 DEF FileInv, FileWritten, FileUse, FileSteps
  <2>6. FileHeld'
    <3> SUFFICES ASSUME NEW t \in Sessions, call'[t].pc \in Taken \cup {"held"}, DaemonOf[t] \in Writable,
                        holder'[DaemonOf[t]] = t, ~Quit(DaemonOf[t])'
                 PROVE  file' = DaemonOf[t]
      BY DEF FileHeld
    <3>1. DaemonOf[t] # d /\ call'[t] = call[t]
      BY <2>2, <2>3
    <3>2. file = DaemonOf[t]
      BY <1>t, <2>2, <3>1 DEF FileInv, FileHeld
    <3> QED BY <2>1, <3>1, <3>2
  <2>7. FileVerdict'
    BY <2>2, <2>3 DEF FileInv, FileVerdict
  <2> QED BY <2>4, <2>5, <2>6, <2>7 DEF FileInv
<1> QED BY <1>1, <1>2

\* FileInv holds at the start.
LEMMA FileInvInit == Init => FileInv
<1> SUFFICES ASSUME Init PROVE FileInv
  OBVIOUS
<1>1. \A s \in Sessions : call[s].pc = "new"
  BY DEF Init, NewCall
<1>2. file = None /\ \A d \in Daemons : holder[d] = None
  BY DEF Init
<1> QED BY <1>1, <1>2 DEF FileInv, CallsHold, FileWritten, FileHeld, FileVerdict, InFlight, Taken, FileUse,
           FileSteps

\* FileInv is inductive while daemons bind the device again only when their files are quiet.
LEMMA FileInvStep == TypeOK /\ FileInv /\ [Next]_vars /\ [RebindsQuietly]_vars => FileInv'
<1> SUFFICES ASSUME TypeOK, FileInv, [Next]_vars, [RebindsQuietly]_vars PROVE FileInv'
  OBVIOUS
<1>d. \A s \in Sessions : DaemonOf[s] \in Daemons
  BY OwnershipAssumption DEF Sessions
<1>1. CASE UNCHANGED vars
  <2>1. UNCHANGED <<status, lapsed, holder, file, call>>
    BY <1>1 DEF vars, ownershipVars
  <2> QED BY <2>1 DEF FileInv, CallsHold, FileWritten, FileHeld, FileVerdict, Quit
<1>2. ASSUME NEW s \in Sessions, CallStep(s) \/ Release(s) PROVE FileInv'
  BY <1>2, <1>d, FileCallStep
<1>3. ASSUME NEW s \in Sessions, Assign(s), RebindsQuietly PROVE FileInv'
  BY <1>3, <1>d, FileAssignStep DEF RebindsQuietly
<1>4. ASSUME NEW d \in Daemons,
             \/ MirrorStep(d) \/ Registry(d) \/ Crash(d) \/ Wedge(d) \/ Unwedge(d)
             \/ ShutdownStep(d) \/ Exit(d)
      PROVE  FileInv'
  BY <1>4, FileDaemonStep
<1> QED BY <1>1, <1>2, <1>3, <1>4 DEF Next

\* Who drives the device and can write the claim directory is named by the claim file.
LEMMA DriverInFile ==
  ASSUME TypeOK, FileInv, NEW d \in Daemons \cap Writable, Drives(d)
  PROVE  file = d
<1>1. PICK s \in Sessions : holder[d] = s /\ call[s].pc = "held"
  BY DEF Drives
<1>2. DaemonOf[s] = d /\ s # None
  BY <1>1, NoneAssumption DEF FileInv, CallsHold, Sessions
<1>3. ~Quit(d)
  BY <1>1, <1>2 DEF Drives, Serving, Quit
<1> QED BY <1>1, <1>2, <1>3 DEF FileInv, FileHeld

\* Two daemons never drive the same device (ForwardLeaseForeignDeviceOwnership.claim): when every
\* daemon can write the claim directory and binds the device again only once the calls and take-overs
\* that concern its last claim file are over, no crash, wedge, registry fault, stale verdict or lost
\* race of the compare-and-sets lets two of them drive it.
THEOREM OneDriver ==
  ASSUME Writable = Daemons
  PROVE  Spec /\ [][RebindsQuietly]_vars => []Exclusive
<1>1. TypeOK /\ FileInv => Exclusive
  BY DriverInFile DEF Exclusive
<1> QED BY <1>1, FileInvInit, FileInvStep, TypeCorrect, PTL DEF Spec

\* What a daemon drives, other daemons can see it holds: the claim file of a driver that can write
\* one is never missing, nor another's, while daemons rebind the device only when quiet.
THEOREM DriverVisible ==
  Spec /\ [][RebindsQuietly]_vars => []DriverIsVisible
<1>1. TypeOK /\ FileInv => DriverIsVisible
  BY DriverInFile DEF DriverIsVisible
<1> QED BY <1>1, FileInvInit, FileInvStep, TypeCorrect, PTL DEF Spec

-----------------------------------------------------------------------------
(* A driver keeps its claim.  The file follows from FileInv; the row needs as much of the     *)
(* table: a verdict on the owner of a row is used by a later compare-and-set, and a release   *)
(* the mirror still owes deletes whatever row its daemon has by then.                         *)

\* the mirror of d has its row to delete
Deletes(d) == ReleaseOwed(d) \/ Stage(d, "delete")

\* nobody is about to replace a row of d that was judged, and d itself has none to delete
RowQuiet(d) ==
  /\ \A s \in Sessions : call[s].pc = "casRow" /\ DaemonOf[s] # d => ~Owns(d, call[s].seenRow)
  /\ \A e \in Daemons \ {d} : Stage(e, "put") => ~Owns(d, write[e].seen)
  /\ ~Deletes(d)

\* a daemon binds the device again only when its row is quiet too
RebindsCleanly == \A s \in Sessions : Assign(s) => FileQuiet(DaemonOf[s]) /\ RowQuiet(DaemonOf[s])

\* who is about to replace a row has judged an owner that still does not drive the device
RowVerdict(d) ==
  /\ \A s \in Sessions : call[s].pc = "casRow" /\ Owns(d, call[s].seenRow) => DaemonOf[s] = d \/ Quit(d)
  /\ \A e \in Daemons : Stage(e, "put") /\ Owns(d, write[e].seen) => e = d \/ Quit(d)

\* a row is to be deleted after the session let go of the device, or when it is about to
LateRelease(d) ==
  Deletes(d) => Quit(d) \/ \E s \in Sessions : DaemonOf[s] = d /\ call[s].pc = "rollback"

KeptInv == \A d \in Daemons : RowVerdict(d) /\ LateRelease(d)

\* a write knows the owner it knew and the one the table names
WriteSees(d) == write'[d] # None => \/ write'[d].seen \in {None, row}
                                    \/ write[d] # None /\ write'[d].seen = write[d].seen

\* write() issues a delete for a release only, and a put only later.
LEMMA IssueWriteAfter ==
  ASSUME TypeOK, NEW d \in Daemons, NEW i \in Intents, NEW used, NEW gone, NEW open,
         IssueWrite(d, i, used, gone, open)
  PROVE  /\ Deletes(d)' => i.kind = "release"
         /\ ~Stage(d, "put")'
         /\ WriteSees(d)
<1>t. intent \in [Daemons -> Intents \cup {None}] /\ write \in [Daemons -> Writes \cup {None}]
  BY DEF TypeOK, MirrorTypeOK
<1>1. intent'[d] \in {i, None} /\ write'[d] \in {NewWrite(i), None}
  BY <1>t DEF IssueWrite
<1>2. i.kind # "release" => NewWrite(i).stage = "get"
  BY DEF NewWrite
<1>3. NewWrite(i).stage # "put" /\ NewWrite(i).seen = None
  BY DEF NewWrite
<1> QED BY <1>1, <1>2, <1>3 DEF Deletes, ReleaseOwed, Stage, WriteSees

\* a write in flight that is told of a newer intent stays where it is
LEMMA OldAfter ==
  ASSUME TypeOK, NEW d \in Daemons, write[d] # None, write' = [write EXCEPT ![d].old = TRUE]
  PROVE  write'[d].stage = write[d].stage /\ write'[d].seen = write[d].seen
<1>1. write \in [Daemons -> Writes \cup {None}] /\ write[d] \in Writes
  BY DEF TypeOK, MirrorTypeOK
<1> QED BY <1>1 DEF Writes

\* record() and recordAcquired() start a delete for a release only, and no put.
LEMMA RecordAfter ==
  ASSUME TypeOK, NEW d \in Daemons, NEW i \in Intents,
         (\E gone \in BOOLEAN : Record(d, i, gone)) \/ (i = ClaimIntent(TRUE) /\ RecordAcquired(d))
  PROVE  /\ Deletes(d)' => Deletes(d) \/ i.kind = "release"
         /\ Stage(d, "put")' => Stage(d, "put") /\ write'[d].seen = write[d].seen
         /\ WriteSees(d)
<1>t. intent \in [Daemons -> Intents \cup {None}] /\ write \in [Daemons -> Writes \cup {None}]
  BY DEF TypeOK, MirrorTypeOK
<1>1. CASE UNCHANGED <<intent, write>>
  BY <1>1 DEF Deletes, ReleaseOwed, Stage, WriteSees
<1>2. CASE \E gone \in BOOLEAN : IssueWrite(d, i, 0, gone, d \in store)
  BY <1>2, IssueWriteAfter
<1>3. CASE /\ intent' = [intent EXCEPT ![d] = i]
           /\ write[d] # None /\ write' = [write EXCEPT ![d].old = TRUE]
  <2>1. write'[d].stage = write[d].stage /\ write'[d].seen = write[d].seen
    BY <1>3, OldAfter
  <2> QED BY <1>3, <1>t, <2>1 DEF Deletes, ReleaseOwed, Stage, WriteSees
<1>4. CASE intent' = [intent EXCEPT ![d] = i] /\ UNCHANGED write
  BY <1>4, <1>t DEF Deletes, ReleaseOwed, Stage, WriteSees
<1>5. CASE \E gone \in BOOLEAN : Record(d, i, gone)
  BY <1>1, <1>2, <1>3, <1>5, Zenon DEF Record
<1>6. CASE i = ClaimIntent(TRUE) /\ RecordAcquired(d)
  BY <1>3, <1>4, <1>6, Zenon DEF RecordAcquired
<1> QED BY <1>5, <1>6

\* A step of daemon d keeps KeptInv when it only quits daemons, leaves the others alone, and replaces
\* and deletes rows as KeptInv says.
LEMMA KeptFrame ==
  ASSUME TypeOK, KeptInv, NEW d \in Daemons,
         \A e \in Daemons : Quit(e) => Quit(e)',
         \A e \in Daemons \ {d} : LeavesAlone(e),
         \A s \in Sessions, o \in Daemons :
            DaemonOf[s] = d /\ call'[s].pc = "casRow" /\ Owns(o, call'[s].seenRow) => o = d \/ Quit(o)',
         \A o \in Daemons : Stage(d, "put")' /\ Owns(o, write'[d].seen) => o = d \/ Quit(o)',
         LateRelease(d)'
  PROVE  KeptInv'
<1>d. \A s \in Sessions : DaemonOf[s] \in Daemons
  BY OwnershipAssumption DEF Sessions
<1>1. ASSUME NEW o \in Daemons PROVE RowVerdict(o)'
  <2>1. ASSUME NEW s \in Sessions, call'[s].pc = "casRow", Owns(o, call'[s].seenRow)
        PROVE  DaemonOf[s] = o \/ Quit(o)'
    <3>1. CASE DaemonOf[s] = d
      BY <2>1, <3>1
    <3>2. CASE DaemonOf[s] # d
      <4>1. call'[s] = call[s]
        BY <1>d, <3>2 DEF LeavesAlone
      <4> QED BY <2>1, <4>1 DEF KeptInv, RowVerdict
    <3> QED BY <3>1, <3>2
  <2>2. ASSUME NEW e \in Daemons, Stage(e, "put")', Owns(o, write'[e].seen)
        PROVE  e = o \/ Quit(o)'
    <3>1. CASE e = d
      BY <2>2, <3>1
    <3>2. CASE e # d
      <4>1. write'[e] = write[e]
        BY <3>2 DEF LeavesAlone
      <4> QED BY <2>2, <4>1 DEF KeptInv, RowVerdict, Stage
    <3> QED BY <3>1, <3>2
  <2> QED BY <2>1, <2>2 DEF RowVerdict
<1>2. ASSUME NEW e \in Daemons \ {d} PROVE LateRelease(e)'
  <2>1. LeavesAlone(e) /\ (Quit(e) => Quit(e)')
    OBVIOUS
  <2>2. Deletes(e)' <=> Deletes(e)
    BY <2>1 DEF LeavesAlone, Deletes, ReleaseOwed, Stage
  <2> QED BY <2>1, <2>2 DEF LeavesAlone, KeptInv, LateRelease
<1> QED BY <1>1, <1>2 DEF KeptInv

\* A step of a claim call binds nothing; only publish() makes a session hold the device, only a read
\* or a verdict makes it replace a row, and only a rollback unbinds it.  The call knows the owners it
\* knew and those that file and table name, and gives the file to its daemon or to nobody.
LEMMA CallGoes ==
  ASSUME TypeOK, NEW s \in Sessions, CallStep(s)
  PROVE  /\ UNCHANGED status /\ lapsed \subseteq lapsed'
         /\ UNCHANGED holder \/ Rollback(s)
         /\ call[s].pc = "rollback" => Rollback(s)
         /\ call'[s].pc = "held" => Publish(s)
         /\ call'[s].pc = "casRow" => GetRow(s) \/ \E live \in BOOLEAN : JudgeRow(s, live)
         /\ file' \in {file, None, DaemonOf[s]} /\ call'[s].pc # "new"
         /\ call'[s].seenFile \in {None, file, call[s].seenFile}
         /\ call'[s].seenRow \in {None, row, call[s].seenRow}
<1> DEFINE Goal == /\ UNCHANGED status /\ lapsed \subseteq lapsed'
                   /\ UNCHANGED holder \/ Rollback(s)
                   /\ call[s].pc = "rollback" => Rollback(s)
                   /\ call'[s].pc = "held" => Publish(s)
                   /\ call'[s].pc = "casRow" => GetRow(s) \/ \E live \in BOOLEAN : JudgeRow(s, live)
                   /\ file' \in {file, None, DaemonOf[s]} /\ call'[s].pc # "new"
                   /\ call'[s].seenFile \in {None, file, call[s].seenFile}
                   /\ call'[s].seenRow \in {None, row, call[s].seenRow}
<1> SUFFICES Goal
  OBVIOUS
<1>k. ASSUME UNCHANGED <<status, holder>>, lapsed \subseteq lapsed', call[s].pc # "rollback",
             file' \in {file, None, DaemonOf[s]},
             NEW p, NEW f \in {None, file, call[s].seenFile}, NEW r \in {None, row, call[s].seenRow},
             CallIs(s, p, f, r), p # "new", p = "held" => Publish(s),
             p = "casRow" => GetRow(s) \/ \E live \in BOOLEAN : JudgeRow(s, live)
      PROVE  Goal
  BY <1>k DEF CallIs
<1> HIDE DEF Goal
<1>1. CASE CheckFile(s)
  <2>1. PICK p \in {"takeFile", "acquire", "judgeFile"}, f \in {None, file} : CallIs(s, p, f, None)
    BY <1>1, CallAfter DEF CheckFile, FilesDecide
  <2>2. UNCHANGED <<status, holder>> /\ lapsed \subseteq lapsed' /\ call[s].pc # "rollback"
    BY <1>1 DEF CheckFile, At, NoteLapse
  <2>3. file' \in {file, None, DaemonOf[s]}
    BY <1>1 DEF CheckFile
  <2> QED BY <1>k, <2>1, <2>2, <2>3
<1>2. CASE Acquire(s)
  <2>1. PICK p \in {"getRow", "takeFile"} : CallIs(s, p, None, None)
    BY <1>2, CallAfter DEF Acquire, FilesDecide
  <2>2. UNCHANGED <<status, holder>> /\ lapsed \subseteq lapsed' /\ call[s].pc # "rollback"
    BY <1>2 DEF Acquire, At, NoteLapse
  <2>3. file' \in {file, None, DaemonOf[s]}
    BY <1>2 DEF Acquire
  <2> QED BY <1>k, <2>1, <2>2, <2>3
<1>3. CASE AcquireThrows(s)
  <2>1. PICK p \in {"rollback", "threw", "over"} : CallIs(s, p, None, None)
    BY <1>3, CallAfter DEF AcquireThrows
  <2>2. UNCHANGED <<status, holder>> /\ lapsed \subseteq lapsed' /\ call[s].pc # "rollback"
    BY <1>3 DEF AcquireThrows, At, NoteLapse
  <2>3. file' \in {file, None, DaemonOf[s]}
    BY <1>3 DEF AcquireThrows
  <2> QED BY <1>k, <2>1, <2>2, <2>3
<1>4. CASE Winner(s)
  <2>1. PICK p \in {"takeFile", "rollback"} : CallIs(s, p, None, None)
    BY <1>4, CallAfter DEF Winner, FilesDecide
  <2>2. UNCHANGED <<status, holder>> /\ lapsed \subseteq lapsed' /\ call[s].pc # "rollback"
    BY <1>4 DEF Winner, At, NoteLapse
  <2>3. file' \in {file, None, DaemonOf[s]}
    BY <1>4 DEF Winner
  <2> QED BY <1>k, <2>1, <2>2, <2>3
<1>5. CASE StatementThrows(s)
  <2>1. PICK p \in {"takeFile"} : CallIs(s, p, None, None)
    BY <1>5, CallAfter DEF StatementThrows, FilesDecide
  <2>2. UNCHANGED <<status, holder>> /\ lapsed \subseteq lapsed' /\ call[s].pc # "rollback"
    BY <1>5 DEF StatementThrows, At, NoteLapse
  <2>3. file' \in {file, None, DaemonOf[s]}
    BY <1>5 DEF StatementThrows
  <2> QED BY <1>k, <2>1, <2>2, <2>3
<1>6. CASE TakeFile(s)
  <2>1. PICK p \in {"publish", "confirm", "judgeOwner"}, f \in {None, file} : CallIs(s, p, f, None)
    BY <1>6, CallAfter DEF TakeFile, FileClaimed
  <2>2. UNCHANGED <<status, holder>> /\ lapsed \subseteq lapsed' /\ call[s].pc # "rollback"
    BY <1>6 DEF TakeFile, At, NoteLapse
  <2>3. file' \in {file, None, DaemonOf[s]}
    BY <1>6 DEF TakeFile
  <2> QED BY <1>k, <2>1, <2>2, <2>3
<1>7. CASE TakeOver(s)
  <2>1. PICK p \in {"confirm", "rollback"} : CallIs(s, p, None, None)
    BY <1>7, CallAfter DEF TakeOver, Refused
  <2>2. UNCHANGED <<status, holder>> /\ lapsed \subseteq lapsed' /\ call[s].pc # "rollback"
    BY <1>7 DEF TakeOver, At, NoteLapse
  <2>3. file' \in {file, None, DaemonOf[s]}
    BY <1>7 DEF TakeOver
  <2> QED BY <1>k, <2>1, <2>2, <2>3
<1>8. CASE Confirm(s)
  <2>1. PICK p \in {"tableRead", "publish"} : CallIs(s, p, None, None)
    BY <1>8, CallAfter DEF Confirm, FileClaimed
  <2>2. UNCHANGED <<status, holder>> /\ lapsed \subseteq lapsed' /\ call[s].pc # "rollback"
    BY <1>8 DEF Confirm, At, NoteLapse
  <2>3. file' \in {file, None, DaemonOf[s]}
    BY <1>8 DEF Confirm
  <2> QED BY <1>k, <2>1, <2>2, <2>3
<1>9. CASE TableOk(s)
  <2>1. PICK p \in {"publish"} : CallIs(s, p, None, None)
    BY <1>9, CallAfter DEF TableOk, FileClaimed
  <2>2. UNCHANGED <<status, holder>> /\ lapsed \subseteq lapsed' /\ call[s].pc # "rollback"
    BY <1>9 DEF TableOk, At, NoteLapse
  <2>3. file' \in {file, None, DaemonOf[s]}
    BY <1>9 DEF TableOk
  <2> QED BY <1>k, <2>1, <2>2, <2>3
<1>10. CASE \E live \in BOOLEAN : JudgeFile(s, live)
  <2>1. PICK p \in {"rollback", "acquire"} : CallIs(s, p, None, None)
    BY <1>10, CallAfter DEF JudgeFile, Refused
  <2>2. UNCHANGED <<status, holder>> /\ lapsed \subseteq lapsed' /\ call[s].pc # "rollback"
    BY <1>10 DEF JudgeFile, At, NoteLapse
  <2>3. file' \in {file, None, DaemonOf[s]}
    BY <1>10 DEF JudgeFile
  <2> QED BY <1>k, <2>1, <2>2, <2>3
<1>11. CASE \E live \in BOOLEAN : JudgeOwner(s, live)
  <2>1. PICK p \in {"rollback", "takeOver"}, f \in {None, call[s].seenFile} : CallIs(s, p, f, None)
    BY <1>11, CallAfter DEF JudgeOwner, Refused
  <2>2. UNCHANGED <<status, holder>> /\ lapsed \subseteq lapsed' /\ call[s].pc # "rollback"
    BY <1>11 DEF JudgeOwner, At, NoteLapse
  <2>3. file' \in {file, None, DaemonOf[s]}
    BY <1>11 DEF JudgeOwner
  <2> QED BY <1>k, <2>1, <2>2, <2>3
<1>12. CASE \E live \in BOOLEAN : JudgeTable(s, live)
  <2>1. PICK p \in {"rollback", "publish"} : CallIs(s, p, None, None)
    BY <1>12, CallAfter DEF JudgeTable, Refused, FileClaimed
  <2>2. UNCHANGED <<status, holder>> /\ lapsed \subseteq lapsed' /\ call[s].pc # "rollback"
    BY <1>12 DEF JudgeTable, At, NoteLapse
  <2>3. file' \in {file, None, DaemonOf[s]}
    BY <1>12 DEF JudgeTable
  <2> QED BY <1>k, <2>1, <2>2, <2>3
<1>13. CASE \E live \in BOOLEAN : TableRead(s, live)
  <2>1. PICK p \in {"judgeTable", "tableOk"}, r \in {None, row} : CallIs(s, p, None, r)
    BY <1>13, CallAfter DEF TableRead
  <2>2. UNCHANGED <<status, holder>> /\ lapsed \subseteq lapsed' /\ call[s].pc # "rollback"
    BY <1>13 DEF TableRead, At, NoteLapse
  <2>3. file' \in {file, None, DaemonOf[s]}
    BY <1>13 DEF TableRead
  <2> QED BY <1>k, <2>1, <2>2, <2>3
<1>14. CASE \E at \in Stamps : FreshStamp(at) /\ CasRow(s, at)
  <2>1. PICK at \in Stamps : CasRow(s, at)
    BY <1>14
  <2>2. PICK p \in {"takeFile", "getRow", "winner"} : CallIs(s, p, None, None)
    BY <2>1, CasRowAfter
  <2>3. UNCHANGED <<status, holder, lapsed, file>> /\ call[s].pc # "rollback"
    BY <2>1 DEF CasRow, At
  <2> QED BY <1>k, <2>2, <2>3
<1>15. CASE GetRow(s)
  <2>1. UNCHANGED <<status, holder, lapsed, file>> /\ call[s].pc # "rollback"
    BY <1>15 DEF GetRow, At
  <2>2. PICK p \in {"casRow", "judgeRow"} : CallIs(s, p, None, row)
    BY <1>15, CallAfter DEF GetRow
  <2> QED BY <1>15, <1>k, <2>1, <2>2
<1>16. CASE \E live \in BOOLEAN : JudgeRow(s, live)
  <2>1. UNCHANGED <<status, holder, file>> /\ lapsed \subseteq lapsed' /\ call[s].pc # "rollback"
    BY <1>16 DEF JudgeRow, At, NoteLapse
  <2>2. PICK p \in {"rollback", "casRow"}, r \in {None, call[s].seenRow} : CallIs(s, p, None, r)
    BY <1>16, CallAfter DEF JudgeRow, Refused
  <2> QED BY <1>16, <1>k, <2>1, <2>2
<1>17. CASE Publish(s)
  <2>1. UNCHANGED <<status, holder, lapsed>> /\ call[s].pc # "rollback" /\ file' \in {file, None}
    BY <1>17 DEF Publish, At
  <2>2. PICK p \in {"held", "over"} : CallIs(s, p, None, None)
    BY <1>17, CallAfter DEF Publish
  <2> QED BY <1>17, <1>k, <2>1, <2>2
<1>18. CASE Rollback(s)
  <2>1. UNCHANGED <<status, lapsed>> /\ file' \in {file, None}
    BY <1>18 DEF Rollback, WithdrawClaim
  <2>2. CallIs(s, "over", None, None)
    BY <1>18, CallAfter DEF Rollback
  <2> QED BY <1>18, <2>1, <2>2 DEF Goal, CallIs
<1> QED BY <1>1, <1>2, <1>3, <1>4, <1>5, <1>6, <1>7, <1>8, <1>9, <1>10, <1>11, <1>12, <1>13, <1>14, <1>15,
           <1>16, <1>17, <1>18 DEF CallStep

\* A step of a claim call after its assignment, and the release, only quit daemons, end at a rollback
\* with the device unbound, and replace a row only on a verdict.
LEMMA CallKeeps ==
  ASSUME TypeOK, FileInv, KeptInv, NEW s \in Sessions, NEW d \in Daemons, d = DaemonOf[s],
         CallStep(s) \/ Release(s)
  PROVE  /\ \A e \in Daemons : Quit(e) => Quit(e)'
         /\ call[s].pc = "rollback" => holder'[d] = None
         /\ \A o \in Daemons : call'[s].pc = "casRow" /\ Owns(o, call'[s].seenRow) => o = d \/ Quit(o)'
<1>t. holder \in [Daemons -> Sessions \cup {None}]
  BY DEF TypeOK
<1>1. CASE CallStep(s)
  <2>0. /\ UNCHANGED status /\ lapsed \subseteq lapsed' /\ (UNCHANGED holder \/ Rollback(s))
        /\ call[s].pc = "rollback" => Rollback(s)
        /\ call'[s].pc = "casRow" => GetRow(s) \/ \E live \in BOOLEAN : JudgeRow(s, live)
    BY <1>1, CallGoes
  <2>1. ASSUME Rollback(s) PROVE holder' \in {holder, [holder EXCEPT ![d] = None]} /\ holder'[d] = None
    <3>1. holder[d] \in {s, None}
      BY <2>1 DEF Rollback, At, FileInv, CallsHold, InFlight
    <3> QED BY <1>t, <2>1, <3>1 DEF Rollback
  <2>2. \A e \in Daemons : Quit(e) => Quit(e)'
    BY <1>t, <2>0, <2>1 DEF Quit
  <2>3. ASSUME NEW o \in Daemons, GetRow(s), call'[s].pc = "casRow", Owns(o, call'[s].seenRow) PROVE o = d
    <3>1. CASE row = None \/ Owns(d, row)
      <4>1. call'[s].seenRow = row
        BY <2>3, <3>1, CallAfter DEF GetRow, CallIs
      <4> QED BY <2>3, <3>1, <4>1 DEF Owns
    <3>2. CASE ~(row = None \/ Owns(d, row))
      <4>1. call'[s].pc = "judgeRow"
        BY <2>3, <3>2, CallAfter DEF GetRow, CallIs
      <4> QED BY <2>3, <4>1
    <3> QED BY <3>1, <3>2
  <2>4. ASSUME NEW o \in Daemons, NEW live \in BOOLEAN, JudgeRow(s, live), call'[s].pc = "casRow",
               Owns(o, call'[s].seenRow)
        PROVE  Quit(o)'
    <3>1. ~live
      <4>1. ASSUME live PROVE call'[s].pc = "rollback"
        BY <2>4, <4>1, CallAfter DEF JudgeRow, Refused, CallIs
      <4> QED BY <2>4, <4>1
    <3>2. call'[s].seenRow = call[s].seenRow
      BY <2>4, <3>1, CallAfter DEF JudgeRow, CallIs
    <3>3. FALSE \in Verdicts(o) /\ NoteLapse(o, FALSE) /\ UNCHANGED <<status, holder>>
      BY <2>4, <3>1, <3>2 DEF JudgeRow, Owns
    <3> QED BY <3>3, VerdictQuit
  <2> QED BY <2>0, <2>1, <2>2, <2>3, <2>4
<1>2. CASE Release(s)
  <2>1. UNCHANGED <<status, lapsed>> /\ holder' = [holder EXCEPT ![d] = None] /\ holder'[d] = None
    BY <1>2, <1>t DEF Release
  <2>2. \A e \in Daemons : Quit(e) => Quit(e)'
    BY <1>t, <2>1 DEF Quit
  <2>3. call'[s] = call[s] \/ call'[s].pc = "over"
    BY <1>2, CallAfter DEF Release, CallIs
  <2> QED BY <2>1, <2>2, <2>3 DEF KeptInv, RowVerdict
<1> QED BY <1>1, <1>2

\* A step of a claim call and the release keep KeptInv.
LEMMA KeptCallStep ==
  ASSUME TypeInv, RowInv, FileInv, KeptInv, NEW s \in Sessions, NEW d \in Daemons, d = DaemonOf[s],
         CallStep(s) \/ Release(s)
  PROVE  KeptInv'
<1>t. TypeOK
  BY DEF TypeInv
<1>1. CallEffect(s, d) /\ RowEffect(s, d)
  BY <1>t, CallRowEffect DEF RowInv
<1>2. \A e \in Daemons \ {d} : LeavesAlone(e)
  BY <1>1, <1>t, CallLeavesAlone
<1>3. /\ \A e \in Daemons : Quit(e) => Quit(e)'
      /\ call[s].pc = "rollback" => holder'[d] = None
      /\ \A o \in Daemons : call'[s].pc = "casRow" /\ Owns(o, call'[s].seenRow) => o = d \/ Quit(o)'
  BY <1>t, CallKeeps
<1>4. \A t \in Sessions : t # s => call'[t] = call[t]
  BY <1>1 DEF CallEffect
<1>5. ASSUME NEW t \in Sessions, NEW o \in Daemons, DaemonOf[t] = d, call'[t].pc = "casRow",
             Owns(o, call'[t].seenRow)
      PROVE  o = d \/ Quit(o)'
  <2>1. CASE t = s
    BY <1>3, <1>5, <2>1
  <2>2. CASE t # s
    BY <1>3, <1>4, <1>5, <2>2 DEF KeptInv, RowVerdict
  <2> QED BY <2>1, <2>2
\* what the step records in the mirror
<1>6. /\ Stage(d, "put")' => Stage(d, "put") /\ write'[d].seen = write[d].seen
      /\ Deletes(d)' => Deletes(d) \/ call'[s].pc = "rollback" \/ holder'[d] = None
  <2>i. /\ ReleaseIntent \in Intents /\ ClaimIntent(FALSE) \in Intents /\ ClaimIntent(TRUE) \in Intents
        /\ ClaimIntent(FALSE).kind # "release" /\ ClaimIntent(TRUE).kind # "release"
    BY IntentsTyped DEF ClaimIntent
  <2>1. CASE UNCHANGED <<row, intent, armed, attempts, write>>
    BY <2>1 DEF Deletes, ReleaseOwed, Stage
  <2>2. CASE Record(d, ReleaseIntent, FALSE) /\ (call'[s].pc = "rollback" \/ holder'[d] = None)
    <3>1. Stage(d, "put")' => Stage(d, "put") /\ write'[d].seen = write[d].seen
      BY <1>t, <2>2, <2>i, RecordAfter
    <3> QED BY <2>2, <3>1
  <2>3. CASE \E gone \in BOOLEAN : Record(d, ClaimIntent(FALSE), gone)
    BY <1>t, <2>3, <2>i, RecordAfter
  <2>4. CASE RecordAcquired(d)
    BY <1>t, <2>4, <2>i, RecordAfter
  <2> QED BY <1>1, <2>1, <2>2, <2>3, <2>4 DEF RowEffect
<1>7. ASSUME NEW o \in Daemons, Stage(d, "put")', Owns(o, write'[d].seen) PROVE o = d \/ Quit(o)'
  BY <1>3, <1>6, <1>7 DEF KeptInv, RowVerdict
<1>8. LateRelease(d)'
  <2> SUFFICES ASSUME Deletes(d)'
               PROVE  Quit(d)' \/ \E t \in Sessions : DaemonOf[t] = d /\ call'[t].pc = "rollback"
    BY DEF LateRelease
  <2>1. CASE call'[s].pc = "rollback"
    BY <2>1
  <2>2. CASE holder'[d] = None
    BY <2>2 DEF Quit
  <2>3. CASE Deletes(d)
    <3>1. CASE Quit(d)
      BY <1>3, <3>1
    <3>2. CASE \E t \in Sessions : DaemonOf[t] = d /\ call[t].pc = "rollback"
      <4>1. PICK t \in Sessions : DaemonOf[t] = d /\ call[t].pc = "rollback"
        BY <3>2
      <4>2. CASE t = s
        BY <1>3, <4>1, <4>2 DEF Quit
      <4>3. CASE t # s
        BY <1>4, <4>1, <4>3
      <4> QED BY <4>2, <4>3
    <3> QED BY <2>3, <3>1, <3>2 DEF KeptInv, LateRelease
  <2> QED BY <1>6, <2>1, <2>2, <2>3
<1> QED BY <1>2, <1>3, <1>5, <1>7, <1>8, <1>t, KeptFrame

\* The assignment of the device keeps KeptInv when nothing is left to do about the last row.
LEMMA KeptAssignStep ==
  ASSUME TypeOK, KeptInv, NEW s \in Sessions, NEW d \in Daemons, d = DaemonOf[s], Assign(s), RowQuiet(d)
  PROVE  KeptInv'
<1>1. /\ CallIs(s, "assigned", None, None) /\ call[s].pc = "new"
      /\ UNCHANGED <<status, lapsed, intent, write>> /\ holder' = [holder EXCEPT ![d] = s]
  BY CallAfter DEF Assign, At, mirrorVars
<1>2. \A e \in Daemons : e # d => (Quit(e)' <=> Quit(e))
  BY <1>1 DEF Quit, TypeOK
<1>3. \A e \in Daemons : (Deletes(e)' <=> Deletes(e)) /\ (Stage(e, "put")' <=> Stage(e, "put"))
  BY <1>1 DEF Deletes, ReleaseOwed, Stage
<1>4. ASSUME NEW o \in Daemons PROVE RowVerdict(o)'
  <2>1. ASSUME NEW t \in Sessions, call'[t].pc = "casRow", Owns(o, call'[t].seenRow)
        PROVE  DaemonOf[t] = o \/ Quit(o)'
    <3>1. call'[t] = call[t]
      BY <1>1, <2>1 DEF CallIs
    <3>2. CASE o = d
      BY <2>1, <3>1, <3>2 DEF RowQuiet
    <3>3. CASE o # d
      BY <1>2, <2>1, <3>1, <3>3 DEF KeptInv, RowVerdict
    <3> QED BY <3>2, <3>3
  <2>2. ASSUME NEW e \in Daemons, Stage(e, "put")', Owns(o, write'[e].seen)
        PROVE  e = o \/ Quit(o)'
    <3>1. Stage(e, "put") /\ Owns(o, write[e].seen)
      BY <1>1, <1>3, <2>2
    <3>2. CASE o = d
      BY <3>1, <3>2 DEF RowQuiet
    <3>3. CASE o # d
      BY <1>2, <3>1, <3>3 DEF KeptInv, RowVerdict
    <3> QED BY <3>2, <3>3
  <2> QED BY <2>1, <2>2 DEF RowVerdict
<1>5. ASSUME NEW e \in Daemons PROVE LateRelease(e)'
  <2>1. CASE e = d
    BY <1>3, <2>1 DEF RowQuiet, LateRelease
  <2>2. CASE e # d
    <3>1. \A t \in Sessions : call[t].pc = "rollback" => call'[t] = call[t]
      BY <1>1 DEF CallIs
    <3> QED BY <1>2, <1>3, <2>2, <3>1 DEF KeptInv, LateRelease
  <2> QED BY <2>1, <2>2
<1> QED BY <1>4, <1>5 DEF KeptInv

\* A step of a mirror has no row to delete that it did not have before, and replaces a row only on a
\* verdict.
LEMMA MirrorKeeps ==
  ASSUME TypeInv, NEW d \in Daemons, MirrorStep(d)
  PROVE  /\ Deletes(d)' => Deletes(d)
         /\ WriteSees(d)
         /\ Stage(d, "put")' => \/ Stage(d, "put") /\ write'[d].seen = write[d].seen
                                \/ \A o \in Daemons : Owns(o, write'[d].seen) => o = d \/ Quit(o)'
<1> DEFINE Goal == /\ Deletes(d)' => Deletes(d)
                   /\ WriteSees(d)
                   /\ Stage(d, "put")' =>
                        \/ Stage(d, "put") /\ write'[d].seen = write[d].seen
                        \/ \A o \in Daemons : Owns(o, write'[d].seen) => o = d \/ Quit(o)'
<1> SUFFICES Goal
  OBVIOUS
<1>t. /\ TypeOK
      /\ intent \in [Daemons -> Intents \cup {None}] /\ write \in [Daemons -> Writes \cup {None}]
      /\ row \in Rows \cup {None} /\ {"ok", "failed", "put", "judge"} \subseteq Stages
  BY DEF TypeInv, TypeOK, MirrorTypeOK, Stages
\* a statement that ends the write
<1>g. ASSUME write[d] # None, NEW st \in {"ok", "failed"}, GoTo(d, st), intent'[d] \in {intent[d], None}
      PROVE  Goal
  <2>1. write'[d].stage = st /\ write'[d].seen = write[d].seen
    BY <1>g, <1>t, GoToAfter
  <2> QED BY <1>g, <2>1 DEF Deletes, ReleaseOwed, Stage, WriteSees
<1>n. ASSUME write'[d] = None, intent'[d] = None \/ intent'[d] = intent[d] \/ intent'[d].kind = "claim"
      PROVE  Goal
  BY <1>n DEF Deletes, ReleaseOwed, Stage, WriteSees
<1>i. ASSUME intent[d] # None, IssueWrite(d, intent[d], attempts[d], Gone(d), d \in store)
      PROVE  Goal
  <2>1. intent[d] \in Intents
    BY <1>i, <1>t
  <2>2. (Deletes(d)' => intent[d].kind = "release") /\ ~Stage(d, "put")' /\ WriteSees(d)
    BY <1>i, <1>t, <2>1, IssueWriteAfter
  <2> QED BY <1>i, <2>2 DEF Deletes, ReleaseOwed
<1>d. Drop(d) => intent'[d] \in {intent[d], None}
  BY <1>t DEF Drop
<1>1. CASE \E live \in BOOLEAN : JudgeForWrite(d, live)
  <2>1. write[d] # None /\ UNCHANGED intent /\ UNCHANGED <<status, holder>> /\ Stage(d, "judge")
    BY <1>1 DEF JudgeForWrite, WriteJudge, Stage
  <2>2. CASE JudgeForWrite(d, TRUE)
    BY <1>g, <2>1, <2>2 DEF JudgeForWrite, WriteJudge
  <2>3. CASE JudgeForWrite(d, FALSE)
    <3>1. GoTo(d, "put")
      BY <2>3 DEF JudgeForWrite, WriteJudge
    <3>2. write'[d].stage = "put" /\ write'[d].seen = write[d].seen
      BY <1>t, <2>1, <3>1, GoToAfter
    <3>3. ASSUME NEW o \in Daemons, Owns(o, write[d].seen) PROVE Quit(o)'
      <4>1. FALSE \in Verdicts(o) /\ NoteLapse(o, FALSE)
        BY <2>3, <3>3 DEF JudgeForWrite, Owns
      <4> QED BY <1>t, <2>1, <4>1, VerdictQuit
    <3> QED BY <2>1, <3>2, <3>3 DEF Deletes, ReleaseOwed, Stage, WriteSees
  <2> QED BY <1>1, <2>2, <2>3
<1>2. CASE WriteDelete(d)
  BY <1>2, <1>g DEF WriteDelete, Stage
<1>3. CASE WriteThrows(d)
  BY <1>3, <1>g DEF WriteThrows
<1>4. CASE WriteGet(d)
  <2>1. write[d] # None /\ write[d].stage = "get"
    BY <1>4 DEF WriteGet, Stage
  <2>2. CASE GoTo(d, "ok") /\ Drop(d)
    BY <1>d, <1>g, <2>1, <2>2
  <2>3. CASE \E st \in {"judge", "put"} :
               /\ write' = [write EXCEPT ![d].stage = st, ![d].seen = row]
               /\ UNCHANGED intent /\ (st = "put" => row = None \/ Owns(d, row))
    <3>1. PICK st \in {"judge", "put"} :
               /\ write' = [write EXCEPT ![d].stage = st, ![d].seen = row]
               /\ UNCHANGED intent /\ (st = "put" => row = None \/ Owns(d, row))
      BY <2>3
    <3>2. write' = [write EXCEPT ![d] = [write[d] EXCEPT !.stage = st, !.seen = row]]
      BY <3>1
    <3>3. st \in Stages /\ write \in [Daemons -> Writes \cup {None}] /\ row \in Rows \cup {None}
      BY <1>t
    <3>4. write'[d].stage = st /\ write'[d].seen = row
      <4> DEFINE c == [write[d] EXCEPT !.stage = st, !.seen = row]
      <4>1. write[d] \in Writes
        BY <2>1, <3>3
      <4>2. c.stage = st /\ c.seen = row
        BY <4>1 DEF Writes
      <4>3. write'[d] = c
        BY <3>2, <3>3
      <4> QED BY <4>2, <4>3
    <3>5. \A o \in Daemons : st = "put" /\ Owns(o, row) => o = d
      BY <3>1 DEF Owns
    <3> QED BY <3>1, <3>4, <3>5 DEF Deletes, ReleaseOwed, Stage, WriteSees
  <2> QED BY <1>4, <2>2, <2>3 DEF WriteGet
<1>5. CASE \E at \in Stamps : WritePut(d, at)
  <2>1. PICK at \in Stamps : WritePut(d, at)
    BY <1>5
  <2>2. write[d] # None
    BY <2>1 DEF WritePut, Stage
  <2>3. \E st \in {"ok", "failed"} : GoTo(d, st)
    BY <2>1, Zenon DEF WritePut
  <2>4. Drop(d) \/ UNCHANGED intent
    BY <2>1, Zenon DEF WritePut
  <2> QED BY <1>d, <1>g, <2>2, <2>3, <2>4
<1>6. CASE WriteSettles(d, Gone(d))
  <2>1. CASE intent[d] # None /\ IssueWrite(d, intent[d], attempts[d], Gone(d), d \in store)
    BY <1>i, <2>1
  <2>2. CASE write' = [write EXCEPT ![d] = None] /\ UNCHANGED intent
    BY <1>n, <1>t, <2>2
  <2>3. CASE /\ intent[d] # None /\ write' = [write EXCEPT ![d] = None]
             /\ intent' = [intent EXCEPT ![d] = Confirmed(intent[d])]
    <3>1. intent[d] \in Intents /\ write'[d] = None /\ intent'[d] = Confirmed(intent[d])
      BY <1>t, <2>3
    <3>2. Confirmed(intent[d]) = None \/ Confirmed(intent[d]).kind = "claim"
      BY <3>1 DEF Confirmed, Intents
    <3> QED BY <1>n, <3>1, <3>2
  <2> QED BY <1>6, <2>1, <2>2, <2>3, Zenon DEF WriteSettles
<1>7. CASE RetryFires(d, Gone(d))
  <2>1. CASE intent[d] # None /\ IssueWrite(d, intent[d], attempts[d], Gone(d), d \in store)
    BY <1>i, <2>1
  <2>2. CASE UNCHANGED <<intent, write>>
    BY <2>2 DEF Deletes, ReleaseOwed, Stage, WriteSees
  <2> QED BY <1>7, <2>1, <2>2 DEF RetryFires
<1> HIDE DEF Goal
<1> QED BY <1>1, <1>2, <1>3, <1>4, <1>5, <1>6, <1>7 DEF MirrorStep

\* Every other step of a daemon keeps KeptInv.
LEMMA KeptDaemonStep ==
  ASSUME TypeInv, KeptInv, NEW d \in Daemons,
         \/ MirrorStep(d) \/ Registry(d) \/ Crash(d) \/ Wedge(d) \/ Unwedge(d)
         \/ ShutdownStep(d) \/ Exit(d)
  PROVE  KeptInv'
<1>t. /\ TypeOK /\ intent \in [Daemons -> Intents \cup {None}] /\ write \in [Daemons -> Writes \cup {None}]
      /\ holder \in [Daemons -> Sessions \cup {None}] /\ status \in [Daemons -> {"up", "wedged", "dead"}]
  BY DEF TypeInv, TypeOK, MirrorTypeOK
<1>1. \A e \in Daemons \ {d} : LeavesAlone(e)
  BY <1>t, DaemonLeavesAlone
\* a step that leaves the calls alone
<1>k. ASSUME UNCHANGED call, \A e \in Daemons : Quit(e) => Quit(e)', Deletes(d)' => Deletes(d),
             Stage(d, "put")' => \/ Stage(d, "put") /\ write'[d].seen = write[d].seen
                                 \/ \A o \in Daemons : Owns(o, write'[d].seen) => o = d \/ Quit(o)'
      PROVE  KeptInv'
  <2>1. \A s \in Sessions, o \in Daemons :
           DaemonOf[s] = d /\ call'[s].pc = "casRow" /\ Owns(o, call'[s].seenRow) => o = d \/ Quit(o)'
    BY <1>k DEF KeptInv, RowVerdict
  <2>2. \A o \in Daemons : Stage(d, "put")' /\ Owns(o, write'[d].seen) => o = d \/ Quit(o)'
    BY <1>k DEF KeptInv, RowVerdict
  <2>3. LateRelease(d)'
    BY <1>k DEF KeptInv, LateRelease
  <2> QED BY <1>1, <1>k, <1>t, <2>1, <2>2, <2>3, KeptFrame
<1>2. CASE MirrorStep(d)
  <2>1. UNCHANGED call /\ \A e \in Daemons : Quit(e) => Quit(e)'
    BY <1>2 DEF MirrorStep, JudgeForWrite, NoteLapse, ownershipVars, Quit
  <2> QED BY <1>2, <1>k, <2>1, MirrorKeeps
<1>3. CASE Wedge(d) \/ Unwedge(d) \/ ShutdownStep(d)
  <2>1. UNCHANGED <<call, intent, write>> /\ \A e \in Daemons : Quit(e) => Quit(e)'
    BY <1>3, <1>t DEF Wedge, Unwedge, ShutdownStep, Dispose, WithdrawOwned, mirrorVars, ownershipVars, Quit
  <2> QED BY <1>k, <2>1 DEF Deletes, ReleaseOwed, Stage
<1>4. CASE Registry(d)
  <2>1. UNCHANGED call /\ \A e \in Daemons : Quit(e) => Quit(e)'
    BY <1>4 DEF Registry, ownershipVars, Quit
  <2>2. CASE UNCHANGED <<intent, write>>
    BY <1>k, <2>1, <2>2 DEF Deletes, ReleaseOwed, Stage
  <2>3. CASE Skip(d)
    <3>1. UNCHANGED write /\ intent'[d] = None
      BY <1>t, <2>3 DEF Skip
    <3> QED BY <1>k, <2>1, <3>1 DEF Deletes, ReleaseOwed, Stage
  <2>4. CASE intent[d] # None /\ IssueWrite(d, [intent[d] EXCEPT !.synced = FALSE], 0, Gone(d), TRUE)
    <3> DEFINE i == [intent[d] EXCEPT !.synced = FALSE]
    <3>1. i \in Intents /\ i.kind = intent[d].kind
      BY <1>t, <2>4 DEF Intents
    <3>2. (Deletes(d)' => i.kind = "release") /\ ~Stage(d, "put")'
      BY <1>t, <2>4, <3>1, IssueWriteAfter
    <3>3. Deletes(d)' => Deletes(d)
      BY <2>4, <3>1, <3>2 DEF Deletes, ReleaseOwed
    <3> QED BY <1>k, <2>1, <3>2, <3>3
  <2> QED BY <1>4, <2>2, <2>3, <2>4 DEF Registry, RegistryOpens
<1>5. CASE Crash(d) \/ Exit(d)
  <2>1. /\ MirrorDies(d) /\ Abandoned(d) /\ status' = [status EXCEPT ![d] = "dead"] /\ UNCHANGED lapsed
        /\ holder' \in {holder, [holder EXCEPT ![d] = None]}
    BY <1>5 DEF Crash, Exit
  <2>2. \A e \in Daemons : Quit(e) => Quit(e)'
    BY <1>t, <2>1 DEF Quit
  <2>3. intent'[d] = None /\ write'[d] = None
    BY <1>t, <2>1 DEF MirrorDies
  <2>4. \A s \in Sessions : DaemonOf[s] = d => call'[s].pc = "over"
    BY <2>1 DEF Abandoned, NewCall
  <2>5. ~Stage(d, "put")' /\ LateRelease(d)'
    BY <2>3 DEF LateRelease, Deletes, ReleaseOwed, Stage
  <2> QED BY <1>1, <1>t, <2>2, <2>4, <2>5, KeptFrame
<1> QED BY <1>2, <1>3, <1>4, <1>5

\* KeptInv holds at the start.
LEMMA KeptInvInit == Init => KeptInv
<1> SUFFICES ASSUME Init PROVE KeptInv
  OBVIOUS
<1>1. \A s \in Sessions : call[s].pc = "new"
  BY DEF Init, NewCall
<1>2. \A d \in Daemons : intent[d] = None /\ write[d] = None
  BY DEF Init, MirrorInit
<1> QED BY <1>1, <1>2 DEF KeptInv, RowVerdict, LateRelease, Deletes, ReleaseOwed, Stage

\* KeptInv is inductive while daemons bind the device again only when file and row are quiet.
LEMMA KeptInvStep ==
  TypeInv /\ RowInv /\ FileInv /\ KeptInv /\ [Next]_vars /\ [RebindsCleanly]_vars => KeptInv'
<1> SUFFICES ASSUME TypeInv, RowInv, FileInv, KeptInv, [Next]_vars, [RebindsCleanly]_vars PROVE KeptInv'
  OBVIOUS
<1>d. TypeOK /\ \A s \in Sessions : DaemonOf[s] \in Daemons
  BY OwnershipAssumption DEF Sessions, TypeInv
<1>1. CASE UNCHANGED vars
  <2>1. UNCHANGED <<status, lapsed, holder, call, intent, write>>
    BY <1>1 DEF vars, mirrorVars, ownershipVars
  <2> QED BY <2>1 DEF KeptInv, RowVerdict, LateRelease, Deletes, ReleaseOwed, Stage, Quit
<1>2. ASSUME NEW s \in Sessions, CallStep(s) \/ Release(s) PROVE KeptInv'
  BY <1>2, <1>d, KeptCallStep
<1>3. ASSUME NEW s \in Sessions, Assign(s), RebindsCleanly PROVE KeptInv'
  BY <1>3, <1>d, KeptAssignStep DEF RebindsCleanly
<1>4. ASSUME NEW d \in Daemons,
             \/ MirrorStep(d) \/ Registry(d) \/ Crash(d) \/ Wedge(d) \/ Unwedge(d)
             \/ ShutdownStep(d) \/ Exit(d)
      PROVE  KeptInv'
  BY <1>4, KeptDaemonStep
<1> QED BY <1>1, <1>2, <1>3, <1>4 DEF Next

\* Every driver that can write the claim directory is named by the claim file.
FileNames == \A d \in Daemons \cap Writable : Drives(d) => file = d

\* A driver's row stays its own: who replaces it judged it before the driver bound the device, or is
\* the driver itself, and no delete of the driver's own is left.
LEMMA RowStays ==
  ASSUME TypeOK, FileInv, KeptInv, [Next]_vars, NEW d \in Daemons, Drives(d), Owns(d, row)
  PROVE  Owns(d, row')
<1>1. PICK s \in Sessions : holder[d] = s /\ call[s].pc = "held"
  BY DEF Drives
<1>2. ~Quit(d) /\ mode[d] \in {"on", "skipped"}
  BY <1>1, NoneAssumption DEF Drives, Serving, Quit, Sessions
<1>3. ~Deletes(d)
  <2>1. ASSUME NEW t \in Sessions, DaemonOf[t] = d PROVE call[t].pc # "rollback"
    BY <1>1, <1>2, <2>1 DEF FileInv, CallsHold, InFlight, Quit
  <2> QED BY <1>2, <2>1 DEF KeptInv, LateRelease
<1>n. ASSUME NEW at \in Stamps PROVE Owns(d, NewRow(d, at))
  <2>1. NewRow(d, at) # None
    BY NoneAssumption DEF NewRow, Rows
  <2> QED BY <2>1 DEF Owns, NewRow
<1>4. ASSUME NEW t \in Sessions, Assign(t) \/ CallStep(t) \/ Release(t), row' # row PROVE Owns(d, row')
  <2>1. PICK at \in Stamps : CasRow(t, at)
    BY <1>4 DEF Assign, mirrorVars, CallStep, Release, CheckFile, Acquire, AcquireThrows, GetRow, Winner,
       StatementThrows, TakeFile, TakeOver, Confirm, TableOk, Publish, Rollback, JudgeFile, JudgeRow,
       JudgeOwner, JudgeTable, TableRead
  <2>2. call[t].pc = "casRow" /\ Owns(d, call[t].seenRow) /\ row' = NewRow(DaemonOf[t], at)
    BY <1>4, <2>1 DEF CasRow, At, StillExpected
  <2>3. DaemonOf[t] = d
    BY <1>2, <2>2 DEF KeptInv, RowVerdict
  <2> QED BY <1>n, <2>2, <2>3
<1>5. ASSUME NEW e \in Daemons, MirrorStep(e), row' # row PROVE Owns(d, row')
  <2>1. WriteDelete(e) \/ \E at \in Stamps : WritePut(e, at)
    BY <1>5 DEF MirrorStep, JudgeForWrite, WriteJudge, WriteGet, WriteThrows, WriteSettles, RetryFires
  <2>2. ~WriteDelete(e)
    <3>1. CASE e = d
      BY <1>3, <3>1 DEF WriteDelete, Deletes
    <3>2. CASE e # d
      BY <1>5, <3>2 DEF WriteDelete, DeleteOwn, Owns
    <3> QED BY <3>1, <3>2
  <2>3. PICK at \in Stamps : WritePut(e, at)
    BY <2>1, <2>2
  <2>4. Stage(e, "put") /\ Owns(d, write[e].seen) /\ row' = NewRow(e, at)
    BY <1>5, <2>3 DEF WritePut, StillExpected
  <2>5. e = d
    BY <1>2, <2>4 DEF KeptInv, RowVerdict
  <2> QED BY <1>n, <2>4, <2>5
<1>6. ASSUME NEW e \in Daemons, ShutdownStep(e), row' # row PROVE FALSE
  BY <1>2, <1>6 DEF ShutdownStep, Dispose, WithdrawOwned, DeleteOwn, Owns
<1>7. ASSUME NEW e \in Daemons, Registry(e) \/ Crash(e) \/ Wedge(e) \/ Unwedge(e) \/ Exit(e) PROVE UNCHANGED row
  BY <1>7 DEF Registry, RegistryOpens, Skip, Crash, Wedge, Unwedge, Exit, MirrorDies, mirrorVars
<1>8. CASE UNCHANGED vars
  BY <1>8 DEF vars, mirrorVars
<1> QED BY <1>4, <1>5, <1>6, <1>7, <1>8 DEF Next

\* While a daemon drives the device, nobody takes its claim file or its row away, a late write of its
\* own mirror included: when daemons bind the device again only once the calls, verdicts and deletes
\* about their last claim are done.
THEOREM DriverKeeps ==
  Spec /\ [][RebindsCleanly]_vars => DriverKeepsClaim
<1> DEFINE Inv == TypeInv /\ RowInv /\ FileInv /\ KeptInv
<1>1. Init => Inv
  BY TypeInvInit, RowInvInit, FileInvInit, KeptInvInit
<1>2. Inv /\ [Next]_vars /\ [RebindsCleanly]_vars => Inv'
  <2>1. RebindsCleanly => RebindsQuietly
    BY DEF RebindsCleanly, RebindsQuietly
  <2> QED BY <2>1, TypeInvStep, RowInvStep, FileInvStep, KeptInvStep DEF TypeInv
<1>3. Inv => FileNames
  BY DriverInFile DEF FileNames, TypeInv
<1>4. Inv /\ FileNames' /\ [Next]_vars =>
        [\A d \in Daemons : Drives(d) /\ Drives(d)' =>
            (file = d => file' = d) /\ (Owns(d, row) => Owns(d, row'))]_vars
  <2> SUFFICES ASSUME Inv, FileNames', [Next]_vars, NEW d \in Daemons, Drives(d), Drives(d)'
               PROVE  (file = d => file' = d) /\ (Owns(d, row) => Owns(d, row'))
    OBVIOUS
  <2>1. Owns(d, row) => Owns(d, row')
    BY RowStays DEF TypeInv
  <2>2. ASSUME file = d PROVE file' = d
    <3>1. d \in Writable
      BY <2>2, NoneAssumption DEF FileInv, FileWritten
    <3> QED BY <3>1 DEF FileNames
  <2> QED BY <2>1, <2>2
<1> QED BY <1>1, <1>2, <1>3, <1>4, PTL DEF Spec, DriverKeepsClaim

-----------------------------------------------------------------------------
(* The daemons together are one lock on the device: DeviceLock with the driving session as    *)
(* its owner.  A step that makes a session drive the device stops nobody, so it can only be   *)
(* taken while nobody drives it.                                                              *)

\* A step of a claim call leaves the other calls and the mode of every mirror alone.
LEMMA CallModeSame ==
  ASSUME TypeOK, RowInv, NEW s \in Sessions, CallStep(s)
  PROVE  UNCHANGED mode /\ \A t \in Sessions : t # s => call'[t] = call[t]
<1>1. DaemonOf[s] \in Daemons
  BY OwnershipAssumption DEF Sessions
<1>2. CallEffect(s, DaemonOf[s])
  BY <1>1, CallRowEffect DEF RowInv
<1> QED BY <1>2 DEF CallEffect

\* A session drives the device when its own call ended with it and its daemon serves.
LEMMA DriverIs ==
  ASSUME NEW s \in Sessions
  PROVE  Driver(s) <=> /\ Serving(DaemonOf[s]) /\ DaemonOf[s] \notin lapsed
                       /\ holder[DaemonOf[s]] = s /\ call[s].pc = "held"
BY DEF Driver, Drives

\* One session drives the device at a time.
LEMMA DriverUnique ==
  ASSUME Exclusive, NEW s \in Sessions, NEW t \in Sessions, Driver(s), Driver(t)
  PROVE  s = t
<1>1. DaemonOf[s] \in Daemons /\ DaemonOf[t] \in Daemons
  BY OwnershipAssumption DEF Sessions
<1> QED BY <1>1 DEF Exclusive, Driver

\* A step either makes no session drive the device, or stops none that does.
LEMMA DriverStep ==
  ASSUME TypeOK, RowInv, [Next]_vars
  PROVE  \/ \A t \in Sessions : Driver(t)' => Driver(t)
         \/ \A t \in Sessions : Driver(t) => Driver(t)'
<1> DEFINE Goal == \/ \A t \in Sessions : Driver(t)' => Driver(t)
                   \/ \A t \in Sessions : Driver(t) => Driver(t)'
<1> SUFFICES Goal
  OBVIOUS
<1>t. /\ \A s \in Sessions : DaemonOf[s] \in Daemons
      /\ holder \in [Daemons -> Sessions \cup {None}] /\ mode \in [Daemons -> Modes]
      /\ status \in [Daemons -> {"up", "wedged", "dead"}] /\ None \notin Sessions
  BY NoneAssumption, OwnershipAssumption DEF Sessions, TypeOK, MirrorTypeOK
<1>p. /\ \A s \in Sessions : Driver(s) <=>
           /\ Serving(DaemonOf[s]) /\ DaemonOf[s] \notin lapsed
           /\ holder[DaemonOf[s]] = s /\ call[s].pc = "held"
      /\ \A s \in Sessions : Driver(s)' <=>
           /\ Serving(DaemonOf[s])' /\ DaemonOf[s] \notin lapsed'
           /\ holder'[DaemonOf[s]] = s /\ call'[s].pc = "held"
  BY DEF Driver, Drives
\* a step that makes nobody drive the device
<1>n. ASSUME \A t \in Sessions : Driver(t)' =>
               /\ Serving(DaemonOf[t]) /\ holder[DaemonOf[t]] = t /\ call[t].pc = "held"
               /\ DaemonOf[t] \notin lapsed
      PROVE  Goal
  BY <1>n, <1>p
<1>1. ASSUME NEW s \in Sessions, Assign(s) PROVE Goal
  <2>1. /\ CallIs(s, "assigned", None, None) /\ UNCHANGED <<status, lapsed, mode>>
        /\ holder' = [holder EXCEPT ![DaemonOf[s]] = s]
    BY <1>1, CallAfter DEF Assign, mirrorVars
  <2> QED BY <1>n, <1>p, <1>t, <2>1 DEF CallIs, Serving
<1>2. ASSUME NEW s \in Sessions, Publish(s) PROVE Goal
  <2>1. /\ UNCHANGED <<status, lapsed, mode, holder>> /\ call[s].pc = "publish"
        /\ \A t \in Sessions : t # s => call'[t] = call[t]
    BY <1>2, CallAfter DEF Publish, At, CallIs
  <2> QED BY <1>p, <2>1 DEF Serving
<1>3. ASSUME NEW s \in Sessions, CallStep(s), ~Publish(s) PROVE Goal
  <2>1. /\ UNCHANGED status /\ lapsed \subseteq lapsed' /\ call'[s].pc # "held"
        /\ UNCHANGED holder \/ Rollback(s)
    BY <1>3, CallGoes
  <2>2. \A e \in Daemons : holder'[e] \in {holder[e], None}
    BY <1>t, <2>1 DEF Rollback
  <2>3. UNCHANGED mode /\ \A t \in Sessions : t # s => call'[t] = call[t]
    BY <1>3, CallModeSame
  <2> QED BY <1>n, <1>p, <1>t, <2>1, <2>2, <2>3 DEF Serving
<1>4. ASSUME NEW s \in Sessions, Release(s) PROVE Goal
  <2>1. /\ UNCHANGED <<status, lapsed, mode>> /\ holder' = [holder EXCEPT ![DaemonOf[s]] = None]
        /\ \A t \in Sessions : call'[t] = call[t] \/ call'[t].pc = "over"
    BY <1>4, CallAfter DEF Release, CallIs
  <2> QED BY <1>n, <1>p, <1>t, <2>1 DEF Serving
<1>5. ASSUME NEW d \in Daemons, MirrorStep(d) \/ Registry(d) \/ ShutdownStep(d) PROVE Goal
  <2>1. UNCHANGED <<status, holder, call>> /\ lapsed \subseteq lapsed'
    BY <1>5 DEF MirrorStep, JudgeForWrite, NoteLapse, Registry, ShutdownStep, ownershipVars
  <2>2. \A e \in Daemons : mode'[e] \in {"on", "skipped"} => mode[e] \in {"on", "skipped"}
    BY <1>5, <1>t DEF MirrorStep, JudgeForWrite, WriteJudge, WriteDelete, WriteGet, WriteThrows, WritePut,
       WriteSettles, RetryFires, Registry, RegistryOpens, Skip, ShutdownStep, Dispose, WithdrawOwned
  <2> QED BY <1>n, <1>p, <1>t, <2>1, <2>2 DEF Serving
<1>6. ASSUME NEW d \in Daemons, Crash(d) \/ Exit(d) \/ Wedge(d) PROVE Goal
  <2>1. /\ UNCHANGED <<lapsed, mode>> /\ \A e \in Daemons : status'[e] = "up" => status[e] = "up"
        /\ \A e \in Daemons : holder'[e] \in {holder[e], None}
    BY <1>6, <1>t DEF Crash, Exit, Wedge, MirrorDies, mirrorVars
  <2>2. \A t \in Sessions : call'[t].pc = "held" => call[t].pc = "held"
    BY <1>6 DEF Crash, Exit, Wedge, Abandoned, NewCall
  <2> QED BY <1>n, <1>p, <1>t, <2>1, <2>2 DEF Serving
<1>7. ASSUME NEW d \in Daemons, Unwedge(d) PROVE Goal
  <2>1. /\ UNCHANGED <<lapsed, mode, holder, call>>
        /\ \A e \in Daemons : status[e] = "up" => status'[e] = "up"
    BY <1>7, <1>t DEF Unwedge, mirrorVars
  <2> QED BY <1>p, <1>t, <2>1 DEF Serving
<1>8. CASE UNCHANGED vars
  <2>1. UNCHANGED <<status, lapsed, mode, holder, call>>
    BY <1>8 DEF vars, mirrorVars, ownershipVars
  <2> QED BY <1>p, <2>1 DEF Serving
<1> HIDE DEF Goal
<1> QED BY <1>1, <1>2, <1>3, <1>4, <1>5, <1>6, <1>7, <1>8 DEF Next

\* The owner of the lock is the driver.
LEMMA LockOwnerIs ==
  ASSUME Exclusive
  PROVE  /\ \A s \in Sessions : Driver(s) => LockOwner = s
         /\ (\A s \in Sessions : ~Driver(s)) => LockOwner = None
         /\ LockOwner # None => LockOwner \in Sessions /\ Driver(LockOwner)
<1>1. ASSUME NEW s \in Sessions, Driver(s) PROVE LockOwner = s
  BY <1>1, DriverUnique DEF LockOwner
<1>2. ASSUME \A s \in Sessions : ~Driver(s) PROVE LockOwner = None
  BY <1>2 DEF LockOwner
<1> QED BY <1>1, <1>2

\* The daemons implement one lock on the device (DeviceLock): when every daemon can write the claim
\* directory and binds the device again only when its file is quiet, sessions, of whatever daemon,
\* take turns driving it, and nobody drives it between two turns.
THEOREM OneLock ==
  ASSUME Writable = Daemons
  PROVE  Spec /\ [][RebindsQuietly]_vars => ImplementsLock
<1>1. Init => Lock!Init
  <2> SUFFICES ASSUME Init PROVE LockOwner = None
    BY DEF Lock!Init
  <2>1. \A s \in Sessions : ~Driver(s)
    BY DriverIs DEF Init, NewCall
  <2> QED BY <2>1 DEF LockOwner
\* a session drives only at most one device, in this state and in the next
<1> DEFINE Owned == /\ \A s \in Sessions : Driver(s) => LockOwner = s
                    /\ LockOwner # None => LockOwner \in Sessions /\ Driver(LockOwner)
<1>2. Exclusive => Owned
  BY LockOwnerIs
<1>3. TypeOK /\ RowInv /\ Owned /\ Owned' /\ [Next]_vars => [Lock!Next]_LockOwner
  <2> SUFFICES ASSUME TypeOK, RowInv, Owned, Owned', [Next]_vars, LockOwner' # LockOwner
               PROVE  \/ LockOwner # None /\ LockOwner' = None
                      \/ LockOwner = None /\ LockOwner' \in Sessions
    BY DEF Lock!Next, Lock!Take, Lock!Give
  <2>1. ASSUME LockOwner # None, LockOwner' # None PROVE LockOwner' = LockOwner
    <3>1. /\ LockOwner \in Sessions /\ Driver(LockOwner)
          /\ LockOwner' \in Sessions /\ Driver(LockOwner)'
      BY <2>1
    <3>2. CASE \A t \in Sessions : Driver(t)' => Driver(t)
      BY <3>1, <3>2
    <3>3. CASE \A t \in Sessions : Driver(t) => Driver(t)'
      BY <3>1, <3>3
    <3> QED BY <3>2, <3>3, DriverStep
  <2>2. LockOwner' # None => LockOwner' \in Sessions
    OBVIOUS
  <2> QED BY <2>1, <2>2
<1>4. Spec /\ [][RebindsQuietly]_vars => []Exclusive
  BY OneDriver
<1>5. Spec => []TypeOK /\ []RowInv
  BY TypeCorrect, RowInvInit, RowInvStep, PTL DEF Spec
<1> QED BY <1>1, <1>2, <1>3, <1>4, <1>5, PTL DEF Spec, ImplementsLock, Lock!Spec

-----------------------------------------------------------------------------
(* A daemon that binds the device once in its life rebinds nothing: nobody knows a daemon     *)
(* whose session has not been bound yet, so the hypotheses of the theorems above hold.        *)

OneSessionEach == \A s, t \in Sessions : DaemonOf[s] = DaemonOf[t] => s = t

\* no session of daemon d was ever bound, and nothing names the daemon
Fresh(d) == \A s \in Sessions : DaemonOf[s] = d => call[s].pc = "new"
Unknown(d) ==
  /\ file # d /\ ~Owns(d, row) /\ intent[d] = None /\ write[d] = None
  /\ \A s \in Sessions : call[s].seenFile # d /\ ~Owns(d, call[s].seenRow)
  /\ \A e \in Daemons : write[e] # None => ~Owns(d, write[e].seen)
FreshInv == \A d \in Daemons : Fresh(d) => Unknown(d)

\* A step of another daemon, or of a mirror that has nothing to write, names no fresh daemon.
LEMMA FreshStep ==
  ASSUME FreshInv, NEW d \in Daemons, NEW e \in Daemons \ {d}, LeavesAlone(d), Fresh(d)',
         \A o \in Daemons \ {e, d} : write'[o] = write[o], WriteSees(e),
         file' \in {file, None, e},
         \A s \in Sessions : /\ call'[s].seenFile \in {None, file, call[s].seenFile}
                             /\ call'[s].seenRow \in {None, row, call[s].seenRow}
  PROVE  Unknown(d)'
<1>1. Fresh(d)
  BY DEF Fresh, LeavesAlone
<1>2. Unknown(d) /\ d # None
  BY <1>1, NoneAssumption DEF FreshInv
<1>3. file' # d /\ ~Owns(d, row') /\ intent'[d] = None /\ write'[d] = None
  BY <1>2 DEF Unknown, LeavesAlone
<1>4. \A s \in Sessions : call'[s].seenFile # d /\ ~Owns(d, call'[s].seenRow)
  BY <1>2 DEF Unknown, Owns
<1>5. ASSUME NEW o \in Daemons, write'[o] # None PROVE ~Owns(d, write'[o].seen)
  <2>1. CASE o = d
    BY <1>3, <1>5, <2>1
  <2>2. CASE o = e
    BY <1>2, <1>5, <2>2 DEF Unknown, WriteSees, Owns
  <2>3. CASE o \notin {d, e}
    BY <1>2, <1>5, <2>3 DEF Unknown
  <2> QED BY <2>1, <2>2, <2>3
<1> QED BY <1>3, <1>4, <1>5 DEF Unknown

\* The steps of a claim call, its assignment and its release, name no fresh daemon.
LEMMA FreshCallStep ==
  ASSUME TypeOK, RowInv, FreshInv, NEW s \in Sessions, Assign(s) \/ CallStep(s) \/ Release(s)
  PROVE  FreshInv'
<1>1. PICK e \in Daemons : e = DaemonOf[s]
  BY OwnershipAssumption DEF Sessions
<1>2. CallEffect(s, e) /\ RowEffect(s, e)
  BY <1>1, CallRowEffect DEF RowInv
<1>3. /\ call'[s].pc # "new" /\ file' \in {file, None, e}
      /\ call'[s].seenFile \in {None, file, call[s].seenFile}
      /\ call'[s].seenRow \in {None, row, call[s].seenRow}
  <2>1. CASE CallStep(s)
    BY <1>1, <2>1, CallGoes
  <2>2. CASE Assign(s)
    BY <2>2, CallAfter DEF Assign, CallIs
  <2>3. CASE Release(s)
    <3>1. file' \in {file, None}
      BY <2>3 DEF Release, WithdrawClaim
    <3>2. CASE call[s].pc \in InFlight
      BY <2>3, <3>1, <3>2 DEF Release, InFlight
    <3>3. CASE call[s].pc \notin InFlight
      BY <2>3, <3>1, <3>3, CallAfter DEF Release, CallIs
    <3> QED BY <3>2, <3>3
  <2> QED BY <2>1, <2>2, <2>3
<1>4. \A t \in Sessions : t # s => call'[t] = call[t]
  BY <1>2 DEF CallEffect
<1>5. WriteSees(e)
  <2>1. CASE UNCHANGED <<row, intent, armed, attempts, write>>
    BY <2>1 DEF WriteSees
  <2>2. CASE \E gone \in BOOLEAN : Record(e, ReleaseIntent, gone) \/ Record(e, ClaimIntent(FALSE), gone)
    BY <2>2, IntentsTyped, RecordAfter
  <2>3. CASE RecordAcquired(e)
    BY <2>3, IntentsTyped, RecordAfter
  <2> QED BY <1>2, <2>1, <2>2, <2>3 DEF RowEffect
<1>6. ASSUME NEW d \in Daemons, Fresh(d)' PROVE Unknown(d)'
  <2>1. d # e
    BY <1>1, <1>3, <1>6 DEF Fresh
  <2>2. \A o \in Daemons \ {e} : LeavesAlone(o)
    BY <1>1, <1>2, CallLeavesAlone
  <2>3. \A o \in Daemons \ {e, d} : write'[o] = write[o]
    BY <2>2 DEF LeavesAlone
  <2> QED BY <1>3, <1>4, <1>5, <1>6, <2>1, <2>2, <2>3, FreshStep
<1> QED BY <1>6 DEF FreshInv

\* Every other step of a daemon names no fresh daemon.
LEMMA FreshDaemonStep ==
  ASSUME TypeInv, FreshInv, NEW e \in Daemons,
         \/ MirrorStep(e) \/ Registry(e) \/ Crash(e) \/ Wedge(e) \/ Unwedge(e)
         \/ ShutdownStep(e) \/ Exit(e)
  PROVE  FreshInv'
<1>t. /\ TypeOK /\ intent \in [Daemons -> Intents \cup {None}] /\ write \in [Daemons -> Writes \cup {None}]
  BY DEF TypeInv, TypeOK, MirrorTypeOK
<1>1. \A o \in Daemons \ {e} : LeavesAlone(o)
  BY <1>t, DaemonLeavesAlone
<1>2. /\ file' \in {file, None, e}
      /\ \A s \in Sessions : \/ call'[s] = call[s]
                             \/ call'[s].pc # "new" /\ call'[s].seenFile = None /\ call'[s].seenRow = None
  BY DEF MirrorStep, JudgeForWrite, Registry, ShutdownStep, ownershipVars, Crash, Wedge, Unwedge, Exit,
         Abandoned, NewCall
<1>3. WriteSees(e)
  <2>1. CASE MirrorStep(e)
    BY <2>1, MirrorKeeps
  <2>2. CASE Wedge(e) \/ Unwedge(e) \/ ShutdownStep(e) \/ Skip(e)
    BY <2>2 DEF Wedge, Unwedge, ShutdownStep, Dispose, WithdrawOwned, Skip, mirrorVars, WriteSees
  <2>3. CASE RegistryOpens(e, Gone(e))
    <3>1. CASE UNCHANGED write
      BY <3>1 DEF WriteSees
    <3>2. CASE intent[e] # None /\ IssueWrite(e, [intent[e] EXCEPT !.synced = FALSE], 0, Gone(e), TRUE)
      <4>1. [intent[e] EXCEPT !.synced = FALSE] \in Intents
        BY <1>t, <3>2 DEF Intents
      <4> QED BY <1>t, <3>2, <4>1, IssueWriteAfter
    <3> QED BY <2>3, <3>1, <3>2 DEF RegistryOpens
  <2>4. CASE Crash(e) \/ Exit(e)
    <3>1. write'[e] = None
      BY <1>t, <2>4 DEF Crash, Exit, MirrorDies
    <3> QED BY <3>1 DEF WriteSees
  <2> QED BY <2>1, <2>2, <2>3, <2>4 DEF Registry
<1>4. ASSUME NEW d \in Daemons, Fresh(d)' PROVE Unknown(d)'
  <2>1. CASE d # e
    <3>1. \A o \in Daemons \ {e, d} : write'[o] = write[o]
      BY <1>1 DEF LeavesAlone
    <3>2. \A s \in Sessions : /\ call'[s].seenFile \in {None, file, call[s].seenFile}
                              /\ call'[s].seenRow \in {None, row, call[s].seenRow}
      BY <1>2
    <3> QED BY <1>1, <1>2, <1>3, <1>4, <2>1, <3>1, <3>2, FreshStep
  <2>2. CASE d = e
    <3>1. Unknown(e)
      BY <1>2, <1>4, <2>2 DEF FreshInv, Fresh
    <3>2. intent[e] = None /\ write[e] = None /\ ~Owns(e, row) /\ file # e
      BY <3>1 DEF Unknown
    <3>3. /\ UNCHANGED row /\ file' # e /\ intent'[e] = None /\ write'[e] = None
      <4>1. CASE MirrorStep(e)
        <5>1. RetryFires(e, Gone(e)) /\ UNCHANGED file
          BY <3>2, <4>1 DEF MirrorStep, JudgeForWrite, WriteDelete, WriteGet, WriteThrows, WritePut,
             WriteSettles, Stage, ownershipVars
        <5> QED BY <3>2, <5>1 DEF RetryFires
      <4>2. CASE Registry(e) \/ Wedge(e) \/ Unwedge(e) \/ ShutdownStep(e)
        BY <1>t, <3>2, <4>2 DEF Registry, RegistryOpens, Skip, Wedge, Unwedge, ShutdownStep, Dispose,
           WithdrawOwned, mirrorVars, ownershipVars
      <4>3. CASE Crash(e) \/ Exit(e)
        BY <1>t, <3>2, <4>3, NoneAssumption DEF Crash, Exit, MirrorDies
      <4> QED BY <4>1, <4>2, <4>3
    <3>4. \A s \in Sessions : call'[s].seenFile # e /\ ~Owns(e, call'[s].seenRow)
      BY <1>2, <3>1, NoneAssumption DEF Unknown, Owns
    <3>5. \A o \in Daemons : write'[o] # None => ~Owns(e, write'[o].seen)
      BY <1>1, <3>1, <3>3 DEF Unknown, LeavesAlone
    <3> QED BY <2>2, <3>2, <3>3, <3>4, <3>5 DEF Unknown
  <2> QED BY <2>1, <2>2
<1> QED BY <1>4 DEF FreshInv

\* What is known of a daemon that binds the device for the first time.
LEMMA FreshHolds == Spec => []FreshInv
<1>1. Init => FreshInv
  <2> SUFFICES ASSUME Init PROVE FreshInv
    OBVIOUS
  <2>1. \A s \in Sessions : call[s].seenFile = None /\ call[s].seenRow = None
    BY DEF Init, NewCall
  <2>2. file = None /\ row = None /\ \A d \in Daemons : intent[d] = None /\ write[d] = None
    BY DEF Init, MirrorInit
  <2> QED BY <2>1, <2>2, NoneAssumption DEF FreshInv, Unknown, Owns
<1>2. TypeInv /\ RowInv /\ FreshInv /\ [Next]_vars => FreshInv'
  <2> SUFFICES ASSUME TypeInv, RowInv, FreshInv, [Next]_vars PROVE FreshInv'
    OBVIOUS
  <2>1. CASE UNCHANGED vars
    <3>1. UNCHANGED <<call, file, row, intent, write>>
      BY <2>1 DEF vars, mirrorVars, ownershipVars
    <3> QED BY <3>1 DEF FreshInv, Fresh, Unknown
  <2>2. ASSUME NEW s \in Sessions, Assign(s) \/ CallStep(s) \/ Release(s) PROVE FreshInv'
    BY <2>2, FreshCallStep DEF TypeInv
  <2>3. ASSUME NEW d \in Daemons,
               \/ MirrorStep(d) \/ Registry(d) \/ Crash(d) \/ Wedge(d) \/ Unwedge(d)
               \/ ShutdownStep(d) \/ Exit(d)
        PROVE  FreshInv'
    BY <2>3, FreshDaemonStep
  <2> QED BY <2>1, <2>2, <2>3 DEF Next
<1> QED BY <1>1, <1>2, TypeInvInit, TypeInvStep, RowInvInit, RowInvStep, PTL DEF Spec, TypeInv

\* A daemon whose one session binds the device finds its file and its row quiet.
LEMMA FreshRebinds ==
  ASSUME OneSessionEach
  PROVE  Spec => [][RebindsCleanly]_vars
<1>1. FreshInv => RebindsCleanly
  <2> SUFFICES ASSUME FreshInv, NEW s \in Sessions, Assign(s)
               PROVE  FileQuiet(DaemonOf[s]) /\ RowQuiet(DaemonOf[s])
    BY DEF RebindsCleanly
  <2>1. PICK d \in Daemons : d = DaemonOf[s]
    BY OwnershipAssumption DEF Sessions
  <2>2. \A t \in Sessions : DaemonOf[t] = d => call[t].pc = "new"
    BY <2>1 DEF OneSessionEach, Assign, At
  <2>3. Unknown(d)
    BY <2>2 DEF FreshInv, Fresh
  <2>4. FileQuiet(d)
    BY <2>2, <2>3 DEF FileQuiet, Claiming, InFlight, Unknown
  <2>5. RowQuiet(d)
    BY <2>3 DEF RowQuiet, Unknown, Deletes, ReleaseOwed, Stage
  <2> QED BY <2>1, <2>4, <2>5
<1>2. FreshInv => [RebindsCleanly]_vars
  BY <1>1
<1> QED BY <1>2, FreshHolds, PTL

\* Daemons that bind the device once each, and can all write the claim directory, implement one lock on
\* it, and none of them loses its claim while it drives: without any hypothesis on their behaviour.
THEOREM OneSessionEachLock ==
  ASSUME Writable = Daemons, OneSessionEach
  PROVE  Spec => []Exclusive /\ []DriverIsVisible /\ DriverKeepsClaim /\ ImplementsLock
<1>1. RebindsCleanly => RebindsQuietly
  BY DEF RebindsCleanly, RebindsQuietly
<1>2. Spec => [][RebindsQuietly]_vars
  BY <1>1, FreshRebinds, PTL
<1>3. Spec /\ [][RebindsQuietly]_vars => []Exclusive /\ ImplementsLock
  BY OneDriver, OneLock
<1> QED BY <1>2, <1>3, FreshRebinds, DriverVisible, DriverKeeps, PTL
=============================================================================
