--------------------------- MODULE McpTasks_proofs ---------------------------
(***************************************************************************)
(* For every set of tasks, instances and keys:                             *)
(*   Spec => TerminalStays, Spec => []SettledIsStored                      *)
(* and, with one live instance at a time (~Peers):                         *)
(*   Spec => []TasksSound, Spec => []OwnerSettles,                         *)
(*   Spec => []QuestionsAnswerable.                                        *)
(*                                                                         *)
(* None is inductive: a step stores a statement that was issued many steps *)
(* before.  The invariant says what every queued statement may still       *)
(* assume when its turn comes (QueuesFollow, LiveRows, Answers) and in     *)
(* which order two statements of a queue were issued (Once, Sequenced).    *)
(* Inv1 needs nothing of the instances, Inv2 one live instance at a time,  *)
(* Inv3 both and that no progress report was issued.                       *)
(***************************************************************************)
EXTENDS McpTasks, TLAPS

\* statement x is queued at instance d, and x before y
Has(d, x) == \E i \in 1..Len(queue[d]) : queue[d][i] = x
Before(d, x, y) ==
  \E i, j \in 1..Len(queue[d]) : i < j /\ queue[d][i] = x /\ queue[d][j] = y

-----------------------------------------------------------------------------
(* For any number of live instances. *)

\* the row of a task follows its work, and only finished rows expire
RowsFollow ==
  /\ \A t \in Tasks :
       /\ work[t] \in {"none", "creating"} => status[t] = "none"
       /\ work[t] \notin {"none", "creating", "over"} => status[t] # "none"
       /\ waiter[t] # NoWaiter => answer[t] = "pending" /\ work[t] \in {"storing", "asking"}
       /\ work[t] \in {"storing", "asking"} /\ waiter[t] = NoWaiter => answer[t] # "pending"
  /\ \A t \in expired : status[t] \in Terminal

\* a queued statement is about the task that issued it, which is where it left it
QueuesFollow ==
  \A d \in Instances, x \in Statements : Has(d, x) =>
    /\ d \in alive
    /\ x.op = "insert" => home[x.task] = d /\ work[x.task] = "creating"
    /\ x.op = "input" => home[x.task] = d /\ work[x.task] = "storing"
    /\ x.op \notin {"recover", "insert"} => status[x.task] # "none"

\* the insert of a task and the questions of a call are stored once
Once ==
  \A d \in Instances, x, y \in Statements :
    Before(d, x, y) /\ x.op \in {"insert", "input"} /\ y.op = x.op => y.task # x.task

Inv1 == TypeOK /\ RowsFollow /\ QueuesFollow /\ Once /\ SettledIsStored

-----------------------------------------------------------------------------
(* For one live instance at a time. *)

OneAlive == \A d, e \in alive : d = e

\* the row of a live instance's task ends by its settlement only
LiveRows ==
  /\ \A t \in Tasks : home[t] \in alive /\ status[t] \in Terminal \cup {"deleted"} => settled[t]
  /\ \A d \in Instances, x \in Statements :
       Has(d, x) /\ x.op = "direct" => home[x.task] # d \/ settled[x.task]

Inv2 == OneAlive /\ RunningRowsAreOurs /\ LiveRows

-----------------------------------------------------------------------------
(* While no progress is reported. *)

Quiet(t) == home[t] \in alive /\ ~cancelRequested[t] /\ ~settled[t]

\* the work waits for answers to stored questions
Waits(t) == work[t] = "asking" /\ waiter[t] # NoWaiter

\* the row asks what the work waits for, and nothing between two questions
AskedOf(t) ==
  /\ waiter[t] # NoWaiter => ~cancelRequested[t] /\ waiter[t].asked # {}
  /\ Quiet(t) /\ work[t] = "storing" => waiter[t] # NoWaiter
  /\ work[t] = "storing" /\ waiter[t] # NoWaiter =>
       waiter[t].asked \cap issued[t] = {} /\ waiter[t].outstanding = waiter[t].asked
  /\ Quiet(t) /\ ~Waits(t) => status[t] # "input_required"
  /\ home[t] \in alive /\ Waits(t) =>
       /\ status[t] = "input_required" /\ requests[t] # {}
       /\ waiter[t].asked \subseteq issued[t] /\ waiter[t].outstanding \subseteq requests[t]
Questions == \A t \in Tasks : AskedOf(t)

\* and no statement that is still to be stored changes that
Answers ==
  \A d \in Instances, x \in Statements : Has(d, x) =>
    /\ x.op # "status"
    /\ x.op = "input" /\ waiter[x.task] # NoWaiter => x.keys = waiter[x.task].asked
    /\ x.op = "partial" =>
         /\ home[x.task] = d /\ (Quiet(x.task) => Waits(x.task))
         /\ Waits(x.task) => waiter[x.task].outstanding \subseteq x.keys /\ x.keys # {}
    /\ x.op = "answer" =>
         /\ home[x.task] = d /\ x.keys \subseteq issued[x.task]
         /\ Waits(x.task) => x.keys = waiter[x.task].asked /\ waiter[x.task].outstanding = {}

\* a partial answer is stored before the last one, and both before the next questions
Sequenced ==
  \A d \in Instances, x, y \in Statements : Before(d, x, y) =>
    /\ x.op = "answer" /\ y.op = "partial" => x.task # y.task
    /\ x.op = "input" /\ y.op \in {"answer", "partial"} => x.task # y.task

Inv3 == reports = 0 => Questions /\ Answers /\ Sequenced

IInv == Inv1 /\ Inv2 /\ Inv3

-----------------------------------------------------------------------------
(* Queues. *)

\* The fields of a statement.
LEMMA Fields ==
  ASSUME NEW x \in Statements
  PROVE  /\ x.op \in {"recover", "insert", "cancel", "direct", "input", "update", "partial",
                      "answer", "status", "settle"}
         /\ x.op # "recover" => x.task \in Tasks
         /\ x.op \in {"input", "update", "partial", "answer"} => x.keys \in SUBSET Keys
         /\ x.op = "status" => x.to \in Running
         /\ x.op = "settle" => x.to \in Terminal
BY DEF Statements

\* Of two queued statements both are queued.
LEMMA BeforeHas ==
  ASSUME NEW d, NEW x, NEW y, Before(d, x, y)
  PROVE  Has(d, x) /\ Has(d, y)
BY DEF Before, Has

\* queue grows at d by statements of N, a recovery first
Grows(d, N) ==
  /\ queue' \in [Instances -> Seq(Statements)]
  /\ \A e \in Instances, x \in Statements : Has(e, x)' => Has(e, x) \/ (e = d /\ x \in N)
  /\ \A e \in Instances, x, y \in Statements : Before(e, x, y)' =>
       Before(e, x, y) \/ (e = d /\ Has(e, x) /\ y \in N) \/ x.op = "recover"

\* the head of d's queue is done, and statements of N are added
Takes(d, N) ==
  /\ queue' \in [Instances -> Seq(Statements)]
  /\ Head(queue[d]) \in Statements /\ Has(d, Head(queue[d]))
  /\ \A e \in Instances, x \in Statements : Has(e, x)' =>
       \/ Has(e, x) /\ (e = d => Before(d, Head(queue[d]), x))
       \/ e = d /\ x \in N
  /\ \A e \in Instances, x, y \in Statements : Before(e, x, y)' =>
       Before(e, x, y) \/ (e = d /\ Has(e, x) /\ y \in N)

\* Where the elements of a queue are after something was appended.
LEMMA Appended ==
  ASSUME NEW S, NEW q \in Seq(S), NEW s \in Seq(S), NEW r, r = q \o s
  PROVE  /\ r \in Seq(S) /\ Len(r) = Len(q) + Len(s)
         /\ \A i \in 1..Len(r) : \/ i \in 1..Len(q) /\ r[i] = q[i]
                                 \/ i > Len(q) /\ i - Len(q) \in 1..Len(s) /\ r[i] = s[i - Len(q)]
OBVIOUS

\* Where they are after the head was taken.
LEMMA Tailed ==
  ASSUME NEW S, NEW q \in Seq(S), q # <<>>, NEW r, r = Tail(q)
  PROVE  /\ r \in Seq(S) /\ Len(r) = Len(q) - 1 /\ Len(q) > 0
         /\ \A i \in 1..Len(r) : i + 1 \in 1..Len(q) /\ r[i] = q[i + 1]
         /\ q[1] = Head(q) /\ Head(q) \in S
OBVIOUS

\* Push(d, s) where the statements of s but a recovery are those of N.
LEMMA PushGrows ==
  ASSUME TypeOK, NEW d \in Instances, NEW s \in Seq(Statements), NEW N, Push(d, s),
         \A i \in 1..Len(s) : s[i] \in N,
         \A i, j \in 1..Len(s) : i < j => s[i].op = "recover"
  PROVE  Grows(d, N)
<1> DEFINE q == queue[d]
           r == queue'[d]
<1>1. q \in Seq(Statements) /\ r = q \o s
  BY DEF TypeOK, Push
<1>2. \A e \in Instances : e # d => queue'[e] = queue[e]
  BY DEF TypeOK, Push
<1>3. r \in Seq(Statements) /\ Len(r) = Len(q) + Len(s)
      /\ \A i \in 1..Len(r) : \/ i \in 1..Len(q) /\ r[i] = q[i]
                              \/ i > Len(q) /\ i - Len(q) \in 1..Len(s) /\ r[i] = s[i - Len(q)]
  <2> HIDE DEF q, r
  <2> QED BY <1>1, Appended
<1>4. queue' \in [Instances -> Seq(Statements)]
  BY <1>2, <1>3 DEF TypeOK, Push
<1>5. ASSUME NEW e \in Instances, NEW x \in Statements, Has(e, x)'
      PROVE  Has(e, x) \/ (e = d /\ x \in N)
  <2>1. CASE e # d
    BY <2>1, <1>2, <1>5 DEF Has
  <2>2. CASE e = d
    <3>1. PICK i \in 1..Len(r) : r[i] = x
      BY <2>2, <1>5 DEF Has
    <3> QED BY <3>1, <1>3, <2>2 DEF Has
  <2> QED BY <2>1, <2>2
<1>6. ASSUME NEW e \in Instances, NEW x \in Statements, NEW y \in Statements, Before(e, x, y)'
      PROVE  Before(e, x, y) \/ (e = d /\ Has(e, x) /\ y \in N) \/ x.op = "recover"
  <2>1. CASE e # d
    BY <2>1, <1>2, <1>6 DEF Before
  <2>2. CASE e = d
    <3>1. PICK i \in 1..Len(r), j \in 1..Len(r) : i < j /\ r[i] = x /\ r[j] = y
      BY <2>2, <1>6 DEF Before
    <3>2. Len(q) \in Nat /\ Len(s) \in Nat /\ Len(r) \in Nat
      BY <1>1, <1>3
    <3>3. CASE j \in 1..Len(q)
      <4>1. i \in 1..Len(q) /\ q[i] = x /\ q[j] = y
        <5> HIDE DEF q, r
        <5> QED BY <3>1, <3>2, <3>3, <1>3
      <4> QED BY <4>1, <3>1, <3>3, <2>2 DEF Before
    <3>4. CASE j \notin 1..Len(q) /\ i \in 1..Len(q)
      <4>1. q[i] = x /\ y \in N
        <5> HIDE DEF q, r
        <5> QED BY <3>1, <3>2, <3>4, <1>3
      <4> QED BY <4>1, <3>4, <2>2 DEF Has
    <3>5. CASE j \notin 1..Len(q) /\ i \notin 1..Len(q)
      <4>1. i - Len(q) \in 1..Len(s) /\ j - Len(q) \in 1..Len(s) /\ i - Len(q) < j - Len(q)
            /\ x = s[i - Len(q)]
        <5> HIDE DEF q, r
        <5>1. i > Len(q) /\ i - Len(q) \in 1..Len(s) /\ r[i] = s[i - Len(q)]
          BY <3>5, <1>3
        <5>2. j > Len(q) /\ j - Len(q) \in 1..Len(s)
          BY <3>5, <1>3
        <5> QED BY <5>1, <5>2, <3>1, <3>2
      <4> QED BY <4>1
    <3> QED BY <3>3, <3>4, <3>5
  <2> QED BY <2>1, <2>2
<1> QED BY <1>4, <1>5, <1>6 DEF Grows

\* Pop(d, s) where s has at most one statement.
LEMMA PopTakes ==
  ASSUME TypeOK, NEW d \in Instances, NEW s \in Seq(Statements), NEW N, Pop(d, s),
         queue[d] # <<>>, Len(s) <= 1, \A i \in 1..Len(s) : s[i] \in N
  PROVE  Takes(d, N)
<1> DEFINE q == queue[d]
           p == Tail(q)
           r == queue'[d]
<1>1. q \in Seq(Statements) /\ q # <<>> /\ r = p \o s
  BY DEF TypeOK, Pop
<1>2. \A e \in Instances : e # d => queue'[e] = queue[e]
  BY DEF TypeOK, Pop
<1>3. /\ p \in Seq(Statements) /\ Len(p) = Len(q) - 1 /\ Len(q) > 0
      /\ \A i \in 1..Len(p) : i + 1 \in 1..Len(q) /\ p[i] = q[i + 1]
      /\ q[1] = Head(q) /\ Head(q) \in Statements
  <2>1. p = Tail(q)
    OBVIOUS
  <2> HIDE DEF q, p
  <2> QED BY <2>1, <1>1, Tailed
<1> HIDE DEF p
<1>4. r \in Seq(Statements) /\ Len(r) = Len(p) + Len(s)
      /\ \A i \in 1..Len(r) : \/ i \in 1..Len(p) /\ r[i] = p[i]
                              \/ i > Len(p) /\ i - Len(p) \in 1..Len(s) /\ r[i] = s[i - Len(p)]
  <2> HIDE DEF q, r
  <2> QED BY <1>1, <1>3, Appended
<1>5. queue' \in [Instances -> Seq(Statements)]
  BY <1>2, <1>4 DEF TypeOK, Pop
<1>6. Len(q) \in Nat /\ Len(s) \in Nat /\ Len(r) \in Nat /\ Len(p) \in Nat
  BY <1>1, <1>3, <1>4
<1>7. Head(queue[d]) \in Statements /\ Has(d, Head(queue[d]))
  BY <1>3, <1>6 DEF Has
<1>8. ASSUME NEW e \in Instances, NEW x \in Statements, Has(e, x)'
      PROVE  \/ Has(e, x) /\ (e = d => Before(d, Head(queue[d]), x))
             \/ e = d /\ x \in N
  <2>1. CASE e # d
    BY <2>1, <1>2, <1>8 DEF Has
  <2>2. CASE e = d
    <3>1. PICK i \in 1..Len(r) : r[i] = x
      BY <2>2, <1>8 DEF Has
    <3>2. CASE i \in 1..Len(p)
      <4>1. 1 \in 1..Len(q) /\ i + 1 \in 1..Len(q) /\ 1 < i + 1 /\ q[1] = Head(q) /\ q[i + 1] = x
        <5> HIDE DEF q, r
        <5>1. p[i] = x
          BY <3>1, <3>2, <1>4, <1>6
        <5> QED BY <5>1, <3>2, <1>3, <1>6
      <4> QED BY <4>1, <2>2 DEF Has, Before
    <3> QED BY <3>1, <3>2, <1>4, <2>2
  <2> QED BY <2>1, <2>2
<1>9. ASSUME NEW e \in Instances, NEW x \in Statements, NEW y \in Statements, Before(e, x, y)'
      PROVE  Before(e, x, y) \/ (e = d /\ Has(e, x) /\ y \in N)
  <2>1. CASE e # d
    BY <2>1, <1>2, <1>9 DEF Before
  <2>2. CASE e = d
    <3>1. PICK i \in 1..Len(r), j \in 1..Len(r) : i < j /\ r[i] = x /\ r[j] = y
      BY <2>2, <1>9 DEF Before
    <3>2. i \in 1..Len(p)
      BY <3>1, <1>4, <1>6
    <3>3. i + 1 \in 1..Len(q) /\ q[i + 1] = x
      <4> HIDE DEF q, r
      <4>1. p[i] = x
        BY <3>1, <3>2, <1>4, <1>6
      <4> QED BY <4>1, <3>2, <1>3, <1>6
    <3>4. CASE j \in 1..Len(p)
      <4>1. j + 1 \in 1..Len(q) /\ q[j + 1] = y /\ i + 1 < j + 1
        <5> HIDE DEF q, r
        <5>1. p[j] = y
          BY <3>1, <3>4, <1>4, <1>6
        <5> QED BY <5>1, <3>1, <3>4, <1>3, <1>6
      <4> QED BY <3>3, <4>1, <2>2 DEF Before
    <3>5. CASE j \notin 1..Len(p)
      <4>1. y \in N
        BY <3>1, <3>5, <1>4
      <4> QED BY <4>1, <3>3, <2>2 DEF Has
    <3> QED BY <3>4, <3>5
  <2> QED BY <2>1, <2>2
<1> QED BY <1>5, <1>7, <1>8, <1>9 DEF Takes

\* The statements that calls and callers issue.
LEMMA Pushes ==
  ASSUME TypeOK, NEW d \in Instances, NEW x \in Statements
  PROVE  /\ Push(d, <<x>>) => Grows(d, {x})
         /\ Push(d, <<>>) => Grows(d, {})
         /\ Push(d, Append(Ready(d), x)) => Grows(d, {x, [op |-> "recover"]})
<1>1. ASSUME Push(d, <<x>>) PROVE Grows(d, {x})
  <2>1. <<x>> \in Seq(Statements) /\ (\A i \in 1..Len(<<x>>) : <<x>>[i] \in {x})
        /\ \A i, j \in 1..Len(<<x>>) : i < j => <<x>>[i].op = "recover"
    OBVIOUS
  <2> QED BY <1>1, <2>1, PushGrows
<1>2. ASSUME Push(d, <<>>) PROVE Grows(d, {})
  <2>1. <<>> \in Seq(Statements) /\ (\A i \in 1..Len(<<>>) : <<>>[i] \in {})
        /\ \A i, j \in 1..Len(<<>>) : i < j => <<>>[i].op = "recover"
    OBVIOUS
  <2> QED BY <1>2, <2>1, PushGrows
<1>3. ASSUME Push(d, Append(Ready(d), x)) PROVE Grows(d, {x, [op |-> "recover"]})
  <2> DEFINE s == Append(Ready(d), x)
  <2>1. [op |-> "recover"] \in Statements
    BY DEF Statements
  <2>2. CASE recovery[d] = "none"
    <3> DEFINE r == [op |-> "recover"]
    <3>0. Ready(d) = <<r>>
      BY <2>2 DEF Ready
    <3>1. s \in Seq(Statements) /\ Len(s) = 2 /\ s[1] = r /\ s[2] = x
      <4>1. <<r>> \in Seq(Statements) /\ Len(<<r>>) = 1 /\ <<r>>[1] = r
        BY <2>1
      <4> DEFINE q == <<r>>
      <4> HIDE DEF q
      <4>2. Append(q, x) \in Seq(Statements) /\ Len(Append(q, x)) = 2
            /\ Append(q, x)[1] = r /\ Append(q, x)[2] = x
        BY <4>1 DEF q
      <4> QED BY <4>2, <3>0 DEF q
    <3>2. /\ s \in Seq(Statements) /\ \A i \in 1..Len(s) : s[i] \in {x, [op |-> "recover"]}
          /\ \A i, j \in 1..Len(s) : i < j => s[i].op = "recover"
      <4>1. \A i \in 1..2 : i = 1 \/ i = 2
        OBVIOUS
      <4>2. r.op = "recover"
        OBVIOUS
      <4> HIDE DEF s
      <4> QED BY <3>1, <4>1, <4>2
    <3> QED BY <1>3, <3>2, PushGrows
  <2>3. CASE recovery[d] # "none"
    <3>1. s = <<x>>
      BY <2>3 DEF Ready
    <3>2. /\ s \in Seq(Statements) /\ \A i \in 1..Len(s) : s[i] \in {x, [op |-> "recover"]}
          /\ \A i, j \in 1..Len(s) : i < j => s[i].op = "recover"
      BY <3>1
    <3> QED BY <1>3, <3>2, PushGrows
  <2> QED BY <2>2, <2>3
<1> QED BY <1>1, <1>2, <1>3

\* The statements that follow one that is done.
LEMMA Pops ==
  ASSUME TypeOK, NEW d \in Instances, queue[d] # <<>>
  PROVE  /\ Pop(d, <<>>) => Takes(d, {})
         /\ \A x \in Statements : Pop(d, <<x>>) => Takes(d, {x})
<1>1. ASSUME Pop(d, <<>>) PROVE Takes(d, {})
  <2>1. <<>> \in Seq(Statements) /\ Len(<<>>) <= 1 /\ (\A i \in 1..Len(<<>>) : <<>>[i] \in {})
    OBVIOUS
  <2> QED BY <1>1, <2>1, PopTakes
<1>2. ASSUME NEW x \in Statements, Pop(d, <<x>>) PROVE Takes(d, {x})
  <2>1. <<x>> \in Seq(Statements) /\ Len(<<x>>) <= 1 /\ (\A i \in 1..Len(<<x>>) : <<x>>[i] \in {x})
    OBVIOUS
  <2> QED BY <1>2, <2>1, PopTakes
<1> QED BY <1>1, <1>2

\* The head of a queue is queued.
LEMMA HeadQueued ==
  ASSUME TypeOK, NEW d \in Instances, queue[d] # <<>>
  PROVE  Head(queue[d]) \in Statements /\ Has(d, Head(queue[d]))
BY DEF TypeOK, Has

-----------------------------------------------------------------------------
(* The table, the queues and the work, for any number of live instances. *)

\* The insert of a task leaves its work running on a working row, and drops rows that are over only.
LEMMA InsertedStep ==
  ASSUME Inv1, NEW d \in Instances, Inserted(d)
  PROVE  Inv1'
<1> USE DEF Inv1, Inserted, HeadIs, rowVars, createVars, handleVars, boundVars
<1>1. Takes(d, {})
  BY Pops
<1>2. TypeOK'
  BY <1>1, Fields, TasksAssumption DEF TypeOK, Takes, Running, Terminal, Works
<1>3. RowsFollow'
  <2> DEFINE t == Head(queue[d]).task
  <2>1. t \in Tasks /\ work[t] = "creating" /\ status[t] = "none"
    BY <1>1, Fields DEF Takes, QueuesFollow, RowsFollow
  <2>2. \A u \in Tasks : /\ u = t => status'[u] = "working" /\ work'[u] = "running"
                         /\ u # t => work'[u] = work[u]
                         /\ u # t /\ u \in expired => status'[u] = "deleted"
                         /\ u # t /\ u \notin expired => status'[u] = status[u]
    BY <2>1 DEF TypeOK
  <2> HIDE DEF t
  <2> QED BY <2>1, <2>2, <1>2, ZenonT(60) DEF TypeOK, RowsFollow, Terminal
<1>4. QueuesFollow'
  BY <1>1, Fields, BeforeHas DEF TypeOK, Takes, RowsFollow, QueuesFollow, Once, Running, Terminal
<1>5. Once'
  BY <1>1 DEF TypeOK, Takes, QueuesFollow, Once
<1>6. SettledIsStored'
  BY <1>1, Fields DEF TypeOK, Takes, RowsFollow, QueuesFollow, SettledIsStored, Running, Terminal
<1> QED BY <1>2, <1>3, <1>4, <1>5, <1>6

\* Stored questions leave the work waiting for what it asked.
LEMMA InputStoredStep ==
  ASSUME Inv1, NEW d \in Instances, InputStored(d)
  PROVE  Inv1'
<1> USE DEF Inv1, InputStored, HeadIs, UpdateRunning, Fenced, rowVars, createVars, handleVars,
            boundVars
<1>1. Takes(d, {})
  BY Pops
<1>2. TypeOK'
  BY <1>1, Fields, TasksAssumption DEF TypeOK, Takes, Running, Terminal, Works
<1>3. RowsFollow'
  BY <1>1, Fields, TasksAssumption DEF TypeOK, Takes, RowsFollow, QueuesFollow, Running, Terminal
<1>4. QueuesFollow'
  BY <1>1, Fields, BeforeHas DEF TypeOK, Takes, RowsFollow, QueuesFollow, Once, Running, Terminal
<1>5. Once'
  BY <1>1 DEF TypeOK, Takes, QueuesFollow, Once
<1>6. SettledIsStored'
  BY <1>1, Fields DEF TypeOK, Takes, RowsFollow, QueuesFollow, SettledIsStored, Running, Terminal
<1> QED BY <1>2, <1>3, <1>4, <1>5, <1>6

\* A progress report changes the status of a running row only.
LEMMA StatusStoredStep ==
  ASSUME Inv1, NEW d \in Instances, StatusStored(d)
  PROVE  Inv1'
<1> USE DEF Inv1, StatusStored, HeadIs, UpdateRunning, Fenced, rowVars, createVars, handleVars,
            boundVars
<1>1. Takes(d, {})
  BY Pops
<1>2. TypeOK'
  BY <1>1, Fields, TasksAssumption DEF TypeOK, Takes, Running, Terminal, Works
<1>3. RowsFollow'
  BY <1>1, Fields, TasksAssumption DEF TypeOK, Takes, RowsFollow, QueuesFollow, Running, Terminal
<1>4. QueuesFollow'
  BY <1>1, Fields, BeforeHas DEF TypeOK, Takes, RowsFollow, QueuesFollow, Once, Running, Terminal
<1>5. Once'
  BY <1>1 DEF TypeOK, Takes, QueuesFollow, Once
<1>6. SettledIsStored'
  BY <1>1, Fields DEF TypeOK, Takes, RowsFollow, QueuesFollow, SettledIsStored, Running, Terminal
<1> QED BY <1>2, <1>3, <1>4, <1>5, <1>6

\* So does a part of the answers.
LEMMA PartialStoredStep ==
  ASSUME Inv1, NEW d \in Instances, PartialStored(d)
  PROVE  Inv1'
<1> USE DEF Inv1, PartialStored, HeadIs, UpdateRunning, Fenced, rowVars, createVars, handleVars,
            boundVars
<1>1. Takes(d, {})
  BY Pops
<1>2. TypeOK'
  BY <1>1, Fields, TasksAssumption DEF TypeOK, Takes, Running, Terminal, Works
<1>3. RowsFollow'
  BY <1>1, Fields, TasksAssumption DEF TypeOK, Takes, RowsFollow, QueuesFollow, Running, Terminal
<1>4. QueuesFollow'
  BY <1>1, Fields, BeforeHas DEF TypeOK, Takes, RowsFollow, QueuesFollow, Once, Running, Terminal
<1>5. Once'
  BY <1>1 DEF TypeOK, Takes, QueuesFollow, Once
<1>6. SettledIsStored'
  BY <1>1, Fields DEF TypeOK, Takes, RowsFollow, QueuesFollow, SettledIsStored, Running, Terminal
<1> QED BY <1>2, <1>3, <1>4, <1>5, <1>6

\* The last answers release the work that waits for them.
LEMMA AnswerStoredStep ==
  ASSUME Inv1, NEW d \in Instances, AnswerStored(d)
  PROVE  Inv1'
<1> USE DEF Inv1, AnswerStored, HeadIs, UpdateRunning, Fenced, Release, rowVars, createVars,
            handleVars, boundVars
<1>1. Takes(d, {})
  BY Pops
<1>2. TypeOK'
  BY <1>1, Fields, TasksAssumption DEF TypeOK, Takes, Running, Terminal, Works
<1>3. RowsFollow'
  <2> DEFINE u == Head(queue[d]).task
  <2>1. u \in Tasks /\ status[u] # "none"
    BY <1>1, Fields DEF Takes, QueuesFollow
  <2>2. /\ work' = work /\ expired' = expired
        /\ \A t \in Tasks : \/ waiter'[t] = NoWaiter /\ answer'[t] = "resolved"
                            \/ waiter'[t] = waiter[t] /\ answer'[t] = answer[t]
        /\ \A t \in Tasks \ {u} : status'[t] = status[t]
    BY <2>1 DEF TypeOK
  <2>3. /\ status[u] \in Terminal => status'[u] = status[u]
        /\ status'[u] # "none"
    BY <2>1 DEF TypeOK, Running, Terminal
  <2>4. work[u] \notin {"none", "creating"}
    BY <2>1 DEF RowsFollow
  <2> HIDE DEF u
  <2>5. \A t \in Tasks :
          /\ work'[t] \in {"none", "creating"} => status'[t] = "none"
          /\ work'[t] \notin {"none", "creating", "over"} => status'[t] # "none"
    BY <2>2, <2>3, <2>4 DEF RowsFollow
  <2>6. \A t \in Tasks :
          /\ waiter'[t] # NoWaiter => answer'[t] = "pending" /\ work'[t] \in {"storing", "asking"}
          /\ work'[t] \in {"storing", "asking"} /\ waiter'[t] = NoWaiter => answer'[t] # "pending"
    BY <2>2 DEF RowsFollow
  <2>7. \A t \in expired' : status'[t] \in Terminal
    BY <2>2, <2>3 DEF RowsFollow, TypeOK
  <2> QED BY <2>5, <2>6, <2>7 DEF RowsFollow
<1>4. QueuesFollow'
  BY <1>1, Fields, BeforeHas DEF TypeOK, Takes, RowsFollow, QueuesFollow, Once, Running, Terminal
<1>5. Once'
  BY <1>1 DEF TypeOK, Takes, QueuesFollow, Once
<1>6. SettledIsStored'
  BY <1>1, Fields DEF TypeOK, Takes, RowsFollow, QueuesFollow, SettledIsStored, Running, Terminal
<1> QED BY <1>2, <1>3, <1>4, <1>5, <1>6

\* A settlement leaves a row that is over and nobody waiting.
LEMMA SettledStep ==
  ASSUME Inv1, NEW d \in Instances, Settled(d)
  PROVE  Inv1'
<1> USE DEF Inv1, Settled, HeadIs, SettleRow, Fenced, RejectWaiter, rowVars, createVars,
            handleVars, boundVars
<1>1. Takes(d, {})
  BY Pops
<1>2. TypeOK'
  BY <1>1, Fields, TasksAssumption DEF TypeOK, Takes, Running, Terminal, Works
<1>3. RowsFollow'
  <2> DEFINE u == Head(queue[d]).task
  <2>1. u \in Tasks /\ status[u] # "none" /\ Head(queue[d]).to \in Terminal
    BY <1>1, Fields DEF Takes, QueuesFollow
  <2>2. /\ expired' = expired
        /\ \A t \in Tasks \ {u} : /\ status'[t] = status[t] /\ work'[t] = work[t]
                                  /\ waiter'[t] = waiter[t] /\ answer'[t] = answer[t]
        /\ waiter'[u] = NoWaiter /\ work'[u] \in {work[u], "over"}
        /\ answer'[u] = IF waiter[u] # NoWaiter THEN "rejected" ELSE answer[u]
    BY <2>1 DEF TypeOK
  <2>3. /\ status[u] \in Terminal => status'[u] = status[u]
        /\ status'[u] # "none"
    BY <2>1 DEF TypeOK, Running, Terminal
  <2>4. work[u] \notin {"none", "creating"}
    BY <2>1 DEF RowsFollow
  <2> HIDE DEF u
  <2>5. \A t \in Tasks :
          /\ work'[t] \in {"none", "creating"} => status'[t] = "none"
          /\ work'[t] \notin {"none", "creating", "over"} => status'[t] # "none"
    BY <2>2, <2>3, <2>4 DEF RowsFollow
  <2>6. \A t \in Tasks :
          /\ waiter'[t] # NoWaiter => answer'[t] = "pending" /\ work'[t] \in {"storing", "asking"}
          /\ work'[t] \in {"storing", "asking"} /\ waiter'[t] = NoWaiter => answer'[t] # "pending"
    BY <2>2 DEF RowsFollow
  <2>7. \A t \in expired' : status'[t] \in Terminal
    BY <2>2, <2>3 DEF RowsFollow, TypeOK
  <2> QED BY <2>5, <2>6, <2>7 DEF RowsFollow
<1>4. QueuesFollow'
  <2>1. \A u \in Tasks : /\ status[u] # "none" => status'[u] # "none"
                         /\ work[u] \in {"creating", "storing"} => work'[u] = work[u]
    BY <1>1, Fields DEF TypeOK, Takes, Running, Terminal
  <2>2. \A e \in Instances, x \in Statements : Has(e, x)' => Has(e, x)
    BY <1>1 DEF Takes
  <2>3. alive' = alive /\ home' = home
    OBVIOUS
  <2> QED BY <2>1, <2>2, <2>3, Fields DEF QueuesFollow
<1>5. Once'
  BY <1>1 DEF TypeOK, Takes, QueuesFollow, Once
<1>6. SettledIsStored'
  BY <1>1, Fields, SMTT(30) DEF TypeOK, Takes, RowsFollow, QueuesFollow, SettledIsStored, Running, Terminal
<1> QED BY <1>2, <1>3, <1>4, <1>5, <1>6

\* A cancellation in the table touches the row only.
LEMMA DirectStoredStep ==
  ASSUME Inv1, NEW d \in Instances, DirectStored(d)
  PROVE  Inv1'
<1> USE DEF Inv1, DirectStored, HeadIs, SettleRow, Fenced, rowVars, createVars, handleVars,
            boundVars
<1>1. Takes(d, {})
  BY Pops
<1>2. TypeOK'
  BY <1>1, Fields, TasksAssumption DEF TypeOK, Takes, Running, Terminal, Works
<1>3. RowsFollow'
  BY <1>1, Fields, TasksAssumption DEF TypeOK, Takes, RowsFollow, QueuesFollow, Running, Terminal
<1>4. QueuesFollow'
  BY <1>1, Fields, BeforeHas DEF TypeOK, Takes, RowsFollow, QueuesFollow, Once, Running, Terminal
<1>5. Once'
  BY <1>1 DEF TypeOK, Takes, QueuesFollow, Once
<1>6. SettledIsStored'
  BY <1>1, Fields DEF TypeOK, Takes, RowsFollow, QueuesFollow, SettledIsStored, Running, Terminal
<1> QED BY <1>2, <1>3, <1>4, <1>5, <1>6

\* Recovery fails running rows only.
LEMMA RecoveredStep ==
  ASSUME Inv1, NEW d \in Instances, Recovered(d)
  PROVE  Inv1'
<1> USE DEF Inv1, Recovered, HeadIs, Interrupted, rowVars, createVars, handleVars, boundVars
<1>1. Takes(d, {})
  BY Pops
<1>2. TypeOK'
  BY <1>1, Fields, TasksAssumption DEF TypeOK, Takes, Running, Terminal, Works
<1>3. RowsFollow'
  BY <1>1, Fields, TasksAssumption DEF TypeOK, Takes, RowsFollow, QueuesFollow, Running, Terminal
<1>4. QueuesFollow'
  BY <1>1, Fields, BeforeHas DEF TypeOK, Takes, RowsFollow, QueuesFollow, Once, Running, Terminal
<1>5. Once'
  BY <1>1 DEF TypeOK, Takes, QueuesFollow, Once
<1>6. SettledIsStored'
  BY <1>1, Fields DEF TypeOK, Takes, RowsFollow, QueuesFollow, SettledIsStored, Running, Terminal
<1> QED BY <1>2, <1>3, <1>4, <1>5, <1>6

\* An update that finds no wait changes nothing; one that does takes its answers from
\* the wait and issues the statement that stores them.
UpdateTakes(d, t, x) ==
  /\ status[t] = "input_required" /\ HasHandle(d, t) /\ waiter[t] # NoWaiter
  /\ waiter' \in [Tasks -> Waiters \cup {NoWaiter}]
  /\ \A u \in Tasks : u # t => waiter'[u] = waiter[u]
  /\ waiter'[t] # NoWaiter /\ waiter'[t].asked = waiter[t].asked
  /\ waiter'[t].outstanding \subseteq waiter[t].outstanding
  /\ x \in Statements /\ x.task = t /\ Takes(d, {x})
  /\ \/ x.op = "partial" /\ x.keys = requests[t] \cap waiter'[t].outstanding
        /\ waiter'[t].outstanding # {}
     \/ x.op = "answer" /\ x.keys = waiter[t].asked /\ waiter'[t].outstanding = {}

\* What an update does, in the terms of the queues.
LEMMA UpdateReads ==
  ASSUME TypeOK, NEW d \in Instances, UpdateRead(d)
  PROVE  \/ Takes(d, {}) /\ UNCHANGED waiter
         \/ \E x \in Statements : UpdateTakes(d, Head(queue[d]).task, x)
<1> DEFINE h == Head(queue[d])
           t == h.task
           w == waiter[t]
           left == w.outstanding \ h.keys
           px == [op |-> "partial", task |-> t, keys |-> requests[t] \cap left]
           ax == [op |-> "answer", task |-> t, keys |-> w.asked]
<1>1. h \in Statements /\ t \in Tasks
  BY HeadQueued, Fields DEF UpdateRead, HeadIs
<1>2. \/ Pop(d, <<>>) /\ UNCHANGED waiter
      \/ /\ status[t] = "input_required" /\ HasHandle(d, t) /\ w # NoWaiter
         /\ waiter' = [waiter EXCEPT ![t].outstanding = left]
         /\ IF left # {} THEN Pop(d, <<px>>) ELSE Pop(d, <<ax>>)
  BY DEF UpdateRead
<1>3. CASE Pop(d, <<>>) /\ UNCHANGED waiter
  BY <1>3, Pops DEF UpdateRead, HeadIs
<1>4. CASE /\ status[t] = "input_required" /\ HasHandle(d, t) /\ w # NoWaiter
           /\ waiter' = [waiter EXCEPT ![t].outstanding = left]
           /\ IF left # {} THEN Pop(d, <<px>>) ELSE Pop(d, <<ax>>)
  <2> DEFINE v == [w EXCEPT !.outstanding = left]
  <2>1. w \in [asked : SUBSET Keys, outstanding : SUBSET Keys] /\ w.outstanding \subseteq w.asked
    BY <1>1, <1>4 DEF TypeOK, Waiters
  <2>2. /\ v \in [asked : SUBSET Keys, outstanding : SUBSET Keys]
        /\ v.asked = w.asked /\ v.outstanding = left
    <3> HIDE DEF w
    <3> QED BY <2>1
  <2>3. left \subseteq w.outstanding
    OBVIOUS
  <2>4. v \in Waiters
    BY <2>1, <2>2, <2>3 DEF Waiters
  <2>5. waiter' = [waiter EXCEPT ![t] = v]
    BY <1>4
  <2>6. px \in Statements /\ ax \in Statements
    BY <1>1, <2>1 DEF TypeOK, Statements
  <2>7. px.op = "partial" /\ px.task = t /\ px.keys = requests[t] \cap left
        /\ ax.op = "answer" /\ ax.task = t /\ ax.keys = w.asked
    OBVIOUS
  <2>8. IF left # {} THEN Takes(d, {px}) ELSE Takes(d, {ax})
    BY <1>4, <2>6, Pops DEF UpdateRead, HeadIs
  <2> HIDE DEF px, ax, v
  <2>9. waiter' \in [Tasks -> Waiters \cup {NoWaiter}] /\ waiter'[t] = v
        /\ \A u \in Tasks : u # t => waiter'[u] = waiter[u]
    BY <1>1, <2>4, <2>5 DEF TypeOK
  <2>10. v # NoWaiter
    BY <2>4, TasksAssumption
  <2> HIDE DEF w, left, t
  <2>11. status[t] = "input_required" /\ HasHandle(d, t) /\ waiter[t] # NoWaiter
    BY <1>4 DEF w
  <2>12. CASE left # {}
    <3>1. UpdateTakes(d, t, px)
      BY <2>12, <2>2, <2>3, <2>6, <2>7, <2>8, <2>9, <2>10, <2>11 DEF UpdateTakes, w
    <3> QED BY <3>1, <2>6 DEF t
  <2>13. CASE left = {}
    <3>1. UpdateTakes(d, t, ax)
      BY <2>13, <2>2, <2>3, <2>6, <2>7, <2>8, <2>9, <2>10, <2>11 DEF UpdateTakes, w
    <3> QED BY <3>1, <2>6 DEF t
  <2> QED BY <2>12, <2>13
<1> QED BY <1>2, <1>3, <1>4

\* An update changes the wait of one task at most, and does not end it.
LEMMA UpdateReadStep ==
  ASSUME Inv1, NEW d \in Instances, UpdateRead(d)
  PROVE  Inv1'
<1> USE DEF Inv1
<1>1. PICK N \in SUBSET Statements :
        Takes(d, N) /\ \A x \in N : x.op \in {"partial", "answer"} /\ x.task = Head(queue[d]).task
  <2>1. CASE Takes(d, {})
    BY <2>1
  <2>2. CASE \E x \in Statements : UpdateTakes(d, Head(queue[d]).task, x)
    <3>1. PICK x \in Statements : UpdateTakes(d, Head(queue[d]).task, x)
      BY <2>2
    <3>2. {x} \in SUBSET Statements /\ Takes(d, {x})
          /\ \A y \in {x} : y.op \in {"partial", "answer"} /\ y.task = Head(queue[d]).task
      BY <3>1 DEF UpdateTakes
    <3> QED BY <3>2
  <2> QED BY <2>1, <2>2, UpdateReads
<1>2. /\ waiter' \in [Tasks -> Waiters \cup {NoWaiter}]
      /\ \A u \in Tasks : waiter'[u] = NoWaiter <=> waiter[u] = NoWaiter
  BY UpdateReads DEF UpdateTakes, TypeOK
<1>3. Head(queue[d]).op = "update" /\ d \in alive
      /\ UNCHANGED <<rowVars, alive, recovery, createVars, work, answer, issued,
                     cancelRequested, settling, settled, boundVars>>
  BY DEF UpdateRead, HeadIs
<1> USE DEF rowVars, createVars, boundVars
<1>4. TypeOK'
  BY <1>1, <1>2, <1>3 DEF TypeOK, Takes
<1>5. RowsFollow'
  BY <1>2, <1>3 DEF RowsFollow
<1>6. QueuesFollow'
  BY <1>1, <1>3 DEF Takes, QueuesFollow
<1>7. Once'
  BY <1>1, <1>3 DEF Takes, Once
<1>8. SettledIsStored'
  BY <1>2, <1>3 DEF SettledIsStored
<1> QED BY <1>4, <1>5, <1>6, <1>7, <1>8

\* The settlement of a task, if it is issued, is one statement.
LEMMA SettleItems ==
  ASSUME NEW t \in Tasks, NEW to \in Terminal
  PROVE  \E x \in Statements : /\ x.op = "settle" /\ x.task = t /\ x.to = to
                               /\ SettleItem(t, to) = <<x>>
BY DEF Statements, SettleItem

\* What a cancellation does, in the terms of the queues: N is what it issues.
CancelTakes(d, t, N) ==
  \/ N = {} /\ UNCHANGED handleVars
  \/ /\ ~HasHandle(d, t) /\ status[t] \in Running /\ UNCHANGED handleVars
     /\ \A x \in N : x.op = "direct" /\ x.task = t
  \/ /\ HasHandle(d, t)
     /\ cancelRequested' = [cancelRequested EXCEPT ![t] = TRUE]
     /\ RejectWaiter(t)
     /\ settling' = [settling EXCEPT ![t] = @ \/ (t \in detach /\ ~cancelRequested[t])]
     /\ UNCHANGED <<issued, settled>>
     /\ \A x \in N : x.op = "settle" /\ x.task = t

\* A cancellation issues one statement at most, and rejects the wait it finds.
LEMMA CancelReads ==
  ASSUME TypeOK, NEW d \in Instances, CancelRead(d)
  PROVE  \E N \in SUBSET Statements : Takes(d, N) /\ CancelTakes(d, Head(queue[d]).task, N)
<1> DEFINE h == Head(queue[d])
           t == h.task
           dx == [op |-> "direct", task |-> t]
<1>1. h \in Statements /\ t \in Tasks /\ queue[d] # <<>>
  BY HeadQueued, Fields DEF CancelRead, HeadIs
<1>2. CASE Unreadable(t) \/ status[t] \in Terminal
  <2>1. Pop(d, <<>>) /\ UNCHANGED handleVars
    BY <1>2 DEF CancelRead
  <2>2. Takes(d, {}) /\ CancelTakes(d, t, {})
    BY <2>1, <1>1, Pops DEF CancelTakes
  <2> QED BY <2>2
<1>3. CASE ~(Unreadable(t) \/ status[t] \in Terminal) /\ ~HasHandle(d, t)
  <2>1. Pop(d, <<dx>>) /\ UNCHANGED handleVars
    BY <1>3 DEF CancelRead
  <2>2. dx \in Statements /\ dx.op = "direct" /\ dx.task = t
    BY <1>1 DEF Statements
  <2>3. status[t] \in Running
    BY <1>1, <1>3 DEF TypeOK, Unreadable
  <2> HIDE DEF dx, t
  <2>4. Takes(d, {dx}) /\ CancelTakes(d, t, {dx})
    BY <2>1, <2>2, <2>3, <1>1, <1>3, Pops DEF CancelTakes
  <2> QED BY <2>4, <2>2 DEF t
<1>4. CASE ~(Unreadable(t) \/ status[t] \in Terminal) /\ HasHandle(d, t)
  <2> DEFINE detached == t \in detach /\ ~cancelRequested[t]
  <2>1. /\ cancelRequested' = [cancelRequested EXCEPT ![t] = TRUE]
        /\ RejectWaiter(t)
        /\ settling' = [settling EXCEPT ![t] = @ \/ detached]
        /\ UNCHANGED <<issued, settled>>
        /\ Pop(d, IF detached /\ ~settling[t] THEN SettleItem(t, "cancelled") ELSE <<>>)
    BY <1>4 DEF CancelRead
  <2>2. PICK x \in Statements : x.op = "settle" /\ x.task = t /\ SettleItem(t, "cancelled") = <<x>>
    BY <1>1, SettleItems DEF Terminal
  <2>3. CASE detached /\ ~settling[t]
    <3>1. Takes(d, {x})
      BY <2>1, <2>2, <2>3, <1>1, Pops
    <3>2. CancelTakes(d, t, {x})
      BY <2>1, <2>2, <1>4 DEF CancelTakes
    <3> QED BY <3>1, <3>2
  <2>4. CASE ~(detached /\ ~settling[t])
    <3>1. Takes(d, {})
      BY <2>1, <2>4, <1>1, Pops
    <3>2. CancelTakes(d, t, {})
      BY <2>1, <1>4 DEF CancelTakes
    <3> QED BY <3>1, <3>2
  <2> QED BY <2>3, <2>4
<1> QED BY <1>2, <1>3, <1>4

\* A cancellation rejects the wait and issues a settlement or a cancellation of the row.
LEMMA CancelReadStep ==
  ASSUME Inv1, NEW d \in Instances, CancelRead(d)
  PROVE  Inv1'
<1> USE DEF Inv1
<1> DEFINE t == Head(queue[d]).task
<1>1. PICK N \in SUBSET Statements : Takes(d, N) /\ CancelTakes(d, t, N)
  BY CancelReads
<1>2. Head(queue[d]).op = "cancel" /\ d \in alive /\ queue[d] # <<>>
      /\ UNCHANGED <<rowVars, alive, recovery, createVars, work, boundVars>>
  BY DEF CancelRead, HeadIs
<1>3. t \in Tasks /\ status[t] # "none"
  BY <1>2, HeadQueued, Fields DEF QueuesFollow
<1> HIDE DEF t
<1> USE DEF rowVars, createVars, boundVars, handleVars
<1>4. \A x \in N : x.op \in {"direct", "settle"} /\ x.task = t
  BY <1>1 DEF CancelTakes
<1>5. TypeOK'
  <2>1. cancelRequested' \in [Tasks -> BOOLEAN]
    BY <1>1, <1>3 DEF TypeOK, CancelTakes
  <2>2. settling' \in [Tasks -> BOOLEAN]
    BY <1>1, <1>3 DEF TypeOK, CancelTakes
  <2>3. waiter' \in [Tasks -> Waiters \cup {NoWaiter}]
    BY <1>1, <1>3 DEF TypeOK, CancelTakes, RejectWaiter
  <2>4. answer' \in [Tasks -> {"pending", "resolved", "rejected"}]
    BY <1>1, <1>3 DEF TypeOK, CancelTakes, RejectWaiter
  <2>5. UNCHANGED <<issued, settled>>
    BY <1>1 DEF CancelTakes
  <2> QED BY <1>1, <1>2, <2>1, <2>2, <2>3, <2>4, <2>5 DEF TypeOK, Takes
<1>6. RowsFollow'
  BY <1>1, <1>2, <1>3 DEF RowsFollow, CancelTakes, RejectWaiter, TypeOK
<1>7. QueuesFollow'
  BY <1>1, <1>2, <1>3, <1>4 DEF Takes, QueuesFollow
<1>8. Once'
  BY <1>1, <1>4 DEF Takes, Once
<1>9. SettledIsStored'
  BY <1>1, <1>2, <1>3 DEF SettledIsStored, CancelTakes, RejectWaiter, TypeOK, RowsFollow
<1> QED BY <1>5, <1>6, <1>7, <1>8, <1>9

\* What is left of a statement that fails: N is what is issued in its place.
FailTakes(h, d, N) ==
  /\ h.op # "recover" => UNCHANGED recovery
  /\ h.op # "input" => UNCHANGED waiter
  /\ h.op # "settle" => UNCHANGED settling /\ N = {}
  /\ h.op \notin {"insert", "input", "settle"} => UNCHANGED work
  /\ h.op = "recover" => recovery' = [recovery EXCEPT ![d] = "none"]
  /\ h.op = "insert" => work' = [work EXCEPT ![h.task] = "over"]
  /\ h.op = "input" => /\ work' = [work EXCEPT ![h.task] = "running"]
                       /\ waiter' = [waiter EXCEPT ![h.task] = NoWaiter]
  /\ h.op = "settle" => /\ settling' \in [Tasks -> BOOLEAN]
                        /\ \A x \in N : x.op = "settle" /\ x.task = h.task
                        /\ work' \in [Tasks -> Works]
                        /\ \A u \in Tasks : /\ u # h.task => work'[u] = work[u]
                                            /\ work'[u] # work[u] => work[u] \in {"finishing", "falling"}
                                                 /\ work'[u] \in {"falling", "over"}

\* A failed statement is followed by the fallback settlement at most.
LEMMA Failures ==
  ASSUME TypeOK, NEW d \in Instances, StatementFails(d)
  PROVE  \E N \in SUBSET Statements : Takes(d, N) /\ FailTakes(Head(queue[d]), d, N)
<1> DEFINE h == Head(queue[d])
<1>1. h \in Statements /\ queue[d] # <<>> /\ (h.op # "recover" => h.task \in Tasks)
  BY HeadQueued, Fields DEF StatementFails
<1>2. CASE h.op \in {"recover", "insert", "input"}
  <2>1. Pop(d, <<>>)
    BY <1>2 DEF StatementFails
  <2>2. Takes(d, {}) 
    BY <2>1, <1>1, Pops
  <2>3. FailTakes(h, d, {})
    BY <1>2 DEF StatementFails, FailTakes, handleVars
  <2> QED BY <2>2, <2>3
<1>3. CASE h.op = "settle"
  <2> DEFINE t == h.task
  <2>1. /\ settling' = [settling EXCEPT ![t] = Fallback(t) # <<>>]
        /\ work' = [work EXCEPT ![t] =
             CASE @ = "finishing" -> "falling" [] @ = "falling" -> "over" [] OTHER -> @]
        /\ Pop(d, Fallback(t))
        /\ UNCHANGED <<recovery, waiter>>
    BY <1>3 DEF StatementFails
  <2>2. t \in Tasks
    BY <1>1, <1>3
  <2>3. settling' \in [Tasks -> BOOLEAN]
    BY <2>1, <2>2 DEF TypeOK
  <2>4. /\ work' \in [Tasks -> Works]
        /\ \A u \in Tasks : /\ u # t => work'[u] = work[u]
                            /\ work'[u] # work[u] => work[u] \in {"finishing", "falling"}
                                 /\ work'[u] \in {"falling", "over"}
    BY <2>1, <2>2 DEF TypeOK, Works
  <2>5. \E N \in SUBSET Statements : Takes(d, N) /\ \A x \in N : x.op = "settle" /\ x.task = t
    <3>1. CASE work[t] = "finishing"
      <4> DEFINE to == IF cancelRequested[t] THEN "cancelled" ELSE "failed"
      <4>1. to \in Terminal
        BY DEF Terminal
      <4>2. Fallback(t) = SettleItem(t, to)
        BY <3>1 DEF Fallback
      <4> HIDE DEF to
      <4>3. PICK x \in Statements : x.op = "settle" /\ x.task = t /\ SettleItem(t, to) = <<x>>
        BY <4>1, <2>2, SettleItems
      <4>4. Takes(d, {x})
        BY <4>2, <4>3, <2>1, <1>1, Pops
      <4> QED BY <4>3, <4>4
    <3>2. CASE work[t] # "finishing"
      <4>1. Takes(d, {})
        BY <3>2, <2>1, <1>1, Pops DEF Fallback
      <4> QED BY <4>1
    <3> QED BY <3>1, <3>2
  <2>6. PICK N \in SUBSET Statements : Takes(d, N) /\ \A x \in N : x.op = "settle" /\ x.task = t
    BY <2>5
  <2>7. FailTakes(h, d, N)
    BY <1>3, <2>1, <2>3, <2>4, <2>6 DEF FailTakes
  <2> QED BY <2>6, <2>7
<1>4. CASE h.op \notin {"recover", "insert", "input", "settle"}
  <2>1. Pop(d, <<>>) /\ UNCHANGED <<recovery, work, handleVars>>
    BY <1>4 DEF StatementFails
  <2>2. Takes(d, {}) 
    BY <2>1, <1>1, Pops
  <2>3. FailTakes(h, d, {})
    BY <1>4, <2>1 DEF FailTakes, handleVars
  <2> QED BY <2>2, <2>3
<1> QED BY <1>2, <1>3, <1>4

\* A failed statement leaves the rows alone.
LEMMA StatementFailsStep ==
  ASSUME Inv1, NEW d \in Instances, StatementFails(d)
  PROVE  Inv1'
<1> USE DEF Inv1
<1> DEFINE h == Head(queue[d])
<1>1. PICK N \in SUBSET Statements : Takes(d, N) /\ FailTakes(h, d, N)
  BY Failures
<1>2. /\ failures < MaxFailures /\ failures' = failures + 1 /\ queue[d] # <<>>
      /\ UNCHANGED <<rowVars, alive, createVars, answer, issued, cancelRequested, settled,
                     calls, reports, restarts>>
  BY DEF StatementFails, handleVars
<1>3. /\ h \in Statements /\ Has(d, h) /\ (h.op # "recover" => h.task \in Tasks)
      /\ h.op \in {"recover", "insert", "cancel", "direct", "input", "update", "partial",
                   "answer", "status", "settle"}
  BY <1>2, HeadQueued, Fields
<1> HIDE DEF h
<1> USE DEF rowVars, createVars
<1>4. TypeOK'
  <2>1. work' \in [Tasks -> Works]
    BY <1>1, <1>3 DEF TypeOK, FailTakes, Works
  <2>2. waiter' \in [Tasks -> Waiters \cup {NoWaiter}]
    BY <1>1, <1>3 DEF TypeOK, FailTakes
  <2>3. settling' \in [Tasks -> BOOLEAN]
    BY <1>1, <1>3 DEF TypeOK, FailTakes
  <2>4. recovery' \in [Instances -> {"none", "pending", "done"}]
    BY <1>1, <1>3 DEF TypeOK, FailTakes
  <2>5. failures' \in 0..MaxFailures
    BY <1>2, TasksAssumption DEF TypeOK
  <2> QED BY <1>1, <1>2, <2>1, <2>2, <2>3, <2>4, <2>5 DEF TypeOK, Takes
<1>5. RowsFollow'
  BY <1>1, <1>2, <1>3 DEF RowsFollow, FailTakes, TypeOK, QueuesFollow
<1>6. QueuesFollow'
  BY <1>1, <1>2, <1>3, Fields, BeforeHas, SMTT(30) DEF Takes, FailTakes, QueuesFollow, Once, TypeOK, h
<1>7. Once'
  BY <1>1, <1>3 DEF Takes, Once, FailTakes
<1>8. SettledIsStored'
  BY <1>1, <1>2, <1>3 DEF SettledIsStored, FailTakes, TypeOK, RowsFollow, QueuesFollow
<1> QED BY <1>4, <1>5, <1>6, <1>7, <1>8

\* A start changes nothing but the live instances.
LEMMA StartStep ==
  ASSUME Inv1, NEW d \in Instances, Start(d)
  PROVE  Inv1'
<1> USE DEF Inv1, Start, rowVars, createVars, handleVars, boundVars
<1>1. /\ \A e, x : Has(e, x)' <=> Has(e, x)
      /\ \A e, x, y : Before(e, x, y)' <=> Before(e, x, y)
  BY DEF Has, Before
<1>2. TypeOK'
  BY <1>1, TasksAssumption DEF TypeOK, Running, Terminal, Works
<1>3. RowsFollow'
  BY <1>1, TasksAssumption DEF TypeOK, RowsFollow, Running, Terminal
<1>4. QueuesFollow'
  BY <1>1, Fields DEF TypeOK, RowsFollow, QueuesFollow, Running, Terminal
<1>5. Once'
  BY <1>1, Fields DEF TypeOK, QueuesFollow, Once
<1>6. SettledIsStored'
  BY <1>1 DEF TypeOK, RowsFollow, SettledIsStored, Running, Terminal
<1> QED BY <1>2, <1>3, <1>4, <1>5, <1>6

\* An expired row is over.
LEMMA ExpireStep ==
  ASSUME Inv1, NEW t \in Tasks, Expire(t)
  PROVE  Inv1'
<1> USE DEF Inv1, Expire, rowVars, createVars, handleVars, boundVars
<1>1. /\ \A e, x : Has(e, x)' <=> Has(e, x)
      /\ \A e, x, y : Before(e, x, y)' <=> Before(e, x, y)
  BY DEF Has, Before
<1>2. TypeOK'
  BY <1>1, TasksAssumption DEF TypeOK, Running, Terminal, Works
<1>3. RowsFollow'
  BY <1>1, TasksAssumption DEF TypeOK, RowsFollow, Running, Terminal
<1>4. QueuesFollow'
  BY <1>1, Fields DEF TypeOK, RowsFollow, QueuesFollow, Running, Terminal
<1>5. Once'
  BY <1>1, Fields DEF TypeOK, QueuesFollow, Once
<1>6. SettledIsStored'
  BY <1>1 DEF TypeOK, RowsFollow, SettledIsStored, Running, Terminal
<1> QED BY <1>2, <1>3, <1>4, <1>5, <1>6

\* Work goes on when its wait is over.
LEMMA ResumeStep ==
  ASSUME Inv1, NEW t \in Tasks, Resume(t)
  PROVE  Inv1'
<1> USE DEF Inv1, Resume, rowVars, createVars, handleVars, boundVars
<1>1. /\ \A e, x : Has(e, x)' <=> Has(e, x)
      /\ \A e, x, y : Before(e, x, y)' <=> Before(e, x, y)
  BY DEF Has, Before
<1>2. TypeOK'
  BY <1>1, TasksAssumption DEF TypeOK, Running, Terminal, Works
<1>3. RowsFollow'
  BY <1>1, TasksAssumption DEF TypeOK, RowsFollow, Running, Terminal
<1>4. QueuesFollow'
  <2>1. \A u \in Tasks : work'[u] # work[u] => work[u] = "asking"
    BY DEF TypeOK
  <2> QED BY <1>1, <2>1, Fields DEF QueuesFollow
<1>5. Once'
  BY <1>1, Fields DEF TypeOK, QueuesFollow, Once
<1>6. SettledIsStored'
  BY <1>1 DEF TypeOK, RowsFollow, SettledIsStored, Running, Terminal
<1> QED BY <1>2, <1>3, <1>4, <1>5, <1>6

\* A crash takes the queue of its instance.
LEMMA CrashStep ==
  ASSUME Inv1, NEW d \in Instances, Crash(d)
  PROVE  Inv1'
<1> USE DEF Inv1, Crash, rowVars, createVars, handleVars, boundVars
<1>1. /\ \A e \in Instances : \A x : Has(e, x)' => Has(e, x) /\ e # d
      /\ \A e \in Instances : \A x, y : Before(e, x, y)' => Before(e, x, y)
  BY DEF Has, Before, TypeOK
<1>2. TypeOK'
  BY DEF TypeOK
<1>3. RowsFollow'
  BY <1>1, TasksAssumption DEF TypeOK, RowsFollow, Running, Terminal
<1>4. QueuesFollow'
  BY <1>1, Fields DEF TypeOK, RowsFollow, QueuesFollow, Running, Terminal
<1>5. Once'
  BY <1>1, Fields DEF TypeOK, QueuesFollow, Once
<1>6. SettledIsStored'
  BY <1>1 DEF TypeOK, RowsFollow, SettledIsStored, Running, Terminal
<1> QED BY <1>2, <1>3, <1>4, <1>5, <1>6

\* What the steps that issue statements add to a queue.
LEMMA CreateGrows ==
  ASSUME TypeOK, NEW t \in Tasks, NEW d \in Instances, Create(t, d)
  PROVE  /\ Grows(d, {[op |-> "insert", task |-> t], [op |-> "recover"]})
         /\ [op |-> "insert", task |-> t] \in Statements
<1>1. [op |-> "insert", task |-> t] \in Statements
  BY DEF Statements
<1> QED BY <1>1, Pushes DEF Create

\* A progress report is one statement.
LEMMA ProgressGrows ==
  ASSUME TypeOK, NEW t \in Tasks, Progress(t)
  PROVE  \E x \in Statements : x.op = "status" /\ x.task = t /\ Grows(home[t], {x})
<1> DEFINE x == [op |-> "status", task |-> t, to |-> StatusNow(t)]
<1>1. x \in Statements /\ x.op = "status" /\ x.task = t
  BY DEF Statements, Running, StatusNow
<1>2. home[t] \in Instances /\ Push(home[t], <<x>>)
  <2>1. home[t] \in Instances
    BY DEF Progress, TypeOK
  <2> QED BY <2>1 DEF Progress
<1> HIDE DEF x
<1> QED BY <1>1, <1>2, Pushes

\* Questions are one statement.
LEMMA RequestInputGrows ==
  ASSUME TypeOK, NEW t \in Tasks, NEW ks \in SUBSET Keys, RequestInput(t, ks)
  PROVE  \E x \in Statements :
           /\ x.op = "input" /\ x.task = t /\ x.keys = ks /\ Grows(home[t], {x})
           /\ [asked |-> ks, outstanding |-> ks] \in Waiters
<1> DEFINE x == [op |-> "input", task |-> t, keys |-> ks]
<1>1. x \in Statements /\ x.op = "input" /\ x.task = t /\ x.keys = ks
  BY DEF Statements
<1>2. home[t] \in Instances /\ Push(home[t], <<x>>)
  BY DEF TypeOK, RequestInput
<1>3. [asked |-> ks, outstanding |-> ks] \in Waiters
  BY DEF Waiters
<1> HIDE DEF x
<1> QED BY <1>1, <1>2, <1>3, Pushes

\* Work that ends issues a settlement at most.
LEMMA WorkEndsGrows ==
  ASSUME TypeOK, NEW t \in Tasks, NEW ok \in BOOLEAN, NEW thrown \in BOOLEAN, WorkEnds(t, ok,
         thrown)
  PROVE  \E N \in SUBSET Statements : /\ Grows(home[t], N)
                                      /\ \A x \in N : x.op = "settle" /\ x.task = t
<1> DEFINE to == Outcome(t, ok, thrown)
<1>1. to \in Terminal
  BY DEF Outcome, Terminal
<1>2. home[t] \in Instances /\ (Push(home[t], <<>>) \/ Push(home[t], SettleItem(t, to)))
  <2>1. home[t] \in Instances
    BY DEF TypeOK, WorkEnds
  <2> QED BY <2>1 DEF WorkEnds
<1> HIDE DEF to
<1>3. PICK x \in Statements : x.op = "settle" /\ x.task = t /\ SettleItem(t, to) = <<x>>
  BY <1>1, SettleItems
<1>4. Grows(home[t], {}) \/ Grows(home[t], {x})
  BY <1>2, <1>3, Pushes
<1> QED BY <1>3, <1>4

\* The insert of a new task is queued once.
LEMMA CreateStep ==
  ASSUME Inv1, NEW t \in Tasks, NEW d \in Instances, Create(t, d)
  PROVE  Inv1'
<1> USE DEF Inv1, Create, ReadyState, rowVars, createVars, handleVars, boundVars
<1>1. /\ Grows(d, {[op |-> "insert", task |-> t], [op |-> "recover"]})
      /\ [op |-> "insert", task |-> t] \in Statements
  BY CreateGrows
<1>2. TypeOK'
  BY <1>1, TasksAssumption DEF TypeOK, Grows, Running, Terminal, Works
<1>3. RowsFollow'
  BY <1>1, TasksAssumption DEF TypeOK, RowsFollow, Running, Terminal
<1>4. QueuesFollow'
  BY <1>1, Fields DEF TypeOK, Grows, RowsFollow, QueuesFollow, Running, Terminal
<1>5. Once'
  BY <1>1, Fields DEF TypeOK, Grows, QueuesFollow, Once
<1>6. SettledIsStored'
  BY <1>1 DEF TypeOK, RowsFollow, SettledIsStored, Running, Terminal
<1> QED BY <1>2, <1>3, <1>4, <1>5, <1>6

\* A call is about a task that has a row.
LEMMA CallStep ==
  ASSUME Inv1, NEW t \in Tasks, NEW d \in Instances, NEW s \in Statements, s.op \in {"update",
         "cancel"}, s.task = t, Call(t, d, s)
  PROVE  Inv1'
<1> USE DEF Inv1, Call, ReadyState, rowVars, createVars, handleVars, boundVars
<1>1. Grows(d, {s, [op |-> "recover"]})
  BY Pushes
<1>2. TypeOK'
  BY <1>1, TasksAssumption DEF TypeOK, Grows, Running, Terminal, Works
<1>3. RowsFollow'
  BY <1>1, TasksAssumption DEF TypeOK, RowsFollow, Running, Terminal
<1>4. QueuesFollow'
  BY <1>1, Fields DEF TypeOK, Grows, RowsFollow, QueuesFollow, Running, Terminal
<1>5. Once'
  BY <1>1, Fields, SMTT(30) DEF TypeOK, Grows, QueuesFollow, Once
<1>6. SettledIsStored'
  BY <1>1 DEF TypeOK, RowsFollow, SettledIsStored, Running, Terminal
<1> QED BY <1>2, <1>3, <1>4, <1>5, <1>6

\* A report is queued for a row that exists.
LEMMA ProgressStep ==
  ASSUME Inv1, NEW t \in Tasks, Progress(t)
  PROVE  Inv1'
<1> USE DEF Inv1, Progress, StatusNow, rowVars, createVars, handleVars, boundVars
<1>1. PICK x \in Statements : x.op = "status" /\ x.task = t /\ Grows(home[t], {x})
  BY ProgressGrows
<1>2. TypeOK'
  BY <1>1, TasksAssumption DEF TypeOK, Grows, Running, Terminal, Works
<1>3. RowsFollow'
  BY <1>1, TasksAssumption DEF TypeOK, RowsFollow, Running, Terminal
<1>4. QueuesFollow'
  <2>1. home' = home /\ work' = work /\ status' = status /\ alive' = alive
    OBVIOUS
  <2>2. home[t] \in alive /\ status[t] # "none"
    BY DEF RowsFollow
  <2>3. \A e \in Instances, y \in Statements : Has(e, y)' => Has(e, y) \/ (e = home[t] /\ y = x)
    BY <1>1 DEF Grows
  <2> SUFFICES ASSUME NEW e \in Instances, NEW y \in Statements, Has(e, y)'
               PROVE  /\ e \in alive
                      /\ y.op = "insert" => home[y.task] = e /\ work[y.task] = "creating"
                      /\ y.op = "input" => home[y.task] = e /\ work[y.task] = "storing"
                      /\ y.op \notin {"recover", "insert"} => status[y.task] # "none"
    BY <2>1 DEF QueuesFollow
  <2>4. CASE Has(e, y)
    BY <2>4 DEF QueuesFollow
  <2>5. CASE e = home[t] /\ y = x
    BY <2>5, <2>2, <1>1
  <2> QED BY <2>3, <2>4, <2>5
<1>5. Once'
  BY <1>1, Fields DEF TypeOK, Grows, QueuesFollow, Once
<1>6. SettledIsStored'
  BY <1>1 DEF TypeOK, RowsFollow, SettledIsStored, Running, Terminal
<1> QED BY <1>2, <1>3, <1>4, <1>5, <1>6

\* Questions are queued once, by work that then waits for them.
LEMMA RequestInputStep ==
  ASSUME Inv1, NEW t \in Tasks, NEW ks \in SUBSET Keys, RequestInput(t, ks)
  PROVE  Inv1'
<1> USE DEF Inv1, RequestInput, rowVars, createVars, handleVars, boundVars
<1>1. PICK x \in Statements : /\ x.op = "input" /\ x.task = t /\ Grows(home[t], {x})
                              /\ [asked |-> ks, outstanding |-> ks] \in Waiters
  BY RequestInputGrows
<1>2. TypeOK'
  BY <1>1, TasksAssumption DEF TypeOK, Grows, Running, Terminal, Works
<1>3. RowsFollow'
  BY <1>1, TasksAssumption DEF TypeOK, RowsFollow, Running, Terminal
<1>4. QueuesFollow'
  <2>1. \A u \in Tasks : /\ u # t => work'[u] = work[u]
                         /\ work[t] = "running" /\ work'[t] = "storing" /\ status[t] # "none"
    BY DEF TypeOK, RowsFollow
  <2>2. home' = home /\ status' = status /\ alive' = alive /\ home[t] \in alive
    OBVIOUS
  <2> QED BY <1>1, <2>1, <2>2, Fields DEF Grows, QueuesFollow
<1>5. Once'
  <2>1. \A e \in Instances, y \in Statements : Has(e, y) /\ y.op = "input" => y.task # t
    BY DEF QueuesFollow
  <2> QED BY <1>1, <2>1 DEF Grows, Once
<1>6. SettledIsStored'
  BY <1>1 DEF TypeOK, RowsFollow, SettledIsStored, Running, Terminal
<1> QED BY <1>2, <1>3, <1>4, <1>5, <1>6

\* The settlement of work that ends is queued for a row that exists.
LEMMA WorkEndsStep ==
  ASSUME Inv1, NEW t \in Tasks, NEW ok \in BOOLEAN, NEW thrown \in BOOLEAN, WorkEnds(t, ok, thrown)
  PROVE  Inv1'
<1> USE DEF Inv1, WorkEnds, rowVars, createVars, handleVars, boundVars
<1>1. PICK N \in SUBSET Statements : /\ Grows(home[t], N)
                                     /\ \A x \in N : x.op = "settle" /\ x.task = t
  BY WorkEndsGrows
<1>2. TypeOK'
  BY <1>1, TasksAssumption DEF TypeOK, Grows, Running, Terminal, Works
<1>3. RowsFollow'
  BY <1>1, TasksAssumption DEF TypeOK, RowsFollow, Running, Terminal
<1>4. QueuesFollow'
  <2>1. \A u \in Tasks : /\ u # t => work'[u] = work[u]
                         /\ work[t] = "running" /\ status[t] # "none"
    BY DEF TypeOK, RowsFollow
  <2>2. home' = home /\ status' = status /\ alive' = alive /\ home[t] \in alive
    OBVIOUS
  <2> QED BY <1>1, <2>1, <2>2, Fields DEF Grows, QueuesFollow
<1>5. Once'
  BY <1>1 DEF Grows, Once
<1>6. SettledIsStored'
  BY <1>1 DEF TypeOK, RowsFollow, SettledIsStored, Running, Terminal
<1> QED BY <1>2, <1>3, <1>4, <1>5, <1>6

\* Every step keeps it.
LEMMA Inv1Inductive ==
  ASSUME Inv1, [Next]_vars
  PROVE  Inv1'
<1>1. ASSUME NEW d \in Instances, Start(d) \/ Crash(d) \/ Stored(d) \/ StatementFails(d)
      PROVE  Inv1'
  BY <1>1, StartStep, CrashStep, StatementFailsStep, RecoveredStep, InsertedStep, InputStoredStep,
     StatusStoredStep, SettledStep, UpdateReadStep, PartialStoredStep, AnswerStoredStep,
     CancelReadStep, DirectStoredStep DEF Stored
<1>2. ASSUME NEW t \in Tasks, NEW d \in Instances,
             Create(t, d) \/ Cancel(t, d) \/ \E ks \in SUBSET Keys : Update(t, d, ks)
      PROVE  Inv1'
  <2>1. CASE Create(t, d)
    BY <2>1, CreateStep
  <2>2. CASE Cancel(t, d)
    <3> DEFINE s == [op |-> "cancel", task |-> t]
    <3>1. s \in Statements /\ s.op = "cancel" /\ s.task = t /\ Call(t, d, s)
      BY <2>2 DEF Statements, Cancel
    <3> HIDE DEF s
    <3> QED BY <3>1, CallStep
  <2>3. ASSUME NEW ks \in SUBSET Keys, Update(t, d, ks)
        PROVE  Inv1'
    <3> DEFINE s == [op |-> "update", task |-> t, keys |-> ks]
    <3>1. s \in Statements /\ s.op = "update" /\ s.task = t /\ Call(t, d, s)
      BY <2>3 DEF Statements, Update
    <3> HIDE DEF s
    <3> QED BY <3>1, CallStep
  <2> QED BY <1>2, <2>1, <2>2, <2>3
<1>3. ASSUME NEW t \in Tasks, Expire(t) \/ Resume(t) \/ Progress(t) \/ End(t)
                              \/ \E ks \in SUBSET Keys : RequestInput(t, ks)
      PROVE  Inv1'
  BY <1>3, ExpireStep, ResumeStep, ProgressStep, WorkEndsStep, RequestInputStep DEF End
<1>4. CASE UNCHANGED vars
  BY <1>4 DEF vars, rowVars, createVars, handleVars, boundVars, Inv1, TypeOK, RowsFollow,
              QueuesFollow, Once, SettledIsStored, Has, Before
<1> QED BY <1>1, <1>2, <1>3, <1>4 DEF Next

\* It holds at the start.
LEMMA Inv1Initial == Init => Inv1
<1> SUFFICES ASSUME Init PROVE Inv1
  OBVIOUS
<1>1. \A d \in Instances : \A x, y : ~Has(d, x) /\ ~Before(d, x, y)
  BY DEF Init, Has, Before
<1>2. TypeOK
  <2>1. <<>> \in Seq(Statements)
    OBVIOUS
  <2> QED BY <2>1, TasksAssumption DEF Init, TypeOK, Works
<1> QED BY <1>1, <1>2 DEF Init, Inv1, RowsFollow, QueuesFollow, Once, SettledIsStored

-----------------------------------------------------------------------------
(* What a step may do to a row. *)

\* a queued cancellation of t's row at an instance that is not t's, or its recovery
Foreign(t) ==
  \E d \in alive : home[t] # d \/ \E x \in Statements : Has(d, x) /\ x.op = "direct" /\ x.task = t

RowChange(t) ==
  \/ status[t] = "none" /\ status'[t] = "working" /\ home[t] \in alive
  \/ status[t] \in Running /\ status'[t] \in Running
  \/ status[t] \in Running /\ status'[t] \in Terminal /\ (settled'[t] \/ Foreign(t))
  \/ status[t] \in Terminal /\ status'[t] = "deleted" /\ t \in expired

\* The status of a row changes by its insert, while it runs, or by its purge, and by no
\* step that starts or ends an instance or creates a task.
LEMMA RowChanges ==
  ASSUME Inv1, [Next]_vars, NEW t \in Tasks, status'[t] # status[t]
  PROVE  RowChange(t) /\ UNCHANGED <<alive, home>>
<1> USE DEF Inv1, rowVars, createVars, handleVars, boundVars, RowChange
<1>1. PICK d \in Instances : Stored(d)
  BY DEF Next, vars, Start, Crash, StatementFails, Create, Cancel, Update, Call, Expire, Resume,
         Progress, End, WorkEnds, RequestInput
<1> DEFINE h == Head(queue[d])
<1>2. /\ h \in Statements /\ Has(d, h) /\ d \in alive /\ (h.op # "recover" => h.task \in Tasks)
      /\ (h.op = "status" => h.to \in Running) /\ (h.op = "settle" => h.to \in Terminal)
  <2>1. queue[d] # <<>> /\ d \in alive
    BY <1>1 DEF Stored, Recovered, Inserted, InputStored, StatusStored, Settled, UpdateRead,
                PartialStored, AnswerStored, CancelRead, DirectStored, HeadIs
  <2> QED BY <2>1, HeadQueued, Fields
<1>3. CASE Recovered(d)
  BY <1>2, <1>3 DEF Recovered, Interrupted, Foreign, TypeOK, Running, Terminal
<1>4. CASE Inserted(d)
  BY <1>2, <1>4 DEF Inserted, HeadIs, QueuesFollow, RowsFollow, TypeOK
<1>5. CASE InputStored(d) \/ StatusStored(d) \/ PartialStored(d) \/ AnswerStored(d)
  <2> USE DEF UpdateRunning, Fenced, HeadIs, TypeOK, Running
  <2>1. CASE InputStored(d)
    BY <1>2, <2>1 DEF InputStored
  <2>2. CASE StatusStored(d)
    BY <1>2, <2>2 DEF StatusStored
  <2>3. CASE PartialStored(d)
    BY <1>2, <2>3 DEF PartialStored
  <2>4. CASE AnswerStored(d)
    BY <1>2, <2>4 DEF AnswerStored
  <2> QED BY <1>5, <2>1, <2>2, <2>3, <2>4
<1>6. CASE Settled(d)
  BY <1>2, <1>6 DEF Settled, HeadIs, SettleRow, Fenced, TypeOK
<1>7. CASE DirectStored(d)
  BY <1>2, <1>7 DEF DirectStored, HeadIs, SettleRow, Fenced, TypeOK, Foreign, Terminal
<1>8. CASE UpdateRead(d) \/ CancelRead(d)
  BY <1>8 DEF UpdateRead, CancelRead
<1> QED BY <1>1, <1>3, <1>4, <1>5, <1>6, <1>7, <1>8 DEF Stored

\* A terminal status never changes, whoever settles, recovers, cancels or reports late;
\* the row only leaves after its retention: for any number of instances, alive at the
\* same time too.
THEOREM TerminalRowsStay == Spec => TerminalStays
<1>1. ASSUME Inv1, [Next]_vars, NEW t \in Tasks, status[t] \in Terminal, status'[t] # status[t]
      PROVE  status'[t] = "deleted" /\ t \in expired
  BY <1>1, RowChanges DEF RowChange, Running, Terminal
<1>2. Inv1 /\ [Next]_vars => [\A t \in Tasks : status[t] \in Terminal /\ status'[t] # status[t]
                                => status'[t] = "deleted" /\ t \in expired]_vars
  BY <1>1
<1> QED BY <1>2, Inv1Initial, Inv1Inductive, PTL DEF Spec, TerminalStays

\* A task the manager calls settled is over in the table, has no waiter left and leaves no
\* work waiting: for any number of instances, alive at the same time too.
THEOREM SettledTasksAreStored == Spec => []SettledIsStored
<1>1. Inv1 => SettledIsStored
  BY DEF Inv1
<1> QED BY <1>1, Inv1Initial, Inv1Inductive, PTL DEF Spec

-----------------------------------------------------------------------------
(* One live instance at a time. *)

\* an instance starts: nothing of it was seen before
Starts(d) ==
  /\ Peers \/ alive = {}
  /\ alive' = alive \cup {d} /\ recovery[d] = "none" /\ \A t \in Tasks : home[t] # d
  /\ UNCHANGED <<recovery, home, status, settled, queue>>

\* Instances come and go one at a time, and a recovery is an instance's own.
LEMMA InstanceChanges ==
  ASSUME Inv1, [Next]_vars
  PROVE  /\ alive' \subseteq alive \/ \E d \in Instances : Starts(d)
         /\ \A d \in Instances : recovery'[d] = "done" /\ recovery[d] # "done" =>
              d \notin alive' \/ Recovered(d)
         /\ \A t \in Tasks : settled[t] => settled'[t]
         /\ \A t \in Tasks : home'[t] # home[t] => status[t] = "none" /\ status'[t] = "none"
<1> USE DEF Inv1, rowVars, createVars, handleVars, boundVars
<1>1. alive' \subseteq alive \/ \E d \in Instances : Starts(d)
  BY ZenonT(60) DEF Next, vars, Start, Crash, StatementFails, Create, Cancel, Update, Call, Expire, Resume,
         Progress, End, WorkEnds, RequestInput, Stored, Recovered, Inserted, InputStored,
         StatusStored, Settled, UpdateRead, PartialStored, AnswerStored, CancelRead, DirectStored,
         Starts
<1>2. ASSUME NEW d \in Instances, recovery'[d] = "done", recovery[d] # "done"
      PROVE  d \notin alive' \/ Recovered(d)
  <2>1. ASSUME NEW e \in Instances, StatementFails(e)
        PROVE  recovery'[d] # "done"
    BY <1>2, <2>1, Failures, HeadQueued, Fields DEF FailTakes, TypeOK, StatementFails
  <2>2. ASSUME NEW e \in Instances, recovery' = ReadyState(e)
        PROVE  recovery'[d] # "done"
    BY <1>2, <2>2 DEF ReadyState, TypeOK
  <2>3. ASSUME NEW e \in Instances, Crash(e)
        PROVE  d \notin alive'
    BY <1>2, <2>3 DEF Crash, TypeOK
  <2>4. ASSUME NEW e \in Instances, Recovered(e)
        PROVE  Recovered(d)
    BY <1>2, <2>4 DEF Recovered, TypeOK
  <2> QED BY <1>2, <2>1, <2>2, <2>3, <2>4, ZenonT(60)
          DEF Next, vars, Start, Create, Cancel, Update, Call, Expire, Resume,
              Progress, End, WorkEnds, RequestInput, Stored, Inserted, InputStored,
              StatusStored, Settled, UpdateRead, PartialStored, AnswerStored, CancelRead, DirectStored
<1>3. ASSUME NEW t \in Tasks, settled[t]
      PROVE  settled'[t]
  <2>1. ASSUME NEW d \in Instances, Settled(d) \/ CancelRead(d) \/ StatementFails(d)
        PROVE  settled'[t]
    BY <1>3, <2>1 DEF Settled, CancelRead, StatementFails, TypeOK
  <2> QED BY <1>3, <2>1, ZenonT(60)
          DEF Next, vars, Start, Crash, Create, Cancel, Update, Call, Expire, Resume,
              Progress, End, WorkEnds, RequestInput, Stored, Recovered, Inserted, InputStored,
              StatusStored, UpdateRead, PartialStored, AnswerStored, DirectStored
<1>4. ASSUME NEW t \in Tasks, home'[t] # home[t]
      PROVE  status[t] = "none" /\ status'[t] = "none"
  <2>1. PICK u \in Tasks, d \in Instances : Create(u, d)
    BY <1>4, ZenonT(60) DEF Next, vars, Start, Crash, StatementFails, Cancel, Update, Call, Expire, Resume,
              Progress, End, WorkEnds, RequestInput, Stored, Recovered, Inserted, InputStored,
              StatusStored, Settled, UpdateRead, PartialStored, AnswerStored, CancelRead, DirectStored
  <2> QED BY <1>4, <2>1 DEF Create, TypeOK, RowsFollow
<1> QED BY <1>1, <1>2, <1>3, <1>4

\* A cancellation of a row is issued by an instance that has no handle of the task.
LEMMA NewDirects ==
  ASSUME Inv1, [Next]_vars, NEW d \in Instances, NEW x \in Statements,
         Has(d, x)', ~Has(d, x), x.op = "direct"
  PROVE  /\ ~HasHandle(d, x.task) /\ status[x.task] \in Running /\ d \in alive
         /\ UNCHANGED <<home, settled>>
<1> USE DEF Inv1
<1>1. ASSUME NEW e \in Instances, CancelRead(e)
      PROVE  /\ ~HasHandle(d, x.task) /\ status[x.task] \in Running /\ d \in alive
             /\ UNCHANGED <<home, settled>>
  <2>1. PICK N \in SUBSET Statements : Takes(e, N) /\ CancelTakes(e, Head(queue[e]).task, N)
    BY <1>1, CancelReads
  <2>2. e = d /\ x \in N
    BY <2>1 DEF Takes
  <2>3. UNCHANGED home /\ e \in alive
    BY <1>1 DEF CancelRead, HeadIs, createVars
  <2> QED BY <2>1, <2>2, <2>3 DEF CancelTakes, handleVars
<1>2. ASSUME NEW e \in Instances, NEW N, Takes(e, N) \/ Grows(e, N),
             \A y \in N : y.op # "direct"
      PROVE  FALSE
  BY <1>2 DEF Takes, Grows
<1>3. ASSUME UNCHANGED queue
      PROVE  FALSE
  BY <1>3 DEF Has
<1>4. ASSUME NEW e \in Instances, Stored(e)
      PROVE  CancelRead(e)
  <2>1. CASE UpdateRead(e)
    BY <2>1, UpdateReads DEF UpdateTakes, Takes
  <2>2. CASE Recovered(e) \/ Inserted(e) \/ InputStored(e) \/ StatusStored(e) \/ Settled(e)
             \/ PartialStored(e) \/ AnswerStored(e) \/ DirectStored(e)
    <3>1. Pop(e, <<>>) /\ queue[e] # <<>>
      BY <2>2 DEF Recovered, Inserted, InputStored, StatusStored, Settled, PartialStored,
                  AnswerStored, DirectStored, HeadIs
    <3>2. Takes(e, {})
      BY <3>1, Pops
    <3> QED BY <3>2, <1>2
  <2> QED BY <1>4, <2>1, <2>2 DEF Stored
<1>5. ASSUME NEW e \in Instances, Start(e) \/ Crash(e) \/ StatementFails(e)
      PROVE  FALSE
  <2>1. CASE Start(e)
    BY <2>1, <1>3 DEF Start
  <2>2. CASE Crash(e)
    BY <2>2 DEF Crash, Has, TypeOK
  <2>3. CASE StatementFails(e)
    BY <2>3, <1>2, Failures DEF FailTakes
  <2> QED BY <1>5, <2>1, <2>2, <2>3
<1>6. ASSUME NEW t \in Tasks, NEW e \in Instances, NEW y \in Statements, y.op # "direct", Call(t, e, y)
      PROVE  FALSE
  <2>1. Grows(e, {y, [op |-> "recover"]})
    BY <1>6, Pushes DEF Call
  <2> QED BY <1>6, <2>1, <1>2
<1>7. ASSUME NEW t \in Tasks, NEW e \in Instances, Create(t, e)
      PROVE  FALSE
  <2> DEFINE i == [op |-> "insert", task |-> t]
             r == [op |-> "recover"]
  <2>1. Grows(e, {i, r}) /\ i.op = "insert" /\ r.op = "recover"
    BY <1>7, CreateGrows
  <2> HIDE DEF i, r
  <2> QED BY <2>1 DEF Grows
<1>8. ASSUME NEW t \in Tasks, NEW e \in Instances, Cancel(t, e)
      PROVE  FALSE
  BY <1>8, <1>6 DEF Cancel, Statements
<1>9. ASSUME NEW t \in Tasks, NEW e \in Instances, NEW ks \in SUBSET Keys, Update(t, e, ks)
      PROVE  FALSE
  <2> DEFINE y == [op |-> "update", task |-> t, keys |-> ks]
  <2>1. y \in Statements /\ y.op # "direct" /\ Call(t, e, y)
    BY <1>9 DEF Update, Statements
  <2> HIDE DEF y
  <2> QED BY <2>1, <1>6
<1>10. ASSUME NEW t \in Tasks, Expire(t) \/ Resume(t)
       PROVE  FALSE
  BY <1>10, <1>3 DEF Expire, Resume
<1>11. ASSUME NEW t \in Tasks, home[t] \in Instances, Progress(t)
       PROVE  FALSE
  BY <1>11, ProgressGrows DEF Grows
<1>12. ASSUME NEW t \in Tasks, home[t] \in Instances, NEW ok \in BOOLEAN, NEW thrown \in BOOLEAN,
              WorkEnds(t, ok, thrown)
       PROVE  FALSE
  BY <1>12, <1>2, WorkEndsGrows
<1>13. ASSUME NEW t \in Tasks, home[t] \in Instances, NEW ks \in SUBSET Keys, RequestInput(t, ks)
       PROVE  FALSE
  BY <1>13, RequestInputGrows DEF Grows
<1>14. \A t \in Tasks : home[t] \in alive => home[t] \in Instances
  BY DEF TypeOK
<1>15. PICK e \in Instances : CancelRead(e)
  BY <1>3, <1>4, <1>5, <1>7, <1>8, <1>9, <1>10, <1>11, <1>12, <1>13, <1>14, ZenonT(60)
     DEF Next, vars, End, Progress, WorkEnds, RequestInput
<1> QED BY <1>15, <1>1

\* One instance at a time: the rows of the live one are settled by itself only.
LEMMA Inv2Inductive ==
  ASSUME ~Peers, Inv1, Inv2, [Next]_vars
  PROVE  Inv2'
<1> USE DEF Inv2
<1>1. alive' \subseteq alive \/ \E d \in Instances : Starts(d)
  BY InstanceChanges
<1>2. \A d \in Instances : recovery'[d] = "done" /\ recovery[d] # "done" =>
              d \notin alive' \/ Recovered(d)
  BY InstanceChanges
<1>3. /\ \A t \in Tasks : settled[t] => settled'[t]
      /\ \A t \in Tasks : home'[t] # home[t] => status[t] = "none" /\ status'[t] = "none"
  BY InstanceChanges
<1>4. alive \subseteq Instances /\ alive' \subseteq Instances
  BY Inv1Inductive DEF Inv1, TypeOK
<1>5. \A t \in Tasks : status'[t] # status[t] => RowChange(t) /\ UNCHANGED <<alive, home>>
  BY RowChanges
<1>6. OneAlive'
  BY <1>1 DEF OneAlive, Starts
<1>7. ASSUME NEW d \in alive', NEW t \in Tasks, recovery'[d] = "done", status'[t] \in Running
      PROVE  home'[t] = d
  <2>1. home'[t] = home[t]
    BY <1>3, <1>7 DEF Running
  <2>2. CASE recovery[d] # "done"
    <3>1. Recovered(d)
      BY <2>2, <1>2, <1>4, <1>7
    <3>2. status'[t] = status[t] /\ t \notin Interrupted(d)
      BY <3>1, <1>7 DEF Recovered, Inv1, TypeOK, Running, Terminal
    <3> QED BY <2>1, <3>2, <1>7 DEF Interrupted
  <2>3. CASE recovery[d] = "done"
    <3>1. d \in alive
      BY <1>1, <1>7, <2>3 DEF Starts
    <3>2. CASE status[t] \in Running
      BY <3>1, <3>2, <2>1, <2>3 DEF RunningRowsAreOurs
    <3>3. CASE status[t] \notin Running
      <4>1. home[t] \in alive
        BY <3>3, <1>5, <1>7 DEF RowChange, Running, Terminal
      <4> QED BY <4>1, <3>1, <2>1 DEF OneAlive
    <3> QED BY <3>2, <3>3
  <2> QED BY <2>2, <2>3
<1>8. ASSUME NEW t \in Tasks, home'[t] \in alive', status'[t] \in Terminal \cup {"deleted"}
      PROVE  settled'[t]
  <2>1. home'[t] = home[t]
    BY <1>3, <1>8 DEF Terminal
  <2>2. home[t] \in alive
    BY <1>1, <1>8, <2>1 DEF Starts
  <2>3. CASE status[t] \in Terminal \cup {"deleted"}
    BY <2>2, <2>3, <1>3 DEF LiveRows
  <2>4. CASE status[t] \notin Terminal \cup {"deleted"}
    <3>1. settled'[t] \/ Foreign(t)
      BY <2>4, <1>5, <1>8 DEF RowChange, Running, Terminal
    <3>2. Foreign(t) => settled[t]
      BY <2>2, <1>4 DEF Foreign, OneAlive, LiveRows
    <3> QED BY <3>1, <3>2, <1>3
  <2> QED BY <2>3, <2>4
<1>9. ASSUME NEW d \in Instances, NEW x \in Statements, Has(d, x)', x.op = "direct"
      PROVE  home'[x.task] # d \/ settled'[x.task]
  <2>1. x.task \in Tasks
    BY <1>9, Fields
  <2>2. CASE Has(d, x)
    <3>1. status[x.task] # "none"
      BY <1>9, <2>2 DEF Inv1, QueuesFollow
    <3> QED BY <1>9, <2>1, <2>2, <3>1, <1>3 DEF LiveRows
  <2>3. CASE ~Has(d, x)
    <3>1. ~HasHandle(d, x.task) /\ status[x.task] \in Running /\ d \in alive
          /\ home' = home /\ settled' = settled
      BY <1>9, <2>3, NewDirects
    <3>2. work[x.task] \notin {"none", "creating"}
      BY <2>1, <3>1 DEF Inv1, RowsFollow, Running
    <3> QED BY <3>1, <3>2 DEF HasHandle
  <2> QED BY <2>2, <2>3
<1>10. RunningRowsAreOurs'
  BY <1>7 DEF RunningRowsAreOurs
<1>11. LiveRows'
  BY <1>8, <1>9 DEF LiveRows
<1> QED BY <1>6, <1>10, <1>11

\* Nothing is alive at the start.
LEMMA Inv2Initial == Init => Inv2
<1> SUFFICES ASSUME Init PROVE Inv2
  OBVIOUS
<1>1. \A d \in Instances : \A x : ~Has(d, x)
  BY DEF Init, Has
<1> QED BY <1>1 DEF Init, Inv2, OneAlive, RunningRowsAreOurs, LiveRows

\* With one live instance at a time, what the manager believes of its tasks the table says
\* too: a settled task is over in it, and after recovery every running row is the
\* instance's own.
THEOREM TasksAreSound ==
  ASSUME ~Peers PROVE Spec => []TasksSound
<1>1. Init => Inv1 /\ Inv2
  BY Inv1Initial, Inv2Initial
<1>2. Inv1 /\ Inv2 /\ [Next]_vars => (Inv1 /\ Inv2)'
  BY Inv1Inductive, Inv2Inductive
<1>3. Inv1 /\ Inv2 => TasksSound
  BY DEF Inv1, Inv2, TasksSound
<1> QED BY <1>1, <1>2, <1>3, PTL DEF Spec

\* With one live instance at a time, a live instance's task becomes terminal only by its
\* own settlement.
THEOREM OwnersSettle ==
  ASSUME ~Peers PROVE Spec => []OwnerSettles
<1>1. Init => Inv1 /\ Inv2
  BY Inv1Initial, Inv2Initial
<1>2. Inv1 /\ Inv2 /\ [Next]_vars => (Inv1 /\ Inv2)'
  BY Inv1Inductive, Inv2Inductive
<1>3. Inv1 /\ Inv2 => OwnerSettles
  BY DEF Inv2, LiveRows, OwnerSettles
<1> QED BY <1>1, <1>2, <1>3, PTL DEF Spec

-----------------------------------------------------------------------------
(* Questions and answers, while no progress is reported. *)

Asked == Inv1 /\ Inv2 /\ Questions /\ Answers /\ Sequenced

\* A new task asks nothing, and rows that are over do not ask.
LEMMA InsertedAsked ==
  ASSUME Asked, NEW d \in Instances, Inserted(d)
  PROVE  (Questions /\ Answers /\ Sequenced)'
<1> USE DEF Asked, Inv1, Inv2, Inserted, HeadIs, rowVars, createVars, handleVars, boundVars
<1>1. Takes(d, {})
  BY Pops
<1>2. Questions'
  BY <1>1, Fields DEF TypeOK, Takes, RowsFollow, QueuesFollow, Questions, AskedOf, Answers,
       SettledIsStored, LiveRows, OneAlive, Quiet, Waits, Running, Terminal
<1>3. Answers'
  BY <1>1, Fields, BeforeHas DEF TypeOK, Takes, RowsFollow, QueuesFollow, Questions, AskedOf, Answers,
       Sequenced, Quiet, Waits, Running, Terminal
<1>4. Sequenced'
  BY <1>1 DEF Takes, Sequenced
<1> QED BY <1>2, <1>3, <1>4

\* Stored questions are those the work waits for.
LEMMA InputStoredAsked ==
  ASSUME Asked, NEW d \in Instances, InputStored(d)
  PROVE  (Questions /\ Answers /\ Sequenced)'
<1> USE DEF Asked, Inv1, Inv2, InputStored, HeadIs, UpdateRunning, Fenced, rowVars, createVars,
            handleVars, boundVars
<1>1. Takes(d, {})
  BY Pops
<1>2. Questions'
  BY <1>1, Fields DEF TypeOK, Takes, RowsFollow, QueuesFollow, Questions, AskedOf, Answers,
       SettledIsStored, LiveRows, OneAlive, Quiet, Waits, Running, Terminal
<1>3. Answers'
  BY <1>1, Fields, BeforeHas DEF TypeOK, Takes, RowsFollow, QueuesFollow, Questions, AskedOf, Answers,
       Sequenced, Quiet, Waits, Running, Terminal
<1>4. Sequenced'
  BY <1>1 DEF Takes, Sequenced
<1> QED BY <1>2, <1>3, <1>4

\* A part of the answers leaves the open questions.
LEMMA PartialStoredAsked ==
  ASSUME Asked, NEW d \in Instances, PartialStored(d)
  PROVE  (Questions /\ Answers /\ Sequenced)'
<1> USE DEF Asked, Inv1, Inv2, PartialStored, HeadIs, UpdateRunning, Fenced, rowVars, createVars,
            handleVars, boundVars
<1>1. Takes(d, {})
  BY Pops
<1>2. Questions'
  BY <1>1, Fields DEF TypeOK, Takes, RowsFollow, QueuesFollow, Questions, AskedOf, Answers,
       SettledIsStored, LiveRows, OneAlive, Quiet, Waits, Running, Terminal
<1>3. Answers'
  BY <1>1, Fields, BeforeHas DEF TypeOK, Takes, RowsFollow, QueuesFollow, Questions, AskedOf, Answers,
       Sequenced, Quiet, Waits, Running, Terminal
<1>4. Sequenced'
  BY <1>1 DEF Takes, Sequenced
<1> QED BY <1>2, <1>3, <1>4

\* The last answers release the wait they were given to, and no other.
LEMMA AnswerStoredAsked ==
  ASSUME Asked, NEW d \in Instances, AnswerStored(d)
  PROVE  (Questions /\ Answers /\ Sequenced)'
<1> USE DEF Asked, Inv1, Inv2
<1>1. Takes(d, {})
  BY Pops DEF AnswerStored, HeadIs
<1>a. PICK s \in Statements : s = Head(queue[d])
  BY <1>1 DEF Takes
<1>b. PICK u \in Tasks : u = s.task
  BY <1>a, Fields DEF AnswerStored, HeadIs
<1>2. Has(d, s) /\ s.op = "answer" /\ u = s.task
  BY <1>1, <1>a, <1>b DEF Takes, AnswerStored, HeadIs
<1>3. /\ home[u] = d /\ s.keys \subseteq issued[u]
      /\ Waits(u) => s.keys = waiter[u].asked
  BY <1>2 DEF Answers
<1>4. /\ alive' = alive /\ home' = home /\ work' = work /\ issued' = issued
      /\ cancelRequested' = cancelRequested /\ settled' = settled
  BY DEF AnswerStored, createVars
<1>5. \A t \in Tasks : t # u =>
        status'[t] = status[t] /\ requests'[t] = requests[t] /\ waiter'[t] = waiter[t]
  BY <1>a, <1>b DEF AnswerStored, UpdateRunning, Release, TypeOK
<1>6. /\ status'[u] # "input_required"
      /\ waiter'[u] = IF waiter[u] # NoWaiter /\ waiter[u].asked = s.keys THEN NoWaiter ELSE waiter[u]
  BY <1>a, <1>b DEF AnswerStored, UpdateRunning, Fenced, Release, TypeOK, Running
<1>7. ~Waits(u)'
  BY <1>3, <1>4, <1>6 DEF Waits
<1>8. \A t \in Tasks : waiter'[t] = NoWaiter \/ waiter'[t] = waiter[t]
  BY <1>5, <1>6
<1>9. work[u] = "storing" => waiter'[u] = waiter[u]
  <2> SUFFICES ASSUME work[u] = "storing", waiter[u] # NoWaiter PROVE waiter[u].asked # s.keys
    BY <1>6
  <2>1. waiter[u].asked # {} /\ waiter[u].asked \cap issued[u] = {}
    BY <1>2 DEF Questions, AskedOf
  <2> QED BY <2>1, <1>3
<1>10. Questions'
  <2> SUFFICES ASSUME NEW t \in Tasks PROVE AskedOf(t)'
    BY DEF Questions
  <2>0. AskedOf(t)
    BY DEF Questions
  <2>1. CASE t # u
    BY <2>0, <2>1, <1>4, <1>5 DEF AskedOf, Quiet, Waits
  <2>2. CASE t = u
    BY <2>0, <2>2, <1>4, <1>6, <1>7, <1>8, <1>9 DEF AskedOf, Quiet
  <2> QED BY <2>1, <2>2
<1>11. Answers'
  <2> SUFFICES ASSUME NEW e \in Instances, NEW x \in Statements, Has(e, x)'
               PROVE  (/\ x.op # "status"
                       /\ x.op = "input" /\ waiter[x.task] # NoWaiter => x.keys = waiter[x.task].asked
                       /\ x.op = "partial" =>
                            /\ home[x.task] = e /\ (Quiet(x.task) => Waits(x.task))
                            /\ Waits(x.task) => waiter[x.task].outstanding \subseteq x.keys /\ x.keys # {}
                       /\ x.op = "answer" =>
                            /\ home[x.task] = e /\ x.keys \subseteq issued[x.task]
                            /\ Waits(x.task) =>
                                 x.keys = waiter[x.task].asked /\ waiter[x.task].outstanding = {})'
    BY DEF Answers
  <2>1. Has(e, x) /\ (e = d => Before(d, s, x))
    BY <1>1, <1>a DEF Takes
  <2>2. x.op # "recover" => x.task \in Tasks
    BY Fields
  <2>3. x.op = "partial" => x.task # u
    BY <2>1, <1>2, <1>3 DEF Answers, Sequenced
  <2>4. x.op = "partial" => Quiet(x.task)' = Quiet(x.task) /\ waiter'[x.task] = waiter[x.task]
    BY <2>2, <2>3, <1>4, <1>5 DEF Quiet
  <2>5. x.op # "status" /\ (x.op = "input" /\ waiter'[x.task] # NoWaiter => x.keys = waiter'[x.task].asked)
    BY <2>1, <2>2, <1>8 DEF Answers
  <2>6. x.op = "partial" =>
           /\ home'[x.task] = e /\ (Quiet(x.task)' => Waits(x.task)')
           /\ Waits(x.task)' => waiter'[x.task].outstanding \subseteq x.keys /\ x.keys # {}
    BY <2>1, <2>4, <1>4 DEF Answers, Waits
  <2>7. x.op = "answer" =>
           /\ home'[x.task] = e /\ x.keys \subseteq issued'[x.task]
           /\ Waits(x.task)' => x.keys = waiter'[x.task].asked /\ waiter'[x.task].outstanding = {}
    BY <2>1, <2>2, <1>4, <1>8 DEF Answers, Waits
  <2> QED BY <2>5, <2>6, <2>7
<1>12. Sequenced'
  BY <1>1 DEF Takes, Sequenced
<1> QED BY <1>10, <1>11, <1>12

\* Nobody waits in a settled task.
LEMMA SettledAsked ==
  ASSUME Asked, NEW d \in Instances, Settled(d)
  PROVE  (Questions /\ Answers /\ Sequenced)'
<1> USE DEF Asked, Inv1, Inv2, Settled, HeadIs, SettleRow, Fenced, RejectWaiter, rowVars,
            createVars, handleVars, boundVars
<1>1. Takes(d, {})
  BY Pops
<1>2. Questions'
  <2> DEFINE u == Head(queue[d]).task
  <2>1. u \in Tasks
    BY <1>1, Fields DEF Takes
  <2>2. /\ alive' = alive /\ home' = home /\ issued' = issued /\ cancelRequested' = cancelRequested
        /\ \A t \in Tasks : t # u => /\ status'[t] = status[t] /\ requests'[t] = requests[t]
                                     /\ waiter'[t] = waiter[t] /\ work'[t] = work[t]
                                     /\ settled'[t] = settled[t]
        /\ waiter'[u] = NoWaiter /\ settled'[u]
    BY <2>1 DEF TypeOK
  <2> HIDE DEF u
  <2> SUFFICES ASSUME NEW t \in Tasks PROVE AskedOf(t)'
    BY DEF Questions
  <2>3. AskedOf(t)
    BY DEF Questions
  <2>4. CASE t # u
    BY <2>2, <2>3, <2>4 DEF AskedOf, Quiet, Waits
  <2>5. CASE t = u
    BY <2>2, <2>5 DEF AskedOf, Quiet, Waits
  <2> QED BY <2>4, <2>5
<1>3. Answers'
  BY <1>1, Fields, SMTT(30) DEF TypeOK, Takes, Answers, Quiet, Waits
<1>4. Sequenced'
  BY <1>1 DEF Takes, Sequenced
<1> QED BY <1>2, <1>3, <1>4

\* A row cancelled in the table is no live instance's.
LEMMA DirectStoredAsked ==
  ASSUME Asked, NEW d \in Instances, DirectStored(d)
  PROVE  (Questions /\ Answers /\ Sequenced)'
<1> USE DEF Asked, Inv1, Inv2, DirectStored, HeadIs, SettleRow, Fenced, rowVars, createVars,
            handleVars, boundVars
<1>1. Takes(d, {})
  BY Pops
<1>2. Questions'
  BY <1>1, Fields DEF TypeOK, Takes, RowsFollow, QueuesFollow, Questions, AskedOf, Answers,
       SettledIsStored, LiveRows, OneAlive, Quiet, Waits, Running, Terminal
<1>3. Answers'
  BY <1>1, Fields, BeforeHas DEF TypeOK, Takes, RowsFollow, QueuesFollow, Questions, AskedOf, Answers,
       Sequenced, Quiet, Waits, Running, Terminal
<1>4. Sequenced'
  BY <1>1 DEF Takes, Sequenced
<1> QED BY <1>2, <1>3, <1>4

\* Recovery leaves the rows of the live instance.
LEMMA RecoveredAsked ==
  ASSUME Asked, NEW d \in Instances, Recovered(d)
  PROVE  (Questions /\ Answers /\ Sequenced)'
<1> USE DEF Asked, Inv1, Inv2, Recovered, HeadIs, Interrupted, rowVars, createVars, handleVars,
            boundVars
<1>1. Takes(d, {})
  BY Pops
<1>2. Questions'
  BY <1>1, Fields DEF TypeOK, Takes, RowsFollow, QueuesFollow, Questions, AskedOf, Answers,
       SettledIsStored, LiveRows, OneAlive, Quiet, Waits, Running, Terminal
<1>3. Answers'
  BY <1>1, Fields, BeforeHas DEF TypeOK, Takes, RowsFollow, QueuesFollow, Questions, AskedOf, Answers,
       Sequenced, Quiet, Waits, Running, Terminal
<1>4. Sequenced'
  BY <1>1 DEF Takes, Sequenced
<1> QED BY <1>2, <1>3, <1>4

\* A new instance has no tasks.
LEMMA StartAsked ==
  ASSUME Asked, NEW d \in Instances, Start(d)
  PROVE  (Questions /\ Answers /\ Sequenced)'
<1> USE DEF Asked, Inv1, Inv2, Start, rowVars, createVars, handleVars, boundVars
<1>1. /\ \A e, x : Has(e, x)' <=> Has(e, x)
      /\ \A e, x, y : Before(e, x, y)' <=> Before(e, x, y)
  BY DEF Has, Before
<1>2. Questions'
  BY <1>1, Fields DEF TypeOK, RowsFollow, QueuesFollow, Questions, AskedOf, Answers, SettledIsStored,
       LiveRows, OneAlive, Quiet, Waits, Running, Terminal
<1>3. Answers'
  BY <1>1, Fields, BeforeHas DEF TypeOK, RowsFollow, QueuesFollow, Questions, AskedOf, Answers, Sequenced,
       Quiet, Waits, Running, Terminal
<1>4. Sequenced'
  BY <1>1, Fields DEF TypeOK, QueuesFollow, Questions, Answers, Sequenced
<1> QED BY <1>2, <1>3, <1>4

\* Expiry is not read by the work.
LEMMA ExpireAsked ==
  ASSUME Asked, NEW t \in Tasks, Expire(t)
  PROVE  (Questions /\ Answers /\ Sequenced)'
<1> USE DEF Asked, Inv1, Inv2, Expire, rowVars, createVars, handleVars, boundVars
<1>1. /\ \A e, x : Has(e, x)' <=> Has(e, x)
      /\ \A e, x, y : Before(e, x, y)' <=> Before(e, x, y)
  BY DEF Has, Before
<1>2. Questions'
  BY <1>1, Fields DEF TypeOK, RowsFollow, QueuesFollow, Questions, AskedOf, Answers, SettledIsStored,
       LiveRows, OneAlive, Quiet, Waits, Running, Terminal
<1>3. Answers'
  BY <1>1, Fields, BeforeHas DEF TypeOK, RowsFollow, QueuesFollow, Questions, AskedOf, Answers, Sequenced,
       Quiet, Waits, Running, Terminal
<1>4. Sequenced'
  BY <1>1, Fields DEF TypeOK, QueuesFollow, Questions, Answers, Sequenced
<1> QED BY <1>2, <1>3, <1>4

\* Work goes on when its wait is over.
LEMMA ResumeAsked ==
  ASSUME Asked, NEW t \in Tasks, Resume(t)
  PROVE  (Questions /\ Answers /\ Sequenced)'
<1> USE DEF Asked, Inv1, Inv2, Resume, rowVars, createVars, handleVars, boundVars
<1>1. /\ \A e, x : Has(e, x)' <=> Has(e, x)
      /\ \A e, x, y : Before(e, x, y)' <=> Before(e, x, y)
  BY DEF Has, Before
<1>2. Questions'
  BY <1>1, Fields DEF TypeOK, RowsFollow, QueuesFollow, Questions, AskedOf, Answers, SettledIsStored,
       LiveRows, OneAlive, Quiet, Waits, Running, Terminal
<1>3. Answers'
  BY <1>1, Fields, BeforeHas DEF TypeOK, RowsFollow, QueuesFollow, Questions, AskedOf, Answers, Sequenced,
       Quiet, Waits, Running, Terminal
<1>4. Sequenced'
  BY <1>1, Fields DEF TypeOK, QueuesFollow, Questions, Answers, Sequenced
<1> QED BY <1>2, <1>3, <1>4

\* A crash takes the statements of its instance.
LEMMA CrashAsked ==
  ASSUME Asked, NEW d \in Instances, Crash(d)
  PROVE  (Questions /\ Answers /\ Sequenced)'
<1> USE DEF Asked, Inv1, Inv2, Crash, rowVars, createVars, handleVars, boundVars
<1>1. /\ \A e \in Instances : \A x : Has(e, x)' => Has(e, x) /\ e # d
      /\ \A e \in Instances : \A x, y : Before(e, x, y)' => Before(e, x, y)
  BY DEF Has, Before, TypeOK
<1>2. Questions'
  BY <1>1, Fields DEF TypeOK, RowsFollow, QueuesFollow, Questions, AskedOf, Answers, SettledIsStored,
       LiveRows, OneAlive, Quiet, Waits, Running, Terminal
<1>3. Answers'
  BY <1>1, Fields, BeforeHas DEF TypeOK, RowsFollow, QueuesFollow, Questions, AskedOf, Answers, Sequenced,
       Quiet, Waits, Running, Terminal
<1>4. Sequenced'
  BY <1>1, Fields DEF TypeOK, QueuesFollow, Questions, Answers, Sequenced
<1> QED BY <1>2, <1>3, <1>4

\* A new task asks nothing.
LEMMA CreateAsked ==
  ASSUME Asked, NEW t \in Tasks, NEW d \in Instances, Create(t, d)
  PROVE  (Questions /\ Answers /\ Sequenced)'
<1> USE DEF Asked, Inv1, Inv2, Create, rowVars, createVars, handleVars, boundVars
<1>1. /\ Grows(d, {[op |-> "insert", task |-> t], [op |-> "recover"]})
      /\ [op |-> "insert", task |-> t] \in Statements
  BY CreateGrows
<1>2. Questions'
  BY <1>1, Fields DEF TypeOK, Grows, RowsFollow, QueuesFollow, Questions, AskedOf, Answers,
       SettledIsStored, LiveRows, OneAlive, Quiet, Waits, Running, Terminal
<1>3. Answers'
  BY <1>1, Fields, BeforeHas DEF TypeOK, Grows, RowsFollow, QueuesFollow, Questions, AskedOf, Answers,
       Sequenced, Quiet, Waits, Running, Terminal
<1>4. Sequenced'
  BY <1>1 DEF Grows, Sequenced
<1> QED BY <1>2, <1>3, <1>4

\* A call is read later.
LEMMA CallAsked ==
  ASSUME Asked, NEW t \in Tasks, NEW d \in Instances, NEW s \in Statements, s.op \in {"update",
         "cancel"}, s.task = t, Call(t, d, s)
  PROVE  (Questions /\ Answers /\ Sequenced)'
<1> USE DEF Asked, Inv1, Inv2, Call, rowVars, createVars, handleVars, boundVars
<1>1. Grows(d, {s, [op |-> "recover"]})
  BY Pushes
<1>2. Questions'
  BY <1>1, Fields DEF TypeOK, Grows, RowsFollow, QueuesFollow, Questions, AskedOf, Answers,
       SettledIsStored, LiveRows, OneAlive, Quiet, Waits, Running, Terminal
<1>3. Answers'
  BY <1>1, Fields, BeforeHas DEF TypeOK, Grows, RowsFollow, QueuesFollow, Questions, AskedOf, Answers,
       Sequenced, Quiet, Waits, Running, Terminal
<1>4. Sequenced'
  BY <1>1 DEF Grows, Sequenced
<1> QED BY <1>2, <1>3, <1>4

\* New questions follow every statement about the earlier ones.
LEMMA RequestInputAsked ==
  ASSUME Asked, NEW t \in Tasks, NEW ks \in SUBSET Keys, RequestInput(t, ks)
  PROVE  (Questions /\ Answers /\ Sequenced)'
<1> USE DEF Asked, Inv1, Inv2, RequestInput, rowVars, createVars, handleVars, boundVars
<1>1. PICK x \in Statements : /\ x.op = "input" /\ x.task = t /\ x.keys = ks /\ Grows(home[t], {x})
                              /\ [asked |-> ks, outstanding |-> ks] \in Waiters
  BY RequestInputGrows
<1>2. Questions'
  <2> DEFINE w == [asked |-> ks, outstanding |-> ks]
  <2>1. w # NoWaiter /\ w.asked = ks /\ w.outstanding = ks
    BY <1>1, TasksAssumption
  <2>2. waiter' = [waiter EXCEPT ![t] = w]
    OBVIOUS
  <2> HIDE DEF w
  <2>3. Quiet(t) /\ ~Waits(t) /\ work'[t] = "storing" /\ waiter'[t] = w
    BY <2>2 DEF Quiet, Waits, TypeOK
  <2>4. \A u \in Tasks : u # t => work'[u] = work[u] /\ waiter'[u] = waiter[u]
    BY <2>2 DEF TypeOK
  <2> QED BY <2>1, <2>3, <2>4 DEF Questions, AskedOf, Quiet, Waits
<1>3. Answers'
  BY <1>1, Fields, BeforeHas DEF TypeOK, Grows, RowsFollow, QueuesFollow, Questions, AskedOf, Answers,
       Sequenced, Quiet, Waits, Running, Terminal
<1>4. Sequenced'
  BY <1>1 DEF Grows, Sequenced
<1> QED BY <1>2, <1>3, <1>4

\* Work that ends does not wait.
LEMMA WorkEndsAsked ==
  ASSUME Asked, NEW t \in Tasks, NEW ok \in BOOLEAN, NEW thrown \in BOOLEAN, WorkEnds(t, ok, thrown)
  PROVE  (Questions /\ Answers /\ Sequenced)'
<1> USE DEF Asked, Inv1, Inv2, WorkEnds, rowVars, createVars, handleVars, boundVars
<1>1. PICK N \in SUBSET Statements : /\ Grows(home[t], N)
                                     /\ \A x \in N : x.op = "settle" /\ x.task = t
  BY WorkEndsGrows
<1>2. Questions'
  BY <1>1, Fields DEF TypeOK, Grows, RowsFollow, QueuesFollow, Questions, AskedOf, Answers,
       SettledIsStored, LiveRows, OneAlive, Quiet, Waits, Running, Terminal
<1>3. Answers'
  BY <1>1, Fields, BeforeHas DEF TypeOK, Grows, RowsFollow, QueuesFollow, Questions, AskedOf, Answers,
       Sequenced, Quiet, Waits, Running, Terminal
<1>4. Sequenced'
  BY <1>1 DEF Grows, Sequenced
<1> QED BY <1>2, <1>3, <1>4

\* The answers of an update leave the wait and the statement that stores them in step.
LEMMA UpdateReadAsked ==
  ASSUME Asked, NEW d \in Instances, UpdateRead(d)
  PROVE  (Questions /\ Answers /\ Sequenced)'
<1> USE DEF Asked, Inv1, Inv2
<1> DEFINE t == Head(queue[d]).task
<1>1. UNCHANGED <<rowVars, alive, createVars, work, issued, cancelRequested, settled>>
  BY DEF UpdateRead
<1> USE DEF rowVars, createVars
<1>2. t \in Tasks
  BY HeadQueued, Fields DEF UpdateRead, HeadIs
<1>3. CASE Takes(d, {}) /\ UNCHANGED waiter
  <2>1. /\ \A e \in Instances, x \in Statements : Has(e, x)' => Has(e, x)
        /\ \A e \in Instances, x, y \in Statements : Before(e, x, y)' => Before(e, x, y)
    BY <1>3 DEF Takes
  <2>2. \A u : (Quiet(u)' <=> Quiet(u)) /\ (Waits(u)' <=> Waits(u))
    BY <1>1, <1>3 DEF Quiet, Waits
  <2>3. Questions' /\ Sequenced'
    BY <1>1, <1>3, <2>1, <2>2 DEF Questions, AskedOf, Sequenced
  <2>4. Answers'
    BY <1>1, <1>3, <2>1, <2>2 DEF Answers
  <2> QED BY <2>3, <2>4
<1>4. ASSUME NEW z \in Statements, UpdateTakes(d, t, z)
      PROVE  (Questions /\ Answers /\ Sequenced)'
  <2> HIDE DEF t
  <2>1. /\ home[t] = d /\ d \in alive /\ Waits(t) /\ waiter'[t] # NoWaiter
        /\ waiter[t].asked \subseteq issued[t] /\ waiter[t].outstanding \subseteq requests[t]
    BY <1>2, <1>4 DEF UpdateTakes, HasHandle, Questions, AskedOf, Quiet, SettledIsStored, Waits
  <2>2. Questions'
    BY <1>1, <1>2, <1>4, <2>1 DEF UpdateTakes, Questions, AskedOf, Quiet, Waits
  <2>3. /\ z.op = "partial" => waiter'[t].outstanding \subseteq z.keys /\ z.keys # {}
        /\ z.op = "answer" => z.keys = waiter'[t].asked /\ waiter'[t].outstanding = {}
                              /\ z.keys \subseteq issued[t]
        /\ z.op \in {"partial", "answer"} /\ z.task = t
    BY <1>4, <2>1 DEF UpdateTakes
  <2>4. Answers'
    <3> SUFFICES ASSUME NEW e \in Instances, NEW x \in Statements, Has(e, x)'
                 PROVE  /\ x.op # "status"
                        /\ x.op = "input" /\ waiter'[x.task] # NoWaiter => x.keys = waiter'[x.task].asked
                        /\ x.op = "partial" =>
                             /\ home'[x.task] = e /\ (Quiet(x.task)' => Waits(x.task)')
                             /\ Waits(x.task)' =>
                                  waiter'[x.task].outstanding \subseteq x.keys /\ x.keys # {}
                        /\ x.op = "answer" =>
                             /\ home'[x.task] = e /\ x.keys \subseteq issued'[x.task]
                             /\ Waits(x.task)' =>
                                  x.keys = waiter'[x.task].asked /\ waiter'[x.task].outstanding = {}
      BY DEF Answers
    <3>1. CASE x = z /\ e = d
      BY <3>1, <1>1, <1>2, <2>1, <2>3 DEF Waits, Quiet
    <3>2. CASE Has(e, x)
      BY <3>2, <1>1, <1>2, <1>4, <2>1, Fields DEF Answers, UpdateTakes, Waits, Quiet
    <3> QED BY <3>1, <3>2, <1>4 DEF UpdateTakes, Takes
  <2>5. \A x \in Statements : Has(d, x) /\ x.op = "input" => x.task # t
    BY <2>1 DEF QueuesFollow, Waits
  <2>6. \A x \in Statements : z.op = "partial" /\ Has(d, x) /\ x.op = "answer" => x.task # t
    BY <1>4, <2>1 DEF Answers, UpdateTakes
  <2>7. Sequenced'
    BY <1>4, <2>3, <2>5, <2>6 DEF UpdateTakes, Takes, Sequenced
  <2> QED BY <2>2, <2>4, <2>7
<1> QED BY <1>3, <1>4, UpdateReads

\* A cancelled task asks no more.
LEMMA CancelReadAsked ==
  ASSUME Asked, NEW d \in Instances, CancelRead(d)
  PROVE  (Questions /\ Answers /\ Sequenced)'
<1> USE DEF Asked, Inv1, Inv2
<1> DEFINE t == Head(queue[d]).task
<1>1. PICK N \in SUBSET Statements : Takes(d, N) /\ CancelTakes(d, t, N)
  BY CancelReads
<1>2. UNCHANGED <<rowVars, alive, createVars, work>>
  BY DEF CancelRead
<1>3. t \in Tasks
  BY HeadQueued, Fields DEF CancelRead, HeadIs
<1> HIDE DEF t
<1> USE DEF rowVars, createVars
<1>4. /\ UNCHANGED <<issued, settled>> /\ \A x \in N : x.op \in {"direct", "settle"}
      /\ \A u \in Tasks : /\ cancelRequested[u] => cancelRequested'[u]
                          /\ \/ waiter'[u] = waiter[u] /\ cancelRequested'[u] = cancelRequested[u]
                             \/ waiter'[u] = NoWaiter /\ cancelRequested'[u]
  BY <1>1, <1>3 DEF CancelTakes, RejectWaiter, handleVars, TypeOK
<1>5. Questions'
  BY <1>2, <1>4 DEF Questions, AskedOf, Quiet, Waits
<1>6. Answers'
  <2>1. \A e \in Instances, x \in Statements :
          Has(e, x)' /\ x.op \in {"status", "input", "partial", "answer"} => Has(e, x)
    BY <1>1, <1>4 DEF Takes
  <2>2. \A u \in Tasks : /\ Quiet(u)' => Quiet(u)
                         /\ Waits(u)' => Waits(u) /\ waiter'[u] = waiter[u]
                         /\ Quiet(u)' /\ Waits(u) => Waits(u)'
    BY <1>2, <1>4 DEF Quiet, Waits
  <2>3. \A u \in Tasks : waiter'[u] # NoWaiter => waiter'[u] = waiter[u]
    BY <1>4
  <2> QED BY <1>2, <2>1, <2>2, <2>3, <1>4, Fields DEF Answers
<1>7. Sequenced'
  BY <1>1, <1>4 DEF Takes, Sequenced
<1> QED BY <1>5, <1>6, <1>7

\* A statement that fails changes no row; questions that were not stored are not waited for.
LEMMA StatementFailsAsked ==
  ASSUME Asked, NEW d \in Instances, StatementFails(d)
  PROVE  (Questions /\ Answers /\ Sequenced)'
<1> USE DEF Asked, Inv1, Inv2
<1> DEFINE h == Head(queue[d])
<1>1. PICK N \in SUBSET Statements : Takes(d, N) /\ FailTakes(h, d, N)
  BY Failures
<1>2. UNCHANGED <<rowVars, alive, createVars, issued, cancelRequested, settled>> /\ queue[d] # <<>>
  BY DEF StatementFails, handleVars
<1>3. /\ h \in Statements /\ Has(d, h) /\ (h.op # "recover" => h.task \in Tasks)
      /\ h.op \in {"recover", "insert", "cancel", "direct", "input", "update", "partial",
                   "answer", "status", "settle"}
  BY <1>2, HeadQueued, Fields
<1> HIDE DEF h
<1> USE DEF rowVars, createVars
<1>4. \A u \in Tasks :
        \/ work'[u] = work[u] /\ waiter'[u] = waiter[u]
        \/ waiter'[u] = NoWaiter /\ work'[u] \in {"running", "over", "falling"} /\ ~Waits(u)
  BY <1>1, <1>3 DEF FailTakes, TypeOK, RowsFollow, QueuesFollow, Waits
<1>5. \A x \in N : x.op = "settle"
  BY <1>1 DEF FailTakes
<1>6. Questions'
  BY <1>2, <1>4 DEF Questions, AskedOf, Quiet, Waits
<1>7. Answers'
  <2>1. \A e \in Instances, x \in Statements :
          Has(e, x)' /\ x.op \in {"status", "input", "partial", "answer"} => Has(e, x)
    BY <1>1, <1>5 DEF Takes
  <2>2. \A u \in Tasks : /\ Quiet(u)' => Quiet(u)
                         /\ Waits(u)' => Waits(u) /\ waiter'[u] = waiter[u]
                         /\ Quiet(u)' /\ Waits(u) => Waits(u)'
    BY <1>2, <1>4 DEF Quiet, Waits
  <2>3. \A u \in Tasks : waiter'[u] # NoWaiter => waiter'[u] = waiter[u]
    BY <1>4
  <2> QED BY <1>2, <2>1, <2>2, <2>3, <1>4, Fields DEF Answers
<1>8. Sequenced'
  BY <1>1, <1>5 DEF Takes, Sequenced
<1> QED BY <1>6, <1>7, <1>8

\* Every step keeps questions and answers in step, as long as no progress is reported.
LEMMA Inv3Inductive ==
  ASSUME Inv1, Inv2, Inv3, [Next]_vars
  PROVE  Inv3'
<1> SUFFICES ASSUME reports' = 0
             PROVE  (Questions /\ Answers /\ Sequenced)'
  BY DEF Inv3
<1>1. reports = 0 /\ \A t \in Tasks : ~Progress(t)
  <2>1. \A t \in Tasks : Progress(t) => reports' = reports + 1
    BY DEF Progress
  <2>2. reports \in Nat
    BY TasksAssumption DEF Inv1, TypeOK
  <2>3. reports' = reports \/ \E t \in Tasks : Progress(t)
    BY ZenonT(60) DEF Next, vars, boundVars, Start, Crash, StatementFails, Create, Cancel, Update, Call,
         Expire,
           Resume, End, WorkEnds, RequestInput, Stored, Recovered, Inserted, InputStored,
           StatusStored, Settled, UpdateRead, PartialStored, AnswerStored, CancelRead, DirectStored
  <2> QED BY <2>1, <2>2, <2>3
<1>2. Asked
  BY <1>1 DEF Asked, Inv3
<1>3. ASSUME NEW d \in Instances, StatusStored(d)
      PROVE  FALSE
  <2>1. Head(queue[d]) \in Statements /\ Has(d, Head(queue[d])) /\ Head(queue[d]).op = "status"
    BY <1>3, HeadQueued DEF StatusStored, HeadIs, Inv1
  <2> QED BY <2>1, <1>2 DEF Asked, Answers
<1>4. ASSUME NEW d \in Instances, Start(d) \/ Crash(d) \/ Stored(d) \/ StatementFails(d)
      PROVE  (Questions /\ Answers /\ Sequenced)'
  BY <1>2, <1>3, <1>4, StartAsked, CrashAsked, StatementFailsAsked, RecoveredAsked, InsertedAsked,
     InputStoredAsked, SettledAsked, UpdateReadAsked, PartialStoredAsked, AnswerStoredAsked,
     CancelReadAsked, DirectStoredAsked DEF Stored
<1>5. ASSUME NEW t \in Tasks, NEW d \in Instances,
             Create(t, d) \/ Cancel(t, d) \/ \E ks \in SUBSET Keys : Update(t, d, ks)
      PROVE  (Questions /\ Answers /\ Sequenced)'
  <2>1. CASE Create(t, d)
    BY <2>1, <1>2, CreateAsked
  <2>2. CASE Cancel(t, d)
    <3> DEFINE s == [op |-> "cancel", task |-> t]
    <3>1. s \in Statements /\ s.op = "cancel" /\ s.task = t /\ Call(t, d, s)
      BY <2>2 DEF Statements, Cancel
    <3> HIDE DEF s
    <3> QED BY <3>1, <1>2, CallAsked
  <2>3. ASSUME NEW ks \in SUBSET Keys, Update(t, d, ks)
        PROVE  (Questions /\ Answers /\ Sequenced)'
    <3> DEFINE s == [op |-> "update", task |-> t, keys |-> ks]
    <3>1. s \in Statements /\ s.op = "update" /\ s.task = t /\ Call(t, d, s)
      BY <2>3 DEF Statements, Update
    <3> HIDE DEF s
    <3> QED BY <3>1, <1>2, CallAsked
  <2> QED BY <1>5, <2>1, <2>2, <2>3
<1>6. ASSUME NEW t \in Tasks, Expire(t) \/ Resume(t) \/ End(t)
                              \/ \E ks \in SUBSET Keys : RequestInput(t, ks)
      PROVE  (Questions /\ Answers /\ Sequenced)'
  BY <1>2, <1>6, ExpireAsked, ResumeAsked, WorkEndsAsked, RequestInputAsked DEF End
<1>7. CASE UNCHANGED vars
  BY <1>2, <1>7 DEF vars, rowVars, createVars, handleVars, Asked, Questions, AskedOf, Answers, Sequenced,
                    Quiet, Waits, Has, Before
<1> QED BY <1>1, <1>4, <1>5, <1>6, <1>7 DEF Next

\* With one live instance at a time and no progress reports, tasks/get shows every open
\* question of work that waits for answers, whenever no statement is under way: whatever
\* updates and cancellations arrived, were delayed in the queue or failed.
THEOREM QuestionsAreAnswerable ==
  ASSUME ~Peers PROVE Spec => []QuestionsAnswerable
<1>1. Init => IInv
  <2> SUFFICES ASSUME Init PROVE Questions /\ Answers /\ Sequenced
    BY Inv1Initial, Inv2Initial DEF IInv, Inv3
  <2>1. \A d \in Instances : \A x, y : ~Has(d, x) /\ ~Before(d, x, y)
    BY DEF Init, Has, Before
  <2> QED BY <2>1 DEF Init, Questions, AskedOf, Answers, Sequenced, Quiet, Waits
<1>2. IInv /\ [Next]_vars => IInv'
  BY Inv1Inductive, Inv2Inductive, Inv3Inductive DEF IInv
<1>3. IInv => QuestionsAnswerable
  BY DEF IInv, Inv1, RowsFollow, Inv3, Questions, AskedOf, Waits, QuestionsAnswerable, Idle
<1> QED BY <1>1, <1>2, <1>3, PTL DEF Spec
=============================================================================
