------------------------ MODULE TerminalRelease_proofs ------------------------
(***************************************************************************)
(* A release that freed its device survives every crash, for any number of *)
(* daemons after each other, any sessions and any number of failing        *)
(* appends and compactions.  One daemon may start beside the first.        *)
(*                                                                         *)
(* IntentKept is not inductive: that an intent of an ended session is in   *)
(* some file says nothing of who will read the file.  The invariant        *)
(* follows it: after a crash the intent is in a file that the next daemon  *)
(* adopts before it serves a session (AdoptedBy), or that the survivor     *)
(* reads before it takes a session over (BesideFirst); it leaves that file *)
(* only once another has it, or once the row is written (RecoveredBy,      *)
(* ServedBy).                                                              *)
(***************************************************************************)
EXTENDS TerminalRelease, TLAPS

\* The files of a dead daemon are adopted or read completely: no adoption or removal fails and
\* no append leaves a part of its line.  One daemon at most runs beside another, and it
\* starts when that one is up: the first two.
Dependable == Faults \subseteq {"append", "compact"} /\ Overlap \subseteq {2}

-----------------------------------------------------------------------------
(* The inductive invariant *)

\* No file ends in a part of a line.
Whole == torn = [d \in Daemons |-> FALSE]

Typed == TypeOK /\ Whole

\* Daemons start in order, each alone but for the second, which lists the first if it runs.
Order ==
  /\ life[1] \in {"up", "dead"}
  /\ \A x, y \in Daemons : x < y /\ life[x] = "new" => life[y] = "new"
  /\ \A x \in Live, y \in Daemons : x < y /\ life[y] # "new" => x = 1 /\ y = 2
  /\ \A d \in Daemons : listed[d] = {} \/ (d = 2 /\ listed[d] = {1} /\ life[1] # "new")
  /\ \A d \in Daemons : life[1] = "up" /\ d \in Live /\ d # 1 => listed[d] = {1}

\* Only a running daemon has memory of sessions, only an adopting one has journals to adopt.
Memory ==
  /\ \A d \in Daemons : \A x \in readOf[d] : life[x] = "dead"
  /\ \A d \in Daemons : life[d] # "up" =>
       cache[d] = {} /\ readOf[d] = {} /\ \A s \in Sessions : recovered[d][s] = NoFile /\ rel[d][s] = "none"
  /\ \A d \in Daemons : life[d] # "adopting" => todo[d] = {}
  /\ \A d \in Daemons : copied[d] \subseteq todo[d] /\ d \notin todo[d]
  /\ \A d \in Daemons : life[d] = "new" => disk[d] = {} /\ \A s \in Sessions : row[s].owner # d

\* While the first daemon runs the sessions are all its own, and nobody else has a word on them.
First ==
  life[1] = "up" =>
    /\ \A s \in Sessions : row[s].owner = 1
    /\ \A d \in Daemons, s \in Sessions : recovered[d][s] = NoFile
    /\ \A d \in Daemons \ {1} :
         disk[d] = {} /\ cache[d] = {} /\ todo[d] = {} /\ \A s \in Sessions : rel[d][s] = "none"

\* A daemon that listed nobody takes every journal over before it serves a session.
AdoptedBy(d) ==
  d # 1 /\ listed[d] = {} =>
    /\ life[d] = "adopting" => \A x \in Daemons \ {d} : disk[x] # {} => x \in todo[d]
    /\ life[d] = "adopting" => \A x \in copied[d] : x # d /\ disk[x] \subseteq disk[d]
    /\ life[d] = "up" => \A x \in Daemons \ {d} : disk[x] = {}

\* The daemon beside the first takes over none of its sessions before it read the journal,
\* and of those in the journal, none at all.
BesideFirst(d) ==
  d \in Live /\ listed[d] = {1} =>
    /\ todo[d] = {}
    /\ life[d] # "up" => disk[d] = {}
    /\ \A s \in Sessions : recovered[d][s] # d
    /\ 1 \notin readOf[d] =>
         \A s \in Sessions : row[s].owner = 1 /\ rel[d][s] = "none" /\ recovered[d][s] = NoFile
    /\ 1 \in readOf[d] => \A s \in disk[1] : row[s].ended \/ recovered[d][s] = 1

\* What a daemon recovered it still has to settle: the intent is on disk and nobody serves
\* the session.
RecoveredBy(d, s) ==
  recovered[d][s] # NoFile =>
    \/ recovered[d][s] = d /\ s \in cache[d] /\ rel[d][s] = "none"
    \/ /\ recovered[d][s] = 1 /\ listed[d] = {1} /\ life[1] = "dead" /\ 1 \in readOf[d]
       /\ s \in disk[1] /\ row[s].owner = 1

\* A daemon's own sessions: the row is its own, and file, memory and row agree.
ServedBy(d, s) ==
  /\ rel[d][s] # "none" => row[s].owner = d /\ \A x \in Daemons \ {d} : s \notin disk[x]
  /\ rel[d][s] \in {"live", "fenced"} => ~row[s].ended /\ s \notin ended
  /\ rel[d][s] = "live" => s \notin cache[d]
  /\ rel[d][s] = "fenced" => s \in disk[d]
  /\ rel[d][s] \in {"fenced", "volatile", "owed"} => s \in wanted
  /\ rel[d][s] = "landed" => row[s].ended
  /\ s \in cache[d] /\ rel[d][s] = "none" => row[s].ended \/ recovered[d][s] = d

PerDaemon == \A d \in Daemons : AdoptedBy(d) /\ BesideFirst(d)
PerSession == \A d \in Daemons, s \in Sessions : RecoveredBy(d, s) /\ ServedBy(d, s)

\* An intent is wanted, wherever it is, and what a running daemon has on disk it knows of.
Intents ==
  /\ \A d \in Daemons : disk[d] \subseteq wanted /\ cache[d] \subseteq wanted
  /\ \A d \in Daemons : life[d] = "up" => disk[d] \subseteq cache[d]

\* what the steps keep besides types and order
Journals == Memory /\ First /\ PerDaemon /\ PerSession /\ Intents /\ IntentKept

IInv == Typed /\ Order /\ Journals

-----------------------------------------------------------------------------
(* The journal file *)

\* Without partial lines an append adds its intents and a failed one adds nothing; a
\* compaction leaves the given intents.
LEMMA FileSteps ==
  ASSUME Dependable, Typed, NEW d \in Daemons, NEW ss \in SUBSET Sessions
  PROVE  /\ AppendIntents(d, ss) =>
              disk' = [disk EXCEPT ![d] = @ \cup ss] /\ torn' = torn /\ faults' = faults
         /\ AppendFails(d, ss) => disk' = disk /\ torn' = torn /\ faults' \in 0..MaxFaults
         /\ Compact(d, ss) => disk' = [disk EXCEPT ![d] = ss] /\ torn' = torn /\ faults' = faults
         /\ ~Fault("adopt") /\ ~Fault("remove") /\ ~Fault("torn")
<1> DEFINE none == [x \in Daemons |-> FALSE]
<1>1. torn = none /\ ~torn[d]
  BY DEF Typed, Whole
<1>2. [torn EXCEPT ![d] = FALSE] = torn /\ [torn EXCEPT ![d] = torn[d] /\ ss = {}] = torn
  BY <1>1
<1>3. ~Fault("adopt") /\ ~Fault("remove") /\ ~Fault("torn")
  BY DEF Dependable, Fault
<1>4. Fault("append") => faults' \in 0..MaxFaults
  BY JournalAssumption DEF Fault, Typed, TypeOK
<1>5. AppendIntents(d, ss) => disk' = [disk EXCEPT ![d] = @ \cup ss]
  BY <1>1 DEF AppendIntents
<1> QED BY <1>1, <1>2, <1>3, <1>4, <1>5 DEF AppendIntents, AppendFails, Compact

\* A resolution takes the intent out of memory and file, and nothing else: what was in memory
\* only may get into the file.
LEMMA Resolution ==
  ASSUME Dependable, Typed, NEW d \in Daemons, NEW s \in Sessions, Resolve(d, s), disk[d] \subseteq cache[d]
  PROVE  /\ cache' = [cache EXCEPT ![d] = @ \ {s}]
         /\ torn' = torn /\ faults' \in 0..MaxFaults
         /\ disk' = [disk EXCEPT ![d] = disk'[d]]
         /\ disk'[d] \in SUBSET cache'[d] /\ disk[d] \ {s} \subseteq disk'[d]
         /\ cache'[d] \in SUBSET Sessions
<1> USE DEF Typed, TypeOK
<1>0. torn = [x \in Daemons |-> FALSE] /\ ~torn[d]
  BY DEF Whole
<1>1. CASE s \notin cache[d]
  <2>1. UNCHANGED <<cache, disk, torn, faults>>
    BY <1>1 DEF Resolve, fileVars
  <2> QED BY <1>1, <2>1
<1>2. CASE s \in cache[d]
  <2>1. cache' = [cache EXCEPT ![d] = @ \ {s}] /\ Lift(d, s)
    BY <1>2 DEF Resolve
  <2>2. [torn EXCEPT ![d] = FALSE] = torn
    BY <1>0
  <2>3. CASE Compact(d, cache[d] \ {s})
    BY <2>1, <2>2, <2>3 DEF Compact
  <2>4. CASE Fault("compact") /\ disk' = [disk EXCEPT ![d] = IF torn[d] THEN @ ELSE @ \ {s}]
             /\ torn' = [torn EXCEPT ![d] = FALSE]
    <3>1. faults' \in 0..MaxFaults
      BY <2>4, JournalAssumption DEF Fault
    <3>2. disk' = [disk EXCEPT ![d] = @ \ {s}]
      BY <1>0, <2>4
    <3> QED BY <2>1, <2>2, <2>4, <3>1, <3>2
  <2> QED BY <2>1, <2>3, <2>4 DEF Lift
<1> QED BY <1>1, <1>2

-----------------------------------------------------------------------------
(* What the steps that touch files do under Dependable *)

\* the step files no part of a line
Plain == torn' = torn /\ faults' \in 0..MaxFaults

\* Raising a fence puts the intent into the file, or the release is volatile.
LEMMA FenceEffect ==
  ASSUME Dependable, Typed, NEW d \in Daemons, NEW s \in Sessions, Fence(d, s)
  PROVE  /\ Plain
         /\ \/ disk' = [disk EXCEPT ![d] = @ \cup {s}] /\ rel' = [rel EXCEPT ![d][s] = "fenced"]
            \/ disk' = disk /\ rel' = [rel EXCEPT ![d][s] = "volatile"]
<1>1. {s} \in SUBSET Sessions /\ faults \in 0..MaxFaults
  BY DEF Typed, TypeOK
<1>2. CASE AppendIntents(d, {s}) /\ rel' = [rel EXCEPT ![d][s] = "fenced"]
  BY <1>1, <1>2, FileSteps DEF Plain
<1>3. CASE AppendFails(d, {s}) /\ rel' = [rel EXCEPT ![d][s] = "volatile"]
  BY <1>1, <1>3, FileSteps DEF Plain
<1> QED BY <1>2, <1>3 DEF Fence

\* Adoption copies the whole file and then removes it, attaching changes no file, and a
\* journal is discarded completely.
LEMMA AdoptEffect ==
  ASSUME Dependable, Typed, NEW d \in Daemons, NEW x \in Daemons
  PROVE  /\ AdoptCopy(d, x) => /\ Plain /\ todo' = todo /\ copied' = [copied EXCEPT ![d] = @ \cup {x}]
                               /\ disk' = [disk EXCEPT ![d] = @ \cup disk[x]]
         /\ AdoptRemove(d, x) => Plain /\ disk' = [disk EXCEPT ![x] = {}]
         /\ Attach(d) => Plain /\ disk' = disk
         /\ Discard(d, x) => Plain /\ disk' = [disk EXCEPT ![x] = {}] /\ disk[x] # {}
<1>1. disk[x] \in SUBSET Sessions /\ disk[d] \in SUBSET Sessions /\ {} \in SUBSET Sessions
      /\ faults \in 0..MaxFaults /\ disk \in [Daemons -> SUBSET Sessions]
  BY DEF Typed, TypeOK
<1>2. ~torn[d] /\ ~torn[x]
  BY DEF Typed, Whole
<1>3. ASSUME AdoptCopy(d, x)
      PROVE  /\ Plain /\ todo' = todo /\ copied' = [copied EXCEPT ![d] = @ \cup {x}]
             /\ disk' = [disk EXCEPT ![d] = @ \cup disk[x]]
  <2>1. AppendIntents(d, disk[x]) /\ todo' = todo /\ copied' = [copied EXCEPT ![d] = @ \cup {x}]
    BY <1>3, FileSteps, <1>1 DEF AdoptCopy
  <2>2. disk' = [disk EXCEPT ![d] = @ \cup disk[x]] /\ torn' = torn /\ faults' = faults
    BY <1>1, <2>1, FileSteps
  <2> QED BY <1>1, <2>1, <2>2 DEF Plain
<1>4. ASSUME AdoptRemove(d, x) PROVE Plain /\ disk' = [disk EXCEPT ![x] = {}]
  <2>1. Compact(x, {})
    BY <1>4, FileSteps, <1>1 DEF AdoptRemove
  <2>2. disk' = [disk EXCEPT ![x] = {}] /\ torn' = torn /\ faults' = faults
    BY <1>1, <2>1, FileSteps
  <2> QED BY <1>1, <2>2 DEF Plain
<1>5. ASSUME Attach(d) PROVE Plain /\ disk' = disk
  <2>1. Compact(d, disk[d])
    BY <1>2, <1>5 DEF Attach
  <2>2. disk' = [disk EXCEPT ![d] = disk[d]] /\ torn' = torn /\ faults' = faults
    BY <1>1, <2>1, FileSteps
  <2> QED BY <1>1, <2>2 DEF Plain
<1>6. ASSUME Discard(d, x) PROVE Plain /\ disk' = [disk EXCEPT ![x] = {}] /\ disk[x] # {}
  <2>1. Compact(x, {}) /\ disk[x] # {}
    BY <1>2, <1>6, FileSteps, <1>1 DEF Discard
  <2>2. disk' = [disk EXCEPT ![x] = {}] /\ torn' = torn /\ faults' = faults
    BY <1>1, <2>1, FileSteps
  <2> QED BY <1>1, <2>1, <2>2 DEF Plain
<1> QED BY <1>3, <1>4, <1>5, <1>6

\* Declining, confirming and settling take one intent out of memory and file.
LEMMA ResolveEffect ==
  ASSUME Dependable, Typed, Intents, NEW d \in Daemons, NEW s \in Sessions,
         Decline(d, s) \/ Confirm(d, s) \/ SettleDone(d, s)
  PROVE  /\ Plain
         /\ cache' = [cache EXCEPT ![d] = @ \ {s}] /\ cache'[d] \in SUBSET Sessions
         /\ disk' = [disk EXCEPT ![d] = disk'[d]]
         /\ disk'[d] \in SUBSET cache'[d] /\ disk[d] \ {s} \subseteq disk'[d]
<1>1. Resolve(d, s) /\ life[d] = "up"
  BY DEF Decline, Confirm, SettleDone
<1>2. disk[d] \subseteq cache[d]
  BY <1>1 DEF Intents
<1> QED BY <1>1, <1>2, Resolution DEF Plain

-----------------------------------------------------------------------------
(* Types *)

\* Every step keeps the types, and no file ends in a part of a line.
LEMMA TypeStep == ASSUME Dependable, Typed, Intents, [Next]_vars PROVE Typed'
<1> USE DEF startVars, fileVars, memVars
<1>a. TypeOK /\ Whole /\ faults \in 0..MaxFaults
  BY DEF Typed, TypeOK
<1>b. torn' = torn => Whole' /\ torn' \in [Daemons -> BOOLEAN]
  BY <1>a DEF Whole, TypeOK
<1> SUFFICES TypeOK' /\ torn' = torn
  BY <1>b DEF Typed
<1> DEFINE Rels == [Sessions -> {"none", "live", "fenced", "volatile", "owed", "landed"}]
           Rows == [owner : Daemons, ended : BOOLEAN, swept : BOOLEAN]
<1>1. ASSUME NEW d \in Daemons, NEW s \in Sessions, Release(d, s) PROVE TypeOK' /\ torn' = torn
  <2>a. ASSUME NEW v \in {"none", "live", "fenced", "volatile", "owed", "landed"},
               rel' = [rel EXCEPT ![d][s] = v]
        PROVE  rel' \in [Daemons -> Rels]
    BY <1>a, <2>a DEF TypeOK
  <2> HIDE DEF Rels, Rows
  <2>1. CASE Fence(d, s)
    <3>1. Plain /\ disk' \in [Daemons -> SUBSET Sessions] /\ rel' \in [Daemons -> Rels]
      <4>1. disk \in [Daemons -> SUBSET Sessions] /\ disk[d] \cup {s} \in SUBSET Sessions
        BY <1>a DEF TypeOK
      <4>2. disk' \in [Daemons -> SUBSET Sessions]
        BY <2>1, <4>1, FenceEffect
      <4> QED BY <2>1, <2>a, <4>2, FenceEffect
    <3> QED BY <1>a, <1>b, <2>1, <3>1 DEF Fence, TypeOK, Plain, Rels
  <2>2. CASE Decline(d, s) \/ Confirm(d, s)
    <3>1. Plain /\ disk' \in [Daemons -> SUBSET Sessions] /\ cache' \in [Daemons -> SUBSET Sessions]
      BY <1>a, <2>2, ResolveEffect DEF TypeOK
    <3>2. rel' \in [Daemons -> Rels]
      BY <2>2, <2>a DEF Decline, Confirm
    <3> QED BY <1>a, <1>b, <2>2, <3>1, <3>2 DEF Decline, Confirm, TypeOK, Plain, Rels
  <2>3. CASE Commit(d, s) \/ TimeOut(d, s)
    <3>1. rel' \in [Daemons -> Rels]
      BY <2>3, <2>a DEF Commit, TimeOut
    <3> QED BY <1>a, <1>b, <2>3, <3>1 DEF Commit, TimeOut, TypeOK, Rels
  <2>4. CASE WriteRow(d, s)
    <3>1. rel' \in [Daemons -> Rels]
      BY <2>4, <2>a DEF WriteRow
    <3>2. row \in [Sessions -> Rows]
      BY <1>a DEF TypeOK, Rows
    <3>3. [row[s] EXCEPT !.ended = @ \/ row[s].owner = d] \in Rows
      BY <3>2 DEF Rows
    <3>4. row' = [row EXCEPT ![s] = [row[s] EXCEPT !.ended = @ \/ row[s].owner = d]]
      BY <2>4 DEF WriteRow
    <3>5. row' \in [Sessions -> Rows]
      BY <3>2, <3>3, <3>4
    <3> QED BY <1>a, <1>b, <2>4, <3>1, <3>5 DEF WriteRow, TypeOK, Rels, Rows
  <2> QED BY <1>1, <2>1, <2>2, <2>3, <2>4 DEF Release
<1>2. ASSUME NEW d \in Daemons, Startup(d) PROVE TypeOK' /\ torn' = torn
  <2>1. CASE Start(d)
    <3>1. row' \in [Sessions -> Rows]
      BY <1>a, <2>1 DEF Start, TypeOK
    <3> HIDE DEF Rows
    <3> QED BY <1>a, <1>b, <2>1, <3>1 DEF Start, TypeOK, Live, Rows
  <2>2. CASE OpenJournal(d)
    BY <1>a, <1>b, <2>2 DEF OpenJournal, TypeOK
  <2>3. CASE Attach(d)
    <3>1. Plain /\ disk' = disk
      BY <2>3, AdoptEffect
    <3>2. /\ cache' \in [Daemons -> SUBSET Sessions]
          /\ recovered' \in [Daemons -> [Sessions -> Daemons \cup {NoFile}]]
      BY <1>a, <2>3 DEF Attach, TypeOK
    <3> QED BY <1>a, <1>b, <2>3, <3>1, <3>2 DEF Attach, TypeOK, Plain
  <2>4. ASSUME NEW x \in Daemons, AdoptCopy(d, x) PROVE TypeOK' /\ torn' = torn
    <3>1. Plain /\ disk' \in [Daemons -> SUBSET Sessions] /\ todo' = todo /\ copied' \in [Daemons -> SUBSET Daemons]
      <4>1. disk \in [Daemons -> SUBSET Sessions] /\ disk[d] \cup disk[x] \in SUBSET Sessions
            /\ copied \in [Daemons -> SUBSET Daemons] /\ copied[d] \cup {x} \in SUBSET Daemons
        BY <1>a DEF TypeOK
      <4>2. Plain /\ todo' = todo /\ copied' = [copied EXCEPT ![d] = @ \cup {x}]
            /\ disk' = [disk EXCEPT ![d] = @ \cup disk[x]]
        BY <2>4, AdoptEffect
      <4> QED BY <4>1, <4>2
    <3> QED BY <1>a, <1>b, <2>4, <3>1 DEF AdoptCopy, TypeOK, Plain
  <2>5. ASSUME NEW x \in Daemons, AdoptRemove(d, x) PROVE TypeOK' /\ torn' = torn
    <3>1. Plain /\ disk' \in [Daemons -> SUBSET Sessions]
      <4>1. disk \in [Daemons -> SUBSET Sessions] /\ {} \in SUBSET Sessions
        BY <1>a DEF TypeOK
      <4>2. Plain /\ disk' = [disk EXCEPT ![x] = {}]
        BY <2>5, AdoptEffect
      <4> QED BY <4>1, <4>2
    <3> QED BY <1>a, <1>b, <2>5, <3>1 DEF AdoptRemove, TypeOK, Plain
  <2> QED BY <1>2, <2>1, <2>2, <2>3, <2>4, <2>5 DEF Startup
<1>3. ASSUME NEW d \in Daemons, Crash(d) PROVE TypeOK' /\ torn' = torn
  BY <1>a, <1>b, <1>3 DEF Crash, TypeOK
<1>4. ASSUME NEW d \in Daemons, NEW x \in Daemons, ReadDead(d, x) \/ Discard(d, x) PROVE TypeOK' /\ torn' = torn
  <2>1. CASE ReadDead(d, x)
    BY <1>a, <1>b, <2>1 DEF ReadDead, FenceDead, TypeOK
  <2>2. CASE Discard(d, x)
    <3>1. Plain /\ disk' \in [Daemons -> SUBSET Sessions]
      <4>1. disk \in [Daemons -> SUBSET Sessions] /\ {} \in SUBSET Sessions
        BY <1>a DEF TypeOK
      <4>2. Plain /\ disk' = [disk EXCEPT ![x] = {}]
        BY <2>2, AdoptEffect
      <4> QED BY <4>1, <4>2
    <3> QED BY <1>a, <1>b, <2>2, <3>1 DEF Discard, TypeOK, Plain
  <2> QED BY <1>4, <2>1, <2>2
<1>5. ASSUME NEW d \in Daemons, NEW s \in Sessions,
             SettleWrite(d, s) \/ SettleDone(d, s) \/ Rehydrate(d, s) \/ RecoverOnDemand(d, s)
      PROVE  TypeOK' /\ torn' = torn
  <2>1. CASE SettleWrite(d, s)
    <3>1. row' \in [Sessions -> Rows]
      BY <1>a, <2>1 DEF SettleWrite, TypeOK
    <3> HIDE DEF Rows
    <3> QED BY <1>a, <1>b, <2>1, <3>1 DEF SettleWrite, TypeOK, Rows
  <2>2. CASE SettleDone(d, s)
    <3>1. Plain /\ disk' \in [Daemons -> SUBSET Sessions] /\ cache' \in [Daemons -> SUBSET Sessions]
      BY <1>a, <2>2, ResolveEffect DEF TypeOK
    <3>2. recovered' \in [Daemons -> [Sessions -> Daemons \cup {NoFile}]]
      BY <1>a, <2>2 DEF SettleDone, TypeOK
    <3> QED BY <1>a, <1>b, <2>2, <3>1, <3>2 DEF SettleDone, TypeOK, Plain
  <2>3. CASE Rehydrate(d, s) \/ RecoverOnDemand(d, s)
    <3>1. Claim(d, s)
      BY <2>3 DEF Rehydrate, RecoverOnDemand
    <3>2. rel' \in [Daemons -> Rels] /\ row' \in [Sessions -> Rows]
      BY <1>a, <3>1 DEF Claim, TypeOK
    <3> HIDE DEF Rels, Rows
    <3> QED BY <1>a, <1>b, <3>1, <3>2 DEF Claim, TypeOK, Rels, Rows
  <2> QED BY <1>5, <2>1, <2>2, <2>3
<1>6. CASE UNCHANGED vars
  BY <1>a, <1>b, <1>6 DEF vars, TypeOK
<1> QED BY <1>1, <1>2, <1>3, <1>4, <1>5, <1>6 DEF Next
-----------------------------------------------------------------------------
(* Daemons *)

\* The constants in numbers.
LEMMA Numbers ==
  /\ N \in Nat /\ 1 \in Daemons /\ NoFile \notin Daemons
  /\ \A d \in Daemons : d \in Nat /\ d > 0
BY JournalAssumption DEF Daemons, NoFile

\* Daemons keep starting in order.
LEMMA OrderStep == ASSUME Dependable, TypeOK, Order, [Next]_vars PROVE Order'
<1> USE DEF startVars, fileVars, memVars
<1>1. ASSUME NEW d \in Daemons, Start(d) PROVE Order'
  <2>1. life' = [life EXCEPT ![d] = "starting"] /\ listed' = [listed EXCEPT ![d] = Live]
        /\ life[d] = "new" /\ \A x \in Daemons : x < d => life[x] # "new"
    BY <1>1 DEF Start
  <2>2. Live = {} \/ d = 2
    BY <1>1 DEF Start, Dependable
  <2>3. d # 1 /\ life'[1] = life[1] /\ life[1] # "new"
    BY <2>1, Numbers DEF Order, TypeOK
  <2>4. \A x \in Daemons : x > d => life[x] = "new"
    BY <2>1 DEF Order
  <2>5. Live = {} \/ (d = 2 /\ Live = {1})
    <3>1. SUFFICES ASSUME d = 2, NEW x \in Live PROVE x = 1
      BY <2>2, <2>3, Numbers DEF Live
    <3>2. x \in Daemons /\ life[x] # "new"
      BY <3>1 DEF Live
    <3>3. ~(x > d) /\ x # d
      BY <2>1, <2>4, <3>2
    <3> QED BY <3>1, <3>2, <3>3, Numbers
  <2>6. Live' = Live \cup {d}
    BY <2>1 DEF Live, TypeOK
  <2>7. 1 \in Live <=> life[1] = "up"
    BY Numbers DEF Live, Order
  <2>8. \A x, y \in Daemons : x < y /\ life'[x] = "new" => life'[y] = "new"
    BY <2>1, Numbers DEF Order, TypeOK
  <2>9. \A x \in Live', y \in Daemons : x < y /\ life'[y] # "new" => x = 1 /\ y = 2
    <3> SUFFICES ASSUME NEW x \in Live', NEW y \in Daemons, x < y, life'[y] # "new" PROVE x = 1 /\ y = 2
      OBVIOUS
    <3>1. CASE y = d
      BY <2>5, <2>6, <3>1, Numbers DEF Live
    <3>2. CASE y # d
      <4>1. life[y] # "new"
        BY <2>1, <3>2 DEF TypeOK
      <4>2. x \in Live
        BY <2>4, <2>6, <4>1
      <4> QED BY <4>1, <4>2 DEF Order
    <3> QED BY <3>1, <3>2
  <2>10. \A e \in Daemons : listed'[e] = {} \/ (e = 2 /\ listed'[e] = {1} /\ life'[1] # "new")
    BY <2>1, <2>3, <2>5 DEF Order, TypeOK
  <2>11. \A e \in Daemons : life'[1] = "up" /\ e \in Live' /\ e # 1 => listed'[e] = {1}
    BY <2>1, <2>3, <2>5, <2>6, <2>7 DEF Order, TypeOK
  <2> QED BY <2>3, <2>8, <2>9, <2>10, <2>11 DEF Order
<1>2. ASSUME NEW d \in Daemons, NEW v \in {"adopting", "up", "dead"},
             d \in Live, life' = [life EXCEPT ![d] = v], listed' = listed, d = 1 => v = "dead"
      PROVE  Order'
  <2>1. Live' \subseteq Live /\ \A x \in Daemons : life'[x] = "new" <=> life[x] = "new"
    BY <1>2 DEF Live, TypeOK
  <2>2. life'[1] \in {"up", "dead"} /\ (life'[1] = "up" => life[1] = "up")
    BY <1>2, Numbers DEF Order, TypeOK
  <2> QED BY <1>2, <2>1, <2>2, Numbers DEF Order
<1>3. ASSUME NEW d \in Daemons, OpenJournal(d) \/ Attach(d) \/ Crash(d) PROVE Order'
  <2>1. life[1] \in {"up", "dead"}
    BY DEF Order
  <2>2. CASE OpenJournal(d)
    BY <1>2, <2>1, <2>2 DEF OpenJournal, Live
  <2>3. CASE Attach(d)
    BY <1>2, <2>1, <2>3 DEF Attach, Live
  <2>4. CASE Crash(d)
    BY <1>2, <2>4 DEF Crash
  <2> QED BY <1>3, <2>2, <2>3, <2>4
<1>4. ASSUME life' = life, listed' = listed PROVE Order'
  BY <1>4 DEF Order, Live
<1>5. ASSUME NEW d \in Daemons, NEW x \in Daemons, AdoptCopy(d, x) \/ AdoptRemove(d, x)
      PROVE life' = life /\ listed' = listed
  BY <1>5 DEF AdoptCopy, AdoptRemove
<1>6. ASSUME NEW d \in Daemons, NEW x \in Daemons, ReadDead(d, x) \/ Discard(d, x)
      PROVE life' = life /\ listed' = listed
  BY <1>6 DEF ReadDead, Discard
<1>7. ASSUME NEW d \in Daemons, NEW s \in Sessions,
             \/ Release(d, s) \/ SettleWrite(d, s) \/ SettleDone(d, s) \/ Rehydrate(d, s) \/ RecoverOnDemand(d, s)
      PROVE life' = life /\ listed' = listed
  BY <1>7 DEF Release, Fence, Decline, Commit, TimeOut, WriteRow, Confirm, SettleWrite, SettleDone,
              Rehydrate, RecoverOnDemand, Claim
<1>8. CASE UNCHANGED vars
  BY <1>4, <1>8 DEF vars
<1> QED BY <1>1, <1>3, <1>4, <1>5, <1>6, <1>7, <1>8 DEF Next, Startup

\* Two daemons that run at the same time are the first and the one beside it.
LEMMA Pair ==
  ASSUME Order, TypeOK, NEW d \in Live, NEW e \in Live, d # e
  PROVE  life[1] = "up" /\ (d = 1 \/ e = 1)
<1>1. d \in Daemons /\ e \in Daemons /\ life[d] # "new" /\ life[e] # "new" /\ d \in Nat /\ e \in Nat
  BY Numbers DEF Live
<1>2. (d = 1 \/ e = 1) /\ 1 \in Live
  BY <1>1 DEF Order
<1> QED BY <1>2 DEF Live, Order

\* A daemon that listed nobody when it started is alone.
LEMMA Sole ==
  ASSUME Order, TypeOK, NEW d \in Live, NEW e \in Live, e # 1, listed[e] = {}
  PROVE  e = d
BY Pair DEF Order, Live

-----------------------------------------------------------------------------
(* Releases *)

\* A fence: the session was served and its intent is in no file, so the new one is wanted.
LEMMA FenceStep ==
  ASSUME Dependable, IInv, NEW d \in Daemons, NEW s \in Sessions, Fence(d, s)
  PROVE  Journals'
<1> USE DEF startVars, fileVars, memVars, IInv, Journals, Typed
<1>1. /\ life[d] = "up" /\ rel[d][s] = "live" /\ d \in Live
      /\ cache' = [cache EXCEPT ![d] = @ \cup {s}] /\ wanted' = wanted \cup {s}
      /\ UNCHANGED <<startVars, recovered, readOf, row, ended>> /\ Live' = Live
  BY DEF Fence, Live
<1>2. \/ disk' = [disk EXCEPT ![d] = @ \cup {s}] /\ rel' = [rel EXCEPT ![d][s] = "fenced"]
      \/ disk' = disk /\ rel' = [rel EXCEPT ![d][s] = "volatile"]
  BY FenceEffect
<1>3. /\ cache'[d] = cache[d] \cup {s} /\ \A x \in Daemons \ {d} : cache'[x] = cache[x] /\ disk'[x] = disk[x]
      /\ disk[d] \subseteq disk'[d] /\ disk'[d] \subseteq disk[d] \cup {s}
      /\ rel'[d][s] \in {"fenced", "volatile"} /\ (rel'[d][s] = "fenced" => s \in disk'[d])
      /\ \A x \in Daemons, t \in Sessions : x # d \/ t # s => rel'[x][t] = rel[x][t]
  BY <1>1, <1>2 DEF TypeOK
<1>4. Memory'
  BY <1>1, <1>3 DEF Memory
<1>5. First'
  BY <1>1, <1>3 DEF First
<1>6. ASSUME NEW e \in Daemons PROVE AdoptedBy(e)'
  BY <1>1, <1>3, Sole DEF PerDaemon, AdoptedBy, Live
<1>7. ASSUME NEW e \in Daemons PROVE BesideFirst(e)'
  BY <1>1, <1>3, Numbers DEF PerDaemon, BesideFirst, Memory
<1>8. ASSUME NEW e \in Daemons, NEW t \in Sessions PROVE RecoveredBy(e, t)'
  BY <1>1, <1>3, Numbers DEF PerSession, RecoveredBy
<1>9. ASSUME NEW e \in Daemons, NEW t \in Sessions PROVE ServedBy(e, t)'
  BY <1>1, <1>3 DEF PerSession, ServedBy
<1>10. Intents'
  BY <1>1, <1>3 DEF Intents
<1>11. IntentKept'
  BY <1>1, <1>3 DEF IntentKept
<1> QED BY <1>4, <1>5, <1>6, <1>7, <1>8, <1>9, <1>10, <1>11 DEF PerDaemon, PerSession

\* A resolution in the daemon that serves the session: the intent leaves memory and file.
LEMMA DeclineStep ==
  ASSUME Dependable, IInv, NEW d \in Daemons, NEW s \in Sessions, Decline(d, s) \/ Confirm(d, s)
  PROVE  Journals'
<1> USE DEF startVars, fileVars, memVars, IInv, Journals, Typed
<1>1. /\ life[d] = "up" /\ d \in Live
      /\ UNCHANGED <<startVars, recovered, readOf, row, ended>> /\ Live' = Live
      /\ \/ rel[d][s] = "fenced" /\ rel' = [rel EXCEPT ![d][s] = "live"] /\ wanted' = wanted \ {s}
         \/ rel[d][s] = "landed" /\ rel' = [rel EXCEPT ![d][s] = "none"] /\ wanted' = wanted
  BY DEF Decline, Confirm, Live
<1>2. /\ cache' = [cache EXCEPT ![d] = @ \ {s}]
      /\ disk' = [disk EXCEPT ![d] = disk'[d]]
      /\ disk'[d] \in SUBSET cache'[d] /\ disk[d] \ {s} \subseteq disk'[d]
  BY ResolveEffect DEF Journals
<1>3. /\ cache'[d] = cache[d] \ {s} /\ s \notin disk'[d] /\ disk'[d] \subseteq cache[d]
      /\ \A x \in Daemons \ {d} : cache'[x] = cache[x] /\ disk'[x] = disk[x]
      /\ \A x \in Daemons, t \in Sessions : x # d \/ t # s => rel'[x][t] = rel[x][t]
  BY <1>1, <1>2 DEF TypeOK
<1>4. /\ \/ rel[d][s] = "fenced" /\ rel'[d][s] = "live" /\ wanted' = wanted \ {s}
         \/ rel[d][s] = "landed" /\ rel'[d][s] = "none" /\ wanted' = wanted
  BY <1>1 DEF TypeOK
<1>5. \A x \in Daemons \ {d} : s \notin disk[x] /\ s \notin cache[x] /\ rel[x][s] = "none"
  <2> SUFFICES ASSUME NEW x \in Daemons \ {d} PROVE s \notin disk[x] /\ s \notin cache[x] /\ rel[x][s] = "none"
    OBVIOUS
  <2>1. s \notin disk[x] /\ rel[x][s] = "none"
    BY <1>4 DEF PerSession, ServedBy
  <2>2. CASE x \notin Live
    BY <2>1, <2>2 DEF Live, Memory
  <2>3. CASE x \in Live
    BY <1>1, <1>4, <2>1, <2>3, Pair DEF First
  <2> QED BY <2>2, <2>3
<1>6. \A x \in Daemons \ {d} : disk[d] = {} => disk'[d] = {} \/ life[1] # "up" \/ d = 1
  BY <1>2, <1>3 DEF First
<1>7. Memory'
  BY <1>1, <1>3 DEF Memory
<1>8. First'
  BY <1>1, <1>3, <1>4, <1>6 DEF First
<1>9. ASSUME NEW e \in Daemons PROVE AdoptedBy(e)'
  BY <1>1, <1>3, Sole DEF PerDaemon, AdoptedBy, Live
<1>10. ASSUME NEW e \in Daemons PROVE BesideFirst(e)'
  BY <1>1, <1>3, <1>4, Numbers DEF PerDaemon, BesideFirst, Memory
<1>11. ASSUME NEW e \in Daemons, NEW t \in Sessions PROVE RecoveredBy(e, t)'
  BY <1>1, <1>3, <1>4, Numbers DEF PerSession, RecoveredBy, ServedBy
<1>12. ASSUME NEW e \in Daemons, NEW t \in Sessions PROVE ServedBy(e, t)'
  <2>1. CASE t = s /\ e = d
    BY <1>1, <1>3, <1>4, <2>1 DEF PerSession, ServedBy
  <2>2. CASE t = s /\ e # d
    BY <1>1, <1>3, <1>4, <1>5, <2>2 DEF PerSession, ServedBy
  <2>3. CASE t # s /\ e = d
    BY <1>1, <1>2, <1>3, <1>4, <2>3 DEF PerSession, ServedBy
  <2>4. CASE t # s /\ e # d
    <3>1. rel[e][t] # "none" => t \notin cache[d]
      <4> SUFFICES ASSUME rel[e][t] # "none" PROVE t \notin cache[d]
        OBVIOUS
      <4>1. e \in Live
        BY DEF Memory, Live
      <4> QED BY <1>1, <2>4, <4>1, Pair DEF First
    <3> QED BY <1>1, <1>2, <1>3, <1>4, <2>4, <3>1 DEF PerSession, ServedBy
  <2> QED BY <2>1, <2>2, <2>3, <2>4
<1>13. Intents'
  BY <1>1, <1>2, <1>3, <1>4, <1>5 DEF Intents
<1>14. IntentKept'
  BY <1>1, <1>2, <1>3, <1>4 DEF IntentKept, PerSession, ServedBy
<1> QED BY <1>7, <1>8, <1>9, <1>10, <1>11, <1>12, <1>13, <1>14 DEF PerDaemon, PerSession

\* The device is freed and the row is written: the intent stays until the row is terminal.
LEMMA CommitStep ==
  ASSUME Dependable, IInv, NEW d \in Daemons, NEW s \in Sessions,
         Commit(d, s) \/ TimeOut(d, s) \/ WriteRow(d, s)
  PROVE  Journals'
<1> USE DEF startVars, fileVars, memVars, IInv, Journals, Typed
<1>1. /\ life[d] = "up" /\ d \in Live
      /\ UNCHANGED <<startVars, fileVars, memVars, wanted>> /\ Live' = Live
      /\ rel[d][s] \in {"fenced", "volatile", "owed"}
  BY DEF Commit, TimeOut, WriteRow, Live
<1>2. row[s].owner = d /\ s \in wanted
  BY <1>1 DEF PerSession, ServedBy
<1>3. \/ /\ rel' = [rel EXCEPT ![d][s] = "owed"] /\ row' = row
         /\ ended' = ended \/ (ended' = ended \cup {s} /\ rel[d][s] = "fenced")
      \/ /\ rel' = [rel EXCEPT ![d][s] = "landed"] /\ row' = [row EXCEPT ![s].ended = TRUE]
         /\ ended' = ended \cup {s}
  BY <1>1, <1>2 DEF Commit, TimeOut, WriteRow, TypeOK
<1>4. /\ \/ /\ rel'[d][s] = "owed" /\ row'[s].ended = row[s].ended
            /\ ended' = ended \/ (ended' = ended \cup {s} /\ s \in disk[d])
         \/ /\ rel'[d][s] = "landed" /\ row'[s].ended
            /\ ended' = ended \cup {s}
      /\ row'[s].owner = d
      /\ \A x \in Daemons, t \in Sessions : x # d \/ t # s => rel'[x][t] = rel[x][t]
      /\ \A t \in Sessions : t # s => row'[t] = row[t]
  <2>1. rel[d][s] = "fenced" => s \in disk[d]
    BY DEF PerSession, ServedBy
  <2> QED BY <1>1, <1>2, <1>3, <2>1 DEF TypeOK
<1>5. \A x \in Daemons \ {d} : rel[x][s] = "none" /\ s \notin disk[x]
  BY <1>1, <1>2 DEF PerSession, ServedBy
<1>6. \A t \in Sessions : (row[t].ended => row'[t].ended) /\ (t # s => row'[t].owner = row[t].owner)
  BY <1>4
<1>7. Memory'
  BY <1>1, <1>2, <1>4 DEF Memory
<1>8. First'
  BY <1>1, <1>2, <1>4 DEF First
<1>9. ASSUME NEW e \in Daemons PROVE AdoptedBy(e)'
  BY <1>1 DEF PerDaemon, AdoptedBy
<1>10. ASSUME NEW e \in Daemons PROVE BesideFirst(e)'
  <2> SUFFICES ASSUME e \in Live, listed[e] = {1} PROVE BesideFirst(e)'
    BY <1>1 DEF BesideFirst
  <2>1. BesideFirst(e)
    BY DEF PerDaemon
  <2>2. 1 \notin readOf[e] => \A u \in Sessions : row'[u].owner = 1 /\ rel'[e][u] = "none"
    BY <1>1, <1>2, <1>4, <2>1 DEF BesideFirst
  <2>3. 1 \in readOf[e] => \A u \in disk[1] : row'[u].ended \/ recovered[e][u] = 1
    BY <1>6, <2>1, Numbers DEF BesideFirst, TypeOK
  <2> QED BY <1>1, <2>1, <2>2, <2>3 DEF BesideFirst
<1>11. ASSUME NEW e \in Daemons, NEW t \in Sessions PROVE RecoveredBy(e, t)'
  BY <1>1, <1>2, <1>4, Numbers DEF PerSession, RecoveredBy
<1>12. ASSUME NEW e \in Daemons, NEW t \in Sessions PROVE ServedBy(e, t)'
  BY <1>1, <1>2, <1>4, <1>5 DEF PerSession, ServedBy
<1>13. Intents'
  BY <1>1 DEF Intents
<1>14. IntentKept'
  <2> SUFFICES ASSUME NEW t \in ended' PROVE row'[t].ended \/ \E x \in Daemons : t \in disk'[x]
    BY DEF IntentKept
  <2>1. CASE t \in ended
    BY <1>1, <1>6, <2>1 DEF IntentKept, TypeOK
  <2>2. CASE t \notin ended
    BY <1>1, <1>4, <2>2
  <2> QED BY <2>1, <2>2
<1> QED BY <1>7, <1>8, <1>9, <1>10, <1>11, <1>12, <1>13, <1>14 DEF PerDaemon, PerSession

-----------------------------------------------------------------------------
(* Start-up and crash *)

\* Once the first daemon is dead one daemon runs at a time.
LEMMA Alone ==
  ASSUME IInv, life[1] # "up", NEW d \in Live, NEW e \in Live
  PROVE  e = d
BY Pair DEF IInv, Typed

\* No third daemon has started while the one beside the first runs.
LEMMA Third ==
  ASSUME IInv, NEW d \in Live, listed[d] = {1}, NEW x \in Daemons, x # 1, x # d
  PROVE  life[x] = "new" /\ disk[x] = {} /\ d = 2 /\ \A s \in Sessions : row[s].owner # x
<1>1. d \in Daemons /\ d = 2
  BY DEF Live, IInv, Order
<1>2. d < x
  BY <1>1, Numbers
<1>3. life[x] = "new"
  BY <1>1, <1>2 DEF IInv, Order
<1> QED BY <1>1, <1>3 DEF IInv, Journals, Memory

\* A starting daemon has no memory and no file; the rows keep owner and end.
LEMMA StartStep ==
  ASSUME Dependable, IInv, Order', NEW d \in Daemons, Start(d)
  PROVE  Journals'
<1> USE DEF startVars, fileVars, memVars, Journals, Typed
<1>1. /\ life[d] = "new" /\ life' = [life EXCEPT ![d] = "starting"] /\ listed' = [listed EXCEPT ![d] = Live]
      /\ UNCHANGED <<todo, copied, fileVars, memVars, rel, ended, wanted>>
  BY DEF Start
<1>2. d # 1 /\ d \notin Live /\ life'[d] = "starting" /\ listed'[d] = Live
      /\ \A x \in Daemons \ {d} : life'[x] = life[x] /\ listed'[x] = listed[x]
  BY <1>1, Numbers DEF IInv, Order, Live, TypeOK
<1>3. \A s \in Sessions : row'[s].owner = row[s].owner /\ row'[s].ended = row[s].ended
  BY DEF Start, IInv, TypeOK
<1>4. Live' = Live \cup {d}
  BY <1>2 DEF Live
<1>5. Memory'
  BY <1>1, <1>2, <1>3 DEF IInv, Memory
<1>6. First'
  BY <1>1, <1>2, <1>3, Numbers DEF IInv, First
<1>7. ASSUME NEW e \in Daemons PROVE AdoptedBy(e)'
  BY <1>1, <1>2 DEF IInv, PerDaemon, AdoptedBy
<1>8. BesideFirst(d)'
  <2> SUFFICES ASSUME listed'[d] = {1} PROVE BesideFirst(d)'
    BY DEF BesideFirst
  <2>1. life[1] = "up"
    BY <1>2, Numbers DEF IInv, Order, Live
  <2> QED BY <1>1, <1>2, <1>3, <2>1, Numbers DEF IInv, Memory, First, BesideFirst
<1>9. ASSUME NEW e \in Daemons, e # d PROVE BesideFirst(e)'
  BY <1>1, <1>2, <1>3, <1>4, <1>9, Numbers DEF IInv, PerDaemon, BesideFirst, TypeOK
<1>10. ASSUME NEW e \in Daemons, NEW t \in Sessions PROVE RecoveredBy(e, t)'
  BY <1>1, <1>2, <1>3, Numbers DEF IInv, PerSession, RecoveredBy, Memory
<1>11. ASSUME NEW e \in Daemons, NEW t \in Sessions PROVE ServedBy(e, t)'
  BY <1>1, <1>2, <1>3, Numbers DEF IInv, PerSession, ServedBy
<1>12. Intents'
  BY <1>1, <1>2 DEF IInv, Intents
<1>13. IntentKept'
  BY <1>1, <1>3 DEF IInv, IntentKept, TypeOK
<1> QED BY <1>5, <1>6, <1>7, <1>8, <1>9, <1>10, <1>11, <1>12, <1>13 DEF PerDaemon, PerSession

\* The journals to adopt are all that are not empty, but for the one of a listed daemon.
LEMMA OpenStep ==
  ASSUME Dependable, IInv, NEW d \in Daemons, OpenJournal(d)
  PROVE  Journals'
<1> USE DEF startVars, fileVars, memVars, Journals, Typed
<1>1. /\ life[d] = "starting" /\ life' = [life EXCEPT ![d] = "adopting"]
      /\ todo' = [todo EXCEPT ![d] = {x \in Daemons \ (listed[d] \cup {d}) : disk[x] # {} \/ torn[x]}]
      /\ UNCHANGED <<listed, copied, fileVars, memVars, rel, row, ended, wanted>>
  BY DEF OpenJournal
<1>2. d # 1 /\ d \in Live /\ life'[d] = "adopting" /\ life'[1] = life[1]
      /\ \A x \in Daemons \ {d} : life'[x] = life[x] /\ todo'[x] = todo[x]
  BY <1>1, Numbers DEF IInv, Order, Live, TypeOK
<1>3. todo'[d] = {x \in Daemons \ (listed[d] \cup {d}) : disk[x] # {}}
  BY <1>1 DEF IInv, Whole, TypeOK
<1>4. Live' = Live
  BY <1>1, <1>2 DEF Live
<1>5. Memory'
  BY <1>1, <1>2, <1>3 DEF IInv, Memory
<1>6. First'
  <2>1. life[1] = "up" => listed[d] = {1}
    BY <1>2 DEF IInv, Order
  <2>2. life[1] = "up" => todo'[d] = {}
    BY <1>3, <2>1 DEF IInv, First
  <2> QED BY <1>1, <1>2, <2>2 DEF IInv, First
<1>7. ASSUME NEW e \in Daemons PROVE AdoptedBy(e)'
  BY <1>1, <1>2, <1>3 DEF IInv, PerDaemon, AdoptedBy, Memory
<1>8. BesideFirst(d)'
  <2> SUFFICES ASSUME listed[d] = {1} PROVE BesideFirst(d)'
    BY <1>1 DEF BesideFirst
  <2>1. todo'[d] = {}
    BY <1>2, <1>3, Third
  <2> QED BY <1>1, <1>2, <1>4, <2>1 DEF IInv, PerDaemon, BesideFirst
<1>9. ASSUME NEW e \in Daemons, e # d PROVE BesideFirst(e)'
  BY <1>1, <1>2, <1>4, <1>9 DEF IInv, PerDaemon, BesideFirst
<1>10. ASSUME NEW e \in Daemons, NEW t \in Sessions PROVE RecoveredBy(e, t)'
  BY <1>1, <1>2 DEF IInv, PerSession, RecoveredBy
<1>11. ASSUME NEW e \in Daemons, NEW t \in Sessions PROVE ServedBy(e, t)'
  BY <1>1 DEF IInv, PerSession, ServedBy
<1>12. Intents'
  BY <1>1, <1>2 DEF IInv, Intents
<1>13. IntentKept'
  BY <1>1 DEF IInv, IntentKept
<1> QED BY <1>5, <1>6, <1>7, <1>8, <1>9, <1>10, <1>11, <1>12, <1>13 DEF PerDaemon, PerSession

\* Nobody serves a session while journals are adopted.
LEMMA Adopting ==
  ASSUME IInv, NEW d \in Daemons, life[d] = "adopting", todo[d] # {}
  PROVE  /\ d # 1 /\ d \in Live /\ listed[d] = {} /\ life[1] # "up" /\ Live = {d}
         /\ \A e \in Daemons, s \in Sessions : rel[e][s] = "none" /\ recovered[e][s] = NoFile /\ cache[e] = {}
<1>1. d # 1 /\ d \in Live
  BY DEF IInv, Order, Live
<1>2. listed[d] = {}
  BY <1>1 DEF IInv, Order, Journals, PerDaemon, BesideFirst
<1>3. life[1] # "up"
  BY <1>1, <1>2 DEF IInv, Order
<1>4. Live = {d}
  BY <1>1, <1>3, Alone
<1>5. \A e \in Daemons : life[e] # "up"
  BY <1>4 DEF Live
<1> QED BY <1>1, <1>2, <1>3, <1>4, <1>5 DEF IInv, Journals, Memory

\* Adoption moves intents from one file to another.
LEMMA AdoptStep ==
  ASSUME Dependable, IInv, NEW d \in Daemons, NEW x \in Daemons, AdoptCopy(d, x) \/ AdoptRemove(d, x)
  PROVE  Journals'
<1> USE DEF startVars, fileVars, memVars, Journals, Typed
<1>1. /\ life[d] = "adopting" /\ x \in todo[d]
      /\ UNCHANGED <<life, listed, memVars, rel, row, ended, wanted>> /\ Live' = Live
  BY DEF AdoptCopy, AdoptRemove, Live, IInv, Memory
<1>2. \/ /\ todo' = todo /\ copied' = [copied EXCEPT ![d] = @ \cup {x}]
         /\ disk' = [disk EXCEPT ![d] = @ \cup disk[x]]
      \/ /\ todo' = [todo EXCEPT ![d] = @ \ {x}] /\ copied' = [copied EXCEPT ![d] = @ \ {x}]
         /\ disk' = [disk EXCEPT ![x] = {}] /\ x \in copied[d]
  BY AdoptEffect DEF IInv, AdoptRemove
<1>3. /\ d # 1 /\ d \in Live /\ listed[d] = {} /\ life[1] # "up" /\ Live = {d} /\ x # d
      /\ \A e \in Daemons, s \in Sessions : rel[e][s] = "none" /\ recovered[e][s] = NoFile /\ cache[e] = {}
  BY <1>1, Adopting DEF IInv, Memory
<1>4. /\ \A e \in Daemons \ {d} : todo'[e] = todo[e] /\ copied'[e] = copied[e] /\ (disk'[e] = disk[e] \/ disk'[e] = {})
      /\ \/ /\ todo'[d] = todo[d] /\ copied'[d] = copied[d] \cup {x}
            /\ disk'[d] = disk[d] \cup disk[x] /\ \A e \in Daemons \ {d} : disk'[e] = disk[e]
         \/ /\ todo'[d] = todo[d] \ {x} /\ copied'[d] = copied[d] \ {x} /\ x \in copied[d]
            /\ disk'[x] = {} /\ disk[x] \subseteq disk[d] /\ \A e \in Daemons \ {x} : disk'[e] = disk[e]
  <2>1. CASE todo' = todo
    <3>1. copied' = [copied EXCEPT ![d] = @ \cup {x}] /\ disk' = [disk EXCEPT ![d] = @ \cup disk[x]]
      BY <1>1, <1>2, <2>1 DEF IInv, TypeOK
    <3> QED BY <1>1, <1>3, <2>1, <3>1 DEF IInv, TypeOK
  <2>2. CASE todo' # todo
    <3>1. /\ todo' = [todo EXCEPT ![d] = @ \ {x}] /\ copied' = [copied EXCEPT ![d] = @ \ {x}]
          /\ disk' = [disk EXCEPT ![x] = {}] /\ x \in copied[d]
      BY <1>2, <2>2
    <3>2. disk[x] \subseteq disk[d]
      BY <1>1, <1>3, <3>1 DEF IInv, PerDaemon, AdoptedBy
    <3> QED BY <1>1, <1>3, <3>1, <3>2 DEF IInv, TypeOK
  <2> QED BY <2>1, <2>2
<1>5. Memory'
  BY <1>1, <1>3, <1>4 DEF IInv, Memory
<1>6. First'
  BY <1>1, <1>3 DEF First
<1>7. AdoptedBy(d)'
  <2>1. AdoptedBy(d)!2
    BY <1>3 DEF IInv, PerDaemon, AdoptedBy
  <2>2. \A y \in Daemons \ {d} : disk'[y] # {} => y \in todo'[d]
    BY <1>1, <1>4, <2>1
  <2>3. \A y \in copied'[d] : y # d /\ disk'[y] \subseteq disk'[d]
    <3> SUFFICES ASSUME NEW y \in copied'[d] PROVE y # d /\ disk'[y] \subseteq disk'[d]
      OBVIOUS
    <3>1. copied[d] \subseteq Daemons
      BY DEF IInv, TypeOK
    <3>2. y \in copied[d] \/ y = x
      BY <1>4
    <3>3. y \in Daemons \ {d}
      BY <1>1, <1>3, <2>1, <3>1, <3>2
    <3>4. disk[d] \subseteq disk'[d] /\ (disk'[y] = disk[y] \/ disk'[y] = {})
      BY <1>3, <1>4, <3>3
    <3>5. CASE y \in copied[d]
      BY <1>1, <2>1, <3>3, <3>4, <3>5
    <3>6. CASE y \notin copied[d]
      BY <1>4, <3>2, <3>3, <3>4, <3>6
    <3> QED BY <3>5, <3>6
  <2> QED BY <1>1, <2>2, <2>3 DEF AdoptedBy
<1>8. ASSUME NEW e \in Daemons, e # d PROVE AdoptedBy(e)'
  BY <1>1, <1>3, <1>8 DEF Live, AdoptedBy
<1>9. ASSUME NEW e \in Daemons PROVE BesideFirst(e)'
  BY <1>1, <1>3 DEF BesideFirst
<1>10. ASSUME NEW e \in Daemons, NEW t \in Sessions PROVE RecoveredBy(e, t)'
  BY <1>1, <1>3 DEF RecoveredBy
<1>11. ASSUME NEW e \in Daemons, NEW t \in Sessions PROVE ServedBy(e, t)'
  BY <1>1, <1>3 DEF ServedBy
<1>12. Intents'
  BY <1>1, <1>3, <1>4 DEF IInv, Intents, Live
<1>13. IntentKept'
  BY <1>1, <1>3, <1>4 DEF IInv, IntentKept
<1> QED BY <1>5, <1>6, <1>7, <1>8, <1>9, <1>10, <1>11, <1>12, <1>13 DEF PerDaemon, PerSession

\* A daemon that attaches fences what is in its file and serves nothing yet.
LEMMA AttachStep ==
  ASSUME Dependable, IInv, NEW d \in Daemons, Attach(d)
  PROVE  Journals'
<1> USE DEF startVars, fileVars, memVars, Journals, Typed
<1>1. /\ life[d] = "adopting" /\ todo[d] = {} /\ life' = [life EXCEPT ![d] = "up"]
      /\ cache' = [cache EXCEPT ![d] = disk[d]]
      /\ recovered' = [recovered EXCEPT ![d] = [s \in Sessions |-> IF s \in disk[d] THEN d ELSE NoFile]]
      /\ UNCHANGED <<listed, todo, copied, readOf, rel, row, ended, wanted>>
  BY DEF Attach
<1>2. disk' = disk
  BY AdoptEffect DEF IInv
<1>3. /\ d # 1 /\ d \in Live /\ life'[d] = "up" /\ life'[1] = life[1]
      /\ \A x \in Daemons \ {d} : life'[x] = life[x] /\ cache'[x] = cache[x] /\ recovered'[x] = recovered[x]
      /\ cache'[d] = disk[d] /\ \A s \in Sessions : recovered'[d][s] = IF s \in disk[d] THEN d ELSE NoFile
  BY <1>1, Numbers DEF IInv, Order, Live, TypeOK
<1>4. readOf[d] = {} /\ copied[d] = {} /\ \A s \in Sessions : rel[d][s] = "none"
  BY <1>1 DEF IInv, Memory
<1>5. listed[d] = {1} => disk[d] = {}
  BY <1>1, <1>3 DEF IInv, PerDaemon, BesideFirst
<1>6. Live' = Live
  BY <1>1, <1>3 DEF Live
<1>7. Memory'
  BY <1>1, <1>2, <1>3 DEF IInv, Memory
<1>8. First'
  <2>1. life[1] = "up" => disk[d] = {}
    BY <1>3, <1>5 DEF IInv, Order
  <2> QED BY <1>1, <1>2, <1>3, <2>1 DEF IInv, First
<1>9. ASSUME NEW e \in Daemons PROVE AdoptedBy(e)'
  BY <1>1, <1>2, <1>3 DEF IInv, PerDaemon, AdoptedBy
<1>10. BesideFirst(d)'
  BY <1>1, <1>2, <1>3, <1>4, <1>5, Numbers DEF IInv, PerDaemon, BesideFirst
<1>11. ASSUME NEW e \in Daemons, e # d PROVE BesideFirst(e)'
  BY <1>1, <1>2, <1>3, <1>6, <1>11 DEF IInv, PerDaemon, BesideFirst
<1>12. ASSUME NEW e \in Daemons, NEW t \in Sessions PROVE RecoveredBy(e, t)'
  BY <1>1, <1>2, <1>3, <1>4 DEF IInv, PerSession, RecoveredBy
<1>13. ASSUME NEW e \in Daemons, NEW t \in Sessions PROVE ServedBy(e, t)'
  BY <1>1, <1>2, <1>3, <1>4 DEF IInv, PerSession, ServedBy
<1>14. Intents'
  BY <1>1, <1>2, <1>3 DEF IInv, Intents
<1>15. IntentKept'
  BY <1>1, <1>2 DEF IInv, IntentKept
<1> QED BY <1>7, <1>8, <1>9, <1>10, <1>11, <1>12, <1>13, <1>14, <1>15 DEF PerDaemon, PerSession

\* A crash takes the memory and leaves files and rows.
LEMMA CrashStep ==
  ASSUME Dependable, IInv, NEW d \in Daemons, Crash(d)
  PROVE  Journals'
<1> USE DEF startVars, fileVars, memVars, Journals, Typed
<1>1. /\ d \in Live /\ UNCHANGED <<listed, fileVars, row, ended, wanted>>
      /\ life'[d] = "dead" /\ todo'[d] = {} /\ copied'[d] = {} /\ cache'[d] = {} /\ readOf'[d] = {}
      /\ \A s \in Sessions : recovered'[d][s] = NoFile /\ rel'[d][s] = "none"
      /\ \A x \in Daemons \ {d} :
           /\ life'[x] = life[x] /\ todo'[x] = todo[x] /\ copied'[x] = copied[x] /\ cache'[x] = cache[x]
           /\ readOf'[x] = readOf[x] /\ recovered'[x] = recovered[x] /\ rel'[x] = rel[x]
  BY DEF Crash, IInv, TypeOK
<1>2. Live' = Live \ {d}
  BY <1>1 DEF Live
<1>3. life[d] # "new" /\ life[d] # "dead"
  BY <1>1 DEF Live
<1>7. Memory'
  <2>1. \A e \in Daemons : \A x \in readOf'[e] : life'[x] = "dead"
    BY <1>1 DEF IInv, Memory, TypeOK
  <2> QED BY <1>1, <1>3, <2>1 DEF IInv, Memory
<1>8. First'
  BY <1>1, Numbers DEF IInv, First
<1>9. ASSUME NEW e \in Daemons PROVE AdoptedBy(e)'
  BY <1>1 DEF IInv, PerDaemon, AdoptedBy
<1>10. ASSUME NEW e \in Daemons PROVE BesideFirst(e)'
  BY <1>1, <1>2 DEF IInv, PerDaemon, BesideFirst
<1>12. ASSUME NEW e \in Daemons, NEW t \in Sessions PROVE RecoveredBy(e, t)'
  BY <1>1, <1>3, Numbers DEF IInv, PerSession, RecoveredBy
<1>13. ASSUME NEW e \in Daemons, NEW t \in Sessions PROVE ServedBy(e, t)'
  BY <1>1 DEF IInv, PerSession, ServedBy
<1>14. Intents'
  BY <1>1 DEF IInv, Intents
<1>15. IntentKept'
  BY <1>1 DEF IInv, IntentKept
<1> QED BY <1>7, <1>8, <1>9, <1>10, <1>12, <1>13, <1>14, <1>15 DEF PerDaemon, PerSession

-----------------------------------------------------------------------------
(* Recovered intents *)

\* The journal of a dead owner: a daemon that adopted everything finds nothing in it, and the
\* one beside the first reads the first's before it serves any of its sessions.
LEMMA ReadStep ==
  ASSUME Dependable, IInv, NEW d \in Daemons, NEW x \in Daemons, ReadDead(d, x)
  PROVE  Journals'
<1> USE DEF startVars, fileVars, memVars, Journals, Typed
<1>1. /\ life[d] = "up" /\ x \notin Live /\ x \notin readOf[d] /\ d \in Live /\ Live' = Live
      /\ UNCHANGED <<startVars, fileVars, cache, rel, row, ended, wanted>>
      /\ readOf'[d] = readOf[d] \cup {x} /\ \A s \in Sessions : recovered'[d][s] = IF s \in disk[x] THEN x ELSE recovered[d][s]
      /\ \A e \in Daemons \ {d} : readOf'[e] = readOf[e] /\ recovered'[e] = recovered[e]
  BY DEF ReadDead, FenceDead, IInv, TypeOK, Live
<1>2. PICK s \in Sessions : row[s].owner = x
  BY DEF ReadDead
<1>3. life[x] = "dead" /\ x # d
  BY <1>1, <1>2 DEF IInv, Memory, TypeOK, Live
<1>4. life[1] # "up" /\ d # 1
  BY <1>1, <1>2, <1>3 DEF IInv, First
<1>5. \/ listed[d] = {} /\ disk[x] = {}
      \/ listed[d] = {1} /\ x = 1 /\ d = 2
  <2>1. CASE listed[d] = {}
    BY <1>1, <1>3, <1>4, <2>1 DEF IInv, PerDaemon, AdoptedBy
  <2>2. CASE listed[d] = {1}
    BY <1>1, <1>3, <2>2, Third DEF IInv, Order
  <2> QED BY <2>1, <2>2 DEF IInv, Order
<1>6. listed[d] = {1} => \A t \in Sessions : row[t].owner = 1 /\ rel[d][t] = "none" /\ recovered[d][t] = NoFile
  BY <1>1, <1>5 DEF IInv, PerDaemon, BesideFirst
<1>7. Memory'
  BY <1>1, <1>3 DEF IInv, Memory
<1>8. First'
  BY <1>1, <1>4 DEF First
<1>9. ASSUME NEW e \in Daemons PROVE AdoptedBy(e)'
  BY <1>1 DEF IInv, PerDaemon, AdoptedBy
<1>10. BesideFirst(d)'
  <2> SUFFICES ASSUME listed[d] = {1} PROVE BesideFirst(d)'
    BY <1>1 DEF BesideFirst
  <2>1. BesideFirst(d) /\ x = 1 /\ d = 2
    BY <1>5 DEF IInv, PerDaemon
  <2>2. \A t \in Sessions : recovered'[d][t] # d
    BY <1>1, <1>6, <2>1 DEF NoFile
  <2>3. \A t \in disk[1] : recovered'[d][t] = 1
    BY <1>1, <2>1, Numbers DEF IInv, TypeOK
  <2> QED BY <1>1, <2>1, <2>2, <2>3 DEF BesideFirst
<1>11. ASSUME NEW e \in Daemons, e # d PROVE BesideFirst(e)'
  BY <1>1, <1>11 DEF IInv, PerDaemon, BesideFirst
<1>12. ASSUME NEW e \in Daemons, NEW t \in Sessions PROVE RecoveredBy(e, t)'
  BY <1>1, <1>3, <1>5, <1>6, Numbers DEF IInv, PerSession, RecoveredBy
<1>13. ASSUME NEW e \in Daemons, NEW t \in Sessions PROVE ServedBy(e, t)'
  <2>1. recovered[e][t] = e => recovered'[e][t] = e
    BY <1>1, <1>5, <1>6, Numbers
  <2> QED BY <1>1, <2>1 DEF IInv, PerSession, ServedBy
<1>14. Intents'
  BY <1>1 DEF IInv, Intents
<1>15. IntentKept'
  BY <1>1 DEF IInv, IntentKept
<1> QED BY <1>7, <1>8, <1>9, <1>10, <1>11, <1>12, <1>13, <1>14, <1>15 DEF PerDaemon, PerSession

\* What a recovered intent says of its session: it is wanted, nobody serves it, and it applies.
LEMMA Owed ==
  ASSUME IInv, NEW d \in Daemons, NEW s \in Sessions, life[d] = "up", recovered[d][s] # NoFile
  PROVE  /\ s \in wanted /\ life[1] # "up" /\ d # 1 /\ d \in Live /\ Applies(d, s)
         /\ \A e \in Daemons : rel[e][s] = "none"
         /\ \A e \in Daemons \ {d} : life[e] # "up"
<1> USE DEF IInv, Journals, Typed
<1>1. life[1] # "up" /\ d \in Live
  BY DEF First, Live
<1>2. \A e \in Daemons \ {d} : life[e] # "up"
  BY <1>1, Alone DEF Live
<1>3. RecoveredBy(d, s)
  BY DEF PerSession
<1>4. rel[d][s] = "none"
  <2>1. rel[d][s] # "none" => row[s].owner = d
    BY DEF PerSession, ServedBy
  <2> QED BY <1>1, <1>3, <2>1 DEF RecoveredBy
<1>5. s \in wanted
  BY <1>3, Numbers DEF RecoveredBy, Intents
<1> QED BY <1>1, <1>2, <1>3, <1>4, <1>5 DEF Memory, RecoveredBy, Applies

\* A recovered intent ends a row nobody serves.
LEMMA SettleWriteStep ==
  ASSUME Dependable, IInv, NEW d \in Daemons, NEW s \in Sessions, SettleWrite(d, s)
  PROVE  Journals'
<1> USE DEF startVars, fileVars, memVars, Journals, Typed
<1>1. /\ life[d] = "up" /\ recovered[d][s] # NoFile /\ Live' = Live
      /\ UNCHANGED <<startVars, fileVars, memVars, rel, ended, wanted>>
      /\ row'[s].ended /\ \A t \in Sessions : row'[t].owner = row[t].owner /\ (t # s => row'[t].ended = row[t].ended)
  BY DEF SettleWrite, Applies, IInv, TypeOK, Live
<1>2. \A e \in Daemons : rel[e][s] = "none"
  BY <1>1, Owed
<1>3. \A t \in Sessions : row[t].ended => row'[t].ended
  BY <1>1
<1>7. Memory'
  BY <1>1 DEF IInv, Memory
<1>8. First'
  BY <1>1 DEF IInv, First
<1>9. ASSUME NEW e \in Daemons PROVE AdoptedBy(e)'
  BY <1>1 DEF IInv, PerDaemon, AdoptedBy
<1>10. ASSUME NEW e \in Daemons PROVE BesideFirst(e)'
  <2> SUFFICES ASSUME e \in Live, listed[e] = {1} PROVE BesideFirst(e)'
    BY <1>1 DEF BesideFirst
  <2>1. BesideFirst(e)
    BY DEF IInv, PerDaemon
  <2>2. 1 \in readOf[e] => \A u \in disk[1] : row'[u].ended \/ recovered[e][u] = 1
    BY <1>3, <2>1, Numbers DEF IInv, BesideFirst, TypeOK
  <2> QED BY <1>1, <2>1, <2>2 DEF BesideFirst
<1>12. ASSUME NEW e \in Daemons, NEW t \in Sessions PROVE RecoveredBy(e, t)'
  BY <1>1 DEF IInv, PerSession, RecoveredBy
<1>13. ASSUME NEW e \in Daemons, NEW t \in Sessions PROVE ServedBy(e, t)'
  BY <1>1, <1>2 DEF IInv, PerSession, ServedBy
<1>14. Intents'
  BY <1>1 DEF IInv, Intents
<1>15. IntentKept'
  BY <1>1, <1>3 DEF IInv, IntentKept, TypeOK
<1> QED BY <1>7, <1>8, <1>9, <1>10, <1>12, <1>13, <1>14, <1>15 DEF PerDaemon, PerSession

\* A settled intent has its row: it may go.
LEMMA SettleDoneStep ==
  ASSUME Dependable, IInv, NEW d \in Daemons, NEW s \in Sessions, SettleDone(d, s)
  PROVE  Journals'
<1> USE DEF startVars, fileVars, memVars, Journals, Typed
<1>1. /\ life[d] = "up" /\ recovered[d][s] # NoFile /\ Live' = Live /\ d \in Live
      /\ UNCHANGED <<startVars, readOf, rel, row, ended, wanted>>
      /\ recovered' = [recovered EXCEPT ![d][s] = NoFile]
  BY DEF SettleDone, Settled, Live
<1>2. /\ cache' = [cache EXCEPT ![d] = @ \ {s}]
      /\ disk' = [disk EXCEPT ![d] = disk'[d]]
      /\ disk'[d] \in SUBSET cache'[d] /\ disk[d] \ {s} \subseteq disk'[d]
  BY ResolveEffect DEF IInv
<1>3. /\ cache'[d] = cache[d] \ {s} /\ s \notin disk'[d] /\ disk'[d] \subseteq cache[d]
      /\ \A x \in Daemons \ {d} : cache'[x] = cache[x] /\ disk'[x] = disk[x]
      /\ recovered'[d][s] = NoFile
      /\ \A x \in Daemons, t \in Sessions : x # d \/ t # s => recovered'[x][t] = recovered[x][t]
  BY <1>1, <1>2 DEF IInv, TypeOK
<1>4. /\ life[1] # "up" /\ d # 1 /\ Applies(d, s)
      /\ \A e \in Daemons : rel[e][s] = "none"
      /\ \A e \in Daemons \ {d} : life[e] # "up"
  BY <1>1, Owed
<1>5. row[s].ended
  BY <1>4 DEF SettleDone, Settled
<1>6. \A e \in Daemons \ {d} : cache[e] = {} /\ \A t \in Sessions : rel[e][t] = "none" /\ recovered[e][t] = NoFile
  BY <1>4 DEF IInv, Memory
<1>7. Memory'
  BY <1>1, <1>3 DEF IInv, Memory
<1>8. First'
  BY <1>1, <1>4 DEF First
<1>9. ASSUME NEW e \in Daemons PROVE AdoptedBy(e)'
  BY <1>1, <1>3, Sole DEF IInv, PerDaemon, AdoptedBy, Live
<1>10. ASSUME NEW e \in Daemons PROVE BesideFirst(e)'
  <2> SUFFICES ASSUME e \in Live, listed[e] = {1} PROVE BesideFirst(e)'
    BY <1>1 DEF BesideFirst
  <2>1. BesideFirst(e) /\ e = d
    BY <1>1, <1>4, Alone DEF IInv, PerDaemon
  <2>2. disk'[1] = disk[1] /\ disk[1] \subseteq Sessions
    BY <1>3, <1>4, Numbers DEF IInv, TypeOK
  <2>3. 1 \in readOf[e] => \A u \in disk[1] : row[u].ended \/ recovered'[e][u] = 1
    BY <1>3, <1>5, <2>1, <2>2 DEF BesideFirst
  <2>4. \A t \in Sessions : recovered'[e][t] # e
    BY <1>3, <2>1, Numbers DEF BesideFirst
  <2>5. 1 \notin readOf[e] => \A t \in Sessions : recovered'[e][t] = NoFile
    BY <1>3, <2>1 DEF BesideFirst
  <2> QED BY <1>1, <2>1, <2>2, <2>3, <2>4, <2>5 DEF BesideFirst
<1>12. ASSUME NEW e \in Daemons, NEW t \in Sessions PROVE RecoveredBy(e, t)'
  BY <1>1, <1>3, <1>4, <1>6, Numbers DEF IInv, PerSession, RecoveredBy
<1>13. ASSUME NEW e \in Daemons, NEW t \in Sessions PROVE ServedBy(e, t)'
  BY <1>1, <1>2, <1>3, <1>4, <1>5, <1>6 DEF IInv, PerSession, ServedBy
<1>14. Intents'
  BY <1>1, <1>2, <1>3 DEF IInv, Intents
<1>15. IntentKept'
  BY <1>1, <1>2, <1>3, <1>5 DEF IInv, IntentKept
<1> QED BY <1>7, <1>8, <1>9, <1>10, <1>12, <1>13, <1>14, <1>15 DEF PerDaemon, PerSession

\* A journal is discarded by the daemon beside the first, once all its rows are terminal.
LEMMA DiscardStep ==
  ASSUME Dependable, IInv, NEW d \in Daemons, NEW x \in Daemons, Discard(d, x)
  PROVE  Journals'
<1> USE DEF startVars, fileVars, memVars, Journals, Typed
<1>1. /\ life[d] = "up" /\ d \in Live /\ Live' = Live
      /\ x \in readOf[d] /\ \A s \in Sessions : recovered[d][s] # x
      /\ UNCHANGED <<startVars, memVars, rel, row, ended, wanted>>
  BY DEF Discard, Discardable, Live
<1>2. disk' = [disk EXCEPT ![x] = {}] /\ disk[x] # {}
  BY AdoptEffect DEF IInv
<1>3. disk'[x] = {} /\ \A e \in Daemons \ {x} : disk'[e] = disk[e]
  BY <1>2 DEF IInv, TypeOK
<1>4. life[x] = "dead" /\ x # d
  BY <1>1 DEF IInv, Memory
<1>5. life[1] # "up" /\ d # 1
  BY <1>1, <1>2, <1>4 DEF IInv, First
<1>6. listed[d] = {1} /\ x = 1
  <2>1. listed[d] # {}
    BY <1>1, <1>2, <1>4, <1>5 DEF IInv, PerDaemon, AdoptedBy
  <2>2. listed[d] = {1}
    BY <2>1 DEF IInv, Order
  <2> QED BY <1>1, <1>2, <1>4, <2>2, Third
<1>7. \A s \in disk[1] : row[s].ended
  <2>1. BesideFirst(d) /\ disk[1] \subseteq Sessions
    BY Numbers DEF IInv, PerDaemon, TypeOK
  <2> QED BY <1>1, <1>6, <2>1 DEF BesideFirst
<1>8. \A e \in Daemons : e \in Live => e = d
  BY <1>1, <1>5, Alone
<1>9. \A e \in Daemons, s \in Sessions : recovered[e][s] # 1
  BY <1>1, <1>6, <1>8, Numbers DEF IInv, Memory, Live, NoFile
<1>10. Memory'
  BY <1>1, <1>3 DEF IInv, Memory
<1>11. First'
  BY <1>1, <1>5 DEF First
<1>12. ASSUME NEW e \in Daemons PROVE AdoptedBy(e)'
  BY <1>1, <1>3, <1>6, <1>8 DEF AdoptedBy, Live
<1>13. ASSUME NEW e \in Daemons PROVE BesideFirst(e)'
  <2> SUFFICES ASSUME e \in Live, listed[e] = {1} PROVE BesideFirst(e)'
    BY <1>1 DEF BesideFirst
  <2>1. BesideFirst(e) /\ e = d /\ disk'[1] = {}
    BY <1>3, <1>6, <1>8 DEF IInv, PerDaemon
  <2> QED BY <1>1, <2>1 DEF BesideFirst
<1>14. ASSUME NEW e \in Daemons, NEW t \in Sessions PROVE RecoveredBy(e, t)'
  BY <1>1, <1>9 DEF IInv, PerSession, RecoveredBy
<1>15. ASSUME NEW e \in Daemons, NEW t \in Sessions PROVE ServedBy(e, t)'
  <2>1. rel[e][t] = "fenced" => e # x
    BY <1>4 DEF IInv, Memory
  <2> QED BY <1>1, <1>3, <2>1 DEF IInv, PerSession, ServedBy
<1>16. Intents'
  BY <1>1, <1>3, <1>4 DEF IInv, Intents
<1>17. IntentKept'
  BY <1>1, <1>3, <1>6, <1>7 DEF IInv, IntentKept
<1> QED BY <1>10, <1>11, <1>12, <1>13, <1>14, <1>15, <1>16, <1>17 DEF PerDaemon, PerSession

\* A session that comes back has no intent anywhere, so none of its releases freed the device.
LEMMA Fresh ==
  ASSUME IInv, NEW d \in Daemons, NEW s \in Sessions, Rehydrate(d, s) \/ RecoverOnDemand(d, s)
  PROVE  /\ life[d] = "up" /\ d \in Live /\ life[1] # "up" /\ d # 1 /\ Claim(d, s)
         /\ s \notin ended /\ s \notin cache[d] /\ recovered[d][s] = NoFile
         /\ \A x \in Daemons : s \notin disk[x]
         /\ listed[d] = {1} => 1 \in readOf[d]
<1> USE DEF IInv, Journals, Typed
<1>1. /\ life[d] = "up" /\ rel[d][s] = "none" /\ ~row[s].ended /\ row[s].owner \notin Live
      /\ ~Applies(d, s) /\ d \in Live /\ Claim(d, s)
  BY DEF Rehydrate, RecoverOnDemand, Recoverable, Live
<1>2. life[1] # "up"
  BY <1>1, Numbers DEF First, Live
<1>3. d # 1 /\ RecoveredBy(d, s)
  BY <1>1, <1>2 DEF PerSession
<1>4. recovered[d][s] = NoFile
  BY <1>1, <1>3 DEF RecoveredBy, Applies
<1>5. s \notin cache[d]
  BY <1>1, <1>4, Numbers DEF PerSession, ServedBy
<1>6. s \notin disk[d]
  BY <1>1, <1>5 DEF Intents
<1>7. listed[d] = {1} => 1 \in readOf[d]
  <2> SUFFICES ASSUME listed[d] = {1} PROVE 1 \in readOf[d]
    OBVIOUS
  <2>1. row[s].owner \in Daemons /\ row[s].owner # d
    BY <1>1 DEF TypeOK
  <2>2. row[s].owner = 1
    BY <1>1, <2>1, Third
  <2> QED BY <2>2 DEF Rehydrate, RecoverOnDemand
<1>8. ASSUME NEW x \in Daemons \ {d} PROVE s \notin disk[x]
  <2>1. CASE listed[d] = {}
    BY <1>1, <1>3, <2>1 DEF PerDaemon, AdoptedBy
  <2>2. CASE listed[d] = {1} /\ x # 1
    BY <1>1, <2>2, Third
  <2>3. CASE listed[d] = {1} /\ x = 1
    <3>1. BesideFirst(d) /\ NoFile # 1
      BY DEF PerDaemon, NoFile
    <3> QED BY <1>1, <1>4, <1>7, <2>3, <3>1 DEF BesideFirst
  <2> QED BY <2>1, <2>2, <2>3 DEF Order
<1>9. s \notin ended
  BY <1>1, <1>6, <1>8 DEF IntentKept
<1> QED BY <1>1, <1>2, <1>3, <1>4, <1>5, <1>6, <1>7, <1>8, <1>9

\* A session that comes back is served by the daemon its row names.
LEMMA ClaimStep ==
  ASSUME Dependable, IInv, NEW d \in Daemons, NEW s \in Sessions, Rehydrate(d, s) \/ RecoverOnDemand(d, s)
  PROVE  Journals'
<1> USE DEF startVars, fileVars, memVars, Journals, Typed
<1>1. /\ life[d] = "up" /\ d \in Live /\ life[1] # "up" /\ d # 1 /\ Claim(d, s)
      /\ s \notin ended /\ s \notin cache[d] /\ recovered[d][s] = NoFile
      /\ \A x \in Daemons : s \notin disk[x]
      /\ listed[d] = {1} => 1 \in readOf[d]
  BY Fresh
<1>2. /\ UNCHANGED <<startVars, fileVars, memVars, ended, wanted>> /\ Live' = Live
      /\ rel'[d][s] = "live" /\ row'[s].owner = d /\ ~row'[s].ended
      /\ \A x \in Daemons, t \in Sessions : x # d \/ t # s => rel'[x][t] = rel[x][t]
      /\ \A t \in Sessions : t # s => row'[t] = row[t]
  BY <1>1 DEF Claim, IInv, TypeOK, Live
<1>3. \A e \in Daemons \ {d} : life[e] # "up"
  BY <1>1, Alone DEF Live
<1>4. \A e \in Daemons \ {d}, t \in Sessions : rel[e][t] = "none" /\ recovered[e][t] = NoFile /\ cache[e] = {}
  BY <1>3 DEF IInv, Memory
<1>7. Memory'
  BY <1>1, <1>2, <1>3 DEF IInv, Memory
<1>8. First'
  BY <1>1, <1>2 DEF First
<1>9. ASSUME NEW e \in Daemons PROVE AdoptedBy(e)'
  BY <1>2 DEF IInv, PerDaemon, AdoptedBy
<1>10. ASSUME NEW e \in Daemons PROVE BesideFirst(e)'
  <2> SUFFICES ASSUME e \in Live, listed[e] = {1} PROVE BesideFirst(e)'
    BY <1>2 DEF BesideFirst
  <2>1. BesideFirst(e) /\ e = d
    BY <1>1, Alone DEF IInv, PerDaemon
  <2>2. \A u \in disk[1] : row[u].ended \/ recovered[e][u] = 1
    BY <1>1, <2>1 DEF BesideFirst
  <2>3. \A u \in disk[1] : row'[u].ended \/ recovered[e][u] = 1
    <3>1. \A u \in disk[1] : u \in Sessions /\ u # s
      BY <1>1, Numbers DEF IInv, TypeOK
    <3> QED BY <1>2, <2>2, <3>1
  <2> QED BY <1>1, <1>2, <2>1, <2>3 DEF BesideFirst
<1>12. ASSUME NEW e \in Daemons, NEW t \in Sessions PROVE RecoveredBy(e, t)'
  BY <1>1, <1>2, <1>4 DEF IInv, PerSession, RecoveredBy
<1>13. ASSUME NEW e \in Daemons, NEW t \in Sessions PROVE ServedBy(e, t)'
  BY <1>1, <1>2, <1>4 DEF IInv, PerSession, ServedBy
<1>14. Intents'
  BY <1>2 DEF IInv, Intents
<1>15. IntentKept'
  BY <1>1, <1>2 DEF IInv, IntentKept, TypeOK
<1> QED BY <1>7, <1>8, <1>9, <1>10, <1>12, <1>13, <1>14, <1>15 DEF PerDaemon, PerSession

-----------------------------------------------------------------------------
(* The theorems *)

\* The first daemon serves every session and no file has an intent.
LEMMA Initial == ASSUME Init PROVE IInv
<1> USE Numbers DEF Init
<1>1. Typed
  <2>1. faults \in 0..MaxFaults
    BY JournalAssumption
  <2>2. /\ life \in [Daemons -> {"new", "starting", "adopting", "up", "dead"}]
        /\ rel \in [Daemons -> [Sessions -> {"none", "live", "fenced", "volatile", "owed", "landed"}]]
        /\ row \in [Sessions -> [owner : Daemons, ended : BOOLEAN, swept : BOOLEAN]]
    OBVIOUS
  <2>3. torn \in [Daemons -> BOOLEAN] /\ Whole
    BY DEF Whole
  <2> QED BY <2>1, <2>2, <2>3 DEF Typed, TypeOK
<1>2. life[1] = "up" /\ Live = {1} /\ \A d \in Daemons \ {1} : life[d] = "new"
  BY DEF Live
<1>3. Order
  BY <1>2 DEF Order
<1>4. Memory /\ First
  BY <1>2 DEF Memory, First
<1>5. PerDaemon
  BY <1>2 DEF PerDaemon, AdoptedBy, BesideFirst
<1>6. PerSession
  BY <1>2 DEF PerSession, RecoveredBy, ServedBy
<1>7. Intents /\ IntentKept
  BY DEF Intents, IntentKept
<1> QED BY <1>1, <1>3, <1>4, <1>5, <1>6, <1>7 DEF IInv, Journals

\* Every step keeps the invariant.
LEMMA Inductive == ASSUME Dependable, IInv, [Next]_vars PROVE IInv'
<1>1. Typed' /\ Order'
  BY TypeStep, OrderStep DEF IInv, Journals, Typed
<1>2. Journals'
  <2>1. CASE UNCHANGED vars
    BY <2>1 DEF vars, startVars, fileVars, memVars, IInv, Journals, Memory, First, PerDaemon, AdoptedBy,
                BesideFirst, PerSession, RecoveredBy, ServedBy, Intents, IntentKept, Live
  <2>2. ASSUME NEW d \in Daemons, Startup(d) \/ Crash(d) PROVE Journals'
    BY <1>1, <2>2, StartStep, OpenStep, AttachStep, AdoptStep, CrashStep DEF Startup
  <2>3. ASSUME NEW d \in Daemons, NEW x \in Daemons, ReadDead(d, x) \/ Discard(d, x) PROVE Journals'
    BY <2>3, ReadStep, DiscardStep
  <2>4. ASSUME NEW d \in Daemons, NEW s \in Sessions,
               \/ Release(d, s) \/ SettleWrite(d, s) \/ SettleDone(d, s) \/ Rehydrate(d, s) \/ RecoverOnDemand(d, s)
        PROVE  Journals'
    BY <2>4, FenceStep, DeclineStep, CommitStep, SettleWriteStep, SettleDoneStep, ClaimStep DEF Release
  <2> QED BY <2>1, <2>2, <2>3, <2>4 DEF Next
<1> QED BY <1>1, <1>2 DEF IInv

\* The intent of a release that freed its device is on disk until its row is terminal, and the
\* row of a served session is its daemon's and not terminal: for any number of restarts,
\* crashes at any point, failing appends and compactions (FileTerminalReleaseJournal).
THEOREM JournalIsSound == ASSUME Dependable PROVE Spec => []JournalSound
<1>1. Init => IInv
  BY Initial
<1>2. IInv /\ [Next]_vars => IInv'
  BY Inductive
<1>3. IInv => JournalSound
  <2> SUFFICES ASSUME IInv PROVE JournalSound
    OBVIOUS
  <2>1. LiveRowKept
    BY DEF IInv, Journals, PerSession, ServedBy, LiveRowKept
  <2> QED BY <2>1 DEF IInv, Journals, Typed, JournalSound
<1> QED BY <1>1, <1>2, <1>3, PTL DEF Spec

\* Who serves a session anew, declines a fence or claims its row.
LEMMA Serves ==
  ASSUME IInv, Next, NEW d \in Daemons, NEW s \in Sessions, rel[d][s] # "live", rel'[d][s] = "live"
  PROVE  Decline(d, s) \/ Rehydrate(d, s) \/ RecoverOnDemand(d, s)
<1> USE DEF startVars, fileVars, memVars
<1>0. rel \in [Daemons -> [Sessions -> {"none", "live", "fenced", "volatile", "owed", "landed"}]]
  BY DEF IInv, Typed, TypeOK
<1>1. rel' # rel
  OBVIOUS
<1>2. ASSUME NEW e \in Daemons, Startup(e) PROVE FALSE
  BY <1>1, <1>2 DEF Startup, Start, OpenJournal, Attach, AdoptCopy, AdoptRemove
<1>3. ASSUME NEW e \in Daemons, NEW x \in Daemons, ReadDead(e, x) \/ Discard(e, x) PROVE FALSE
  BY <1>1, <1>3 DEF ReadDead, Discard
<1>4. ASSUME NEW e \in Daemons, Crash(e) PROVE FALSE
  <2>1. rel' = [rel EXCEPT ![e] = [u \in Sessions |-> "none"]]
    BY <1>4 DEF Crash
  <2> QED BY <1>0, <2>1
<1>5. ASSUME NEW e \in Daemons, NEW t \in Sessions,
             Fence(e, t) \/ Commit(e, t) \/ TimeOut(e, t) \/ WriteRow(e, t) \/ Confirm(e, t)
             \/ SettleWrite(e, t) \/ SettleDone(e, t)
      PROVE  FALSE
  <2>1. rel' = rel \/ \E v \in {"fenced", "volatile", "owed", "landed", "none"} : rel' = [rel EXCEPT ![e][t] = v]
    BY <1>5 DEF Fence, Commit, TimeOut, WriteRow, Confirm, SettleWrite, SettleDone
  <2> QED BY <1>0, <1>1, <2>1
<1>6. ASSUME NEW e \in Daemons, NEW t \in Sessions, Decline(e, t) \/ Rehydrate(e, t) \/ RecoverOnDemand(e, t)
      PROVE  e = d /\ t = s
  <2>1. rel' = [rel EXCEPT ![e][t] = "live"]
    BY <1>6 DEF Decline, Rehydrate, RecoverOnDemand, Claim
  <2> QED BY <1>0, <2>1
<1> QED BY <1>2, <1>3, <1>4, <1>5, <1>6 DEF Next, Release

\* A session whose release freed the device, or whose row landed, is never served again: not by
\* a successor, nor by a peer that reads the journal of the daemon that died in between.
THEOREM SessionsStayReleased == ASSUME Dependable PROVE Spec => NeverRevived
<1>1. Init => IInv
  BY Initial
<1>2. IInv /\ [Next]_vars => IInv'
  BY Inductive
<1>3. IInv /\ [Next]_vars =>
        [\A d \in Daemons, s \in ended : rel[d][s] # "live" => rel'[d][s] # "live"]_vars
  <2> SUFFICES ASSUME IInv, Next, NEW d \in Daemons, NEW s \in ended, rel[d][s] # "live", rel'[d][s] = "live"
               PROVE  FALSE
    OBVIOUS
  <2>1. s \in Sessions
    BY DEF IInv, Typed, TypeOK
  <2>2. ~(Rehydrate(d, s) \/ RecoverOnDemand(d, s))
    BY <2>1, Fresh
  <2>3. ~Decline(d, s)
    BY <2>1 DEF Decline, IInv, Journals, PerSession, ServedBy
  <2> QED BY <2>1, <2>2, <2>3, Serves
<1> QED BY <1>1, <1>2, <1>3, PTL DEF Spec, NeverRevived

\* Who ends a row has a release or a recovered intent of it.
LEMMA Ends ==
  ASSUME IInv, Next, NEW s \in Sessions, row'[s].ended, ~row[s].ended
  PROVE  \E d \in Daemons : WriteRow(d, s) \/ SettleWrite(d, s)
<1> USE DEF startVars, fileVars, memVars
<1>0. row \in [Sessions -> [owner : Daemons, ended : BOOLEAN, swept : BOOLEAN]]
  BY DEF IInv, Typed, TypeOK
<1>1. row' # row
  OBVIOUS
<1>2. ASSUME NEW e \in Daemons, Startup(e) \/ Crash(e) PROVE FALSE
  <2>1. CASE Start(e)
    BY <1>0, <2>1 DEF Start
  <2>2. CASE ~Start(e)
    BY <1>1, <1>2, <2>2 DEF Startup, OpenJournal, Attach, AdoptCopy, AdoptRemove, Crash
  <2> QED BY <2>1, <2>2
<1>3. ASSUME NEW e \in Daemons, NEW x \in Daemons, ReadDead(e, x) \/ Discard(e, x) PROVE FALSE
  BY <1>1, <1>3 DEF ReadDead, Discard
<1>4. ASSUME NEW e \in Daemons, NEW t \in Sessions,
             Fence(e, t) \/ Decline(e, t) \/ Commit(e, t) \/ TimeOut(e, t) \/ Confirm(e, t) \/ SettleDone(e, t)
      PROVE  FALSE
  BY <1>1, <1>4 DEF Fence, Decline, Commit, TimeOut, Confirm, SettleDone
<1>5. ASSUME NEW e \in Daemons, NEW t \in Sessions, Rehydrate(e, t) \/ RecoverOnDemand(e, t) PROVE FALSE
  <2>1. row' = [row EXCEPT ![t] = [owner |-> e, ended |-> FALSE, swept |-> FALSE]]
    BY <1>5 DEF Rehydrate, RecoverOnDemand, Claim
  <2> QED BY <1>0, <2>1
<1>6. ASSUME NEW e \in Daemons, NEW t \in Sessions, WriteRow(e, t) \/ SettleWrite(e, t) PROVE t = s
  <2>1. \A u \in Sessions : u # t => row'[u] = row[u]
    BY <1>0, <1>6 DEF WriteRow, SettleWrite
  <2> QED BY <2>1
<1> QED BY <1>2, <1>3, <1>4, <1>5, <1>6 DEF Next, Release

\* A row becomes terminal only for a release whose fence was not lifted: no stale intent in a
\* file, in a successor's copy of it or in a survivor's memory ends a session that kept its device.
THEOREM OnlyWantedEnd == ASSUME Dependable PROVE Spec => EndedWasWanted
<1>1. Init => IInv
  BY Initial
<1>2. IInv /\ [Next]_vars => IInv'
  BY Inductive
<1>3. IInv /\ [Next]_vars => [\A s \in Sessions : row'[s].ended /\ ~row[s].ended => s \in wanted]_vars
  <2> SUFFICES ASSUME IInv, Next, NEW s \in Sessions, row'[s].ended, ~row[s].ended PROVE s \in wanted
    OBVIOUS
  <2>1. PICK d \in Daemons : WriteRow(d, s) \/ SettleWrite(d, s)
    BY Ends
  <2>2. CASE WriteRow(d, s)
    BY <2>2 DEF WriteRow, IInv, Journals, PerSession, ServedBy
  <2>3. CASE SettleWrite(d, s)
    BY <2>3, Owed DEF SettleWrite, Applies
  <2> QED BY <2>1, <2>2, <2>3
<1> QED BY <1>1, <1>2, <1>3, PTL DEF Spec, EndedWasWanted
=============================================================================
