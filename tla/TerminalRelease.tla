--------------------------- MODULE TerminalRelease ---------------------------
(***************************************************************************)
(* The terminal-release journal: what a daemon records before it frees the *)
(* device of a session that ended, and how the daemons after it, and the   *)
(* daemons beside it, keep that session from being recovered.              *)
(*                                                                         *)
(* A journal file is the set of intents a replay of its lines yields, and  *)
(* whether it ends in a line without its newline. Daemons are processes: a *)
(* restart is the next of them.                                            *)
(***************************************************************************)
EXTENDS Naturals, FiniteSets

CONSTANTS
  N,          \* the daemon processes are 1..N, in the order they start
  Sessions,
  Overlap,    \* the daemons that may start beside a live one
  Faults,     \* the file operations that can fail
  MaxFaults   \* bound: failing file operations

ASSUME JournalAssumption ==
  /\ N \in Nat \ {0}
  /\ Overlap \subseteq 1..N
  /\ Faults \subseteq {"append", "torn", "compact", "adopt", "remove"}
  /\ MaxFaults \in Nat

Daemons == 1..N

VARIABLES
  life,      \* of each daemon
  listed,    \* startupLiveDaemonSessionIds
  todo,      \* dead journals the starting daemon has still to adopt
  copied,    \* dead journals whose intents are in its own file
  disk,      \* the intents a replay of each file yields
  torn,      \* whether the file ends in a partial line
  cache,     \* FileTerminalReleaseJournal.intents
  recovered, \* recoveredTerminalIntents: whose file an intent came from, or NoFile
  readOf,    \* adoptedDeadJournals
  rel,       \* the session in this daemon
  row,       \* device_sessions
  faults,
  ended,     \* history: releases that freed the device under the journal's promise
  wanted     \* history: fences raised and not lifted

startVars == <<life, listed, todo, copied>>
fileVars == <<disk, torn, faults>>
memVars == <<cache, recovered, readOf>>
vars == <<startVars, fileVars, memVars, rel, row, ended, wanted>>

NoFile == 0

TypeOK ==
  /\ life \in [Daemons -> {"new", "starting", "adopting", "up", "dead"}]
  /\ listed \in [Daemons -> SUBSET Daemons]
  /\ todo \in [Daemons -> SUBSET Daemons] /\ copied \in [Daemons -> SUBSET Daemons]
  /\ disk \in [Daemons -> SUBSET Sessions] /\ torn \in [Daemons -> BOOLEAN]
  /\ cache \in [Daemons -> SUBSET Sessions]
  /\ recovered \in [Daemons -> [Sessions -> Daemons \cup {NoFile}]]
  /\ readOf \in [Daemons -> SUBSET Daemons]
  /\ rel \in [Daemons -> [Sessions -> {"none", "live", "fenced", "volatile", "owed", "landed"}]]
  /\ row \in [Sessions -> [owner : Daemons, ended : BOOLEAN, swept : BOOLEAN]]
  /\ faults \in 0..MaxFaults
  /\ ended \in SUBSET Sessions /\ wanted \in SUBSET Sessions

\* the first daemon is up and serves every session
Init ==
  /\ life = [d \in Daemons |-> IF d = 1 THEN "up" ELSE "new"]
  /\ listed = [d \in Daemons |-> {}]
  /\ todo = [d \in Daemons |-> {}] /\ copied = [d \in Daemons |-> {}]
  /\ disk = [d \in Daemons |-> {}] /\ torn = [d \in Daemons |-> FALSE]
  /\ cache = [d \in Daemons |-> {}]
  /\ recovered = [d \in Daemons |-> [s \in Sessions |-> NoFile]]
  /\ readOf = [d \in Daemons |-> {}]
  /\ rel = [d \in Daemons |-> [s \in Sessions |-> IF d = 1 THEN "live" ELSE "none"]]
  /\ row = [s \in Sessions |-> [owner |-> 1, ended |-> FALSE, swept |-> FALSE]]
  /\ faults = 0
  /\ ended = {} /\ wanted = {}

\* a daemon is listed as live from its early owner record on
Live == {d \in Daemons : life[d] \in {"starting", "adopting", "up"}}

Fault(kind) == kind \in Faults /\ faults < MaxFaults /\ faults' = faults + 1

-----------------------------------------------------------------------------
(* The journal file *)

\* appendDurable: the first line is glued to a partial line before it, and lost with it
AppendIntents(d, ss) ==
  /\ \E lost \in SUBSET ss :
       /\ IF torn[d] /\ ss # {} THEN Cardinality(lost) = 1 ELSE lost = {}
       /\ disk' = [disk EXCEPT ![d] = @ \cup (ss \ lost)]
  /\ torn' = [torn EXCEPT ![d] = @ /\ ss = {}]
  /\ UNCHANGED faults

\* a write that fails before or after some of its bytes are in the file
AppendFails(d, ss) ==
  \/ /\ Fault("append")
     /\ UNCHANGED <<disk, torn>>
  \/ /\ Fault("torn")
     /\ \E written \in SUBSET ss :
          /\ written # ss
          /\ disk' = [disk EXCEPT ![d] = @ \cup (IF torn[d] THEN {} ELSE written)]
     /\ torn' = [torn EXCEPT ![d] = TRUE]

Compact(d, ss) ==
  /\ disk' = [disk EXCEPT ![d] = ss]
  /\ torn' = [torn EXCEPT ![d] = FALSE]
  /\ UNCHANGED faults

\* MUTANT of Lift: a failed compaction leaves the intent in the file
Lift_NoMarker(d, s) ==
  \/ Compact(d, cache[d] \ {s})
  \/ Fault("compact") /\ UNCHANGED <<disk, torn>>

\* resolve: compact the file, or make the lift durable with a marker
Lift(d, s) ==
  \/ Compact(d, cache[d] \ {s})
  \/ /\ Fault("compact")
     /\ disk' = [disk EXCEPT ![d] = IF torn[d] THEN @ ELSE @ \ {s}]
     /\ torn' = [torn EXCEPT ![d] = FALSE]

\* resolve
Resolve(d, s) ==
  IF s \notin cache[d] THEN UNCHANGED <<cache, fileVars>>
  ELSE /\ cache' = [cache EXCEPT ![d] = @ \ {s}]
       /\ Lift(d, s)

-----------------------------------------------------------------------------
(* A terminal release in the daemon that serves the session *)

\* fenceTerminal: raise the fence and record the intent
Fence(d, s) ==
  /\ life[d] = "up" /\ rel[d][s] = "live"
  /\ cache' = [cache EXCEPT ![d] = @ \cup {s}]
  /\ wanted' = wanted \cup {s}
  /\ \/ /\ AppendIntents(d, {s})
        /\ rel' = [rel EXCEPT ![d][s] = "fenced"]
     \/ /\ AppendFails(d, {s})
        /\ rel' = [rel EXCEPT ![d][s] = "volatile"]
  /\ UNCHANGED <<startVars, recovered, readOf, row, ended>>

\* the final fence declines: a newer confirmation keeps the session
Decline(d, s) ==
  /\ life[d] = "up" /\ rel[d][s] = "fenced"
  /\ Resolve(d, s)
  /\ rel' = [rel EXCEPT ![d][s] = "live"]
  /\ wanted' = wanted \ {s}
  /\ UNCHANGED <<startVars, recovered, readOf, row, ended>>

\* commitReleaseRemoval on a durable intent: the device is free, the row is owed
Commit(d, s) ==
  /\ life[d] = "up" /\ rel[d][s] = "fenced"
  /\ rel' = [rel EXCEPT ![d][s] = "owed"]
  /\ ended' = ended \cup {s}
  /\ UNCHANGED <<startVars, fileVars, memVars, row, wanted>>

\* MUTANT of TimeOut: the device is freed as if the intent were on disk
TimeOut_Promised(d, s) ==
  /\ life[d] = "up" /\ rel[d][s] = "volatile"
  /\ rel' = [rel EXCEPT ![d][s] = "owed"]
  /\ ended' = ended \cup {s}
  /\ UNCHANGED <<startVars, fileVars, memVars, row, wanted>>

\* persistTerminalReleaseWithinDeadline: a volatile release frees its device at the deadline
TimeOut(d, s) ==
  /\ life[d] = "up" /\ rel[d][s] = "volatile"
  /\ rel' = [rel EXCEPT ![d][s] = "owed"]
  /\ UNCHANGED <<startVars, fileVars, memVars, row, ended, wanted>>

\* markReleased under unlessTerminalOrOwnedByLivePeer: another daemon's row is refused
WriteRow(d, s) ==
  /\ life[d] = "up" /\ rel[d][s] \in {"volatile", "owed"}
  /\ row' = [row EXCEPT ![s].ended = @ \/ row[s].owner = d]
  /\ rel' = [rel EXCEPT ![d][s] = "landed"]
  /\ ended' = IF row[s].owner = d THEN ended \cup {s} ELSE ended
  /\ UNCHANGED <<startVars, fileVars, memVars, wanted>>

\* confirmReleaseWrite
Confirm(d, s) ==
  /\ life[d] = "up" /\ rel[d][s] = "landed"
  /\ Resolve(d, s)
  /\ rel' = [rel EXCEPT ![d][s] = "none"]
  /\ UNCHANGED <<startVars, recovered, readOf, row, ended, wanted>>

-----------------------------------------------------------------------------
(* Start-up *)

\* list the live daemons, then hand the rows of the others to recovery
Start(d) ==
  /\ life[d] = "new" /\ \A x \in Daemons : x < d => life[x] # "new"
  /\ d \in Overlap \/ Live = {}
  /\ life' = [life EXCEPT ![d] = "starting"]
  /\ listed' = [listed EXCEPT ![d] = Live]
  /\ row' = [s \in Sessions |->
               IF row[s].ended \/ row[s].owner \in Live THEN row[s]
               ELSE [row[s] EXCEPT !.swept = TRUE]]
  /\ UNCHANGED <<todo, copied, fileVars, memVars, rel, ended, wanted>>

\* deadDaemonJournalPaths: by the live daemons listed before
OpenJournal(d) ==
  /\ life[d] = "starting"
  /\ life' = [life EXCEPT ![d] = "adopting"]
  /\ todo' = [todo EXCEPT ![d] = {x \in Daemons \ (listed[d] \cup {d}) : disk[x] # {} \/ torn[x]}]
  /\ UNCHANGED <<listed, copied, fileVars, memVars, rel, row, ended, wanted>>

\* MUTANT of AdoptCopy: the dead journal is removed without being copied
AdoptCopy_Skipped(d, x) ==
  /\ life[d] = "adopting" /\ x \in todo[d] \ copied[d]
  /\ copied' = [copied EXCEPT ![d] = @ \cup {x}]
  /\ UNCHANGED <<life, listed, todo, fileVars, memVars, rel, row, ended, wanted>>

\* adoptDeadDaemonJournals: the intents are in the own file before the dead one goes away
AdoptCopy(d, x) ==
  /\ life[d] = "adopting" /\ x \in todo[d] \ copied[d]
  /\ \/ /\ AppendIntents(d, disk[x])
        /\ copied' = [copied EXCEPT ![d] = @ \cup {x}]
        /\ UNCHANGED todo
     \/ /\ Fault("adopt")
        /\ todo' = [todo EXCEPT ![d] = @ \ {x}]
        /\ UNCHANGED <<disk, torn, copied>>
  /\ UNCHANGED <<life, listed, memVars, rel, row, ended, wanted>>

AdoptRemove(d, x) ==
  /\ life[d] = "adopting" /\ x \in copied[d]
  /\ todo' = [todo EXCEPT ![d] = @ \ {x}]
  /\ copied' = [copied EXCEPT ![d] = @ \ {x}]
  /\ \/ Compact(x, {})
     \/ Fault("remove") /\ UNCHANGED <<disk, torn>>
  /\ UNCHANGED <<life, listed, memVars, rel, row, ended, wanted>>

\* attachTerminalReleaseJournal: loadUnconfirmed drops a partial line and fences the rest
Attach(d) ==
  /\ life[d] = "adopting" /\ todo[d] = {}
  /\ life' = [life EXCEPT ![d] = "up"]
  /\ cache' = [cache EXCEPT ![d] = disk[d]]
  /\ recovered' = [recovered EXCEPT ![d] = [s \in Sessions |-> IF s \in disk[d] THEN d ELSE NoFile]]
  /\ \/ Compact(d, disk[d])
     \/ torn[d] /\ Fault("compact") /\ UNCHANGED <<disk, torn>>
  /\ UNCHANGED <<listed, todo, copied, readOf, rel, row, ended, wanted>>

-----------------------------------------------------------------------------
(* Recovered intents, and the journal of a peer that died later *)

\* adoptedTerminalReleaseApplies, and the fence of the write
Applies(d, s) ==
  /\ recovered[d][s] # NoFile
  /\ recovered[d][s] = d \/ row[s].owner = recovered[d][s]

\* MUTANT of FenceDead: the rows are read without the journal of their owner
FenceDead_Nothing(d, x) ==
  /\ readOf' = [readOf EXCEPT ![d] = @ \cup {x}]
  /\ UNCHANGED recovered

\* fenceDeadDaemonIntents
FenceDead(d, x) ==
  /\ readOf' = [readOf EXCEPT ![d] = @ \cup {x}]
  /\ recovered' = [recovered EXCEPT ![d] =
                     [s \in Sessions |-> IF s \in disk[x] THEN x ELSE @[s]]]

\* MUTANT of ReadDead: the owner's journal is read before the owner is known to be dead
ReadDead_Unconfirmed(d, x) ==
  /\ life[d] = "up" /\ x # d /\ x \notin readOf[d]
  /\ \E s \in Sessions : row[s].owner = x /\ ~row[s].ended
  /\ FenceDead(d, x)
  /\ UNCHANGED <<startVars, fileVars, cache, rel, row, ended, wanted>>

\* adoptDeadOwnerTerminalReleases: a row of a daemon confirmed dead is read
ReadDead(d, x) ==
  /\ life[d] = "up" /\ x \notin Live /\ x \notin readOf[d]
  /\ \E s \in Sessions : row[s].owner = x /\ ~row[s].ended
  /\ FenceDead(d, x)
  /\ UNCHANGED <<startVars, fileVars, cache, rel, row, ended, wanted>>

\* applyRecoveredTerminalReleaseIntents: the row first
SettleWrite(d, s) ==
  /\ life[d] = "up" /\ Applies(d, s) /\ ~row[s].ended
  /\ row' = [row EXCEPT ![s].ended = TRUE]
  /\ UNCHANGED <<startVars, fileVars, memVars, rel, ended, wanted>>

\* MUTANT of Settled: an intent whose write failed is dropped as well
Settled_Always(d, s) == recovered[d][s] # NoFile

Settled(d, s) == recovered[d][s] # NoFile /\ (row[s].ended \/ ~Applies(d, s))

\* then the intent
SettleDone(d, s) ==
  /\ life[d] = "up" /\ Settled(d, s)
  /\ recovered' = [recovered EXCEPT ![d][s] = NoFile]
  /\ Resolve(d, s)
  /\ UNCHANGED <<startVars, readOf, rel, row, ended, wanted>>

\* MUTANT of Discardable: the dead journal goes away while its writes are owed
Discardable_Read(d, x) == x \in readOf[d]

Discardable(d, x) == x \in readOf[d] /\ \A s \in Sessions : recovered[d][s] # x

\* discardDeadDaemon
Discard(d, x) ==
  /\ life[d] = "up" /\ Discardable(d, x) /\ (disk[x] # {} \/ torn[x])
  /\ \/ Compact(x, {})
     \/ Fault("remove") /\ UNCHANGED <<disk, torn>>
  /\ UNCHANGED <<startVars, memVars, rel, row, ended, wanted>>

\* a row withRecoveredTerminalRelease does not read as released, whose owner is not live
Recoverable(d, s) ==
  /\ life[d] = "up" /\ rel[d][s] = "none"
  /\ ~row[s].ended /\ row[s].owner \notin Live
  /\ ~Applies(d, s)

Claim(d, s) ==
  /\ row' = [row EXCEPT ![s] = [owner |-> d, ended |-> FALSE, swept |-> FALSE]]
  /\ rel' = [rel EXCEPT ![d][s] = "live"]
  /\ UNCHANGED <<startVars, fileVars, memVars, ended, wanted>>

\* rehydratePersistedSessions: rows the sweep left, of daemons not listed as live
Rehydrate(d, s) ==
  /\ Recoverable(d, s)
  /\ row[s].swept /\ row[s].owner < d /\ row[s].owner \notin listed[d]
  /\ Claim(d, s)

\* a call for the session: readPersistedSession, then the recovery
RecoverOnDemand(d, s) ==
  /\ Recoverable(d, s)
  /\ row[s].owner \in readOf[d]
  /\ Claim(d, s)

\* the process dies; one daemon of the instance outlives the others
Crash(d) ==
  /\ d \in Live /\ \E x \in Daemons \ {d} : life[x] # "dead"
  /\ life' = [life EXCEPT ![d] = "dead"]
  /\ todo' = [todo EXCEPT ![d] = {}] /\ copied' = [copied EXCEPT ![d] = {}]
  /\ cache' = [cache EXCEPT ![d] = {}]
  /\ recovered' = [recovered EXCEPT ![d] = [s \in Sessions |-> NoFile]]
  /\ readOf' = [readOf EXCEPT ![d] = {}]
  /\ rel' = [rel EXCEPT ![d] = [s \in Sessions |-> "none"]]
  /\ UNCHANGED <<listed, fileVars, row, ended, wanted>>

-----------------------------------------------------------------------------
Release(d, s) ==
  \/ Fence(d, s) \/ Decline(d, s) \/ Commit(d, s) \/ TimeOut(d, s)
  \/ WriteRow(d, s) \/ Confirm(d, s)

Startup(d) ==
  \/ Start(d) \/ OpenJournal(d) \/ Attach(d)
  \/ \E x \in Daemons : AdoptCopy(d, x) \/ AdoptRemove(d, x)

Next ==
  \/ \E d \in Daemons : Startup(d) \/ Crash(d)
  \/ \E d, x \in Daemons : ReadDead(d, x) \/ Discard(d, x)
  \/ \E d \in Daemons, s \in Sessions :
       \/ Release(d, s) \/ SettleWrite(d, s) \/ SettleDone(d, s)
       \/ Rehydrate(d, s) \/ RecoverOnDemand(d, s)

Spec == Init /\ [][Next]_vars

\* a start-up runs to its end, and the writes of owed rows and recovered intents are retried
FairSpec ==
  /\ Spec
  /\ \A d \in Daemons : WF_vars(Startup(d))
  /\ \A d \in Daemons, s \in Sessions :
       WF_vars(WriteRow(d, s)) /\ WF_vars(SettleWrite(d, s))

-----------------------------------------------------------------------------
\* Once a release freed its device on a durable intent, or its row landed, no
\* daemon serves the session again: not the next one, nor a live peer that reads
\* the row of the daemon that died between the intent and the row.
NeverRevived ==
  [][\A d \in Daemons, s \in ended : rel[d][s] # "live" => rel'[d][s] # "live"]_vars

\* Until the row is terminal, the intent of a release that freed its device is on
\* disk in some daemon's file: across a torn write, a failed compaction, the copy
\* into a successor's file, and the settling by a survivor.
IntentKept ==
  \A s \in ended : row[s].ended \/ \E d \in Daemons : s \in disk[d]

\* A row only becomes terminal for a release whose fence was not lifted again: a
\* stale intent left in a file never ends a session that kept its device.
EndedWasWanted ==
  [][\A s \in Sessions : row'[s].ended /\ ~row[s].ended => s \in wanted]_vars

\* The row of a session a daemon serves is that daemon's and is not terminal:
\* nobody who read a dead daemon's journal ends it after it was recovered.
LiveRowKept ==
  \A d \in Daemons, s \in Sessions :
    rel[d][s] \in {"live", "fenced"} => row[s].owner = d /\ ~row[s].ended

\* Files and rows agree with what the daemons serve and have promised.
JournalSound == TypeOK /\ IntentKept /\ LiveRowKept

\* The terminal row of a release that freed its device lands at last, whichever daemons
\* die before it does, unless a daemon runs that listed the row's owner as live when it
\* started: that one reads the owner's journal only when a call names the session.
Beside(d, s) == life[d] = "up" /\ row[s].owner \in listed[d]
EndedLands ==
  \A s \in Sessions : s \in ended ~> row[s].ended \/ \E d \in Daemons : Beside(d, s)
=============================================================================
