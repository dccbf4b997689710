---------------------------- MODULE ClaimMirror ----------------------------
(***************************************************************************)
(* The host-wide device_claims table (SqliteDeviceClaims) and each         *)
(* daemon's view of it (StoreDeviceClaimMirror), for ONE device: rows and  *)
(* intents of different devices never meet.                                *)
(*                                                                         *)
(* A daemon is one process incarnation: its PID and its owner token, both  *)
(* of which every compare in the table uses, are one model value.  Every   *)
(* statement is one transaction, so one step.  A daemon's statements share *)
(* one connection, which admits them first come first served; between two  *)
(* statements of one operation everything else may run.                    *)
(***************************************************************************)
EXTENDS Naturals, Sequences

CONSTANTS Daemons,      \* process incarnations that may claim the device
          Calls,        \* claim calls, which also send statements to the table
          None,         \* nobody / nothing
          MaxRetries,   \* length of retryDelaysMs (5 in the code)
          Faulty,       \* daemons whose registry may open late or refuse a statement
          Stamps        \* bound: the values of updatedAtMs

ASSUME BoundsAssumption == MaxRetries \in Nat /\ Stamps \subseteq Nat /\ Faulty \subseteq Daemons

VARIABLES
  row,       \* the device's row: None, or [owner, at], at = updatedAtMs
  mode,      \* [Daemons -> Modes], the mirror's skipped / disposed flags
  store,     \* daemons whose registry is open (options.store() is defined)
  queue,     \* [Daemons -> statements waiting for the connection]; None: the mirror's own
  intent,    \* [Daemons -> None | what the device should read for it]
  armed,     \* daemons with a retry timer set for the intent
  attempts,  \* [Daemons -> retries used by the intent]
  write      \* [Daemons -> None | the mirror's write in flight]

mirrorVars == <<row, mode, store, queue, intent, armed, attempts, write>>

Modes   == {"on", "skipped", "disposed", "withdrawn"}
Rows    == [owner : Daemons, at : Stamps]
Intents == [kind : {"claim", "release"}, acquired : BOOLEAN, synced : BOOLEAN]
Stages  == {"delete", "get", "judge", "put", "ok", "failed"}
\* old: another intent was recorded since the write was issued (its version is not `issued`)
Writes  == [stage : Stages, acquired : BOOLEAN, seen : Rows \cup {None}, old : BOOLEAN]

ASSUME NoneAssumption ==
  /\ None \notin Daemons /\ None \notin Calls
  /\ None \notin Rows /\ None \notin Intents /\ None \notin Writes

MirrorTypeOK ==
  /\ row \in Rows \cup {None}
  /\ mode \in [Daemons -> Modes]
  /\ store \in SUBSET Daemons
  /\ queue \in [Daemons -> Seq(Calls \cup {None})]
  /\ intent \in [Daemons -> Intents \cup {None}]
  /\ armed \in SUBSET Daemons
  /\ attempts \in [Daemons -> 0..MaxRetries]
  /\ write \in [Daemons -> Writes \cup {None}]

\* a registry opens before the first claim, or later where it may be late
MirrorInit ==
  /\ row = None
  /\ mode = [d \in Daemons |-> "on"]
  /\ store \in {open \in SUBSET Daemons : Daemons \ Faulty \subseteq open}
  /\ queue = [d \in Daemons |-> <<>>]
  /\ intent = [d \in Daemons |-> None]
  /\ armed = {}
  /\ attempts = [d \in Daemons |-> 0]
  /\ write = [d \in Daemons |-> None]

-----------------------------------------------------------------------------
(* The statements of SqliteDeviceClaims, on the connection's admission queue. *)

Admitted(d, op) == queue[d] # <<>> /\ Head(queue[d]) = op
Settled(d)      == [queue EXCEPT ![d] = Tail(@)]
SettledThen(d, op) == [queue EXCEPT ![d] = Append(Tail(@), op)]
Enqueued(d, op) == [queue EXCEPT ![d] = Append(@, op)]

NewRow(d, at) == [owner |-> d, at |-> at]

Owns(d, r) == r # None /\ r.owner = d

\* MUTANT of StillExpected: the update names the owner and forgets updated_at_ms
StillExpected_OwnerOnly(expected) ==
  (row = None) = (expected = None) /\ (row # None => row.owner = expected.owner)

\* replaceIf: the insert takes no conflict, the update names owner and updated_at_ms
StillExpected(expected) == row = expected

\* MUTANT of DeleteOwn: the delete does not name the owner
DeleteOwn_AnyRow(d) == row' = None

\* release and releaseOwnedBy: delete the row only while d holds it
DeleteOwn(d) == row' = IF Owns(d, row) THEN None ELSE row

-----------------------------------------------------------------------------
(* Recording an intent and issuing its write. *)

ClaimIntent(acq)  == [kind |-> "claim", acquired |-> acq, synced |-> acq]
ReleaseIntent     == [kind |-> "release", acquired |-> FALSE, synced |-> FALSE]
NewWrite(i) == [stage |-> IF i.kind = "release" THEN "delete" ELSE "get",
                acquired |-> i.acquired, seen |-> None, old |-> FALSE]

\* MUTANT of CanRetry: one delay too many
CanRetry_OneTooMany(d, used) == mode[d] = "on" /\ used <= MaxRetries

\* scheduleRetry, when no timer is set yet and `used` retries were made
CanRetry(d, used) == mode[d] = "on" /\ used < MaxRetries
ScheduleRetry(d, used) ==
  /\ armed' = IF CanRetry(d, used) THEN armed \cup {d} ELSE armed \ {d}
  /\ attempts' = [attempts EXCEPT ![d] = IF CanRetry(d, used) THEN used + 1 ELSE used]

Unarmed(d, used) ==
  /\ armed' = armed \ {d}
  /\ attempts' = [attempts EXCEPT ![d] = used]

\* write() with no write in flight, for intent i with `used` retries: a claim whose file
\* moved on is forgotten, without a registry it is deferred, else it is issued.
IssueWrite(d, i, used, gone, open) ==
  IF i.kind = "claim" /\ ~i.acquired /\ gone
  THEN /\ intent' = [intent EXCEPT ![d] = None]
       /\ write' = [write EXCEPT ![d] = None]
       /\ UNCHANGED queue
       /\ Unarmed(d, 0)
  ELSE /\ intent' = [intent EXCEPT ![d] = i]
       /\ IF open
          THEN /\ write' = [write EXCEPT ![d] = NewWrite(i)]
               /\ queue' = Enqueued(d, None)
               /\ Unarmed(d, used)
          ELSE /\ write' = [write EXCEPT ![d] = None]
               /\ UNCHANGED queue
               /\ ScheduleRetry(d, used)

\* MUTANT of Record: a write in flight is not told that a newer intent exists
Record_NotNoticed(d, i, gone) ==
  IF mode[d] # "on"
  THEN UNCHANGED <<queue, intent, write, armed, attempts>>
  ELSE IF write[d] = None
  THEN IssueWrite(d, i, 0, gone, d \in store)
  ELSE /\ intent' = [intent EXCEPT ![d] = i]
       /\ UNCHANGED <<queue, write>>
       /\ Unarmed(d, 0)

\* record(): a new intent replaces the old one and cancels its retry; a write in flight
\* looks again when it settles
Record(d, i, gone) ==
  IF mode[d] # "on"
  THEN UNCHANGED <<queue, intent, write, armed, attempts>>
  ELSE IF write[d] = None
  THEN IssueWrite(d, i, 0, gone, d \in store)
  ELSE /\ intent' = [intent EXCEPT ![d] = i]
       /\ write' = [write EXCEPT ![d].old = TRUE]
       /\ UNCHANGED queue
       /\ Unarmed(d, 0)

\* recordAcquired(): the row is written already, nothing to issue
RecordAcquired(d) ==
  /\ intent' = [intent EXCEPT ![d] = ClaimIntent(TRUE)]
  /\ write' = IF write[d] = None THEN write ELSE [write EXCEPT ![d].old = TRUE]
  /\ Unarmed(d, 0)

-----------------------------------------------------------------------------
(* The steps of a write in flight. *)

Stage(d, s) == write[d] # None /\ write[d].stage = s
GoTo(d, s)  == write' = [write EXCEPT ![d].stage = s]

\* store.release of a withdrawn claim
WriteDelete(d) ==
  /\ Stage(d, "delete") /\ Admitted(d, None)
  /\ DeleteOwn(d)
  /\ GoTo(d, "ok")
  /\ queue' = Settled(d)
  /\ UNCHANGED <<mode, store, intent, armed, attempts>>

\* dropIntent: only while the intent object is still the recorded one
Drop(d) ==
  IF write[d].old THEN UNCHANGED <<intent, armed, attempts>>
  ELSE /\ intent' = [intent EXCEPT ![d] = None]
       /\ Unarmed(d, 0)

\* store.get at the head of issue(): another owner's row ends a table-decided claim and is
\* judged for a file-decided one
WriteGet(d) ==
  /\ Stage(d, "get") /\ Admitted(d, None)
  /\ IF row # None /\ ~Owns(d, row)
     THEN /\ queue' = Settled(d)
          /\ IF write[d].acquired
             THEN GoTo(d, "ok") /\ Drop(d)
             ELSE /\ write' = [write EXCEPT ![d].stage = "judge", ![d].seen = row]
                  /\ UNCHANGED <<intent, armed, attempts>>
     ELSE /\ queue' = SettledThen(d, None)
          /\ write' = [write EXCEPT ![d].stage = "put", ![d].seen = row]
          /\ UNCHANGED <<intent, armed, attempts>>
  /\ UNCHANGED <<row, mode, store>>

\* heldByLiveForeignOwner's verdict on the row that was read
WriteJudge(d, live) ==
  /\ Stage(d, "judge")
  /\ GoTo(d, IF live THEN "failed" ELSE "put")
  /\ queue' = IF live THEN queue ELSE Enqueued(d, None)
  /\ UNCHANGED <<row, mode, store, intent, armed, attempts>>

\* the closing replaceIf: losing it drops a table-decided claim and fails a file-decided one
WritePut(d, at) ==
  /\ Stage(d, "put") /\ Admitted(d, None)
  /\ IF StillExpected(write[d].seen)
     THEN row' = NewRow(d, at) /\ GoTo(d, "ok") /\ UNCHANGED <<intent, armed, attempts>>
     ELSE /\ UNCHANGED row
          /\ IF write[d].acquired
             THEN GoTo(d, "ok") /\ Drop(d)
             ELSE GoTo(d, "failed") /\ UNCHANGED <<intent, armed, attempts>>
  /\ queue' = Settled(d)
  /\ UNCHANGED <<mode, store>>

\* any statement of the write throws (a busy or closed registry)
WriteThrows(d) ==
  /\ d \in Faulty /\ write[d] # None
  /\ write[d].stage \in {"delete", "get", "put"} /\ Admitted(d, None)
  /\ GoTo(d, "failed")
  /\ queue' = Settled(d)
  /\ UNCHANGED <<row, mode, store, intent, armed, attempts>>

\* confirm(): a written claim is synced, a withdrawn one is forgotten
Confirmed(i) == IF i.kind = "release" THEN None ELSE [i EXCEPT !.synced = TRUE]

\* the write settles: the latest intent is confirmed or retried, and a newer one is written
WriteSettles(d, gone) ==
  /\ write[d] # None
  /\ write[d].stage \in {"ok", "failed"}
  /\ \/ /\ intent[d] = None \/ (write[d].old /\ mode[d] # "on")
        /\ write' = [write EXCEPT ![d] = None]
        /\ UNCHANGED <<queue, intent, armed, attempts>>
     \/ /\ intent[d] # None /\ write[d].old /\ mode[d] = "on"
        /\ IssueWrite(d, intent[d], attempts[d], gone, d \in store)
     \/ /\ intent[d] # None /\ ~write[d].old /\ write[d].stage = "ok"
        /\ write' = [write EXCEPT ![d] = None]
        /\ intent' = [intent EXCEPT ![d] = Confirmed(intent[d])]
        /\ UNCHANGED queue
        /\ Unarmed(d, 0)
     \/ /\ intent[d] # None /\ ~write[d].old /\ write[d].stage = "failed"
        /\ write' = [write EXCEPT ![d] = None]
        /\ UNCHANGED <<queue, intent>>
        /\ ScheduleRetry(d, attempts[d])
  /\ UNCHANGED <<row, mode, store>>

\* the retry timer: it writes only an intent that is not synced
RetryFires(d, gone) ==
  /\ d \in armed
  /\ IF intent[d] # None /\ ~intent[d].synced /\ write[d] = None
     THEN IssueWrite(d, intent[d], attempts[d], gone, d \in store)
     ELSE armed' = armed \ {d} /\ UNCHANGED <<queue, intent, write, attempts>>
  /\ UNCHANGED <<row, mode, store>>

-----------------------------------------------------------------------------
(* The registry and the daemon's lifecycle. *)

\* registryOpened -> reconcile: every claim held and every release owed is written, with a
\* fresh retry budget.  Nothing is in flight yet: no write is issued without a registry.
RegistryOpens(d, gone) ==
  /\ d \notin store /\ mode[d] = "on"
  /\ store' = store \cup {d}
  /\ IF intent[d] = None
     THEN UNCHANGED <<queue, intent, write, armed, attempts>>
     ELSE IssueWrite(d, [intent[d] EXCEPT !.synced = FALSE], 0, gone, TRUE)
  /\ UNCHANGED <<row, mode>>

\* skip(): the open met unknown migrations; terminal until the daemon restarts
Skip(d) ==
  /\ d \notin store /\ mode[d] = "on"
  /\ mode' = [mode EXCEPT ![d] = "skipped"]
  /\ intent' = [intent EXCEPT ![d] = None]
  /\ Unarmed(d, 0)
  /\ UNCHANGED <<row, store, queue, write>>

\* dispose() at the start of a clean shutdown; the registry is no longer handed out
Dispose(d) ==
  /\ mode[d] = "on"
  /\ mode' = [mode EXCEPT ![d] = IF d \in store THEN "disposed" ELSE "withdrawn"]
  /\ store' = store \ {d}
  /\ armed' = armed \ {d}
  /\ UNCHANGED <<row, queue, intent, attempts, write>>

\* idle(), then releaseOwnedClaims on the registry this daemon had open
WithdrawOwned(d) ==
  /\ mode[d] = "disposed" /\ write[d] = None
  /\ IF intent[d] = None THEN UNCHANGED row ELSE DeleteOwn(d)
  /\ mode' = [mode EXCEPT ![d] = "withdrawn"]
  /\ UNCHANGED <<store, queue, intent, armed, attempts, write>>

\* the process dies: what was written stays in the table
MirrorDies(d) ==
  /\ queue' = [queue EXCEPT ![d] = <<>>]
  /\ intent' = [intent EXCEPT ![d] = None]
  /\ write' = [write EXCEPT ![d] = None]
  /\ Unarmed(d, 0)
  /\ UNCHANGED <<row, mode, store>>
=============================================================================
