------------------------ MODULE AndroidBootAdmission ------------------------
(***************************************************************************)
(* The Android boot gate of the daemons of one host: an emulator boot is   *)
(* admitted against one sample, an adb listing and then a process table,   *)
(* the daemon's own ledger of admitted boots, and the records the other    *)
(* daemons published in a shared directory, under a host-wide lock.  An    *)
(* admission is handed off to the spawned process and leaves the ledger    *)
(* once it is listed, released or past its boot budget.                    *)
(*                                                                         *)
(* A boot stands for its ledger token, its record, its process id and the  *)
(* serial reserved for it.  A record's content is kept by its owner and is *)
(* what the file holds, as long as there is a file.                        *)
(*                                                                         *)
(* External: emulators, and the passing of a boot's budget.  A launch does *)
(* not outlive its budget before it spawned, and its process shows in a    *)
(* process table earlier than a sample's length before the budget ends.    *)
(* Emulators nobody admitted run from the start, or not at all.            *)
(***************************************************************************)
EXTENDS Naturals, FiniteSets

CONSTANTS
  Daemons,      \* processes; each lives once
  Boots,        \* admission requests
  Reports,      \* read-only samples: describeCapacity, assertCapacityAvailable
  DaemonOf,     \* of each boot and report
  Externals,    \* emulators nobody admitted
  Replaces,     \* [Boots -> replacingDeviceId, or None]
  Reserved,     \* boots whose launch knows its serial
  None,
  MaxBooted,    \* limits.maxBooted
  MayCrash,     \* daemons that may die
  Faults,       \* of "adb", "ps", "update", "remove", "publish": what can fail
  Faulty,       \* daemons it can fail for
  MaxFaults     \* bound: how often

Calls == Boots \cup Reports
Emulators == Boots \cup Externals
Replaced == {Replaces[b] : b \in Boots} \ {None}

ASSUME AndroidAssumption ==
  /\ DaemonOf \in [Calls -> Daemons] /\ Replaces \in [Boots -> Externals \cup {None}]
  /\ \A a, b \in Boots : a # b /\ Replaces[a] # None => Replaces[a] # Replaces[b]
  /\ Reserved \subseteq Boots /\ MayCrash \subseteq Daemons /\ Faulty \subseteq Daemons
  /\ None \notin Emulators /\ Boots \cap Externals = {} /\ Boots \cap Reports = {}
  /\ Faults \subseteq {"adb", "ps", "update", "remove", "publish"}
  /\ MaxBooted \in Nat /\ MaxFaults \in Nat

VARIABLES
  emu,       \* "off" so far, "launcher", "qemu" (in the process table), "listed" (by adb too), "gone"
  overdue,   \* boots past deadlineMs
  alive,     \* daemons
  lock,      \* the boot whose call holds admission.lock, or None
  pc,        \* of each call
  sample,    \* of each call: what it read so far
  ledger,    \* boots with an entry in their daemon's ledger
  entry,     \* their entries, as they are or were last
  windows,   \* calls whose sample window is open
  ended,     \* of each call: the boots that left the ledger in its window
  seen,      \* boots that left the ledger because a listing showed them
  files,     \* boots with a record in the shared directory
  record,    \* its content
  pubs,      \* publications: records their owner has not removed
  pending,   \* pendingRemoval
  faults

hostVars == <<emu, overdue, alive>>
callVars == <<lock, sample>>
ledgerVars == <<ledger, entry, windows, ended, seen>>
diskVars == <<files, record, pubs, pending, faults>>
vars == <<hostVars, callVars, pc, ledgerVars, diskVars>>

Entries == [dev : Emulators \cup {None}, pid : BOOLEAN, repl : BOOLEAN, handed : BOOLEAN]
NoEntry == [dev |-> None, pid |-> FALSE, repl |-> FALSE, handed |-> FALSE]
NoSample == [adb |-> {}, ps |-> {}, blind |-> {}, before |-> {}]

Reserving == {"reserved", "deleted", "gone"}
Holding == Reserving \cup {"admitted", "booting", "settled"}
Steps == {"new", "open", "listed", "sampled", "over"} \cup Holding

TypeOK ==
  /\ emu \in [Emulators -> {"off", "launcher", "qemu", "listed", "gone"}]
  /\ overdue \in SUBSET Boots /\ alive \in SUBSET Daemons
  /\ lock \in Boots \cup {None} /\ pc \in [Calls -> Steps]
  /\ \A c \in Calls :
       /\ sample[c].adb \in SUBSET Emulators /\ sample[c].ps \in SUBSET Emulators
       /\ sample[c].blind \in SUBSET {"adb", "ps"}
       /\ sample[c].before \in SUBSET [boot : Boots, is : Entries]
  /\ ledger \in SUBSET Boots /\ entry \in [Boots -> Entries]
  /\ windows \in SUBSET Calls /\ ended \in [Calls -> SUBSET Boots] /\ seen \in SUBSET Boots
  /\ files \in SUBSET Boots /\ record \in [Boots -> Entries]
  /\ pubs \in SUBSET Boots /\ pending \in SUBSET pubs /\ faults \in 0..MaxFaults

Init ==
  /\ emu \in {e \in [Emulators -> {"off", "qemu", "listed"}] : \A b \in Boots : e[b] = "off"}
  /\ overdue = {} /\ alive = Daemons /\ lock = None
  /\ pc = [c \in Calls |-> "new"] /\ sample = [c \in Calls |-> NoSample]
  /\ ledger = {} /\ entry = [b \in Boots |-> NoEntry]
  /\ windows = {} /\ ended = [c \in Calls |-> {}] /\ seen = {}
  /\ files = {} /\ record = [b \in Boots |-> NoEntry] /\ pubs = {} /\ pending = {} /\ faults = 0

Up(c) == DaemonOf[c] \in alive
Running(x) == emu[x] \in {"launcher", "qemu", "listed"}
Go(c, p) == pc' = [pc EXCEPT ![c] = p]
Mine(c, bs) == {b \in bs : DaemonOf[b] = DaemonOf[c]}

\* a tool or a registry write works, or is one of the failures of the instance
Try(c, kind, ok) ==
  IF ok THEN faults' = faults
  ELSE kind \in Faults /\ DaemonOf[c] \in Faulty /\ faults < MaxFaults /\ faults' = faults + 1

-----------------------------------------------------------------------------
(* BootAdmissionLedger: what a boot that ends leaves to the open windows *)

\* mutant: a boot that ends is not left to the samples under way
Collect_Closed(c, bs) == ended' = [w \in Calls |-> IF w = c THEN {} ELSE ended[w]]

Collect(c, bs) ==
  ended' = [w \in Calls |-> IF w = c THEN {}
                            ELSE IF w \in windows /\ Up(w) THEN ended[w] \cup {b \in bs : DaemonOf[b] = DaemonOf[w]}
                            ELSE ended[w]]

-----------------------------------------------------------------------------
(* FileHostBootAdmissionRegistry *)

\* mutant: a record dies with its daemon, although its emulator runs on
Stale_WithOwner(b) == b \in overdue \/ DaemonOf[b] \notin alive

\* isStale
Stale(b) ==
  LET owned == DaemonOf[b] \in alive IN
  IF record[b].handed
  THEN b \in overdue \/ (record[b].pid /\ ~owned /\ emu[b] = "gone")
  ELSE b \in overdue \/ ~owned

Dropped == {b \in files : Stale(b)}

\* readPeerAdmissions: the other daemons' records; stale ones of anybody are removed
Peers(c) == {[boot |-> b, is |-> record[b]] : b \in {b \in files \ Dropped : DaemonOf[b] # DaemonOf[c]}}

\* mutant: only the read after the sample counts
Union_Last(before, after) == after

\* unionPeers: the later read wins
Union(before, after) ==
  after \cup {r \in before : \A q \in after : q.boot # r.boot}

\* mutant: a record that could not be removed is forgotten
Release_Forgets(b, ok) ==
  /\ ledger' = ledger \ {b}
  /\ Collect(None, {b} \cap ledger)
  /\ Try(b, "remove", ok \/ b \notin pubs)
  /\ files' = IF ok THEN files \ ({b} \cap pubs) ELSE files
  /\ pubs' = IF ok THEN pubs \ {b} ELSE pubs
  /\ pending' = pending \ {b}
  /\ UNCHANGED <<entry, windows, seen, record>>

\* release: the entry ends, and the record is removed, now or at the owner's next count
Release(b, ok) ==
  /\ ledger' = ledger \ {b}
  /\ Collect(None, {b} \cap ledger)
  /\ Try(b, "remove", ok \/ b \notin pubs)
  /\ files' = IF ok THEN files \ ({b} \cap pubs) ELSE files
  /\ pubs' = IF ok THEN pubs \ {b} ELSE pubs
  /\ pending' = IF ok THEN pending \ {b} ELSE pending \cup ({b} \cap pubs)
  /\ UNCHANGED <<entry, windows, seen, record>>

-----------------------------------------------------------------------------
(* A sample *)

\* the host lock, and with it the window and the first read of the records;
\* a dead owner's lock is taken over
Acquire(b) ==
  /\ pc[b] = "new" /\ Up(b)
  /\ lock # None => DaemonOf[lock] \notin alive
  /\ lock' = b
  /\ windows' = windows \cup {b}
  /\ sample' = [sample EXCEPT ![b].before = Peers(b)]
  /\ files' = files \ Dropped
  /\ Go(b, "open")
  /\ UNCHANGED <<hostVars, ledger, entry, ended, seen, record, pubs, pending, faults>>

\* CommandAndroidCapacitySource.sample: adb first
ReadAdb(c, ok) ==
  /\ pc[c] = IF c \in Boots THEN "open" ELSE "new"
  /\ Up(c)
  /\ Try(c, "adb", ok)
  /\ sample' = [sample EXCEPT ![c].adb = IF ok THEN {x \in Emulators : emu[x] = "listed"} ELSE {},
                              ![c].blind = IF ok THEN {} ELSE {"adb"}]
  /\ Go(c, "listed")
  /\ UNCHANGED <<hostVars, lock, ledgerVars, files, record, pubs, pending>>

\* the process table; with neither reading the count is unknown and the call fails
ReadPs(c, ok) ==
  /\ c \in Boots /\ pc[c] = "listed" /\ Up(c)
  /\ ok \/ sample[c].blind = {}
  /\ Try(c, "ps", ok)
  /\ sample' = [sample EXCEPT ![c].ps = IF ok THEN {x \in Emulators : emu[x] \in {"qemu", "listed"}} ELSE {},
                              ![c].blind = IF ok THEN @ ELSE @ \cup {"ps"}]
  /\ Go(c, "sampled")
  /\ UNCHANGED <<hostVars, lock, ledgerVars, files, record, pubs, pending>>

\* timed out, aborted or unreadable: the window closes, the lock is free, and the caller
\* may try again, as after a refusal or a wait for the lock that was given up
SampleFails(c) ==
  /\ c \in Boots /\ pc[c] \in {"open", "listed", "sampled"} /\ Up(c)
  /\ windows' = windows \ {c} /\ ended' = [ended EXCEPT ![c] = {}]
  /\ sample' = [sample EXCEPT ![c] = NoSample]
  /\ lock' = IF lock = c THEN None ELSE lock
  /\ Go(c, "new")
  /\ UNCHANGED <<hostVars, ledger, entry, seen, diskVars>>

-----------------------------------------------------------------------------
(* count *)

Visible(c, e) == e.dev # None /\ e.dev \in sample[c].adb
Matched(c, b, e) == e.pid /\ b \in sample[c].ps

\* inFlightView and countPeers: the admitted boots this call knows of, as it knows them
Known(c) ==
  {[boot |-> b, is |-> entry[b]] : b \in Mine(c, ledger) \cup ended[c]}
  \cup Union(sample[c].before, Peers(c))

\* past its hand-off window, or as a peer past its budget; what a listing showed has none
Past(c, k) ==
  /\ k.boot \in overdue
  /\ IF DaemonOf[k.boot] = DaemonOf[c] THEN k.is.handed /\ k.boot \notin ended[c] \cap seen ELSE TRUE

Unlisted(c) == {k \in Known(c) : ~Visible(c, k.is) /\ ~Past(c, k)}
Unseen(c) == {k \in Unlisted(c) : ~Matched(c, k.boot, k.is)}
ListedWithoutProcess(c) ==
  {k \in Known(c) : /\ Visible(c, k.is) /\ ~Matched(c, k.boot, k.is) /\ ~k.is.repl
                    /\ DaemonOf[k.boot] = DaemonOf[c] \/ k.boot \notin overdue}

\* the larger of the two views of the load
Effective(c) ==
  LET adbView == Cardinality(sample[c].adb) + Cardinality(Unlisted(c))
      psView == Cardinality(sample[c].ps) + Cardinality(Unseen(c)) + Cardinality(ListedWithoutProcess(c))
  IN IF adbView > psView THEN adbView ELSE psView

\* decide: a replacement takes the slot of the device it replaces
Fits(b) ==
  Effective(b) < MaxBooted + (IF Replaces[b] \in sample[b].adb THEN 1 ELSE 0)

\* the entries the count ends
Over(c) == {b \in Mine(c, ledger) : entry[b].handed /\ (Visible(c, entry[b]) \/ b \in overdue)}

\* removeListedPublications
Retired(c) ==
  {b \in Mine(c, pubs) :
     b \in pending \/ (entry[b].handed /\ (b \in overdue \/ (b \in Reserved /\ b \in sample[c].adb)))}

\* what every count does to ledger, windows and records, whatever it is for; adds is the
\* boot it admits
Counted(c, adds, ok) ==
  LET off == Retired(c) IN
  /\ ledger' = (ledger \ Over(c)) \cup adds
  /\ Collect(c, Over(c))
  /\ seen' = seen \cup {b \in Over(c) : Visible(c, entry[b])}
  /\ windows' = windows \ {c}
  /\ Try(c, "remove", ok \/ off = {})
  /\ files' = ((files \ Dropped) \ (IF ok THEN off ELSE {})) \cup adds
  /\ pubs' = (IF ok THEN pubs \ off ELSE pubs) \cup adds
  /\ pending' = IF ok THEN pending \ off ELSE pending \cup off

Reserve(b) == [NoEntry EXCEPT !.dev = Replaces[b], !.repl = Replaces[b] # None]

\* the second read of the records, the decision, the entry and its record: one turn
Decide(b, ok) ==
  /\ b \in Boots /\ pc[b] = "sampled" /\ Up(b)
  /\ IF Fits(b)
     THEN /\ Counted(b, {b}, ok)
          /\ entry' = [entry EXCEPT ![b] = Reserve(b)]
          /\ record' = [record EXCEPT ![b] = Reserve(b)]
          /\ Go(b, IF Replaces[b] = None THEN "admitted" ELSE "reserved")
     ELSE Counted(b, {}, ok) /\ Go(b, "new") /\ UNCHANGED <<entry, record>>
  /\ lock' = IF lock = b THEN None ELSE lock
  /\ sample' = [sample EXCEPT ![b] = NoSample]
  /\ UNCHANGED hostVars

\* the record cannot be published: the admission is taken back
PublishFails(b) ==
  /\ b \in Boots /\ pc[b] = "sampled" /\ Up(b) /\ Fits(b)
  /\ Try(b, "publish", FALSE)
  /\ ledger' = ledger \ Over(b)
  /\ Collect(b, Over(b) \cup {b})
  /\ entry' = [entry EXCEPT ![b] = Reserve(b)]
  /\ seen' = seen \cup {q \in Over(b) : Visible(b, entry[q])}
  /\ windows' = windows \ {b}
  /\ files' = (files \ Dropped) \ Retired(b)
  /\ pubs' = pubs \ Retired(b) /\ pending' = pending \ Retired(b)
  /\ lock' = IF lock = b THEN None ELSE lock
  /\ sample' = [sample EXCEPT ![b] = NoSample]
  /\ Go(b, "over")
  /\ UNCHANGED <<hostVars, record>>

\* describeCapacity and assertCapacityAvailable count without the lock.  What they return is
\* left out, and so are their own window, their table and their reads of the records: of
\* what they change, only the listing decides.
Report(c, ok) ==
  /\ c \in Reports /\ pc[c] = "listed" /\ Up(c)
  /\ Counted(c, {}, ok)
  /\ sample' = [sample EXCEPT ![c] = NoSample]
  /\ Go(c, "new")
  /\ UNCHANGED <<hostVars, lock, entry, record>>

-----------------------------------------------------------------------------
(* The boot of an admission *)

\* the operation of a reservation deletes its device
DeleteReplaced(b) ==
  /\ pc[b] = "reserved" /\ Up(b)
  /\ emu' = [emu EXCEPT ![Replaces[b]] = "gone"]
  /\ Go(b, "deleted")
  /\ UNCHANGED <<overdue, alive, callVars, ledgerVars, diskVars>>

\* markReplacedDeviceGone, once the deletion is verified
MarkReplacedGone(b, ok) ==
  /\ pc[b] = "deleted" /\ Up(b)
  /\ entry' = [entry EXCEPT ![b].dev = None, ![b].repl = FALSE]
  /\ Try(b, "update", ok)
  /\ record' = IF ok THEN [record EXCEPT ![b].dev = None] ELSE record
  /\ files' = IF ok THEN files \cup {b} ELSE files
  /\ Go(b, "gone")
  /\ UNCHANGED <<hostVars, callVars, ledger, windows, ended, seen, pubs, pending>>

\* handOff: nothing once the slot was released; the ledger only while it has the entry
HandOff(b, ok) ==
  LET x == IF b \in Reserved THEN b ELSE record[b].dev IN
  /\ entry' = IF b \in ledger
              THEN [entry EXCEPT ![b] = [dev |-> IF b \in Reserved THEN b ELSE @.dev,
                                         pid |-> TRUE, repl |-> FALSE, handed |-> TRUE]]
              ELSE entry
  /\ Try(b, "update", ok \/ b \notin pubs)
  /\ record' = IF ok /\ b \in pubs
               THEN [record EXCEPT ![b] = [dev |-> x, pid |-> TRUE, repl |-> FALSE, handed |-> TRUE]]
               ELSE record
  /\ files' = IF ok /\ b \in pubs THEN files \cup {b} ELSE files
  /\ UNCHANGED <<ledger, windows, ended, seen, pubs, pending>>

\* spawnUnderBootAdmission: the process exists and is handed off in the same turn
Spawn(b, ok) ==
  /\ pc[b] \in {"admitted", "gone"} /\ Up(b) /\ b \notin overdue
  /\ emu' = [emu EXCEPT ![b] = "launcher"]
  /\ HandOff(b, ok)
  /\ Go(b, "booting")
  /\ UNCHANGED <<overdue, alive, callVars>>

\* the spawn settles: the hand-off is repeated
Settle(b, ok) ==
  /\ pc[b] = "booting" /\ Up(b)
  /\ HandOff(b, ok)
  /\ Go(b, "settled")
  /\ UNCHANGED <<hostVars, callVars>>

\* no process came of it, or a reservation is given back
GiveBack(b, ok) ==
  /\ pc[b] \in Reserving \cup {"admitted"} /\ Up(b)
  /\ Release(b, ok)
  /\ Go(b, "over")
  /\ UNCHANGED <<hostVars, callVars>>

\* the exit event of the process
Exited(b, ok) ==
  /\ pc[b] \in {"booting", "settled"} /\ Up(b) /\ emu[b] = "gone"
  /\ Release(b, ok)
  /\ Go(b, "over")
  /\ UNCHANGED <<hostVars, callVars>>

-----------------------------------------------------------------------------
(* The host *)

Emulate(x, from, to) ==
  /\ emu[x] = from
  /\ emu' = [emu EXCEPT ![x] = to]
  /\ UNCHANGED <<overdue, alive, pc, callVars, ledgerVars, diskVars>>

ShowProcess(b) == Emulate(b, "launcher", "qemu")
ShowDevice(x) == Emulate(x, "qemu", "listed")

\* an emulator exits
Exit(x) == \E from \in {"launcher", "qemu", "listed"} : Emulate(x, from, "gone")

\* a table that was read and not yet used misses the boot's process
Missed(b) ==
  \E c \in Calls : pc[c] = "sampled" /\ "ps" \notin sample[c].blind /\ b \notin sample[c].ps

\* the boot's budget is over
Expire(b) ==
  /\ pc[b] \in Holding \/ b \in files \/ Running(b)
  /\ b \notin overdue
  /\ Running(b) => emu[b] # "launcher" /\ ~Missed(b)
  /\ overdue' = overdue \cup {b}
  /\ UNCHANGED <<emu, alive, callVars, pc, ledgerVars, diskVars>>

\* a daemon dies: its memory is gone, its records and emulators stay
Crash(d) ==
  /\ d \in alive \cap MayCrash
  /\ alive' = alive \ {d}
  /\ ledger' = {b \in ledger : DaemonOf[b] # d}
  /\ pubs' = {b \in pubs : DaemonOf[b] # d} /\ pending' = {b \in pending : DaemonOf[b] # d}
  /\ windows' = {c \in windows : DaemonOf[c] # d}
  /\ ended' = [c \in Calls |-> IF DaemonOf[c] = d THEN {} ELSE ended[c]]
  /\ sample' = [c \in Calls |-> IF DaemonOf[c] = d THEN NoSample ELSE sample[c]]
  /\ pc' = [c \in Calls |-> IF DaemonOf[c] = d THEN "over" ELSE pc[c]]
  /\ UNCHANGED <<emu, overdue, lock, entry, seen, files, record, faults>>

-----------------------------------------------------------------------------
Sample(c) ==
  \/ \E ok \in BOOLEAN : ReadAdb(c, ok) \/ ReadPs(c, ok) \/ Decide(c, ok) \/ Report(c, ok)
  \/ SampleFails(c) \/ PublishFails(c)

Boot(b) ==
  \/ Acquire(b) \/ DeleteReplaced(b)
  \/ \E ok \in BOOLEAN : \/ MarkReplacedGone(b, ok) \/ Spawn(b, ok) \/ Settle(b, ok)
                         \/ GiveBack(b, ok) \/ Exited(b, ok)

Next ==
  \/ \E b \in Boots : Boot(b) \/ ShowProcess(b) \/ Expire(b)
  \/ \E c \in Calls : Sample(c)
  \/ \E x \in Emulators : ShowDevice(x) \/ Exit(x)
  \/ \E d \in Daemons : Crash(d)

Spec == Init /\ [][Next]_vars

-----------------------------------------------------------------------------
(* Properties *)

\* Of a living daemon, an entry belongs to a boot that still has its slot, the other daemons
\* can read its record until the boot's budget is over, and a record that outlives its slot
\* is one whose removal is still to be repeated.
SlotsShared ==
  /\ TypeOK
  /\ \A b \in ledger : Up(b) /\ pc[b] \in Holding /\ (b \notin overdue => b \in files)
  /\ \A b \in files : Up(b) /\ pc[b] \notin Holding => b \in pending

\* the emulators that hold a slot: running, or admitted and still to spawn; one that is to
\* be replaced shares its replacement's
Slots ==
  {x \in Emulators : Running(x)} \cup {b \in Boots \ overdue : pc[b] \in Reserving \cup {"admitted"}}
Shared == {Replaces[b] : b \in {b \in Boots : pc[b] \in Reserving}}

\* A device to be replaced was listed and is not in the table, read later: the reservation
\* counts in neither view beside an emulator that only the table shows.
Split(b) == "ps" \notin sample[b].blind /\ ~(sample[b].adb \cap Replaced \subseteq sample[b].ps)

\* With a process table every boot is admitted only while it fits with all emulators that
\* ran when its sample began, and with all other admitted boots of all daemons, whether
\* they are listed, only in the table, not spawned yet, handed over to a process whose
\* daemon died, or ended during the sample.  Without one, as far as adb shows them or
\* their budget lasts.
AdmitsWithinLimit ==
  [][\A b \in Boots :
       pc[b] = "sampled" /\ pc'[b] \in {"admitted", "reserved"} /\ ~Split(b) =>
         LET counted(x) == \/ "ps" \notin sample[b].blind
                           \/ x \in sample[b].adb \cup (Boots \ overdue)
         IN Cardinality({x \in (Slots \cup {b}) \ (Shared \cup {Replaces[b]}) : counted(x)})
              <= MaxBooted]_vars
=============================================================================
