# AutoMobile: verification of the device daemon

AutoMobile lets agents drive Android and iOS devices through a per-user daemon. The daemon keeps a
pool of devices, binds them to sessions, boots simulators and emulators, and shares the host with
other daemons (another user checkout, an older release, a CI job). This directory holds TLA+
modules of the parts of that daemon where mistakes are hard to see in a test: who drives a device,
how many simulators and emulators run, who owns a session and when it ends, which calls run side by
side, and how a task survives the daemon that ran it.

Source paths below are relative to `src/` of the code (`daemon/deviceClaims.ts` is
`src/src/daemon/deviceClaims.ts`). `PROJECT.json` maps every definition to its lines.

## 1. The system

| Part | State it keeps | Operations | Talks to | Correct when | Module |
|---|---|---|---|---|---|
| Claims table and mirror (`daemon/deviceClaims.ts`, `sqliteDeviceClaims.ts`, `deviceClaimMirrorHub.ts`) | one row per device for the whole host; per daemon the intent for each device, the write in flight, retries | claim, release, acquire (compare-and-set), reconcile, retry, skip, dispose | SQLite registry shared by all daemons | the row follows the latest intent; a late write takes nobody's row | `ClaimMirror` |
| Cross-daemon ownership (`foreignDeviceOwnership.ts`, `connectionOwnership.ts`) | claim file per device, claimed devices per daemon | claim, publish, withdraw, judge an owner over its socket | mirror, claim files, other daemons | two daemons never drive one device; a claim ends with its assignment | `ForeignDeviceOwnership` |
| Device pool and cleanup quarantine (`devicePoolParts/`, `deviceCleanupQuarantine.ts`, `sessionManager/bookkeeping.ts`, `releaseCommit.ts`) | devices, their holder, assignment counts, captured and deferred releases; device work that outlived a release, with caps | assign, roll back, restore, release, defer, register and chain work, abandon it | ownership, sessions | one holder per device; a stale release does nothing; a dirty device is not handed out, and comes back | `ForeignDeviceOwnership`, `DeviceQuarantine` |
| iOS boot admission (`devices/bootAdmission/`, `features/iosSimFleet/`) | ledger of admitted boots, sample windows, reservations, permits | admit, reserve, take, mark gone, end, acquire and release a permit | simctl listings, resets, replacements | never more simulators than the limit; no slot leaks; no boot waits for ever | `IosSimCapacityGate` |
| Android boot admission (`features/bootAdmission/`, `spawnUnderBootAdmission.ts`) | the same ledger with hand-offs to processes; one record per admitted boot and a lock for the whole host | admit, reserve, hand off, release, count, read peers, publish, update, remove | adb, the process table, other daemons | as for iOS, across daemons and their deaths | `AndroidBootAdmission` |
| Session liveness (`sessionLivenessLease.ts`, `livenessClaimDecision.ts`, `livenessOwnerLease.ts`, `SessionHeartbeatMonitor.ts`) | owner token, heartbeats, marker of a suspect, claims and their queued writes | heartbeat, adopt, claim, relinquish, judge, reap | database, clients | a live owner is neither displaced nor reaped; a silent one's session is released | `SessionLiveness` |
| Terminal-release journal (`terminalReleaseJournal.ts`, `recoveredTerminalReleaseIntents.ts`, `releaseWrite.ts`) | one file of intents per daemon, fences of releases under way, intents of dead daemons | fence, record, resolve, compact, adopt, settle, discard, recover on demand | session rows, files of dead daemons | a release that freed its device survives every crash; nothing else ends a session | `TerminalRelease` |
| Client proxy (`proxy/`, `mcpProxy/`) | latest binding, held and stopped sessions, fence, heartbeat keeper, release epochs, calls in flight, connection | forward, resend, apply a result, defer to a task, release, not found, lose and make a connection, close | daemon socket | a released session is never bound again; the keeper runs exactly for what must be heartbeated | `ProxyBinding` |
| Forward queues (`socketServer/keyedSerialQueue.ts`, `socketServerParts/`) | one chain of runs per key, idle timers, cached input helpers | queue, wait with a deadline, re-route, run, bind, give up, evict | sessions, bound clients | one run per key, in order, never for a session that is gone | `McpForward` |
| MCP tasks (`tasks/TaskManager.ts`, `db/mcpTaskRepository.ts`) | rows, handles, waiters, questions | create, ask, report, settle, update, cancel, recover, expire | database | a task ends once; a question can be answered | `McpTasks` |
| Sessions (`sessionManager*`) | sessions by id | create, rebind, rehydrate, release | pool, database | – | only what the modules above need |
| Execution tracking (`executionTracker.ts`) | running tool calls, restart and maintenance fences | start, end, prepare restart | manager, sessions | no restart under a running call | – |
| Shutdown reservations, start-up and takeover (`deviceShutdownReservations.ts`, `manager/`) | reserved devices, start-up lock, takeover deferrals | reserve, start, take over | pool, daemon sockets | one daemon per socket | – |
| Features, on-device apps, CLI, migrations | – | – | adb, simctl, devices | I/O | – |

Hard behaviour, and where it comes from:

* every operation of the daemon is a chain of awaits on one event loop, so whatever was read before
  an await may be stale after it;
* several daemons share files and a table without a coordinator, and learn about each other by
  asking over a socket with a timeout;
* registries open late, fail, or are of an unknown schema, and each daemon then falls back to
  claim files on its own;
* processes crash with claims, records and half-done releases in place, or hang without dying;
* statements, file writes and tool calls fail, and each has its own roll-back or fallback;
* boots are decided on listings that take seconds, while other boots start and end.

The list of hazards, each at its line with the properties about it, is in `PROJECT.json`.

## 2. Modules

```
ClaimMirror            device_claims table + each daemon's mirror (state and steps)
  ^ extends
ForeignDeviceOwnership claim calls, claim file, pool binding, failures; composes the mirrors
  | implements                                   ^ extends
DeviceLock             one lock per device       ForeignDeviceOwnership_proofs

BootAdmissionLedger    admitted boots and sample windows
BootConcurrencyGate    FIFO permits
  ^ extends both
IosSimCapacityGate     boot requests: listing, decision, reservation, permit, boot
  ^ extends
IosSimCapacityGate_proofs

AndroidBootAdmission   emulator boots of several daemons: ledger with hand-offs, shared records
DeviceQuarantine       one device between sessions: cleanup work, release, deferred release
SessionLiveness        owner tokens, heartbeats, the monitor
TerminalRelease        journal files, fences and recovery of daemons after and beside each other
ProxyBinding           a client's sessions and its calls in flight
McpForward             the keyed forward queues
McpTasks               task rows, the manager of each instance, work and client
  ^ extends, each of the last six
DeviceQuarantine_proofs, SessionLiveness_proofs, TerminalRelease_proofs, ProxyBinding_proofs,
McpForward_proofs, McpTasks_proofs

MCForeignDeviceOwnership, MCIosSimCapacityGate, MCAndroidBootAdmission,
MCSessionLiveness, MCProxyBinding                                         instances for TLC
```

An action is the code between two awaits, with everything that code calls. Operators whose names
have a suffix after an underscore (`Collect_Closed`) are mutants: wrong versions of the definition
below them, used to see that a property notices.

### Ownership of a device

One device is modelled; rows, intents and files of different devices never meet. A daemon is a
process incarnation, so PID and owner token are one value.

| Variable | Code |
|---|---|
| `row` | the device's row in `device_claims`; `at` is `updatedAtMs` |
| `mode`, `store` | `skipped` and `disposed` of the mirror; whether the registry is open |
| `queue` | the connection's admission queue (`BunSqliteConnectionState`) |
| `intent`, `write`, `armed`, `attempts` | `MirrorIntent`, the promise in `inFlight`, its `retry` timer and count |
| `status`, `lapsed` | the process; `lapsed` is a history variable of hold lapses of wedged daemons |
| `holder` | the session the daemon's pool binds the device to |
| `file`, `claimed` | the claim file's owner; `claimedDeviceIds` |
| `call` | where each session's claim call is, and what it read before its last await |

An action is the code between two awaits. `Refused`, `FileClaimed` and `WithdrawClaim` are the
synchronous tails that several of them share. Each SQL statement is one step at the head of its
daemon's queue. Socket questions are `Verdicts`: the answer is about the moment it is given
(`JudgeFile`, `JudgeRow`, `JudgeOwner`, `JudgeTable`, `JudgeForWrite`) and is used in a later step.
A daemon with a session on the device answers so, or is slow, and both mean it holds; one without
may still be running a tool call or not answer, so both verdicts are possible.

Modelled as external, from how the code uses it: death of a process, wedging and recovering.

### Boot capacity

`IosSimCapacityGate` gives every boot request a program counter: the window opens, a listing is
taken at some later moment, the decision closes the window and admits in the same turn. A reset or
replacement holds a reservation while it stops its device and consumes it in the boot. Permits
follow, and the end of the boot returns the count slot and then the permit. Simulators (`on`) are
external: one occupies a slot from the start of its boot until it is off, and may go off at any
time.

### Android boot admission

A boot stands for its ledger token, its record, its process and its serial. `Acquire` takes the host
lock, opens the sample window and reads the records of the other daemons for the first time;
`ReadAdb` and `ReadPs` are the two halves of a sample in the order of `AndroidCapacitySource.ts`;
`Decide` reads the records again, counts (`Known`, `Unlisted`, `Unseen`, `ListedWithoutProcess`,
`Effective`), ends what the count ends (`Counted`), admits, publishes and frees the lock. `Report` is
a count without the lock, which ends entries under the samples of others. `Spawn` and `Settle` are the
two hand-offs of `spawnUnderBootAdmission`; `DeleteReplaced` and `MarkReplacedGone` the replacement;
`GiveBack` and `Exited` the release. `Crash` takes a daemon's memory and leaves records and emulators.
External: emulators (launcher, process, listed) and the clock.

### Quarantine and release of a device

| Variable | Code |
|---|---|
| `owner`, `releasing`, `toFree` | the session manager's session on the device, its active releases, released sessions whose caller has still to return the device |
| `holder`, `assigning`, `count` | the pool's holder, the session being created on the device, `assignmentCount` |
| `captures`, `deferred` | the assignment a release was for; releases waiting for cleanup |
| `kind`, `run`, `pending`, `acquisition`, `armed` | each piece of work, the chained promise, the acquisition's own work, the caps that have started |

`Register`, `Retire`, `Settle` and `Abandon` are the quarantine's; `Assign`, `RestoreAssignment`,
`CommitRelease`, `FinalizeRelease`, `ReleaseDevice` and `DeferredRelease` the pool's and the session
manager's. The chain of promises is the set of work that has not settled.

### Liveness of a session

`Beat`, `Claim`, `Relinquish` and `Tool` are what clients send; a claim, adoption or release queues
for the session's mutex (`Enter*`) and leaves it with its row write (`WriteOk`, `WriteFails`, which
rolls back). `Tick` ages every stamp by one step, `Reap` is the monitor's verdict, `Gone` the end of the
release it starts, `Restart` a daemon that rehydrates from the rows. A label (`m/l`) is a second
session whose base is `Main`. `proof` and `barred` are history variables: how long a token has been
silent, and which tokens gave the session up or were displaced.

### Terminal releases

Daemons are the processes `1..N`; a restart is the next one. A journal file is the set of intents a
replay yields (`disk`) and whether its last line is torn. A release fences (`Fence`), commits its
intent and frees the device (`Commit`), or does so without waiting for the row (`TimeOut`), and writes
the row (`WriteRow`). A start is `Start`, `OpenJournal`, then for each dead journal `AdoptCopy` and its
removal, then `Attach`; a live daemon reads the journal of a dead peer when it meets its row
(`ReadDead`), settles it and discards the file once nothing of it is owed (`Settle*`, `Discard`).
`Claim`, `Rehydrate` and `RecoverOnDemand` are the ways a session comes back.

### Client proxy

`proxy` is the latest binding, the sessions held besides it, the claimed ones (`claimableSessions`) and
those a not-found answer stopped (`notFoundStopped`), the fence, the keeper and its interval, the
connection (`link`) and how far the proxy has closed; `ledger` is `ReleaseEpochLedger`; `call` is each
forwarded call with the epoch it started in. `Sync` is the one place that starts the keeper, under the
code's conditions: something to heartbeat (`HasTargets`), a live transport, not closing. `Forward` and
`Resend` send, the `Answer` actions apply each kind of result, `Defer` hands the call to a task,
`KeeperStopped` and `FirstHeartbeat` are the awaits inside a new binding, `Release` the daemon's
notification. `NotFound` is the answer to a heartbeat (the session is still awaited, has ended, or is
stopped and may come back), `Restored` the echo of a call that brings it back, `LetGo` a session that
was idle, owned by another or lost. `Lose`, `Connect`, `EstablishConnection` and `ConnectionEstablished`
replace the connection, whose first heartbeat is an await, and `Close` ends the proxy. The daemon
answers and releases as it likes, except that it mints no session under the id of one that had ended.

### Forward queues

A chain tail is the promise of every unfinished run before it, so `tails` and `waits` are sets of
runs. `Receive` queues, `Acquire` reaches the front, `Resolve` computes the route again and runs,
re-routes (`Reroute`, `Requeue`) or fails, `GiveUp` leaves at its deadline, `Finish` settles. `Move`,
`Disconnect` and `ReleaseSession` change routes meanwhile. A forward uses the session's client or the
socket's own (`seeded`), decided when it is admitted and again when it starts (`ForwardClient`); one
that names its session (`Naming`) is refused once that was released (`Refuse`, `Admitted`), and binds
the socket when it is answered (`BoundAfter`). Device inputs use the same chains and arm the idle timer
of their key (`OnForwardKeyIdle`).

### MCP tasks

`status`, `requests` and `expired` are the rows; each instance has a queue of statements, and a
statement and what its caller does with the outcome are one step, so `StatementFails` runs the catch
block. A task's handle, waiter and detached work live in its instance's memory and die with it
(`Crash`); the next instance recovers (`Recovered`).

## 3. What is checked

| Run | Question | Instance | Distinct states |
|---|---|---|---|
| `OwnershipFaults` | exclusion, visible drivers, nothing stranded, late writes take nothing | 2 daemons, both registries faulty, one may crash, wedge, shut down | 278 567 |
| `OwnershipTable` | the claims implement one lock; calls end, claims leave | 2 daemons, 3 sessions (two of one daemon), one claim directory, fair | 45 973 |
| `OwnershipFilesRace` | exclusion by files alone: **violated** | 2 daemons, no mirror | – |
| `CapacityAll` | the limit, leaks, order of permits, every request ends | a boot, a reset, a replacement; 4 simulators; permit limits 1 and 3; fair | 65 879 |
| `AndroidBoots` | the limit across daemons, records and ledger agree | 2 boots and a report of a daemon that may die, a replacement of another whose tools and writes fail once | 539 593 |
| `Quarantine` | clean when bound, stale releases, the device comes back | 2 sessions, 3 pieces of work, 3 assignments, fair | 142 606 |
| `LivenessClaims` | owners kept, no silent return, rows true, dead owners released | 1 session, 2 tokens, failing writes, a restart, fair | 234 403 |
| `LivenessLabels` | owners kept with a label and its base | 2 sessions, 2 tokens, lease and graces of one step | 2 894 514 |
| `Journal` | promises survive, nothing else ends a session, releases land | 4 daemons, 2 sessions, one overlap, failing appends and compactions, fair | 98 465 |
| `ProxyCalls` | no resurrection, exact ledger, the keeper runs exactly for what must be heartbeated | 2 sessions, 2 calls in flight, each session released; not-found answers, lost connections and the close at any time | 1 426 480 |
| `ForwardQueues` | serial and in order per key, clients never of a session that is gone, waits end, helpers evicted | 2 forwards, one naming its session and one that never settles, 1 input, 2 moves, fair | 322 192 |
| `TaskLifecycle` | one end, by the owner or the recovery; questions answerable | 1 task, 2 instances, 2 questions, 2 calls, a failing statement, crashes, fair | 251 358 |

Some properties are conjunctions of named parts: `SlotsSound` (types, `NoLeak`, `NoIdlePermit`),
`QueuesSound` (types, `OneAtATime`, `NoOvertaking`, `TailsCoverChains`), `TasksSound` (types,
`SettledIsStored`, `RunningRowsAreOurs`), `OwnershipSound` (types, `LiveOwnerHolds`), `LedgerSound`
(types, `ReleasesExact`, `LedgerDrains`), `HeartbeatsSound` (`KeeperServes`, `HeldSound`,
`StaysClosed`, `OwnOutcome`), `ClientsSound` (`BindingIsCurrent`, `StartsWithItsClient`),
`JournalSound` (types, `IntentKept`, `LiveRowKept`), `RowsSound` (types, `ClaimDurable`), `OwnersKept`
(`LiveOwnerKept`, `OwnerNotReaped`), `SlotsShared` (types, ledger against pool of boots and records).

Deadlock is not checked: a proxy closes, and the other instances are finite, so that when their
sessions, requests or restarts are used up nothing is left to do.

### Disagreements between a comment and the code

`OwnershipFilesRace` is a run and a finding. With claim files alone (no mirror), d2 reads d1's claim
and asks d1, which answers that no session uses the device. Before d2 acts, d1 gives the device to
another session under the same token, and d2's takeover succeeds on that newer claim: the comparison
covers PID and token, which a daemon keeps for its lifetime. "Two daemons must never drive the same
device" (`daemon/foreignClaims.ts:142`) does not hold there.

The others have no run of their own. Each can be seen by changing the instance as said; the runs above
stay on the near side of them.

* A claim call that is refused after its session let go withdraws the row or the file that a newer
  session of the same daemon depends on, which `connectionOwnership.ts:32-33` rules out
  (`OwnershipFaults` with two sessions of one daemon and `DriverIsVisible`).
* A release whose delete waits for an earlier write is issued when that write settles
  (`deviceClaims.ts:413`, `:452`). By then a newer session's claim call can have its compare-and-set in
  the queue; the delete runs behind it and removes the row that session just acquired, and the session
  drives without the row `acquire` gave it (three sessions of one daemon, no faults, and
  `DriverKeepsClaim`). Its file still stands, where the daemon can write one.
* `acquire` waits for an open registry outside its `try` (`deviceClaims.ts:218`), so an open that fails
  or stalls fails the claim call, although `deviceClaims.ts:89-91` promises `unavailable`; an
  allocation then leaves its session bound without a claim (`AcquireThrows`).
* The idle timer of a key fires while an MCP forward holds it: `onForwardKeyIdle` returns
  (`McpExecution.ts:773`) and the end of a forward arms no timer, so the cached helper stays, although
  it should go once its key is unused (`forwardSessionKey.ts:58-60`). `UnusedHelperDropped` therefore
  speaks of behaviours in which only device inputs used the queues.
* With two instances alive (`Peers = TRUE`), recovery fails the running tasks of the live peer
  (`mcpTaskRepository.ts:234` against `:79`): `OwnerSettles` fails.
* A progress report during the write of an answer stores the status it read before that write
  (`TaskManager.ts:198`), so the work waits for answers to questions `tasks/get` no longer shows
  (`elicitation-ambiguous-device.md:106-107`). `QuestionsAnswerable` is about tasks without reports.
* A selected session that the proxy does not hold becomes the latest binding while the fence of the
  released one stays up (`SessionBinding.ts:249`), although "a fence never coexists with a latest
  binding" (`LatestBindingKeeper.ts:94`). The selected one may be the fenced session itself, when two
  selections were in flight; moving on from it holds it beside its own fence. Then the keeper and the
  table differ: `startBoundSessionHeartbeat` starts none for what is held under the fence, and once the
  fence is lifted a keeper may be left running for nothing. `KeeperServes` names both cases. And a
  session answered not-found while it is held beside its own fence is not held again by a later echo
  (`ProxySessionOwnership.ts:720`); `Keeping` leaves the fenced session out.
* A session that a not-found answer stopped and that a call then acquires again is claimed, but the
  binding does not clear `notFoundStopped` (`SessionBinding.ts:114-119` returns early and the rest of
  the function leaves it), so it is heartbeated only once a later call uses it, although "every live
  session the proxy acquired or used is heartbeated on every tick" (I3 of
  `proxyHeartbeatStateMachine.property.test.ts`). `HasTargets` follows the code.
* An append that writes part of its line and fails makes the next line unreadable
  (`terminalReleaseJournal.ts:378` against `:43-44`): with `Faults = {"torn"}` a release records its
  intent behind the partial line, frees the device and crashes, and the replay skips both.
* The list of live daemons is taken before a peer starts (`DaemonStartup.ts:931` against
  `terminalReleaseJournal.ts:20-21`): with `N = 3`, `Overlap = {2, 3}`, daemon 3 lists 1, daemon 2
  starts and records an intent, and 3 adopts and removes 2's file as if 2 were dead.
* A start-up removes the file of a dead daemon (`terminalReleaseJournal.ts:563`) that a live survivor
  has still to read, although it should stay "the one copy every survivor can read" (`:53-54`): the
  survivor finds no intent and serves the session (`Overlap = {2, 3}`).
* A dead journal that could not be removed after its adoption is read again as its daemon's
  (`recoveredTerminalReleaseIntents.ts:216`). Its intents are then that daemon's and no longer match
  the row of an earlier one, which comes back; `terminalReleaseJournal.ts:565-566` takes the leftover to
  be harmless (`Faults = {"remove"}`).
* An adoption that fails is left to a later start (`:545`), and meanwhile the sessions of that file are
  rehydrated, against `:14-16` (`Faults = {"adopt"}`).
* The roll-back of a failed claim puts the owner's lease back to before heartbeats that arrived during
  the write (`sessionLivenessLease.ts:316`), which should stand on their own (`:335-337`).
* A tool call on a rehydrated session takes it out of `awaiting-owner` (`sessionManager/admission.ts:185`)
  and so to the grace of a session that never heartbeated, shorter than what a returning owner is
  promised (`SessionHeartbeatMonitor.ts:762`).
* A label that is heartbeated through its base has received no heartbeat itself and gets no suspect
  grace (`livenessOwnerLease.ts:231`), so its owner need not miss four beats
  (`wire/sessionLivenessWindows.ts:18-19`). `Window` names this case: such a label is kept for the
  lease, and `OwnersKept` says that it is never ended earlier than that.
* After a restart a label that waits for its owner is ended although its base is heartbeated
  (`SessionHeartbeatMonitor.ts:755-770` looks at the label alone), while "a later base heartbeat is owner
  proof even if this label never heartbeated by name" (`:736`). `ProvedBy` leaves the base out there.
* Android: a replacement's reservation names its old device, and `listedWithoutProcess` skips
  replacements. When that device goes between another call's adb read and its process table, the
  reservation counts in neither view, and beside an emulator that only the table shows a boot past the
  limit is admitted, although the count "covers local and peer admissions whichever read came first"
  (`AndroidBootAdmissionGate.ts:474-475`). The replacement's own credit has the same gap. `Split`
  names this case and `AdmitsWithinLimit` leaves it out.
* Android: when the write of a hand-off fails and the daemon then dies, peers drop the record as one
  never handed off while its launcher runs (a daemon both in `MayCrash` and in `Faulty`).

Consequently `DriverIsVisible` and `DriverKeepsClaim` are checked where each daemon has one session,
and exclusion with two sessions of one daemon where the table decides.

### Bounds

* `AcquireAttempts = 3`, the code's value. `MaxRetries = 1` of the code's five: one retry reaches every
  state of an intent (fresh, retried, out of retries). `TypeCorrect` is proved for every value.
* `Stamps = 0..5`: a version is reused once nobody holds it, and at most the row and the rows seen
  by writes and calls in flight are held at once.
* Two daemons meet every pairwise race of claims and of Android boots. A limit of one emulator with
  three boots makes every uncounted boot a violation; `b1` and `b3` are boots of one daemon and
  interchangeable (`SYMMETRY`). Limit two was checked without faults (1.9 million states).
* Three pieces of work and three assignments let cleanup outlive two sessions and be joined by new
  work.
* Three kinds of calls, two at a time, make every pair of results meet two releases, any number of
  not-found answers and of lost connections. Calls begin on a connection that is up: one that begins
  without waits for it. A session is released once (`Repeats`); releases notified again were checked as
  well (2.6 million states). Sessions and calls are interchangeable (`SYMMETRY`).
* Four daemons: one that dies, one beside it, one that dies during adoption, one that finishes.
* Ages in `SessionLiveness` are one step each of lease, grace and first grace, so each boundary is met
  from both sides, for a label too. In `LivenessLabels` other clients' tool calls reach the label
  (`Called`), tokens are interchangeable, and nothing restarts or fails; the same instance with one
  restart was checked as well (6.4 million states).
* `MaxReroutes = 1` with two moves reaches the re-route, its repetition and the refusal.
* `MaxCalls = 2`, `MaxProgress = 1`, `MaxFailures = 1`: an update races a cancel while one write fails.
  Three calls, and two tasks, were checked as well.

### Fairness

* Ownership: weak fairness of each claim call's and each mirror's next step: continuations that are
  ready run, socket questions and statements have timeouts, timers fire. Nothing forces a release, a
  crash, an open or a shutdown.
* iOS boots: weak fairness of each request's next step; samples and boots have deadlines. An abort is
  never forced. A reset that is refused goes back to `"new"`: trying again is its caller's.
* Forward queues: weak fairness of reaching the front, resolving, queueing again and giving up at a
  deadline, and of settling unless the request is `Stuck`; idle timers fire.
* Tasks: statements complete, a released waiter resumes, detached work ends.
* Quarantine: plain work settles, caps fire, releases and deferred releases run. Capped work may hang.
* Journal: start-up steps, row writes and settlements are retried until they happen. A crash is never
  forced.
* Liveness: weak fairness of the mutex, writes and releases; strong fairness of the clock and of the
  monitor, whose timer fires again however often a claim or write intervenes.

## 4. What is proved

Each `_proofs` module states its theorems at its end and its inductive invariant (`IInv`, with its
parts) at its beginning. A theorem holds for every value of the constants that satisfies the module's `ASSUME`s, the
bounds of the runs (`MaxCalls`, `MaxFaults`, ...) included.

| Theorem | States | Hypothesis |
|---|---|---|
| `CapacityIsNeverExceeded` | `Spec => []WithinLimit` | |
| `SlotsAreSound`, `PermitsInOrder` | `[]SlotsSound`, `FirstComeFirstServed` | |
| `TypeCorrect`, `ClaimEndsWithAssignment`, `RowEndsWithAssignment` | `[]TypeOK`, `[]NoStrandedClaim`, `[]NoStrandedRow` of the ownership protocol | |
| `OneSessionEachLock` | `[]Exclusive`, `[]DriverIsVisible`, `DriverKeepsClaim`, `ImplementsLock` | `Writable = Daemons`, `OneSessionEach` |
| `OneDriver`, `OneLock` | `[]Exclusive`, `ImplementsLock` | `Writable = Daemons`, `[][RebindsQuietly]_vars` |
| `DriverVisible` | `[]DriverIsVisible` | `[][RebindsQuietly]_vars` |
| `DriverKeeps` | `DriverKeepsClaim` | `[][RebindsCleanly]_vars` |
| `QueuesAreSound`, `ClientsAreSound` | `[]QueuesSound`, `ClientsSound` | |
| `OwnershipIsSound`, `BindsAreClean`, `OwnersKeepTheirWork` | `[]OwnershipSound`, `BoundClean`, `OwnersWorkKept` | |
| `LedgerIsSound`, `NothingResurrected`, `HeartbeatsAreSound` | `[]LedgerSound`, `NoResurrection`, `HeartbeatsSound` | |
| `TerminalRowsStay`, `SettledTasksAreStored` | `TerminalStays`, `[]SettledIsStored` | |
| `TasksAreSound`, `OwnersSettle`, `QuestionsAreAnswerable` | `[]TasksSound`, `[]OwnerSettles`, `[]QuestionsAnswerable` | `~Peers` |
| `LiveOwnersKept`, `ReturnsAreClaims` | `LiveOwnerKept`, `NoSilentReturn` | |
| `RowsAreSound` | `[]RowsSound` | `OneWriteLands` |
| `OwnersAreKept` | `OwnersKept` | `Sessions = {Main}` |
| `JournalIsSound`, `SessionsStayReleased`, `OnlyWantedEnd` | `[]JournalSound`, `NeverRevived`, `EndedWasWanted` | `Dependable` |

The hypotheses are those of the runs or weaker, and each but the first, which says where the proof
ends, is needed: without it the code really does otherwise (section 3, and the comments at the
definitions).

* `Writable = Daemons`: every daemon can write the claim directory, so that the claim file decides
  between them. Where some daemons cannot, the table decides alone; that case is checked by
  `OwnershipTable`.
* `OneSessionEach`: a daemon process binds the device at most once, as in `OwnershipFaults`. Any number
  of daemons and any fault, crash, wedge and shutdown are allowed; nothing is assumed of behaviours.
* `RebindsQuietly`, `RebindsCleanly`: hypotheses on behaviours, for daemons with several sessions. A
  daemon binds the device again only when none of its claim calls is under way and nobody is about to
  take over its claim file on an earlier verdict (`FileQuiet`); `RebindsCleanly` adds that nobody is
  about to replace its row on such a verdict and that its mirror has no delete left (`RowQuiet`). The
  code waits for none of this, and `OwnershipFilesRace`, the late withdrawal and the late delete of
  section 3 are what happens when it does not. The theorems say that these are the only ways.
  The hypotheses are not vacuous: they follow from `OneSessionEach` (lemma `FreshRebinds`), and with two
  sessions of one daemon TLC reaches 370 689 states of behaviours that satisfy them, faults included.
* `~Peers`: one task instance lives at a time. A second one recovers the rows of the first as its own.
* `OneWriteLands`: not both the write of an adoption and the write of a release can fail.
* `Sessions = {Main}`: no labels. Labels and their base share one keeper, and `OwnersKept` with labels
  is checked by `LivenessLabels`; `LiveOwnerKept`, the part about displaced owners, holds with labels.
* `Dependable`: journals are adopted and removed without failure, no line is written in part, and
  only the second daemon starts beside another. A daemon that starts beside one that is itself still
  starting is the stale list of live daemons of section 3.

**Boot capacity.** `WithinLimit` alone is not inductive, because a decision trusts an old listing.
`IInv` adds:

* `SlotsFit`: running simulators and ledger entries together (an entry and the device it names
  count once) fit the limit;
* `Covered`: for a call that holds a listing, every slot in use is in the listing, in the
  ledger, or was ended in the call's window. This is what makes the call's count an upper bound,
  and it is why `end` must feed every open window;
* `HoldsSlot`, `WindowOpen`, `StoppedOff`, `ResetOn`: an admitted request has its entry under the
  right device, a sampling call has its window, a reserved device that was stopped is off, and a
  device under reset is not turned off by others.

The central step is `DecideFits`, which counts listing and ledger against the slots
(`Counting`), or exchanges a reset's own slot (`Exchange`). The permits have an invariant of their own
(`PermitInv`: each boot is in one place, and a permit is idle only when nobody waits). Its central
lemma is `DrainSound`, about the loop that hands permits to the front of the queue.

**Ownership of a device.** `TypeInv` adds that a call or write that judges an owner has seen one, and
that a call in its loop has an attempt left. For `NoStrandedClaim` the invariant adds that a claim
file of a running daemon is published or has a call past the taking of the file
(`FileAccounted`), which is stronger than the property's "some call is under way", and that what
is published is held by a session (`ClaimedHeld`). The other properties build on it:

* `NoStrandedRow` needs to know who still removes a row. `RowInv` says that a row naming a running
  daemon belongs to a published claim or a call the table decided (`Owed`), or that the mirror's intent
  is its release, and that such an intent has a write under way that deletes, an armed retry, or used
  up its retries (`RowKept`).
* `Exclusive` and `DriverIsVisible`: a take-over uses a verdict given steps before. `FileInv` says that
  whoever is about to take a file over has judged an owner that does not drive the device and will not
  before it binds again (`FileVerdict`, `Quit`), and that the session with the device, once past the
  taking of the file, is named by it (`FileHeld`). The compare-and-set of the take-over then only ever
  hits a file whose owner has quit.
* `DriverKeepsClaim` needs the same of the table: `KeptInv` says that who is about to replace a row has
  judged an owner that has quit (`RowVerdict`), and that a row is to be deleted only after its session
  let go, or about to be by a roll-back (`LateRelease`).
* `ImplementsLock`: the lock's owner is the session that drives. No step both ends one
  drive and begins another (`DriverStep`); with `Exclusive` on both sides of the step the owner
  therefore moves from `None` to a session or back, or stays.
* `OneSessionEachLock` discharges the hypotheses on behaviours: nothing in the system names a daemon
  whose session was never bound (`FreshInv`), so its first binding is always quiet.

**Forward queues.** That a waiter waits for the holder of its key says nothing about the next holder
when a waiter between them gives up. Inductive is the order of the chain: of two requests on one key
one waits for the other (`Ordered`), and a holder waits for nobody (`HolderAtFront`). `ClientsSound`
needs of every step that changes `bound`, `live` or `connected` that it keeps the binding current.

**Quarantine.** A release under way knows its session and the assignment count only. The invariant
says that the count has moved on (`ReleasesPast`), roll-backs of binds included, that a bind under way
holds the device alone (`BindAlone`), and that all running work is tracked and capped only while the
device is nobody's (`WorkTracked`, `CapsFenced`).

**Client proxy.** The ledger forgets by reference counts, so the invariant says what each counter
counts (`Counts`, a cardinality of calls in flight), that epochs only grow (`Past`), that a release
is newer than a call exactly if the call saw it (`Exact`), and that a record is kept only while a
counter needs it (`OnlyNeeded`).

`HeartbeatsSound` is an action property, and its parts need one another. `Claims` says what is held is
claimed, not stopped and not the binding, that no claimed session has ended, and that a closed proxy's
keeper is stopped. `Kept` follows the keeper through its pauses: an interval is missing only while a call
waits for the keeper's stop (`Paused`); where `KeeperServes` looks (`Serving`), a keeper that should run
and does not is some call's to start after its first heartbeat, and one that runs has something to
heartbeat. Both depend on every change of the held set, the binding, the fence or the stopped set being
followed by `Sync`; the lemmas about the helpers (`Fence`, `UpdateBound`, `Publish`, ...) carry them from a
state whose keeper has yet to be synced (`Ready`) to one where it was. `OwnOutcome` is shown per
step: what a helper lets go of is the session it was called for.

**MCP tasks.** A step stores a statement issued many steps before. The invariant says what a queued
statement may still assume when its turn comes (`QueuesFollow`, `LiveRows`, `Answers`) and which
statements of a queue were issued in which order (`Once`, `Sequenced`).

**Liveness of a session.** A write that fails puts back what its operation found, so the invariant
speaks of the saved state of the operation inside the mutex as it speaks of the session itself
(`ClaimOpen`, `ReleaseOpen`, `AdoptOpen`), and of the row once the mutex is free (`Closed`).

**Terminal releases.** That an intent is in some file says nothing of who reads the file. The
invariant follows it: a successor adopts every journal before it serves (`AdoptedBy`), a survivor
reads the journal before it takes a session over (`BesideFirst`), and an intent leaves its file once
another has it or the row is written (`RecoveredBy`, `ServedBy`). `Order` says which daemons overlap.

The assumptions are the named `ASSUME`s of the modules: the constants have their types, the
placeholders (`None`, `NoSession`, `NoToken`, `NoWaiter`, `NoOp`, ...) are distinct from what they stand
beside, calls of a proxy and boots are finite sets, and (`GateAssumption`) a device is reset or
replaced by one operation at a time and a replaced device is not booted meanwhile, which the session's
ownership and the binding journal ensure in the code.

Only model-checked: `Exclusive` and `ImplementsLock` of the ownership protocol where some daemon cannot
write the claim directory and the table decides alone (its argument is about versions of rows, not about
the file); both properties of Android boots; `OwnersKept` with labels; and every liveness property
(`CallsEnd`, `ClaimLeaves`, `RequestsEnd`, `BoundedRequestsEnd`, `UnusedHelperDropped`, `ResultsSettle`,
`DeviceComesBack`, `EndedLands`, `DeadOwnerReleased`), which is out of the prover's reach under
fairness.

## 5. What is left out

* Ownership on Android: the CtrlProxy lease, forward evidence and 0.0.84 claim files add sources of
  evidence before the same protocol. `refresh` and the `owners` cache only advise which device to try.
* Two writes of one owner in the same millisecond share `updatedAtMs`; the code documents this as
  accepted (`deviceClaims.ts:30-31`) and the model gives distinct writes distinct stamps.
* A live serving daemon's socket is reachable. A daemon that is shutting down no longer counts as
  driving: its sessions are being released.
* Each session makes one claim call; claims repeated by a rebind of the same session are the
  same steps with another session.
* The registry opens once and stays open until shutdown (`DaemonBroker.ts:386-414`); a failed open
  is `AcquireThrows` for a waiting call, and an unsupported schema is `Skip`.
* Lock files are atomic; what `utils/fileLock.ts` does inside an acquire or takeover is not modelled.
* The limit of simulators and of emulators is constant; sizing by memory, pressure and hardware is
  data. Emulators started outside AutoMobile while a sample is under way cannot be counted by anyone.
  A simulator under reset is not stopped by others, since a reset of a running simulator keeps its
  slot even above the limit (`CapacityGate.ts:220`).
* Android boots: a launch spawns within its budget (peers drop a record past `admittedUntilMs`, as the
  tests of the registry want), and its process shows in a table at least a sample's length before the
  budget ends; a spawn that is rejected after its process exists ends with that process; the takeover
  of a live owner's lock after a minute, corrupt records and recycled process ids. Without a process
  table only listed emulators and boots within their budget are counted, and the property says so.
* Quarantine: releases forced because they are stuck, and the removal of a device from the pool.
* Liveness: the cli-idle and managed policies, stall forgiveness, idle expiry, the credit of a release
  under way, heartbeats without a token. A release whose write fails after an adoption whose write
  failed leaves a row with an old owner; `FailOps` has one kind of failure less.
* Journal: the legacy shared file and the text of a line.
* Proxy: the not-found windows and the second question (the model lets every not-found answer be
  awaited, ended or stopped), sessions resumed by an owner token, broker sessions, start-up bindings,
  recoverable handoffs, draining, resuming after a stall handover, the shutdown barrier, the wait for the
  keeper's stop at the close and what the close clears after it. Heartbeats in flight are their answers.
* Forward queues: a released session that recovers from a restart while forwards wait, and the timer
  that fires under a forward (section 3).
* Tasks: when both writes of a settlement fail the row stays running until the next start;
  `MaxFailures = 1` stays short of that.
* Sessions, execution tracking, shutdown reservations, start-up and the session broker's provisioning
  have no module yet. Device features, the on-device apps, the CLI and migrations are calls into
  platform tools, or separate programs, with no shared state of their own to check.
* Ownership labels, wording and logging.

## 6. Plan

1. `Exclusive` and `ImplementsLock` for the table-only protocol (`Writable # Daemons`), whose invariant
   must relate every row a call has seen to the current version.
2. `AdmitsWithinLimit` for every number of daemons and boots, with the cover argument of the iOS gate
   extended to records.
3. `ExclusiveLockFile` (link, marker and back-out steps of `utils/fileLock.ts`) implementing the atomic
   file of `ForeignDeviceOwnership` and the lock of `AndroidBootAdmission`; `DaemonStartupLock` on it.
4. `ExecutionTracker` with restart admission, and the shutdown reservations.
