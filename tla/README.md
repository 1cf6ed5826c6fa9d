# A verification project for platformio-mcp

platformio-mcp is a server (and a command line) through which agents and people
build firmware, upload it to boards and watch their serial ports.  What can go
wrong in it that matters is not in its parsers.  It is that **a device is used
by two processes at once**, that **a device is never given back**, and that **a
hardware write happens that nobody granted**.  Each of these is spread over
several processes, which crash, time out and outlive each other, and over files
that they share.  These modules model that part.

Paths below are relative to the repository, which is checked out as `src/`: the
program is `src/src`, its tests `src/tests`, its documents `src/docs`.

## 1. Inventory

### 1.1 The parts that share devices

| Part | State | Operations | Interacts with |
|---|---|---|---|
| **Device lease store** `core/devices/device-lease.ts` | one record per device in a directory of the host: owner, start token, nonce, pending handoff; a gate per device; the handles, receipts and tickets in memory | acquire, beginHandoff, cancelHandoff, transfer, finishTransfer, adopt, release, status | every process of the host, through files |
| **Process device custody** `core/devices/process-device-custody.ts` | a lease and how far its release got | acquire, prepareSpawn, releaseAfterExit | the lease store; the spooler and sessions use it |
| **Direct serial transport** `core/serial/serial-transport.ts` | port flags, pending operation, waiting closers | open, write, close, and the port's events and timers | callbacks of the `serialport` library; the session manager |
| **Serial session buffer** `core/serial/session-buffer.ts` | the retained lines with their cursors, the incomplete line, the waiting readers and their deadlines | receive, read (with or without a pattern, in two semantics), close | fed by the transport; read by any client of the session; a pattern matcher in a worker |
| **Serial session manager** `core/serial/session-manager.ts` | sessions, reservations, disconnected owners; per session its leases, transport, hold and external process | start, startDiscovered, stop, stopAll, disconnectOwner, forget, holdForPower, the beforeOpen hook | lease store, transport, power metering, uploads |
| **Custody sequence and captured uploads** `core/devices/process-custody-sequence.ts`, `tools/manifest-upload.ts`, `core/analysis/pending-upload-store.ts`, `core/analysis/retained-upload-execution.ts` | a lease lent to a capture and then to an uploader; the pending uploads of a connection; the cleanups that failed | nextPhase, prepareSpawn, releaseAfterExit, finish; create, resume, close; execute, cleanup | the lease store, supervised children, approvals |
| **Debug sessions** `core/debug/debug-client-sessions.ts`, `debug-backend-session.ts`, `debug-process.ts`, `debug-backend-process.ts`, `debug-start-failure.ts` | the sessions, starts, reserved ids and stops of a connection; two process groups and the leases per launch | start, stop, detachAndStop, resetRunAndStop, close; cleanup and release with their retries | the lease store, supervisors that confirm that a group is gone |
| **Hardware lock and build spooler** `utils/lock-manager.ts`, `utils/spooler.ts`, `utils/process-manager.ts`, `utils/owned-process-wait.ts` | the lock of the server, the pid records of a project's builds, child processes | acquireLock, releaseLock, requireLock, withImplicitLock, executeWithSpooling, the dashboard's evictions, reset | custody, registries, dashboard (`api/server.ts`) |
| **Port claims and monitor lifecycle** `utils/semaphore.ts`, `tools/monitor.ts`, `tools/upload.ts` | one claim file per port with guard and breaker, the registry of monitor pids | claimPort, attachMonitorPid, releasePort, startMonitor, stopMonitor, upload, `port release` | every process of the host, the lease store |
| **Approvals and write budget** `core/policy/approvals.ts`, `core/automation-state.ts`, `core/policy/automation-policy.ts`, `core/policy/evaluate-policy.ts` | the file of approvals with a claim file per use; the state file of an automation | create, approve, deny, consume; reserve, health check, clear | agents, operators, the scheduler: separate processes |

What makes these hard:

* **Interleaving.** `start()` of a session has seven awaits, `executeWithSpooling`
  a dozen, a debug launch with its backend as many; at each one another call, a stop or a disconnect can come in.
* **Processes that outlive their parents.** An upload or monitor goes on when the
  server dies, and may not be confirmed to have ended when it is killed.
* **Reused process ids**, behind which the owner of a file may look alive.
* **Half-done operations.** Two leases of one session, a cancelled handoff
  whose release is refused, a child that cannot be recorded.
* **Late answers.** An open that succeeds after its timeout, a closure after it
  was reported as unconfirmed.
* **Files changed by several processes**, under locks that can be overtaken.

What makes each part correct, in one line:

* lease store: at most one live process holds a record that matches; nobody takes
  a record over whose owner lives or whose handoff is unresolved;
* custody: a device in use is recorded as such, before use begins and until its
  end is known; a cleanup that stops half way blocks the device no longer than its server lives;
* transport: "closed" means closed, and no operation succeeds after the end;
* sessions: leases last as long as the use of the device and no longer than the
  cleanup needs, unless the store refuses a release, which the session then says; a stopped session
  opens nothing;
* buffer: a reader is given each line or told that it is lost, once; it is told of the end,
  and of the end only when nothing is left; memory stays within its budget;
* captured uploads: the port is leased while a child may use it, no lease is forgotten,
  approved firmware is flashed at most once and never after the client went;
* debug sessions: leases outlive both process groups, no debugger is lost, a disconnect
  returns, and one that reports success left nothing;
* spooler: two builds under the lock never run together; a lock is neither leaked
  nor lost while its child is uncertain;
* claims: one process uses the port, and no claim is lost from under its holder;
* approvals: one grant permits one write, decisions last, the budget's limit holds.

### 1.2 The other parts

`PROJECT.json` lists all 28 components.  Those not modelled are:

* *state machines*: custodies of several leases, the build cache, task cancellation, the
  protocol of power metering, the shutdown coordinator (section 7 says why);
* *data*: parsers, reports, analysis and diagnostics, project and package
  inspection, debug configuration, policy files, OTA artifacts;
* *I/O and glue*: discovery of devices, the executor, the action catalog and the
  adapters, the MCP tool dispatch, the command line's argument handling;
* *outside the program*: packaging, plugins, the browser client, the site.

Two thirds of the repository's code lines are one generated file, the bundle
`src/plugins/platformio-mcp/runtime/platformio-mcp.mjs` (141,798 of 213,706), which contains
`src/src` a second time together with its libraries.  The `map` names the sources and never the
bundle, so that its share of all lines says little of the share of the program.

## 2. Plan

### 2.1 What there is, in the order in which it was built

| Module | Models | Composition |
|---|---|---|
| `LeaseRegistry` | abstract: a record per device, every operation one atomic step | |
| `DeviceLease` | the store by its system calls, gate included | implements `LeaseRegistry` |
| `ProcessCustody` | custodies, children and ports over leases | extends `LeaseRegistry` |
| `SerialPromise` | abstract: what a transport may do | |
| `SerialTransport` | the transport by its callbacks and timers | implements `SerialPromise` |
| `SessionBuffer` | the received text and the calls that read it | |
| `SerialStream` | a transport and its buffer, as a session joins them | composes `SerialTransport` and `SessionBuffer` |
| `SerialSessions` | the session manager | uses `SerialPromise` for each transport, leases inline |
| `CustodySequence` | one custody lent to the children of one upload in turn | the lease inline |
| `ManifestUpload` | captured uploads of a connection | extends `CustodySequence` |
| `DebugLaunch` | the launch of a debugger with its backend, and its cleanup | |
| `DebugClients` | the debug sessions of a connection | extends `DebugLaunch` |
| `BuildQueue` | lock, spooler, build records, dashboard, reset, restart of the server | |
| `PortClaims` | claim file, registry, monitors and uploads | the lease inline |
| `LockFile` | a proper-lockfile lock | used by the next two |
| `ApprovalStore`, `WriteBudget` | the two files of the policy | |
| `PolicyGate` | evaluation of a scheduled write | composes both |
| `…MC` | small instances for TLC | |
| `…Proofs` | theorems | |

The abstract specifications serve the composition: `ProcessCustody` builds on
`LeaseRegistry` and not on the gate and its files, `SerialSessions` on
`SerialPromise` and not on ports and timers; the two refinements say that it may.

### 2.2 What is done and what is left

Of the plan the project began with, the store, custody, transport, sessions, spooler, claims and
approvals came first; the buffer, custody sequence, captured uploads, debug sessions and the
restart of a server were added after them, each with its proofs.  What is left:

1. *Model.* The custodies of several leases with their partial failures; the build cache; the
   cancellation of tasks; the supervisors' own protocol; a suspended process inside a change
   of a port claim.
2. *Prove.* Every safety property that a run checks is proved, but for what `PortClaims` does
   with two monitors of one port, which holds only while no stop misfires (sections 5 and 6).  A
   next step would be the leases of `SerialSessions`, `BuildQueue` and `ManifestUpload`, which are
   inline in these modules, as uses of `LeaseRegistry`, as they are for the custodies.

Runs for new modules would have to replace smaller ones (the counterexamples of section 5 stay
as long as the code does).

## 3. The modules and the code

Every definition that models code has its lines in the `map` of `PROJECT.json`.
An operator whose comment begins with "Wrong:" is a variant of the definition
after it with a plausible mistake; the specifications do not use it, and it shows
that the property it is paired with in `mutants` notices the mistake.

**DeviceLease.** A process makes one call at a time.  `Enter` creates the gate
directory (or the call fails as busy), `Check` reads the record and applies the
guards of the method, `Write`… publishes a new record by rename or removes it, and
`Leave` removes the gate.  The process can die between any two.  `Start` and `End`
are the operating system's: a process may get the id of a dead one, with another
start token, and `Observed` is what `compareProcessIdentity` may answer, "unknown"
included.  `RepairGate` is the operator who removes the gate of a dead process, which
nothing else does.  Handles, receipts and tickets are sets of (device, nonce) in the
memory of a process; one that crashed forgets them.

**ProcessCustody.** `AcquireCustody`, `PrepareSpawn`, `Spawn`, `ConfirmExit`,
`CancelCustody`, `ReleaseCustody` follow the custody of one child from acquisition to
the release, whose two calls of the store (cancel the handoff, release) can each be
refused.  A caller may then try again, from the first call, or never come back: the owner of a debugger and
a kept cleanup do the one, the spooler the other.  `Reserve`…`ReleasePort` are the shorter life of a lease that
a serial session holds for itself.  Servers die at any step; their children do not.

**SerialTransport.** One action for each method, event handler and timer.  `port` is
the library's state, which calls back late or never; `flags` are the transport's own.
The order in which callbacks and timers come is what the properties are about.

**SessionBuffer, SerialStream.** Completed lines are numbered; `offset` has the bytes up to each
retained one, which is what eviction and pages look at.  `FinishLine` and `Character` are what
`receive` does with a chunk after decoding, `CloseBuffer` is `close`.  A reader is a client that
goes on reading from the cursor it was last given.  Its call looks (`Look`), and either answers,
sleeps (`Sleep`, with the limit on waiters) or gives a copy to the matcher; when that answers
(`Found`, `FoundLine`, `NotFound`) the stream may have moved on, which `changed` remembers as the
code's revision does.  `Expire` and `Cancel` are the deadline and the caller's signal.
`SerialStream` feeds the buffer from the transport: data only before its end (`Data`), the end in
a turn of its own (`Terminated`), and first the buffer and then the port when a session is
stopped (`EndSession`).  Redaction may make a line longer or shorter (`Filtered`).

**SerialSessions.** `pc[s]` is where `start()` waits; each action is the code between
two awaits.  `wire[s]` moves as `SerialPromise` allows.  `hook` and `hold` are the two
ways in which a session lends its device, and "spent" is a custody or hold that will
start nothing more and whose release is due.  `refused[s]` is what `cleanupError` says after
`releaseLease`: that the store refused to take back a lease.  `write` and `list` change none of this state and
are not actions; reading is in `SessionBuffer`.

**CustodySequence, ManifestUpload.** `phase[c]` is the one child phase of a sequence that may be
out; `NextPhase`, `BeginPrepare`/`PrepareEnds`, `ReleasePhase` and `Finished`/`FinishFails` are
the methods of `ProcessCustodySequence`.  A call takes the lease of its port (`Begin`), captures
(`CaptureStarts`…`CaptureUnconfirmed`), stages a pending upload (`Stage`) and resumes it, or
resumes the one of an earlier call; `Resume`…`Granted` are `PendingUploadStore.resume` up to
the approval, `Verified`…`CleanupFails` the execution with its supervised uploader, and `Settle`
the `finish()` at the end.  A cleanup that fails is kept (`keeper`), and `Close` with its steps is
the disconnect, which drops what is pending, waits for what executes and tries the kept cleanups.

**DebugLaunch, DebugClients.** A launch takes the leases, starts the debug server and then GDB,
in the order that `Backed` decides; every await of it can fail (`LaunchBreaks`), whereupon its owner
cleans up (`Undo`).  A group ends confirmed ("gone") or without its supervisor's proof ("lost").
`CleanUp` is `cleanupProcess` of each kind of owner, `ReleaseEnds` is `releaseIfConfirmed`.
`DebugClients` adds what the connection keeps: admission (`Start`), ids reserved for a request that
awaits its approval, stops that share one cleanup, and `close()` in its three stages.  `Forget` drops
what a launch knew that has ended when its owner goes; what has not ended stays in view.

**BuildQueue.** A job is one call of a tool.  How it is locked (`Locking`) is a
constant: implicitly, by a session id, not at all (dashboard build) or by the
dashboard's install.  `Check`, `Spawn`, `Register`, `Settle`, `Clear` are the awaits of
`executeWithSpooling`; `Leave` is the `finally` of `withImplicitLock`.  `ServerDies` forgets the
calls and the lock and leaves children and records, at any step; `given` is a history of the jobs
whose protection was given up from outside the call: by the dashboard, a reset, or a death of
the server before the child was recorded.

**PortClaims.** Each call begins by stopping whatever monitor has the port
(`stopMonitorPort`): read the claim (`Begin`), kill under the registry's lock
(`NothingToKill`, `Kill`, `KillConfirmed`, `KillFails`), release the claim that was
seen (`Stopped`) or give up (`StopUnproven`).  A monitor then claims, looks at the
lease again, spawns, attaches its pid to the claim and registers it, each of which
can fail and be cleaned up with or without confirmation.  An upload claims, takes the
custody of the device, spawns and ends.  A change of the claim file happens under its
guard and is one step; `ClaimBrokenOff` is what a death inside the guard leaves.

**PolicyGate.** A caller is a process of its own that makes one call at a time.
`ApprovalStore` has the steps of `mutate` (lock, read, act, save, answer) and the claim
file of a use; `WriteBudget` those of `withAutomationStateLock`, with the state file
that is created outside the lock; `PolicyGate` the order in which `evaluatePolicy`
uses both.  A sleeping machine lets the lock of a `Sleeper` be overtaken in the
approval store; `overtaken` remembers it, since some properties hold only without it.

## 4. The runs

`tlc -config X.cfg M` in this directory.  All runs check deadlock off: in each system
every call may have ended and every process be gone.

| Run | Bounds | States | What it shows |
|---|---|---|---|
| `lease_store` | 3 processes (the third has the first's id again), 1 device, 3 nonces | 29,069 | `HandlesAreCurrent`, `LiveOwnerKeepsLease`, `UnresolvedHandoffHolds`, `GateIsLeft`, and `RegistrySpec`: the store implements `LeaseRegistry` |
| `process_custody` | 3 servers (one reborn), 4 custodies, 2 devices, 3 nonces | 36,233 | `ExclusiveUse`, `UseIsRecorded`, `OwnerChangesWhenIdle`, `DeathFreesTheRest` |
| `serial_stream` | one reader, whose calls have any options; 2 lines, pages of 1 line, 1 byte each, 3 lines received | 315,362 | transport: `ConfirmedMeansClosed`, `NoSuccessAfterEnd`, `Answered`, and `PromiseSpec`: it implements `SerialPromise`; buffer: `LinesAccounted`, `BudgetKept`, `ToldEverything`; both: `EveryReaderTold` |
| `serial_sessions` | an upload with two leases, a monitor of one of them, one owner | 22,639 | `LeaseOutlivesUse`, `NoOrphanMark`, `ForgottenIsFinished`, `StoppedAdmitsNothing`, `LeasesKeptForCause` |
| `build_queue` | two implicit calls (one an upload), a background call of a session, an install of another project; evictions, resets, one restart | 302,553 | `LockedBuildsExclude`, `NoLeakedLock`, `LockComesBack` |
| `port_claims` | a monitor, two uploads and a stop in three processes | 1,057,069 | `OneUser`, `UseIsVisible`, `ClaimIsKept` |
| `policy_gate` | 2 callers, 1 approval, 2 scopes (symmetric), limit 1 | 1,335,665 | `OneGrant`, `BudgetHolds`, `DecisionsAreFinal`, `RequestsAreKept` |
| `debug` | 3 launches of one request, one with a backend; capacity 2 | 255,710 | `LeasesOutliveGroups`, `Reachable`, `CleanCloseIsClean`, `CloseReturns` |
| `manifest_upload` | 4 calls over 2 ports, each of its own capture or of another's; capacity 2 | 1,825,575 | `ChildHasLease`, `LeaseHasKeeper`, `UploadedOnce`, `NoUploadOnceClosed` |
| `build_background`, `claims_replaced`, `budget_first` | | | the counterexamples of section 5 |

The type invariants and `ReadIsFresh` are proved (section 6) and are not repeated in a run.

Why these bounds are enough to meet the interesting cases.  The hazards need *two*
contenders and, in the stores, a *third* party that comes after one has died (a reborn
process id, a second reclaimer).  One device is enough for exclusion, since records and
claims of different devices share nothing; custody has two so that one server can hold
two.  Three nonces are two takeovers.  The session that leases two resources is there
for partial failures, the one that shares a resource with it for refusals.  Three
builds are needed for `build_background`: the first erases, the second is erased, the
third is let in.  In `port_claims` one upload shares the server with the monitor
(the transition lock and the owner check are per process) and one does not.  The limit
1 is the smallest budget that can be exceeded, and the two scopes are one that matches
the grant and one that does not.

In `serial_stream` a capacity of two lines is passed by the third, so that eviction overtakes a
cursor and a page that is being matched; a page of one line leaves more to be read; a single byte
is either in the incomplete line or in a retained one.  Readers share nothing but the limit on
waiters, and that with one reader is never reached: a refused reader is one that comes again, and
the theorems about the text hold for any number.  In `debug` the capacity of two is reached by a
session and a start; the third launch is the one that an expired reservation or a failed launch lets in
under an id that may be in use.  In `manifest_upload` a pending upload is resumed again by a third
call after a second failed, with a fourth on another port, which its lease must not let in.

A call happens at most once for each job, session or claim-holder, so nothing there needs
a counter.  Bounded counters: `spent` in `WriteBudget` stops at
`MaxFlashes + 1`, one beyond the limit; nonces run out (a call that needs a fresh one is then
not made).

### Fairness

* `SerialStream`: `WF` of the timers, which every operation and every close has, of the turn in which
  the end of the transport reaches the buffer, and of each reader: a call that looks or has its
  matcher's answer goes on, and its caller reads on.  Nothing is assumed of data, of the port or
  of deadlines.
* `DeviceLease`: `WF` that a call in progress goes on: the calls are synchronous, so
  only the process's death, which is an action, cuts one off.
* `BuildQueue`: `WF` that a job's call goes on, since each await has a timer.  There is
  none of a child's exit: it need not exit.
* `DebugClients`: `WF` of the steps of each launch and cleanup, of each stop and of `close()`, all of which
  have a deadline or a timer.  None of a process group: it need never end, and `CloseReturns` holds.
* `ManifestUpload`, `PortClaims`, `PolicyGate`: none, and no liveness: their calls fail when a
  store is busy, and a cleanup that was kept is tried again only when the client closes.
* `ProcessCustody`, `SerialSessions`: none either, because nothing in the code makes sure that a release is
  repeated.  The spooler calls `releaseAfterExit` once (`spooler.ts:191`, `:246`, `:346`, `:377`, `:406`);
  `releaseLease` swallows a refusal, and only a further `stop()` tries again (`session-manager.ts:826`–846);
  a port whose close failed stays unconfirmed until the next `close()` (`serial-transport.ts:356`).  A
  device may stay leased for as long as its server lives, and no liveness is claimed.  What the code does
  promise is about safety: `DeathFreesTheRest` says that such a lease goes with its server,
  `LeasesKeptForCause` that a session which keeps one has a cause or says that the store refused.

## 5. What the code does that it says it does not

Three runs expect a violation; `findings` in `PROJECT.json` has the lines.

* `build_background`: `unregisterBuildPid` removes every build record of the project.
  A build that started between the exit and the cleanup of another loses its record, and the
  next one compiles beside it, which "A build is already actively running for this
  project." is to prevent.
* `claims_replaced`: a stop takes the pending claim of a monitor that is being started for
  that of a version without pids when the registry names a monitor that is gone, and
  releases it by force.  `port_claims` has one monitor only and so does not meet it;
  that no *other* history takes a claim from its holder is what it shows.  The two monitors of the
  run never use the port at the same time: the start that lost its claim notices at `attachMonitorPid`,
  and kills its monitor.  But until it has done so the port is free to claim, and an
  upload that claims it then runs beside that monitor: with `burn` added to `Op` in
  `PortClaimsMonitors.cfg` and `OneUser` as the invariant, TLC shows the two processes on one port.
* `budget_first`: `withAutomationStateLock` creates the state file before it takes the lock,
  so the first two runs of an automation may both use the same slot of the budget.
  `policy_gate` checks `BudgetHolds`, which excuses exactly that overlap (`lapsed`).

Also met, without a run of its own:

* A debug launch whose GDB fails before it is spawned, while its debug server runs, is kept with an
  owner that can only release the custody (`debug-start-failure.ts:25`–48).  The release is refused
  while the server runs and nothing asks the server to end, although
  `debug-backend-session.ts:226` says "A GDB failure already retains an owner that knows how to clean
  both processes."  `tlc -config DebugUntold.cfg DebugClientsMC` shows it: `FailedStopHasAsked`, which
  says what that comment promises, is violated.  The leases are safe, the debugger stays known, and
  a client can only wait for the server to end by itself.  The same holds when GDB's supervisor
  closes without proof: `cleanupProcess` throws before it comes to the server.
* The dashboard's install and monitor routes release the lock, whoever has it, when the dashboard's
  own project has no active build (`api/server.ts:1581`, `:1674`): a lock that was kept for a child of
  another project whose end is unconfirmed is lost (`tests/lock-manager.test.ts:69` expects such a lock
  to stay).  `BuildQueue` counts it as given up from outside.
* A read that is cancelled while its pattern is matched answers with a page from before the match and the
  state from after it (`session-buffer.ts:312`), though line 33 promises "A consistent bounded view".  Its
  caller is gone; the reader of the model forgets it.
* `close()` of the pending uploads stops at the first kept cleanup that fails, and the others are tried when it is
  called again.  A `finish()` that fails after `close()` has returned is tried only if `close()` is
  called once more.  A capture whose end is uncertain leaves the lease without a cleanup until
  the process ends; `LeaseHasKeeper` makes that exception.
* A reclaimer that is suspended for longer than the guard of a claim lives removes, when it wakes,
  whatever claim is there (`semaphore.ts:281`): another one, if meanwhile the stale claim was
  released and a new one published.  `PortClaims` makes a change of the claim one step and does
  not show it.
* A `*stopped` record of GDB that comes late is taken for the answer to the command that is pending then.
* `docs/device-ownership.md` calls the store not yet wired (it is) and its process
  inspection on Windows bounded by ten seconds (`process-identity.ts:22` says thirty).
* `docs/cli-first-adapter-design.md:244` says that the TTL applies to same-host claims;
  `isClaimStale` never lets a claim of the same host expire.  The same document makes
  re-entry depend on process and host; the code wants the operation id too.
* A second upload that is refused because a build is active leaves its port claim behind
  (`spooler.ts:161` is before the part that releases it); `RejectUpload` models it.
* `requireLock` looks at a session's lock and takes none, so two calls of one session pass
  together; `LockedBuildsExclude` is about implicit locks and different sessions.

## 6. What is proved

`tlapm XProofs.tla` in this directory; every obligation is proved by Z3, Zenon or LS4.

* **DeviceLeaseProofs** (from the assumptions on constants in `DeviceLease`): type
  correctness, `HandlesAreCurrent`, `ReadIsFresh`, `LiveOwnerKeepsLease`,
  `UnresolvedHandoffHolds`, and `Refinement`: every step of the store is a step of
  `LeaseRegistry` or a stutter.  The invariant adds to the types that process ids are
  unique among the living, that a call in progress owns the gate of its device, that
  what its check found is still so, that every nonce in use was drawn, and that the
  nonce of a handle is in one memory only.  `HandlesAreCurrent` alone is not
  inductive: a check and its write are separate steps.
* **ProcessCustodyProofs**: type correctness, `UseIsRecorded`, `ExclusiveUse`,
  `OwnerChangesWhenIdle`, `DeathFreesTheRest`.  Exclusion needs that a custody owns the record of its device, that no two
  share one, and that the record of a child stays pending after its server died.
  `DeathFreesTheRest` needs the converse (`PendingKnown`): while its owner runs, a pending record has a
  custody that knows of it and has not cancelled.
  `CustodiesUseRegistry` says that custodies change the store by its operations only, on leases they
  have; `RegistryHandles` that the abstract store keeps `HandlesAreCurrent` for whoever uses it, for which
  it must be known that a nonce in a memory was drawn and is no handle and ticket at once.  With
  `Refinement` of `DeviceLeaseProofs` the chain is closed: system calls, store, custodies.
* **PolicyGateProofs**: type correctness, `OneGrant`, `BudgetHolds`, `DecisionsAreFinal`,
  `RequestsAreKept`.  Each step of the gate is a step or nothing of the store and of
  the budget; the store's invariant is that the copy a caller works on is the current
  one while it holds the lock and was not overtaken, the budget's that a slot taken is
  recorded or about to be.

* **SerialProofs**, in three parts.
  *Transport*: type correctness, `ConfirmedMeansClosed`, `NoSuccessAfterEnd` and the refinement of
  `SerialPromise`.  The invariant adds that nothing waits after the end and that closing implies the end.
  *Buffer*: `LinesAccounted`, `BudgetKept` and `ToldEverything`, for all sizes, any number of readers
  and lines.  The invariant keeps the offsets ascending from zero, so that what eviction subtracts is
  what was added, and says of a reader in the matcher that its page starts where its cursor is, that
  a page of an open stream which is out of date is one whose change was noted, and that a page that
  says "ended" is up to date.
  *Session manager*: type correctness, `CapacityHeld`, `LeaseOutlivesUse`, `NoOrphanMark`,
  `ForgottenIsFinished`, `LeasesKeptForCause`, `StoppedAdmitsNothing`, and that no device has two users
  (`DeviceHasOneUser`), for any number of sessions, owners, devices and capacity.
  `SessionInv` says of each session what it can have before its leases (`EarlyInv`), what the place
  of `start()` tells of its wire (`WireInv`), that an upload's process and a power operation never
  meet (`LentInv`), that a lease is missing only once the closure is confirmed and nothing is lent
  (`LeaseInv`), that one which could be given back was refused (`KeptInv`), and that a session of an
  owner that is gone is stopping (`StopInv`); and of
  all that no two have a lease of one device and that what runs on a device runs under a mark.  A
  step of one session can disturb these of itself (`SameOwn`, `OthersSame`) and the marks of others.
  `WiresMoveAsPromised` is the other side of the refinement: the manager lets its wires do only
  what `SerialPromise` allows, so that every transport that implements it will do.
  `CapacityHeld` needs no strengthening beyond the types: the proof is that no step but an
  admission adds to what is counted.
* **PortClaimsProofs**: type correctness; `UploadsHold`, which says that no two uploads use the port at
  once and that each has the lease and the claim while it does, whatever crashes, stops or is
  replaced; and the three properties of the run.  These three are false in general
  (section 5), and the theorems say exactly when they hold: as long as no stop *misfires*, that is,
  releases the claim of a monitor that runs or has no pid yet.  No other step, of whichever call or
  process, takes a claim from what it covers.  `OneMonitorNeverMisfires` shows that the rule for
  claims without a pid needs a second monitor to go wrong: a claim that is pending is that of the
  only monitor, and a stop has nothing to prove gone until that one was registered, by when its
  claim has a pid (`UpInv`).  `OneMonitorIsSafe` puts them together, for any number of uploads, stops and
  processes; its hypothesis is that of `port_claims`, and `claims_replaced` shows that it is needed.
  TLC agrees on an instance with two monitors that the invariant holds until a stop misfires.
* **ManifestUploadProofs**: type correctness, `ChildHasLease`, `LeaseHasKeeper`, `UploadedOnce`,
  `NoUploadOnceClosed`.  The invariant ties the sequence to the call (a lease is held exactly
  while the sequence is open or sealed; every step inside the call but the last has it open), says
  in which steps there can be a child, that one call at a time is in progress, and that a record that
  is executed is taken out of the pending ones before its uploader starts.
* **DebugClientsProofs**: type correctness, `LeasesOutliveGroups`, `Reachable`, `CleanCloseIsClean`.
  What a launch may have before GDB is spawned (`EarlyInv`) and which owner goes with which group
  (`OwnerInv`) keep the leases; that no two launches that are active have one id, nor a
  reservation the id of another's (`IdInv`), keeps every session in reach.  This is where the refusal of an
  identical start that is running is needed.
* **BuildQueueProofs**: type correctness, `NoLeakedLock`, `LockedBuildsExclude`.  A foreground call
  past its entry has the lock (`HoldInv`) unless it was given up; a child without its call's lock
  is one whose call ended with the server, its record is there, and no call of the project is past the
  check (`OrphanInv`).

The constants' assumptions are all that is assumed: sets that are disjoint or finite, sizes that are
positive, functions with their domains.  TLC evaluates them in every run.  Each inductive
invariant was first checked by TLC on the instance of its run.

Only model-checked: liveness (`GateIsLeft`, `Answered`, `EveryReaderTold`, `LockComesBack`, `CloseReturns`), because the prover has no rule for fairness and `ENABLED`.  Proved
and in no run: the type invariants, `ReadIsFresh`, `CapacityHeld`, `DeviceHasOneUser`,
`WiresMoveAsPromised`, `UploadsHold` and the two statements about the registry.  No model needs
recursion.  Nothing is proved by induction over data.

## 7. What is not modelled, and why

* File systems are assumed to do what the code asks: a rename or link is atomic and lasts.
  `proper-lockfile` is assumed to exclude, except where a holder sleeps (`ApprovalStore`).
* Hosts: one.  Claims of other hosts are judged by a timer in the code.
* Process ids are reused in `DeviceLease` and `ProcessCustody` only.
* Timers are events that may come at any time after they were set; no property is about a
  duration.
* The bytes on a serial line, the contents of logs and firmware, and the texts of messages.
* The reset of the server is in `BuildQueue` for what it does to the lock and to builds.  It also
  removes every port claim, those of live monitors too, and that is not in `PortClaims`.
* `port release --force` is modelled for the operator who "is certain that the process is
  finished", as its message demands.
* Custodies of several leases (`debug-probe-custody.ts`, `power-device-custody.ts`,
  `debug-endpoint-custody.ts`): synchronous loops over what `ProcessCustody` models for one lease.  The
  rollback of the probe's skips what is left when one release throws (`debug-probe-custody.ts:45`); this is a
  listed hazard that no property covers.
* The protocol between GDB and its client, and the supervisors' own code, which is modelled by its
  promise: "gone" is said only of a group without members.
* A custody that a reserved monitor session lends to an upload is in `SerialSessions`, not in
  `ManifestUpload`.
* `finish()` while a phase is being prepared (`process-custody-sequence.ts:51`) cannot happen: each caller
  of it awaits its own phase first.  `PrepareEnds` has the refusal, no run reaches it.
* Rehydration of monitors after a restart (`monitor.ts:454`) reads the registry and starts watchers of
  logs; it changes no claim and no registration but to drop those of the dead.
* The build cache (`utils/build-cache.ts`) and the workspace list: what they get wrong skips a
  build or a line in a list, and no device is concerned.
* Tasks: a history for display, and a kill by recorded pid.
