# Formal models of the Hypercolor daemon

Hypercolor is a daemon that renders lighting effects and drives RGB devices with
them. These modules specify in TLA+ the parts of it that decide *who may do what
when*: the life of a device from discovery to departure, the tasks that race over
it, the shared discovery scan, the queue that feeds a device its frames, who turns
the lights off and on, how a document gets to the disk, and how a repeated HTTP
request is recognised. TLC checks them on small instances; TLAPS proves the central
invariants for every instance.

Every definition that stands for code is mapped to its lines in `PROJECT.json`
("map"). Paths below are relative to `crates/`.

## The system

    inputs -> effects -> compositor -> sampler -> backend manager -> output queues -> drivers
                                                      ^
    discovery scans -> lifecycle manager -> lifecycle executor (connect, map, retry)
                              ^                       |
    user, layout, pairing ----+                       v
    write failures, reconnect timers          device registry, event bus

| Component | Code | State and operations | What is hard about it | Module |
|---|---|---|---|---|
| Device state machine | `hypercolor-core/src/device/state_machine.rs` | state, reconnect status, flap tracker; 12 transitions | resets of the flap streak, jittered backoff | `DeviceFsm`, `DeviceStateMachine` |
| Lifecycle manager | `hypercolor-core/src/device/lifecycle.rs` | a machine per device, `connect_in_flight`, `reconnect_scheduled`; 17 methods that return actions | late, repeated and misplaced calls | `LifecycleManager`, `DeviceLifecycle` |
| Lifecycle executor | `hypercolor-daemon/src/discovery/{lifecycle,lanes,device_helpers}.rs` | tasks, lanes, reconnect timers, sessions, routes | every await is a place to be overtaken or cancelled | `LifecycleExecutor` |
| Discovery scans | `hypercolor-daemon/src/discovery/{scan,mod}.rs` | `in_progress`, pending requests; scan of a target | hand-over of the flag, lost wake-ups | `ScanQueue`, `LifecycleExecutor` |
| Output queue | `hypercolor-core/src/device/output_queue.rs` | latest frame, failure streak, generation | duplicates dropped on stale counters, late receipts, old failure tickets | `OutputQueue` |
| Backend manager | `hypercolor-core/src/device/manager/` | routing table, lanes | replacement of a backend during a connect | one bit in `LifecycleExecutor` |
| Output power, session policy | `hypercolor-daemon/src/{output_power,session}.rs`, `domain/output.rs` | override, sleep, session brightness, generation; commands, sleeps and wakes | a transition overtaken by a newer one, at every await | `OutputPower`, `OutputControl` |
| Render loop, power side of a frame | `hypercolor-core/src/engine/mod.rs`, `hypercolor-daemon/src/render_thread/` | loop state, park, held clock, sleep latch | two reasons to hold; frames under way when the lights go out | `OutputControl` |
| Persistence | `hypercolor-persistence/src/lib.rs` | pending, active and landed generations, retry queue, the file | a crash, a failure or a newer write between any two steps | `DurableRegister`, `DurableStore` |
| Idempotency keys | `hypercolor-daemon/src/api/idempotency.rs` | entries in flight and completed, a deque of records, four counters | repeats, hang-ups, panics, eviction | `Idempotency` |
| Frame rate, render supervision | `hypercolor-core/src/engine/fps.rs`, `hypercolor-daemon/src/render_thread/supervis*.rs` | tiers; restart of the thread | oscillation; restart races stop | not modelled |
| Servo worker and breaker | `hypercolor-core/src/effect/servo/` | shared worker, breaker | half-open probes, poisoned sessions | not modelled |
| Scenes, transactions, configuration | `hypercolor-core/src/{scene,config}/`, `hypercolor-daemon/src/scene_transactions.rs` | scene stack, pending transactions, documents | commit against a stale scene | not modelled |
| Installer, app supervisor | `hypercolor-install/`, `hypercolor-app/` | journaled installation, child process | crash and rollback | not modelled |
| Event bus, web sockets, other HTTP handlers | `hypercolor-core/src/bus/`, `hypercolor-daemon/src/api/` | channels, subscriptions | back-pressure | the device toggle only |
| Drivers, compositor, sampler, capture, interfaces | `hypercolor-hal/`, `hypercolor-gpu-frame/`, ... | pixels and bytes | arithmetic, I/O | out of scope |

`PROJECT.json` ("components") lists every part with its status, and "hazards"
the places in the code where something can go wrong that a test would hardly
reach, with the property that would catch it.

## Modules

### Device state machine: `DeviceFsm`, `DeviceStateMachine`

`DeviceFsm` gives each transition of `DeviceStateMachine` (the Rust type) as an
operator on a record: `state`, whether there is a `handle`, the `reconnect`
status, and the flap tracker (`age`, `unproven`, `flaps`, `escalation`). A call
that the code refuses with `InvalidTransition` changes nothing, and has a guard.
`Instant`s become the age of the current connection, saturating at
`StableAfter`, because the code only compares it with that. `GrowDelay` keeps the
order of the code: multiply, cap, jitter, floor.

`DeviceStateMachine` puts one machine under every call in any order, next to an
observer that counts unstable reconnects from the calls alone.

### Lifecycle manager: `LifecycleManager`, `DeviceLifecycle`

`LifecycleManager` gives each manager method as an operator on one device's entry
(tracked, machine, connect behaviour, layout, in-flight stamp, scheduled) that
yields the new entry and the actions in the order the code returns them.
`DeviceLifecycle` calls them for any device in any order: a connect may complete
late, twice, or for a device retired meanwhile, as the manager cannot tell who
calls. `outbox` holds what the last call returned, and `stale` the devices whose
in-flight mark has passed `connect_in_flight_stale_after`.

### Executor: `LifecycleExecutor`

The tasks of the daemon that act on one device, each with a program counter and
its action list: scans, background connects, reconnect timers, user requests,
write failures, layout convergence, releases, pairing. A step is what the code
does between two awaits or lock releases; manager calls are atomic since they
hold its mutex. Read-then-use is kept as two steps (`ScanReadsSettings`,
`ScanAppliesSettings` and `ScanDiscovers`; `ReadState` and `WriteRegistry`). The
lane, the map of reconnect handles and the user setting, live in the registry and
saved in the store, are variables. The device mutation guard is not: scans and
requests take its shared half, which only a restore of the whole setup excludes.
`Execution` is the driver's choice between connecting inside the scan and in a fenced
background task; a driver makes one choice, and so does a run.

Tasks end early in two ways. An HTTP handler, or a scan that a session transition or a
request runs, is part of its caller and is dropped where it waits when the caller goes
away (`Cancelled`, for the slots in `Cancellable`); what it holds of the lane goes with
it, what it marked in the manager stays. Background connects, convergences and faults
are tasks of their own and are not cancelled. A reconnect task is aborted through the
stored handle: asleep it ends there, but one whose sleep is over runs on to its next
wait (pc `doomed`), removes whatever handle is stored by then, and may mark a connect
before it ends (`TimerEndsAborted`). The history variable `orphaned` says that the
connect in flight was cancelled in one of these ways, or that its `Connect` was thrown
away.

### Shared scan: `ScanQueue`

`in_progress` and the coalesced pending scan, with every access to either a step
of its own. A request is named after its caller; merging is union. `Workers` are
the tasks `spawn_pending_scan_if_idle` spawns; only the owner of the flag spawns
one, so two are as good as any number. A caller that scans itself may be dropped in
its scan (`ScanDropped`): the guard gives the flag back and starts a worker for what is
queued, and the requests the scan had taken are `lost`.

### Output queue: `OutputQueue`

One device's latest-frame queue and the four parties that share it: the render
loop (`push`, routed reuse, recovery), the worker task (pacing, submission,
replay), the lane (a driver's session, which settles every frame once and reports
to the counters), and the lifecycle task, which picks up a failure ticket and
claims it later. `push` is two steps, because receipts change the counters while
it reads them; the delivery-sequence lock keeps the replay out in between. Colours
are model values, deadlines are armed or not, and statistics that nothing branches
on are left out. `seen` is an observer's history and read by no action.

A lane is described by the outcomes the drivers report. Two facts about today's
drivers matter, since `record_write_error` and `record_write_declined` store the
sequence they are given, also when it is lower than the one stored: no driver
fails or declines an older frame after it failed a newer one in a lane that stays
open. LIFX is the only one that settles after `submit` returned, and it could do so
only if encoding failed for one frame and not for the next. With a lane that did,
`NothingIsLost` would not hold.

### Lights off and on: `OutputPower`, `OutputControl`

`OutputPower` has the methods of `OutputPowerState` as operators on a record: the
override of the user (none, paused, stopped), the sleep of the session and how its
devices behave in it, the session brightness, and the generation that every
transition takes and later compares.

`OutputControl` puts around it everybody who uses it. The session controller has
one transition task (look, fade, pause, release; scan, resume, fade), which the next
event aborts where it stands. The output service runs a command under the transition
mutex: write the static frame, publish it, pause or resume the loop, list and release
devices. The command is part of the request (`PATCH /output`, or a scene clear without an
Idempotency-Key), so a client that hangs up drops it where it waits (`UserDropped`, and
`user_pc` says `cut` until the next command). The worker repeats a static hold when a device connects. The render thread
ticks, parks without a consumer, looks at the power state, renders, looks again under
the lock of the backend manager, writes, publishes, looks a third time, and forces
or clears its output accordingly. Scans reconnect any of the released devices of
their scope. `shown` is what a device was last sent and `lane` the last frame on the
bus: live, static or black; a fade is full, dimmed or off. `Zoned` are the devices with a
zone in the layout. A command's static frame goes to all devices, the one that the render
thread forces only to those with a zone; what a live frame does to the others is the
scene's choice (`Unassigned`).

### Persistence: `DurableRegister`, `DurableStore`

`DurableRegister` is what a caller may rely on: a file that moves from one write to a
newer one, a promise that moves up to the write that is safe, and crashes that may
take the file back, but not behind the promise. After somebody else edits the file
the promise concerns only what is written later.

`DurableStore` is one destination of the coordinator. A caller reserves a generation,
admits its payload and makes the attempt itself, waits for whoever does, or leaves it
behind; a retry worker pops the destination and tries what is pending. An attempt is
its steps: stand down or skip if the remembered bytes are still there, prepare the
temporary file, forget the remembered bytes, rename, sync the directory, report. Each
file operation may fail; a worker that finds the destination busy lets go, as in the
code. A crash drops all tasks and leaves any content that was not yet synced away.
`RegisterSpec` is the register under the mapping of `DurableStore`'s own variables.

### Idempotency keys: `Idempotency`

A keyed request claims its key, waits for the run in flight, replays a completed
answer, or is refused (mismatch, busy). A run goes on when its caller has hung up and
settles also when the handler panicked; settling records the answer, evicts by age and
then by number and size, and wakes the waiters. The eviction loops take one record a
step, with the lock held. Two histories, the clock and the next sequence number at
the claim of a run, let `AppliedOnce` say *when* a key may be used again.

### Proofs

`DeviceFsmProofs`, `DeviceStateMachineProofs`, `DeviceLifecycleProofs`, `DiscoveryProofs`,
`OutputQueueProofs`, `OutputControlProofs`, `DurableStoreProofs` and `IdempotencyProofs`
extend the modules they are about. `DeviceLifecycleProofs` is about two, `DeviceLifecycle`
and `LifecycleExecutor`: what holds of the manager's entry after each call is what the tasks
that make the calls rely on. `DiscoveryProofs` adds `ScanQueue` and what scans make of the
hardware. So that all three can be extended, `DeviceLifecycle` says `LifecycleInit`,
`LifecycleNext` and `LifecycleSpec`, and `ScanQueue` says `QueueInit`, `QueueNext` and
`QueueSpec`. Many leaves name Zenon: the others are tried with the SMT solver first, whose
encoding grows slower over a long module, and a leaf that is plain first-order reasoning
does not need it.

## What TLC checks

| Run | Instance | What it shows |
|---|---|---|
| `state_machine` | the production backoff policy in ms, 2 ticks to stability, threshold 3 | the flap counter is the streak an observer counts; one escalation per streak; delays never shrink within a streak |
| `lifecycle` | one device, two layouts, two attempts, four connects | no device is left Reconnecting without a timer or a connect; leaving the renderable states returns Disconnect; timers follow the flag; a second connect is asked for only when the mark of the first is old |
| `executor_fenced` | up to six runs of two scans, two background connects that succeed, nobody else | once all tasks are done, session and route agree with the lifecycle; a connect that passed its fence stays wanted until reported |
| `executor_requests` | any three of: scans, user requests, convergences, releases, pairings, all but the convergence cancellable; the layout may change its mind | a connect marked in flight has a task making it, unless that task was cancelled or its action thrown away |
| `executor_reconnect` | any three scans, cancellable, and write failures, two timers, every outcome of a connect | a sleeping reconnect task loses its handle only with its life or to another task that wakes; a connect marked in flight has a task making it, unless that task was cancelled |
| `scan_queue` | one caller of each blocking kind, two schedulers, two workers | one owner of the flag; a queued request is watched; it is eventually scanned, unless the scan that took it is dropped |
| `output_queue` | two colours, four deliveries, one recovery, four kinds of lane | the latest colours are shown, on their way, or known to be undelivered; redundant copies are sent; the failure streak is true; a dead end surfaces as a failure; tickets are claimed only while current |
| `output_control` | a USB device with a zone and a network device without, two transitions, commands that may be dropped | the newest request decides the power state; once a command has run to its end, whatever was dropped before, loop and clock agree with it and a hold has the last word on devices and bus, also for devices that connect late; every request ends; output that runs comes to show live frames on every device of the layout, and a sleep leaves none on the bus |
| `durable_store` | one caller that waits, one write-behind owner, one retry worker; two writes, two troubles (failed operation, outside edit, crash) | what was reported durable survives a crash; reports and flushes are true; a pending write has somebody on its way to it and lands; failures stay visible; the destination implements the register |
| `idempotency` | three requests, two keys, two bodies; one tick | no second application while the first is kept; answers belong to the request; counters and sizes are true; nothing is forgotten before age or newer answers push it out; waiters are answered |

Types, the agreement of optional parts and side tables with the states
(`StatusMatchesState`, `MarksMatchState`, `BackoffBounded`), the exclusion of attempts and
the order readers see (`OneAttempt`, `FileMovesForward`), the bounds and records of the
idempotency store (`WithinBounds`, `RecordsAreCurrent`), and who holds the lane of a target
(`LaneIsHeld`) have theorems and no run. The executor's types are stated for the reader.

Two more runs exhibit a disagreement between the code and what it says of itself
(see Findings).

### Bounds

* `MaxStamps`, `MaxIssues`, `MaxSeq`, `MaxGen`, `MaxFlaps` bound counters that only grow. The
  properties relate neighbouring values, so each bound leaves room for an old
  value, a current one and one that overtakes it. The last sequence of an output
  queue still goes through every outcome.
* The backoff of `lifecycle` and of the executor runs is a short ladder; the
  production values are in `state_machine`, and the manager only asks whether a
  reconnect status is left.
* The executor has one device. The manager's maps, the handles and the lanes are
  keyed by device, and nothing in the modelled code reads another device's entry
  (the native-versus-bridge guard does, and is not modelled).
* `Starts` bounds how many scans, requests and so on begin over a behaviour;
  background connects and timers come on top. Three leave room for one task that
  sets the scene, one in the middle of its action list and one that overtakes it.
* `MaxAttempts` is finite here; the default policy has no limit, which is the
  same machine without the last branch of `ReconnectFailed`.
* `MaxTransitions` leaves room for a transition and the request that overtakes it;
  a stop that already waits for the mutex may be a third.
* `MaxWrites` leaves room for a write that is retried and one that overtakes it;
  `MaxTroubles` for an attempt that fails again, or one that fails and then crashes.
  With three writes, or with a second retry worker, the safety properties hold too.
* `MaxRequests`, two keys and the tick leave room for an original, its repeat and an
  answer that pushes out; sizes are chosen so that two answers are over the byte bound
  and two writes over the pending bounds. Two keys never exceed the bound on the number
  of answers; that half of the bounds rests on `StoreIsBounded`.
* Symmetry is used on interchangeable task slots and colours, in runs of safety
  properties only.
* Deadlock checking is off where a run ends: callers are finite and a dropped
  queue stops, and in the three runs just named once their bound is used up. It is on
  in `state_machine` and `lifecycle`.

### Fairness

A task goes on as long as nobody drops or aborts it: the runtime polls a ready task, and
what it awaits is bounded by a timeout. No caller is obliged to call or to hang up, nothing
is obliged to fail, and no crash is.

* `ScanQueue`: weak fairness per task. `RequestsAreServed` excludes the case in which
  an owner panicked, which `scan_queue_expect` shows to be possible, and the requests
  that were lost with the scan that had taken them.
* `OutputControl`: weak fairness of the transition task, of the command, of the hold
  worker, of the render thread (a thread of its own), and of each scheduled scan. A
  transition that is cut short by an event has ended in the sense of
  `RequestsFinish`, and so has a command whose client hung up. `LightsFollow` promises
  nothing after a command that was dropped.
* `DurableStore`: weak fairness per task. A retry is delayed by its backoff, never given
  up, and troubles are finite: `AdmittedLands` is about a disk that recovers.
* `Idempotency`: weak fairness of all requests and runs together. Steps are finite in
  number, so that this is as good as fairness of each.

## Findings

* **`executor_disable`** (`hypercolor-daemon/src/discovery/lifecycle.rs`, 530): a
  connect that is not fenced and is dialing while the device is disabled installs
  session and route afterwards. `on_connected` is refused, the error is logged, and
  the disabled device stays open and routed.
* **`scan_queue_expect`** (`hypercolor-daemon/src/discovery/scan.rs`, 91): another
  owner can take and finish a request between its enqueue and the
  `compare_exchange` its caller wins. The `expect` then panics while the flag is set.

Four more are kept as configurations of `MCLifecycleExecutor`, each with a property
that TLC finds violated:

* `ExecutorEnable.cfg` (`hypercolor-daemon/src/discovery/lifecycle.rs`, 84): enabling a
  device that should not be activated marks a connect in flight and drops the
  `Connect`. The mark blocks connects until it is a minute old.
* `ExecutorStranded.cfg` (same file, 1131): `CancelReconnect` names a device and not a
  timer, so one that is executed late aborts a newer timer.
* `ExecutorHandles.cfg` (same file, 953): "Remove our own handle before executing follow-up
  logic so reschedules do not fight with this running task" is a removal by device id. A
  task that was aborted just after its sleep removes the handle of the one that replaced
  it, which then can no longer be cancelled.
* `ExecutorSettings.cfg` (`hypercolor-daemon/src/discovery/device_helpers.rs`, 23):
  `begin_device_mutation` is meant to keep live and persisted settings in one mutation
  but hands out shared guards. A scan that read the store before a request changed the
  setting writes the old value back to the registry, and the two differ.

Cancellation leaves things behind, as the models show; the code has no clean-up for it.
A connect whose request, session transition or reconnect task is dropped while it is
dialing leaves its mark (`orphaned`). `retry_stale_known_connect` replaces the mark of a
Known device a minute later; a Reconnecting device keeps it and is retried by nobody. A
scan that is dropped between `on_device_vanished` and its actions leaves session and route
of the retired device (`executor_fenced` with `Cancellable = {s1, s2}` violates
`QuietSessionMatches` and `QuietRoutingMatches`). Requests that a dropped scan had taken
from the queue are not scanned, although `schedule_discovery_scan` (`scan.rs`, 103) is to
"ensure a worker owns it". A pause whose client hangs up before the loop is paused, or a
resume before it is resumed, leaves the loop as it was, and a pause dropped before its
frame is written leaves live colours on the devices that have no zone, until the next
command.

Observations without a run of their own. A scan takes a device for connected because the
registry says so, and then syncs its routes (`scan.rs`, 997), also without a session: after
a late registry write of a connect that was retired meanwhile, and for a device the layout
no longer targets, the route stays. Only a successful connect asks its fence
(`lifecycle.rs`, 452): the failure of a superseded one moves a retired device to
Reconnecting. A request toggles the lifecycle before it stores the setting, so a
scan that retires the device in between, followed by a convergence, a pairing or a
scan that still reads the old setting, connects a device whose stored setting then
says disabled. Jitter is applied after the cap, so a
delay may exceed `max_delay` by the jitter (`BackoffBounded` states the real
bound). A recovered output queue owes no redundant copies, whatever was owed before
the worker died (`CopiesAreSent` speaks of one worker's life).

On output: the release of devices that ends a sleep is not fenced by the generation
(`session.rs`, 436), so a request to run that comes in between has devices reconnected
first and released afterwards. A stop on top of a sleep that released devices brings
back only network devices (`domain/output.rs`, 418). An event whose action is to ignore
it still aborts the transition under way (`session.rs`, 194), so a fade stays where it
was. A background scan that finds a device during such a sleep connects it. A stop
that was saved is restored at startup without pausing the render loop, whose frames
the power state then suppresses (`LoopFollowsPower` speaks of a pause).

## What is proved

All theorems hold for every value of the constants that satisfies the named
assumptions: a sane backoff policy (`PolicyAssumption`), bounds that are naturals,
`None` distinct from the values it stands beside, disjoint sets of callers, of tasks
and of kinds of devices.

* `DeviceStateMachineProofs`: `TypeCorrect`, `StatusAlwaysMatches`,
  `FlapsAlwaysCountTheStreak`, `EscalationIsOneShot`. None of these is inductive
  alone: that an unstable reconnect is recognised needs the observer's
  `viaReconnect` to agree with `unproven`, and that a report is raised once needs
  the streak below the threshold to be unreported. `DeviceFsmProofs` has what each
  transition keeps, and that every delay is a natural number. `BackoffStaysBounded` puts
  every delay between the floor and the jittered maximum. `BackoffOnlyGrows` says that a
  streak never retries sooner than before, for a policy whose factor outweighs its
  largest jitter: `BackoffFactor * (100 - JitterPercent) >= 100`. The default policy has
  that (2 and 10%); a factor of 1 with any jitter would shrink a delay at the first odd
  step. At the cap only the jitter can shorten a delay, which the property allows.
* `DeviceLifecycleProofs`, the manager: `TypeCorrect`, `MarksAlwaysMatch`,
  `ReconnectingAlwaysDriven`, and the action properties `AlwaysDisconnects`,
  `TimersAlwaysFollow` and `ConnectsAreAlwaysSingle`. Each manager method has a lemma: from a coherent entry it
  yields a coherent entry, and actions that match the change. A step of the
  specification is one such call on one device, so the induction over steps is one
  case per method and any number of devices costs nothing.
* `DeviceLifecycleProofs`, the tasks of a device: `LaneIsAlwaysHeld` and
  `HandlesAlwaysGoWithTheirTask`, for any number of tasks of every kind. `LaneIsHeld` says of
  each scan and each fenced connect that it holds the lane exactly while it is in the
  section the lane protects, so that the sections exclude each other and every way out of
  one (the registry write, the tear-down, a refused report) gives the lane back. The
  invariant adds what a program counter tells of the rest of a task (`Local`: only a
  background connect is fenced, and only a success with a fence comes to the check or the
  tear-down) and that a stored handle is of a task that is asleep or has just slept
  (`Handles`), so that an abort never hits a task at its connect. Each action has a lemma; most of them only move
  one task on, inside a section or outside (`Inside`, `Outside`).
* `DeviceLifecycleProofs`, the connects of the tasks: `ExecutorKeepsMarks` carries the
  coherence of the manager's entry over to every interleaving of the tasks that call it.
  `InFlightAlwaysHasOwner` says that a connect marked in flight is some task's to report,
  unless it is `orphaned`. It has no hypotheses on the tasks: the history variable names
  exactly the cancelled tasks, the enable of a device outside the layout, whose action
  `apply_user_enabled_state` drops, and the reconnect task that was aborted. The property is not inductive. A task with a connect in hand need not be the one whose
  report clears the mark: a pairing reports a connect it never marked, and a fenced connect
  may be of an earlier intent. `WorkInv` therefore asks for an `Owner`, which is neither, and
  says where a task may be while its list has a Connect (`Loaded`), so that no early return
  drops one.
* `DiscoveryProofs`, the shared scan: `QueueTypeCorrect`, `ScanIsExclusive`, `NoLostWakeup`. The
  inductive invariant adds `Places` (which tasks can be at which program counter)
  to the three: that only the owner spawns, and that a spawned task was idle, is
  what keeps the flag single through a hand-over.
* `DiscoveryProofs`, scans and the connects they start: `FencedConnectAlwaysWanted`,
  `QuietSessionAlwaysMatches` and `QuietRoutingAlwaysMatches`, for any number of scans and
  background connects, inline or fenced, and any bounds. They assume what the property
  depends on: no task that acts without the lane (`Timers \cup Others = {}`), none that is
  cancelled (`Cancellable = {}`), and a driver whose connects succeed. These are conditions on
  the environment, not facts about the code. A connect that fails is reported without the check of the fence,
  and so can clear the mark of the connect that superseded it; with
  `Outcomes = {"ok", "abandon"}` TLC finds all three properties violated, and the quiet ones
  with cancelled scans. The routing theorem also assumes that the layout keeps targeting the
  device: with `Targeting = {TRUE, FALSE}` three scans are enough for one that believes a
  stale registry value and restores the routes of a retired device. The invariant
  (`CalmInv`) has three parts. `Stance` says what a task may have in hand at each step: four
  shapes of action lists, and no background task that closes or unroutes. `Grip` says what
  it relies on: an inline connect on the mark being there, a published one on the mark being
  its own, a task that closes on the device being neither renderable nor connecting; here the
  lane does its work, since whoever could break a grip would have to hold it. The last two
  conjuncts say that a session or a route that the device should not have is some task's to
  close; when all have finished there is no such task.
* `DurableStoreProofs`: `CrashSafety`, `ReportsAreTrue`, `FlushesCover`, `FailuresAreVisible`,
  `AttemptsAreExclusive`, `PendingHasDriver`, `ReadersMoveForward` and
  `ImplementsRegister`. The inductive invariant says how the generations are ordered
  (`Numbers`), who owns `active` and `foreground` (`Owners`), what a task at each step
  carries (`Calls`), that an attempt past its check is newer than what landed (`Fresh`),
  what can be on the disk at each step of an attempt (`Disk`), and what a report or a flush
  may rest on (`Reports`). Crash safety rests on
  the order of the steps: nothing is promised before the directory sync, and the
  remembered bytes are forgotten before the rename, so that a skip never relies on a
  file that a crash may take back. The refinement follows from `Disk` and `Fresh`, one
  case per file operation.
* `OutputControlProofs`: `NewestWins`, `LoopAgrees`, `ClockIsHeld`, `HoldComesLast`,
  `PauseCovers`, with commands that may be dropped at any of their waits. The invariant adds that the task's generation is current or fenced off
  (`Fenced`), how far the newest transition got (`Reached`), what the mutex keeps apart
  (`Commands`), and where a live frame may still be while a hold is written
  (`HoldWritten`, `HoldRepeated`).
* `IdempotencyProofs`: `NoSecondApplication`, `AnswersAreTrue`, `StoreIsBounded`,
  `RecordsStayCurrent`, `LedgerAlwaysBalances`, `NothingForgottenEarly`. The invariant says that entries and runs name each other
  (`Marked`), that records are in the order of sequence and time (`Ordered`), that an
  answer is gone only if it aged or a newer one was recorded (`Gone`), and that the
  counts are cardinalities (`Counted`). The two byte counters are sums over the requests
  stored or running. What a sum does when a term is added, removed or changed is proved in
  the module from the library's definition, by looking at a smallest set for which it would
  fail; the ledger (`Ledger`) then follows step by step, and with it that the saturating
  subtractions of the code never saturate. `KeptUntilPushedOut` needs the ledger at the one
  step where the eviction loop pops a record: the entries that stay outweigh the bound.
* `OutputQueueProofs`: `StreakIsAlwaysTrue`, `ClaimsAreAlwaysCurrent`, `NothingIsEverLost`,
  `CopiesAreAlwaysSent`, `FailuresAlwaysSurface`. The base is the order of the frames: what
  is on the wire is older than the mail, that older than what the worker holds, and that no
  newer than the slot; and no counter has recorded anything for a frame that is still on its
  way (`InOrder`, `Unsettled`). `Delivery` then says where the latest frame is (`Tracked`:
  with the worker, in the mail, on the wire, shown, deferred with the worker's timer armed,
  or ended in a way the next push notices), that the slot holds what was pushed last
  (`Pushed`), that a failure which came late is noticed (`Surfacing`), and that copies sent
  and copies owed make up the promise (`Counted`). `NothingIsLost` is far from inductive:
  each action moves the frame from one of these places to another.

Only model-checked: liveness, which is beyond this prover (`RequestsAreServed`,
`RequestsFinish`, `LightsFollow`, `AdmittedLands`, `WaitersAreAnswered`). Every other
property of a passing run has a theorem. Those of `LifecycleExecutor` that do not hold for
every population of tasks have it under the hypotheses named above, which the configurations
of their runs satisfy; the configurations under Findings show what other tasks do. A disable
that overtakes a fenced connect, for one, makes it unwanted after its check.

## What is not modelled

* Executor: failing disconnects, replacement of the backend during a connect, the
  native-versus-bridge guard, shutdown of lanes, migration of a device between
  targets, the age of a connection. `on_frame_success` is in the manager's model;
  the daemon never calls it.
* Output queue: statistics, the failure tracker of display lanes, direct control
  of a device (only that it takes a queued frame's place), the wrap of the 64-bit
  sequence (at 1000 frames a second it takes half a billion years).
* Output: colours and the global brightness; the rebase of the clock after a pause;
  saving the override and publishing a portable setup; a static frame for which no
  canvas can be allocated; a render thread that panics and is restarted; the frame
  throttle; scene actions, which only log; a daemon with session handling switched off.
* Persistence: the history of earlier contents, the registry from path to destination
  (two paths are two destinations), file modes, the texts of flush reports,
  `holds_durable_bytes`, and the observer of replacements.
* Idempotency: the syntax of keys, which routes take one, and requests without.
* The adaptive frame rate controller averages measured times in floating point, and
  what it promises is a matter of tuning.
* The servo worker is a client of an embedded browser engine behind a build feature;
  most of its behaviour would have to be invented. The installer, the updater and the
  app supervisor are programs of their own. The scene manager is sequential code behind
  one lock; transactions, render supervision and web socket relays are left for models
  of their own.
* Drivers, rendering, capture and the user interfaces compute pixels and bytes or
  do I/O and are out of scope.
