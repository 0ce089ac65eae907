-------------------------- MODULE LifecycleExecutor --------------------------
(***************************************************************************)
(* The daemon tasks that run one device's lifecycle concurrently           *)
(* (crates/hypercolor-daemon/src/discovery: scan.rs, lifecycle.rs,         *)
(* lanes.rs, device_helpers.rs).  The lifecycle manager is behind a tokio  *)
(* mutex and every call on it is one step; between two awaits a task may   *)
(* be overtaken by any other task, or cancelled: with the HTTP request or  *)
(* the session transition it runs in, or, a reconnect task, by abort().    *)
(*                                                                         *)
(* Tasks, by the slots the constants name:                                 *)
(*   Scans        scan_target, holding the target's lane                   *)
(*   Backgrounds  a scan's connect that outlives it, fenced to its intent  *)
(*   Timers       spawn_reconnect_task                                     *)
(*   Users        update_device -> apply_user_enabled_state                *)
(*   Faults       async write failures                                     *)
(*   Convergers   layout connectivity convergence                          *)
(*   Droppers     disconnect_tracked_device, release_renderable_devices    *)
(*   Pairers      activate_pairable_device                                 *)
(*                                                                         *)
(* Everything is keyed by device id, so one device is modelled.  `session` *)
(* is a driver session a connect opened and no disconnect was asked for    *)
(* since; `mapped` its routing entry in the backend manager; `registry`    *)
(* the state the device registry shows.                                    *)
(***************************************************************************)
EXTENDS LifecycleManager, FiniteSets

CONSTANTS
  Scans, Backgrounds, Timers, Users, Faults, Convergers, Droppers, Pairers,
  Cancellable,   \* the slots whose caller may go away
  Targeting,     \* what the active layout may answer: targets the device or not
  Execution,     \* the driver's connect execution: "inline", "background"
  Outcomes,      \* how a driver connect may end: "ok", "retry", "abandon"
  MaxIssues,     \* bound on connects issued
  Starts         \* bound on scans, requests and other work taken up

Others == Users \cup Faults \cup Convergers \cup Droppers \cup Pairers
Tasks == Scans \cup Backgrounds \cup Timers \cup Others

ASSUME ExecutorAssumption ==
  /\ Targeting \subseteq BOOLEAN /\ Execution \subseteq {"inline", "background"}
  /\ Outcomes \subseteq {"ok", "retry", "abandon"}
  /\ MaxIssues \in Nat /\ Starts \in Nat
  /\ Cancellable \subseteq Scans \cup Users \cup Droppers \cup Pairers
  /\ None \notin Tasks
  /\ Scans \cap (Backgrounds \cup Timers \cup Others) = {}
  /\ Backgrounds \cap (Timers \cup Others) = {} /\ Timers \cap Others = {}

VARIABLES
  entry,       \* the manager's entry for the device
  issued,      \* connects issued so far
  orphaned,    \* history: the connect in flight was cancelled, or thrown away
  session,     \* an open driver session nobody asked to close
  mapped,      \* the device is routed in the backend manager
  registry,    \* the state the registry shows
  live,        \* the user setting in the registry: enabled or not
  saved,       \* the persisted one, or None before the first save
  lane,        \* holder of the target's lane, or None
  timer,       \* reconnect_tasks: the task whose handle is stored, or None
  task,        \* [Tasks -> local state]
  starts       \* how often a slot took up work so far

manager == <<entry, issued, orphaned>>
hardware == <<session, mapped>>
settings == <<live, saved>>
vars == <<manager, hardware, registry, settings, lane, timer, task, starts>>

IdleTask ==
  [pc |-> "idle", acts |-> <<>>, fence |-> None, on |-> FALSE, auto |-> FALSE,
   outcome |-> "ok", seen |-> "Known", back |-> "end", pairing |-> FALSE]

Sleeping == [IdleTask EXCEPT !.pc = "sleep"]

TheLayout == CHOOSE l \in Layouts : TRUE

Init ==
  /\ entry = Untracked
  /\ issued = 0 /\ orphaned = FALSE
  /\ session = FALSE /\ mapped = FALSE
  /\ registry = "Known"
  /\ live = TRUE /\ saved = None
  /\ lane = None /\ timer = None
  /\ task = [t \in Tasks |-> IdleTask]
  /\ starts = 0

-----------------------------------------------------------------------------
(* Steps of a task. *)

At(t, pc) == task[t].pc = pc

Goto(t, pc) == task' = [task EXCEPT ![t].pc = pc]

\* An idle slot takes up work.
Begin(t, local) ==
  /\ At(t, "idle") /\ starts < Starts
  /\ task' = [task EXCEPT ![t] = local]
  /\ starts' = starts + 1

\* One manager call; a connect it issues carries the stamp issued + 1.  A mark
\* without its Connect among the actions the caller keeps has nobody to make it.
Stamp == issued + 1
Call(result) ==
  /\ entry' = result.entry
  /\ orphaned' = IF result.entry.issue = entry.issue THEN orphaned
                 ELSE InFlight(result.entry) /\ ~Emits(result.acts, "Connect")
  /\ issued' = IF result.entry.issue = Stamp THEN Stamp ELSE issued
  /\ issued' <= MaxIssues

\* A call whose actions the task executes next.
CallThen(t, result, pc) ==
  /\ Call(result)
  /\ task' = [task EXCEPT ![t].pc = pc, ![t].acts = result.acts]

\* A call that starts a task of its own to execute the actions.
BeginCall(t, result) ==
  /\ Begin(t, [IdleTask EXCEPT !.pc = "exec", !.acts = result.acts])
  /\ Call(result)

\* The task still has a connect to make or to report.
Connecting(t) ==
  \/ Emits(task[t].acts, "Connect")
  \/ task[t].pc \in {"dial", "fence", "teardown", "install", "report"}
  \/ t \in Timers /\ task[t].pc = "remap"

\* What desired_connect_behavior may answer for a user setting.
Behaviors(userEnabled) == {userEnabled /\ targeted : targeted \in Targeting}

-----------------------------------------------------------------------------
(* Executing lifecycle actions: execute_fenced_lifecycle_actions. *)

NextAct(t, op) == At(t, "exec") /\ task[t].acts # <<>> /\ Head(task[t].acts).op = op

Pop(t, pc) == task' = [task EXCEPT ![t].pc = pc, ![t].acts = Tail(@)]

ExecConnect(t) ==
  /\ NextAct(t, "Connect")
  /\ Pop(t, "dial")
  /\ UNCHANGED <<manager, hardware, registry, settings, lane, timer, starts>>

\* disconnect_backend_device drops the routes, then closes the session.
ExecDisconnect(t) ==
  /\ NextAct(t, "Disconnect")
  /\ Pop(t, "close")
  /\ mapped' = FALSE
  /\ UNCHANGED <<manager, session, registry, settings, lane, timer, starts>>

CloseSession(t) ==
  /\ At(t, "close")
  /\ session' = FALSE
  /\ Goto(t, "exec")
  /\ UNCHANGED <<manager, mapped, registry, settings, lane, timer, starts>>

ExecUnmap(t) ==
  /\ NextAct(t, "Unmap")
  /\ Pop(t, "exec")
  /\ mapped' = FALSE
  /\ UNCHANGED <<manager, session, registry, settings, lane, timer, starts>>

\* The task without the action it executed.
Popped(t) == [task[t] EXCEPT !.acts = Tail(@)]

\* The tasks once the stored handle has been aborted: a task asleep ends there,
\* one that is past its sleep only where it waits next.
TimerAborted ==
  [u \in Tasks |-> IF u # timer THEN task[u]
                   ELSE IF At(u, "sleep") THEN IdleTask
                   ELSE [task[u] EXCEPT !.pc = "doomed"]]

\* Variant: the task whose handle is replaced goes on sleeping.
ExecSpawnReconnectKeepsOld(t) ==
  /\ NextAct(t, "SpawnReconnect")
  /\ \E s \in Timers :
       /\ At(s, "idle")
       /\ timer' = s
       /\ task' = [task EXCEPT ![t] = Popped(t), ![s] = Sleeping]
  /\ UNCHANGED <<manager, hardware, registry, settings, lane, starts>>

\* Storing the new task's handle aborts the one it replaces.
ExecSpawnReconnect(t) ==
  /\ NextAct(t, "SpawnReconnect")
  /\ \E s \in Timers :
       /\ At(s, "idle")
       /\ timer' = s
       /\ task' = [TimerAborted EXCEPT ![t] = Popped(t), ![s] = Sleeping]
  /\ UNCHANGED <<manager, hardware, registry, settings, lane, starts>>

\* cancel_reconnect_task: only a stored handle can be aborted.
ExecCancelReconnect(t) ==
  /\ NextAct(t, "CancelReconnect")
  /\ task' = [TimerAborted EXCEPT ![t] = Popped(t)]
  /\ timer' = None
  /\ UNCHANGED <<manager, hardware, registry, settings, lane, starts>>

\* The actions are done; the caller syncs the registry (a pairing remaps first).
ExecDone(t) ==
  /\ At(t, "exec") /\ task[t].acts = <<>>
  /\ task' = [task EXCEPT ![t].pc = IF task[t].pairing THEN "remap" ELSE "read",
                          ![t].back = "end"]
  /\ UNCHANGED <<manager, hardware, registry, settings, lane, timer, starts>>

-----------------------------------------------------------------------------
(* Connecting: connect_backend_device_inner and its callers' follow-up. *)

\* The driver answers.  A pairing that fails to connect just returns.
Dial(t) ==
  /\ At(t, "dial")
  /\ \E outcome \in Outcomes :
       /\ session' = (session \/ outcome = "ok")
       /\ task' = [task EXCEPT ![t].outcome = outcome,
            ![t].pc = IF outcome # "ok" THEN (IF task[t].pairing THEN "end" ELSE "report")
                      ELSE IF task[t].fence # None THEN "fence"
                      ELSE "install"]
  /\ UNCHANGED <<manager, mapped, registry, settings, lane, timer, starts>>

\* Variant: whatever happened meanwhile, the connect is published.
FenceCheckPublishes(t) ==
  /\ At(t, "fence")
  /\ lane = None
  /\ lane' = t
  /\ Goto(t, "install")
  /\ UNCHANGED <<manager, hardware, registry, settings, timer, starts>>

\* Variant: a retired device's fresh session is left open.
FenceCheckYields(t) ==
  /\ At(t, "fence")
  /\ lane = None
  /\ LET publish == entry.issue = task[t].fence
     IN  /\ lane' = IF publish THEN t ELSE None
         /\ Goto(t, IF publish THEN "install" ELSE "exec")
  /\ UNCHANGED <<manager, hardware, registry, settings, timer, starts>>

\* Variant: the lane is let go as soon as the check is made.
FenceCheckDropsLane(t) ==
  /\ At(t, "fence")
  /\ lane = None
  /\ LET publish == entry.issue = task[t].fence
         yield == ~publish /\ (InFlight(entry) \/ Renderable(State(entry)))
     IN  Goto(t, CASE publish -> "install" [] yield -> "exec" [] OTHER -> "teardown")
  /\ UNCHANGED <<manager, hardware, registry, settings, lane, timer, starts>>

\* ConnectFence::check takes the lane, then asks the lifecycle.
FenceCheck(t) ==
  /\ At(t, "fence")
  /\ lane = None
  /\ LET publish == entry.issue = task[t].fence
         yield == ~publish /\ (InFlight(entry) \/ Renderable(State(entry)))
     IN  /\ lane' = IF yield THEN None ELSE t
         /\ Goto(t, CASE publish -> "install" [] yield -> "exec" [] OTHER -> "teardown")
  /\ UNCHANGED <<manager, hardware, registry, settings, timer, starts>>

\* close_superseded_connect, still holding the lane.
TearDown(t) ==
  /\ At(t, "teardown")
  /\ session' = FALSE
  /\ lane' = None
  /\ Goto(t, "exec")
  /\ UNCHANGED <<manager, mapped, registry, settings, timer, starts>>

\* Sink and route go in; a reconnect task re-syncs its mappings right after.
Install(t) ==
  /\ At(t, "install")
  /\ mapped' = TRUE
  /\ Goto(t, IF t \in Timers THEN "remap" ELSE "report")
  /\ UNCHANGED <<manager, session, registry, settings, lane, timer, starts>>

\* sync_logical_mappings_for_device: clear, then map the logical devices.
Remap(t) ==
  /\ At(t, "remap")
  /\ mapped' = TRUE
  /\ Goto(t, IF t \in Timers THEN "report" ELSE "read")
  /\ UNCHANGED <<manager, session, registry, settings, lane, timer, starts>>

\* What the task tells the manager about the outcome.
Reported(t) ==
  CASE task[t].outcome = "ok" -> OnConnected(entry)
    [] task[t].outcome = "abandon" -> OnConnectAbandoned(entry)
    [] OTHER -> IF t \in Timers THEN OnReconnectFailed(entry) ELSE OnConnectFailed(entry)

\* Whether the manager accepted it; an Err is only logged.
ReportAccepted(t) ==
  IF task[t].outcome = "ok" \/ (task[t].outcome # "abandon" /\ t \notin Timers)
  THEN ConnectAccepted(entry)
  ELSE entry.tracked

\* The executor appends the follow-up actions, then remaps and syncs; a reconnect
\* task executes its follow-up first; a pairing carries on after a refusal.
Report(t) ==
  /\ At(t, "report")
  /\ Call(Reported(t))
  /\ LET refused == ~ReportAccepted(t)
         ok == task[t].outcome = "ok"
     IN  /\ task' = [task EXCEPT
              ![t].acts = @ \o Reported(t).acts,
              ![t].back = "exec",
              ![t].pc = IF t \in Timers /\ refused THEN "end"
                        ELSE IF t \in Timers \/ task[t].pairing \/ refused THEN "exec"
                        ELSE IF ok THEN "remap"
                        ELSE "read"]
         /\ lane' = IF refused /\ t \in Backgrounds /\ lane = t THEN None ELSE lane
  /\ UNCHANGED <<hardware, registry, settings, timer, starts>>

\* sync_registry_state reads under one lock and writes under another; a fenced
\* connect gives up the lane once its arm is done.
ReadState(t) ==
  /\ At(t, "read")
  /\ task' = [task EXCEPT ![t].pc = "write", ![t].seen = State(entry)]
  /\ UNCHANGED <<manager, hardware, registry, settings, lane, timer, starts>>

WriteRegistry(t) ==
  /\ At(t, "write")
  /\ registry' = task[t].seen
  /\ Goto(t, task[t].back)
  /\ lane' = IF t \in Backgrounds /\ lane = t THEN None ELSE lane
  /\ UNCHANGED <<manager, hardware, settings, timer, starts>>

-----------------------------------------------------------------------------
(* Scans: scan_target, process_discovered_device, retire_target_departures. *)

ScanBegins(t) ==
  /\ lane = None
  /\ lane' = t
  /\ Begin(t, [IdleTask EXCEPT !.pc = "observe"])
  /\ UNCHANGED <<manager, hardware, registry, settings, timer>>

\* apply_persisted_device_settings: the stored setting, or the live one when
\* nothing is stored, is read and then made the live one.  The guard held
\* meanwhile is the shared half of a lock and keeps no update_device out.
ScanReadsSettings(t) ==
  /\ At(t, "observe")
  /\ task' = [task EXCEPT ![t].pc = "adapt", ![t].on = IF saved = None THEN live ELSE saved]
  /\ UNCHANGED <<manager, hardware, registry, settings, lane, timer, starts>>

\* Registry state and connect behaviour are read here and used later.
ScanAppliesSettings(t) ==
  /\ At(t, "adapt")
  /\ live' = task[t].on
  /\ \E auto \in Behaviors(task[t].on) :
       task' = [task EXCEPT ![t].pc = "discover", ![t].auto = auto, ![t].seen = registry]
  /\ UNCHANGED <<manager, hardware, registry, saved, lane, timer, starts>>

ScanDiscovers(t) ==
  /\ At(t, "discover")
  /\ LET result == OnDiscovered(entry, task[t].auto, TheLayout, Stamp)
         quiet == result.acts = <<>>
     IN  CallThen(t, result,
           IF ~task[t].on THEN "redisable"
           ELSE IF quiet /\ Renderable(task[t].seen) THEN "refresh"
           ELSE IF quiet /\ entry.tracked /\ task[t].auto THEN "stale"
           ELSE "dispatch")
  /\ UNCHANGED <<hardware, registry, settings, lane, timer, starts>>

\* A persisted disable is reapplied; its actions replace the discovery's.
ScanRedisables(t) ==
  /\ At(t, "redisable")
  /\ CallThen(t, OnUserDisable(entry), "dispatch")
  /\ UNCHANGED <<hardware, registry, settings, lane, timer, starts>>

\* A connect guard older than a minute on a Known device is retried.
ScanRetriesStale(t) ==
  /\ At(t, "stale")
  /\ \E expired \in BOOLEAN :
       IF expired /\ CanRetryStale(entry)
       THEN CallThen(t, RetryStaleKnownConnect(entry, Stamp), "dispatch")
       ELSE Goto(t, "dispatch") /\ UNCHANGED manager
  /\ UNCHANGED <<hardware, registry, settings, lane, timer, starts>>

\* refresh_connected_device_info succeeds for a backend that has nothing to tell
\* too, connected or not; then the mappings are synced.
ScanRefreshes(t) ==
  /\ At(t, "refresh")
  /\ \E ok \in BOOLEAN : Goto(t, IF ok THEN "resync" ELSE "dispatch")
  /\ UNCHANGED <<manager, hardware, registry, settings, lane, timer, starts>>

ScanResyncs(t) ==
  /\ At(t, "resync")
  /\ mapped' = TRUE
  /\ Goto(t, "dispatch")
  /\ UNCHANGED <<manager, session, registry, settings, lane, timer, starts>>

ScanExecutesInline(t) ==
  /\ At(t, "dispatch")
  /\ "inline" \in Execution \/ ~Emits(task[t].acts, "Connect")
  /\ Goto(t, "exec")
  /\ UNCHANGED <<manager, hardware, registry, settings, lane, timer, starts>>

\* spawn_lifecycle_actions_in_background: the fence is the connect in flight now.
ScanSpawnsBackground(t) ==
  /\ At(t, "dispatch")
  /\ "background" \in Execution /\ Emits(task[t].acts, "Connect")
  /\ \E b \in Backgrounds :
       /\ At(b, "idle")
       /\ task' = [task EXCEPT
            ![t].pc = "end", ![t].acts = <<>>,
            ![b] = [IdleTask EXCEPT !.pc = "exec", !.acts = task[t].acts,
                                    !.fence = entry.issue]]
  /\ UNCHANGED <<manager, hardware, registry, settings, lane, timer, starts>>

\* A covering scan that did not report the device retires it.
ScanRetires(t) ==
  /\ At(t, "observe")
  /\ entry.tracked
  /\ CallThen(t, OnDeviceVanished(entry), "exec")
  /\ UNCHANGED <<hardware, registry, settings, lane, timer, starts>>

-----------------------------------------------------------------------------
(* The other actors. *)

\* The sleep of a reconnect task is over.
TimerElapses(t) ==
  /\ At(t, "sleep")
  /\ Goto(t, "woken")
  /\ UNCHANGED <<manager, hardware, registry, settings, lane, timer, starts>>

\* It removes the handle that is stored for the device, and asks to attempt.
TimerWakes(t) ==
  /\ task[t].pc \in {"woken", "doomed"}
  /\ timer' = None
  /\ Goto(t, IF At(t, "woken") THEN "attempt" ELSE "last")
  /\ UNCHANGED <<manager, hardware, registry, settings, lane, starts>>

TimerAttempts(t) ==
  /\ At(t, "attempt")
  /\ IF CanAttempt(entry)
     THEN Call(OnReconnectAttempt(entry, Stamp)) /\ Goto(t, "dial")
     ELSE UNCHANGED manager /\ Goto(t, "end")
  /\ UNCHANGED <<hardware, registry, settings, lane, timer, starts>>

\* A task that was aborted in between ends when it has to wait for the lifecycle,
\* or has marked the connect and ends when it waits for the driver.
TimerEndsAborted(t) ==
  /\ At(t, "last")
  /\ \/ UNCHANGED manager
     \/ CanAttempt(entry) /\ Call(Result(OnReconnectAttempt(entry, Stamp).entry, <<>>))
  /\ task' = [task EXCEPT ![t] = IdleTask]
  /\ UNCHANGED <<hardware, registry, settings, lane, timer, starts>>

\* update_device; whether an enabled device should be activated is decided before
\* the lifecycle is locked.
UserBegins(t) ==
  /\ \E on \in BOOLEAN : \E auto \in Behaviors(on) :
       Begin(t, [IdleTask EXCEPT !.pc = "toggle", !.on = on, !.auto = auto])
  /\ UNCHANGED <<manager, hardware, registry, settings, lane, timer>>

\* A device without a lifecycle entry goes straight to its settings.
UserToggles(t) ==
  /\ At(t, "toggle")
  /\ LET result == IF task[t].on THEN OnUserEnable(entry, Stamp) ELSE OnUserDisable(entry)
         dropped == task[t].on /\ ~task[t].auto
     IN  CallThen(t, IF dropped THEN Result(result.entry, <<>>) ELSE result,
                  IF entry.tracked THEN "exec" ELSE "unmanaged")
  /\ UNCHANGED <<hardware, registry, settings, lane, timer, starts>>

\* update_user_settings, then the fallback state of a device without an entry.
UserUpdates(t) ==
  /\ task[t].pc \in {"update", "unmanaged"}
  /\ live' = task[t].on
  /\ registry' = IF At(t, "update") THEN registry
                 ELSE IF task[t].on THEN "Known" ELSE "Disabled"
  /\ Goto(t, "save")
  /\ UNCHANGED <<manager, hardware, saved, lane, timer, starts>>

\* persist_device_settings_for.
UserSaves(t) ==
  /\ At(t, "save")
  /\ saved' = task[t].on
  /\ task' = [task EXCEPT ![t] = IF @.on THEN [@ EXCEPT !.pc = "activate"] ELSE IdleTask]
  /\ UNCHANGED <<manager, hardware, registry, live, lane, timer, starts>>

\* activate_pairable_device looks at the registry, not at the lifecycle.
Activatable == live /\ registry \in {"Known", "Reconnecting"}

\* activate_reenabled_layout_device.
UserActivates(t) ==
  /\ At(t, "activate")
  /\ task' = [task EXCEPT ![t] =
       IF Activatable THEN [IdleTask EXCEPT !.pc = "adopt", !.pairing = TRUE] ELSE IdleTask]
  /\ UNCHANGED <<manager, hardware, registry, settings, lane, timer, starts>>

\* async_write_failure_actions, and a driver asking for a rebuild: the check and
\* the transition share one lock hold, the actions run in their own task.
Fault(t) ==
  /\ Renderable(State(entry))
  /\ LET failed == OnCommError(entry)
     IN  \/ BeginCall(t, [failed EXCEPT !.entry.fsm = EscalationTaken(@)])
         \/ BeginCall(t, OnRuntimeDeactivate(entry))
         \/ BeginCall(t, OnReconnectRequested(entry))
  /\ UNCHANGED <<hardware, registry, settings, lane, timer>>

\* sync_connectivity_workflow: settings and behaviour first, then the call.
ConvergeBegins(t) ==
  /\ \E auto \in Behaviors(live) :
       Begin(t, [IdleTask EXCEPT !.pc = "weigh", !.auto = auto])
  /\ UNCHANGED <<manager, hardware, registry, settings, lane, timer>>

Converges(t) ==
  /\ At(t, "weigh")
  /\ LET result == OnDiscovered(entry, task[t].auto, TheLayout, Stamp)
     IN  CallThen(t, result, IF result.acts = <<>> THEN "end" ELSE "exec")
  /\ UNCHANGED <<hardware, registry, settings, lane, timer, starts>>

Drops(t) ==
  /\ entry.tracked
  /\ BeginCall(t, OnDeviceVanished(entry))
  /\ UNCHANGED <<hardware, registry, settings, lane, timer>>

PairBegins(t) ==
  /\ Activatable
  /\ Begin(t, [IdleTask EXCEPT !.pc = "adopt", !.pairing = TRUE])
  /\ UNCHANGED <<manager, hardware, registry, settings, lane, timer>>

PairAdopts(t) ==
  /\ At(t, "adopt")
  /\ IF entry.tracked THEN UNCHANGED manager ELSE Call(DiscoveredDeferred(entry, TheLayout))
  /\ \E targeted \in Targeting : Goto(t, IF targeted THEN "dial" ELSE "end")
  /\ UNCHANGED <<hardware, registry, settings, lane, timer, starts>>

\* A task is over: a scan lets the lane go, a user request goes on to its
\* settings unless it is past them.
Ends(t) ==
  /\ At(t, "end")
  /\ IF t \in Users /\ ~task[t].pairing THEN Goto(t, "update") ELSE task' = [task EXCEPT ![t] = IdleTask]
  /\ lane' = IF lane = t THEN None ELSE lane
  /\ UNCHANGED <<manager, hardware, registry, settings, timer, starts>>

\* The caller is gone and the task is dropped where it waits, the lane with it.
\* Storing and aborting a reconnect handle follow what comes before them without
\* a wait.
Cancelled(t) ==
  /\ ~At(t, "idle")
  /\ ~NextAct(t, "SpawnReconnect") /\ ~NextAct(t, "CancelReconnect")
  /\ task' = [task EXCEPT ![t] = IdleTask]
  /\ lane' = IF lane = t THEN None ELSE lane
  /\ orphaned' = (orphaned \/ (InFlight(entry) /\ Connecting(t)))
  /\ UNCHANGED <<entry, issued, hardware, registry, settings, timer, starts>>

-----------------------------------------------------------------------------
Execute(t) ==
  \/ ExecConnect(t)
  \/ ExecDisconnect(t)
  \/ CloseSession(t)
  \/ ExecUnmap(t)
  \/ ExecSpawnReconnect(t)
  \/ ExecCancelReconnect(t)
  \/ ExecDone(t)
  \/ Dial(t)
  \/ FenceCheck(t)
  \/ TearDown(t)
  \/ Install(t)
  \/ Remap(t)
  \/ Report(t)
  \/ ReadState(t)
  \/ WriteRegistry(t)
  \/ Ends(t)

Scan(t) ==
  \/ ScanBegins(t)
  \/ ScanReadsSettings(t)
  \/ ScanAppliesSettings(t)
  \/ ScanDiscovers(t)
  \/ ScanRedisables(t)
  \/ ScanRetriesStale(t)
  \/ ScanRefreshes(t)
  \/ ScanResyncs(t)
  \/ ScanExecutesInline(t)
  \/ ScanSpawnsBackground(t)
  \/ ScanRetires(t)

Timer(t) ==
  \/ TimerElapses(t)
  \/ TimerWakes(t)
  \/ TimerAttempts(t)
  \/ TimerEndsAborted(t)
User(t) ==
  \/ UserBegins(t)
  \/ UserToggles(t)
  \/ UserUpdates(t)
  \/ UserSaves(t)
  \/ UserActivates(t)
Converge(t) == ConvergeBegins(t) \/ Converges(t)

Next ==
  \/ \E t \in Tasks : Execute(t)
  \/ \E t \in Scans : Scan(t)
  \/ \E t \in Timers : Timer(t)
  \/ \E t \in Users : User(t)
  \/ \E t \in Faults : Fault(t)
  \/ \E t \in Convergers : Converge(t)
  \/ \E t \in Droppers : Drops(t)
  \/ \E t \in Pairers : PairBegins(t)
  \/ \E t \in Pairers \cup Users : PairAdopts(t)
  \/ \E t \in Cancellable : Cancelled(t)

Spec == Init /\ [][Next]_vars

-----------------------------------------------------------------------------
(* Properties. *)

\* The state stays within its types: the manager's entry, the action lists, and
\* who may hold the lane and the stored reconnect handle.
TypeOK ==
  /\ entry \in Entries
  /\ issued \in 0..MaxIssues /\ orphaned \in BOOLEAN
  /\ session \in BOOLEAN /\ mapped \in BOOLEAN
  /\ live \in BOOLEAN /\ saved \in BOOLEAN \cup {None}
  /\ registry \in States
  /\ lane \in Scans \cup Backgrounds \cup {None}
  /\ timer \in Timers \cup {None}
  /\ \A t \in Tasks :
       /\ \A i \in DOMAIN task[t].acts : task[t].acts[i] \in Acts
       /\ task[t].fence \in 1..MaxIssues \cup {None}
       /\ task[t].seen \in States

\* No task is running; a reconnect task may be asleep.
Quiet == \A t \in Tasks : task[t].pc \in {"idle", "sleep"}

\* Once every task has finished, exactly a device the lifecycle calls renderable
\* has an open session.
QuietSessionMatches == Quiet => session = Renderable(State(entry))

\* Once every task has finished, exactly a device the lifecycle calls renderable
\* is routed in the backend manager.
QuietRoutingMatches == Quiet => mapped = Renderable(State(entry))

\* Once every task has finished, a Reconnecting device has a sleeping reconnect
\* task: the device is never left waiting for a retry nobody will make.
ReconnectIsPending == Quiet /\ State(entry) = "Reconnecting" => timer # None

\* Once every task has finished, the registry and the store hold the same user
\* setting (begin_device_mutation: keep live and persisted settings in one
\* ordinary mutation).
SettingsAgree == Quiet /\ saved # None => live = saved

\* The handle of a sleeping reconnect task is given up only with the task: what
\* replaces or cancels it aborts it, or it would wake unasked.  Only another task
\* that woke up while it was being replaced takes the handle from a sleeper.
HandlesGoWithTheirTask ==
  [][\A t \in Timers :
       At(t, "sleep") /\ timer = t /\ timer' # t =>
         \/ task'[t].pc # "sleep"
         \/ \E u \in Timers \ {t} : TimerWakes(u)]_vars

\* A reconnect task that wakes finds its own handle or none (spawn_reconnect_task:
\* "remove our own handle before executing follow-up logic so reschedules do not
\* fight with this running task").
WakesRemoveOwnHandle ==
  \A t \in Timers : task[t].pc \in {"woken", "doomed"} => timer \in {t, None}

\* What the lane of the target protects: a whole scan, and a fenced connect from
\* its check until it is synced to the registry or torn down.
InLane(t) ==
  \/ t \in Scans /\ ~At(t, "idle")
  \/ /\ t \in Backgrounds /\ task[t].fence # None /\ task[t].outcome = "ok"
     /\ \/ task[t].pc \in {"teardown", "install", "report", "remap"}
        \/ task[t].pc \in {"read", "write"} /\ task[t].back = "exec"

\* The lane is with the one task it protects, whoever else acts on the device and
\* however a connect ends: scans and publishing connects exclude each other, and
\* no path out of a connect forgets the lane, which would stop every later scan.
LaneIsHeld == \A t \in Scans \cup Backgrounds : lane = t <=> InLane(t)

\* A disabled device is disconnected and unrouted once every task has finished
\* (apply_user_enabled_state: disable operations disconnect hardware and tear
\* down routing instead of only flipping registry state).
DisabledIsTornDown == Quiet /\ State(entry) = "Disabled" => ~session /\ ~mapped

\* connect_in_flight names a connect some task is making.
MarkHasOwner == InFlight(entry) => \E t \in Tasks : Connecting(t)

\* connect_in_flight names a connect some task is making, unless that task was
\* cancelled or the action thrown away: no refusal, failure, supersession or
\* other end of a task forgets the mark, which would keep discovery from
\* connecting the device for as long as retry_stale_known_connect waits.
InFlightHasOwner == orphaned \/ MarkHasOwner

\* A fenced connect that passed its check stays wanted until it is reported: no
\* scan retires or replaces the device while the connect holds the lane.
FencedConnectStaysWanted ==
  \A t \in Backgrounds :
    (task[t].fence # None /\ task[t].outcome = "ok" /\ task[t].pc \in {"install", "report"}) =>
      entry.issue = task[t].fence /\ ConnectAccepted(entry)
==============================================================================
