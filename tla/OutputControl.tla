---------------------------- MODULE OutputControl ----------------------------
(***************************************************************************)
(* Who turns the lights off and on: the session controller with its one    *)
(* transition task (session.rs), the output service behind the API         *)
(* (domain/output.rs), the worker that repeats a static hold for devices   *)
(* that connect (startup/lifecycle.rs), the render thread with its loop    *)
(* (pipeline_driver.rs, frame_executor.rs, engine/mod.rs) and the          *)
(* discovery scans that bring released devices back.                       *)
(*                                                                         *)
(* They share the power state of module OutputPower.  The transition mutex *)
(* is held from the first to the last step of a command of the output      *)
(* service and of the hold worker; a session update takes and leaves it in *)
(* one step; begin_session_transition and the fades do not take it.        *)
(*                                                                         *)
(* A command runs inside the request that asked for it (api/output.rs, a   *)
(* scene clear without an Idempotency-Key), and a client that hangs up     *)
(* drops it where it waits (UserDropped): the mutex is free again, and     *)
(* what the command had not done yet is never done.                        *)
(***************************************************************************)
EXTENDS OutputPower, FiniteSets

CONSTANTS
  Usb, Network,     \* the devices, by how they are attached
  Zoned,            \* those the layout has a zone for
  Unassigned,       \* what the scene may ask of the others (UnassignedBehavior)
  MaxTransitions    \* bound: transitions begun (one more by a stop under way)

ASSUME DevicesAreApart == Usb \cap Network = {}
ASSUME ZonesAreOfDevices ==
  Zoned \subseteq Usb \cup Network /\ Unassigned \subseteq {"Off", "Hold", "Fallback"}
ASSUME BoundIsNatural == MaxTransitions \in Nat

Devices == Usb \cup Network

VARIABLES
  power,        \* OutputPowerState
  newest,       \* history: who began the newest transition
  task_pc, task_kind, task_gen, task_todo,   \* the session's transition task
  user_pc, user_todo, user_scope,            \* the command of the output service,
                                             \* "cut" when the last one was dropped
  worker_pc,    \* the static hold worker
  connects,     \* a DeviceConnected event is waiting for that worker
  loop_state, parked, held,                  \* RenderLoop
  frame_pc, sleep_black_pushed,              \* the render thread
  link,         \* link[d]: is d connected or released?
  shown,        \* shown[d]: what d was last sent
  lane,         \* the last frame on the bus
  scans         \* scopes of the scans that are scheduled

vars == <<power, newest, task_pc, task_kind, task_gen, task_todo, user_pc,
          user_todo, user_scope, worker_pc, connects, loop_state, parked, held,
          frame_pc, sleep_black_pushed, link, shown, lane, scans>>

task == <<task_pc, task_kind, task_gen, task_todo>>
user == <<user_pc, user_todo, user_scope>>
worker == <<worker_pc, connects>>
loop == <<loop_state, parked, held>>
frame == <<frame_pc, sleep_black_pushed>>
outputs == <<link, shown, lane>>

Sleeps == {"Dim", "OffStatic", "OffRelease"}
Wakes == {"Restore", "Resume"}
Scopes == {"All", "Network", "Resume"}

InScope(scope) ==
  CASE scope = "All"     -> Devices
    [] scope = "Network" -> Network
    [] scope = "Resume"  -> Usb

\* The daemon starts with the override its last run saved, a render loop that
\* is paused for a saved pause only, and its first scan.
Init ==
  /\ \E override \in Overrides :
       /\ power = Restored(override)
       /\ loop_state = IF override = "Paused" THEN "Paused" ELSE "Running"
       /\ held = (override = "Paused")
  /\ newest = "none"
  /\ task_pc = "idle" /\ task_kind = "Restore" /\ task_gen = 0 /\ task_todo = {}
  /\ user_pc = "idle" /\ user_todo = {} /\ user_scope = {}
  /\ worker_pc = "idle" /\ connects = TRUE
  /\ parked = FALSE
  /\ frame_pc = "idle" /\ sleep_black_pushed = FALSE
  /\ link = [d \in Devices |-> "released"]
  /\ shown = [d \in Devices |-> "native"]
  /\ lane = "cleared"
  /\ scans = {"All"}

GuardFree == user_pc \in {"idle", "cut"} /\ worker_pc = "idle"
CanBegin == power.generation < MaxTransitions
Connected == {d \in Devices : link[d] = "connected"}

\* A picture reaches those of the devices that are connected.
Write(devices, picture) ==
  shown' = [d \in Devices |-> IF d \in devices \cap Connected THEN picture ELSE shown[d]]

\* What a live frame leaves on a device: the layout's picture, or for an output
\* without a zone what the scene says: untouched, off, or sampled too.
LivePicture(d, unassigned) ==
  CASE d \notin Connected -> shown[d]
    [] d \in Connected \cap Zoned -> "live"
    [] d \in Connected \ Zoned -> CASE unassigned = "Hold" -> shown[d]
                                  [] unassigned = "Off" -> "black"
                                  [] unassigned = "Fallback" -> "live"

WriteLive(unassigned) == shown' = [d \in Devices |-> LivePicture(d, unassigned)]

\* on_device_vanished and its actions for one device.
ReleaseDevice(d) == link' = [link EXCEPT ![d] = "released"]

\* A finished scan has connected those of the released devices in its scope
\* that it found, and announced each.  A scan whose targets cannot be resolved
\* finds none.
Reconnect(scope) ==
  \E back \in SUBSET (InScope(scope) \ Connected) :
     /\ link' = [d \in Devices |-> IF d \in back THEN "connected" ELSE link[d]]
     /\ shown' = [d \in Devices |-> IF d \in back THEN "native" ELSE shown[d]]
     /\ connects' = (connects \/ back # {})
------------------------------------------------------------------------------
(* RenderLoop: a pause and a park each hold the clock.                     *)

PauseLoop ==
  /\ loop_state' = "Paused"
  /\ held' = (held \/ loop_state = "Running")
  /\ UNCHANGED parked

\* Variant: a resume ends the hold of a park.
ResumeLoopEndsHold ==
  /\ loop_state' = "Running"
  /\ held' = (held /\ loop_state # "Paused")
  /\ UNCHANGED parked

ResumeLoop ==
  /\ loop_state' = "Running"
  /\ held' = IF loop_state = "Paused" /\ ~parked THEN FALSE ELSE held
  /\ UNCHANGED parked

ParkLoop ==
  /\ parked' = (parked \/ loop_state = "Running")
  /\ held' = (held \/ loop_state = "Running")
  /\ UNCHANGED loop_state

UnparkLoop ==
  /\ parked' = FALSE
  /\ held' = IF parked /\ loop_state # "Paused" THEN FALSE ELSE held
  /\ UNCHANGED loop_state
------------------------------------------------------------------------------
(* The session controller.  Every event it acts on aborts the transition   *)
(* task first; an event whose action is to ignore it does only that.       *)

SessionEvent(kind) ==
  /\ CanBegin
  /\ power' = begin_session_transition(power)
  /\ task_gen' = power.generation + 1
  /\ task_kind' = kind
  /\ task_pc' = IF kind \in Wakes THEN "look" ELSE "ensure"
  /\ task_todo' = {}
  /\ newest' = kind
  /\ UNCHANGED <<user, worker, loop, frame, outputs, scans>>

IgnoredEvent ==
  /\ task_pc # "idle"
  /\ task_pc' = "idle"
  /\ task_todo' = {}
  /\ newest' = IF task_gen = power.generation THEN "cut" ELSE newest
  /\ UNCHANGED <<power, task_kind, task_gen, user, worker, loop, frame, outputs,
                 scans>>

TaskGoto(pc) == task_pc' = pc /\ UNCHANGED <<task_kind, task_gen, task_todo>>

\* ensure_awake of a sleep action, before it waits for anything.
EnsureAwake ==
  /\ task_pc = "ensure"
  /\ TaskGoto(IF ~power.session_sleeping
                THEN IF power.generation = task_gen THEN "fade" ELSE "idle"
                ELSE IF session_release_active(power) THEN "scan" ELSE "clear")
  /\ UNCHANGED <<power, newest, user, worker, loop, frame, outputs, scans>>

\* The first look of a wake transition.
LookBeforeWake ==
  /\ task_pc = "look"
  /\ TaskGoto(IF session_release_active(power) THEN "scan"
              ELSE IF task_kind = "Resume" THEN "resume" ELSE "clear")
  /\ UNCHANGED <<power, newest, user, worker, loop, frame, outputs, scans>>

\* execute_discovery_scan_or_enqueue: the scan runs here, or the one that is
\* running will run it afterwards.
TaskScan ==
  /\ task_pc \in {"scan", "resume"}
  /\ LET scope == IF task_pc = "scan" THEN "All" ELSE "Resume"
     IN  \/ /\ Reconnect(scope)
            /\ UNCHANGED <<scans, lane>>
         \/ /\ scans' = scans \cup {scope}
            /\ UNCHANGED <<connects, outputs>>
  /\ TaskGoto("clear")
  /\ UNCHANGED <<power, newest, user, worker_pc, loop, frame>>

ClearSessionSleep ==
  /\ task_pc = "clear"
  /\ GuardFree
  /\ power' = clear_session_sleep(power, task_gen)
  /\ TaskGoto(IF power.generation = task_gen THEN "fade" ELSE "idle")
  /\ UNCHANGED <<newest, user, worker, loop, frame, outputs, scans>>

FadeTarget ==
  CASE task_kind = "Dim" -> Dimmed
    [] task_kind \in {"OffStatic", "OffRelease"} -> Off
    [] task_kind \in Wakes -> Full

\* One step of fade_session_to, to a level on the way to the target or to the
\* target itself; the task then goes on to what follows the fade.
Fade ==
  /\ task_pc = "fade"
  /\ \E b \in Brightness :
       /\ \/ power.brightness <= b /\ b <= FadeTarget
          \/ FadeTarget <= b /\ b <= power.brightness
       /\ b # power.brightness \/ b = FadeTarget
       /\ power' = fade_session_to(power, task_gen, b)
       /\ TaskGoto(CASE power.generation # task_gen -> "idle"
                     [] power.generation = task_gen /\ b # FadeTarget -> "fade"
                     [] power.generation = task_gen /\ b = FadeTarget ->
                          IF FadeTarget = Off THEN "pause" ELSE "idle")
  /\ UNCHANGED <<newest, user, worker, loop, frame, outputs, scans>>

PauseForSession ==
  /\ task_pc = "pause"
  /\ GuardFree
  /\ power' = pause_for_session(power, task_gen,
                IF task_kind = "OffRelease" THEN "Release" ELSE "Static")
  /\ TaskGoto(IF power.generation = task_gen THEN "decide" ELSE "idle")
  /\ UNCHANGED <<newest, user, worker, loop, frame, outputs, scans>>

\* pause_output after the pause applied: the devices to release are listed once.
DecideRelease ==
  /\ task_pc = "decide"
  /\ IF session_release_active(power) /\ Connected # {}
       THEN task_pc' = "release" /\ task_todo' = Connected
       ELSE task_pc' = "idle" /\ UNCHANGED task_todo
  /\ UNCHANGED <<power, newest, task_kind, task_gen, user, worker, loop, frame,
                 outputs, scans>>

TaskRelease(d) ==
  /\ task_pc = "release"
  /\ d \in task_todo
  /\ ReleaseDevice(d)
  /\ task_todo' = task_todo \ {d}
  /\ task_pc' = IF task_todo = {d} THEN "idle" ELSE "release"
  /\ UNCHANGED <<power, newest, task_kind, task_gen, user, worker, loop, frame,
                 shown, lane, scans>>

TaskStep ==
  \/ EnsureAwake \/ LookBeforeWake \/ TaskScan \/ ClearSessionSleep \/ Fade
  \/ PauseForSession \/ DecideRelease
  \/ \E d \in Devices : TaskRelease(d)
------------------------------------------------------------------------------
(* The output service: set_power and quiesce_after_effect_stop.            *)

UserGoto(pc) == user_pc' = pc /\ UNCHANGED <<user_todo, user_scope>>

PauseRequest ==
  /\ GuardFree /\ CanBegin
  /\ power' = set_manual_pause(power)
  /\ newest' = "pause"
  /\ scans' = scans \cup reconnect_scope(power)
  /\ UserGoto("write")
  /\ UNCHANGED <<task, worker, loop, frame, outputs>>

\* An explicit request to run, and the one wake_for_effect_start makes.
RunRequest ==
  /\ GuardFree /\ CanBegin
  /\ power' = clear_output_override(power)
  /\ newest' = "run"
  /\ user_pc' = "resume"
  /\ user_scope' = reconnect_scope(power)
  /\ UNCHANGED <<task, user_todo, worker, loop, frame, outputs, scans>>

ResumeOutput ==
  /\ user_pc = "resume"
  /\ ResumeLoop
  /\ scans' = scans \cup user_scope
  /\ user_pc' = "idle"
  /\ user_scope' = {}
  /\ UNCHANGED <<power, newest, task, user_todo, worker, frame, outputs>>

StopRequest ==
  /\ GuardFree /\ CanBegin
  /\ PauseLoop
  /\ UserGoto("stop")
  /\ UNCHANGED <<power, newest, task, worker, frame, outputs, scans>>

\* Variant: a stop waits for the frame under way to be decided.
StopOutputAfterFrame ==
  /\ user_pc = "stop"
  /\ frame_pc = "ticked"
  /\ power' = set_output_stopped(power)
  /\ newest' = "stop"
  /\ UserGoto("list")
  /\ UNCHANGED <<task, worker, loop, frame, outputs, scans>>

StopOutput ==
  /\ user_pc = "stop"
  /\ power' = set_output_stopped(power)
  /\ newest' = "stop"
  /\ UserGoto("list")
  /\ UNCHANGED <<task, worker, loop, frame, outputs, scans>>

ListNetworkDevices ==
  /\ user_pc = "list"
  /\ user_todo' = Connected \cap Network
  /\ user_pc' = IF Connected \cap Network = {} THEN "write" ELSE "release"
  /\ UNCHANGED <<power, newest, task, user_scope, worker, loop, frame, outputs,
                 scans>>

UserRelease(d) ==
  /\ user_pc = "release"
  /\ d \in user_todo
  /\ ReleaseDevice(d)
  /\ user_todo' = user_todo \ {d}
  /\ user_pc' = IF user_todo = {d} THEN "write" ELSE "release"
  /\ UNCHANGED <<power, newest, task, user_scope, worker, loop, frame, shown,
                 lane, scans>>

\* publish_static_snapshot of a command: every device, with a zone or without,
\* first, then the bus.  A pause stops the render loop after it, a stop has done
\* so before.
UserWrite ==
  /\ user_pc = "write"
  /\ Write(Devices, "static")
  /\ UserGoto("publish")
  /\ UNCHANGED <<power, newest, task, worker, loop, frame, link, lane, scans>>

\* Variant: a pause leaves the render loop running.
UserPublishEnds ==
  /\ user_pc = "publish"
  /\ lane' = "static"
  /\ UserGoto("idle")
  /\ UNCHANGED <<power, newest, task, worker, loop, frame, link, shown, scans>>

UserPublish ==
  /\ user_pc = "publish"
  /\ lane' = "static"
  /\ UserGoto(IF power.override = "Paused" THEN "pauseloop" ELSE "idle")
  /\ UNCHANGED <<power, newest, task, worker, loop, frame, link, shown, scans>>

UserPauseLoop ==
  /\ user_pc = "pauseloop"
  /\ PauseLoop
  /\ UserGoto("idle")
  /\ UNCHANGED <<power, newest, task, worker, frame, outputs, scans>>

UserStep ==
  \/ ResumeOutput \/ StopOutput \/ ListNetworkDevices \/ UserWrite \/ UserPublish
  \/ UserPauseLoop
  \/ \E d \in Devices : UserRelease(d)

\* The caller hangs up while the command waits: for the backend manager, for the
\* lock of the render loop or for a device to close.  Between the pause of the
\* loop and the latch of a stop, and between the write to the devices and the
\* bus, a command does not wait.
UserDropped ==
  /\ user_pc \in {"resume", "list", "release", "write", "pauseloop"}
  /\ user_pc' = "cut"
  /\ user_todo' = {}
  /\ user_scope' = {}
  /\ UNCHANGED <<power, newest, task, worker, loop, frame, outputs, scans>>
------------------------------------------------------------------------------
(* The static hold worker: reconcile_static_hold on every DeviceConnected. *)

\* Variant: only the sleep of the session is repeated.
ReconcileSessionHold ==
  /\ connects /\ GuardFree
  /\ connects' = FALSE
  /\ worker_pc' = IF power.session_sleeping /\ power.behavior = "Static"
                    THEN "write" ELSE "idle"
  /\ UNCHANGED <<power, newest, task, user, loop, frame, outputs, scans>>

ReconcileStaticHold ==
  /\ connects /\ GuardFree
  /\ connects' = FALSE
  /\ worker_pc' = IF sleeping(power) /\ effective_behavior(power) = "Static"
                    THEN "write" ELSE "idle"
  /\ UNCHANGED <<power, newest, task, user, loop, frame, outputs, scans>>

WorkerWrite ==
  /\ worker_pc = "write"
  /\ Write(Devices, "static")
  /\ worker_pc' = "publish"
  /\ UNCHANGED <<power, newest, task, user, connects, loop, frame, link, lane,
                 scans>>

WorkerPublish ==
  /\ worker_pc = "publish"
  /\ lane' = "static"
  /\ worker_pc' = "idle"
  /\ UNCHANGED <<power, newest, task, user, connects, loop, frame, link, shown,
                 scans>>

WorkerStep == ReconcileStaticHold \/ WorkerWrite \/ WorkerPublish

\* A scheduled scan finishes.
RunScan(scope) ==
  /\ scope \in scans
  /\ Reconnect(scope)
  /\ scans' = scans \ {scope}
  /\ UNCHANGED <<power, newest, task, user, worker_pc, loop, frame, lane>>
------------------------------------------------------------------------------
(* The render thread.                                                      *)

FrameGoto(pc) == frame_pc' = pc /\ UNCHANGED sleep_black_pushed

Tick ==
  /\ frame_pc = "idle"
  /\ loop_state = "Running"
  /\ FrameGoto("ticked")
  /\ UNCHANGED <<power, newest, task, user, worker, loop, outputs, scans>>

\* gate_output_demand finds no consumer.
Park ==
  /\ frame_pc = "ticked"
  /\ Connected = {}
  /\ ParkLoop
  /\ FrameGoto("parked")
  /\ UNCHANGED <<power, newest, task, user, worker, outputs, scans>>

\* Variant: only the state of the loop ends the wait, a device does not.
UnparkWhenPaused ==
  /\ frame_pc = "parked"
  /\ loop_state # "Running"
  /\ UnparkLoop
  /\ FrameGoto("idle")
  /\ UNCHANGED <<power, newest, task, user, worker, outputs, scans>>

\* A device, another consumer or the state of the loop ends the wait.
Unpark ==
  /\ frame_pc = "parked"
  /\ UnparkLoop
  /\ FrameGoto("idle")
  /\ UNCHANGED <<power, newest, task, user, worker, outputs, scans>>

\* The frame takes its picture of the power state.  Asleep, it sends the one
\* frame of the sleep unless that was sent; awake, it renders.
Snapshot ==
  /\ frame_pc = "ticked"
  /\ frame_pc' = CASE ~sleeping(power) -> "render"
                   [] sleeping(power) /\ sleep_black_pushed -> "idle"
                   [] sleeping(power) /\ ~sleep_black_pushed ->
                        IF effective_behavior(power) = "Static" THEN "force" ELSE "clear"
  /\ sleep_black_pushed' = (sleep_black_pushed /\ sleeping(power))
  /\ UNCHANGED <<power, newest, task, user, worker, loop, outputs, scans>>

\* should_switch_to_late_sleep_frame, of a frame that began awake.
LateHold ==
  /\ sleeping(power)
  /\ effective_behavior(power) = "Static" \/ power.override = "Stopped"

\* Under the lock of the backend manager: the check and the write.
FrameWrite ==
  /\ frame_pc = "render"
  /\ IF LateHold
       THEN Write(Zoned, "static") /\ FrameGoto("forced")
       ELSE (\E unassigned \in Unassigned : WriteLive(unassigned)) /\ FrameGoto("publish")
  /\ UNCHANGED <<power, newest, task, user, worker, loop, link, lane, scans>>

FramePublish ==
  /\ frame_pc = "publish"
  /\ lane' = "live"
  /\ FrameGoto("recheck")
  /\ UNCHANGED <<power, newest, task, user, worker, loop, link, shown, scans>>

\* Variant: a frame that is written is not looked at again.
RecheckNothing ==
  /\ frame_pc = "recheck"
  /\ FrameGoto("idle")
  /\ UNCHANGED <<power, newest, task, user, worker, loop, outputs, scans>>

Recheck ==
  /\ frame_pc = "recheck"
  /\ FrameGoto(IF LateHold THEN "force" ELSE "idle")
  /\ UNCHANGED <<power, newest, task, user, worker, loop, outputs, scans>>

\* force_static_sleep_snapshot: the zones of the layout and no other output, then
\* the bus and the latch.
ForceWrite ==
  /\ frame_pc = "force"
  /\ Write(Zoned, "static")
  /\ FrameGoto("forced")
  /\ UNCHANGED <<power, newest, task, user, worker, loop, link, lane, scans>>

ForcePublish ==
  /\ frame_pc = "forced"
  /\ lane' = "static"
  /\ frame_pc' = "idle"
  /\ sleep_black_pushed' = TRUE
  /\ UNCHANGED <<power, newest, task, user, worker, loop, link, shown, scans>>

\* maybe_sleep_throttle of a release: the bus is cleared, no device is written.
ClearPublish ==
  /\ frame_pc = "clear"
  /\ lane' = "cleared"
  /\ frame_pc' = "idle"
  /\ sleep_black_pushed' = TRUE
  /\ UNCHANGED <<power, newest, task, user, worker, loop, link, shown, scans>>

FrameStep ==
  \/ Tick \/ Park \/ Unpark \/ Snapshot \/ FrameWrite \/ FramePublish \/ Recheck
  \/ ForceWrite \/ ForcePublish \/ ClearPublish
------------------------------------------------------------------------------
Next ==
  \/ \E kind \in Sleeps \cup Wakes : SessionEvent(kind)
  \/ IgnoredEvent
  \/ PauseRequest \/ RunRequest \/ StopRequest
  \/ TaskStep \/ UserStep \/ UserDropped \/ WorkerStep \/ FrameStep
  \/ \E scope \in Scopes : RunScan(scope)

Spec == Init /\ [][Next]_vars

\* The runtime runs every task that can go on; scans finish; the render thread
\* keeps ticking.  Nobody has to make a request, and nobody has to hang up.
Fairness ==
  /\ WF_vars(TaskStep) /\ WF_vars(UserStep) /\ WF_vars(WorkerStep)
  /\ WF_vars(FrameStep)
  /\ \A scope \in Scopes : WF_vars(RunScan(scope))

FairSpec == Spec /\ Fairness
------------------------------------------------------------------------------
TaskPcs == {"idle", "ensure", "look", "scan", "resume", "clear", "fade", "pause",
            "decide", "release"}
UserPcs == {"idle", "cut", "write", "publish", "pauseloop", "resume", "stop", "list",
            "release"}
FramePcs == {"idle", "ticked", "parked", "render", "publish", "recheck", "force",
             "forced", "clear"}

\* The variables keep their types, and a task's generation is one that was begun.
TypeOK ==
  /\ power \in States(0 .. MaxTransitions + 1)
  /\ newest \in {"none", "cut", "run", "pause", "stop"} \cup Sleeps \cup Wakes
  /\ task_pc \in TaskPcs /\ task_kind \in Sleeps \cup Wakes
  /\ task_gen \in 0 .. MaxTransitions /\ task_gen <= power.generation
  /\ task_todo \subseteq Devices
  /\ user_pc \in UserPcs /\ user_todo \subseteq Network
  /\ user_scope \subseteq Scopes
  /\ worker_pc \in {"idle", "write", "publish"} /\ connects \in BOOLEAN
  /\ loop_state \in {"Running", "Paused"} /\ parked \in BOOLEAN /\ held \in BOOLEAN
  /\ frame_pc \in FramePcs /\ sleep_black_pushed \in BOOLEAN
  /\ link \in [Devices -> {"connected", "released"}]
  /\ shown \in [Devices -> {"native", "static", "black", "live"}]
  /\ lane \in {"cleared", "static", "live"}
  /\ scans \subseteq Scopes

\* The newest request decides: after a request to run the lights are fully on,
\* a pause and a stop stay latched, and a session transition that ran to its
\* end left the state it was for.  No step of an older fade, of an older
\* sleep or of an older wake shows through (update_for_generation).
NewestRequestWins ==
  /\ newest = "run" => ~sleeping(power) /\ power.brightness = Full
  /\ newest = "pause" => power.override = "Paused"
  /\ newest = "stop" => power.override = "Stopped"
  /\ newest \in Wakes /\ task_pc = "idle" =>
       ~power.session_sleeping /\ power.brightness = Full
  /\ newest = "Dim" /\ task_pc = "idle" =>
       ~power.session_sleeping /\ power.brightness = Dimmed
  /\ newest \in {"OffStatic", "OffRelease"}
       /\ task_pc \in {"idle", "decide", "release"} =>
       /\ power.session_sleeping /\ power.brightness = Off
       /\ power.behavior = IF newest = "OffRelease" THEN "Release" ELSE "Static"

\* Once a command has run to its end the render loop agrees with the override:
\* it runs when there is none and is paused for a user's pause, whatever was
\* dropped half-way before it.  Commands that overlap would leave it paused
\* under running output (is_running asks for both).
LoopFollowsPower ==
  user_pc = "idle" => /\ power.override = "None" => loop_state = "Running"
                      /\ power.override = "Paused" => loop_state = "Paused"

\* The render clock is held exactly while the loop is paused or parked, in
\* whatever order the two begin and end (held_since, begin_hold, end_hold).
HeldWhilePausedOrParked == held <=> (loop_state = "Paused" \/ parked)

\* A hold has the last word: once the command has run to its end and the frame
\* that was under way has ended, neither the bus nor a device, with a zone or
\* without, is left with a live frame ("this check keeps the hold's frame last",
\* frame_executor.rs).
HoldIsLast ==
  power.override # "None" /\ user_pc = "idle" /\ frame_pc \in {"idle", "parked"} =>
    /\ lane # "live"
    /\ \A d \in Connected : shown[d] # "live"

\* A pause that ran to its end holds its static frame on every connected device,
\* the ones that connected after it and the ones without a zone included
\* (publish_static_snapshot, reconcile_static_hold).
PauseCoversEveryDevice ==
  /\ power.override = "Paused" /\ user_pc = "idle"
  /\ worker_pc = "idle" /\ ~connects /\ frame_pc \in {"idle", "parked"}
  => \A d \in Connected : shown[d] = "static"

\* Requests come to an end: no command and no session transition waits for the
\* transition mutex, for a scan or for the render thread for ever, and a dropped
\* command does not keep the mutex.
RequestsFinish == []<>(user_pc \in {"idle", "cut"} /\ task_pc = "idle")

\* When the requests are over the lights follow: unless the command was dropped,
\* running output drives every connected device of the layout with live frames,
\* and a sleep leaves none on the bus while there is a device to render for.
LightsFollow ==
  <>[](power.override = "None" /\ user_pc = "idle" =>
         /\ newest = "run" => \A d \in Connected \cap Zoned : shown[d] = "live"
         /\ newest \in {"OffStatic", "OffRelease"} /\ Connected # {} => lane # "live")
==============================================================================
