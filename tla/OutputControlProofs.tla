------------------------- MODULE OutputControlProofs -------------------------
(***************************************************************************)
(* The safety of the output control for any devices and any number of      *)
(* transitions.                                                            *)
(*                                                                         *)
(* What makes the properties inductive: the transition task is the newest  *)
(* one exactly while its generation is the current one (Fenced), and what  *)
(* it has reached then stands (Reached); each command of the output        *)
(* service leaves its override alone until it is done or dropped           *)
(* (Commands); and once a hold was written, only a frame that will check   *)
(* again may have put a live picture over it (HoldWritten, HoldRepeated).  *)
(* A dropped command may have left its hold unwritten, and so may the      *)
(* pause a stop finds (Unwritten).                                         *)
(***************************************************************************)
EXTENDS OutputControl, TLAPS

\* The stop that waits for its turn is the one transition past the bound.
StopIsWithinBound == user_pc = "stop" => power.generation <= MaxTransitions

Fenced ==
  /\ task_pc # "idle" /\ task_gen = power.generation => newest = task_kind
  /\ newest \in Sleeps \cup Wakes => task_gen = power.generation /\ newest = task_kind

Reached ==
  /\ task_pc \in {"pause", "decide", "release"} => task_kind \in {"OffStatic", "OffRelease"}
  /\ newest \in Sleeps \cup Wakes =>
       /\ task_pc = "fade" => ~power.session_sleeping
       /\ task_pc = "pause" => power.brightness = Off

Commands ==
  /\ user_pc \in {"list", "release"} => power.override = "Stopped"
  /\ user_pc \in {"write", "publish"} => power.override # "None"
  /\ user_pc = "pauseloop" => power.override = "Paused"
  /\ user_pc = "resume" => power.override = "None"

Unwritten == {"list", "release", "write", "stop", "cut"}

HoldWritten ==
  /\ power.override # "None" /\ user_pc \notin Unwritten =>
       \A d \in Connected : shown[d] # "live"
  /\ /\ power.override # "None" /\ user_pc \notin Unwritten \cup {"publish"}
     /\ frame_pc \notin {"recheck", "force", "forced"}
     => lane # "live"

HoldRepeated ==
  power.override = "Paused" /\ user_pc \notin Unwritten /\ ~connects /\ worker_pc # "write" =>
    \A d \in Connected : shown[d] = "static"

IInv ==
  /\ TypeOK /\ StopIsWithinBound /\ Fenced /\ Reached /\ NewestRequestWins
  /\ Commands /\ LoopFollowsPower /\ HeldWhilePausedOrParked
  /\ HoldWritten /\ HoldRepeated
------------------------------------------------------------------------------
\* The types, in the parts the steps below keep one by one.
PowerType ==
  /\ power \in States(0 .. MaxTransitions + 1)
  /\ task_gen \in 0 .. MaxTransitions /\ task_gen <= power.generation

Flags ==
  /\ connects \in BOOLEAN /\ parked \in BOOLEAN /\ held \in BOOLEAN
  /\ sleep_black_pushed \in BOOLEAN

Places ==
  /\ newest \in {"none", "cut", "run", "pause", "stop"} \cup Sleeps \cup Wakes
  /\ task_pc \in TaskPcs /\ task_kind \in Sleeps \cup Wakes
  /\ task_todo \subseteq Devices
  /\ user_pc \in UserPcs /\ user_todo \subseteq Network
  /\ user_scope \subseteq Scopes
  /\ worker_pc \in {"idle", "write", "publish"}
  /\ loop_state \in {"Running", "Paused"} /\ frame_pc \in FramePcs
  /\ link \in [Devices -> {"connected", "released"}]
  /\ shown \in [Devices -> {"native", "static", "black", "live"}]
  /\ lane \in {"cleared", "static", "live"}
  /\ scans \subseteq Scopes

\* Each update of the power state keeps its type; those of a request begin the
\* next generation, those of a transition leave the generation alone.
LEMMA RequestUpdates ==
  ASSUME NEW G \in SUBSET Nat, NEW s \in States(G), s.generation + 1 \in G
  PROVE  \A new \in {set_manual_pause(s), set_output_stopped(s), clear_output_override(s),
                     begin_session_transition(s)} :
           new \in States(G) /\ new.generation = s.generation + 1
<1>1. Overrides = {"None", "Paused", "Stopped"} /\ Full \in Brightness
  BY DEF Overrides, Full, Brightness, Off
<1>2. "None" \in Overrides /\ "Paused" \in Overrides /\ "Stopped" \in Overrides
  BY <1>1, Zenon
<1>3. set_manual_pause(s) \in States(G) /\ set_manual_pause(s).generation = s.generation + 1
  BY <1>2, Zenon DEF States, set_manual_pause
<1>4. set_output_stopped(s) \in States(G) /\ set_output_stopped(s).generation = s.generation + 1
  BY <1>2, Zenon DEF States, set_output_stopped
<1>5. /\ clear_output_override(s) \in States(G)
      /\ clear_output_override(s).generation = s.generation + 1
  BY <1>1, <1>2, Zenon DEF States, clear_output_override
<1>6. /\ begin_session_transition(s) \in States(G)
      /\ begin_session_transition(s).generation = s.generation + 1
  BY Zenon DEF States, begin_session_transition
<1> QED
  BY <1>3, <1>4, <1>5, <1>6, Zenon

\* The steps of a transition g, whether or not it is the newest.
LEMMA ClearUpdate ==
  ASSUME NEW G \in SUBSET Nat, NEW s \in States(G), NEW g
  PROVE  /\ clear_session_sleep(s, g) \in States(G)
         /\ clear_session_sleep(s, g).generation = s.generation
  BY Zenon DEF States, clear_session_sleep, update_for_generation

\* The same of a step of its fade.
LEMMA FadeUpdate ==
  ASSUME NEW G \in SUBSET Nat, NEW s \in States(G), NEW g, NEW b \in Brightness
  PROVE  /\ fade_session_to(s, g, b) \in States(G)
         /\ fade_session_to(s, g, b).generation = s.generation
  BY Zenon DEF States, fade_session_to, update_for_generation

\* The same of its pause.
LEMMA PauseUpdate ==
  ASSUME NEW G \in SUBSET Nat, NEW s \in States(G), NEW g, NEW behavior \in Behaviors
  PROVE  /\ pause_for_session(s, g, behavior) \in States(G)
         /\ pause_for_session(s, g, behavior).generation = s.generation
<1>1. Off \in Brightness
  BY DEF Full, Brightness, Off
<1> QED
  BY <1>1, Zenon DEF States, pause_for_session, update_for_generation

\* The generation of the task is one that was begun.
LEMMA PowerStep ==
  ASSUME PowerType, StopIsWithinBound, [Next]_vars
  PROVE  PowerType' /\ StopIsWithinBound'
<1> USE DevicesAreApart, BoundIsNatural DEF task, user, worker, loop, frame, outputs,
        PowerType, StopIsWithinBound, TaskGoto, UserGoto, CanBegin
<1>0. /\ power.generation \in 0 .. MaxTransitions + 1 /\ 0 .. MaxTransitions + 1 \in SUBSET Nat
      /\ "Static" \in Behaviors /\ "Release" \in Behaviors /\ Full \in Brightness
  BY DEF States, Behaviors, Brightness, Full, Off
<1>1. CASE IgnoredEvent
  BY <1>1, Zenon DEF IgnoredEvent
<1>2. CASE \/ EnsureAwake \/ LookBeforeWake \/ TaskScan \/ DecideRelease
          \/ (\E d \in Devices : TaskRelease(d))
  BY <1>2, Zenon DEF EnsureAwake, LookBeforeWake, TaskScan, DecideRelease, TaskRelease
<1>3. CASE \/ ResumeOutput \/ ListNetworkDevices \/ UserWrite \/ UserPublish
          \/ UserPauseLoop \/ UserDropped \/ (\E d \in Devices : UserRelease(d))
  BY <1>3, Zenon DEF ResumeOutput, ListNetworkDevices, UserWrite, UserPublish, UserPauseLoop,
     UserDropped, UserRelease
<1>4. CASE \/ ReconcileStaticHold \/ WorkerWrite \/ WorkerPublish
          \/ (\E scope \in Scopes : RunScan(scope))
  BY <1>4, Zenon DEF ReconcileStaticHold, WorkerWrite, WorkerPublish, RunScan
<1>5. CASE \/ Tick \/ Park \/ Unpark \/ Snapshot \/ FrameWrite \/ FramePublish
          \/ Recheck \/ ForceWrite \/ ForcePublish \/ ClearPublish \/ UNCHANGED vars
  BY <1>5, Zenon DEF vars, Tick, Park, Unpark, Snapshot, FrameWrite, FramePublish, Recheck,
     ForceWrite, ForcePublish, ClearPublish
<1>6. CASE \E kind \in Sleeps \cup Wakes : SessionEvent(kind)
  BY <1>6, <1>0, RequestUpdates DEF SessionEvent
<1>7. CASE PauseRequest
  BY <1>7, <1>0, RequestUpdates DEF PauseRequest
<1>8. CASE RunRequest
  BY <1>8, <1>0, RequestUpdates DEF RunRequest
<1>9. CASE StopRequest
  BY <1>9, <1>0 DEF StopRequest
<1>10. CASE ClearSessionSleep
  BY <1>10, <1>0, ClearUpdate, Zenon DEF ClearSessionSleep
<1>11. CASE Fade
  BY <1>11, <1>0, FadeUpdate DEF Fade
<1>12. CASE PauseForSession
  <2>1. PICK behavior \in Behaviors : power' = pause_for_session(power, task_gen, behavior)
    BY <1>12, <1>0, Zenon DEF PauseForSession
  <2>2. UNCHANGED <<task_gen, user_pc>>
    BY <1>12, Zenon DEF PauseForSession
  <2>3. power' \in States(0 .. MaxTransitions + 1) /\ power'.generation = power.generation
    BY <2>1, <1>0, PauseUpdate
  <2> QED
    BY <2>2, <2>3, Zenon
<1>13. CASE StopOutput
  BY <1>13, <1>0, RequestUpdates DEF StopOutput
<1> QED
  BY <1>1, <1>2, <1>3, <1>4, <1>5, <1>6, <1>7, <1>8, <1>9, <1>10, <1>11, <1>12, <1>13,
     Zenon DEF Next, TaskStep, UserStep, WorkerStep, FrameStep

\* The flags stay flags.
LEMMA FlagStep ==
  ASSUME Flags, [Next]_vars
  PROVE  Flags'
<1> USE DevicesAreApart, BoundIsNatural DEF task, user, worker, loop, frame, outputs,
        Flags, FrameGoto
<1>1. CASE \/ (\E kind \in Sleeps \cup Wakes : SessionEvent(kind)) \/ IgnoredEvent
          \/ PauseRequest \/ RunRequest
  BY <1>1, Zenon DEF SessionEvent, IgnoredEvent, PauseRequest, RunRequest
<1>2. CASE \/ EnsureAwake \/ LookBeforeWake \/ ClearSessionSleep \/ Fade
          \/ PauseForSession \/ DecideRelease \/ (\E d \in Devices : TaskRelease(d))
  BY <1>2, Zenon DEF EnsureAwake, LookBeforeWake, ClearSessionSleep, Fade, PauseForSession,
     DecideRelease, TaskRelease
<1>3. CASE \/ StopOutput \/ ListNetworkDevices \/ UserWrite \/ UserPublish
          \/ UserDropped \/ (\E d \in Devices : UserRelease(d))
  BY <1>3, Zenon DEF StopOutput, ListNetworkDevices, UserWrite, UserPublish, UserDropped,
     UserRelease
<1>4. CASE \/ WorkerWrite \/ WorkerPublish
  BY <1>4, Zenon DEF WorkerWrite, WorkerPublish
<1>5. CASE \/ Tick \/ FrameWrite \/ FramePublish \/ Recheck \/ ForceWrite
          \/ UNCHANGED vars
  BY <1>5, Zenon DEF vars, Tick, FrameWrite, FramePublish, Recheck, ForceWrite
<1>6. CASE StopRequest
  BY <1>6, Zenon DEF StopRequest, PauseLoop
<1>7. CASE TaskScan
  <2>1. \/ \E scope \in Scopes : Reconnect(scope)
        \/ UNCHANGED <<connects, link, shown>>
    BY <1>7, Zenon DEF TaskScan, Scopes
  <2>2. UNCHANGED <<loop, frame>>
    BY <1>7, Zenon DEF TaskScan
  <2>3. CASE UNCHANGED <<connects, link, shown>>
    BY <2>2, <2>3, Zenon
  <2>4. ASSUME NEW scope \in Scopes, Reconnect(scope) PROVE Flags'
    BY <2>2, <2>4, Zenon DEF Reconnect
  <2> QED
    BY <2>1, <2>3, <2>4, Zenon
<1>8. CASE ResumeOutput
  BY <1>8, Zenon DEF ResumeOutput, ResumeLoop
<1>9. CASE UserPauseLoop
  BY <1>9, Zenon DEF UserPauseLoop, PauseLoop
<1>10. CASE ReconcileStaticHold
  BY <1>10, Zenon DEF ReconcileStaticHold
<1>11. CASE \E scope \in Scopes : RunScan(scope)
  BY <1>11, Zenon DEF RunScan, Reconnect
<1>12. CASE Park
  BY <1>12, Zenon DEF Park, ParkLoop
<1>13. CASE Unpark
  BY <1>13, Zenon DEF Unpark, UnparkLoop
<1>14. CASE Snapshot
  BY <1>14, Zenon DEF Snapshot
<1>15. CASE ForcePublish
  BY <1>15, Zenon DEF ForcePublish
<1>16. CASE ClearPublish
  BY <1>16, Zenon DEF ClearPublish
<1> QED
  BY <1>1, <1>2, <1>3, <1>4, <1>5, <1>6, <1>7, <1>8, <1>9, <1>10, <1>11, <1>12, <1>13, <1>14,
     <1>15, <1>16, Zenon DEF Next, TaskStep, UserStep, WorkerStep, FrameStep

\* Everything else keeps its type.
LEMMA PlaceStep ==
  ASSUME Places, [Next]_vars
  PROVE  Places'
<1> USE DevicesAreApart, BoundIsNatural DEF task, user, worker, loop, frame, outputs,
        Places, Sleeps, Wakes, Scopes, TaskPcs, UserPcs, FramePcs, TaskGoto, UserGoto,
        FrameGoto
<1>1. CASE UNCHANGED vars
  BY <1>1 DEF vars
<1>2. CASE \E kind \in Sleeps \cup Wakes : SessionEvent(kind)
  BY <1>2 DEF SessionEvent
<1>3. CASE IgnoredEvent
  BY <1>3 DEF IgnoredEvent
<1>4. CASE PauseRequest
  BY <1>4 DEF PauseRequest, reconnect_scope
<1>5. CASE RunRequest
  BY <1>5 DEF RunRequest, reconnect_scope
<1>6. CASE StopRequest
  BY <1>6 DEF StopRequest, PauseLoop
<1>7. CASE EnsureAwake
  BY <1>7 DEF EnsureAwake
<1>8. CASE LookBeforeWake
  BY <1>8 DEF LookBeforeWake
<1>9. CASE TaskScan
  <2>1. \/ \E scope \in Scopes : Reconnect(scope) /\ UNCHANGED scans
        \/ \E scope \in Scopes : scans' = scans \cup {scope} /\ UNCHANGED <<link, shown>>
    BY <1>9, Zenon DEF TaskScan, Scopes
  <2>2. UNCHANGED <<newest, user, worker_pc, loop_state, frame_pc, lane>> /\ TaskGoto("clear")
    BY <1>9, Zenon DEF TaskScan
  <2>3. ASSUME NEW scope \in Scopes, Reconnect(scope), UNCHANGED scans PROVE Places'
    BY <2>2, <2>3 DEF Reconnect
  <2>4. ASSUME NEW scope \in Scopes, scans' = scans \cup {scope}, UNCHANGED <<link, shown>>
        PROVE  Places'
    BY <2>2, <2>4
  <2> QED
    BY <2>1, <2>3, <2>4, Zenon
<1>10. CASE ClearSessionSleep
  BY <1>10 DEF ClearSessionSleep
<1>11. CASE Fade
  BY <1>11 DEF Fade
<1>12. CASE PauseForSession
  BY <1>12 DEF PauseForSession
<1>13. CASE DecideRelease
  BY <1>13 DEF DecideRelease, Connected
<1>14. CASE \E d \in Devices : TaskRelease(d)
  BY <1>14 DEF TaskRelease, ReleaseDevice
<1>15. CASE ResumeOutput
  BY <1>15 DEF ResumeOutput, ResumeLoop
<1>16. CASE StopOutput
  BY <1>16 DEF StopOutput
<1>17. CASE ListNetworkDevices
  BY <1>17 DEF ListNetworkDevices
<1>18. CASE UserWrite
  BY <1>18 DEF UserWrite, Write
<1>19. CASE UserPublish
  BY <1>19 DEF UserPublish
<1>20. CASE UserPauseLoop
  BY <1>20 DEF UserPauseLoop, PauseLoop
<1>21. CASE \E d \in Devices : UserRelease(d)
  BY <1>21 DEF UserRelease, ReleaseDevice
<1>22. CASE ReconcileStaticHold
  BY <1>22 DEF ReconcileStaticHold
<1>23. CASE WorkerWrite
  BY <1>23 DEF WorkerWrite, Write
<1>24. CASE WorkerPublish
  BY <1>24 DEF WorkerPublish
<1>25. CASE \E scope \in Scopes : RunScan(scope)
  BY <1>25 DEF RunScan, Reconnect
<1>26. CASE Tick
  BY <1>26 DEF Tick
<1>27. CASE Park
  BY <1>27 DEF Park, ParkLoop
<1>28. CASE Unpark
  BY <1>28 DEF Unpark, UnparkLoop
<1>29. CASE Snapshot
  BY <1>29 DEF Snapshot
<1>30. CASE FrameWrite
  <2>1. UNCHANGED <<newest, task, user, worker, loop, link, lane, scans>> /\ frame_pc' \in FramePcs
    BY <1>30 DEF FrameWrite
  <2>2. CASE Write(Zoned, "static")
    BY <2>1, <2>2 DEF Write
  <2>3. ASSUME NEW unassigned \in Unassigned, WriteLive(unassigned) PROVE Places'
    <3>1. \A d \in Devices :
            LivePicture(d, unassigned) \in {"native", "static", "black", "live"}
      BY ZonesAreOfDevices DEF LivePicture
    <3> QED
      BY <2>1, <2>3, <3>1 DEF WriteLive
  <2> QED
    BY <1>30, <2>2, <2>3 DEF FrameWrite
<1>31. CASE FramePublish
  BY <1>31 DEF FramePublish
<1>32. CASE Recheck
  BY <1>32 DEF Recheck
<1>33. CASE ForceWrite
  BY <1>33 DEF ForceWrite, Write
<1>34. CASE ForcePublish
  BY <1>34 DEF ForcePublish
<1>35. CASE ClearPublish
  BY <1>35 DEF ClearPublish
<1>36. CASE UserDropped
  BY <1>36 DEF UserDropped
<1> QED
  BY <1>1, <1>2, <1>3, <1>4, <1>5, <1>6, <1>7, <1>8, <1>9, <1>10, <1>11, <1>12, <1>13, <1>14,
     <1>15, <1>16, <1>17, <1>18, <1>19, <1>20, <1>21, <1>22, <1>23, <1>24, <1>25, <1>26, <1>27,
     <1>28, <1>29, <1>30, <1>31, <1>32, <1>33, <1>34, <1>35, <1>36, Zenon DEF Next, TaskStep,
     UserStep, WorkerStep, FrameStep

\* Together: every step keeps the type invariant.
LEMMA TypeStep ==
  ASSUME TypeOK, StopIsWithinBound, [Next]_vars
  PROVE  TypeOK' /\ StopIsWithinBound'
<1>1. PowerType /\ Flags /\ Places
  BY Zenon DEF TypeOK, PowerType, Flags, Places
<1>2. PowerType' /\ StopIsWithinBound' /\ Flags' /\ Places'
  BY <1>1, PowerStep, FlagStep, PlaceStep, Zenon
<1> QED
  BY <1>2, Zenon DEF TypeOK, PowerType, Flags, Places

\* A transition that was overtaken changes nothing, and the newest one leaves what
\* it is for.
LEMMA SessionStep ==
  ASSUME TypeOK, Fenced, Reached, NewestRequestWins, [Next]_vars
  PROVE  Fenced' /\ Reached' /\ NewestRequestWins'
<1> USE DevicesAreApart, BoundIsNatural DEF task, user, worker, loop, frame, outputs,
        TypeOK, Fenced, Reached, NewestRequestWins, States, Overrides, Behaviors, Brightness,
        Off, Dimmed, Full, Sleeps, Wakes, TaskPcs, TaskGoto, sleeping
<1>1. CASE StopRequest
  BY <1>1, Zenon DEF StopRequest
<1>2. CASE \/ ResumeOutput \/ ListNetworkDevices \/ UserWrite \/ UserPublish
          \/ UserPauseLoop \/ UserDropped \/ (\E d \in Devices : UserRelease(d))
  BY <1>2 DEF ResumeOutput, ListNetworkDevices, UserWrite, UserPublish, UserPauseLoop,
     UserDropped, UserRelease
<1>3. CASE \/ ReconcileStaticHold \/ WorkerWrite \/ WorkerPublish
          \/ (\E scope \in Scopes : RunScan(scope))
  BY <1>3 DEF ReconcileStaticHold, WorkerWrite, WorkerPublish, RunScan
<1>4. CASE \/ Tick \/ Park \/ Unpark \/ Snapshot \/ FrameWrite \/ FramePublish
          \/ Recheck \/ ForceWrite \/ ForcePublish \/ ClearPublish \/ UNCHANGED vars
  BY <1>4 DEF vars, Tick, Park, Unpark, Snapshot, FrameWrite, FramePublish, Recheck,
     ForceWrite, ForcePublish, ClearPublish
<1>5. CASE \E kind \in Sleeps \cup Wakes : SessionEvent(kind)
  BY <1>5, Zenon DEF SessionEvent, begin_session_transition
<1>6. CASE IgnoredEvent
  BY <1>6, Zenon DEF IgnoredEvent
<1>7. CASE PauseRequest
  BY <1>7 DEF PauseRequest, set_manual_pause
<1>8. CASE RunRequest
  BY <1>8 DEF RunRequest, clear_output_override
<1>9. CASE EnsureAwake
  BY <1>9, Zenon DEF EnsureAwake
<1>10. CASE LookBeforeWake
  BY <1>10, Zenon DEF LookBeforeWake
<1>11. CASE TaskScan
  BY <1>11, Zenon DEF TaskScan
<1>12. CASE ClearSessionSleep
  BY <1>12, Zenon DEF ClearSessionSleep, clear_session_sleep, update_for_generation
<1>13. CASE Fade
  BY <1>13 DEF Fade, fade_session_to, update_for_generation, FadeTarget
<1>14. CASE PauseForSession
  BY <1>14, Zenon DEF PauseForSession, pause_for_session, update_for_generation
<1>15. CASE DecideRelease
  BY <1>15, Zenon DEF DecideRelease
<1>16. CASE \E d \in Devices : TaskRelease(d)
  BY <1>16 DEF TaskRelease
<1>17. CASE StopOutput
  BY <1>17 DEF StopOutput, set_output_stopped
<1> QED
  BY <1>1, <1>2, <1>3, <1>4, <1>5, <1>6, <1>7, <1>8, <1>9, <1>10, <1>11, <1>12, <1>13, <1>14,
     <1>15, <1>16, <1>17, Zenon DEF Next, TaskStep, UserStep, WorkerStep, FrameStep

\* A command holds the transition mutex, so that nobody changes the override or
\* the state of the loop before it is done.
LEMMA CommandStep ==
  ASSUME TypeOK, Commands, LoopFollowsPower, [Next]_vars
  PROVE  Commands' /\ LoopFollowsPower'
<1> USE DevicesAreApart, BoundIsNatural DEF task, user, worker, loop, frame, outputs,
        TypeOK, Commands, LoopFollowsPower, States, Overrides, UserPcs, UserGoto, GuardFree
<1>1. CASE IgnoredEvent
  BY <1>1, Zenon DEF IgnoredEvent
<1>2. CASE \/ EnsureAwake \/ LookBeforeWake \/ TaskScan \/ DecideRelease
          \/ (\E d \in Devices : TaskRelease(d))
  BY <1>2 DEF EnsureAwake, LookBeforeWake, TaskScan, DecideRelease, TaskRelease
<1>3. CASE \/ ReconcileStaticHold \/ WorkerWrite \/ WorkerPublish
          \/ (\E scope \in Scopes : RunScan(scope))
  BY <1>3 DEF ReconcileStaticHold, WorkerWrite, WorkerPublish, RunScan
<1>4. CASE \/ Tick \/ Snapshot \/ FrameWrite \/ FramePublish \/ Recheck \/ ForceWrite
          \/ ForcePublish \/ ClearPublish \/ UNCHANGED vars
  BY <1>4 DEF vars, Tick, Snapshot, FrameWrite, FramePublish, Recheck, ForceWrite,
     ForcePublish, ClearPublish
<1>5. CASE \E kind \in Sleeps \cup Wakes : SessionEvent(kind)
  BY <1>5 DEF SessionEvent, begin_session_transition
<1>6. CASE PauseRequest
  BY <1>6, Zenon DEF PauseRequest, set_manual_pause
<1>7. CASE RunRequest
  BY <1>7, Zenon DEF RunRequest, clear_output_override
<1>8. CASE StopRequest
  BY <1>8, Zenon DEF StopRequest, PauseLoop
<1>9. CASE ClearSessionSleep
  BY <1>9, Zenon DEF ClearSessionSleep, clear_session_sleep, update_for_generation
<1>10. CASE Fade
  BY <1>10 DEF Fade, fade_session_to, update_for_generation
<1>11. CASE PauseForSession
  BY <1>11, Zenon DEF PauseForSession, pause_for_session, update_for_generation
<1>12. CASE ResumeOutput
  BY <1>12, Zenon DEF ResumeOutput, ResumeLoop
<1>13. CASE StopOutput
  BY <1>13, Zenon DEF StopOutput, set_output_stopped
<1>14. CASE ListNetworkDevices
  BY <1>14, Zenon DEF ListNetworkDevices
<1>15. CASE UserWrite
  BY <1>15, Zenon DEF UserWrite
<1>16. CASE UserPublish
  BY <1>16, Zenon DEF UserPublish
<1>17. CASE UserPauseLoop
  BY <1>17, Zenon DEF UserPauseLoop, PauseLoop
<1>18. CASE \E d \in Devices : UserRelease(d)
  BY <1>18, Zenon DEF UserRelease
<1>19. CASE Park
  BY <1>19, Zenon DEF Park, ParkLoop
<1>20. CASE Unpark
  BY <1>20, Zenon DEF Unpark, UnparkLoop
<1>21. CASE UserDropped
  BY <1>21, Zenon DEF UserDropped
<1> QED
  BY <1>1, <1>2, <1>3, <1>4, <1>5, <1>6, <1>7, <1>8, <1>9, <1>10, <1>11, <1>12, <1>13, <1>14,
     <1>15, <1>16, <1>17, <1>18, <1>19, <1>20, <1>21, Zenon DEF Next, TaskStep, UserStep,
     WorkerStep, FrameStep

\* The two reasons to hold the render clock come and go in any order.
LEMMA HeldStep ==
  ASSUME TypeOK, HeldWhilePausedOrParked, [Next]_vars
  PROVE  HeldWhilePausedOrParked'
<1> USE DevicesAreApart, BoundIsNatural DEF task, user, worker, loop, frame, outputs,
        TypeOK, HeldWhilePausedOrParked
<1>1. CASE \/ (\E kind \in Sleeps \cup Wakes : SessionEvent(kind)) \/ IgnoredEvent
          \/ PauseRequest \/ RunRequest
  BY <1>1 DEF SessionEvent, IgnoredEvent, PauseRequest, RunRequest
<1>2. CASE \/ EnsureAwake \/ LookBeforeWake \/ TaskScan \/ ClearSessionSleep \/ Fade
          \/ PauseForSession \/ DecideRelease \/ (\E d \in Devices : TaskRelease(d))
  BY <1>2 DEF EnsureAwake, LookBeforeWake, TaskScan, ClearSessionSleep, Fade,
     PauseForSession, DecideRelease, TaskRelease
<1>3. CASE \/ StopOutput \/ ListNetworkDevices \/ UserWrite \/ UserPublish
          \/ UserDropped \/ (\E d \in Devices : UserRelease(d))
  BY <1>3 DEF StopOutput, ListNetworkDevices, UserWrite, UserPublish, UserDropped,
     UserRelease
<1>4. CASE \/ ReconcileStaticHold \/ WorkerWrite \/ WorkerPublish
          \/ (\E scope \in Scopes : RunScan(scope))
  BY <1>4 DEF ReconcileStaticHold, WorkerWrite, WorkerPublish, RunScan
<1>5. CASE \/ Tick \/ Snapshot \/ FrameWrite \/ FramePublish \/ Recheck \/ ForceWrite
          \/ ForcePublish \/ ClearPublish \/ UNCHANGED vars
  BY <1>5 DEF vars, Tick, Snapshot, FrameWrite, FramePublish, Recheck, ForceWrite,
     ForcePublish, ClearPublish
<1>6. CASE StopRequest
  BY <1>6, Zenon DEF StopRequest, PauseLoop
<1>7. CASE ResumeOutput
  BY <1>7, Zenon DEF ResumeOutput, ResumeLoop
<1>8. CASE UserPauseLoop
  BY <1>8, Zenon DEF UserPauseLoop, PauseLoop
<1>9. CASE Park
  BY <1>9, Zenon DEF Park, ParkLoop
<1>10. CASE Unpark
  BY <1>10, Zenon DEF Unpark, UnparkLoop
<1> QED
  BY <1>1, <1>2, <1>3, <1>4, <1>5, <1>6, <1>7, <1>8, <1>9, <1>10, Zenon DEF Next, TaskStep,
     UserStep, WorkerStep, FrameStep

\* Live pictures under a hold: none is written, and one that is published is
\* followed by another look at the power state.
LEMMA HoldStep ==
  ASSUME TypeOK, Commands, HoldWritten, HoldRepeated, [Next]_vars
  PROVE  HoldWritten' /\ HoldRepeated'
<1> USE DevicesAreApart, BoundIsNatural DEF task, user, worker, loop, frame, outputs,
        TypeOK, Commands, Unwritten, HoldWritten, HoldRepeated, States, Overrides, Connected, UserPcs,
        FramePcs, UserGoto, FrameGoto, TaskGoto, GuardFree
<1>1. CASE IgnoredEvent
  BY <1>1, Zenon DEF IgnoredEvent
<1>2. CASE \/ EnsureAwake \/ LookBeforeWake \/ DecideRelease \/ UNCHANGED vars
  BY <1>2, Zenon DEF vars, EnsureAwake, LookBeforeWake, DecideRelease
<1>3. CASE \E kind \in Sleeps \cup Wakes : SessionEvent(kind)
  BY <1>3 DEF SessionEvent, begin_session_transition
<1>4. CASE PauseRequest
  BY <1>4, Zenon DEF PauseRequest, set_manual_pause
<1>5. CASE RunRequest
  BY <1>5, Zenon DEF RunRequest, clear_output_override
<1>6. CASE StopRequest
  BY <1>6, Zenon DEF StopRequest
<1>7. CASE TaskScan
  <2>1. \/ \E scope \in Scopes : Reconnect(scope)
        \/ UNCHANGED <<connects, link, shown>>
    BY <1>7, Zenon DEF TaskScan, Scopes
  <2>2. UNCHANGED <<power, user, worker_pc, frame, lane>>
    BY <1>7, Zenon DEF TaskScan
  <2>3. CASE UNCHANGED <<connects, link, shown>>
    BY <2>2, <2>3, Zenon
  <2>4. ASSUME NEW scope \in Scopes, Reconnect(scope) PROVE HoldWritten' /\ HoldRepeated'
    BY <2>2, <2>4 DEF Reconnect
  <2> QED
    BY <2>1, <2>3, <2>4, Zenon
<1>8. CASE ClearSessionSleep
  BY <1>8, Zenon DEF ClearSessionSleep, clear_session_sleep, update_for_generation
<1>9. CASE Fade
  BY <1>9, Zenon DEF Fade, fade_session_to, update_for_generation
<1>10. CASE PauseForSession
  BY <1>10, Zenon DEF PauseForSession, pause_for_session, update_for_generation
<1>11. CASE \E d \in Devices : TaskRelease(d)
  BY <1>11 DEF TaskRelease, ReleaseDevice
<1>12. CASE ResumeOutput
  BY <1>12, Zenon DEF ResumeOutput
<1>13. CASE StopOutput
  BY <1>13, Zenon DEF StopOutput, set_output_stopped
<1>14. CASE ListNetworkDevices
  BY <1>14, Zenon DEF ListNetworkDevices
<1>15. CASE UserWrite
  BY <1>15, Zenon DEF UserWrite, Write
<1>16. CASE UserPublish
  BY <1>16, Zenon DEF UserPublish
<1>17. CASE UserPauseLoop
  BY <1>17, Zenon DEF UserPauseLoop
<1>18. CASE \E d \in Devices : UserRelease(d)
  BY <1>18, Zenon DEF UserRelease, ReleaseDevice
<1>19. CASE ReconcileStaticHold
  BY <1>19, Zenon DEF ReconcileStaticHold, sleeping, effective_behavior
<1>20. CASE WorkerWrite
  BY <1>20, Zenon DEF WorkerWrite, Write
<1>21. CASE WorkerPublish
  BY <1>21, Zenon DEF WorkerPublish
<1>22. CASE \E scope \in Scopes : RunScan(scope)
  <2>1. PICK scope \in Scopes : Reconnect(scope)
    BY <1>22, Zenon DEF RunScan
  <2>2. UNCHANGED <<power, user, worker_pc, frame, lane>>
    BY <1>22, Zenon DEF RunScan
  <2> QED
    BY <2>1, <2>2, Zenon DEF Reconnect
<1>23. CASE Tick
  BY <1>23, Zenon DEF Tick
<1>24. CASE Park
  BY <1>24, Zenon DEF Park
<1>25. CASE Unpark
  BY <1>25, Zenon DEF Unpark
<1>26. CASE Snapshot
  BY <1>26, Zenon DEF Snapshot
<1>27. CASE FrameWrite
  BY <1>27, Zenon DEF FrameWrite, Write, WriteLive, LivePicture, LateHold, sleeping, effective_behavior
<1>28. CASE FramePublish
  BY <1>28, Zenon DEF FramePublish
<1>29. CASE Recheck
  BY <1>29, Zenon DEF Recheck, LateHold, sleeping, effective_behavior
<1>30. CASE ForceWrite
  BY <1>30, Zenon DEF ForceWrite, Write
<1>31. CASE ForcePublish
  BY <1>31, Zenon DEF ForcePublish
<1>32. CASE ClearPublish
  BY <1>32, Zenon DEF ClearPublish
<1>33. CASE UserDropped
  BY <1>33, Zenon DEF UserDropped
<1> QED
  BY <1>1, <1>2, <1>3, <1>4, <1>5, <1>6, <1>7, <1>8, <1>9, <1>10, <1>11, <1>12, <1>13, <1>14,
     <1>15, <1>16, <1>17, <1>18, <1>19, <1>20, <1>21, <1>22, <1>23, <1>24, <1>25, <1>26, <1>27,
     <1>28, <1>29, <1>30, <1>31, <1>32, <1>33, Zenon DEF Next, TaskStep, UserStep, WorkerStep,
     FrameStep

\* At the start nothing is connected and no request was made.
LEMMA InitIInv == Init => IInv
<1> USE BoundIsNatural DEF Init, Restored
<1>1. Init => TypeOK
  <2> SUFFICES ASSUME Init PROVE TypeOK
    BY Zenon
  <2>1. Flags
    BY Zenon DEF Flags
  <2>2. Full \in Brightness /\ "Static" \in Behaviors /\ 0 \in 0 .. MaxTransitions + 1
    BY DEF Full, Off, Brightness, Behaviors
  <2>3. \A override \in Overrides : Restored(override) \in States(0 .. MaxTransitions + 1)
    BY <2>2, Zenon DEF States, Restored
  <2>4. PowerType
    BY <2>3 DEF PowerType
  <2>5. Places
    BY Zenon DEF Places, Sleeps, Wakes, Scopes, TaskPcs, UserPcs, FramePcs
  <2> QED
    BY <2>1, <2>4, <2>5, Zenon DEF TypeOK, Flags, PowerType, Places
<1>2. Init => StopIsWithinBound /\ Fenced /\ Reached /\ NewestRequestWins
  BY Zenon DEF StopIsWithinBound, Fenced, Reached, NewestRequestWins, Sleeps, Wakes
<1>3. Init => Commands /\ LoopFollowsPower
  BY DEF Commands, LoopFollowsPower, Overrides
<1>4. Init => HeldWhilePausedOrParked
  BY Zenon DEF HeldWhilePausedOrParked
<1>5. Init => HoldWritten /\ HoldRepeated
  BY Zenon DEF Unwritten, HoldWritten, HoldRepeated, Connected
<1> QED
  BY <1>1, <1>2, <1>3, <1>4, <1>5, Zenon DEF IInv

\* The inductive invariant holds in every reachable state.
THEOREM Invariance == Spec => []IInv
<1>1. ASSUME IInv, [Next]_vars PROVE IInv'
  BY <1>1, TypeStep, SessionStep, CommandStep, HeldStep, HoldStep, Zenon DEF IInv
<1> QED
  BY <1>1, InitIInv, PTL DEF Spec

\* The newest request decides, for any number of transitions that overlap: the
\* generation fences every older fade, sleep and wake (update_for_generation).
THEOREM NewestWins == Spec => []NewestRequestWins
  BY Invariance, PTL DEF IInv

\* A command that runs to its end leaves the render loop as the override says,
\* also after commands that were dropped half-way (set_power and
\* quiesce_after_effect_stop under the transition mutex).
THEOREM LoopAgrees == Spec => []LoopFollowsPower
  BY Invariance, PTL DEF IInv

\* The render clock is held exactly while the loop is paused or parked
\* (begin_hold, end_hold).
THEOREM ClockIsHeld == Spec => []HeldWhilePausedOrParked
  BY Invariance, PTL DEF IInv

\* A hold that was not dropped has the last word over the frame that was under
\* way: the check under the backend lock and the one after the publication are
\* enough, although the frame repairs the zones of the layout only.
THEOREM HoldComesLast == Spec => []HoldIsLast
<1>1. IInv => HoldIsLast
  BY Zenon DEF IInv, Unwritten, HoldWritten, HoldIsLast
<1> QED
  BY <1>1, Invariance, PTL

\* A pause that was not dropped reaches every device, the ones that connect later
\* and the ones without a zone included (reconcile_static_hold).
THEOREM PauseCovers == Spec => []PauseCoversEveryDevice
<1>1. IInv => PauseCoversEveryDevice
  BY Zenon DEF IInv, Unwritten, HoldRepeated, PauseCoversEveryDevice
<1> QED
  BY <1>1, Invariance, PTL
==============================================================================
