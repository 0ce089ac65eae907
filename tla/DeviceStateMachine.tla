------------------------- MODULE DeviceStateMachine --------------------------
(***************************************************************************)
(* One device's state machine driven by every call its owner can make, in  *)
(* any order (state_machine.rs).  A call the code refuses with             *)
(* InvalidTransition changes nothing, so it is a disabled action here.     *)
(*                                                                         *)
(* `streak` is a history variable that no transition reads.  It counts, by *)
(* what an observer of the calls sees, the reconnects in a row that failed *)
(* again while unproven and the escalations the executor was handed for    *)
(* them.                                                                   *)
(***************************************************************************)
EXTENDS DeviceFsm

CONSTANT MaxFlaps    \* bound on the flap counter (u32, saturating, in the code)

ASSUME MaxFlapsAssumption == MaxFlaps \in Nat /\ MaxFlaps > FlapThreshold

VARIABLES
  fsm,       \* the DeviceStateMachine
  streak     \* [viaReconnect, drops, reports]: the observer's record

vars == <<fsm, streak>>

NoStreak == [viaReconnect |-> FALSE, drops |-> 0, reports |-> 0]

Init == fsm = NewMachine /\ streak = NoStreak

OnConnected ==
  /\ CanConnect(fsm)
  /\ fsm' = Connected(fsm)
  /\ streak' = [streak EXCEPT !.viaReconnect = (fsm.state = "Reconnecting")]

OnConnectFailed ==
  /\ CanConnect(fsm)
  /\ fsm' = ConnectFailed(fsm)
  /\ UNCHANGED streak

OnConnectAbandoned ==
  /\ fsm' = ConnectAbandoned(fsm)
  /\ streak' = NoStreak

OnFrameSuccess ==
  /\ Renderable(fsm.state)
  /\ fsm' = FrameSuccess(fsm)
  /\ UNCHANGED streak

\* What the observer records when a live connection fails.
StreakAfterFault ==
  IF streak.viaReconnect /\ fsm.age # StableAfter
  THEN [streak EXCEPT !.viaReconnect = FALSE, !.drops = @ + 1]
  ELSE NoStreak

OnCommError ==
  /\ Renderable(fsm.state)
  /\ fsm.flaps < MaxFlaps
  /\ fsm' = CommError(fsm)
  /\ streak' = StreakAfterFault

OnReconnectRequested ==
  /\ Renderable(fsm.state)
  /\ fsm' = ReconnectRequested(fsm)
  /\ streak' = IF fsm.age \in {None, StableAfter}
               THEN NoStreak
               ELSE [streak EXCEPT !.viaReconnect = FALSE]

OnReconnectFailed ==
  /\ fsm.reconnect # None
  /\ fsm' = ReconnectFailed(fsm)
  /\ streak' = IF fsm'.state = "Known" THEN NoStreak ELSE streak

OnUserDisable == fsm' = UserDisabled(fsm) /\ streak' = NoStreak

OnUserEnable ==
  /\ fsm.state = "Disabled"
  /\ fsm' = UserEnabled(fsm)
  /\ UNCHANGED streak

OnHotUnplug == fsm' = HotUnplugged(fsm) /\ streak' = NoStreak

\* The executor collects the one-shot report.
TakeFlapEscalation ==
  /\ fsm.escalation
  /\ fsm' = EscalationTaken(fsm)
  /\ streak' = [streak EXCEPT !.reports = @ + 1]

\* Time passes while a connection is up.
Tick ==
  /\ fsm.age # None
  /\ fsm.age < StableAfter
  /\ fsm' = Aged(fsm)
  /\ UNCHANGED streak

Next ==
  \/ OnConnected
  \/ OnConnectFailed
  \/ OnConnectAbandoned
  \/ OnFrameSuccess
  \/ OnCommError
  \/ OnReconnectRequested
  \/ OnReconnectFailed
  \/ OnUserDisable
  \/ OnUserEnable
  \/ OnHotUnplug
  \/ TakeFlapEscalation
  \/ Tick

Spec == Init /\ [][Next]_vars

-----------------------------------------------------------------------------
(* Properties. *)

\* The machine and the observer's record have their types.
TypeOK ==
  /\ fsm \in Machines
  /\ streak \in [viaReconnect : BOOLEAN, drops : Nat, reports : Nat]

\* The optional parts of the machine agree with its state: a reconnect status
\* exists exactly while Reconnecting, and a handle, a connection age or an
\* unproven delay only while Connected or Active, whatever the order of calls.
StatusMatchesState ==
  /\ (fsm.reconnect # None) <=> (fsm.state = "Reconnecting")
  /\ (fsm.handle \/ fsm.age # None \/ fsm.unproven # None) => Renderable(fsm.state)
  /\ fsm.handle <=> (fsm.age # None)
  /\ fsm.state \in {"Known", "Disabled"} => fsm.flaps = 0 /\ ~fsm.escalation

\* The flap counter is the number of reconnects in a row that failed again
\* before they proved stable, as the calls themselves show it.
FlapsCountTheStreak == fsm.flaps = streak.drops

\* take_flap_escalation hands out at most one report per streak, and never for
\* a streak shorter than the threshold; a pending report belongs to a device
\* whose streak just reached the threshold and was not yet reported.
EscalatesOncePerStreak ==
  /\ streak.reports <= 1
  /\ streak.reports = 1 => fsm.flaps >= FlapThreshold
  /\ fsm.escalation => fsm.flaps = FlapThreshold /\ streak.reports = 0

\* The longest delay jitter can produce from the capped backoff.
DelayCeiling == (MaxDelay * (100 + JitterPercent)) \div 100

\* Every retry delay, on probation or scheduled, lies between the floor and the
\* jittered ceiling, and the attempt counter stays below max_attempts.
BackoffBounded ==
  /\ fsm.reconnect # None =>
       /\ fsm.reconnect.nextRetry \in DelayFloor..DelayCeiling
       /\ fsm.reconnect.attempt < MaxAttempts
  /\ fsm.unproven # None => fsm.unproven \in DelayFloor..DelayCeiling

\* The shortest delay jitter can make of the capped backoff.
LowCeiling == (MaxDelay * (100 - JitterPercent)) \div 100

\* A device that fails right after reconnecting, or whose reconnect attempt
\* fails, never waits less than the last time, except for the jitter at the cap.
BackoffNeverShrinks ==
  [][/\ (UnstableReconnect(fsm) /\ fsm'.state = "Reconnecting" /\ fsm'.flaps > fsm.flaps) =>
           fsm'.reconnect.nextRetry >= MinOf(fsm.unproven, LowCeiling)
     /\ (fsm.reconnect # None /\ fsm'.reconnect # None) =>
           fsm'.reconnect.nextRetry >= MinOf(fsm.reconnect.nextRetry, LowCeiling)]_vars
==============================================================================
