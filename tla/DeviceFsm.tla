------------------------------ MODULE DeviceFsm ------------------------------
(***************************************************************************)
(* The per-device connection state machine of hypercolor-core              *)
(* (crates/hypercolor-core/src/device/state_machine.rs), as operators on a *)
(* record.  Every operator takes the machine before a call and gives the   *)
(* machine after it; the calls the code refuses with InvalidTransition     *)
(* have a Can... guard.  DeviceStateMachine gives the machine variables    *)
(* and a next-state relation, LifecycleManager embeds one in every managed *)
(* device.                                                                 *)
(*                                                                         *)
(* Delays are milliseconds, ages are seconds.  Instants are abstracted to  *)
(* the age of the current connection, saturating at StableAfter: the code  *)
(* only ever asks whether a connection is younger than that.  The          *)
(* transition history and last_transition (diagnostics) are left out.      *)
(***************************************************************************)
EXTENDS Integers

CONSTANTS
  InitialDelay,      \* ReconnectPolicy::initial_delay
  MaxDelay,          \* ReconnectPolicy::max_delay
  BackoffFactor,     \* ReconnectPolicy::backoff_factor
  JitterPercent,     \* ReconnectPolicy::jitter, in percent
  MaxAttempts,       \* ReconnectPolicy::max_attempts, when it is Some
  DelayFloor,        \* the 0.1 s lower bound of grow_delay
  StableAfter,       \* RECONNECT_STABLE_AFTER
  FlapThreshold,     \* FLAP_ESCALATION_THRESHOLD
  None               \* Option::None

ReconnectStatuses == [attempt : Nat, nextRetry : Nat]

ASSUME PolicyAssumption ==
  /\ InitialDelay \in Nat /\ MaxDelay \in Nat /\ DelayFloor \in Nat
  /\ DelayFloor <= InitialDelay /\ InitialDelay <= MaxDelay
  /\ BackoffFactor \in Nat \ {0}
  /\ JitterPercent \in 0..99
  /\ MaxAttempts \in Nat \ {0}
  /\ StableAfter \in Nat \ {0}
  /\ FlapThreshold \in Nat \ {0}

ASSUME NoneAssumption == None \notin Int /\ None \notin ReconnectStatuses

States == {"Known", "Connected", "Active", "Reconnecting", "Disabled"}

\* DeviceState::is_renderable
Renderable(state) == state \in {"Connected", "Active"}

(***************************************************************************)
(* The machine: state, whether it holds a DeviceHandle, the reconnect      *)
(* status, and the FlapTracker (age stands for connected_at).              *)
(***************************************************************************)
Machines ==
  [state : States, handle : BOOLEAN, reconnect : ReconnectStatuses \cup {None},
   age : 0..StableAfter \cup {None}, unproven : Nat \cup {None},
   flaps : Nat, escalation : BOOLEAN]

\* FlapTracker::default, applied to a machine.
ClearFlap(m) ==
  [m EXCEPT !.age = None, !.unproven = None, !.flaps = 0, !.escalation = FALSE]

NewMachine ==
  [state |-> "Known", handle |-> FALSE, reconnect |-> None, age |-> None,
   unproven |-> None, flaps |-> 0, escalation |-> FALSE]

\* Drop handle, reconnect status and flap history, and move to `next`.
Reset(m, next) == [ClearFlap(m) EXCEPT !.state = next, !.handle = FALSE, !.reconnect = None]

(***************************************************************************)
(* Backoff.                                                                *)
(***************************************************************************)
MinOf(a, b) == IF a <= b THEN a ELSE b
MaxOf(a, b) == IF a <= b THEN b ELSE a

Jitter(delay, step) ==
  (delay * (IF step % 2 = 0 THEN 100 + JitterPercent ELSE 100 - JitterPercent)) \div 100

GrowDelay(current, step) ==
  MaxOf(Jitter(MinOf(current * BackoffFactor, MaxDelay), step), DelayFloor)

(***************************************************************************)
(* Transitions.                                                            *)
(***************************************************************************)
IsFlapping(m) == m.flaps >= FlapThreshold

CanConnect(m) == m.state \in {"Known", "Reconnecting"}

Connected(m) ==
  [m EXCEPT !.state = "Connected", !.handle = TRUE, !.age = 0, !.reconnect = None,
            !.unproven = IF m.reconnect = None THEN None ELSE m.reconnect.nextRetry]

ConnectFailed(m) ==
  LET fresh == [attempt |-> 0, nextRetry |-> InitialDelay]
  IN  IF m.state = "Known"
      THEN [m EXCEPT !.state = "Reconnecting", !.handle = FALSE, !.reconnect = fresh]
      ELSE [m EXCEPT !.reconnect = IF m.reconnect = None THEN fresh ELSE m.reconnect]

ConnectAbandoned(m) ==
  Reset(m, IF m.state = "Reconnecting" THEN "Known" ELSE m.state)

FrameSuccess(m) == [m EXCEPT !.state = "Active"]

\* The connection ended before it proved stable, and a reconnect produced it.
UnstableReconnect(m) == m.unproven # None /\ m.age # None /\ m.age < StableAfter

\* Variant: the report is raised again on every flap past the threshold.
CommErrorEscalatesAgain(m) ==
  LET flaps == m.flaps + 1
      flapped == [m EXCEPT !.flaps = flaps, !.escalation = (flaps >= FlapThreshold)]
      delay == IF UnstableReconnect(m) THEN GrowDelay(m.unproven, flaps) ELSE InitialDelay
  IN  [(IF UnstableReconnect(m) THEN flapped ELSE ClearFlap(m))
        EXCEPT !.state = "Reconnecting", !.handle = FALSE, !.age = None, !.unproven = None,
               !.reconnect = [attempt |-> 0, nextRetry |-> delay]]

\* Variant: a flapping device starts over from the initial delay.
CommErrorStartsOver(m) ==
  LET flaps == m.flaps + 1
      flapped == [m EXCEPT !.flaps = flaps, !.escalation = (flaps = FlapThreshold)]
  IN  [(IF UnstableReconnect(m) THEN flapped ELSE ClearFlap(m))
        EXCEPT !.state = "Reconnecting", !.handle = FALSE, !.age = None, !.unproven = None,
               !.reconnect = [attempt |-> 0, nextRetry |-> InitialDelay]]

CommError(m) ==
  LET flaps == m.flaps + 1
      flapped == [m EXCEPT !.flaps = flaps, !.escalation = (flaps = FlapThreshold)]
      delay == IF UnstableReconnect(m) THEN GrowDelay(m.unproven, flaps) ELSE InitialDelay
  IN  [(IF UnstableReconnect(m) THEN flapped ELSE ClearFlap(m))
        EXCEPT !.state = "Reconnecting", !.handle = FALSE, !.age = None, !.unproven = None,
               !.reconnect = [attempt |-> 0, nextRetry |-> delay]]

\* Variant: a rebuild does not end a proven streak.
ReconnectRequestedKeepsStreak(m) ==
  [m EXCEPT !.state = "Reconnecting", !.handle = FALSE, !.age = None, !.unproven = None,
            !.escalation = FALSE,
            !.reconnect = [attempt |-> 0, nextRetry |-> InitialDelay]]

\* The driver asked for a rebuild: never a flap, but it ends a proven streak.
ReconnectRequested(m) ==
  LET proved == m.age = None \/ m.age >= StableAfter
  IN  [(IF proved THEN ClearFlap(m) ELSE m)
        EXCEPT !.state = "Reconnecting", !.handle = FALSE, !.age = None, !.unproven = None,
               !.escalation = FALSE,
               !.reconnect = [attempt |-> 0, nextRetry |-> InitialDelay]]

ReconnectFailed(m) ==
  IF m.reconnect = None THEN m
  ELSE LET attempt == m.reconnect.attempt + 1
       IN  IF attempt >= MaxAttempts
           THEN Reset(m, "Known")
           ELSE [m EXCEPT !.reconnect =
                   [attempt |-> attempt,
                    nextRetry |-> GrowDelay(m.reconnect.nextRetry, attempt)]]

UserDisabled(m) == Reset(m, "Disabled")

UserEnabled(m) == IF m.state = "Disabled" THEN [m EXCEPT !.state = "Known"] ELSE m

HotUnplugged(m) == Reset(m, "Known")

EscalationTaken(m) == [m EXCEPT !.escalation = FALSE]

\* One second passes for a live connection.
Aged(m) == IF m.age # None /\ m.age < StableAfter THEN [m EXCEPT !.age = @ + 1] ELSE m
==============================================================================
