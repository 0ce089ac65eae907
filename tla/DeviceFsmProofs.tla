--------------------------- MODULE DeviceFsmProofs ---------------------------
(***************************************************************************)
(* What every transition of DeviceFsm makes of a machine: the result is a  *)
(* machine, and each of its fields.  The proofs about the modules that     *)
(* embed a machine cite these facts instead of expanding the transitions.  *)
(***************************************************************************)
EXTENDS DeviceFsm, TLAPS

(* Backoff arithmetic. *)

\* grow_delay always gives a delay.
LEMMA GrowDelayType ==
  ASSUME NEW current \in Nat, NEW step \in Nat
  PROVE  GrowDelay(current, step) \in Nat
<1> DEFINE base == MinOf(current * BackoffFactor, MaxDelay)
           percent == IF step % 2 = 0 THEN 100 + JitterPercent ELSE 100 - JitterPercent
<1>1. current * BackoffFactor \in Nat
  BY PolicyAssumption
<1>2. base \in Nat
  BY <1>1, PolicyAssumption, Zenon DEF MinOf
<1>3. percent \in Nat
  BY PolicyAssumption
<1>4. base * percent \in Nat
  BY <1>2, <1>3
<1>5. Jitter(base, step) = (base * percent) \div 100
  BY Zenon DEF Jitter
<1>6. Jitter(base, step) \in Nat
  <2> HIDE DEF base, percent
  <2> QED BY <1>4, <1>5
<1>7. GrowDelay(current, step) = MaxOf(Jitter(base, step), DelayFloor)
  BY Zenon DEF GrowDelay
<1> HIDE DEF base, percent
<1> QED
  BY <1>6, <1>7, PolicyAssumption, Zenon DEF MaxOf

-----------------------------------------------------------------------------
(* Transitions. *)

\* FlapTracker::default clears the age, the probation, the count and the flag.
LEMMA ClearFlapMachine ==
  ASSUME NEW m \in Machines
  PROVE  /\ ClearFlap(m) \in Machines
         /\ ClearFlap(m).age = None /\ ClearFlap(m).unproven = None
         /\ ClearFlap(m).flaps = 0 /\ ~ClearFlap(m).escalation
  BY Zenon DEF ClearFlap, Machines

\* What Reset leaves behind: a machine in `next` with nothing else.
LEMMA ResetMachine ==
  ASSUME NEW m \in Machines, NEW next \in States
  PROVE  /\ Reset(m, next) \in Machines
         /\ Reset(m, next).state = next
         /\ ~Reset(m, next).handle
         /\ Reset(m, next).reconnect = None
         /\ Reset(m, next).age = None
         /\ Reset(m, next).unproven = None
         /\ Reset(m, next).flaps = 0
         /\ ~Reset(m, next).escalation
  BY Zenon DEF Reset, ClearFlap, Machines

\* on_connected: live, with a fresh age; on probation iff it was reconnecting.
LEMMA ConnectedMachine ==
  ASSUME NEW m \in Machines
  PROVE  /\ Connected(m) \in Machines
         /\ Connected(m).state = "Connected"
         /\ Connected(m).handle
         /\ Connected(m).reconnect = None
         /\ Connected(m).age = 0
         /\ Connected(m).unproven = IF m.reconnect = None THEN None ELSE m.reconnect.nextRetry
         /\ Connected(m).flaps = m.flaps
         /\ Connected(m).escalation = m.escalation
<1> DEFINE mark == IF m.reconnect = None THEN None ELSE m.reconnect.nextRetry
<1>1. mark \in Nat \cup {None}
  BY Zenon DEF Machines, ReconnectStatuses
<1>2. Connected(m) = [m EXCEPT !.state = "Connected", !.handle = TRUE, !.age = 0,
                               !.reconnect = None, !.unproven = mark]
  BY Zenon DEF Connected
<1> HIDE DEF mark
<1>0. 0 \in 0..StableAfter
  BY PolicyAssumption
<1>3. Connected(m) \in Machines
  BY <1>0, <1>1, <1>2, Zenon DEF Machines, States
<1>4. /\ Connected(m).state = "Connected" /\ Connected(m).handle
      /\ Connected(m).reconnect = None /\ Connected(m).age = 0
      /\ Connected(m).unproven = mark
      /\ Connected(m).flaps = m.flaps /\ Connected(m).escalation = m.escalation
  BY <1>2, Zenon DEF Machines
<1> QED
  BY <1>3, <1>4, Zenon DEF mark

\* on_connect_failed from a state it accepts: Reconnecting, with a status.
LEMMA ConnectFailedMachine ==
  ASSUME NEW m \in Machines, CanConnect(m)
  PROVE  /\ ConnectFailed(m) \in Machines
         /\ ConnectFailed(m).state = "Reconnecting"
         /\ ConnectFailed(m).handle => m.handle /\ m.state = "Reconnecting"
         /\ ConnectFailed(m).reconnect # None
         /\ ConnectFailed(m).age = m.age
         /\ ConnectFailed(m).unproven = m.unproven
         /\ ConnectFailed(m).flaps = m.flaps
         /\ ConnectFailed(m).escalation = m.escalation
<1> DEFINE fresh == [attempt |-> 0, nextRetry |-> InitialDelay]
<1>1. fresh \in ReconnectStatuses /\ fresh # None
  BY PolicyAssumption, NoneAssumption DEF ReconnectStatuses
<1> HIDE DEF fresh
<1>2. CASE m.state = "Known"
  <2>1. ConnectFailed(m) =
          [m EXCEPT !.state = "Reconnecting", !.handle = FALSE, !.reconnect = fresh]
    BY <1>2, Zenon DEF ConnectFailed, fresh
  <2>2. ConnectFailed(m) \in Machines
    BY <1>1, <2>1, Zenon DEF Machines, States
  <2>3. /\ ConnectFailed(m).state = "Reconnecting" /\ ~ConnectFailed(m).handle
        /\ ConnectFailed(m).reconnect = fresh
        /\ ConnectFailed(m).age = m.age /\ ConnectFailed(m).unproven = m.unproven
        /\ ConnectFailed(m).flaps = m.flaps /\ ConnectFailed(m).escalation = m.escalation
    BY <2>1, Zenon DEF Machines
  <2> QED
    BY <1>1, <1>2, <2>2, <2>3, Zenon
<1>3. CASE m.state = "Reconnecting"
  <2>1. ConnectFailed(m) =
          [m EXCEPT !.reconnect = IF m.reconnect = None THEN fresh ELSE m.reconnect]
    BY <1>3, Zenon DEF ConnectFailed, fresh
  <2> QED
    BY <1>1, <1>3, <2>1 DEF Machines, States
<1> QED
  BY <1>2, <1>3, Zenon DEF CanConnect

\* on_connect_abandoned: reset, Reconnecting falling back to Known.
LEMMA ConnectAbandonedMachine ==
  ASSUME NEW m \in Machines
  PROVE  \E next \in States \ {"Reconnecting"} :
           /\ ConnectAbandoned(m) = Reset(m, next)
           /\ next = IF m.state = "Reconnecting" THEN "Known" ELSE m.state
  BY Zenon DEF ConnectAbandoned, Machines, States

\* on_frame_success only moves the state.
LEMMA FrameSuccessMachine ==
  ASSUME NEW m \in Machines
  PROVE  /\ FrameSuccess(m) \in Machines
         /\ FrameSuccess(m) = [m EXCEPT !.state = "Active"]
  BY Zenon DEF FrameSuccess, Machines, States

\* on_comm_error: Reconnecting with nothing live left; a flap is counted iff the
\* connection was on probation.
LEMMA CommErrorMachine ==
  ASSUME NEW m \in Machines
  PROVE  /\ CommError(m) \in Machines
         /\ CommError(m).state = "Reconnecting"
         /\ ~CommError(m).handle
         /\ CommError(m).reconnect # None
         /\ CommError(m).age = None
         /\ CommError(m).unproven = None
         /\ CommError(m).flaps = IF UnstableReconnect(m) THEN m.flaps + 1 ELSE 0
         /\ CommError(m).escalation =>
              UnstableReconnect(m) /\ m.flaps + 1 = FlapThreshold
<1> DEFINE delay == IF UnstableReconnect(m) THEN GrowDelay(m.unproven, m.flaps + 1)
                                             ELSE InitialDelay
           status == [attempt |-> 0, nextRetry |-> delay]
<1>1. delay \in Nat
  <2>1. CASE UnstableReconnect(m)
    <3>1. m.unproven \in Nat /\ m.flaps + 1 \in Nat
      BY <2>1 DEF UnstableReconnect, Machines
    <3> QED
      BY <2>1, <3>1, GrowDelayType, Zenon
  <2> QED
    BY <2>1, PolicyAssumption, Zenon
<1> HIDE DEF delay
<1>2. status \in ReconnectStatuses
  BY <1>1, Zenon DEF ReconnectStatuses
<1> HIDE DEF status
<1>0. status # None
  BY <1>2, NoneAssumption, Zenon
<1>3. CASE UnstableReconnect(m)
  <2>1. CommError(m) =
          [m EXCEPT !.flaps = m.flaps + 1, !.escalation = (m.flaps + 1 = FlapThreshold),
                    !.state = "Reconnecting", !.handle = FALSE, !.age = None,
                    !.unproven = None, !.reconnect = status]
    BY <1>3, Zenon DEF CommError, status, delay
  <2> DEFINE reached == (m.flaps + 1 = FlapThreshold)
  <2>2. reached \in BOOLEAN /\ m.flaps + 1 \in Nat
    BY DEF Machines
  <2> HIDE DEF reached
  <2>3. CommError(m) \in Machines
    BY <1>2, <2>1, <2>2, Zenon DEF Machines, States, reached
  <2>4. /\ CommError(m).state = "Reconnecting" /\ ~CommError(m).handle
        /\ CommError(m).reconnect = status
        /\ CommError(m).age = None /\ CommError(m).unproven = None
        /\ CommError(m).flaps = m.flaps + 1
        /\ CommError(m).escalation = reached
    BY <2>1, Zenon DEF Machines, reached
  <2> QED
    BY <1>0, <1>3, <2>3, <2>4, Zenon DEF reached
<1>4. CASE ~UnstableReconnect(m)
  <2>1. CommError(m) =
          [ClearFlap(m) EXCEPT !.state = "Reconnecting", !.handle = FALSE, !.age = None,
                               !.unproven = None, !.reconnect = status]
    BY <1>4, Zenon DEF CommError, status, delay
  <2> HIDE DEF status
  <2>2. CommError(m) \in Machines
    BY <1>2, <2>1, ClearFlapMachine, Zenon DEF Machines, States
  <2>3. /\ CommError(m).state = "Reconnecting" /\ ~CommError(m).handle
        /\ CommError(m).reconnect = status
        /\ CommError(m).age = None /\ CommError(m).unproven = None
        /\ CommError(m).flaps = 0 /\ ~CommError(m).escalation
    BY <2>1, ClearFlapMachine, Zenon DEF Machines
  <2> QED
    BY <1>0, <1>4, <2>2, <2>3, Zenon
<1> QED
  BY <1>3, <1>4, Zenon

\* on_reconnect_requested: Reconnecting, the streak kept unless it was proven.
LEMMA ReconnectRequestedMachine ==
  ASSUME NEW m \in Machines
  PROVE  /\ ReconnectRequested(m) \in Machines
         /\ ReconnectRequested(m).state = "Reconnecting"
         /\ ~ReconnectRequested(m).handle
         /\ ReconnectRequested(m).reconnect # None
         /\ ReconnectRequested(m).age = None
         /\ ReconnectRequested(m).unproven = None
         /\ ReconnectRequested(m).flaps =
              IF m.age = None \/ m.age >= StableAfter THEN 0 ELSE m.flaps
         /\ ~ReconnectRequested(m).escalation
<1> DEFINE fresh == [attempt |-> 0, nextRetry |-> InitialDelay]
           proved == m.age = None \/ m.age >= StableAfter
<1>1. fresh \in ReconnectStatuses /\ fresh # None
  BY PolicyAssumption, NoneAssumption DEF ReconnectStatuses
<1>2. ReconnectRequested(m) =
        [(IF proved THEN ClearFlap(m) ELSE m)
           EXCEPT !.state = "Reconnecting", !.handle = FALSE, !.age = None,
                  !.unproven = None, !.escalation = FALSE, !.reconnect = fresh]
  BY Zenon DEF ReconnectRequested
<1> HIDE DEF fresh
<1>3. CASE proved
  <2>1. ReconnectRequested(m) =
          [ClearFlap(m) EXCEPT !.state = "Reconnecting", !.handle = FALSE, !.age = None,
                               !.unproven = None, !.escalation = FALSE, !.reconnect = fresh]
    BY <1>2, <1>3, Zenon
  <2>2. ReconnectRequested(m) \in Machines
    BY <1>1, <2>1, ClearFlapMachine, Zenon DEF Machines, States
  <2>3. /\ ReconnectRequested(m).state = "Reconnecting" /\ ~ReconnectRequested(m).handle
        /\ ReconnectRequested(m).reconnect = fresh
        /\ ReconnectRequested(m).age = None /\ ReconnectRequested(m).unproven = None
        /\ ReconnectRequested(m).flaps = 0 /\ ~ReconnectRequested(m).escalation
    BY <2>1, ClearFlapMachine, Zenon DEF Machines
  <2> QED
    BY <1>1, <1>3, <2>2, <2>3, Zenon
<1>4. CASE ~proved
  <2>1. ReconnectRequested(m) =
          [m EXCEPT !.state = "Reconnecting", !.handle = FALSE, !.age = None,
                    !.unproven = None, !.escalation = FALSE, !.reconnect = fresh]
    BY <1>2, <1>4, Zenon
  <2>2. ReconnectRequested(m) \in Machines
    BY <1>1, <2>1, Zenon DEF Machines, States
  <2>3. /\ ReconnectRequested(m).state = "Reconnecting" /\ ~ReconnectRequested(m).handle
        /\ ReconnectRequested(m).reconnect = fresh
        /\ ReconnectRequested(m).age = None /\ ReconnectRequested(m).unproven = None
        /\ ReconnectRequested(m).flaps = m.flaps /\ ~ReconnectRequested(m).escalation
    BY <2>1, Zenon DEF Machines
  <2> QED
    BY <1>1, <1>4, <2>2, <2>3, Zenon
<1> QED
  BY <1>3, <1>4, Zenon

\* on_reconnect_failed on a Reconnecting machine: a reset to Known when the
\* attempts are used up, otherwise only the status changes.
LEMMA ReconnectFailedMachine ==
  ASSUME NEW m \in Machines
  PROVE  /\ ReconnectFailed(m) \in Machines
         /\ \/ ReconnectFailed(m) = m /\ m.reconnect = None
            \/ ReconnectFailed(m) = Reset(m, "Known") /\ m.reconnect # None
            \/ /\ m.reconnect # None
               /\ ReconnectFailed(m).reconnect \in ReconnectStatuses
               /\ ReconnectFailed(m) =
                    [m EXCEPT !.reconnect = ReconnectFailed(m).reconnect]
<1>1. CASE m.reconnect = None
  BY <1>1, Zenon DEF ReconnectFailed
<1>2. CASE m.reconnect # None
  <2> DEFINE attempt == m.reconnect.attempt + 1
             status == [attempt |-> attempt,
                        nextRetry |-> GrowDelay(m.reconnect.nextRetry, attempt)]
  <2>1. m.reconnect.attempt \in Nat /\ m.reconnect.nextRetry \in Nat
    BY <1>2, Zenon DEF Machines, ReconnectStatuses
  <2>2. status \in ReconnectStatuses
    <3>1. attempt \in Nat
      BY <2>1
    <3> HIDE DEF attempt
    <3>2. GrowDelay(m.reconnect.nextRetry, attempt) \in Nat
      BY <2>1, <3>1, GrowDelayType, Zenon
    <3> QED
      BY <3>1, <3>2, Zenon DEF ReconnectStatuses
  <2>3. CASE attempt >= MaxAttempts
    BY <1>2, <2>3, ResetMachine, Zenon DEF ReconnectFailed, States
  <2>4. CASE ~(attempt >= MaxAttempts)
    <3>1. ReconnectFailed(m) = [m EXCEPT !.reconnect = status]
      BY <1>2, <2>4, Zenon DEF ReconnectFailed
    <3> HIDE DEF status, attempt
    <3>2. ReconnectFailed(m) \in Machines /\ ReconnectFailed(m).reconnect = status
      BY <2>2, <3>1, Zenon DEF Machines
    <3> QED
      BY <1>2, <2>2, <3>1, <3>2, Zenon
  <2> QED
    BY <2>3, <2>4, Zenon
<1> QED
  BY <1>1, <1>2, Zenon

\* on_user_enable moves a Disabled machine to Known and leaves any other alone.
LEMMA UserEnabledMachine ==
  ASSUME NEW m \in Machines
  PROVE  /\ UserEnabled(m) \in Machines
         /\ m.state # "Disabled" => UserEnabled(m) = m
         /\ m.state = "Disabled" => UserEnabled(m) = [m EXCEPT !.state = "Known"]
  BY Zenon DEF UserEnabled, Machines, States

\* take_flap_escalation only lowers the flag.
LEMMA EscalationTakenMachine ==
  ASSUME NEW m \in Machines
  PROVE  /\ EscalationTaken(m) \in Machines
         /\ EscalationTaken(m) = [m EXCEPT !.escalation = FALSE]
  BY Zenon DEF EscalationTaken, Machines

\* Time only changes the age of a live connection, up to StableAfter.
LEMMA AgedMachine ==
  ASSUME NEW m \in Machines
  PROVE  /\ Aged(m) \in Machines
         /\ \/ Aged(m) = m
            \/ m.age # None /\ Aged(m).age # None /\ Aged(m) = [m EXCEPT !.age = Aged(m).age]
<1>1. CASE m.age # None /\ m.age < StableAfter
  <2>1. m.age + 1 \in 0..StableAfter /\ m.age + 1 # None
    BY <1>1, PolicyAssumption, NoneAssumption DEF Machines
  <2>2. Aged(m) = [m EXCEPT !.age = m.age + 1]
    BY <1>1, Zenon DEF Aged
  <2> QED
    BY <1>1, <2>1, <2>2, Zenon DEF Machines
<1>2. CASE ~(m.age # None /\ m.age < StableAfter)
  BY <1>2, Zenon DEF Aged
<1> QED
  BY <1>1, <1>2, Zenon
==============================================================================
