---------------------- MODULE DeviceStateMachineProofs -----------------------
(***************************************************************************)
(* Proofs about DeviceStateMachine for every reconnect policy.             *)
(*                                                                         *)
(* None of the properties is inductive by itself.  The flap counter agrees *)
(* with the observer's streak only because the machine's probation mark    *)
(* (unproven) is set exactly on the live connections the observer saw come *)
(* out of a reconnect; Probation states that, and the inductive invariant  *)
(* IInv adds it to the properties.                                         *)
(*                                                                         *)
(* The retry delays are a story of their own: GrowDelay multiplies before  *)
(* it jitters, so a delay grows exactly when the factor outweighs the      *)
(* largest jitter.                                                         *)
(***************************************************************************)
EXTENDS DeviceStateMachine, DeviceFsmProofs

\* A live connection is on probation exactly when a reconnect produced it, and
\* then its age is known.
Probation ==
  /\ fsm.unproven # None <=> (streak.viaReconnect /\ Renderable(fsm.state))
  /\ fsm.unproven # None => fsm.age # None

IInv ==
  /\ TypeOK
  /\ StatusMatchesState
  /\ FlapsCountTheStreak
  /\ EscalatesOncePerStreak
  /\ Probation

-----------------------------------------------------------------------------
(* The inductive invariant. *)

LEMMA InitIInv == Init => IInv
  BY PolicyAssumption, NoneAssumption
  DEF Init, NewMachine, NoStreak, IInv, TypeOK, Machines, States, StatusMatchesState,
      FlapsCountTheStreak, EscalatesOncePerStreak, Probation, Renderable

\* A step that resets the machine to any state but Reconnecting, and the streak
\* with it, keeps the invariant.
LEMMA ResetKeepsIInv ==
  ASSUME IInv, NEW next \in States \ {"Reconnecting"},
         fsm' = Reset(fsm, next), streak' = NoStreak
  PROVE  IInv'
  BY ResetMachine, PolicyAssumption
  DEF IInv, TypeOK, NoStreak, StatusMatchesState, FlapsCountTheStreak,
      EscalatesOncePerStreak, Probation

\* Every call keeps the invariant.
LEMMA NextIInv == IInv /\ [Next]_vars => IInv'
<1> SUFFICES ASSUME IInv, [Next]_vars PROVE IInv'
  OBVIOUS
<1>0. /\ fsm \in Machines
      /\ fsm.state \in States /\ fsm.flaps \in Nat /\ fsm.age \in 0..StableAfter \cup {None}
      /\ fsm.escalation \in BOOLEAN /\ fsm.handle \in BOOLEAN
      /\ fsm.unproven \in Nat \cup {None}
      /\ streak \in [viaReconnect : BOOLEAN, drops : Nat, reports : Nat]
  BY DEF IInv, TypeOK, Machines
<1> USE DEF TypeOK, StatusMatchesState, FlapsCountTheStreak, EscalatesOncePerStreak,
            Probation, Renderable
<1>1. CASE OnConnected
  <2>1. fsm.reconnect # None => fsm.reconnect.nextRetry # None
    BY <1>0, NoneAssumption DEF Machines, ReconnectStatuses
  <2>2. /\ fsm' \in Machines /\ fsm'.state = "Connected" /\ fsm'.handle
        /\ fsm'.reconnect = None /\ fsm'.age = 0
        /\ fsm'.unproven # None <=> fsm.state = "Reconnecting"
        /\ fsm'.flaps = fsm.flaps /\ fsm'.escalation = fsm.escalation
    BY <1>0, <1>1, <2>1, ConnectedMachine DEF IInv, OnConnected
  <2>3. /\ streak' \in [viaReconnect : BOOLEAN, drops : Nat, reports : Nat]
        /\ streak'.viaReconnect <=> fsm.state = "Reconnecting"
        /\ streak'.drops = streak.drops /\ streak'.reports = streak.reports
    BY <1>0, <1>1 DEF OnConnected
  <2>4. 0 # None
    BY NoneAssumption
  <2> QED
    BY <1>0, <2>2, <2>3, <2>4 DEF IInv
<1>2. CASE OnConnectFailed
  BY <1>0, <1>2, ConnectFailedMachine DEF IInv, OnConnectFailed, CanConnect
<1>3. CASE OnConnectAbandoned
  BY <1>0, <1>3, ConnectAbandonedMachine, ResetKeepsIInv DEF OnConnectAbandoned
<1>4. CASE OnFrameSuccess
  <2>1. /\ fsm' \in Machines /\ fsm'.state = "Active"
        /\ fsm'.handle = fsm.handle /\ fsm'.reconnect = fsm.reconnect
        /\ fsm'.age = fsm.age /\ fsm'.unproven = fsm.unproven
        /\ fsm'.flaps = fsm.flaps /\ fsm'.escalation = fsm.escalation
    BY <1>0, <1>4, FrameSuccessMachine DEF OnFrameSuccess, Machines
  <2> QED
    BY <1>0, <1>4, <2>1 DEF IInv, OnFrameSuccess
<1>5. CASE OnCommError
  <2>0. fsm.age # None => fsm.age \in Nat /\ fsm.age <= StableAfter
    BY <1>0, PolicyAssumption
  <2>1. CASE UnstableReconnect(fsm)
    <3>1. streak' = [streak EXCEPT !.viaReconnect = FALSE, !.drops = @ + 1]
      BY <1>0, <1>5, <2>0, <2>1, PolicyAssumption
      DEF IInv, OnCommError, StreakAfterFault, UnstableReconnect
    <3>2. /\ streak' \in [viaReconnect : BOOLEAN, drops : Nat, reports : Nat]
          /\ ~streak'.viaReconnect /\ streak'.drops = streak.drops + 1
          /\ streak'.reports = streak.reports
      <4>1. streak' = [streak EXCEPT !.viaReconnect = FALSE, !.drops = streak.drops + 1]
        BY <3>1
      <4>2. streak.drops + 1 \in Nat
        BY <1>0
      <4> QED
        BY <1>0, <4>1, <4>2
    <3> QED
      BY <1>0, <1>5, <2>1, <3>2, CommErrorMachine, PolicyAssumption DEF IInv, OnCommError
  <2>2. CASE ~UnstableReconnect(fsm)
    <3>1. streak' = NoStreak
      BY <1>0, <1>5, <2>0, <2>2, PolicyAssumption
      DEF IInv, OnCommError, StreakAfterFault, UnstableReconnect
    <3> QED
      BY <1>0, <1>5, <2>2, <3>1, CommErrorMachine, PolicyAssumption
      DEF IInv, OnCommError, NoStreak
  <2> QED
    BY <2>1, <2>2
<1>6. CASE OnReconnectRequested
  <2>1. (fsm.age = None \/ fsm.age >= StableAfter) <=> fsm.age \in {None, StableAfter}
    BY <1>0, PolicyAssumption
  <2>2. CASE fsm.age \in {None, StableAfter}
    <3>1. streak' = NoStreak
      BY <1>6, <2>2 DEF OnReconnectRequested
    <3> QED
      BY <1>0, <1>6, <2>1, <2>2, <3>1, ReconnectRequestedMachine, PolicyAssumption
      DEF IInv, OnReconnectRequested, NoStreak
  <2>3. CASE fsm.age \notin {None, StableAfter}
    <3>1. /\ streak' \in [viaReconnect : BOOLEAN, drops : Nat, reports : Nat]
          /\ ~streak'.viaReconnect /\ streak'.drops = streak.drops
          /\ streak'.reports = streak.reports
      BY <1>0, <1>6, <2>3 DEF OnReconnectRequested
    <3> QED
      BY <1>0, <1>6, <2>1, <2>3, <3>1, ReconnectRequestedMachine DEF IInv, OnReconnectRequested
  <2> QED
    BY <2>2, <2>3
<1>7. CASE OnReconnectFailed
  <2>1. fsm.state = "Reconnecting" /\ fsm.reconnect # None
    BY <1>7 DEF IInv, OnReconnectFailed
  <2>2. CASE fsm' = Reset(fsm, "Known")
    <3>1. streak' = NoStreak
      BY <1>0, <1>7, <2>2, ResetMachine DEF OnReconnectFailed, States
    <3> QED
      BY <2>2, <3>1, ResetKeepsIInv DEF States
  <2>3. CASE fsm' # Reset(fsm, "Known")
    <3>1. /\ fsm' \in Machines /\ fsm'.reconnect \in ReconnectStatuses
          /\ fsm' = [fsm EXCEPT !.reconnect = fsm'.reconnect]
      BY <1>0, <1>7, <2>1, <2>3, ReconnectFailedMachine DEF OnReconnectFailed
    <3>2. /\ fsm'.reconnect # None
          /\ fsm'.state = fsm.state /\ fsm'.handle = fsm.handle
          /\ fsm'.age = fsm.age /\ fsm'.unproven = fsm.unproven
          /\ fsm'.flaps = fsm.flaps /\ fsm'.escalation = fsm.escalation
      BY <1>0, <3>1, NoneAssumption DEF Machines
    <3>3. streak' = streak
      BY <1>7, <2>1, <3>2 DEF OnReconnectFailed
    <3> QED
      BY <2>1, <3>1, <3>2, <3>3 DEF IInv
  <2> QED
    BY <2>2, <2>3
<1>8. CASE OnUserDisable
  BY <1>8, ResetKeepsIInv DEF OnUserDisable, UserDisabled, States
<1>9. CASE OnUserEnable
  <2>1. /\ fsm' \in Machines /\ fsm'.state = "Known"
        /\ fsm'.handle = fsm.handle /\ fsm'.reconnect = fsm.reconnect
        /\ fsm'.age = fsm.age /\ fsm'.unproven = fsm.unproven
        /\ fsm'.flaps = fsm.flaps /\ fsm'.escalation = fsm.escalation
    BY <1>0, <1>9, UserEnabledMachine DEF OnUserEnable, Machines
  <2> QED
    BY <1>0, <1>9, <2>1 DEF IInv, OnUserEnable
<1>10. CASE OnHotUnplug
  BY <1>10, ResetKeepsIInv DEF OnHotUnplug, HotUnplugged, States
<1>11. CASE TakeFlapEscalation
  <2>1. /\ fsm' \in Machines /\ ~fsm'.escalation
        /\ fsm'.state = fsm.state /\ fsm'.handle = fsm.handle
        /\ fsm'.reconnect = fsm.reconnect /\ fsm'.age = fsm.age
        /\ fsm'.unproven = fsm.unproven /\ fsm'.flaps = fsm.flaps
    BY <1>0, <1>11, EscalationTakenMachine DEF TakeFlapEscalation, Machines
  <2>2. /\ streak' \in [viaReconnect : BOOLEAN, drops : Nat, reports : Nat]
        /\ streak'.viaReconnect = streak.viaReconnect /\ streak'.drops = streak.drops
        /\ streak'.reports = streak.reports + 1
    BY <1>0, <1>11 DEF TakeFlapEscalation
  <2>3. streak.reports = 0 /\ fsm.flaps = FlapThreshold
    BY <1>11 DEF IInv, TakeFlapEscalation
  <2> QED
    BY <1>0, <2>1, <2>2, <2>3, PolicyAssumption DEF IInv
<1>12. CASE Tick
  <2>1. /\ fsm' \in Machines /\ fsm'.age # None
        /\ fsm'.state = fsm.state /\ fsm'.handle = fsm.handle
        /\ fsm'.reconnect = fsm.reconnect /\ fsm'.escalation = fsm.escalation
        /\ fsm'.unproven = fsm.unproven /\ fsm'.flaps = fsm.flaps
    BY <1>0, <1>12, AgedMachine DEF Tick, Machines
  <2> QED
    BY <1>0, <1>12, <2>1 DEF IInv, Tick
<1>13. CASE UNCHANGED vars
  BY <1>13 DEF IInv, vars
<1> QED
  BY <1>1, <1>2, <1>3, <1>4, <1>5, <1>6, <1>7, <1>8, <1>9, <1>10, <1>11, <1>12, <1>13 DEF Next

\* The invariant holds throughout every behaviour.
LEMMA AlwaysIInv == Spec => []IInv
  BY InitIInv, NextIInv, PTL DEF Spec

-----------------------------------------------------------------------------
(* Theorems. *)

\* The machine stays within its types, for every policy and any order of calls.
THEOREM TypeCorrect == Spec => []TypeOK
<1>1. IInv => TypeOK
  BY DEF IInv
<1> QED
  BY <1>1, AlwaysIInv, PTL

\* A reconnect status exists exactly while Reconnecting, and a handle, an age or
\* a probation delay only on a live connection: no transition leaves the remains
\* of another state behind.
THEOREM StatusAlwaysMatches == Spec => []StatusMatchesState
<1>1. IInv => StatusMatchesState
  BY DEF IInv
<1> QED
  BY <1>1, AlwaysIInv, PTL

\* The flap counter counts exactly the reconnects in a row that failed again
\* before they proved stable.
THEOREM FlapsAlwaysCountTheStreak == Spec => []FlapsCountTheStreak
<1>1. IInv => FlapsCountTheStreak
  BY DEF IInv
<1> QED
  BY <1>1, AlwaysIInv, PTL

\* take_flap_escalation reports a streak at most once, at the threshold.
THEOREM EscalationIsOneShot == Spec => []EscalatesOncePerStreak
<1>1. IInv => EscalatesOncePerStreak
  BY DEF IInv
<1> QED
  BY <1>1, AlwaysIInv, PTL

-----------------------------------------------------------------------------
(* The retry delays. *)

\* grow_delay never shrinks a delay, except to the jittered cap, when the factor
\* outweighs the jitter.
LEMMA GrowDelayGrows ==
  ASSUME NEW current \in Nat, NEW step \in Nat, BackoffFactor * (100 - JitterPercent) >= 100
  PROVE  GrowDelay(current, step) >= MinOf(current, LowCeiling)
<1> DEFINE base == MinOf(current * BackoffFactor, MaxDelay)
           percent == IF step % 2 = 0 THEN 100 + JitterPercent ELSE 100 - JitterPercent
           low == 100 - JitterPercent
<1>1. current * BackoffFactor \in Nat /\ MaxDelay \in Nat /\ DelayFloor \in Nat
  BY PolicyAssumption
<1>2. base \in Nat /\ base \in {current * BackoffFactor, MaxDelay}
  BY <1>1 DEF MinOf
<1>3. percent \in Nat /\ low \in Nat /\ percent >= low
  BY PolicyAssumption
<1>4. ASSUME NEW a \in Nat, NEW b \in Nat, NEW c \in Nat, b >= c
      PROVE  a * b \in Nat /\ a * c \in Nat /\ a * b >= a * c
  <2>1. b - c \in Nat /\ a * (b - c) \in Nat /\ a * b \in Nat /\ a * c \in Nat
    BY <1>4
  <2>2. a * b = a * c + a * (b - c)
    BY <1>4
  <2> QED
    BY <2>1, <2>2
<1>5. \A x, y \in Nat : x >= y => x \div 100 >= y \div 100
  OBVIOUS
<1>6. Jitter(base, step) = (base * percent) \div 100
  BY DEF Jitter
<1>7. LowCeiling = (MaxDelay * low) \div 100
  BY DEF LowCeiling
<1>8. GrowDelay(current, step) = MaxOf(Jitter(base, step), DelayFloor)
  BY DEF GrowDelay
<1>9. base = current * BackoffFactor => base * low >= current * 100
  <2>1. BackoffFactor \in Nat /\ BackoffFactor * low \in Nat /\ BackoffFactor * low >= 100
    BY <1>3, PolicyAssumption
  <2>2. current * (BackoffFactor * low) >= current * 100
    BY <1>4, <2>1
  <2>3. (current * BackoffFactor) * low = current * (BackoffFactor * low)
    BY <1>3, <2>1
  <2> QED
    BY <2>2, <2>3
<1> HIDE DEF base, percent, low
<1>10. base * percent \in Nat /\ base * low \in Nat /\ base * percent >= base * low
  BY <1>2, <1>3, <1>4
<1>11. /\ (base * percent) \div 100 \in Nat /\ (base * low) \div 100 \in Nat
       /\ (base * percent) \div 100 >= (base * low) \div 100
  BY <1>5, <1>10
<1>12. (base * low) \div 100 >= MinOf(current, LowCeiling)
  <2>1. CASE base = MaxDelay
    BY <1>7, <1>11, <2>1 DEF MinOf
  <2>2. CASE base = current * BackoffFactor
    <3>1. base * low >= current * 100
      BY <1>9, <2>2
    <3>2. (current * 100) \div 100 = current /\ current * 100 \in Nat
      OBVIOUS
    <3>3. (base * low) \div 100 >= current
      BY <1>5, <1>10, <3>1, <3>2
    <3>4. LowCeiling \in Int
      BY <1>1, <1>3, <1>4, <1>7
    <3> QED
      BY <1>11, <3>3, <3>4 DEF MinOf
  <2> QED
    BY <1>2, <2>1, <2>2
<1>13. MinOf(current, LowCeiling) \in Int
  BY <1>1, <1>3, <1>4, <1>7 DEF MinOf
<1>14. /\ GrowDelay(current, step) >= Jitter(base, step)
       /\ GrowDelay(current, step) \in Int /\ Jitter(base, step) \in Int
  BY <1>1, <1>6, <1>8, <1>11 DEF MaxOf
<1> QED
  BY <1>6, <1>11, <1>12, <1>13, <1>14

\* grow_delay stays between the floor and the jittered cap.
LEMMA GrowDelayBounds ==
  ASSUME NEW current \in Nat, NEW step \in Nat
  PROVE  GrowDelay(current, step) \in DelayFloor..DelayCeiling
<1> DEFINE base == MinOf(current * BackoffFactor, MaxDelay)
           percent == IF step % 2 = 0 THEN 100 + JitterPercent ELSE 100 - JitterPercent
           high == 100 + JitterPercent
<1>1. current * BackoffFactor \in Nat /\ MaxDelay \in Nat /\ DelayFloor \in Nat
  BY PolicyAssumption
<1>2. base \in Nat /\ base <= MaxDelay
  BY <1>1 DEF MinOf
<1>3. percent \in Nat /\ high \in Nat /\ percent <= high /\ high >= 100
  BY PolicyAssumption
<1>4. ASSUME NEW a \in Nat, NEW b \in Nat, NEW c \in Nat, b <= c
      PROVE  /\ a * b \in Nat /\ a * c \in Nat /\ a * b <= a * c
             /\ b * a \in Nat /\ c * a \in Nat /\ b * a <= c * a
  <2>1. c - b \in Nat /\ a * (c - b) \in Nat /\ a * b \in Nat /\ a * c \in Nat
    BY <1>4
  <2>2. a * c = a * b + a * (c - b) /\ a * b = b * a /\ a * c = c * a
    BY <1>4
  <2> QED
    BY <2>1, <2>2
<1>5. \A x, y \in Nat : x <= y => x \div 100 <= y \div 100
  OBVIOUS
<1>6. Jitter(base, step) = (base * percent) \div 100
  BY DEF Jitter
<1>7. DelayCeiling = (MaxDelay * high) \div 100
  BY DEF DelayCeiling
<1>8. GrowDelay(current, step) = MaxOf(Jitter(base, step), DelayFloor)
  BY DEF GrowDelay
<1> HIDE DEF base, percent, high
<1>9. base * percent \in Nat /\ base * high \in Nat /\ base * percent <= base * high
  BY <1>2, <1>3, <1>4
<1>10. MaxDelay * high \in Nat /\ base * high <= MaxDelay * high
  BY <1>1, <1>2, <1>3, <1>4
<1>11. base * percent <= MaxDelay * high
  BY <1>9, <1>10
<1>12. (base * percent) \div 100 <= (MaxDelay * high) \div 100
  BY <1>5, <1>9, <1>10, <1>11
<1>13. MaxDelay * 100 <= MaxDelay * high /\ MaxDelay * 100 \in Nat
  BY <1>1, <1>3, <1>4
<1>14. MaxDelay <= (MaxDelay * high) \div 100
  BY <1>1, <1>5, <1>10, <1>13
<1>15. DelayFloor <= MaxDelay
  BY PolicyAssumption
<1>16. (base * percent) \div 100 \in Nat /\ (MaxDelay * high) \div 100 \in Nat
  BY <1>9, <1>10
<1> QED
  BY <1>1, <1>6, <1>7, <1>8, <1>12, <1>14, <1>15, <1>16 DEF MaxOf

\* The delay on_comm_error schedules: grown from the one on probation after an
\* unstable reconnect, the initial one otherwise.
LEMMA CommErrorDelay ==
  ASSUME NEW m \in Machines
  PROVE  CommError(m).reconnect =
           [attempt |-> 0,
            nextRetry |-> IF UnstableReconnect(m) THEN GrowDelay(m.unproven, m.flaps + 1)
                          ELSE InitialDelay]
<1> DEFINE status == [attempt |-> 0,
                      nextRetry |-> IF UnstableReconnect(m)
                                    THEN GrowDelay(m.unproven, m.flaps + 1) ELSE InitialDelay]
           base == IF UnstableReconnect(m)
                   THEN [m EXCEPT !.flaps = m.flaps + 1,
                                  !.escalation = (m.flaps + 1 = FlapThreshold)]
                   ELSE ClearFlap(m)
<1>1. CommError(m) =
        [base EXCEPT !.state = "Reconnecting", !.handle = FALSE, !.age = None,
                     !.unproven = None, !.reconnect = status]
  BY DEF CommError
<1>2. DOMAIN base = DOMAIN m /\ "reconnect" \in DOMAIN m
  BY DEF ClearFlap, Machines
<1> HIDE DEF status, base
<1>3. CommError(m).reconnect = status
  BY <1>1, <1>2
<1> QED
  BY <1>3 DEF status

\* on_reconnect_requested starts from the initial delay.
LEMMA ReconnectRequestedDelay ==
  ASSUME NEW m \in Machines
  PROVE  ReconnectRequested(m).reconnect = [attempt |-> 0, nextRetry |-> InitialDelay]
<1> DEFINE status == [attempt |-> 0, nextRetry |-> InitialDelay]
           base == IF m.age = None \/ m.age >= StableAfter THEN ClearFlap(m) ELSE m
<1>1. ReconnectRequested(m) =
        [base EXCEPT !.state = "Reconnecting", !.handle = FALSE, !.age = None,
                     !.unproven = None, !.escalation = FALSE, !.reconnect = status]
  BY DEF ReconnectRequested
<1>2. DOMAIN base = DOMAIN m /\ "reconnect" \in DOMAIN m
  BY DEF ClearFlap, Machines
<1> HIDE DEF status, base
<1>3. ReconnectRequested(m).reconnect = status
  BY <1>1, <1>2
<1> QED
  BY <1>3 DEF status

\* on_connect_failed keeps a status that exists and starts a fresh one otherwise.
LEMMA ConnectFailedDelay ==
  ASSUME NEW m \in Machines, m.state = "Known" => m.reconnect = None
  PROVE  ConnectFailed(m).reconnect =
           IF m.reconnect = None THEN [attempt |-> 0, nextRetry |-> InitialDelay] ELSE m.reconnect
  BY DEF ConnectFailed, Machines

\* on_reconnect_failed with attempts left: the next attempt and a grown delay.
LEMMA ReconnectFailedDelay ==
  ASSUME NEW m \in Machines, m.reconnect # None
  PROVE  \/ ReconnectFailed(m) = Reset(m, "Known")
         \/ /\ m.reconnect.attempt + 1 < MaxAttempts
            /\ ReconnectFailed(m).reconnect =
                 [attempt |-> m.reconnect.attempt + 1,
                  nextRetry |-> GrowDelay(m.reconnect.nextRetry, m.reconnect.attempt + 1)]
<1> DEFINE attempt == m.reconnect.attempt + 1
           status == [attempt |-> attempt,
                      nextRetry |-> GrowDelay(m.reconnect.nextRetry, attempt)]
<1>1. m.reconnect.attempt \in Nat
  BY DEF Machines, ReconnectStatuses
<1>2. CASE attempt >= MaxAttempts
  BY <1>2 DEF ReconnectFailed
<1>3. CASE ~(attempt >= MaxAttempts)
  <2>1. ReconnectFailed(m) = [m EXCEPT !.reconnect = status]
    BY <1>3 DEF ReconnectFailed
  <2>2. attempt < MaxAttempts
    BY <1>1, <1>3, PolicyAssumption
  <2> HIDE DEF status
  <2>3. ReconnectFailed(m).reconnect = status
    BY <2>1 DEF Machines
  <2> QED
    BY <2>2, <2>3 DEF status
<1> QED
  BY <1>2, <1>3

\* What one call may do to a scheduled delay, as BackoffNeverShrinks states it.
Grows ==
  /\ (UnstableReconnect(fsm) /\ fsm'.state = "Reconnecting" /\ fsm'.flaps > fsm.flaps) =>
        fsm'.reconnect.nextRetry >= MinOf(fsm.unproven, LowCeiling)
  /\ (fsm.reconnect # None /\ fsm'.reconnect # None) =>
        fsm'.reconnect.nextRetry >= MinOf(fsm.reconnect.nextRetry, LowCeiling)

\* What a call can do to the delays and the flap counter.
Kept ==
  /\ fsm'.reconnect = fsm.reconnect /\ fsm'.unproven = fsm.unproven
  /\ fsm'.flaps = fsm.flaps
Dropped == fsm'.reconnect = None /\ fsm'.unproven = None /\ fsm'.flaps = 0
Carried ==
  /\ fsm'.reconnect = None /\ fsm'.flaps = fsm.flaps
  /\ fsm'.unproven = IF fsm.reconnect = None THEN None ELSE fsm.reconnect.nextRetry
Started ==
  /\ fsm.reconnect = None /\ fsm'.flaps \in {0, fsm.flaps}
  /\ fsm'.unproven \in {None, fsm.unproven}
  /\ fsm'.reconnect = [attempt |-> 0, nextRetry |-> InitialDelay]
Flapped ==
  /\ UnstableReconnect(fsm) /\ fsm.reconnect = None /\ fsm'.unproven = None
  /\ fsm'.reconnect = [attempt |-> 0, nextRetry |-> GrowDelay(fsm.unproven, fsm.flaps + 1)]
Retried ==
  /\ fsm.reconnect # None /\ fsm.reconnect.attempt + 1 < MaxAttempts
  /\ fsm'.flaps = fsm.flaps /\ fsm'.unproven = fsm.unproven
  /\ fsm'.reconnect =
       [attempt |-> fsm.reconnect.attempt + 1,
        nextRetry |-> GrowDelay(fsm.reconnect.nextRetry, fsm.reconnect.attempt + 1)]

\* Every call does one of these.
LEMMA DelaySteps ==
  ASSUME IInv, [Next]_vars
  PROVE  Kept \/ Dropped \/ Carried \/ Started \/ Flapped \/ Retried
<1>0. /\ fsm \in Machines
      /\ (fsm.reconnect # None) <=> (fsm.state = "Reconnecting")
  BY DEF IInv, TypeOK, StatusMatchesState
<1>1. ASSUME NEW next \in States, fsm' = Reset(fsm, next) PROVE Dropped
  BY <1>0, <1>1, ResetMachine DEF Dropped
<1>2. CASE OnConnected
  BY <1>0, <1>2, ConnectedMachine DEF OnConnected, Carried
<1>3. CASE OnConnectFailed
  <2>1. /\ fsm'.unproven = fsm.unproven /\ fsm'.flaps = fsm.flaps
    BY <1>0, <1>3, ConnectFailedMachine DEF OnConnectFailed
  <2>2. fsm'.reconnect = IF fsm.reconnect = None
                         THEN [attempt |-> 0, nextRetry |-> InitialDelay] ELSE fsm.reconnect
    BY <1>0, <1>3, ConnectFailedDelay DEF OnConnectFailed
  <2> QED
    BY <2>1, <2>2 DEF Kept, Started
<1>4. CASE OnConnectAbandoned
  BY <1>0, <1>1, <1>4, ConnectAbandonedMachine DEF OnConnectAbandoned
<1>5. CASE OnFrameSuccess
  BY <1>0, <1>5, FrameSuccessMachine DEF OnFrameSuccess, Machines, Kept
<1>6. CASE OnCommError
  <2>1. fsm.reconnect = None /\ fsm' = CommError(fsm)
    BY <1>0, <1>6 DEF OnCommError, Renderable
  <2>2. fsm'.unproven = None /\ fsm'.flaps = IF UnstableReconnect(fsm) THEN fsm.flaps + 1 ELSE 0
    BY <1>0, <2>1, CommErrorMachine
  <2>3. fsm'.reconnect =
          [attempt |-> 0,
           nextRetry |-> IF UnstableReconnect(fsm) THEN GrowDelay(fsm.unproven, fsm.flaps + 1)
                         ELSE InitialDelay]
    BY <1>0, <2>1, CommErrorDelay
  <2>4. CASE UnstableReconnect(fsm)
    BY <2>1, <2>2, <2>3, <2>4 DEF Flapped
  <2>5. CASE ~UnstableReconnect(fsm)
    BY <2>1, <2>2, <2>3, <2>5 DEF Started
  <2> QED
    BY <2>4, <2>5
<1>7. CASE OnReconnectRequested
  <2>1. fsm.reconnect = None /\ fsm' = ReconnectRequested(fsm)
    BY <1>0, <1>7 DEF OnReconnectRequested, Renderable
  <2> QED
    BY <1>0, <2>1, ReconnectRequestedMachine, ReconnectRequestedDelay DEF Started
<1>8. CASE OnReconnectFailed
  <2>1. fsm.reconnect # None /\ fsm' = ReconnectFailed(fsm)
    BY <1>8 DEF OnReconnectFailed
  <2>2. CASE fsm' = Reset(fsm, "Known")
    BY <1>1, <2>2 DEF States
  <2>3. CASE fsm' # Reset(fsm, "Known")
    <3>1. fsm' = [fsm EXCEPT !.reconnect = fsm'.reconnect]
      BY <1>0, <2>1, <2>3, ReconnectFailedMachine
    <3>2. fsm'.unproven = fsm.unproven /\ fsm'.flaps = fsm.flaps
      BY <1>0, <3>1 DEF Machines
    <3> QED
      BY <1>0, <2>1, <2>3, <3>2, ReconnectFailedDelay DEF Retried
  <2> QED
    BY <2>2, <2>3
<1>9. CASE OnUserDisable
  BY <1>1, <1>9 DEF OnUserDisable, UserDisabled, States
<1>10. CASE OnUserEnable
  BY <1>0, <1>10, UserEnabledMachine DEF OnUserEnable, Machines, Kept
<1>11. CASE OnHotUnplug
  BY <1>1, <1>11 DEF OnHotUnplug, HotUnplugged, States
<1>12. CASE TakeFlapEscalation
  BY <1>0, <1>12, EscalationTakenMachine DEF TakeFlapEscalation, Machines, Kept
<1>13. CASE Tick
  BY <1>0, <1>13, AgedMachine DEF Tick, Machines, Kept
<1>14. CASE UNCHANGED vars
  BY <1>14 DEF vars, Kept
<1> QED
  BY <1>2, <1>3, <1>4, <1>5, <1>6, <1>7, <1>8, <1>9, <1>10, <1>11, <1>12, <1>13, <1>14 DEF Next

\* The delays stay within their bounds.
LEMMA NextBounded == IInv /\ BackoffBounded /\ [Next]_vars => BackoffBounded'
<1> SUFFICES ASSUME IInv, BackoffBounded, [Next]_vars PROVE BackoffBounded'
  OBVIOUS
<1>0. /\ fsm.flaps \in Nat /\ fsm.unproven \in Nat \cup {None}
      /\ fsm.reconnect # None => fsm.reconnect.attempt \in Nat /\ fsm.reconnect.nextRetry \in Nat
  BY DEF IInv, TypeOK, Machines, ReconnectStatuses
<1>1. InitialDelay \in DelayFloor..DelayCeiling /\ 0 < MaxAttempts
  <2>1. /\ MaxDelay * 100 <= MaxDelay * (100 + JitterPercent)
        /\ MaxDelay * 100 \in Nat /\ MaxDelay * (100 + JitterPercent) \in Nat
    <3>1. /\ MaxDelay * (100 + JitterPercent) = MaxDelay * 100 + MaxDelay * JitterPercent
          /\ MaxDelay * JitterPercent \in Nat
      BY PolicyAssumption
    <3> QED
      BY <3>1, PolicyAssumption
  <2>2. /\ MaxDelay <= (MaxDelay * (100 + JitterPercent)) \div 100
        /\ (MaxDelay * (100 + JitterPercent)) \div 100 \in Nat
    BY <2>1, PolicyAssumption
  <2> QED
    BY <2>2, PolicyAssumption DEF DelayCeiling
<1>2. CASE Kept \/ Dropped \/ Carried \/ Started
  BY <1>1, <1>2 DEF BackoffBounded, Kept, Dropped, Carried, Started
<1>3. CASE Flapped
  <2>1. GrowDelay(fsm.unproven, fsm.flaps + 1) \in DelayFloor..DelayCeiling
    BY <1>0, <1>3, GrowDelayBounds DEF Flapped, UnstableReconnect
  <2> QED
    BY <1>1, <1>3, <2>1 DEF BackoffBounded, Flapped
<1>4. CASE Retried
  <2>1. GrowDelay(fsm.reconnect.nextRetry, fsm.reconnect.attempt + 1)
          \in DelayFloor..DelayCeiling
    BY <1>0, <1>4, GrowDelayBounds DEF Retried
  <2> QED
    BY <1>4, <2>1 DEF BackoffBounded, Retried
<1> QED
  BY <1>2, <1>3, <1>4, DelaySteps

\* No call shortens a delay.
LEMMA NextGrows ==
  ASSUME IInv, [Next]_vars, BackoffFactor * (100 - JitterPercent) >= 100
  PROVE  Grows
<1>0. /\ fsm.flaps \in Nat /\ fsm.unproven \in Nat \cup {None}
      /\ fsm.reconnect # None => fsm.reconnect.attempt \in Nat /\ fsm.reconnect.nextRetry \in Nat
      /\ UnstableReconnect(fsm) => fsm.reconnect = None
  BY DEF IInv, TypeOK, Machines, ReconnectStatuses, UnstableReconnect, StatusMatchesState,
         Renderable
<1>1. LowCeiling \in Int
  BY PolicyAssumption DEF LowCeiling
<1>2. CASE Kept \/ Dropped \/ Carried \/ Started
  BY <1>0, <1>1, <1>2 DEF Grows, Kept, Dropped, Carried, Started, MinOf
<1>3. CASE Flapped
  <2>1. fsm.unproven \in Nat /\ fsm.flaps + 1 \in Nat
    BY <1>0, <1>3 DEF Flapped, UnstableReconnect
  <2>2. GrowDelay(fsm.unproven, fsm.flaps + 1) >= MinOf(fsm.unproven, LowCeiling)
    BY <2>1, GrowDelayGrows
  <2> QED
    BY <1>3, <2>2 DEF Grows, Flapped
<1>4. CASE Retried
  <2>1. fsm.reconnect.nextRetry \in Nat /\ fsm.reconnect.attempt + 1 \in Nat
    BY <1>0, <1>4 DEF Retried
  <2>2. GrowDelay(fsm.reconnect.nextRetry, fsm.reconnect.attempt + 1)
          >= MinOf(fsm.reconnect.nextRetry, LowCeiling)
    BY <2>1, GrowDelayGrows
  <2> QED
    BY <1>0, <1>4, <2>2 DEF Grows, Retried
<1> QED
  BY <1>2, <1>3, <1>4, DelaySteps

\* Every retry delay the machine schedules or keeps on probation lies between the
\* floor and the jittered cap, and the attempts stay below max_attempts.
THEOREM BackoffStaysBounded == Spec => []BackoffBounded
<1>1. Init => BackoffBounded
  BY DEF Init, NewMachine, BackoffBounded
<1> QED
  BY <1>1, NextBounded, AlwaysIInv, PTL DEF Spec

\* A device that fails right after reconnecting, or whose reconnect fails, never
\* waits less than the last time, except at the cap: for every policy whose
\* backoff factor outweighs its jitter, as ReconnectPolicy::default's does.
THEOREM BackoffOnlyGrows ==
  ASSUME BackoffFactor * (100 - JitterPercent) >= 100
  PROVE  Spec => BackoffNeverShrinks
<1>1. IInv /\ [Next]_vars => [Grows]_vars
  BY NextGrows
<1> QED
  BY <1>1, AlwaysIInv, PTL DEF Spec, BackoffNeverShrinks, Grows
==============================================================================
