--------------------------- MODULE DeviceLifecycle ---------------------------
(***************************************************************************)
(* The lifecycle manager with every method its callers in the daemon may   *)
(* call, on any device, in any order and at any time: connects complete    *)
(* late, twice or for a device that was retired, because the manager       *)
(* itself does not know which task is calling.  `outbox` is what the last  *)
(* call returned.                                                          *)
(*                                                                         *)
(* Two caller guards are the callers' own, read under the same lock as the *)
(* call: on_comm_error and on_reconnect_requested are made only for a      *)
(* renderable device (discovery/lifecycle.rs 738, network/host.rs 283).    *)
(***************************************************************************)
EXTENDS LifecycleManager

CONSTANTS
  Devices,
  MaxStamps,    \* bound on connects issued over a behaviour
  MaxFlaps      \* bound on a machine's flap counter

ASSUME BoundsAssumption == MaxStamps \in Nat /\ MaxFlaps \in Nat

VARIABLES
  entries,      \* the manager: one entry per device id
  stamps,       \* connects issued so far; the last stamp handed out
  stale,        \* devices whose in-flight mark is older than
                \* connect_in_flight_stale_after
  outbox        \* the device of the last call and the actions it returned

lifecycleVars == <<entries, stamps, stale, outbox>>

Silent(d) == [device |-> d, acts |-> <<>>]

LifecycleInit ==
  /\ entries = [d \in Devices |-> Untracked]
  /\ stamps = 0
  /\ stale = {}
  /\ outbox \in {Silent(d) : d \in Devices}

\* What one manager call on d leaves and returns.
Returned(d, result) ==
  /\ entries' = [entries EXCEPT ![d] = result.entry]
  /\ outbox' = [device |-> d, acts |-> result.acts]

\* Apply the result of one manager call on d.  A mark that is set or cleared is
\* not an old one.
Apply(d, result) ==
  /\ Returned(d, result)
  /\ stale' = IF result.entry.issue = entries[d].issue THEN stale ELSE stale \ {d}

\* The same for a call that may stamp a connect with a fresh stamp.
ApplyStamped(d, result) ==
  /\ Apply(d, result)
  /\ stamps' = IF result.entry.issue = stamps + 1 THEN stamps + 1 ELSE stamps
  /\ stamps' <= MaxStamps

Quietly(d, result) == Apply(d, result) /\ UNCHANGED stamps

Discovered(d) ==
  \E auto \in BOOLEAN, layout \in Layouts :
    ApplyStamped(d, OnDiscovered(entries[d], auto, layout, stamps + 1))

\* Variant: the age of the mark is not looked at.
RetryAnyMark(d) ==
  /\ CanRetryStale(entries[d])
  /\ ApplyStamped(d, RetryStaleKnownConnect(entries[d], stamps + 1))

RetryStale(d) ==
  /\ d \in stale /\ CanRetryStale(entries[d])
  /\ ApplyStamped(d, RetryStaleKnownConnect(entries[d], stamps + 1))

Rebind(d) ==
  /\ entries[d].tracked
  /\ \E layout \in Layouts : Quietly(d, Result(RebindLayout(entries[d], layout), <<>>))

ConnectSucceeds(d) == Quietly(d, OnConnected(entries[d]))

ConnectFails(d) == Quietly(d, OnConnectFailed(entries[d]))

ConnectIsAbandoned(d) == Quietly(d, OnConnectAbandoned(entries[d]))

FrameWritten(d) ==
  /\ Renderable(State(entries[d]))
  /\ Quietly(d, Result(OnFrameSuccess(entries[d]), <<>>))

CommErrorReported(d) ==
  /\ Renderable(State(entries[d]))
  /\ entries[d].fsm.flaps < MaxFlaps
  /\ Quietly(d, OnCommError(entries[d]))

ReconnectAsked(d) ==
  /\ Renderable(State(entries[d]))
  /\ Quietly(d, OnReconnectRequested(entries[d]))

ReconnectTimerFires(d) ==
  /\ CanAttempt(entries[d])
  /\ ApplyStamped(d, OnReconnectAttempt(entries[d], stamps + 1))

ReconnectFails(d) == Quietly(d, OnReconnectFailed(entries[d]))

Vanished(d) == Quietly(d, OnDeviceVanished(entries[d]))

UserDisables(d) == Quietly(d, OnUserDisable(entries[d]))

UserEnables(d) == ApplyStamped(d, OnUserEnable(entries[d], stamps + 1))

Deactivated(d) == Quietly(d, OnRuntimeDeactivate(entries[d]))

EscalationReported(d) ==
  /\ entries[d].fsm.escalation
  /\ Quietly(d, Result([entries[d] EXCEPT !.fsm = EscalationTaken(@)], <<>>))

TimePasses(d) ==
  /\ Aged(entries[d].fsm) # entries[d].fsm
  /\ Quietly(d, Result([entries[d] EXCEPT !.fsm = Aged(@)], <<>>))

\* connect_in_flight_stale_after has elapsed since the connect was marked.
MarkAges(d) ==
  /\ InFlight(entries[d]) /\ d \notin stale
  /\ stale' = stale \cup {d}
  /\ Returned(d, Result(entries[d], <<>>))
  /\ UNCHANGED stamps

LifecycleNext ==
  \E d \in Devices :
    \/ Discovered(d)
    \/ RetryStale(d)
    \/ Rebind(d)
    \/ ConnectSucceeds(d)
    \/ ConnectFails(d)
    \/ ConnectIsAbandoned(d)
    \/ FrameWritten(d)
    \/ CommErrorReported(d)
    \/ ReconnectAsked(d)
    \/ ReconnectTimerFires(d)
    \/ ReconnectFails(d)
    \/ Vanished(d)
    \/ UserDisables(d)
    \/ UserEnables(d)
    \/ Deactivated(d)
    \/ EscalationReported(d)
    \/ TimePasses(d)
    \/ MarkAges(d)

LifecycleSpec == LifecycleInit /\ [][LifecycleNext]_lifecycleVars

-----------------------------------------------------------------------------
(* Properties. *)

\* Entries, stamps and returned actions have their types.
LifecycleTypeOK ==
  /\ entries \in [Devices -> Entries]
  /\ stamps \in Nat
  /\ stale \subseteq Devices
  /\ outbox \in [device : Devices, acts : Seq(Acts)]

\* A machine's reconnect status, handle and connection age agree with its state.
MachineCoherent(m) ==
  /\ (m.reconnect # None) <=> (m.state = "Reconnecting")
  /\ (m.handle \/ m.age # None \/ m.unproven # None) => Renderable(m.state)

\* The manager's side tables agree with the machines: a connect is in flight
\* only for a device that could accept it, a reconnect is scheduled only for a
\* device that is Reconnecting, an untracked device has neither, and no machine
\* is left with the remains of another state.
MarksMatchState ==
  \A d \in Devices :
    LET e == entries[d]
    IN  /\ MachineCoherent(e.fsm)
        /\ InFlight(e) => e.tracked /\ CanConnect(e.fsm)
        /\ e.scheduled => e.tracked /\ State(e) = "Reconnecting"
        /\ ~e.tracked => State(e) = "Known"

\* No device is stranded in Reconnecting: some retry timer is scheduled for it
\* or some connect is in flight, however late or stale the calls are.
ReconnectingIsDriven ==
  \A d \in Devices :
    State(entries[d]) = "Reconnecting" => entries[d].scheduled \/ InFlight(entries[d])

\* A call that takes a device out of the renderable states returns the
\* Disconnect that closes its session, whichever call it is.
LeavingRenderableDisconnects ==
  [][\A d \in Devices :
       Renderable(State(entries[d])) /\ ~Renderable(State(entries'[d])) =>
         outbox'.device = d /\ Emits(outbox'.acts, "Disconnect")]_lifecycleVars

\* The reconnect_scheduled flag and the timers the executor is told about stay
\* in step: raising the flag returns SpawnReconnect, clearing it CancelReconnect.
TimersFollowTheFlag ==
  [][\A d \in Devices :
       /\ (~entries[d].scheduled /\ entries'[d].scheduled) =>
            outbox'.device = d /\ Emits(outbox'.acts, "SpawnReconnect")
       /\ (entries[d].scheduled /\ ~entries'[d].scheduled) =>
            outbox'.device = d /\ Emits(outbox'.acts, "CancelReconnect")]_lifecycleVars

\* At most one connect is asked for at a time: a Connect is returned only when
\* none was in flight, or on a Known device to replace one whose mark is older
\* than connect_in_flight_stale_after; either way it carries a new stamp.
ConnectsAreSingle ==
  [][\A d \in Devices :
       outbox'.device = d /\ Emits(outbox'.acts, "Connect") =>
         /\ entries'[d].issue = stamps' /\ stamps' = stamps + 1
         /\ InFlight(entries[d]) => d \in stale /\ State(entries[d]) = "Known"]_lifecycleVars
==============================================================================
