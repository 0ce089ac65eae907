--------------------------- MODULE LifecycleManager --------------------------
(***************************************************************************)
(* DeviceLifecycleManager (crates/hypercolor-core/src/device/lifecycle.rs) *)
(* as operators on one device's entry.  The manager's three maps (devices, *)
(* connect_in_flight, reconnect_scheduled) are keyed by device id, so its  *)
(* state is one record per device:                                         *)
(*   tracked    the device has a ManagedDevice entry                       *)
(*   fsm        its DeviceStateMachine                                     *)
(*   auto       connect_behavior.should_auto_connect()                     *)
(*   layout     layout_device_id                                           *)
(*   issue      connect_in_flight: the stamp of the connect, or None       *)
(*   scheduled  membership of reconnect_scheduled                          *)
(* A stamp stands for the Instant a connect was issued at; the callers     *)
(* hand in a fresh one.  Every operation gives the entry after the call    *)
(* and the LifecycleActions it returns, in order; an Err has no actions.   *)
(* DeviceHandle contents, backend ids and identifier derivation are data   *)
(* no operation branches on and are left out.                              *)
(***************************************************************************)
EXTENDS DeviceFsm, Sequences

CONSTANTS Layouts    \* layout device ids

ASSUME LayoutsAssumption == Layouts # {}

Entries ==
  [tracked : BOOLEAN, fsm : Machines, auto : BOOLEAN, layout : Layouts,
   issue : Nat \cup {None}, scheduled : BOOLEAN]

Untracked ==
  [tracked |-> FALSE, fsm |-> NewMachine, auto |-> FALSE,
   layout |-> CHOOSE l \in Layouts : TRUE, issue |-> None, scheduled |-> FALSE]

(***************************************************************************)
(* LifecycleAction.  The Map variant is never emitted.                     *)
(***************************************************************************)
Act(op, layout) == [op |-> op, layout |-> layout]
Ops == {"Connect", "Disconnect", "Unmap", "SpawnReconnect", "CancelReconnect"}
Acts == [op : Ops, layout : Layouts]

Result(e, acts) == [entry |-> e, acts |-> acts]

State(e) == e.fsm.state
InFlight(e) == e.issue # None
Emits(acts, op) == \E i \in DOMAIN acts : acts[i].op = op

Disconnect(e) == Act("Disconnect", e.layout)
Unmap(e) == Act("Unmap", e.layout)
Connect(e) == Act("Connect", e.layout)
Spawn(e) == Act("SpawnReconnect", e.layout)

\* The trailing CancelReconnect, when `e` had one scheduled.
CancelIfScheduled(e) ==
  IF e.scheduled THEN <<Act("CancelReconnect", e.layout)>> ELSE <<>>

\* Disconnect only what was connected.
DisconnectIfRenderable(e) == IF Renderable(State(e)) THEN <<Disconnect(e)>> ELSE <<>>

Idle(e) == [e EXCEPT !.issue = None, !.scheduled = FALSE]

(***************************************************************************)
(* Discovery.                                                              *)
(***************************************************************************)
\* on_discovered_with_behavior: the entry is created or refreshed first.
Refreshed(e, auto, layout) ==
  [e EXCEPT !.tracked = TRUE, !.auto = auto, !.layout = layout, !.scheduled = FALSE]

DiscoveredDeferred(e, layout) ==
  LET r == Refreshed(e, FALSE, layout)
      down == [r EXCEPT !.fsm = HotUnplugged(@)]
      cancel == CancelIfScheduled(e)
  IN  CASE Renderable(State(e)) -> Result(down, cancel \o <<Disconnect(r), Unmap(r)>>)
        [] State(e) = "Reconnecting" -> Result(down, cancel)
        [] OTHER -> Result(r, cancel)

DiscoveredAuto(e, layout, stamp) ==
  LET r == Refreshed(e, TRUE, layout)
  IN  IF CanConnect(e.fsm) /\ ~InFlight(e)
      THEN Result([r EXCEPT !.issue = stamp], CancelIfScheduled(e) \o <<Connect(r)>>)
      ELSE Result(r, CancelIfScheduled(e))

OnDiscovered(e, auto, layout, stamp) ==
  IF auto THEN DiscoveredAuto(e, layout, stamp) ELSE DiscoveredDeferred(e, layout)

\* retry_stale_known_connect, once the in-flight marker is older than a minute.
CanRetryStale(e) == InFlight(e) /\ e.tracked /\ State(e) = "Known" /\ e.auto
RetryStaleKnownConnect(e, stamp) == Result([e EXCEPT !.issue = stamp], <<Connect(e)>>)

RebindLayout(e, layout) == [e EXCEPT !.layout = layout]

(***************************************************************************)
(* Connect outcomes.                                                       *)
(***************************************************************************)
ConnectAccepted(e) == e.tracked /\ CanConnect(e.fsm)

\* Variant: the in-flight mark outlives the connect.
OnConnectedKeepsMark(e) ==
  IF ConnectAccepted(e)
  THEN Result([e EXCEPT !.scheduled = FALSE, !.fsm = Connected(@)], CancelIfScheduled(e))
  ELSE Result(Idle(e), <<>>)

\* on_connected clears the marks before the transition may be refused.
OnConnected(e) ==
  IF ConnectAccepted(e)
  THEN Result([Idle(e) EXCEPT !.fsm = Connected(@)], CancelIfScheduled(e))
  ELSE Result(Idle(e), <<>>)

OnConnectFailed(e) ==
  IF ConnectAccepted(e)
  THEN Result([e EXCEPT !.issue = None, !.scheduled = TRUE, !.fsm = ConnectFailed(@)],
              <<Spawn(e)>>)
  ELSE Result([e EXCEPT !.issue = None], <<>>)

\* Variant: the in-flight mark outlives the connect.
OnConnectAbandonedKeepsMark(e) ==
  IF e.tracked
  THEN Result([e EXCEPT !.scheduled = FALSE, !.fsm = ConnectAbandoned(@)], CancelIfScheduled(e))
  ELSE Result(Idle(e), <<>>)

OnConnectAbandoned(e) ==
  IF e.tracked
  THEN Result([Idle(e) EXCEPT !.fsm = ConnectAbandoned(@)], CancelIfScheduled(e))
  ELSE Result(Idle(e), <<>>)

OnFrameSuccess(e) == [e EXCEPT !.fsm = FrameSuccess(@)]

(***************************************************************************)
(* Faults and reconnects.                                                  *)
(***************************************************************************)
\* reconnect_after, for a transition the machine accepted.
ReconnectAfter(e, machine) ==
  Result([e EXCEPT !.issue = None, !.scheduled = TRUE, !.fsm = machine],
         <<Disconnect(e), Unmap(e), Spawn(e)>>)

OnCommError(e) == ReconnectAfter(e, CommError(e.fsm))
OnReconnectRequested(e) == ReconnectAfter(e, ReconnectRequested(e.fsm))

CanAttempt(e) == e.tracked /\ ~InFlight(e) /\ State(e) = "Reconnecting"
OnReconnectAttempt(e, stamp) == Result([e EXCEPT !.issue = stamp], <<Connect(e)>>)

\* Variant: a failed attempt schedules no further one.
OnReconnectFailedGivesUp(e) ==
  Result([Idle(e) EXCEPT !.fsm = ReconnectFailed(e.fsm)], CancelIfScheduled(e))

OnReconnectFailed(e) ==
  LET after == ReconnectFailed(e.fsm)
      retry == e.tracked /\ after.reconnect # None
  IN  IF retry
      THEN Result([e EXCEPT !.issue = None, !.scheduled = TRUE, !.fsm = after], <<Spawn(e)>>)
      ELSE Result([Idle(e) EXCEPT !.fsm = after], CancelIfScheduled(e))

(***************************************************************************)
(* Departures and user control.                                            *)
(***************************************************************************)
\* Variant: the session of a device that is gone is not closed.
OnDeviceVanishedForgets(e) ==
  IF e.tracked
  THEN Result([Idle(e) EXCEPT !.fsm = HotUnplugged(@)], <<Unmap(e)>> \o CancelIfScheduled(e))
  ELSE Result(e, <<>>)

OnDeviceVanished(e) ==
  IF e.tracked
  THEN Result([Idle(e) EXCEPT !.fsm = HotUnplugged(@)],
              DisconnectIfRenderable(e) \o <<Unmap(e)>> \o CancelIfScheduled(e))
  ELSE Result(e, <<>>)

\* Variant: the reconnect timer is left running.
OnUserDisableKeepsTimer(e) ==
  IF e.tracked
  THEN Result([Idle(e) EXCEPT !.fsm = UserDisabled(@)],
              DisconnectIfRenderable(e) \o <<Unmap(e)>>)
  ELSE Result(Idle(e), <<>>)

OnUserDisable(e) ==
  IF e.tracked
  THEN Result([Idle(e) EXCEPT !.fsm = UserDisabled(@)],
              DisconnectIfRenderable(e) \o <<Unmap(e)>> \o CancelIfScheduled(e))
  ELSE Result(Idle(e), <<>>)

OnUserEnable(e, stamp) ==
  LET on == [e EXCEPT !.fsm = UserEnabled(@)]
  IN  IF e.tracked /\ State(e) = "Disabled" /\ e.auto /\ ~InFlight(e)
      THEN Result([on EXCEPT !.issue = stamp], <<Connect(e)>>)
      ELSE Result(IF e.tracked THEN on ELSE e, <<>>)

OnRuntimeDeactivate(e) ==
  LET down == [Idle(e) EXCEPT !.fsm = HotUnplugged(@)]
      cancel == CancelIfScheduled(e)
  IN  CASE e.tracked /\ Renderable(State(e)) ->
             Result(down, <<Disconnect(e), Unmap(e)>> \o cancel)
        [] e.tracked /\ State(e) = "Reconnecting" -> Result(down, <<Unmap(e)>> \o cancel)
        [] OTHER -> Result(Idle(e), IF e.tracked THEN cancel ELSE <<>>)
==============================================================================
