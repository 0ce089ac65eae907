----------------------- MODULE DeviceLifecycleProofs -------------------------
(***************************************************************************)
(* Proofs about the lifecycle of devices.                                  *)
(*                                                                         *)
(* DeviceLifecycle, for any set of devices and every policy: a manager     *)
(* call touches one entry, so the argument is about one entry.  Coherent   *)
(* is the part of the invariant that speaks of it, and CallOK what a call  *)
(* owes, to the entry it leaves and in the actions it returns.  There is   *)
(* one lemma per manager method; the theorems put them together.           *)
(*                                                                         *)
(* LifecycleExecutor, for any number of tasks: the lane of a target is     *)
(* with the one scan or publishing connect it protects and a sleeping      *)
(* reconnect task can be cancelled (ExInv); whichever task calls the       *)
(* manager, the mark of a connect is in the hands of a task that will      *)
(* report it (WorkInv).  At the end, what scans rely on when nobody else   *)
(* is at the device (CalmInv): DiscoveryProofs goes on from there.         *)
(***************************************************************************)
EXTENDS DeviceLifecycle, LifecycleExecutor, DeviceFsmProofs

\* An entry whose marks match its state.
Coherent(e) ==
  /\ e \in Entries
  /\ MachineCoherent(e.fsm)
  /\ InFlight(e) => e.tracked /\ CanConnect(e.fsm)
  /\ e.scheduled => e.tracked /\ State(e) = "Reconnecting"
  /\ ~e.tracked => State(e) = "Known"
  /\ State(e) = "Reconnecting" => e.scheduled \/ InFlight(e)

\* What a call on the entry e that returns r owes.
CallOK(e, r) ==
  /\ Coherent(r.entry)
  /\ r.acts \in Seq(Acts)
  /\ Renderable(State(e)) /\ ~Renderable(State(r.entry)) => Emits(r.acts, "Disconnect")
  /\ ~e.scheduled /\ r.entry.scheduled => Emits(r.acts, "SpawnReconnect")
  /\ e.scheduled /\ ~r.entry.scheduled => Emits(r.acts, "CancelReconnect")

-----------------------------------------------------------------------------
(* Action lists. *)

\* A one-action list emits its action.
LEMMA EmitsUnit ==
  ASSUME NEW op \in Ops, NEW layout \in Layouts
  PROVE  <<Act(op, layout)>> \in Seq(Acts) /\ Emits(<<Act(op, layout)>>, op)
  BY DEF Act, Acts, Emits

\* Concatenation keeps what either part emits.
LEMMA EmitsConcat ==
  ASSUME NEW a \in Seq(Acts), NEW b \in Seq(Acts), NEW op
  PROVE  /\ a \o b \in Seq(Acts)
         /\ Emits(a, op) => Emits(a \o b, op)
         /\ Emits(b, op) => Emits(a \o b, op)
<1>1. a \o b \in Seq(Acts)
  OBVIOUS
<1>2. ASSUME Emits(a, op) PROVE Emits(a \o b, op)
  <2>1. PICK i \in DOMAIN a : a[i].op = op
    BY <1>2, Zenon DEF Emits
  <2>2. i \in DOMAIN (a \o b) /\ (a \o b)[i] = a[i]
    OBVIOUS
  <2> QED
    BY <2>1, <2>2, Zenon DEF Emits
<1>3. ASSUME Emits(b, op) PROVE Emits(a \o b, op)
  <2>1. PICK i \in DOMAIN b : b[i].op = op
    BY <1>3, Zenon DEF Emits
  <2>2. Len(a) + i \in DOMAIN (a \o b) /\ (a \o b)[Len(a) + i] = b[i]
    OBVIOUS
  <2> QED
    BY <2>1, <2>2, Zenon DEF Emits
<1> QED
  BY <1>1, <1>2, <1>3, Zenon

\* The trailing cancel is emitted exactly for a scheduled reconnect.
LEMMA CancelEmits ==
  ASSUME NEW e \in Entries
  PROVE  /\ CancelIfScheduled(e) \in Seq(Acts)
         /\ e.scheduled => Emits(CancelIfScheduled(e), "CancelReconnect")
<1>1. e.layout \in Layouts
  BY Zenon DEF Entries
<1>2. CASE e.scheduled
  BY <1>1, <1>2, EmitsUnit, Zenon DEF CancelIfScheduled, Ops
<1>3. CASE ~e.scheduled
  BY <1>3 DEF CancelIfScheduled
<1> QED
  BY <1>2, <1>3, Zenon

\* The leading disconnect is emitted exactly for a renderable device.
LEMMA DisconnectEmits ==
  ASSUME NEW e \in Entries
  PROVE  /\ DisconnectIfRenderable(e) \in Seq(Acts)
         /\ Renderable(State(e)) => Emits(DisconnectIfRenderable(e), "Disconnect")
<1>1. e.layout \in Layouts
  BY Zenon DEF Entries
<1>2. CASE Renderable(State(e))
  BY <1>1, <1>2, EmitsUnit, Zenon DEF DisconnectIfRenderable, Disconnect, Ops
<1>3. CASE ~Renderable(State(e))
  BY <1>3 DEF DisconnectIfRenderable
<1> QED
  BY <1>2, <1>3, Zenon

-----------------------------------------------------------------------------
(* Entries. *)

\* An entry without marks.
LEMMA IdleFields ==
  ASSUME NEW e \in Entries
  PROVE  /\ Idle(e) \in Entries
         /\ Idle(e).fsm = e.fsm /\ Idle(e).issue = None /\ Idle(e).scheduled = FALSE
         /\ Idle(e).tracked = e.tracked /\ Idle(e).layout = e.layout
  BY Zenon DEF Entries, Idle

\* A machine after Reset to a state other than Reconnecting is coherent.
LEMMA ResetCoherent ==
  ASSUME NEW m \in Machines, NEW next \in States \ {"Reconnecting"}
  PROVE  /\ Reset(m, next) \in Machines
         /\ Reset(m, next).state = next
         /\ MachineCoherent(Reset(m, next))
  BY ResetMachine DEF MachineCoherent

\* Dropping the marks of an entry whose device is not Reconnecting.
LEMMA IdleCoherent ==
  ASSUME NEW e, Coherent(e), State(e) # "Reconnecting"
  PROVE  Coherent(Idle(e))
  BY IdleFields, Zenon DEF Coherent, State, InFlight

\* Dropping the marks and resetting the machine, for any destination but
\* Reconnecting; an untracked device can only go to Known.
LEMMA IdleResetCoherent ==
  ASSUME NEW e, Coherent(e), NEW next \in States \ {"Reconnecting"}, e.tracked, NEW f,
         f = [Idle(e) EXCEPT !.fsm = Reset(e.fsm, next)]
  PROVE  Coherent(f) /\ State(f) = next /\ ~f.scheduled
<1>1. e \in Entries /\ e.fsm \in Machines
  BY Zenon DEF Coherent, Entries
<1>2. Reset(e.fsm, next) \in Machines /\ Reset(e.fsm, next).state = next
        /\ MachineCoherent(Reset(e.fsm, next))
  BY <1>1, ResetCoherent, Zenon
<1> DEFINE m == Reset(e.fsm, next)
<1> HIDE DEF m
<1>3. /\ f \in Entries /\ f.fsm = m /\ f.issue = None
      /\ f.scheduled = FALSE /\ f.tracked = e.tracked
  <2>1. m \in Machines /\ f = [Idle(e) EXCEPT !.fsm = m]
    BY <1>2, Zenon DEF m
  <2> QED
    BY <1>1, <2>1, Zenon DEF Idle, Entries
<1> USE DEF m
<1> QED
  BY <1>2, <1>3, Zenon DEF Coherent, State, InFlight

-----------------------------------------------------------------------------
(* One lemma per manager method. *)

LEMMA OnConnectedOK ==
  ASSUME NEW e, Coherent(e)
  PROVE  CallOK(e, OnConnected(e))
<1>1. e \in Entries /\ e.fsm \in Machines
  BY Zenon DEF Coherent, Entries
<1>2. CASE ConnectAccepted(e)
  <2> DEFINE m == Connected(e.fsm)
             f == [Idle(e) EXCEPT !.fsm = m]
  <2>1. /\ OnConnected(e).entry = f
        /\ OnConnected(e).acts = CancelIfScheduled(e)
    BY <1>1, <1>2, IdleFields, Zenon DEF OnConnected, Result
  <2>2. m \in Machines /\ m.state = "Connected" /\ m.reconnect = None
    BY <1>1, ConnectedMachine, Zenon
  <2> HIDE DEF m
  <2>3. /\ f \in Entries /\ f.fsm = m /\ f.issue = None
        /\ f.scheduled = FALSE /\ f.tracked = e.tracked
    BY <1>1, <2>2, Zenon DEF Idle, Entries
  <2>4. Coherent(f) /\ Renderable(State(f))
    BY <1>2, <2>2, <2>3, Zenon DEF Coherent, State, InFlight, MachineCoherent, Renderable,
       ConnectAccepted
  <2> QED
    BY <1>1, <2>1, <2>3, <2>4, CancelEmits, Zenon DEF CallOK
<1>3. CASE ~ConnectAccepted(e)
  <2>1. OnConnected(e).entry = Idle(e) /\ OnConnected(e).acts = <<>>
    BY <1>3, Zenon DEF OnConnected, Result
  <2>2. State(e) # "Reconnecting" /\ ~e.scheduled
    BY <1>3, Zenon DEF Coherent, ConnectAccepted, CanConnect, State
  <2>3. Coherent(Idle(e))
    BY <2>2, IdleCoherent, Zenon
  <2>4. State(Idle(e)) = State(e) /\ ~Idle(e).scheduled
    BY <1>1, IdleFields, Zenon DEF State
  <2> QED
    BY <2>1, <2>2, <2>3, <2>4 DEF CallOK
<1> QED
  BY <1>2, <1>3, Zenon

LEMMA OnConnectFailedOK ==
  ASSUME NEW e, Coherent(e)
  PROVE  CallOK(e, OnConnectFailed(e))
<1>1. e \in Entries /\ e.fsm \in Machines /\ e.layout \in Layouts
  BY Zenon DEF Coherent, Entries
<1>2. CASE ConnectAccepted(e)
  <2> DEFINE m == ConnectFailed(e.fsm)
             f == [e EXCEPT !.issue = None, !.scheduled = TRUE, !.fsm = m]
  <2>1. OnConnectFailed(e).entry = f /\ OnConnectFailed(e).acts = <<Spawn(e)>>
    BY <1>2, Zenon DEF OnConnectFailed, Result
  <2>2. /\ m \in Machines /\ m.state = "Reconnecting" /\ m.reconnect # None
        /\ m.handle => e.fsm.handle
        /\ m.age = e.fsm.age /\ m.unproven = e.fsm.unproven
    BY <1>1, <1>2, ConnectFailedMachine, Zenon DEF ConnectAccepted
  <2>3. ~e.fsm.handle /\ e.fsm.age = None /\ e.fsm.unproven = None
    BY <1>2, Zenon DEF Coherent, MachineCoherent, ConnectAccepted, CanConnect, Renderable
  <2>4. MachineCoherent(m)
    BY <2>2, <2>3, Zenon DEF MachineCoherent
  <2> HIDE DEF m
  <2>5. f \in Entries /\ f.fsm = m /\ f.issue = None /\ f.scheduled /\ f.tracked = e.tracked
    BY <1>1, <2>2, Zenon DEF Entries
  <2>6. Coherent(f)
    BY <1>2, <2>2, <2>4, <2>5, Zenon DEF Coherent, State, InFlight, ConnectAccepted
  <2>7. <<Spawn(e)>> \in Seq(Acts) /\ Emits(<<Spawn(e)>>, "SpawnReconnect")
    BY <1>1, EmitsUnit, Zenon DEF Spawn, Ops
  <2>8. ~Renderable(State(e))
    BY <1>2, Zenon DEF ConnectAccepted, CanConnect, Renderable, State
  <2> QED
    BY <2>1, <2>5, <2>6, <2>7, <2>8, Zenon DEF CallOK
<1>3. CASE ~ConnectAccepted(e)
  <2> DEFINE f == [e EXCEPT !.issue = None]
  <2>1. OnConnectFailed(e).entry = f /\ OnConnectFailed(e).acts = <<>>
    BY <1>3, Zenon DEF OnConnectFailed, Result
  <2>2. State(e) # "Reconnecting"
    BY <1>3, Zenon DEF Coherent, ConnectAccepted, CanConnect, State
  <2>3. /\ f \in Entries /\ f.fsm = e.fsm /\ f.issue = None
        /\ f.scheduled = e.scheduled /\ f.tracked = e.tracked
    BY <1>1, Zenon DEF Entries
  <2>4. Coherent(f)
    BY <2>2, <2>3 DEF Coherent, State, InFlight
  <2> QED
    BY <2>1, <2>3, <2>4 DEF CallOK, State
<1> QED
  BY <1>2, <1>3, Zenon

LEMMA OnConnectAbandonedOK ==
  ASSUME NEW e, Coherent(e)
  PROVE  CallOK(e, OnConnectAbandoned(e))
<1>1. e \in Entries /\ e.fsm \in Machines
  BY Zenon DEF Coherent, Entries
<1>2. CASE e.tracked
  <2> DEFINE f == [Idle(e) EXCEPT !.fsm = ConnectAbandoned(e.fsm)]
  <2>1. OnConnectAbandoned(e).entry = f /\ OnConnectAbandoned(e).acts = CancelIfScheduled(e)
    BY <1>1, <1>2, IdleFields, Zenon DEF OnConnectAbandoned, Result
  <2>2. PICK next \in States \ {"Reconnecting"} :
          /\ ConnectAbandoned(e.fsm) = Reset(e.fsm, next)
          /\ next = IF e.fsm.state = "Reconnecting" THEN "Known" ELSE e.fsm.state
    BY <1>1, ConnectAbandonedMachine, Zenon
  <2>3. Coherent(f) /\ State(f) = next /\ ~f.scheduled
    <3>1. f = [Idle(e) EXCEPT !.fsm = Reset(e.fsm, next)]
      BY <2>2, Zenon
    <3> HIDE DEF f
    <3> QED
      BY <1>2, <3>1, IdleResetCoherent, Zenon
  <2>4. Renderable(State(e)) => Renderable(State(f))
    BY <2>2, <2>3, Zenon DEF Renderable, State
  <2> QED
    BY <1>1, <2>1, <2>3, <2>4, CancelEmits, Zenon DEF CallOK
<1>3. CASE ~e.tracked
  <2>1. OnConnectAbandoned(e).entry = Idle(e) /\ OnConnectAbandoned(e).acts = <<>>
    BY <1>3, Zenon DEF OnConnectAbandoned, Result
  <2>2. State(e) # "Reconnecting" /\ ~e.scheduled
    BY <1>3, Zenon DEF Coherent
  <2>3. Coherent(Idle(e))
    BY <2>2, IdleCoherent, Zenon
  <2>4. State(Idle(e)) = State(e) /\ ~Idle(e).scheduled
    BY <1>1, IdleFields, Zenon DEF State
  <2> QED
    BY <2>1, <2>2, <2>3, <2>4 DEF CallOK
<1> QED
  BY <1>2, <1>3, Zenon

\* reconnect_after, for a renderable device and a machine that entered
\* Reconnecting with nothing live left.
LEMMA ReconnectAfterOK ==
  ASSUME NEW e, Coherent(e), Renderable(State(e)), NEW m \in Machines,
         m.state = "Reconnecting", m.reconnect # None,
         ~m.handle, m.age = None, m.unproven = None
  PROVE  CallOK(e, ReconnectAfter(e, m))
<1>1. e \in Entries /\ e.layout \in Layouts
  BY Zenon DEF Coherent, Entries
<1> DEFINE f == [e EXCEPT !.issue = None, !.scheduled = TRUE, !.fsm = m]
           acts == <<Disconnect(e), Unmap(e), Spawn(e)>>
<1>2. ReconnectAfter(e, m).entry = f /\ ReconnectAfter(e, m).acts = acts
  BY Zenon DEF ReconnectAfter, Result
<1>3. f \in Entries /\ f.fsm = m /\ f.issue = None /\ f.scheduled /\ f.tracked = e.tracked
  BY <1>1, Zenon DEF Entries
<1>4. e.tracked
  BY Zenon DEF Coherent, Renderable
<1>5. Coherent(f)
  BY <1>3, <1>4, Zenon DEF Coherent, State, InFlight, MachineCoherent
<1>6. acts \in Seq(Acts)
  BY <1>1 DEF Disconnect, Unmap, Spawn, Act, Acts, Ops
<1>7. Emits(acts, "Disconnect") /\ Emits(acts, "SpawnReconnect")
  <2>1. 1 \in DOMAIN acts /\ acts[1].op = "Disconnect"
    BY DEF Disconnect, Act
  <2>2. 3 \in DOMAIN acts /\ acts[3].op = "SpawnReconnect"
    BY DEF Spawn, Act
  <2> QED
    BY <2>1, <2>2, Zenon DEF Emits
<1> QED
  BY <1>2, <1>3, <1>5, <1>6, <1>7, Zenon DEF CallOK

LEMMA OnCommErrorOK ==
  ASSUME NEW e, Coherent(e), Renderable(State(e))
  PROVE  CallOK(e, OnCommError(e))
<1>1. e.fsm \in Machines
  BY Zenon DEF Coherent, Entries
<1> QED
  BY <1>1, CommErrorMachine, ReconnectAfterOK, Zenon DEF OnCommError

LEMMA OnReconnectRequestedOK ==
  ASSUME NEW e, Coherent(e), Renderable(State(e))
  PROVE  CallOK(e, OnReconnectRequested(e))
<1>1. e.fsm \in Machines
  BY Zenon DEF Coherent, Entries
<1> QED
  BY <1>1, ReconnectRequestedMachine, ReconnectAfterOK, Zenon DEF OnReconnectRequested

\* Issuing a connect for a device that could accept it.
LEMMA IssueOK ==
  ASSUME NEW e, Coherent(e), e.tracked, CanConnect(e.fsm), NEW stamp \in Nat
  PROVE  CallOK(e, Result([e EXCEPT !.issue = stamp], <<Connect(e)>>))
<1>1. e \in Entries /\ e.layout \in Layouts
  BY Zenon DEF Coherent, Entries
<1> DEFINE f == [e EXCEPT !.issue = stamp]
<1>2. /\ f \in Entries /\ f.fsm = e.fsm /\ f.issue = stamp
      /\ f.scheduled = e.scheduled /\ f.tracked = e.tracked
  BY <1>1, Zenon DEF Entries
<1>3. InFlight(f)
  BY <1>2, NoneAssumption DEF InFlight
<1>4. Coherent(f) /\ State(f) = State(e)
  BY <1>2, <1>3, Zenon DEF Coherent, State
<1>5. <<Connect(e)>> \in Seq(Acts)
  BY <1>1, EmitsUnit, Zenon DEF Connect, Ops
<1> QED
  BY <1>2, <1>4, <1>5, Zenon DEF CallOK, Result

LEMMA OnReconnectFailedOK ==
  ASSUME NEW e, Coherent(e)
  PROVE  CallOK(e, OnReconnectFailed(e))
<1> DEFINE m == ReconnectFailed(e.fsm)
<1>1. e \in Entries /\ e.fsm \in Machines /\ e.layout \in Layouts
  BY Zenon DEF Coherent, Entries
<1>2. /\ m \in Machines
      /\ \/ m = e.fsm /\ e.fsm.reconnect = None
         \/ m = Reset(e.fsm, "Known") /\ e.fsm.reconnect # None
         \/ /\ e.fsm.reconnect # None
            /\ m.reconnect \in ReconnectStatuses
            /\ m = [e.fsm EXCEPT !.reconnect = m.reconnect]
  BY <1>1, ReconnectFailedMachine, Zenon
<1>3. (e.fsm.reconnect # None) <=> (State(e) = "Reconnecting")
  BY Zenon DEF Coherent, MachineCoherent, State
<1> HIDE DEF m
<1>4. CASE m.reconnect # None
  <2>1. /\ e.fsm.reconnect # None /\ m.state = "Reconnecting"
        /\ ~m.handle /\ m.age = None /\ m.unproven = None
    <3>1. m # Reset(e.fsm, "Known")
      BY <1>1, <1>4, ResetMachine DEF States
    <3>2. e.fsm.reconnect # None /\ m = [e.fsm EXCEPT !.reconnect = m.reconnect]
      BY <1>2, <1>4, <3>1, Zenon
    <3>3. /\ m.state = e.fsm.state /\ m.handle = e.fsm.handle
          /\ m.age = e.fsm.age /\ m.unproven = e.fsm.unproven
      BY <1>1, <3>2, Zenon DEF Machines
    <3> QED
      BY <1>3, <3>2, <3>3, Zenon DEF Coherent, MachineCoherent, State, Renderable
  <2>2. e.tracked
    BY <1>3, <2>1, Zenon DEF Coherent
  <2> DEFINE f == [e EXCEPT !.issue = None, !.scheduled = TRUE, !.fsm = m]
  <2>3. OnReconnectFailed(e).entry = f /\ OnReconnectFailed(e).acts = <<Spawn(e)>>
    BY <1>4, <2>2, Zenon DEF OnReconnectFailed, Result, m
  <2>4. f \in Entries /\ f.fsm = m /\ f.issue = None /\ f.scheduled /\ f.tracked = e.tracked
    BY <1>1, <1>2, Zenon DEF Entries
  <2>5. Coherent(f)
    BY <1>4, <2>1, <2>2, <2>4, Zenon DEF Coherent, State, InFlight, MachineCoherent
  <2>6. <<Spawn(e)>> \in Seq(Acts) /\ Emits(<<Spawn(e)>>, "SpawnReconnect")
    BY <1>1, EmitsUnit, Zenon DEF Spawn, Ops
  <2>7. ~Renderable(State(e))
    BY <1>3, <2>1, Zenon DEF Renderable
  <2> QED
    BY <2>3, <2>4, <2>5, <2>6, <2>7, Zenon DEF CallOK
<1>5. CASE m.reconnect = None
  <2> DEFINE f == [Idle(e) EXCEPT !.fsm = m]
  <2>1. OnReconnectFailed(e).entry = f /\ OnReconnectFailed(e).acts = CancelIfScheduled(e)
    BY <1>5, Zenon DEF OnReconnectFailed, Result, m
  <2>2. /\ f \in Entries /\ f.fsm = m /\ f.issue = None
        /\ f.scheduled = FALSE /\ f.tracked = e.tracked
    BY <1>1, <1>2, Zenon DEF Idle, Entries
  <2>3. ~(m.reconnect \in ReconnectStatuses)
    BY <1>5, NoneAssumption, Zenon
  <2>4. MachineCoherent(m) /\ m.state # "Reconnecting" /\ (~e.tracked => m.state = "Known")
        /\ (Renderable(e.fsm.state) => m.state = e.fsm.state)
    <3>1. CASE m = e.fsm
      BY <1>3, <1>5, <3>1, Zenon DEF Coherent, MachineCoherent, State
    <3>2. CASE m = Reset(e.fsm, "Known") /\ e.fsm.reconnect # None
      BY <1>1, <1>3, <3>2, ResetCoherent, Zenon DEF States, Renderable, State
    <3> QED
      BY <1>2, <2>3, <3>1, <3>2, Zenon
  <2>5. Coherent(f)
    BY <2>2, <2>4 DEF Coherent, State, InFlight
  <2> QED
    BY <1>1, <2>1, <2>2, <2>4, <2>5, CancelEmits, Zenon DEF CallOK, State
<1> QED
  BY <1>4, <1>5, Zenon

\* Taking a tracked device down: the machine is reset to a state that is not
\* live, the session closed, the routes dropped and the timer cancelled.
LEMMA TakenDownOK ==
  ASSUME NEW e, Coherent(e), e.tracked, NEW next \in {"Known", "Disabled"}
  PROVE  CallOK(e, Result([Idle(e) EXCEPT !.fsm = Reset(e.fsm, next)],
                          DisconnectIfRenderable(e) \o <<Unmap(e)>> \o CancelIfScheduled(e)))
<1>1. e \in Entries /\ e.layout \in Layouts
  BY Zenon DEF Coherent, Entries
<1> DEFINE f == [Idle(e) EXCEPT !.fsm = Reset(e.fsm, next)]
           front == DisconnectIfRenderable(e) \o <<Unmap(e)>>
           acts == front \o CancelIfScheduled(e)
<1>2. Coherent(f) /\ ~f.scheduled
  <2>1. next \in States \ {"Reconnecting"}
    BY Zenon DEF States
  <2> QED
    BY <2>1, IdleResetCoherent, Zenon
<1>3. <<Unmap(e)>> \in Seq(Acts)
  BY <1>1, EmitsUnit, Zenon DEF Unmap, Ops
<1>4. front \in Seq(Acts) /\ (Renderable(State(e)) => Emits(front, "Disconnect"))
  BY <1>1, <1>3, DisconnectEmits, EmitsConcat, Zenon
<1> HIDE DEF f, front
<1>5. /\ acts \in Seq(Acts)
      /\ Renderable(State(e)) => Emits(acts, "Disconnect")
      /\ e.scheduled => Emits(acts, "CancelReconnect")
  BY <1>1, <1>4, CancelEmits, EmitsConcat, Zenon
<1>6. CallOK(e, Result(f, acts))
  BY <1>2, <1>5, Zenon DEF CallOK, Result
<1> QED
  BY <1>6, Zenon DEF f, front

\* A call that does nothing.
LEMMA NoCallOK ==
  ASSUME NEW e, Coherent(e)
  PROVE  CallOK(e, Result(e, <<>>))
  BY DEF CallOK, Result

\* A call that only drops the marks of an untracked device.
LEMMA UntrackedIdleOK ==
  ASSUME NEW e, Coherent(e), ~e.tracked
  PROVE  CallOK(e, Result(Idle(e), <<>>))
<1>1. e \in Entries /\ State(e) = "Known" /\ ~e.scheduled
  BY Zenon DEF Coherent
<1>2. Coherent(Idle(e)) /\ State(Idle(e)) = State(e) /\ ~Idle(e).scheduled
  BY <1>1, IdleCoherent, IdleFields, Zenon DEF State
<1> QED
  BY <1>1, <1>2 DEF CallOK, Result

LEMMA OnDeviceVanishedOK ==
  ASSUME NEW e, Coherent(e)
  PROVE  CallOK(e, OnDeviceVanished(e))
<1>1. Idle(e).fsm = e.fsm
  BY IdleFields, Zenon DEF Coherent
<1> QED
  BY <1>1, TakenDownOK, NoCallOK, Zenon DEF OnDeviceVanished, HotUnplugged

LEMMA OnUserDisableOK ==
  ASSUME NEW e, Coherent(e)
  PROVE  CallOK(e, OnUserDisable(e))
<1>1. Idle(e).fsm = e.fsm
  BY IdleFields, Zenon DEF Coherent
<1> QED
  BY <1>1, TakenDownOK, UntrackedIdleOK, Zenon DEF OnUserDisable, UserDisabled

LEMMA OnUserEnableOK ==
  ASSUME NEW e, Coherent(e), NEW stamp \in Nat
  PROVE  CallOK(e, OnUserEnable(e, stamp))
<1> DEFINE m == UserEnabled(e.fsm)
           on == [e EXCEPT !.fsm = m]
<1>1. e \in Entries /\ e.fsm \in Machines /\ e.layout \in Layouts
  BY Zenon DEF Coherent, Entries
<1>2. /\ m \in Machines
      /\ State(e) # "Disabled" => m = e.fsm
      /\ State(e) = "Disabled" => m = [e.fsm EXCEPT !.state = "Known"]
  BY <1>1, UserEnabledMachine, Zenon DEF State
<1>3. State(e) = "Disabled" => m.state = "Known" /\ MachineCoherent(m)
  BY <1>1, <1>2, Zenon DEF Coherent, MachineCoherent, Machines, State, Renderable
<1> HIDE DEF m
<1>4. /\ on \in Entries /\ on.fsm = m /\ on.issue = e.issue /\ on.layout = e.layout
      /\ on.scheduled = e.scheduled /\ on.tracked = e.tracked
  BY <1>1, <1>2, Zenon DEF Entries
<1>5. Coherent(on) /\ (Renderable(State(e)) => State(on) = State(e))
  <2>1. CASE State(e) = "Disabled"
    BY <1>3, <1>4, <2>1, Zenon DEF Coherent, State, InFlight, CanConnect, Renderable
  <2>2. CASE State(e) # "Disabled"
    BY <1>2, <1>4, <2>2, Zenon DEF Coherent, State, InFlight
  <2> QED
    BY <2>1, <2>2, Zenon
<1>6. CASE e.tracked /\ State(e) = "Disabled" /\ e.auto /\ ~InFlight(e)
  <2>1. OnUserEnable(e, stamp) = Result([on EXCEPT !.issue = stamp], <<Connect(on)>>)
    BY <1>4, <1>6, Zenon DEF OnUserEnable, Connect, m
  <2>2. on.tracked /\ CanConnect(on.fsm)
    BY <1>3, <1>4, <1>6, Zenon DEF CanConnect
  <2>3. CallOK(on, OnUserEnable(e, stamp))
    <3> HIDE DEF on
    <3> QED
      BY <1>5, <2>1, <2>2, IssueOK, Zenon
  <2>4. ~Renderable(State(e))
    BY <1>6, Zenon DEF Renderable
  <2> QED
    BY <1>4, <2>3, <2>4, Zenon DEF CallOK
<1>7. CASE ~(e.tracked /\ State(e) = "Disabled" /\ e.auto /\ ~InFlight(e))
  <2>1. OnUserEnable(e, stamp) = Result(IF e.tracked THEN on ELSE e, <<>>)
    BY <1>7, Zenon DEF OnUserEnable, m
  <2>2. CASE e.tracked
    <3> HIDE DEF on
    <3>1. OnUserEnable(e, stamp).entry = on /\ OnUserEnable(e, stamp).acts = <<>>
      BY <2>1, <2>2 DEF Result
    <3> QED
      BY <1>4, <1>5, <3>1 DEF CallOK
  <2>3. CASE ~e.tracked
    BY <2>1, <2>3, NoCallOK, Zenon
  <2> QED
    BY <2>2, <2>3, Zenon
<1> QED
  BY <1>6, <1>7, Zenon

LEMMA OnRuntimeDeactivateOK ==
  ASSUME NEW e, Coherent(e)
  PROVE  CallOK(e, OnRuntimeDeactivate(e))
<1> DEFINE down == [Idle(e) EXCEPT !.fsm = Reset(e.fsm, "Known")]
           cancel == CancelIfScheduled(e)
<1>1. e \in Entries /\ e.layout \in Layouts /\ Idle(e).fsm = e.fsm
  BY IdleFields, Zenon DEF Coherent, Entries
<1>2. cancel \in Seq(Acts) /\ (e.scheduled => Emits(cancel, "CancelReconnect"))
  BY <1>1, CancelEmits, Zenon
<1>3. e.tracked => Coherent(down) /\ State(down) = "Known" /\ ~down.scheduled
  BY IdleResetCoherent, Zenon DEF States
<1>4. CASE e.tracked /\ Renderable(State(e))
  <2> DEFINE acts == <<Disconnect(e), Unmap(e)>> \o cancel
  <2>1. OnRuntimeDeactivate(e) = Result(down, acts)
    <3>1. State(e) # "Reconnecting"
      BY <1>4, Zenon DEF Renderable
    <3> QED
      BY <1>1, <1>4, <3>1, Zenon DEF OnRuntimeDeactivate, HotUnplugged
  <2>2. <<Disconnect(e), Unmap(e)>> \in Seq(Acts)
    BY <1>1 DEF Disconnect, Unmap, Act, Acts, Ops
  <2>3. Emits(<<Disconnect(e), Unmap(e)>>, "Disconnect")
    <3>1. 1 \in DOMAIN <<Disconnect(e), Unmap(e)>>
          /\ <<Disconnect(e), Unmap(e)>>[1].op = "Disconnect"
      BY DEF Disconnect, Act
    <3> QED
      BY <3>1, Zenon DEF Emits
  <2> HIDE DEF down, cancel
  <2>4. /\ acts \in Seq(Acts) /\ Emits(acts, "Disconnect")
        /\ e.scheduled => Emits(acts, "CancelReconnect")
    BY <1>2, <2>2, <2>3, EmitsConcat, Zenon
  <2> HIDE DEF acts
  <2> QED
    BY <1>3, <1>4, <2>1, <2>4 DEF CallOK, Result
<1>5. CASE e.tracked /\ State(e) = "Reconnecting"
  <2> DEFINE acts == <<Unmap(e)>> \o cancel
  <2>1. ~Renderable(State(e))
    BY <1>5, Zenon DEF Renderable
  <2>2. OnRuntimeDeactivate(e) = Result(down, acts)
    BY <1>1, <1>5, <2>1, Zenon DEF OnRuntimeDeactivate, HotUnplugged
  <2>3. <<Unmap(e)>> \in Seq(Acts)
    BY <1>1, EmitsUnit, Zenon DEF Unmap, Ops
  <2> HIDE DEF down, cancel
  <2>4. acts \in Seq(Acts) /\ (e.scheduled => Emits(acts, "CancelReconnect"))
    BY <1>2, <2>3, EmitsConcat, Zenon
  <2> HIDE DEF acts
  <2> QED
    BY <1>3, <1>5, <2>1, <2>2, <2>4 DEF CallOK, Result
<1>6. CASE ~(e.tracked /\ Renderable(State(e))) /\ ~(e.tracked /\ State(e) = "Reconnecting")
  <2>1. OnRuntimeDeactivate(e) = Result(Idle(e), IF e.tracked THEN cancel ELSE <<>>)
    BY <1>6, Zenon DEF OnRuntimeDeactivate
  <2>2. State(e) # "Reconnecting" /\ ~e.scheduled /\ ~Renderable(State(e))
    BY <1>6, Zenon DEF Coherent, Renderable
  <2>3. Coherent(Idle(e)) /\ ~Idle(e).scheduled
    BY <1>1, <2>2, IdleCoherent, IdleFields, Zenon
  <2> DEFINE acts == IF e.tracked THEN cancel ELSE <<>>
  <2>4. acts \in Seq(Acts)
    BY <1>2
  <2> HIDE DEF acts
  <2>5. OnRuntimeDeactivate(e).entry = Idle(e) /\ OnRuntimeDeactivate(e).acts = acts
    BY <2>1 DEF Result, acts
  <2> QED
    BY <2>2, <2>3, <2>4, <2>5, Zenon DEF CallOK
<1> QED
  BY <1>4, <1>5, <1>6, Zenon

\* What refreshing the entry at the head of a discovery changes.
LEMMA RefreshedFields ==
  ASSUME NEW e \in Entries, NEW auto \in BOOLEAN, NEW layout \in Layouts
  PROVE  LET r == Refreshed(e, auto, layout)
         IN  /\ r \in Entries /\ r.tracked /\ ~r.scheduled
             /\ r.fsm = e.fsm /\ r.issue = e.issue /\ r.layout = layout
  BY Zenon DEF Refreshed, Entries

LEMMA DiscoveredAutoOK ==
  ASSUME NEW e, Coherent(e), NEW layout \in Layouts, NEW stamp \in Nat
  PROVE  CallOK(e, DiscoveredAuto(e, layout, stamp))
<1> DEFINE r == Refreshed(e, TRUE, layout)
<1>1. e \in Entries
  BY Zenon DEF Coherent
<1>2. /\ r \in Entries /\ r.tracked /\ ~r.scheduled
      /\ r.fsm = e.fsm /\ r.issue = e.issue /\ r.layout = layout
  BY <1>1, RefreshedFields, Zenon
<1> HIDE DEF r
<1>3. CancelIfScheduled(e) \in Seq(Acts)
        /\ (e.scheduled => Emits(CancelIfScheduled(e), "CancelReconnect"))
  BY <1>1, CancelEmits, Zenon
<1>4. CASE CanConnect(e.fsm) /\ ~InFlight(e)
  <2> DEFINE f == [r EXCEPT !.issue = stamp]
             acts == CancelIfScheduled(e) \o <<Connect(r)>>
  <2>1. DiscoveredAuto(e, layout, stamp) = Result(f, acts)
    BY <1>4, Zenon DEF DiscoveredAuto, r
  <2>2. /\ f \in Entries /\ f.fsm = e.fsm /\ f.issue = stamp
        /\ ~f.scheduled /\ f.tracked
    BY <1>2, Zenon DEF Entries
  <2>3. InFlight(f)
    BY <2>2, NoneAssumption DEF InFlight
  <2>4. Coherent(f) /\ State(f) = State(e)
    BY <1>4, <2>2, <2>3, Zenon DEF Coherent, State
  <2>5. <<Connect(r)>> \in Seq(Acts)
    BY <1>2, EmitsUnit, Zenon DEF Connect, Ops
  <2> HIDE DEF f
  <2>6. acts \in Seq(Acts) /\ (e.scheduled => Emits(acts, "CancelReconnect"))
    BY <1>3, <2>5, EmitsConcat, Zenon
  <2> HIDE DEF acts
  <2> QED
    BY <2>1, <2>2, <2>4, <2>6 DEF CallOK, Result
<1>5. CASE ~(CanConnect(e.fsm) /\ ~InFlight(e))
  <2>1. DiscoveredAuto(e, layout, stamp) = Result(r, CancelIfScheduled(e))
    BY <1>5, Zenon DEF DiscoveredAuto, r
  <2>2. State(e) = "Reconnecting" => InFlight(e)
    BY <1>5, Zenon DEF CanConnect, State
  <2>3. Coherent(r) /\ State(r) = State(e)
    BY <1>2, <2>2, Zenon DEF Coherent, State, InFlight
  <2> QED
    BY <1>2, <1>3, <2>1, <2>3 DEF CallOK, Result
<1> QED
  BY <1>4, <1>5, Zenon

LEMMA DiscoveredDeferredOK ==
  ASSUME NEW e, Coherent(e), NEW layout \in Layouts
  PROVE  CallOK(e, DiscoveredDeferred(e, layout))
<1> DEFINE r == Refreshed(e, FALSE, layout)
           m == Reset(e.fsm, "Known")
           down == [r EXCEPT !.fsm = m]
           cancel == CancelIfScheduled(e)
<1>1. e \in Entries /\ e.fsm \in Machines
  BY Zenon DEF Coherent, Entries
<1>2. /\ r \in Entries /\ r.tracked /\ ~r.scheduled
      /\ r.fsm = e.fsm /\ r.issue = e.issue /\ r.layout = layout
  BY <1>1, RefreshedFields, Zenon
<1>3. cancel \in Seq(Acts) /\ (e.scheduled => Emits(cancel, "CancelReconnect"))
  BY <1>1, CancelEmits, Zenon
<1>4. m \in Machines /\ m.state = "Known" /\ MachineCoherent(m)
  BY <1>1, ResetCoherent, Zenon DEF States
<1>5. [r EXCEPT !.fsm = HotUnplugged(@)] = down
  BY <1>2, Zenon DEF HotUnplugged
<1> HIDE DEF r, m, cancel
<1>6. Coherent(down) /\ ~down.scheduled
  <2>1. /\ down \in Entries /\ down.fsm = m /\ down.issue = e.issue
        /\ ~down.scheduled /\ down.tracked
    BY <1>2, <1>4, Zenon DEF Entries
  <2> QED
    BY <1>4, <2>1, Zenon DEF Coherent, State, InFlight, CanConnect
<1> HIDE DEF down
<1>7. CASE Renderable(State(e))
  <2> DEFINE front == <<Disconnect(r), Unmap(r)>>
             acts == cancel \o front
  <2>1. DiscoveredDeferred(e, layout) = Result(down, acts)
    <3>1. State(e) # "Reconnecting"
      BY <1>7, Zenon DEF Renderable
    <3> QED
      BY <1>5, <1>7, <3>1, Zenon DEF DiscoveredDeferred, r, cancel
  <2>2. front \in Seq(Acts)
    BY <1>2 DEF Disconnect, Unmap, Act, Acts, Ops
  <2>3. Emits(front, "Disconnect")
    <3>1. 1 \in DOMAIN front /\ front[1].op = "Disconnect"
      BY DEF Disconnect, Act
    <3> QED
      BY <3>1, Zenon DEF Emits
  <2> HIDE DEF front
  <2>4. /\ acts \in Seq(Acts) /\ Emits(acts, "Disconnect")
        /\ e.scheduled => Emits(acts, "CancelReconnect")
    BY <1>3, <2>2, <2>3, EmitsConcat, Zenon
  <2> HIDE DEF acts
  <2> QED
    BY <1>6, <2>1, <2>4 DEF CallOK, Result
<1>8. CASE State(e) = "Reconnecting"
  <2>1. ~Renderable(State(e))
    BY <1>8, Zenon DEF Renderable
  <2>2. DiscoveredDeferred(e, layout) = Result(down, cancel)
    BY <1>5, <1>8, <2>1, Zenon DEF DiscoveredDeferred, r, cancel
  <2> QED
    BY <1>3, <1>6, <2>1, <2>2 DEF CallOK, Result
<1>9. CASE ~Renderable(State(e)) /\ State(e) # "Reconnecting"
  <2>1. DiscoveredDeferred(e, layout) = Result(r, cancel)
    BY <1>9, Zenon DEF DiscoveredDeferred, r, cancel
  <2>2. Coherent(r) /\ State(r) = State(e)
    BY <1>2, <1>9 DEF Coherent, State, InFlight
  <2> QED
    BY <1>2, <1>3, <1>9, <2>1, <2>2 DEF CallOK, Result
<1> QED
  BY <1>7, <1>8, <1>9, Zenon

\* Replacing the machine by one that differs only in parts no mark depends on.
LEMMA MachineOnlyOK ==
  ASSUME NEW e, Coherent(e), NEW m \in Machines, MachineCoherent(m),
         \/ m.state = State(e)
         \/ Renderable(State(e)) /\ Renderable(m.state)
  PROVE  CallOK(e, Result([e EXCEPT !.fsm = m], <<>>))
<1> DEFINE f == [e EXCEPT !.fsm = m]
<1>1. /\ f \in Entries /\ f.fsm = m /\ f.issue = e.issue
      /\ f.scheduled = e.scheduled /\ f.tracked = e.tracked
  BY Zenon DEF Coherent, Entries
<1> HIDE DEF f
<1>2. Coherent(f) /\ (Renderable(State(e)) => Renderable(State(f)))
  BY <1>1, Zenon DEF Coherent, State, InFlight, CanConnect, Renderable
<1>3. CallOK(e, Result(f, <<>>))
  BY <1>1, <1>2 DEF CallOK, Result
<1> QED
  BY <1>3, Zenon DEF f

LEMMA OnFrameSuccessOK ==
  ASSUME NEW e, Coherent(e), Renderable(State(e))
  PROVE  CallOK(e, Result(OnFrameSuccess(e), <<>>))
<1>1. e.fsm \in Machines /\ MachineCoherent(e.fsm)
  BY Zenon DEF Coherent, Entries
<1>2. /\ FrameSuccess(e.fsm) \in Machines
      /\ FrameSuccess(e.fsm) = [e.fsm EXCEPT !.state = "Active"]
  BY <1>1, FrameSuccessMachine, Zenon
<1>3. MachineCoherent(FrameSuccess(e.fsm)) /\ Renderable(FrameSuccess(e.fsm).state)
  BY <1>1, <1>2, Zenon DEF MachineCoherent, Machines, Renderable, State
<1> QED
  BY <1>2, <1>3, MachineOnlyOK, Zenon DEF OnFrameSuccess

LEMMA EscalationTakenOK ==
  ASSUME NEW e, Coherent(e)
  PROVE  CallOK(e, Result([e EXCEPT !.fsm = EscalationTaken(@)], <<>>))
<1>1. e.fsm \in Machines /\ MachineCoherent(e.fsm)
  BY Zenon DEF Coherent, Entries
<1> DEFINE m == EscalationTaken(e.fsm)
<1>2. m \in Machines /\ m = [e.fsm EXCEPT !.escalation = FALSE]
  BY <1>1, EscalationTakenMachine, Zenon
<1>3. MachineCoherent(m) /\ m.state = State(e)
  BY <1>1, <1>2, Zenon DEF MachineCoherent, Machines, State
<1> QED
  BY <1>2, <1>3, MachineOnlyOK, Zenon

LEMMA AgedOK ==
  ASSUME NEW e, Coherent(e)
  PROVE  CallOK(e, Result([e EXCEPT !.fsm = Aged(@)], <<>>))
<1>1. e.fsm \in Machines /\ MachineCoherent(e.fsm)
  BY Zenon DEF Coherent, Entries
<1> DEFINE m == Aged(e.fsm)
<1>2. /\ m \in Machines
      /\ \/ m = e.fsm
         \/ e.fsm.age # None /\ m.age # None /\ m = [e.fsm EXCEPT !.age = m.age]
  BY <1>1, AgedMachine, Zenon
<1> HIDE DEF m
<1>3. MachineCoherent(m) /\ m.state = State(e)
  BY <1>1, <1>2, Zenon DEF MachineCoherent, Machines, State
<1>4. CallOK(e, Result([e EXCEPT !.fsm = m], <<>>))
  BY <1>2, <1>3, MachineOnlyOK, Zenon
<1> QED
  BY <1>4, Zenon DEF m

LEMMA RebindOK ==
  ASSUME NEW e, Coherent(e), NEW layout \in Layouts
  PROVE  CallOK(e, Result(RebindLayout(e, layout), <<>>))
<1> DEFINE f == RebindLayout(e, layout)
<1>1. /\ f \in Entries /\ f.fsm = e.fsm /\ f.issue = e.issue
      /\ f.scheduled = e.scheduled /\ f.tracked = e.tracked
  BY Zenon DEF Coherent, Entries, RebindLayout
<1> HIDE DEF f
<1>2. Coherent(f) /\ State(f) = State(e)
  BY <1>1, Zenon DEF Coherent, State, InFlight
<1>3. CallOK(e, Result(f, <<>>))
  BY <1>1, <1>2 DEF CallOK, Result
<1> QED
  BY <1>3, Zenon DEF f

-----------------------------------------------------------------------------
(* The invariant and the theorems. *)

IInv == LifecycleTypeOK /\ \A d \in Devices : Coherent(entries[d])

\* A fresh manager tracks nothing.
LEMMA InitIInv == LifecycleInit => IInv
<1> SUFFICES ASSUME LifecycleInit PROVE IInv
  BY Zenon
<1>1. NewMachine \in Machines /\ MachineCoherent(NewMachine) /\ NewMachine.state = "Known"
  BY Zenon DEF NewMachine, Machines, States, MachineCoherent
<1>2. Untracked \in Entries
  <2>1. (CHOOSE l \in Layouts : TRUE) \in Layouts
    BY LayoutsAssumption, Zenon
  <2> QED
    BY <1>1, <2>1, Zenon DEF Untracked, Entries
<1>3. Coherent(Untracked)
  BY <1>1, <1>2, Zenon DEF Untracked, Coherent, State, InFlight
<1>4. LifecycleTypeOK
  <2>1. PICK d \in Devices : outbox = [device |-> d, acts |-> <<>>]
    BY Zenon DEF LifecycleInit, Silent
  <2>2. outbox \in [device : Devices, acts : Seq(Acts)]
    BY <2>1
  <2>3. entries \in [Devices -> Entries] /\ stamps \in Nat /\ stale \subseteq Devices
    BY <1>2, Zenon DEF LifecycleInit
  <2> QED
    BY <2>2, <2>3, Zenon DEF LifecycleTypeOK
<1> QED
  BY <1>3, <1>4, Zenon DEF LifecycleInit, IInv

\* Every step is one manager call on one device that pays what it owes.
LEMMA StepIsCall ==
  ASSUME IInv, LifecycleNext
  PROVE  \E d \in Devices : \E r : /\ CallOK(entries[d], r)
                                   /\ Returned(d, r)
                                   /\ stamps' \in Nat /\ stale' \subseteq Devices
<1>1. PICK d \in Devices :
        \/ Discovered(d) \/ RetryStale(d) \/ Rebind(d)
        \/ ConnectSucceeds(d) \/ ConnectFails(d) \/ ConnectIsAbandoned(d)
        \/ FrameWritten(d) \/ CommErrorReported(d) \/ ReconnectAsked(d)
        \/ ReconnectTimerFires(d) \/ ReconnectFails(d) \/ Vanished(d)
        \/ UserDisables(d) \/ UserEnables(d) \/ Deactivated(d)
        \/ EscalationReported(d) \/ TimePasses(d) \/ MarkAges(d)
  BY Zenon DEF LifecycleNext
<1> DEFINE e == entries[d]
<1>2. Coherent(e) /\ stamps \in Nat /\ stamps + 1 \in Nat
  BY DEF IInv, LifecycleTypeOK
<1>3. ASSUME NEW r, CallOK(e, r), ApplyStamped(d, r) \/ Quietly(d, r)
      PROVE  /\ CallOK(e, r) /\ Returned(d, r)
             /\ stamps' \in Nat /\ stale' \subseteq Devices
  BY <1>2, <1>3, Zenon DEF ApplyStamped, Quietly, Apply, IInv, LifecycleTypeOK
<1> HIDE DEF e
<1>4. CASE Discovered(d)
  <2>1. PICK auto \in BOOLEAN, layout \in Layouts :
          ApplyStamped(d, OnDiscovered(e, auto, layout, stamps + 1))
    BY <1>4, Zenon DEF Discovered, e
  <2>2. CallOK(e, OnDiscovered(e, auto, layout, stamps + 1))
    BY <1>2, DiscoveredAutoOK, DiscoveredDeferredOK, Zenon DEF OnDiscovered
  <2> QED
    BY <1>3, <2>1, <2>2, Zenon DEF e
<1>5. CASE RetryStale(d)
  <2>1. CallOK(e, RetryStaleKnownConnect(e, stamps + 1))
    BY <1>2, <1>5, IssueOK, Zenon DEF RetryStale, CanRetryStale, RetryStaleKnownConnect, State,
       CanConnect, e
  <2> QED
    BY <1>3, <1>5, <2>1, Zenon DEF RetryStale, e
<1>6. CASE Rebind(d)
  <2>1. PICK layout \in Layouts : Quietly(d, Result(RebindLayout(e, layout), <<>>))
    BY <1>6, Zenon DEF Rebind, e
  <2> QED
    BY <1>2, <1>3, <2>1, RebindOK, Zenon DEF e
<1>7. CASE ConnectSucceeds(d)
  BY <1>2, <1>3, <1>7, OnConnectedOK, Zenon DEF ConnectSucceeds, e
<1>8. CASE ConnectFails(d)
  BY <1>2, <1>3, <1>8, OnConnectFailedOK, Zenon DEF ConnectFails, e
<1>9. CASE ConnectIsAbandoned(d)
  BY <1>2, <1>3, <1>9, OnConnectAbandonedOK, Zenon DEF ConnectIsAbandoned, e
<1>10. CASE FrameWritten(d)
  BY <1>2, <1>3, <1>10, OnFrameSuccessOK, Zenon DEF FrameWritten, e
<1>11. CASE CommErrorReported(d)
  BY <1>2, <1>3, <1>11, OnCommErrorOK, Zenon DEF CommErrorReported, e
<1>12. CASE ReconnectAsked(d)
  BY <1>2, <1>3, <1>12, OnReconnectRequestedOK, Zenon DEF ReconnectAsked, e
<1>13. CASE ReconnectTimerFires(d)
  <2>1. CallOK(e, OnReconnectAttempt(e, stamps + 1))
    BY <1>2, <1>13, IssueOK, Zenon DEF ReconnectTimerFires, CanAttempt, OnReconnectAttempt, State,
       CanConnect, e
  <2> QED
    BY <1>3, <1>13, <2>1, Zenon DEF ReconnectTimerFires, e
<1>14. CASE ReconnectFails(d)
  BY <1>2, <1>3, <1>14, OnReconnectFailedOK, Zenon DEF ReconnectFails, e
<1>15. CASE Vanished(d)
  BY <1>2, <1>3, <1>15, OnDeviceVanishedOK, Zenon DEF Vanished, e
<1>16. CASE UserDisables(d)
  BY <1>2, <1>3, <1>16, OnUserDisableOK, Zenon DEF UserDisables, e
<1>17. CASE UserEnables(d)
  BY <1>2, <1>3, <1>17, OnUserEnableOK, Zenon DEF UserEnables, e
<1>18. CASE Deactivated(d)
  BY <1>2, <1>3, <1>18, OnRuntimeDeactivateOK, Zenon DEF Deactivated, e
<1>19. CASE EscalationReported(d)
  BY <1>2, <1>3, <1>19, EscalationTakenOK, Zenon DEF EscalationReported, e
<1>20. CASE TimePasses(d)
  BY <1>2, <1>3, <1>20, AgedOK, Zenon DEF TimePasses, e
<1>21. CASE MarkAges(d)
  <2>1. CallOK(e, Result(e, <<>>))
    BY <1>2, NoCallOK, Zenon
  <2> QED
    BY <1>2, <1>21, <2>1, Zenon DEF MarkAges, IInv, LifecycleTypeOK, e
<1> QED
  BY <1>1, <1>4, <1>5, <1>6, <1>7, <1>8, <1>9, <1>10, <1>11, <1>12, <1>13, <1>14, <1>15, <1>16,
     <1>17, <1>18, <1>19, <1>20, <1>21, Zenon

LEMMA NextIInv == IInv /\ [LifecycleNext]_lifecycleVars => IInv'
<1> SUFFICES ASSUME IInv, [LifecycleNext]_lifecycleVars PROVE IInv'
  BY Zenon
<1>1. CASE LifecycleNext
  <2>0. PICK d \in Devices :
          \E r : /\ CallOK(entries[d], r) /\ Returned(d, r)
                 /\ stamps' \in Nat /\ stale' \subseteq Devices
    BY <1>1, StepIsCall, Zenon
  <2>1. PICK r : /\ CallOK(entries[d], r) /\ Returned(d, r)
                 /\ stamps' \in Nat /\ stale' \subseteq Devices
    BY <2>0, Zenon
  <2>2. Coherent(r.entry) /\ r.entry \in Entries /\ r.acts \in Seq(Acts)
    BY <2>1, Zenon DEF CallOK, Coherent
  <2>3. /\ entries' = [entries EXCEPT ![d] = r.entry]
        /\ outbox' = [device |-> d, acts |-> r.acts]
    BY <2>1, Zenon DEF Returned
  <2>4. LifecycleTypeOK'
    BY <2>1, <2>2, <2>3, Zenon DEF IInv, LifecycleTypeOK
  <2>5. ASSUME NEW c \in Devices PROVE Coherent(entries'[c])
    <3>1. entries'[c] = IF c = d THEN r.entry ELSE entries[c]
      BY <2>3, Zenon DEF IInv, LifecycleTypeOK
    <3> QED
      BY <2>2, <3>1, Zenon DEF IInv
  <2>6. (\A c \in Devices : Coherent(entries[c]))'
    BY <2>5, Zenon DEF Coherent, MachineCoherent, InFlight, State
  <2> QED
    BY <2>4, <2>6, Zenon DEF IInv
<1>2. CASE UNCHANGED lifecycleVars
  BY <1>2, Zenon DEF lifecycleVars, IInv, LifecycleTypeOK, Coherent, MachineCoherent, InFlight, State
<1> QED
  BY <1>1, <1>2, Zenon

LEMMA AlwaysIInv == LifecycleSpec => []IInv
  BY InitIInv, NextIInv, PTL DEF LifecycleSpec

\* The manager's tables, stamps and returned actions keep their types.
THEOREM TypeCorrect == LifecycleSpec => []LifecycleTypeOK
<1>1. IInv => LifecycleTypeOK
  BY Zenon DEF IInv
<1> QED
  BY <1>1, AlwaysIInv, PTL

\* The in-flight and scheduled marks agree with the machines for any number of
\* devices, whichever of the seventeen calls come, and in whatever order.
THEOREM MarksAlwaysMatch == LifecycleSpec => []MarksMatchState
<1>1. IInv => MarksMatchState
  BY Zenon DEF IInv, Coherent, MarksMatchState
<1> QED
  BY <1>1, AlwaysIInv, PTL

\* The manager strands no device in Reconnecting.
THEOREM ReconnectingAlwaysDriven == LifecycleSpec => []ReconnectingIsDriven
<1>1. IInv => ReconnectingIsDriven
  BY Zenon DEF IInv, Coherent, ReconnectingIsDriven
<1> QED
  BY <1>1, AlwaysIInv, PTL

\* What a step does to each device, from what its call owes.
LEMMA StepOwes ==
  ASSUME IInv, [LifecycleNext]_lifecycleVars, NEW c \in Devices
  PROVE  /\ Renderable(State(entries[c])) /\ ~Renderable(State(entries'[c])) =>
              outbox'.device = c /\ Emits(outbox'.acts, "Disconnect")
         /\ ~entries[c].scheduled /\ entries'[c].scheduled =>
              outbox'.device = c /\ Emits(outbox'.acts, "SpawnReconnect")
         /\ entries[c].scheduled /\ ~entries'[c].scheduled =>
              outbox'.device = c /\ Emits(outbox'.acts, "CancelReconnect")
<1>1. CASE LifecycleNext
  <2>0. PICK d \in Devices :
          \E r : /\ CallOK(entries[d], r) /\ Returned(d, r)
                 /\ stamps' \in Nat /\ stale' \subseteq Devices
    BY <1>1, StepIsCall, Zenon
  <2>1. PICK r : /\ CallOK(entries[d], r) /\ Returned(d, r)
                 /\ stamps' \in Nat /\ stale' \subseteq Devices
    BY <2>0, Zenon
  <2>2. /\ entries' = [entries EXCEPT ![d] = r.entry]
        /\ outbox'.device = d /\ outbox'.acts = r.acts
    BY <2>1, Zenon DEF Returned
  <2>3. CASE c = d
    <3>1. entries'[c] = r.entry
      BY <2>2, <2>3, Zenon DEF IInv, LifecycleTypeOK
    <3> QED
      BY <2>1, <2>2, <2>3, <3>1, Zenon DEF CallOK
  <2>4. CASE c # d
    <3>1. entries'[c] = entries[c]
      BY <2>2, <2>4, Zenon DEF IInv, LifecycleTypeOK
    <3> QED
      BY <3>1, Zenon
  <2> QED
    BY <2>3, <2>4, Zenon
<1>2. CASE UNCHANGED lifecycleVars
  BY <1>2, Zenon DEF lifecycleVars
<1> QED
  BY <1>1, <1>2, Zenon

\* No call takes a device out of the renderable states without returning the
\* Disconnect that closes its session.
THEOREM AlwaysDisconnects == LifecycleSpec => LeavingRenderableDisconnects
<1>1. IInv /\ [LifecycleNext]_lifecycleVars =>
        [\A d \in Devices :
           Renderable(State(entries[d])) /\ ~Renderable(State(entries'[d])) =>
             outbox'.device = d /\ Emits(outbox'.acts, "Disconnect")]_lifecycleVars
  BY StepOwes, Zenon
<1> QED
  BY <1>1, AlwaysIInv, PTL DEF LifecycleSpec, LeavingRenderableDisconnects

\* The reconnect_scheduled flag never moves without the matching timer action.
THEOREM TimersAlwaysFollow == LifecycleSpec => TimersFollowTheFlag
<1>1. IInv /\ [LifecycleNext]_lifecycleVars =>
        [\A d \in Devices :
           /\ (~entries[d].scheduled /\ entries'[d].scheduled) =>
                outbox'.device = d /\ Emits(outbox'.acts, "SpawnReconnect")
           /\ (entries[d].scheduled /\ ~entries'[d].scheduled) =>
                outbox'.device = d /\ Emits(outbox'.acts, "CancelReconnect")]_lifecycleVars
  BY StepOwes, Zenon
<1> QED
  BY <1>1, AlwaysIInv, PTL DEF LifecycleSpec, TimersFollowTheFlag

-----------------------------------------------------------------------------
(* Connect calls. *)

\* No list is made to emit more by joining it to another.
LEMMA EmitsEither ==
  ASSUME NEW a \in Seq(Acts), NEW b \in Seq(Acts), NEW op, Emits(a \o b, op)
  PROVE  Emits(a, op) \/ Emits(b, op)
<1>1. PICK i \in DOMAIN (a \o b) : (a \o b)[i].op = op
  BY Zenon DEF Emits
<1>2. CASE i \in DOMAIN a
  BY <1>1, <1>2 DEF Emits
<1>3. CASE i \notin DOMAIN a
  <2>1. i - Len(a) \in DOMAIN b /\ (a \o b)[i] = b[i - Len(a)]
    BY <1>1, <1>3
  <2> QED
    BY <1>1, <2>1, Zenon DEF Emits
<1> QED
  BY <1>2, <1>3, Zenon

\* A list of actions that asks for no connect.
ConnectFree(acts) == acts \in Seq(Acts) /\ ~Emits(acts, "Connect")

\* Joining such lists gives such a list.
LEMMA ConnectFreeConcat ==
  ASSUME NEW a, ConnectFree(a), NEW b, ConnectFree(b)
  PROVE  ConnectFree(a \o b)
  BY EmitsConcat, EmitsEither, Zenon DEF ConnectFree

\* The lists the manager's methods put together without a Connect.
LEMMA NoConnectLists ==
  ASSUME NEW e \in Entries
  PROVE  /\ ConnectFree(<<>>) /\ ConnectFree(<<Unmap(e)>>) /\ ConnectFree(<<Spawn(e)>>)
         /\ ConnectFree(<<Disconnect(e), Unmap(e)>>)
         /\ ConnectFree(<<Disconnect(e), Unmap(e), Spawn(e)>>)
         /\ ConnectFree(CancelIfScheduled(e)) /\ ConnectFree(DisconnectIfRenderable(e))
<1>1. /\ Unmap(e) \in Acts /\ Spawn(e) \in Acts /\ Disconnect(e) \in Acts
      /\ Act("CancelReconnect", e.layout) \in Acts
      /\ Unmap(e).op # "Connect" /\ Spawn(e).op # "Connect" /\ Disconnect(e).op # "Connect"
      /\ Act("CancelReconnect", e.layout).op # "Connect"
  BY Zenon DEF Entries, Unmap, Spawn, Disconnect, Act, Acts, Ops
<1>2. ASSUME NEW a \in Acts, a.op # "Connect"
      PROVE  ConnectFree(<<a>>)
  BY <1>2 DEF Emits, ConnectFree
<1>3. ASSUME NEW a \in Acts, a.op # "Connect", NEW b \in Acts, b.op # "Connect"
      PROVE  ConnectFree(<<a, b>>)
  BY <1>3 DEF Emits, ConnectFree
<1>4. ASSUME NEW a \in Acts, a.op # "Connect", NEW b \in Acts, b.op # "Connect",
             NEW c \in Acts, c.op # "Connect"
      PROVE  ConnectFree(<<a, b, c>>)
  BY <1>4 DEF Emits, ConnectFree
<1>5. ConnectFree(<<>>)
  BY DEF Emits, ConnectFree
<1>6. ConnectFree(CancelIfScheduled(e))
  BY <1>1, <1>2, <1>5, Zenon DEF CancelIfScheduled
<1>7. ConnectFree(DisconnectIfRenderable(e))
  BY <1>1, <1>2, <1>5, Zenon DEF DisconnectIfRenderable
<1> QED
  BY <1>1, <1>2, <1>3, <1>4, <1>5, <1>6, <1>7, Zenon

\* What a call that returns a Connect owes: the connect is stamped, and replaces at
\* most one that is old, on a Known device.
SingleOK(e, old, r, stamp) ==
  Emits(r.acts, "Connect") =>
    /\ r.entry.issue = stamp
    /\ InFlight(e) => old /\ State(e) = "Known"

\* Outcomes, faults, departures and user vetoes ask for no connect.
LEMMA QuietCalls ==
  ASSUME NEW e \in Entries
  PROVE  /\ ConnectFree(OnConnected(e).acts) /\ ConnectFree(OnConnectFailed(e).acts)
         /\ ConnectFree(OnConnectAbandoned(e).acts) /\ ConnectFree(OnCommError(e).acts)
         /\ ConnectFree(OnReconnectRequested(e).acts) /\ ConnectFree(OnReconnectFailed(e).acts)
         /\ ConnectFree(OnDeviceVanished(e).acts) /\ ConnectFree(OnUserDisable(e).acts)
         /\ ConnectFree(OnRuntimeDeactivate(e).acts)
<1>1. ConnectFree(OnConnected(e).acts) /\ ConnectFree(OnConnectAbandoned(e).acts)
  BY NoConnectLists, Zenon DEF OnConnected, OnConnectAbandoned, Result
<1>2. ConnectFree(OnConnectFailed(e).acts) /\ ConnectFree(OnReconnectFailed(e).acts)
  BY NoConnectLists, Zenon DEF OnConnectFailed, OnReconnectFailed, Result
<1>3. ConnectFree(OnCommError(e).acts) /\ ConnectFree(OnReconnectRequested(e).acts)
  BY NoConnectLists, Zenon DEF OnCommError, OnReconnectRequested, ReconnectAfter, Result
<1>4. ConnectFree(DisconnectIfRenderable(e) \o <<Unmap(e)>> \o CancelIfScheduled(e))
  BY NoConnectLists, ConnectFreeConcat, Zenon
<1>5. ConnectFree(OnDeviceVanished(e).acts) /\ ConnectFree(OnUserDisable(e).acts)
  BY <1>4, NoConnectLists, Zenon DEF OnDeviceVanished, OnUserDisable, Result
<1>6. ConnectFree(<<Disconnect(e), Unmap(e)>> \o CancelIfScheduled(e))
  BY NoConnectLists, ConnectFreeConcat, Zenon
<1>7. ConnectFree(<<Unmap(e)>> \o CancelIfScheduled(e))
  BY NoConnectLists, ConnectFreeConcat, Zenon
<1>8. ConnectFree(OnRuntimeDeactivate(e).acts)
  BY <1>6, <1>7, NoConnectLists, Zenon DEF OnRuntimeDeactivate, Result
<1> QED
  BY <1>1, <1>2, <1>3, <1>5, <1>8, Zenon

\* Discovery, a retry, an attempt and user_enable ask for a connect only where none
\* is in flight or the one that is went stale.
LEMMA StampedCalls ==
  ASSUME NEW e \in Entries, NEW stamp \in Nat, NEW old
  PROVE  /\ \A auto \in BOOLEAN, layout \in Layouts :
              SingleOK(e, old, OnDiscovered(e, auto, layout, stamp), stamp)
         /\ CanRetryStale(e) /\ old => SingleOK(e, old, RetryStaleKnownConnect(e, stamp), stamp)
         /\ CanAttempt(e) => SingleOK(e, old, OnReconnectAttempt(e, stamp), stamp)
         /\ SingleOK(e, old, OnUserEnable(e, stamp), stamp)
<1>1. ASSUME NEW layout \in Layouts
      PROVE  SingleOK(e, old, DiscoveredAuto(e, layout, stamp), stamp)
  <2>1. Refreshed(e, TRUE, layout) \in Entries
    BY Zenon DEF Refreshed, Entries
  <2>2. [Refreshed(e, TRUE, layout) EXCEPT !.issue = stamp].issue = stamp
    BY <2>1, Zenon DEF Entries
  <2>3. ~Emits(CancelIfScheduled(e), "Connect")
    BY NoConnectLists, Zenon DEF ConnectFree
  <2> QED
    BY <2>2, <2>3, Zenon DEF SingleOK, DiscoveredAuto, Result
<1>2. ASSUME NEW layout \in Layouts
      PROVE  ConnectFree(DiscoveredDeferred(e, layout).acts)
  <2>1. Refreshed(e, FALSE, layout) \in Entries
    BY Zenon DEF Refreshed, Entries
  <2>2. ConnectFree(<<Disconnect(Refreshed(e, FALSE, layout)), Unmap(Refreshed(e, FALSE, layout))>>)
    BY <2>1, NoConnectLists, Zenon
  <2>3. ConnectFree(CancelIfScheduled(e))
    BY NoConnectLists, Zenon
  <2> QED
    BY <2>2, <2>3, ConnectFreeConcat, Zenon DEF DiscoveredDeferred, Result
<1>3. \A auto \in BOOLEAN, layout \in Layouts :
        SingleOK(e, old, OnDiscovered(e, auto, layout, stamp), stamp)
  BY <1>1, <1>2, Zenon DEF OnDiscovered, SingleOK, ConnectFree
<1>4. [e EXCEPT !.issue = stamp].issue = stamp
  BY Zenon DEF Entries
<1>5. CanRetryStale(e) /\ old => SingleOK(e, old, RetryStaleKnownConnect(e, stamp), stamp)
  BY <1>4, Zenon DEF CanRetryStale, SingleOK, RetryStaleKnownConnect, Result
<1>6. CanAttempt(e) => SingleOK(e, old, OnReconnectAttempt(e, stamp), stamp)
  BY <1>4, Zenon DEF CanAttempt, SingleOK, OnReconnectAttempt, Result
<1>7. SingleOK(e, old, OnUserEnable(e, stamp), stamp)
  <2>1. [[e EXCEPT !.fsm = UserEnabled(@)] EXCEPT !.issue = stamp].issue = stamp
    BY Zenon DEF Entries
  <2>2. ~Emits(<<>>, "Connect")
    BY NoConnectLists, Zenon DEF ConnectFree
  <2> QED
    BY <2>1, <2>2, Zenon DEF SingleOK, OnUserEnable, Result
<1> QED
  BY <1>3, <1>5, <1>6, <1>7, Zenon

\* A step that returns a Connect stamps it anew, and replaces at most an old one.
LEMMA StepIsSingle ==
  ASSUME IInv, LifecycleNext
  PROVE  \E d \in Devices : \E r : /\ Returned(d, r)
                                   /\ SingleOK(entries[d], d \in stale, r, stamps')
                                   /\ Emits(r.acts, "Connect") => stamps' = stamps + 1
<1>1. PICK d \in Devices :
        \/ Discovered(d) \/ RetryStale(d) \/ Rebind(d)
        \/ ConnectSucceeds(d) \/ ConnectFails(d) \/ ConnectIsAbandoned(d)
        \/ FrameWritten(d) \/ CommErrorReported(d) \/ ReconnectAsked(d)
        \/ ReconnectTimerFires(d) \/ ReconnectFails(d) \/ Vanished(d)
        \/ UserDisables(d) \/ UserEnables(d) \/ Deactivated(d)
        \/ EscalationReported(d) \/ TimePasses(d) \/ MarkAges(d)
  BY Zenon DEF LifecycleNext
<1>2. entries[d] \in Entries /\ stamps + 1 \in Nat
  BY DEF IInv, LifecycleTypeOK
<1> DEFINE Single(r) == /\ Returned(d, r)
                        /\ SingleOK(entries[d], d \in stale, r, stamps')
                        /\ Emits(r.acts, "Connect") => stamps' = stamps + 1
<1>3. ASSUME NEW r, ApplyStamped(d, r), SingleOK(entries[d], d \in stale, r, stamps + 1)
      PROVE  Single(r)
  BY <1>2, <1>3, Zenon DEF ApplyStamped, Apply, SingleOK
<1>4. ASSUME NEW r, Returned(d, r), ConnectFree(r.acts)
      PROVE  Single(r)
  BY <1>4, Zenon DEF SingleOK, ConnectFree
<1>0. ASSUME NEW r, Quietly(d, r), ConnectFree(r.acts)
      PROVE  Single(r)
  BY <1>0, <1>4, Zenon DEF Quietly, Apply
<1> SUFFICES \E r : Single(r)
  BY <1>1, Zenon
<1> HIDE DEF Single
<1>5. CASE Discovered(d)
  <2>1. PICK auto \in BOOLEAN, layout \in Layouts :
          ApplyStamped(d, OnDiscovered(entries[d], auto, layout, stamps + 1))
    BY <1>5, Zenon DEF Discovered
  <2> QED
    BY <1>2, <1>3, <2>1, StampedCalls, Zenon
<1>6. CASE RetryStale(d)
  BY <1>2, <1>3, <1>6, StampedCalls, Zenon DEF RetryStale
<1>7. CASE ReconnectTimerFires(d)
  BY <1>2, <1>3, <1>7, StampedCalls, Zenon DEF ReconnectTimerFires
<1>8. CASE UserEnables(d)
  BY <1>2, <1>3, <1>8, StampedCalls, Zenon DEF UserEnables
<1>9. CASE ConnectSucceeds(d) \/ ConnectFails(d) \/ ConnectIsAbandoned(d)
  BY <1>2, <1>0, <1>9, QuietCalls, Zenon DEF ConnectSucceeds, ConnectFails, ConnectIsAbandoned
<1>10. CASE CommErrorReported(d) \/ ReconnectAsked(d) \/ ReconnectFails(d)
  BY <1>2, <1>0, <1>10, QuietCalls, Zenon DEF CommErrorReported, ReconnectAsked, ReconnectFails
<1>11. CASE Vanished(d) \/ UserDisables(d) \/ Deactivated(d)
  BY <1>2, <1>0, <1>11, QuietCalls, Zenon DEF Vanished, UserDisables, Deactivated
<1>12. CASE Rebind(d) \/ FrameWritten(d) \/ EscalationReported(d) \/ TimePasses(d)
  <2>1. PICK f : Quietly(d, Result(f, <<>>))
    BY <1>12, Zenon DEF Rebind, FrameWritten, EscalationReported, TimePasses
  <2>2. ConnectFree(Result(f, <<>>).acts)
    BY <1>2, NoConnectLists, Zenon DEF Result
  <2> QED
    BY <1>0, <2>1, <2>2, Zenon
<1>13. CASE MarkAges(d)
  <2>1. ConnectFree(Result(entries[d], <<>>).acts)
    BY <1>2, NoConnectLists, Zenon DEF Result
  <2> QED
    BY <1>4, <1>13, <2>1, Zenon DEF MarkAges
<1> QED
  BY <1>1, <1>5, <1>6, <1>7, <1>8, <1>9, <1>10, <1>11, <1>12, <1>13, Zenon

\* The manager asks for at most one connect of a device at a time, whichever calls
\* come and in whatever order: a Connect it returns carries a new stamp, and
\* replaces at most one whose mark is older than connect_in_flight_stale_after.
THEOREM ConnectsAreAlwaysSingle == LifecycleSpec => ConnectsAreSingle
<1> DEFINE A == \A d \in Devices :
                  outbox'.device = d /\ Emits(outbox'.acts, "Connect") =>
                    /\ entries'[d].issue = stamps' /\ stamps' = stamps + 1
                    /\ InFlight(entries[d]) => d \in stale /\ State(entries[d]) = "Known"
<1>1. IInv /\ [LifecycleNext]_lifecycleVars => [A]_lifecycleVars
  <2> SUFFICES ASSUME IInv, LifecycleNext, NEW c \in Devices,
                      outbox'.device = c, Emits(outbox'.acts, "Connect")
               PROVE  /\ entries'[c].issue = stamps' /\ stamps' = stamps + 1
                      /\ InFlight(entries[c]) => c \in stale /\ State(entries[c]) = "Known"
    BY Zenon DEF lifecycleVars
  <2>1. PICK d \in Devices : \E r : /\ Returned(d, r)
                                    /\ SingleOK(entries[d], d \in stale, r, stamps')
                                    /\ Emits(r.acts, "Connect") => stamps' = stamps + 1
    BY StepIsSingle, Zenon
  <2>2. PICK r : /\ Returned(d, r)
                 /\ SingleOK(entries[d], d \in stale, r, stamps')
                 /\ Emits(r.acts, "Connect") => stamps' = stamps + 1
    BY <2>1, Zenon
  <2>3. c = d /\ outbox'.acts = r.acts /\ entries'[d] = r.entry
    BY <2>2, Zenon DEF Returned, IInv, LifecycleTypeOK
  <2> QED
    BY <2>2, <2>3, Zenon DEF SingleOK
<1> QED
  BY <1>1, AlwaysIInv, PTL DEF LifecycleSpec, ConnectsAreSingle

-----------------------------------------------------------------------------
(* The tasks of a device. *)

\* A local state has all the fields of IdleTask.
Fields == {"pc", "acts", "fence", "on", "auto", "outcome", "seen", "back", "pairing"}
Shaped(r) == r = [x \in Fields |-> r[x]]

\* Every task has its local state, with all the fields.
Shape == task = [t \in Tasks |-> task[t]] /\ \A t \in Tasks : Shaped(task[t])

\* What the program counter of a task tells about the rest of its state.
Local(t) ==
  /\ task[t].back \in {"end", "exec"}
  /\ task[t].fence # None => t \in Backgrounds
  /\ t \in Scans \cup Backgrounds => task[t].pairing = FALSE
  /\ task[t].pc \in {"fence", "teardown"} => task[t].fence # None /\ task[t].outcome = "ok"
  /\ t \in Backgrounds /\ task[t].pc = "remap" => task[t].back = "exec"

\* Where a reconnect task is while its own handle may be stored.
Dozing == {"sleep", "woken"}

\* The stored handle is that of a reconnect task that has not looked at it yet.
Handles ==
  /\ timer \in Timers \cup {None}
  /\ \A t \in Timers : timer = t => task[t].pc \in Dozing

ExInv == Shape /\ (\A t \in Tasks : Local(t)) /\ LaneIsHeld /\ Handles

\* Local state s is r gone on to v, with what the invariant looks at kept.
Advanced(r, s, v) ==
  /\ Shaped(s) /\ s.pc = v
  /\ s.back = r.back /\ s.fence = r.fence /\ s.outcome = r.outcome /\ s.pairing = r.pairing

\* Only task t has a step; it goes on to v.
Only(t) == Shape' /\ \A u \in Tasks : u # t => task'[u] = task[u]
Moves(t, v) == Only(t) /\ Advanced(task[t], task'[t], v)

\* Where a fenced connect may be while the lane protects it.
LanePcs == {"teardown", "install", "report", "remap", "read", "write"}
-----------------------------------------------------------------------------
\* The kinds of tasks are apart, and None is not one.
LEMMA TaskKinds ==
  /\ \A t \in Scans : t \in Tasks /\ t # None /\ t \notin Backgrounds \cup Timers \cup Others
  /\ \A t \in Backgrounds : t \in Tasks /\ t # None /\ t \notin Scans \cup Timers \cup Others
  /\ \A t \in Timers : t \in Tasks /\ t # None /\ t \notin Scans \cup Backgrounds \cup Others
  /\ \A t \in Others : t \in Tasks /\ t # None /\ t \notin Scans \cup Backgrounds \cup Timers
  BY ExecutorAssumption DEF Tasks

\* An idle slot.
LEMMA IdleLocal ==
  /\ Shaped(IdleTask)
  /\ IdleTask.pc = "idle" /\ IdleTask.back = "end" /\ IdleTask.fence = None
  /\ IdleTask.outcome = "ok" /\ IdleTask.pairing = FALSE
  BY Zenon DEF Shaped, Fields, IdleTask

\* The fields a step may set besides the program counter are not looked at.
LEMMA Edits ==
  ASSUME NEW r, Shaped(r), NEW v, NEW a, NEW b
  PROVE  /\ Advanced(r, [r EXCEPT !.pc = v], v)
         /\ Advanced(r, [r EXCEPT !.pc = v, !.acts = a], v)
         /\ Advanced(r, [r EXCEPT !.pc = v, !.on = a], v)
         /\ Advanced(r, [r EXCEPT !.pc = v, !.seen = a], v)
         /\ Advanced(r, [r EXCEPT !.pc = v, !.auto = a, !.seen = b], v)
<1>1. Advanced(r, [r EXCEPT !.pc = v], v)
  BY Zenon DEF Advanced, Shaped, Fields
<1>2. Advanced(r, [r EXCEPT !.pc = v, !.acts = a], v)
  BY Zenon DEF Advanced, Shaped, Fields
<1>3. Advanced(r, [r EXCEPT !.pc = v, !.on = a], v)
  BY Zenon DEF Advanced, Shaped, Fields
<1>4. Advanced(r, [r EXCEPT !.pc = v, !.seen = a], v)
  BY Zenon DEF Advanced, Shaped, Fields
<1>5. Advanced(r, [r EXCEPT !.pc = v, !.auto = a, !.seen = b], v)
  BY Zenon DEF Advanced, Shaped, Fields
<1> QED
  BY <1>1, <1>2, <1>3, <1>4, <1>5, Zenon

\* A slot whose local state is replaced.
LEMMA Replaced ==
  ASSUME Shape, NEW t \in Tasks, NEW r, Shaped(r), task' = [task EXCEPT ![t] = r]
  PROVE  Only(t) /\ task'[t] = r
  BY Zenon DEF Shape, Only

\* Goto moves its task on.
LEMMA GotoMoves ==
  ASSUME Shape, NEW t \in Tasks, NEW v, Goto(t, v)
  PROVE  Moves(t, v)
<1> DEFINE r == [task[t] EXCEPT !.pc = v]
<1>1. task' = [task EXCEPT ![t] = r]
  BY Zenon DEF Shape, Goto
<1>2. Shaped(task[t])
  BY Zenon DEF Shape
<1>3. Advanced(task[t], r, v)
  BY <1>2, Edits, Zenon
<1> HIDE DEF r
<1> QED
  BY <1>1, <1>3, Replaced, Zenon DEF Moves, Advanced

\* So does taking the next action off the list,
LEMMA PopMoves ==
  ASSUME Shape, NEW t \in Tasks, NEW v, Pop(t, v)
  PROVE  Moves(t, v)
<1> DEFINE r == [task[t] EXCEPT !.pc = v, !.acts = Tail(task[t].acts)]
<1>1. task' = [task EXCEPT ![t] = r]
  BY Zenon DEF Shape, Pop, Shaped, Fields
<1>2. Shaped(task[t])
  BY Zenon DEF Shape
<1>3. Advanced(task[t], r, v)
  BY <1>2, Edits, Zenon
<1> HIDE DEF r
<1> QED
  BY <1>1, <1>3, Replaced, Zenon DEF Moves, Advanced

\* a call of the manager whose actions come next,
LEMMA CallMoves ==
  ASSUME Shape, NEW t \in Tasks, NEW v, NEW result, CallThen(t, result, v)
  PROVE  Moves(t, v)
<1> DEFINE r == [task[t] EXCEPT !.pc = v, !.acts = result.acts]
<1>1. task' = [task EXCEPT ![t] = r]
  BY Zenon DEF Shape, CallThen
<1>2. Shaped(task[t])
  BY Zenon DEF Shape
<1>3. Advanced(task[t], r, v)
  BY <1>2, Edits, Zenon
<1> HIDE DEF r
<1> QED
  BY <1>1, <1>3, Replaced, Zenon DEF Moves, Advanced

\* a scan's read of the user setting,
LEMMA ReadsMove ==
  ASSUME Shape, NEW t \in Tasks, NEW v, NEW a, task' = [task EXCEPT ![t].pc = v, ![t].on = a]
  PROVE  Moves(t, v)
<1> DEFINE r == [task[t] EXCEPT !.pc = v, !.on = a]
<1>1. task' = [task EXCEPT ![t] = r]
  BY Zenon DEF Shape
<1>2. Shaped(task[t])
  BY Zenon DEF Shape
<1>3. Advanced(task[t], r, v)
  BY <1>2, Edits, Zenon
<1> HIDE DEF r
<1> QED
  BY <1>1, <1>3, Replaced, Zenon DEF Moves, Advanced

\* the read of the lifecycle state,
LEMMA SeesMoves ==
  ASSUME Shape, NEW t \in Tasks, NEW v, NEW a, task' = [task EXCEPT ![t].pc = v, ![t].seen = a]
  PROVE  Moves(t, v)
<1> DEFINE r == [task[t] EXCEPT !.pc = v, !.seen = a]
<1>1. task' = [task EXCEPT ![t] = r]
  BY Zenon DEF Shape
<1>2. Shaped(task[t])
  BY Zenon DEF Shape
<1>3. Advanced(task[t], r, v)
  BY <1>2, Edits, Zenon
<1> HIDE DEF r
<1> QED
  BY <1>1, <1>3, Replaced, Zenon DEF Moves, Advanced

\* and what a scan makes of the settings it read.
LEMMA AppliesMoves ==
  ASSUME Shape, NEW t \in Tasks, NEW v, NEW a, NEW b,
         task' = [task EXCEPT ![t].pc = v, ![t].auto = a, ![t].seen = b]
  PROVE  Moves(t, v)
<1> DEFINE r == [task[t] EXCEPT !.pc = v, !.auto = a, !.seen = b]
<1>1. task' = [task EXCEPT ![t] = r]
  BY Zenon DEF Shape
<1>2. Shaped(task[t])
  BY Zenon DEF Shape
<1>3. Advanced(task[t], r, v)
  BY <1>2, Edits, Zenon
<1> HIDE DEF r
<1> QED
  BY <1>1, <1>3, Replaced, Zenon DEF Moves, Advanced

-----------------------------------------------------------------------------
\* One task has a step: the invariant stays if the step is right for that task.
LEMMA OneTask ==
  ASSUME ExInv, NEW t \in Tasks, Only(t), Local(t)', timer' \in {timer, None},
         t \in Timers /\ task[t].pc \in Dozing => timer' # t \/ task'[t].pc \in Dozing,
         \A u \in Scans \cup Backgrounds : u # t => (lane' = u <=> lane = u),
         t \in Scans \cup Backgrounds => (lane' = t <=> InLane(t)')
  PROVE  ExInv'
<1>1. Shape' /\ \A u \in Tasks : u # t => task'[u] = task[u]
  BY Zenon DEF Only
<1>2. \A u \in Tasks : Local(u)'
  <2> SUFFICES ASSUME NEW u \in Tasks, u # t PROVE Local(u)'
    BY Zenon
  <2>1. task'[u] = task[u] /\ Local(u)
    BY <1>1, Zenon DEF ExInv
  <2> QED
    BY <2>1, Zenon DEF Local
<1>3. LaneIsHeld'
  <2> SUFFICES ASSUME NEW u \in Scans \cup Backgrounds, u # t PROVE lane' = u <=> InLane(u)'
    BY Zenon DEF LaneIsHeld
  <2>1. u \in Tasks
    BY TaskKinds, Zenon
  <2>2. task'[u] = task[u] /\ (lane = u <=> InLane(u))
    BY <1>1, <2>1, Zenon DEF ExInv, LaneIsHeld
  <2>3. InLane(u)' <=> InLane(u)
    BY <2>2, Zenon DEF InLane, At
  <2> QED
    BY <2>2, <2>3, Zenon
<1>4. Handles'
  <2>1. timer' \in Timers \cup {None}
    BY Zenon DEF Handles, ExInv
  <2>2. ASSUME NEW u \in Timers, timer' = u PROVE task'[u].pc \in Dozing
    <3>1. u \in Tasks /\ u # None
      BY TaskKinds, Zenon
    <3>2. task[u].pc \in Dozing
      BY <2>2, <3>1, Zenon DEF Handles, ExInv
    <3> QED
      BY <1>1, <2>2, <3>1, <3>2, Zenon
  <2> QED
    BY <2>1, <2>2, Zenon DEF Handles, Dozing
<1> QED
  BY <1>1, <1>2, <1>3, <1>4, Zenon DEF ExInv

\* A step outside the sections that a lane protects.
LEMMA Outside ==
  ASSUME ExInv, NEW t \in Tasks, NEW v, Moves(t, v), UNCHANGED <<lane, timer>>,
         task[t].pc \notin LanePcs \cup Dozing \cup {"idle"},
         v \notin LanePcs \cup {"idle", "sleep", "fence"}
  PROVE  ExInv'
<1>1. /\ Only(t) /\ task'[t].pc = v /\ task'[t].back = task[t].back
      /\ task'[t].fence = task[t].fence /\ task'[t].outcome = task[t].outcome
      /\ task'[t].pairing = task[t].pairing
  BY Zenon DEF Moves, Advanced
<1>2. Local(t) /\ v \notin {"fence", "teardown", "remap"}
  BY Zenon DEF ExInv, LanePcs
<1>3. Local(t)'
  BY <1>1, <1>2, Zenon DEF Local
<1>4. t \in Scans \cup Backgrounds => (lane = t <=> InLane(t))
  BY Zenon DEF ExInv, LaneIsHeld
<1>5. t \in Scans \cup Backgrounds => (InLane(t) <=> InLane(t)')
  BY <1>1, Zenon DEF InLane, At, LanePcs
<1>6. lane' = lane /\ timer' = timer
  BY Zenon
<1>7. task[t].pc \notin Dozing
  BY Zenon
<1> QED
  BY <1>1, <1>3, <1>4, <1>5, <1>6, <1>7, OneTask, Zenon

\* A step from one place of such a section to the next.
LEMMA Inside ==
  ASSUME ExInv, NEW t \in Tasks, NEW v, Moves(t, v), UNCHANGED <<lane, timer>>,
         \/ task[t].pc = "install" /\ v = IF t \in Timers THEN "remap" ELSE "report"
         \/ task[t].pc = "remap" /\ v = IF t \in Timers THEN "report" ELSE "read"
         \/ task[t].pc = "read" /\ v = "write"
  PROVE  ExInv'
<1>1. /\ Only(t) /\ task'[t].pc = v /\ task'[t].back = task[t].back
      /\ task'[t].fence = task[t].fence /\ task'[t].outcome = task[t].outcome
      /\ task'[t].pairing = task[t].pairing
  BY Zenon DEF Moves, Advanced
<1>2. /\ t \in Backgrounds => t \notin Timers
      /\ Local(t)
  BY TaskKinds, Zenon DEF ExInv
<1>3. Local(t)'
  BY <1>1, <1>2, Zenon DEF Local
<1>4. t \in Scans \cup Backgrounds => (lane = t <=> InLane(t))
  BY Zenon DEF ExInv, LaneIsHeld
<1>5. t \in Scans \cup Backgrounds => (InLane(t) <=> InLane(t)')
  BY <1>1, <1>2, Zenon DEF InLane, At, Local
<1>6. lane' = lane /\ timer' = timer
  BY Zenon
<1>7. task[t].pc \notin Dozing
  BY Zenon DEF Dozing
<1> QED
  BY <1>1, <1>3, <1>4, <1>5, <1>6, <1>7, OneTask, Zenon
-----------------------------------------------------------------------------
\* The actions of execute_fenced_lifecycle_actions that concern no handle.
LEMMA ExecStep ==
  ASSUME ExInv, NEW t \in Tasks,
         ExecConnect(t) \/ ExecDisconnect(t) \/ CloseSession(t) \/ ExecUnmap(t)
  PROVE  ExInv'
<1>1. Shape
  BY Zenon DEF ExInv
<1>2. CASE ExecConnect(t)
  <2>1. task[t].pc = "exec" /\ Pop(t, "dial") /\ UNCHANGED <<lane, timer>>
    BY <1>2, Zenon DEF ExecConnect, NextAct, At
  <2> QED
    BY <1>1, <2>1, PopMoves, Outside, Zenon DEF LanePcs, Dozing
<1>3. CASE ExecDisconnect(t)
  <2>1. task[t].pc = "exec" /\ Pop(t, "close") /\ UNCHANGED <<lane, timer>>
    BY <1>3, Zenon DEF ExecDisconnect, NextAct, At
  <2> QED
    BY <1>1, <2>1, PopMoves, Outside, Zenon DEF LanePcs, Dozing
<1>4. CASE CloseSession(t)
  <2>1. task[t].pc = "close" /\ Goto(t, "exec") /\ UNCHANGED <<lane, timer>>
    BY <1>4, Zenon DEF CloseSession, At
  <2> QED
    BY <1>1, <2>1, GotoMoves, Outside, Zenon DEF LanePcs, Dozing
<1>5. CASE ExecUnmap(t)
  <2>1. task[t].pc = "exec" /\ Pop(t, "exec") /\ UNCHANGED <<lane, timer>>
    BY <1>5, Zenon DEF ExecUnmap, NextAct, At
  <2> QED
    BY <1>1, <2>1, PopMoves, Outside, Zenon DEF LanePcs, Dozing
<1> QED
  BY <1>2, <1>3, <1>4, <1>5, Zenon

\* The end of the actions: the registry is synced outside any lane section.
LEMMA DoneStep ==
  ASSUME ExInv, NEW t \in Tasks, ExecDone(t)
  PROVE  ExInv'
<1> DEFINE v == IF task[t].pairing THEN "remap" ELSE "read"
           r == [task[t] EXCEPT !.pc = v, !.back = "end"]
<1>1. task[t].pc = "exec" /\ lane' = lane /\ timer' = timer
  BY Zenon DEF ExecDone, At
<1>2. Shape /\ Shaped(task[t]) /\ Local(t)
  BY Zenon DEF ExInv, Shape
<1>3. task' = [task EXCEPT ![t] = r]
  BY <1>2, Zenon DEF ExecDone, Shape, Shaped, Fields
<1>4. /\ Shaped(r) /\ r.pc = v /\ r.back = "end" /\ r.fence = task[t].fence
      /\ r.outcome = task[t].outcome /\ r.pairing = task[t].pairing
  BY <1>2, Zenon DEF Shaped, Fields
<1> HIDE DEF r
<1>5. Only(t) /\ task'[t] = r
  BY <1>2, <1>3, <1>4, Replaced, Zenon
<1>6. t \in Scans \cup Backgrounds => v = "read"
  BY <1>2, Zenon DEF Local
<1>7. Local(t)'
  BY <1>2, <1>4, <1>5, <1>6, Zenon DEF Local
<1>8. t \in Scans \cup Backgrounds => (lane = t <=> InLane(t))
  BY Zenon DEF ExInv, LaneIsHeld
<1>9. t \in Scans \cup Backgrounds => (InLane(t) <=> InLane(t)')
  BY <1>1, <1>4, <1>5, <1>6, Zenon DEF InLane, At
<1>10. task[t].pc \notin Dozing
  BY <1>1, Zenon DEF Dozing
<1> QED
  BY <1>1, <1>5, <1>7, <1>8, <1>9, <1>10, OneTask, Zenon

\* The driver answers; only a success looks at the fence.
LEMMA DialStep ==
  ASSUME ExInv, NEW t \in Tasks, Dial(t)
  PROVE  ExInv'
<1>1. PICK o \in Outcomes :
        task' = [task EXCEPT ![t].outcome = o,
            ![t].pc = IF o # "ok" THEN (IF task[t].pairing THEN "end" ELSE "report")
                      ELSE IF task[t].fence # None THEN "fence"
                      ELSE "install"]
  BY Zenon DEF Dial
<1> DEFINE v == IF o # "ok" THEN (IF task[t].pairing THEN "end" ELSE "report")
                ELSE IF task[t].fence # None THEN "fence"
                ELSE "install"
           r == [task[t] EXCEPT !.outcome = o, !.pc = v]
<1>2. task[t].pc = "dial" /\ lane' = lane /\ timer' = timer
  BY Zenon DEF Dial, At
<1>3. Shape /\ Shaped(task[t]) /\ Local(t)
  BY Zenon DEF ExInv, Shape
<1>4. task' = [task EXCEPT ![t] = r]
  BY <1>1, <1>3, Zenon DEF Shape
<1>5. /\ Shaped(r) /\ r.pc = v /\ r.back = task[t].back /\ r.fence = task[t].fence
      /\ r.outcome = o /\ r.pairing = task[t].pairing
  BY <1>3, Zenon DEF Shaped, Fields
<1> HIDE DEF r
<1>6. Only(t) /\ task'[t] = r
  BY <1>3, <1>4, <1>5, Replaced, Zenon
<1>7. /\ v = "fence" => o = "ok" /\ task[t].fence # None
      /\ v = "report" => o # "ok"
      /\ v = "install" => task[t].fence = None
      /\ v \in {"end", "report", "fence", "install"}
  BY Zenon
<1> HIDE DEF v
<1>8. Local(t)'
  BY <1>3, <1>5, <1>6, <1>7, Zenon DEF Local
<1>9. t \in Scans \cup Backgrounds => (lane = t <=> InLane(t))
  BY Zenon DEF ExInv, LaneIsHeld
<1>10. t \in Scans \cup Backgrounds => (InLane(t) <=> InLane(t)')
  BY <1>2, <1>5, <1>6, <1>7, Zenon DEF InLane, At
<1>11. task[t].pc \notin Dozing
  BY <1>2, Zenon DEF Dozing
<1> QED
  BY <1>2, <1>6, <1>8, <1>9, <1>10, <1>11, OneTask, Zenon

\* ConnectFence::check: who goes on to publish or to tear down has the lane.
LEMMA FenceStep ==
  ASSUME ExInv, NEW t \in Tasks, FenceCheck(t)
  PROVE  ExInv'
<1>1. PICK v \in {"install", "exec", "teardown"} :
        Goto(t, v) /\ lane' = IF v = "exec" THEN None ELSE t
  <2> DEFINE publish == entry.issue = task[t].fence
             yield == ~publish /\ (InFlight(entry) \/ Renderable(State(entry)))
  <2>1. /\ lane' = IF yield THEN None ELSE t
        /\ Goto(t, CASE publish -> "install" [] yield -> "exec" [] OTHER -> "teardown")
    BY Zenon DEF FenceCheck
  <2>2. yield => ~publish
    BY Zenon
  <2> HIDE DEF publish, yield
  <2>3. CASE publish
    BY <2>1, <2>2, <2>3, Zenon
  <2>4. CASE yield
    BY <2>1, <2>2, <2>4, Zenon
  <2>5. CASE ~publish /\ ~yield
    BY <2>1, <2>5, Zenon
  <2> QED
    BY <2>3, <2>4, <2>5, Zenon
<1>2. task[t].pc = "fence" /\ lane = None /\ timer' = timer
  BY Zenon DEF FenceCheck, At
<1>3. Local(t) /\ Moves(t, v)
  BY <1>1, GotoMoves, Zenon DEF ExInv
<1>4. /\ Only(t) /\ task'[t].pc = v /\ task'[t].back = task[t].back
      /\ task'[t].fence = task[t].fence /\ task'[t].outcome = task[t].outcome
      /\ task'[t].pairing = task[t].pairing
  BY <1>3, Zenon DEF Moves, Advanced
<1>5. t \in Backgrounds /\ task[t].fence # None /\ task[t].outcome = "ok"
  BY <1>2, <1>3, Zenon DEF Local
<1>6. t # None /\ t \notin Scans /\ \A u \in Scans \cup Backgrounds : u # None
  BY <1>5, TaskKinds, Zenon
<1>7. Local(t)'
  BY <1>3, <1>4, <1>5, Zenon DEF Local
<1>8. lane' = t <=> InLane(t)'
  BY <1>1, <1>4, <1>5, <1>6, Zenon DEF InLane, At
<1>9. task[t].pc \notin Dozing
  BY <1>2, Zenon DEF Dozing
<1>10. \A u \in Scans \cup Backgrounds : u # t => (lane' = u <=> lane = u)
  BY <1>1, <1>2, <1>6, Zenon
<1> QED
  BY <1>2, <1>4, <1>7, <1>8, <1>9, <1>10, OneTask, Zenon

\* close_superseded_connect gives the lane back.
LEMMA TearDownStep ==
  ASSUME ExInv, NEW t \in Tasks, TearDown(t)
  PROVE  ExInv'
<1>1. task[t].pc = "teardown" /\ lane' = None /\ timer' = timer /\ Goto(t, "exec")
  BY Zenon DEF TearDown, At
<1>2. Local(t) /\ Moves(t, "exec")
  BY <1>1, GotoMoves, Zenon DEF ExInv
<1>3. /\ Only(t) /\ task'[t].pc = "exec" /\ task'[t].back = task[t].back
      /\ task'[t].fence = task[t].fence /\ task'[t].outcome = task[t].outcome
      /\ task'[t].pairing = task[t].pairing
  BY <1>2, Zenon DEF Moves, Advanced
<1>4. t \in Backgrounds /\ task[t].fence # None /\ task[t].outcome = "ok"
  BY <1>1, <1>2, Zenon DEF Local
<1>5. lane = t
  BY <1>1, <1>4, Zenon DEF ExInv, LaneIsHeld, InLane
<1>6. t # None /\ t \notin Scans /\ \A u \in Scans \cup Backgrounds : u # None
  BY <1>4, TaskKinds, Zenon
<1>7. Local(t)'
  BY <1>2, <1>3, Zenon DEF Local
<1>8. lane' = t <=> InLane(t)'
  BY <1>1, <1>3, <1>6, Zenon DEF InLane, At
<1>9. task[t].pc \notin Dozing
  BY <1>1, Zenon DEF Dozing
<1>10. \A u \in Scans \cup Backgrounds : u # t => (lane' = u <=> lane = u)
  BY <1>1, <1>5, <1>6, Zenon
<1> QED
  BY <1>1, <1>3, <1>7, <1>8, <1>9, <1>10, OneTask, Zenon

\* Installing, remapping and reading the state keep the lane.
LEMMA PublishStep ==
  ASSUME ExInv, NEW t \in Tasks, Install(t) \/ Remap(t) \/ ReadState(t)
  PROVE  ExInv'
<1>1. Shape
  BY Zenon DEF ExInv
<1>2. CASE Install(t)
  <2> DEFINE v == IF t \in Timers THEN "remap" ELSE "report"
  <2>1. task[t].pc = "install" /\ Goto(t, v) /\ UNCHANGED <<lane, timer>>
    BY <1>2, Zenon DEF Install, At
  <2>2. Moves(t, v)
    BY <1>1, <2>1, GotoMoves, Zenon
  <2> QED
    BY <2>1, <2>2, Inside, Zenon
<1>3. CASE Remap(t)
  <2> DEFINE v == IF t \in Timers THEN "report" ELSE "read"
  <2>1. task[t].pc = "remap" /\ Goto(t, v) /\ UNCHANGED <<lane, timer>>
    BY <1>3, Zenon DEF Remap, At
  <2>2. Moves(t, v)
    BY <1>1, <2>1, GotoMoves, Zenon
  <2> QED
    BY <2>1, <2>2, Inside, Zenon
<1>4. CASE ReadState(t)
  <2>1. /\ task[t].pc = "read" /\ UNCHANGED <<lane, timer>>
        /\ task' = [task EXCEPT ![t].pc = "write", ![t].seen = State(entry)]
    BY <1>4, Zenon DEF ReadState, At
  <2>2. Moves(t, "write")
    BY <1>1, <2>1, SeesMoves, Zenon
  <2> QED
    BY <2>1, <2>2, Inside, Zenon
<1> QED
  BY <1>2, <1>3, <1>4, Zenon

\* The manager hears of the outcome; refusing a published connect frees the lane.
LEMMA ReportStep ==
  ASSUME ExInv, NEW t \in Tasks, Report(t)
  PROVE  ExInv'
<1> DEFINE refused == ~ReportAccepted(t)
           ok == task[t].outcome = "ok"
           v == IF t \in Timers /\ refused THEN "end"
                ELSE IF t \in Timers \/ task[t].pairing \/ refused THEN "exec"
                ELSE IF ok THEN "remap"
                ELSE "read"
           a == task[t].acts \o Reported(t).acts
           r == [task[t] EXCEPT !.acts = a, !.back = "exec", !.pc = v]
<1>1. /\ task[t].pc = "report" /\ timer' = timer
      /\ lane' = IF refused /\ t \in Backgrounds /\ lane = t THEN None ELSE lane
      /\ task' = [task EXCEPT ![t].acts = @ \o Reported(t).acts, ![t].back = "exec", ![t].pc = v]
  BY Zenon DEF Report, At
<1>2. Shape /\ Shaped(task[t]) /\ Local(t)
  BY Zenon DEF ExInv, Shape
<1> HIDE DEF refused
<1>3. task' = [task EXCEPT ![t] = r]
  BY <1>1, <1>2, Zenon DEF Shape, Shaped, Fields
<1> HIDE DEF a
<1>4. /\ Shaped(r) /\ r.pc = v /\ r.back = "exec" /\ r.fence = task[t].fence
      /\ r.outcome = task[t].outcome /\ r.pairing = task[t].pairing
  BY <1>2, Zenon DEF Shaped, Fields
<1> HIDE DEF r
<1>5. Only(t) /\ task'[t] = r
  BY <1>2, <1>3, <1>4, Replaced, Zenon
<1>6. /\ t \in Backgrounds => v = IF refused THEN "exec" ELSE IF ok THEN "remap" ELSE "read"
      /\ v \in {"end", "exec", "remap", "read"}
  <2>1. t \in Backgrounds => t \notin Timers /\ task[t].pairing = FALSE
    BY <1>2, TaskKinds, Zenon DEF Local
  <2> QED
    BY <2>1, Zenon
<1> HIDE DEF v
<1>7. Local(t)'
  BY <1>2, <1>4, <1>5, <1>6, Zenon DEF Local
<1>8. t \in Scans \cup Backgrounds => (lane = t <=> InLane(t))
  BY Zenon DEF ExInv, LaneIsHeld
<1>9. t \in Scans => lane = t /\ lane' = t /\ InLane(t)'
  <2>1. t \in Scans => t \notin Backgrounds
    BY TaskKinds, Zenon
  <2>2. t \in Scans => InLane(t) /\ InLane(t)'
    BY <1>1, <1>4, <1>5, <1>6, Zenon DEF InLane, At
  <2> QED
    BY <1>1, <1>8, <2>1, <2>2, Zenon
<1>10. t \in Backgrounds => (lane' = t <=> InLane(t)')
  <2> SUFFICES ASSUME t \in Backgrounds PROVE lane' = t <=> InLane(t)'
    BY Zenon
  <2>1. t # None /\ t \notin Scans
    BY TaskKinds, Zenon
  <2>2. lane = t <=> task[t].fence # None /\ ok
    BY <1>1, <1>8, <2>1, Zenon DEF InLane
  <2>3. CASE refused
    BY <1>1, <1>4, <1>5, <1>6, <2>1, <2>3, Zenon DEF InLane
  <2>4. CASE ~refused /\ ok
    BY <1>1, <1>4, <1>5, <1>6, <2>1, <2>2, <2>4, Zenon DEF InLane
  <2>5. CASE ~refused /\ ~ok
    BY <1>1, <1>4, <1>5, <1>6, <2>1, <2>2, <2>5, Zenon DEF InLane
  <2> QED
    BY <2>3, <2>4, <2>5, Zenon
<1>11. task[t].pc \notin Dozing
  BY <1>1, Zenon DEF Dozing
<1>12. \A u \in Scans \cup Backgrounds : u # t => (lane' = u <=> lane = u)
  <2>1. \A u \in Scans \cup Backgrounds : u # None
    BY TaskKinds, Zenon
  <2> QED
    BY <1>1, <2>1, Zenon
<1> QED
  BY <1>1, <1>5, <1>7, <1>9, <1>10, <1>11, <1>12, OneTask, Zenon

\* The registry is written; a fenced connect gives up the lane.
LEMMA WriteStep ==
  ASSUME ExInv, NEW t \in Tasks, WriteRegistry(t)
  PROVE  ExInv'
<1>1. /\ task[t].pc = "write" /\ timer' = timer /\ Goto(t, task[t].back)
      /\ lane' = IF t \in Backgrounds /\ lane = t THEN None ELSE lane
  BY Zenon DEF WriteRegistry, At
<1>2. Local(t) /\ Moves(t, task[t].back)
  BY <1>1, GotoMoves, Zenon DEF ExInv
<1>3. /\ Only(t) /\ task'[t].pc = task[t].back /\ task'[t].back = task[t].back
      /\ task'[t].fence = task[t].fence /\ task'[t].outcome = task[t].outcome
      /\ task'[t].pairing = task[t].pairing
  BY <1>2, Zenon DEF Moves, Advanced
<1>4. task[t].back \in {"end", "exec"}
  BY <1>2, Zenon DEF Local
<1>5. \A u \in Scans \cup Backgrounds : u # None
  BY TaskKinds, Zenon
<1>6. Local(t)'
  BY <1>2, <1>3, <1>4, Zenon DEF Local
<1>7. t \in Scans => lane = t /\ lane' = t /\ InLane(t)'
  <2>1. t \in Scans => t \notin Backgrounds /\ InLane(t) /\ InLane(t)'
    BY <1>1, <1>3, <1>4, TaskKinds, Zenon DEF InLane, At
  <2> QED
    BY <1>1, <2>1, Zenon DEF ExInv, LaneIsHeld
<1>8. t \in Backgrounds => lane' # t /\ ~InLane(t)'
  <2>1. t \in Backgrounds => t \notin Scans
    BY TaskKinds, Zenon
  <2> QED
    BY <1>1, <1>3, <1>4, <1>5, <2>1, Zenon DEF InLane
<1>9. task[t].pc \notin Dozing
  BY <1>1, Zenon DEF Dozing
<1>10. \A u \in Scans \cup Backgrounds : u # t => (lane' = u <=> lane = u)
  BY <1>1, <1>5, Zenon
<1> QED
  BY <1>1, <1>3, <1>6, <1>7, <1>8, <1>9, <1>10, OneTask, Zenon

\* A slot is given back in the middle of its work or at its end, its lane with it.
LEMMA LeavesStep ==
  ASSUME ExInv, NEW t \in Tasks, task' = [task EXCEPT ![t] = IdleTask],
         lane' = IF lane = t THEN None ELSE lane, timer' = timer,
         t \in Timers => task[t].pc \notin Dozing
  PROVE  ExInv'
<1>1. \A u \in Scans \cup Backgrounds : u # None
  BY TaskKinds, Zenon
<1>2. \A u \in Scans \cup Backgrounds : u # t => (lane' = u <=> lane = u)
  BY <1>1, Zenon
<1>3. Only(t) /\ task'[t] = IdleTask
  BY IdleLocal, Replaced, Zenon DEF ExInv
<1>4. Local(t)' /\ ~InLane(t)'
  BY <1>3, IdleLocal, Zenon DEF Local, InLane, At
<1>5. t \in Scans \cup Backgrounds => lane' # t
  BY <1>1, Zenon
<1> QED
  BY <1>2, <1>3, <1>4, <1>5, OneTask, Zenon

\* A task is over, or a user request goes on to its settings.
LEMMA EndsStep ==
  ASSUME ExInv, NEW t \in Tasks, Ends(t)
  PROVE  ExInv'
<1>1. /\ task[t].pc = "end" /\ timer' = timer
      /\ lane' = IF lane = t THEN None ELSE lane
  BY Zenon DEF Ends, At
<1>2. \A u \in Scans \cup Backgrounds : u # None
  BY TaskKinds, Zenon
<1>3. \A u \in Scans \cup Backgrounds : u # t => (lane' = u <=> lane = u)
  BY <1>1, <1>2, Zenon
<1>4. CASE t \in Users /\ ~task[t].pairing
  <2>1. Goto(t, "update")
    BY <1>4, Zenon DEF Ends
  <2>2. Local(t) /\ Moves(t, "update")
    BY <2>1, GotoMoves, Zenon DEF ExInv
  <2>3. /\ Only(t) /\ task'[t].pc = "update" /\ task'[t].back = task[t].back
        /\ task'[t].fence = task[t].fence /\ task'[t].outcome = task[t].outcome
        /\ task'[t].pairing = task[t].pairing
    BY <2>2, Zenon DEF Moves, Advanced
  <2>4. t \notin Scans \cup Backgrounds
    BY <1>4, TaskKinds, Zenon DEF Others
  <2>5. Local(t)'
    BY <2>2, <2>3, Zenon DEF Local
  <2>6. task[t].pc \notin Dozing
    BY <1>1, Zenon DEF Dozing
  <2> QED
    BY <1>1, <1>3, <2>3, <2>4, <2>5, <2>6, OneTask, Zenon
<1>5. CASE ~(t \in Users /\ ~task[t].pairing)
  <2>1. task' = [task EXCEPT ![t] = IdleTask]
    BY <1>5, Zenon DEF Ends
  <2> QED
    BY <1>1, <2>1, LeavesStep, Zenon DEF Dozing
<1> QED
  BY <1>4, <1>5, Zenon

\* A scan takes the lane before it looks at anything.
LEMMA ScanBeginsStep ==
  ASSUME ExInv, NEW t \in Scans, ScanBegins(t)
  PROVE  ExInv'
<1> DEFINE r == [IdleTask EXCEPT !.pc = "observe"]
<1>1. /\ task[t].pc = "idle" /\ timer' = timer /\ lane = None /\ lane' = t
      /\ task' = [task EXCEPT ![t] = r]
  BY Zenon DEF ScanBegins, Begin, At
<1>2. t \in Tasks /\ \A u \in Scans \cup Backgrounds : u # None
  BY TaskKinds, Zenon
<1>3. Advanced(IdleTask, r, "observe")
  BY IdleLocal, Edits, Zenon
<1> HIDE DEF r
<1>4. Only(t) /\ task'[t] = r
  <2>1. Shaped(r) /\ Shape
    BY <1>3, Zenon DEF Advanced, ExInv
  <2> QED
    BY <1>1, <1>2, <2>1, Replaced, Zenon
<1>5. Local(t)'
  <2>1. task'[t].back = "end" /\ task'[t].fence = None /\ task'[t].pairing = FALSE
    BY <1>3, <1>4, IdleLocal, Zenon DEF Advanced
  <2>2. task'[t].pc = "observe"
    BY <1>3, <1>4, Zenon DEF Advanced
  <2> QED
    BY <2>1, <2>2, Zenon DEF Local
<1>6. InLane(t)'
  BY <1>3, <1>4, Zenon DEF InLane, At, Advanced
<1>7. task[t].pc \notin Dozing
  BY <1>1, Zenon DEF Dozing
<1>8. \A u \in Scans \cup Backgrounds : u # t => (lane' = u <=> lane = u)
  BY <1>1, <1>2, Zenon
<1> QED
  BY <1>1, <1>2, <1>4, <1>5, <1>6, <1>7, <1>8, OneTask, Zenon

\* Between its beginning and its end a scan only moves on.
LEMMA ScanStep ==
  ASSUME ExInv, NEW t \in Scans,
         \/ ScanReadsSettings(t) \/ ScanAppliesSettings(t) \/ ScanDiscovers(t)
         \/ ScanRedisables(t) \/ ScanRetriesStale(t) \/ ScanRefreshes(t)
         \/ ScanResyncs(t) \/ ScanExecutesInline(t) \/ ScanRetires(t)
  PROVE  ExInv'
<1>1. t \in Tasks /\ Shape
  BY TaskKinds, Zenon DEF ExInv
<1> DEFINE Stages == {"observe", "adapt", "discover", "redisable", "stale", "refresh", "resync",
                      "dispatch", "exec"}
<1>2. SUFFICES \E v \in Stages : /\ Moves(t, v) /\ task[t].pc \in Stages
                                 /\ UNCHANGED <<lane, timer>>
  <2>1. PICK v \in Stages : Moves(t, v) /\ task[t].pc \in Stages /\ UNCHANGED <<lane, timer>>
    BY <1>2, Zenon
  <2>2. \A p \in Stages : p \notin LanePcs \cup Dozing \cup {"idle", "sleep", "fence"}
    BY Zenon DEF LanePcs, Dozing
  <2> HIDE DEF Stages
  <2> QED
    BY <1>1, <2>1, <2>2, Outside, Zenon
<1>3. CASE ScanReadsSettings(t)
  BY <1>1, <1>3, ReadsMove, Zenon DEF ScanReadsSettings, At
<1>4. CASE ScanAppliesSettings(t)
  <2>1. /\ At(t, "adapt") /\ UNCHANGED <<lane, timer>>
        /\ \E auto \in Behaviors(task[t].on) :
             task' = [task EXCEPT ![t].pc = "discover", ![t].auto = auto, ![t].seen = registry]
    BY <1>4, Zenon DEF ScanAppliesSettings
  <2>2. Moves(t, "discover")
    BY <1>1, <2>1, AppliesMoves, Zenon
  <2> QED
    BY <2>1, <2>2, Zenon DEF At
<1>5. CASE ScanDiscovers(t)
  <2>1. PICK v \in Stages : CallThen(t, OnDiscovered(entry, task[t].auto, TheLayout, Stamp), v)
    BY <1>5, Zenon DEF ScanDiscovers
  <2>2. Moves(t, v)
    BY <1>1, <2>1, CallMoves, Zenon
  <2> QED
    BY <1>5, <2>2, Zenon DEF ScanDiscovers, At
<1>6. CASE ScanRedisables(t)
  BY <1>1, <1>6, CallMoves, Zenon DEF ScanRedisables, At
<1>7. CASE ScanRetriesStale(t)
  <2>1. CallThen(t, RetryStaleKnownConnect(entry, Stamp), "dispatch") \/ Goto(t, "dispatch")
    BY <1>7, Zenon DEF ScanRetriesStale
  <2>2. Moves(t, "dispatch")
    BY <1>1, <2>1, CallMoves, GotoMoves, Zenon
  <2> QED
    BY <1>7, <2>2, Zenon DEF ScanRetriesStale, At
<1>8. CASE ScanRefreshes(t)
  <2>1. PICK v \in Stages : Goto(t, v)
    BY <1>8, Zenon DEF ScanRefreshes
  <2> QED
    BY <1>1, <1>8, <2>1, GotoMoves, Zenon DEF ScanRefreshes, At
<1>9. CASE ScanResyncs(t)
  BY <1>1, <1>9, GotoMoves, Zenon DEF ScanResyncs, At
<1>10. CASE ScanExecutesInline(t)
  BY <1>1, <1>10, GotoMoves, Zenon DEF ScanExecutesInline, At
<1>11. CASE ScanRetires(t)
  BY <1>1, <1>11, CallMoves, Zenon DEF ScanRetires, At
<1> QED
  BY <1>3, <1>4, <1>5, <1>6, <1>7, <1>8, <1>9, <1>10, <1>11, Zenon

\* A connect that outlives its scan starts without the lane.
LEMMA SpawnStep ==
  ASSUME ExInv, NEW t \in Scans, ScanSpawnsBackground(t)
  PROVE  ExInv'
<1>1. PICK b \in Backgrounds :
        /\ task[b].pc = "idle"
        /\ task' = [task EXCEPT
             ![t].pc = "end", ![t].acts = <<>>,
             ![b] = [IdleTask EXCEPT !.pc = "exec", !.acts = task[t].acts, !.fence = entry.issue]]
  BY Zenon DEF ScanSpawnsBackground, At
<1>2. task[t].pc = "dispatch" /\ lane' = lane /\ timer' = timer
  BY Zenon DEF ScanSpawnsBackground, At
<1>3. t \in Tasks /\ b \in Tasks /\ b # t /\ b \notin Scans /\ t \notin Backgrounds
  BY TaskKinds, Zenon
<1>4. Shape /\ Shaped(task[t]) /\ Local(t)
  BY <1>3, Zenon DEF ExInv, Shape
<1> DEFINE r == [task[t] EXCEPT !.pc = "end", !.acts = <<>>]
           s == [IdleTask EXCEPT !.pc = "exec", !.acts = task[t].acts, !.fence = entry.issue]
<1>5. task' = [[task EXCEPT ![t] = r] EXCEPT ![b] = s]
  BY <1>1, <1>3, <1>4, Zenon DEF Shape
<1>6. Advanced(task[t], r, "end")
  BY <1>4, Edits, Zenon
<1>7. /\ Shaped(s) /\ s.pc = "exec" /\ s.back = "end" /\ s.pairing = FALSE
  BY Zenon DEF Shaped, Fields, IdleTask
<1> HIDE DEF r, s
<1>8. /\ Shape' /\ task'[t] = r /\ task'[b] = s
      /\ \A u \in Tasks : u # t /\ u # b => task'[u] = task[u]
  BY <1>3, <1>4, <1>5, <1>6, <1>7, Zenon DEF Shape, Advanced
<1>9. \A u \in Tasks : Local(u)'
  <2>1. Local(t)'
    BY <1>4, <1>6, <1>8, Zenon DEF Local, Advanced
  <2>2. Local(b)'
    BY <1>1, <1>3, <1>7, <1>8, Zenon DEF Local
  <2>3. ASSUME NEW u \in Tasks, u # t, u # b PROVE Local(u)'
    <3>1. task'[u] = task[u] /\ Local(u)
      BY <1>8, <2>3, Zenon DEF ExInv
    <3> QED
      BY <3>1, Zenon DEF Local
  <2> QED
    BY <2>1, <2>2, <2>3, Zenon
<1>10. LaneIsHeld'
  <2>1. InLane(t) /\ InLane(t)'
    BY <1>2, <1>6, <1>8, Zenon DEF InLane, At, Advanced
  <2>2. ~InLane(b) /\ ~InLane(b)'
    BY <1>1, <1>3, <1>7, <1>8, Zenon DEF InLane, At
  <2>3. ASSUME NEW u \in Scans \cup Backgrounds PROVE InLane(u)' <=> InLane(u)
    <3>1. CASE u # t /\ u # b
      <4>1. task'[u] = task[u]
        BY <1>8, <3>1, TaskKinds, Zenon
      <4> QED
        BY <4>1, Zenon DEF InLane, At
    <3> QED
      BY <2>1, <2>2, <3>1, Zenon
  <2> QED
    BY <1>2, <2>3, Zenon DEF ExInv, LaneIsHeld
<1>11. Handles'
  <2>1. ASSUME NEW u \in Timers PROVE task'[u] = task[u]
    <3>1. u \in Tasks /\ u # t /\ u # b
      BY TaskKinds, Zenon
    <3> QED
      BY <1>8, <3>1, Zenon
  <2> QED
    BY <1>2, <2>1, Zenon DEF ExInv, Handles, Dozing
<1> QED
  BY <1>8, <1>9, <1>10, <1>11, Zenon DEF ExInv

\* A reconnect task that was aborted past its sleep.
Doomed(r, s) == Advanced(r, s, "doomed") /\ s.acts = r.acts

\* The tasks once the stored handle was aborted.
LEMMA Aborted ==
  ASSUME ExInv
  PROVE  /\ TimerAborted = [u \in Tasks |-> TimerAborted[u]]
         /\ \A u \in Tasks :
              \/ TimerAborted[u] = task[u]
              \/ u \in Timers /\ timer = u /\ TimerAborted[u] = IdleTask
              \/ u \in Timers /\ timer = u /\ Doomed(task[u], TimerAborted[u])
         /\ \A u \in Tasks : Shaped(TimerAborted[u])
         /\ \A u \in Tasks : u = timer => TimerAborted[u].pc # "sleep"
<1>1. Shape
  BY Zenon DEF ExInv
<1>2. TimerAborted = [u \in Tasks |-> TimerAborted[u]]
  BY Zenon DEF TimerAborted
<1>3. ASSUME NEW u \in Tasks
      PROVE  /\ \/ TimerAborted[u] = task[u]
                \/ u \in Timers /\ timer = u /\ TimerAborted[u] = IdleTask
                \/ u \in Timers /\ timer = u /\ Doomed(task[u], TimerAborted[u])
             /\ Shaped(TimerAborted[u])
             /\ u = timer => TimerAborted[u].pc # "sleep"
  <2>1. Shaped(task[u])
    BY <1>1, Zenon DEF Shape
  <2>2. CASE u # timer
    <3>1. TimerAborted[u] = task[u]
      BY <2>2, Zenon DEF TimerAborted
    <3> QED
      BY <2>1, <2>2, <3>1, Zenon
  <2>3. CASE u = timer
    <3>1. u \in Timers
      <4>1. u # None
        BY TaskKinds, Zenon DEF Tasks
      <4> QED
        BY <2>3, <4>1, Zenon DEF ExInv, Handles
    <3>2. CASE At(u, "sleep")
      <4>1. TimerAborted[u] = IdleTask
        BY <2>3, <3>2, Zenon DEF TimerAborted
      <4> QED
        BY <2>3, <3>1, <4>1, IdleLocal, Zenon
    <3>3. CASE ~At(u, "sleep")
      <4>1. TimerAborted[u] = [task[u] EXCEPT !.pc = "doomed"]
        BY <2>3, <3>3, Zenon DEF TimerAborted
      <4>2. Doomed(task[u], [task[u] EXCEPT !.pc = "doomed"])
        BY <2>1, Zenon DEF Doomed, Advanced, Shaped, Fields
      <4> QED
        BY <2>3, <3>1, <4>1, <4>2, Zenon DEF Doomed, Advanced
    <3> QED
      BY <3>2, <3>3, Zenon
  <2> QED
    BY <2>2, <2>3, Zenon
<1> QED
  BY <1>2, <1>3, Zenon

\* What the task that executes the action makes of its own state.
LEMMA PoppedState ==
  ASSUME ExInv, NEW t \in Tasks, task[t].pc = "exec"
  PROVE  Advanced(task[t], Popped(t), "exec") /\ Popped(t).acts = Tail(task[t].acts)
<1>1. Shaped(task[t])
  BY Zenon DEF ExInv, Shape
<1> QED
  BY <1>1, Zenon DEF Advanced, Popped, Shaped, Fields

\* What becomes of the tasks when a handle is stored or cancelled: the one that
\* was stored is aborted, a new one may sleep.
Handled(u) ==
  \/ task'[u] = task[u]
  \/ u \in Timers /\ timer = u /\ task'[u] = IdleTask
  \/ u \in Timers /\ timer = u /\ Doomed(task[u], task'[u])
  \/ u \in Timers /\ task[u].pc = "idle" /\ task'[u] = Sleeping

LEMMA HandledTasks ==
  ASSUME ExInv, NEW t \in Tasks,
         ExecSpawnReconnect(t) \/ ExecCancelReconnect(t)
  PROVE  /\ task[t].pc = "exec" /\ lane' = lane
         /\ Shape' /\ task'[t] = Popped(t) /\ Handles'
         /\ \A u \in Tasks : u # t => Handled(u)
<1>1. task[t].pc = "exec" /\ lane' = lane
  BY Zenon DEF ExecSpawnReconnect, ExecCancelReconnect, NextAct, At
<1>2. Shaped(Popped(t))
  BY <1>1, PoppedState, Zenon DEF Advanced
<1>3. CASE ExecSpawnReconnect(t)
  <2>1. PICK s \in Timers :
          /\ task[s].pc = "idle" /\ timer' = s
          /\ task' = [TimerAborted EXCEPT ![t] = Popped(t), ![s] = Sleeping]
    BY <1>3, Zenon DEF ExecSpawnReconnect, At
  <2>2. s \in Tasks /\ s # t
    BY <1>1, <2>1, TaskKinds, Zenon
  <2>3. Shaped(Sleeping) /\ Sleeping.pc = "sleep"
    <3>1. Advanced(IdleTask, Sleeping, "sleep")
      BY IdleLocal, Edits, Zenon DEF Sleeping
    <3> QED
      BY <3>1, Zenon DEF Advanced
  <2>4. /\ Shape' /\ task'[t] = Popped(t) /\ task'[s] = Sleeping
        /\ \A u \in Tasks : u # t /\ u # s => task'[u] = TimerAborted[u]
    BY <1>2, <2>1, <2>2, <2>3, Aborted, Zenon DEF Shape
  <2>5. Handles'
    BY <2>1, <2>3, <2>4, Zenon DEF Handles, Dozing
  <2>6. ASSUME NEW u \in Tasks, u # t PROVE Handled(u)
    <3>1. CASE u = s
      BY <2>1, <2>4, <3>1, Zenon DEF Handled
    <3>2. CASE u # s
      <4>1. task'[u] = TimerAborted[u]
        BY <2>4, <2>6, <3>2, Zenon
      <4> QED
        BY <4>1, Aborted, Zenon DEF Handled
    <3> QED
      BY <3>1, <3>2, Zenon
  <2> QED
    BY <1>1, <2>4, <2>5, <2>6, Zenon
<1>4. CASE ExecCancelReconnect(t)
  <2>1. task' = [TimerAborted EXCEPT ![t] = Popped(t)] /\ timer' = None
    BY <1>4, Zenon DEF ExecCancelReconnect
  <2>2. /\ Shape' /\ task'[t] = Popped(t)
        /\ \A u \in Tasks : u # t => task'[u] = TimerAborted[u]
    BY <1>2, <2>1, Aborted, Zenon DEF Shape
  <2>3. Handles'
    <3>1. \A u \in Timers : u # None
      BY TaskKinds, Zenon
    <3> QED
      BY <2>1, <3>1, Zenon DEF Handles
  <2>4. ASSUME NEW u \in Tasks, u # t PROVE Handled(u)
    <3>1. task'[u] = TimerAborted[u]
      BY <2>2, <2>4, Zenon
    <3> QED
      BY <3>1, Aborted, Zenon DEF Handled
  <2> QED
    BY <1>1, <2>2, <2>3, <2>4, Zenon
<1> QED
  BY <1>3, <1>4, Zenon

\* Storing a handle aborts the task it replaces; cancelling aborts the stored one.
\* No lane changes hands.
LEMMA HandleStep ==
  ASSUME ExInv, NEW t \in Tasks,
         ExecSpawnReconnect(t) \/ ExecCancelReconnect(t)
  PROVE  ExInv'
<1>1. /\ task[t].pc = "exec" /\ lane' = lane /\ Shape' /\ Handles'
      /\ \A u \in Tasks : u # t => Handled(u)
  BY HandledTasks, Zenon
<1>2. Advanced(task[t], task'[t], "exec")
  BY <1>1, HandledTasks, PoppedState, Zenon
<1>3. Advanced(IdleTask, Sleeping, "sleep")
  BY IdleLocal, Edits, Zenon DEF Sleeping
<1>4. ASSUME NEW u \in Tasks PROVE Local(u)'
  <2>1. Local(u)
    BY Zenon DEF ExInv
  <2>2. CASE u = t
    BY <1>2, <2>1, <2>2, Zenon DEF Local, Advanced
  <2>3. CASE task'[u] = task[u]
    BY <2>1, <2>3, Zenon DEF Local
  <2>4. CASE u \in Timers /\ Doomed(task[u], task'[u])
    BY <2>1, <2>4, Zenon DEF Local, Doomed, Advanced
  <2>5. CASE u \in Timers /\ task'[u] \in {IdleTask, Sleeping}
    <3>1. /\ task'[u].back = "end" /\ task'[u].fence = None
          /\ task'[u].pc \in {"idle", "sleep"}
      BY <1>3, <2>5, IdleLocal, Zenon DEF Advanced
    <3>2. u \notin Scans \cup Backgrounds
      BY <2>5, TaskKinds, Zenon
    <3> QED
      BY <3>1, <3>2, Zenon DEF Local
  <2> QED
    BY <1>1, <2>2, <2>3, <2>4, <2>5, Zenon DEF Handled
<1>5. LaneIsHeld'
  <2>1. ASSUME NEW u \in Scans \cup Backgrounds PROVE InLane(u)' <=> InLane(u)
    <3>1. u \in Tasks /\ u \notin Timers
      BY TaskKinds, Zenon
    <3>2. CASE u = t
      BY <1>1, <1>2, <3>2, Zenon DEF InLane, At, Advanced
    <3>3. CASE task'[u] = task[u]
      BY <3>3, Zenon DEF InLane, At
    <3> QED
      BY <1>1, <3>1, <3>2, <3>3, Zenon DEF Handled
  <2> QED
    BY <1>1, <2>1, Zenon DEF ExInv, LaneIsHeld
<1> QED
  BY <1>1, <1>4, <1>5, Zenon DEF ExInv

\* A reconnect task wakes, drops the stored handle, and goes on or ends.
LEMMA TimerStep ==
  ASSUME ExInv, NEW t \in Timers, Timer(t)
  PROVE  ExInv'
<1>1. t \in Tasks /\ t # None /\ t \notin Scans \cup Backgrounds /\ Shape /\ Local(t)
  BY TaskKinds, Zenon DEF ExInv
<1>2. CASE TimerElapses(t) \/ TimerWakes(t)
  <2>1. PICK v \in {"woken", "attempt", "last"} :
          /\ Goto(t, v) /\ lane' = lane
          /\ \/ timer' = timer /\ v = "woken"
             \/ timer' = None
    BY <1>2, Zenon DEF TimerElapses, TimerWakes
  <2>2. Only(t) /\ Advanced(task[t], task'[t], v)
    BY <1>1, <2>1, GotoMoves, Zenon DEF Moves
  <2>3. Local(t)'
    BY <1>1, <2>2, Zenon DEF Local, Advanced
  <2>4. timer' # t \/ task'[t].pc \in Dozing
    BY <1>1, <2>1, <2>2, Zenon DEF Advanced, Dozing
  <2> QED
    BY <1>1, <2>1, <2>2, <2>3, <2>4, OneTask, Zenon
<1>3. CASE TimerAttempts(t)
  <2>1. PICK v \in {"dial", "end"} :
           task[t].pc = "attempt" /\ Goto(t, v) /\ UNCHANGED <<lane, timer>>
    BY <1>3, Zenon DEF TimerAttempts, At
  <2>2. Moves(t, v)
    BY <1>1, <2>1, GotoMoves, Zenon
  <2> QED
    BY <1>1, <2>1, <2>2, Outside, Zenon DEF LanePcs, Dozing
<1>4. CASE TimerEndsAborted(t)
  <2>1. /\ task[t].pc = "last" /\ lane' = lane /\ timer' = timer
        /\ task' = [task EXCEPT ![t] = IdleTask]
    BY <1>4, Zenon DEF TimerEndsAborted, At
  <2>2. Only(t) /\ task'[t] = IdleTask
    BY <1>1, <2>1, IdleLocal, Replaced, Zenon
  <2>3. Local(t)' /\ task[t].pc \notin Dozing
    BY <2>1, <2>2, IdleLocal, Zenon DEF Local, Dozing
  <2> QED
    BY <1>1, <2>1, <2>2, <2>3, OneTask, Zenon
<1> QED
  BY <1>2, <1>3, <1>4, Zenon DEF Timer

\* A task whose caller is gone leaves its lane.
LEMMA CancelStep ==
  ASSUME ExInv, NEW t \in Cancellable, Cancelled(t)
  PROVE  ExInv'
<1>1. t \in Tasks /\ t \notin Timers
  BY ExecutorAssumption, TaskKinds, Zenon DEF Others
<1> QED
  BY <1>1, LeavesStep, Zenon DEF Cancelled

\* A task that takes up work, or goes on to other work, holds nothing yet.
Plain(r) == Shaped(r) /\ r.back = "end" /\ r.fence = None /\ r.pc \notin {"fence", "teardown"}

\* The local states that work begins with are such.
LEMMA Fresh ==
  ASSUME NEW p \in {"exec", "toggle", "weigh", "adopt"}, NEW a, NEW b
  PROVE  /\ Plain(IdleTask)
         /\ Plain([IdleTask EXCEPT !.pc = p, !.acts = a])
         /\ Plain([IdleTask EXCEPT !.pc = p, !.on = a, !.auto = b])
         /\ Plain([IdleTask EXCEPT !.pc = p, !.auto = a])
         /\ Plain([IdleTask EXCEPT !.pc = p, !.pairing = TRUE])
<1>1. Plain(IdleTask)
  BY IdleLocal, Zenon DEF Plain
<1>2. Plain([IdleTask EXCEPT !.pc = p, !.acts = a])
  BY Zenon DEF Plain, Shaped, Fields, IdleTask
<1>3. Plain([IdleTask EXCEPT !.pc = p, !.on = a, !.auto = b])
  BY Zenon DEF Plain, Shaped, Fields, IdleTask
<1>4. Plain([IdleTask EXCEPT !.pc = p, !.auto = a])
  BY Zenon DEF Plain, Shaped, Fields, IdleTask
<1>5. Plain([IdleTask EXCEPT !.pc = p, !.pairing = TRUE])
  BY Zenon DEF Plain, Shaped, Fields, IdleTask
<1> QED
  BY <1>1, <1>2, <1>3, <1>4, <1>5, Zenon

\* Tasks that never hold a lane and never sleep: one moves on.
LEMMA OtherMoves ==
  ASSUME ExInv, NEW t \in Others, UNCHANGED <<lane, timer>>,
         NEW v, Moves(t, v), v \notin {"fence", "teardown"}
  PROVE  ExInv'
<1>1. t \in Tasks /\ t \notin Scans \cup Backgrounds /\ t \notin Timers
  BY TaskKinds, Zenon
<1>2. Local(t) /\ lane' = lane /\ timer' = timer
  BY <1>1, Zenon DEF ExInv
<1>3. Only(t) /\ Advanced(task[t], task'[t], v)
  BY Zenon DEF Moves
<1>4. Local(t)'
  BY <1>1, <1>2, <1>3, Zenon DEF Advanced, Local
<1> QED
  BY <1>1, <1>2, <1>3, <1>4, OneTask, Zenon

\* Such a task takes up work, goes on to other work, or is over.
LEMMA OtherSet ==
  ASSUME ExInv, NEW t \in Others, UNCHANGED <<lane, timer>>,
         NEW r, Plain(r), task' = [task EXCEPT ![t] = r]
  PROVE  ExInv'
<1>1. t \in Tasks /\ t \notin Scans \cup Backgrounds /\ t \notin Timers
  BY TaskKinds, Zenon
<1>2. lane' = lane /\ timer' = timer
  BY Zenon
<1>3. Only(t) /\ task'[t] = r
  BY <1>1, Replaced, Zenon DEF ExInv, Plain
<1>4. Local(t)'
  BY <1>1, <1>3, Zenon DEF Plain, Local
<1> QED
  BY <1>1, <1>2, <1>3, <1>4, OneTask, Zenon

\* A user request: its calls, its settings, and the pairing it goes on to.
LEMMA UserStep ==
  ASSUME ExInv, NEW t \in Others, User(t)
  PROVE  ExInv'
<1>1. t \in Tasks /\ Shape
  BY TaskKinds, Zenon DEF ExInv
<1>2. CASE UserBegins(t)
  <2>1. PICK a, b :
           task' = [task EXCEPT ![t] = [IdleTask EXCEPT !.pc = "toggle", !.on = a, !.auto = b]]
    BY <1>2, Zenon DEF UserBegins, Begin
  <2>2. UNCHANGED <<lane, timer>>
    BY <1>2, Zenon DEF UserBegins
  <2>3. Plain([IdleTask EXCEPT !.pc = "toggle", !.on = a, !.auto = b])
    BY Fresh, Zenon
  <2> QED
    BY <2>1, <2>2, <2>3, OtherSet, Zenon
<1>3. CASE UserToggles(t)
  <2>1. PICK v \in {"exec", "unmanaged"} : \E res : CallThen(t, res, v)
    BY <1>3, Zenon DEF UserToggles
  <2>2. Moves(t, v)
    BY <1>1, <2>1, CallMoves, Zenon
  <2>3. UNCHANGED <<lane, timer>> /\ v \notin {"fence", "teardown"}
    BY <1>3, Zenon DEF UserToggles
  <2> QED
    BY <2>2, <2>3, OtherMoves, Zenon
<1>4. CASE UserUpdates(t)
  <2>1. Goto(t, "save") /\ UNCHANGED <<lane, timer>>
    BY <1>4, Zenon DEF UserUpdates
  <2>2. Moves(t, "save") /\ "save" \notin {"fence", "teardown"}
    BY <1>1, <2>1, GotoMoves, Zenon
  <2> QED
    BY <2>1, <2>2, OtherMoves, Zenon
<1>5. CASE UserSaves(t)
  <2>1. UNCHANGED <<lane, timer>>
    BY <1>5, Zenon DEF UserSaves
  <2>2. CASE task[t].on
    <3>1. Goto(t, "activate")
      BY <1>1, <1>5, <2>2, Zenon DEF UserSaves, Goto, Shape
    <3>2. Moves(t, "activate") /\ "activate" \notin {"fence", "teardown"}
      BY <1>1, <3>1, GotoMoves, Zenon
    <3> QED
      BY <2>1, <3>2, OtherMoves, Zenon
  <2>3. CASE ~task[t].on
    <3>1. task' = [task EXCEPT ![t] = IdleTask]
      BY <1>1, <1>5, <2>3, Zenon DEF UserSaves, Shape
    <3> QED
      BY <2>1, <3>1, Fresh, OtherSet, Zenon
  <2> QED
    BY <2>2, <2>3, Zenon
<1>6. CASE UserActivates(t)
  <2>1. PICK r \in {[IdleTask EXCEPT !.pc = "adopt", !.pairing = TRUE], IdleTask} :
           task' = [task EXCEPT ![t] = r]
    BY <1>6, Zenon DEF UserActivates
  <2>2. UNCHANGED <<lane, timer>>
    BY <1>6, Zenon DEF UserActivates
  <2>3. Plain(r)
    BY Fresh, Zenon
  <2> QED
    BY <2>1, <2>2, <2>3, OtherSet, Zenon
<1> QED
  BY <1>2, <1>3, <1>4, <1>5, <1>6, Zenon DEF User

\* A call in a task of its own.
LEMMA BeginCallStep ==
  ASSUME ExInv, NEW t \in Others, UNCHANGED <<lane, timer>>,
         NEW result, BeginCall(t, result)
  PROVE  ExInv'
<1>1. task' = [task EXCEPT ![t] = [IdleTask EXCEPT !.pc = "exec", !.acts = result.acts]]
  BY Zenon DEF BeginCall, Begin
<1>2. Plain([IdleTask EXCEPT !.pc = "exec", !.acts = result.acts])
  BY Fresh, Zenon
<1> QED
  BY <1>1, <1>2, OtherSet, Zenon

\* Faults, convergences, releases and pairings leave lanes and handles alone.
LEMMA OtherStep ==
  ASSUME ExInv, NEW t \in Others,
         Fault(t) \/ Converge(t) \/ Drops(t) \/ PairBegins(t) \/ PairAdopts(t)
  PROVE  ExInv'
<1>1. t \in Tasks /\ Shape
  BY TaskKinds, Zenon DEF ExInv
<1>2. CASE Fault(t) \/ Drops(t)
  <2>1. PICK res : BeginCall(t, res)
    BY <1>2, Zenon DEF Fault, Drops
  <2>2. UNCHANGED <<lane, timer>>
    BY <1>2, Zenon DEF Fault, Drops
  <2> QED
    BY <2>1, <2>2, BeginCallStep, Zenon
<1>3. CASE ConvergeBegins(t)
  <2>1. PICK a : task' = [task EXCEPT ![t] = [IdleTask EXCEPT !.pc = "weigh", !.auto = a]]
    BY <1>3, Zenon DEF ConvergeBegins, Begin
  <2>2. UNCHANGED <<lane, timer>>
    BY <1>3, Zenon DEF ConvergeBegins
  <2>3. Plain([IdleTask EXCEPT !.pc = "weigh", !.auto = a])
    BY Fresh, Zenon
  <2> QED
    BY <2>1, <2>2, <2>3, OtherSet, Zenon
<1>4. CASE Converges(t)
  <2>1. PICK v \in {"end", "exec"} : \E res : CallThen(t, res, v)
    BY <1>4, Zenon DEF Converges
  <2>2. Moves(t, v)
    BY <1>1, <2>1, CallMoves, Zenon
  <2>3. UNCHANGED <<lane, timer>> /\ v \notin {"fence", "teardown"}
    BY <1>4, Zenon DEF Converges
  <2> QED
    BY <2>2, <2>3, OtherMoves, Zenon
<1>5. CASE PairBegins(t)
  <2>1. /\ task' = [task EXCEPT ![t] = [IdleTask EXCEPT !.pc = "adopt", !.pairing = TRUE]]
        /\ UNCHANGED <<lane, timer>>
    BY <1>5, Zenon DEF PairBegins, Begin
  <2> QED
    BY <2>1, Fresh, OtherSet, Zenon
<1>6. CASE PairAdopts(t)
  <2>1. PICK v \in {"dial", "end"} : Goto(t, v)
    BY <1>6, Zenon DEF PairAdopts
  <2>2. Moves(t, v)
    BY <1>1, <2>1, GotoMoves, Zenon
  <2>3. UNCHANGED <<lane, timer>> /\ v \notin {"fence", "teardown"}
    BY <1>6, Zenon DEF PairAdopts
  <2> QED
    BY <2>2, <2>3, OtherMoves, Zenon
<1> QED
  BY <1>2, <1>3, <1>4, <1>5, <1>6, Zenon DEF Converge

\* At the start every slot is idle, the lane is free and no handle is stored.
LEMMA ExInvInit ==
  ASSUME Init
  PROVE  ExInv
<1>1. task = [t \in Tasks |-> IdleTask] /\ lane = None /\ timer = None
  BY Zenon DEF Init
<1>2. \A t \in Tasks : task[t] = IdleTask
  BY <1>1, Zenon
<1>3. Shape
  BY <1>1, <1>2, IdleLocal, Zenon DEF Shape
<1>4. \A t \in Tasks : Local(t)
  BY <1>2, IdleLocal, Zenon DEF Local
<1>5. LaneIsHeld
  BY <1>1, <1>2, TaskKinds, IdleLocal, Zenon DEF LaneIsHeld, InLane, At
<1>6. Handles
  BY <1>1, <1>2, TaskKinds, IdleLocal, Zenon DEF Handles, At
<1> QED
  BY <1>3, <1>4, <1>5, <1>6, Zenon DEF ExInv

\* Every step of every task keeps the invariant.
LEMMA ExInvNext ==
  ASSUME ExInv, [Next]_vars
  PROVE  ExInv'
<1>1. CASE \E t \in Tasks : Execute(t)
  BY <1>1, ExecStep, HandleStep, DoneStep, DialStep, FenceStep, TearDownStep, PublishStep,
     ReportStep, WriteStep, EndsStep, Zenon DEF Execute
<1>2. CASE \E t \in Scans : Scan(t)
  BY <1>2, ScanBeginsStep, ScanStep, SpawnStep, Zenon DEF Scan
<1>3. CASE \E t \in Timers : Timer(t)
  BY <1>3, TimerStep, Zenon
<1>4. CASE \E t \in Users : User(t)
  BY <1>4, UserStep, Zenon DEF Others
<1>5. CASE \/ \E t \in Faults : Fault(t)
           \/ \E t \in Convergers : Converge(t)
           \/ \E t \in Droppers : Drops(t)
           \/ \E t \in Pairers : PairBegins(t)
           \/ \E t \in Pairers \cup Users : PairAdopts(t)
  BY <1>5, OtherStep, Zenon DEF Others
<1>6. CASE \E t \in Cancellable : Cancelled(t)
  BY <1>6, CancelStep, Zenon
<1>7. CASE UNCHANGED vars
  <2>1. task' = task /\ lane' = lane /\ timer' = timer
    BY <1>7, Zenon DEF vars
  <2> QED
    BY <2>1, Zenon DEF ExInv, Shape, Local, LaneIsHeld, InLane, Handles, At
<1> QED
  BY <1>1, <1>2, <1>3, <1>4, <1>5, <1>6, <1>7, Zenon DEF Next

\* The lane of a target (lanes.rs) is held by exactly the scan or the publishing
\* connect it protects, for any number of tasks of every kind, any outcome of a
\* connect and any order of steps: two of them never overlap, and the lane is
\* free again once its holder is past the registry write, the tear-down or the
\* refused report.
THEOREM LaneIsAlwaysHeld == Spec => []LaneIsHeld
<1>1. ExInv => LaneIsHeld
  BY Zenon DEF ExInv
<1> QED
  BY <1>1, ExInvInit, ExInvNext, PTL DEF Spec

\* Who may change the stored handle.
LEMMA OnlyHandles ==
  ASSUME [Next]_vars
  PROVE  \/ timer' = timer
         \/ \E u \in Tasks : ExecSpawnReconnect(u) \/ ExecCancelReconnect(u)
         \/ \E u \in Timers : TimerWakes(u)
<1>1. CASE \E u \in Tasks : Execute(u)
  BY <1>1, Zenon DEF Execute, ExecConnect, ExecDisconnect, CloseSession, ExecUnmap, ExecDone,
     Dial, FenceCheck, TearDown, Install, Remap, Report, ReadState, WriteRegistry, Ends
<1>2. CASE \E u \in Scans : Scan(u)
  BY <1>2, Zenon DEF Scan, ScanBegins, ScanReadsSettings, ScanAppliesSettings, ScanDiscovers,
     ScanRedisables, ScanRetriesStale, ScanRefreshes, ScanResyncs, ScanExecutesInline,
     ScanSpawnsBackground, ScanRetires
<1>3. CASE \E u \in Timers : Timer(u)
  BY <1>3, Zenon DEF Timer, TimerElapses, TimerAttempts, TimerEndsAborted
<1>4. CASE \E u \in Users : User(u)
  BY <1>4, Zenon DEF User, UserBegins, UserToggles, UserUpdates, UserSaves, UserActivates
<1>5. CASE \/ \E u \in Faults : Fault(u)
           \/ \E u \in Convergers : Converge(u)
           \/ \E u \in Droppers : Drops(u)
           \/ \E u \in Pairers : PairBegins(u)
           \/ \E u \in Pairers \cup Users : PairAdopts(u)
  BY <1>5, Zenon DEF Fault, Converge, ConvergeBegins, Converges, Drops, PairBegins, PairAdopts
<1>6. CASE (\E u \in Cancellable : Cancelled(u)) \/ UNCHANGED vars
  BY <1>6, Zenon DEF Cancelled, vars
<1> QED
  BY <1>1, <1>2, <1>3, <1>4, <1>5, <1>6, Zenon DEF Next

\* The handle of a sleeping reconnect task leaves reconnect_tasks only with the
\* task, for any number of tasks of every kind and however they are cancelled:
\* spawning another aborts the sleeper, cancelling reaches it, and only a task
\* that was past its sleep when it was replaced takes its successor's handle.
THEOREM HandlesAlwaysGoWithTheirTask == Spec => HandlesGoWithTheirTask
<1>1. ASSUME ExInv, [Next]_vars, NEW t \in Timers, At(t, "sleep"), timer = t, timer' # t
      PROVE  task'[t].pc # "sleep" \/ \E u \in Timers \ {t} : TimerWakes(u)
  <2>1. t \in Tasks /\ t # None
    BY TaskKinds, Zenon
  <2>2. CASE \E u \in Tasks : ExecSpawnReconnect(u) \/ ExecCancelReconnect(u)
    <3>1. PICK u \in Tasks : ExecSpawnReconnect(u) \/ ExecCancelReconnect(u)
      BY <2>2, Zenon
    <3>2. task[u].pc = "exec" /\ u # t
      BY <1>1, <3>1, HandledTasks, Zenon DEF At
    <3>3. TimerAborted[t].pc # "sleep"
      BY <1>1, <2>1, Aborted, Zenon
    <3>4. task'[t] = TimerAborted[t]
      <4>1. TimerAborted = [w \in Tasks |-> TimerAborted[w]]
        BY <1>1, Aborted, Zenon
      <4>2. CASE ExecSpawnReconnect(u)
        <5>1. PICK s \in Timers : /\ timer' = s
                                  /\ task' = [TimerAborted EXCEPT ![u] = Popped(u), ![s] = Sleeping]
          BY <4>2, Zenon DEF ExecSpawnReconnect
        <5> QED
          BY <1>1, <2>1, <3>2, <4>1, <5>1, Zenon
      <4>3. CASE ExecCancelReconnect(u)
        BY <2>1, <3>2, <4>1, <4>3, Zenon DEF ExecCancelReconnect
      <4> QED
        BY <3>1, <4>2, <4>3, Zenon
    <3> QED
      BY <3>3, <3>4, Zenon
  <2>3. CASE \E u \in Timers : TimerWakes(u)
    <3>1. PICK u \in Timers : TimerWakes(u)
      BY <2>3, Zenon
    <3>2. u # t
      BY <1>1, <3>1, Zenon DEF TimerWakes, At
    <3> QED
      BY <3>1, <3>2, Zenon
  <2>4. CASE timer' = timer
    BY <1>1, <2>4, Zenon
  <2> QED
    BY <1>1, <2>2, <2>3, <2>4, OnlyHandles, Zenon
<1>2. ExInv /\ [Next]_vars =>
        [\A t \in Timers :
           At(t, "sleep") /\ timer = t /\ timer' # t =>
             \/ task'[t].pc # "sleep"
             \/ \E u \in Timers \ {t} : TimerWakes(u)]_vars
  BY <1>1, Zenon
<1> QED
  BY <1>2, ExInvInit, ExInvNext, PTL DEF Spec, HandlesGoWithTheirTask

-----------------------------------------------------------------------------
(* The connects the tasks have in hand. *)

\* The task has a Connect to execute, or is at one.
Carrying(r) == Emits(r.acts, "Connect")
Making(t, r) ==
  \/ Carrying(r)
  \/ r.pc \in {"dial", "fence", "install", "report"}
  \/ t \in Timers /\ r.pc = "remap"

\* Its report will clear the mark i: no pairing, whose connect is nobody's intent,
\* and no fenced connect of another intent.
Owner(t, r, i) == r.pairing = FALSE /\ r.fence \in {None, i} /\ Making(t, r)

\* Every task sees its calls through: none is cancelled, none throws away actions.
Attended == Cancellable = {} /\ Timers \cup Users = {}

\* Where a task may be while it has a Connect to execute.
CarryPcs == {"exec", "dispatch", "redisable", "dial", "close", "fence", "teardown", "install",
             "report", "remap", "read", "write"}

\* What a task may have in hand where it is.
Loaded(t, r) ==
  /\ r.acts \in Seq(Acts)
  /\ Carrying(r) => /\ r.pc \in CarryPcs /\ t \notin Timers /\ r.pairing = FALSE
                    /\ r.pc \in {"remap", "read", "write"} => r.back = "exec"
  /\ t \in Timers \/ r.pc \in {"toggle", "weigh"} => r.pairing = FALSE

\* The manager's entry is coherent whichever task calls it, and a connect in flight
\* has an owner unless it lost it.
WorkInv ==
  /\ Coherent(entry) /\ issued \in Nat
  /\ \A t \in Tasks : Loaded(t, task[t])
  /\ InFlight(entry) => orphaned \/ \E t \in Tasks : Owner(t, task[t], entry.issue)
  /\ Attended => ~orphaned

\* Taking the first action off a list.
LEMMA TailEmits ==
  ASSUME NEW a \in Seq(Acts), a # <<>>, NEW op
  PROVE  /\ Tail(a) \in Seq(Acts)
         /\ Emits(Tail(a), op) => Emits(a, op)
         /\ Emits(a, op) /\ Head(a).op # op => Emits(Tail(a), op)
<1>1. Tail(a) \in Seq(Acts)
  OBVIOUS
<1>2. ASSUME Emits(Tail(a), op) PROVE Emits(a, op)
  <2>1. PICK i \in DOMAIN Tail(a) : Tail(a)[i].op = op
    BY <1>2, Zenon DEF Emits
  <2>2. i + 1 \in DOMAIN a /\ a[i + 1] = Tail(a)[i]
    OBVIOUS
  <2> QED
    BY <2>1, <2>2, Zenon DEF Emits
<1>3. ASSUME Emits(a, op), Head(a).op # op PROVE Emits(Tail(a), op)
  <2>1. PICK i \in DOMAIN a : a[i].op = op
    BY <1>3, Zenon DEF Emits
  <2>2. i # 1
    BY <1>3, <2>1
  <2>3. i - 1 \in DOMAIN Tail(a) /\ Tail(a)[i - 1] = a[i]
    BY <2>2
  <2> QED
    BY <2>1, <2>3, Zenon DEF Emits
<1> QED
  BY <1>1, <1>2, <1>3, Zenon

\* What the steps make of the fields that the lane does not depend on.
Holding(r, a, on, auto) == r.acts = a /\ r.on = on /\ r.auto = auto

LEMMA EditFields ==
  ASSUME NEW r, Shaped(r), NEW v, NEW a, NEW b
  PROVE  /\ Holding([r EXCEPT !.pc = v, !.on = a], r.acts, a, r.auto)
         /\ Holding([r EXCEPT !.pc = v, !.seen = a], r.acts, r.on, r.auto)
         /\ Holding([r EXCEPT !.pc = v, !.auto = a, !.seen = b], r.acts, r.on, a)
  BY Zenon DEF Holding, Shaped, Fields

\* Task t goes on to v with the actions a.
Goes(t, v, a) == Moves(t, v) /\ task'[t].acts = a

LEMMA GotoGoes ==
  ASSUME Shape, NEW t \in Tasks, NEW v, Goto(t, v)
  PROVE  Goes(t, v, task[t].acts) /\ task'[t].on = task[t].on /\ task'[t].auto = task[t].auto
<1>1. task'[t] = [task[t] EXCEPT !.pc = v] /\ Shaped(task[t])
  BY Zenon DEF Shape, Goto
<1>2. task'[t].acts = task[t].acts /\ task'[t].on = task[t].on /\ task'[t].auto = task[t].auto
  BY <1>1, Zenon DEF Shaped, Fields
<1> QED
  BY <1>2, GotoMoves, Zenon DEF Goes

LEMMA PopGoes ==
  ASSUME Shape, NEW t \in Tasks, NEW v, Pop(t, v)
  PROVE  Goes(t, v, Tail(task[t].acts))
<1>1. task'[t] = [task[t] EXCEPT !.pc = v, !.acts = Tail(task[t].acts)] /\ Shaped(task[t])
  BY Zenon DEF Shape, Pop, Shaped, Fields
<1>2. task'[t].acts = Tail(task[t].acts)
  BY <1>1, Zenon DEF Shaped, Fields
<1> QED
  BY <1>2, PopMoves, Zenon DEF Goes

LEMMA CallGoes ==
  ASSUME Shape, NEW t \in Tasks, NEW v, NEW result, CallThen(t, result, v)
  PROVE  Goes(t, v, result.acts) /\ task'[t].on = task[t].on /\ task'[t].auto = task[t].auto
<1>1. task'[t] = [task[t] EXCEPT !.pc = v, !.acts = result.acts] /\ Shaped(task[t])
  BY Zenon DEF Shape, CallThen
<1>2. task'[t].acts = result.acts /\ task'[t].on = task[t].on /\ task'[t].auto = task[t].auto
  BY <1>1, Zenon DEF Shaped, Fields
<1> QED
  BY <1>2, CallMoves, Zenon DEF Goes

LEMMA ReadsGoes ==
  ASSUME Shape, NEW t \in Tasks, NEW v, NEW a, task' = [task EXCEPT ![t].pc = v, ![t].on = a]
  PROVE  Goes(t, v, task[t].acts) /\ task'[t].on = a
<1> DEFINE r == [task[t] EXCEPT !.pc = v, !.on = a]
<1>1. task'[t] = r /\ Shaped(task[t])
  BY Zenon DEF Shape
<1>2. Holding(r, task[t].acts, a, task[t].auto)
  BY <1>1, EditFields, Zenon
<1>3. Moves(t, v)
  BY ReadsMove, Zenon
<1> HIDE DEF r
<1> QED
  BY <1>1, <1>2, <1>3, Zenon DEF Goes, Holding

LEMMA SeesGoes ==
  ASSUME Shape, NEW t \in Tasks, NEW v, NEW a, task' = [task EXCEPT ![t].pc = v, ![t].seen = a]
  PROVE  Goes(t, v, task[t].acts)
<1> DEFINE r == [task[t] EXCEPT !.pc = v, !.seen = a]
<1>1. task'[t] = r /\ Shaped(task[t])
  BY Zenon DEF Shape
<1>2. Holding(r, task[t].acts, task[t].on, task[t].auto)
  BY <1>1, EditFields, Zenon
<1>3. Moves(t, v)
  BY SeesMoves, Zenon
<1> HIDE DEF r
<1> QED
  BY <1>1, <1>2, <1>3, Zenon DEF Goes, Holding

LEMMA AppliesGoes ==
  ASSUME Shape, NEW t \in Tasks, NEW v, NEW a, NEW b,
         task' = [task EXCEPT ![t].pc = v, ![t].auto = a, ![t].seen = b]
  PROVE  Goes(t, v, task[t].acts) /\ task'[t].on = task[t].on /\ task'[t].auto = a
<1> DEFINE r == [task[t] EXCEPT !.pc = v, !.auto = a, !.seen = b]
<1>1. task'[t] = r /\ Shaped(task[t])
  BY Zenon DEF Shape
<1>2. Holding(r, task[t].acts, task[t].on, a)
  BY <1>1, EditFields, Zenon
<1>3. Moves(t, v)
  BY AppliesMoves, Zenon
<1> HIDE DEF r
<1> QED
  BY <1>1, <1>2, <1>3, Zenon DEF Goes, Holding

-----------------------------------------------------------------------------
\* The invariant of the next state, said of the next values.
LEMMA WorkNow ==
  ASSUME Coherent(entry'), issued' \in Nat, \A t \in Tasks : Loaded(t, task'[t]),
         entry'.issue # None => orphaned' \/ \E t \in Tasks : Owner(t, task'[t], entry'.issue),
         Attended => ~orphaned'
  PROVE  WorkInv'
<1>1. Coherent(entry)'
  BY Zenon DEF Coherent, MachineCoherent, InFlight, State
<1>2. (\A t \in Tasks : Loaded(t, task[t]))'
  BY Zenon DEF Loaded, Carrying, Emits
<1>3. (InFlight(entry) => orphaned \/ \E t \in Tasks : Owner(t, task[t], entry.issue))'
  BY Zenon DEF InFlight, Owner, Making, Carrying, Emits
<1> QED
  BY <1>1, <1>2, <1>3, Zenon DEF WorkInv, Attended

\* A call of the manager, from what the method owes.
LEMMA CallSound ==
  ASSUME WorkInv, NEW result, CallOK(entry, result), Call(result)
  PROVE  /\ Coherent(entry') /\ issued' \in Nat /\ entry' = result.entry
         /\ result.acts \in Seq(Acts)
         /\ entry'.issue = entry.issue => orphaned' = orphaned
         /\ orphaned' => \/ orphaned
                         \/ entry'.issue # None /\ entry'.issue # entry.issue
                            /\ ~Emits(result.acts, "Connect")
<1>1. Stamp \in Nat /\ issued \in Nat
  BY DEF WorkInv, Stamp
<1>2. /\ entry' = result.entry /\ issued' \in {Stamp, issued}
      /\ orphaned' = IF result.entry.issue = entry.issue THEN orphaned
                     ELSE InFlight(result.entry) /\ ~Emits(result.acts, "Connect")
  BY Zenon DEF Call
<1>3. CASE result.entry.issue = entry.issue
  BY <1>1, <1>2, <1>3, Zenon DEF CallOK
<1>4. CASE result.entry.issue # entry.issue
  BY <1>1, <1>2, <1>4, Zenon DEF CallOK, InFlight
<1> QED
  BY <1>3, <1>4, Zenon

\* One task has a step.  A connect in flight keeps its owner if this task owns it
\* now, or owned none before.
LEMMA WorkStep ==
  ASSUME WorkInv, NEW t \in Tasks, Only(t), Loaded(t, task'[t]),
         Coherent(entry'), issued' \in Nat, orphaned' => orphaned \/ ~Attended,
         \/ entry'.issue = None \/ orphaned'
         \/ Owner(t, task'[t], entry'.issue)
         \/ entry'.issue = entry.issue /\ (orphaned => orphaned') /\ ~Owner(t, task[t], entry.issue)
  PROVE  WorkInv'
<1>1. \A u \in Tasks : u # t => task'[u] = task[u]
  BY Zenon DEF Only
<1>2. \A u \in Tasks : Loaded(u, task'[u])
  BY <1>1, Zenon DEF WorkInv
<1>3. ASSUME ~orphaned', entry'.issue # None
      PROVE  \E u \in Tasks : Owner(u, task'[u], entry'.issue)
  <2>1. CASE Owner(t, task'[t], entry'.issue)
    BY <2>1, Zenon
  <2>2. CASE entry'.issue = entry.issue /\ ~orphaned /\ ~Owner(t, task[t], entry.issue)
    <3>1. PICK u \in Tasks : Owner(u, task[u], entry.issue)
      BY <1>3, <2>2, Zenon DEF WorkInv, InFlight
    <3>2. u # t /\ task'[u] = task[u]
      BY <1>1, <2>2, <3>1, Zenon
    <3> QED
      BY <2>2, <3>1, <3>2, Zenon
  <2> QED
    BY <1>3, <2>1, <2>2, Zenon
<1>4. Attended => ~orphaned'
  BY Zenon DEF WorkInv
<1> QED
  BY <1>2, <1>3, <1>4, WorkNow, Zenon

\* The manager is not called; the task keeps its actions or takes one off.
LEMMA QuietWork ==
  ASSUME WorkInv, NEW t \in Tasks, NEW v, NEW a, Goes(t, v, a), UNCHANGED manager,
         a \in Seq(Acts), Emits(a, "Connect") => Carrying(task[t]),
         v \notin {"toggle", "weigh"},
         Emits(a, "Connect") => /\ v \in CarryPcs
                                /\ v \in {"remap", "read", "write"} => task[t].back = "exec",
         Owner(t, task[t], entry.issue) =>
           \/ Emits(a, "Connect") \/ v \in {"dial", "fence", "install", "report"}
           \/ t \in Timers /\ v = "remap"
  PROVE  WorkInv'
<1>1. /\ Only(t) /\ task'[t].pc = v /\ task'[t].back = task[t].back /\ task'[t].acts = a
      /\ task'[t].fence = task[t].fence /\ task'[t].pairing = task[t].pairing
  BY Zenon DEF Goes, Moves, Advanced
<1>2. entry' = entry /\ issued' = issued /\ orphaned' = orphaned /\ Coherent(entry) /\ issued \in Nat
  BY Zenon DEF manager, WorkInv
<1>3. Loaded(t, task[t])
  BY Zenon DEF WorkInv
<1>4. Loaded(t, task'[t])
  BY <1>1, <1>3, Zenon DEF Loaded, Carrying
<1>5. Owner(t, task[t], entry.issue) => Owner(t, task'[t], entry'.issue)
  BY <1>1, <1>2, Zenon DEF Owner, Making, Carrying
<1> QED
  BY <1>1, <1>2, <1>4, <1>5, WorkStep, Zenon

\* The same where the task had no connect in hand and gets none.
LEMMA EmptyWork ==
  ASSUME WorkInv, NEW t \in Tasks, NEW v, Goes(t, v, task[t].acts), UNCHANGED manager,
         v \notin {"toggle", "weigh"},
         task[t].pc \notin CarryPcs
  PROVE  WorkInv'
<1>1. Loaded(t, task[t])
  BY Zenon DEF WorkInv
<1>2. ~Carrying(task[t]) /\ task[t].acts \in Seq(Acts)
  BY <1>1, Zenon DEF Loaded
<1>3. ~Owner(t, task[t], entry.issue)
  BY <1>2, Zenon DEF Owner, Making, CarryPcs
<1> QED
  BY <1>2, <1>3, QuietWork, Zenon DEF Carrying

\* What the invariant of the next state says of the next values.
LEMMA NowOwned ==
  ASSUME WorkInv', Attended, entry'.issue # None
  PROVE  \E t \in Tasks : Owner(t, task'[t], entry'.issue)
<1>1. (InFlight(entry) => \E t \in Tasks : Owner(t, task[t], entry.issue))'
  BY Zenon DEF WorkInv, Attended
<1> QED
  BY <1>1, Zenon DEF InFlight, Owner, Making, Carrying, Emits

\* What taking an action off the list makes of a connect in hand.
LEMMA PoppedWork ==
  ASSUME WorkInv, NEW t \in Tasks, NEW op, NextAct(t, op)
  PROVE  /\ task[t].pc = "exec" /\ task[t].acts # <<>> /\ task[t].acts \in Seq(Acts)
         /\ Tail(task[t].acts) \in Seq(Acts)
         /\ Emits(Tail(task[t].acts), "Connect") => Carrying(task[t])
         /\ Owner(t, task[t], entry.issue) => op = "Connect" \/ Emits(Tail(task[t].acts), "Connect")
<1>1. task[t].acts \in Seq(Acts)
  BY Zenon DEF WorkInv, Loaded
<1>2. task[t].pc = "exec" /\ task[t].acts # <<>> /\ Head(task[t].acts).op = op
  BY Zenon DEF NextAct, At
<1>3. Owner(t, task[t], entry.issue) => Carrying(task[t])
  BY <1>2, Zenon DEF Owner, Making
<1> QED
  BY <1>1, <1>2, <1>3, TailEmits, Zenon DEF Carrying

\* Going on with the list of actions.
LEMMA ListWork ==
  ASSUME WorkInv, NEW t \in Tasks, NEW v \in {"exec", "close", "dial"}, NEW a \in Seq(Acts),
         Goes(t, v, a), UNCHANGED manager,
         Emits(a, "Connect") => Carrying(task[t]),
         Owner(t, task[t], entry.issue) => Emits(a, "Connect") \/ v = "dial"
  PROVE  WorkInv'
<1>1. v \in CarryPcs /\ v \notin {"remap", "read", "write"} /\ v \notin {"toggle", "weigh"}
  BY Zenon DEF CarryPcs
<1>2. Owner(t, task[t], entry.issue) =>
        \/ Emits(a, "Connect") \/ v \in {"dial", "fence", "install", "report"}
        \/ t \in Timers /\ v = "remap"
  BY Zenon
<1> QED
  BY <1>1, <1>2, QuietWork, Zenon

LEMMA ExecWork ==
  ASSUME ExInv, WorkInv, NEW t \in Tasks,
         ExecConnect(t) \/ ExecDisconnect(t) \/ CloseSession(t) \/ ExecUnmap(t)
  PROVE  WorkInv'
<1>1. Shape
  BY Zenon DEF ExInv
<1>2. CASE ExecConnect(t)
  <2>1. NextAct(t, "Connect") /\ Pop(t, "dial") /\ UNCHANGED manager
    BY <1>2, Zenon DEF ExecConnect
  <2>2. Goes(t, "dial", Tail(task[t].acts))
    BY <1>1, <2>1, PopGoes, Zenon
  <2> QED
    BY <2>1, <2>2, PoppedWork, ListWork, Zenon
<1>3. CASE ExecDisconnect(t)
  <2>1. NextAct(t, "Disconnect") /\ Pop(t, "close") /\ UNCHANGED manager
    BY <1>3, Zenon DEF ExecDisconnect
  <2>2. Goes(t, "close", Tail(task[t].acts))
    BY <1>1, <2>1, PopGoes, Zenon
  <2>3. /\ Tail(task[t].acts) \in Seq(Acts)
        /\ Emits(Tail(task[t].acts), "Connect") => Carrying(task[t])
        /\ Owner(t, task[t], entry.issue) => Emits(Tail(task[t].acts), "Connect")
    BY <2>1, PoppedWork
  <2> QED
    BY <2>1, <2>2, <2>3, ListWork, Zenon
<1>4. CASE CloseSession(t)
  <2>1. task[t].pc = "close" /\ Goto(t, "exec") /\ UNCHANGED manager
    BY <1>4, Zenon DEF CloseSession, At
  <2>2. Goes(t, "exec", task[t].acts)
    BY <1>1, <2>1, GotoGoes, Zenon
  <2>3. /\ task[t].acts \in Seq(Acts)
        /\ Owner(t, task[t], entry.issue) => Emits(task[t].acts, "Connect")
    BY <2>1, Zenon DEF WorkInv, Loaded, Owner, Making, Carrying
  <2> QED
    BY <2>1, <2>2, <2>3, ListWork, Zenon DEF Carrying
<1>5. CASE ExecUnmap(t)
  <2>1. NextAct(t, "Unmap") /\ Pop(t, "exec") /\ UNCHANGED manager
    BY <1>5, Zenon DEF ExecUnmap
  <2>2. Goes(t, "exec", Tail(task[t].acts))
    BY <1>1, <2>1, PopGoes, Zenon
  <2>3. /\ Tail(task[t].acts) \in Seq(Acts)
        /\ Emits(Tail(task[t].acts), "Connect") => Carrying(task[t])
        /\ Owner(t, task[t], entry.issue) => Emits(Tail(task[t].acts), "Connect")
    BY <2>1, PoppedWork
  <2> QED
    BY <2>1, <2>2, <2>3, ListWork, Zenon
<1> QED
  BY <1>2, <1>3, <1>4, <1>5, Zenon

LEMMA DoneWork ==
  ASSUME ExInv, WorkInv, NEW t \in Tasks, ExecDone(t)
  PROVE  WorkInv'
<1> DEFINE v == IF task[t].pairing THEN "remap" ELSE "read"
           r == [task[t] EXCEPT !.pc = v, !.back = "end"]
<1>1. task[t].pc = "exec" /\ task[t].acts = <<>> /\ UNCHANGED manager
  BY Zenon DEF ExecDone, At
<1>2. Shape /\ Shaped(task[t]) /\ Loaded(t, task[t])
  BY Zenon DEF ExInv, Shape, WorkInv
<1>3. task' = [task EXCEPT ![t] = r]
  BY <1>2, Zenon DEF ExecDone, Shape, Shaped, Fields
<1>4. Shaped(r) /\ r.pc = v /\ r.acts = task[t].acts /\ r.pairing = task[t].pairing
  BY <1>2, Zenon DEF Shaped, Fields
<1> HIDE DEF r
<1>5. Only(t) /\ task'[t] = r
  BY <1>2, <1>3, <1>4, Replaced, Zenon
<1>6. ~Carrying(task[t])
  BY <1>1 DEF Carrying, Emits
<1>7. v \in {"remap", "read"}
  BY Zenon
<1> HIDE DEF v
<1>8. Loaded(t, task'[t])
  BY <1>2, <1>4, <1>5, <1>6, <1>7, Zenon DEF Loaded, Carrying
<1>9. ~Owner(t, task[t], entry.issue)
  BY <1>1, <1>6, Zenon DEF Owner, Making
<1>10. entry' = entry /\ issued' = issued /\ orphaned' = orphaned /\ Coherent(entry) /\ issued \in Nat
  BY <1>1, Zenon DEF manager, WorkInv
<1> QED
  BY <1>5, <1>8, <1>9, <1>10, WorkStep, Zenon

LEMMA DialWork ==
  ASSUME ExInv, WorkInv, NEW t \in Tasks, Dial(t)
  PROVE  WorkInv'
<1>1. PICK o \in Outcomes :
        task' = [task EXCEPT ![t].outcome = o,
            ![t].pc = IF o # "ok" THEN (IF task[t].pairing THEN "end" ELSE "report")
                      ELSE IF task[t].fence # None THEN "fence"
                      ELSE "install"]
  BY Zenon DEF Dial
<1> DEFINE v == IF o # "ok" THEN (IF task[t].pairing THEN "end" ELSE "report")
                ELSE IF task[t].fence # None THEN "fence"
                ELSE "install"
           r == [task[t] EXCEPT !.outcome = o, !.pc = v]
<1>2. task[t].pc = "dial" /\ UNCHANGED manager
  BY Zenon DEF Dial, At
<1>3. Shape /\ Shaped(task[t]) /\ Loaded(t, task[t])
  BY Zenon DEF ExInv, Shape, WorkInv
<1>4. task' = [task EXCEPT ![t] = r]
  BY <1>1, <1>3, Zenon DEF Shape
<1>5. /\ Shaped(r) /\ r.pc = v /\ r.acts = task[t].acts /\ r.fence = task[t].fence
      /\ r.pairing = task[t].pairing
  BY <1>3, Zenon DEF Shaped, Fields
<1> HIDE DEF r
<1>6. Only(t) /\ task'[t] = r
  BY <1>3, <1>4, <1>5, Replaced, Zenon
<1>7. /\ v \in {"end", "report", "fence", "install"}
      /\ task[t].pairing = FALSE => v # "end"
  BY Zenon
<1> HIDE DEF v
<1>8. Loaded(t, task'[t])
  BY <1>3, <1>5, <1>6, <1>7, Zenon DEF Loaded, Carrying, CarryPcs
<1>9. Owner(t, task[t], entry.issue) => Owner(t, task'[t], entry.issue)
  BY <1>5, <1>6, <1>7, Zenon DEF Owner, Making
<1>10. entry' = entry /\ issued' = issued /\ orphaned' = orphaned /\ Coherent(entry) /\ issued \in Nat
  BY <1>2, Zenon DEF manager, WorkInv
<1> QED
  BY <1>6, <1>8, <1>9, <1>10, WorkStep, Zenon

LEMMA FenceWork ==
  ASSUME ExInv, WorkInv, NEW t \in Tasks, FenceCheck(t)
  PROVE  WorkInv'
<1>1. PICK v \in {"install", "exec", "teardown"} :
        Goto(t, v) /\ (entry.issue = task[t].fence => v = "install")
  <2> DEFINE publish == entry.issue = task[t].fence
             yield == ~publish /\ (InFlight(entry) \/ Renderable(State(entry)))
  <2>1. Goto(t, CASE publish -> "install" [] yield -> "exec" [] OTHER -> "teardown")
    BY Zenon DEF FenceCheck
  <2>2. yield => ~publish
    BY Zenon
  <2> HIDE DEF publish, yield
  <2>3. CASE publish
    BY <2>1, <2>2, <2>3, Zenon DEF publish
  <2>4. CASE yield
    BY <2>1, <2>2, <2>4, Zenon DEF publish
  <2>5. CASE ~publish /\ ~yield
    BY <2>1, <2>5, Zenon DEF publish
  <2> QED
    BY <2>3, <2>4, <2>5, Zenon
<1>2. task[t].pc = "fence" /\ UNCHANGED manager /\ Shape /\ Local(t) /\ Loaded(t, task[t])
  BY Zenon DEF FenceCheck, At, ExInv, WorkInv
<1>3. Goes(t, v, task[t].acts) /\ task[t].acts \in Seq(Acts)
  BY <1>1, <1>2, GotoGoes, Zenon DEF Loaded
<1>4. task[t].fence # None
  BY <1>2, Zenon DEF Local
<1>5. Owner(t, task[t], entry.issue) => v = "install"
  BY <1>1, <1>4, Zenon DEF Owner
<1>6. v \in CarryPcs /\ v \notin {"remap", "read", "write"} /\ v \notin {"toggle", "weigh"}
  BY Zenon DEF CarryPcs
<1>7. Owner(t, task[t], entry.issue) =>
        \/ Emits(task[t].acts, "Connect") \/ v \in {"dial", "fence", "install", "report"}
        \/ t \in Timers /\ v = "remap"
  BY <1>5, Zenon
<1> QED
  BY <1>2, <1>3, <1>6, <1>7, QuietWork, Zenon DEF Carrying

\* From one place to the next with the actions still to come.
LEMMA OnwardWork ==
  ASSUME ExInv, WorkInv, NEW t \in Tasks, NEW v, Goes(t, v, task[t].acts), UNCHANGED manager,
         \/ task[t].pc = "teardown" /\ v = "exec"
         \/ task[t].pc = "install" /\ v = IF t \in Timers THEN "remap" ELSE "report"
         \/ task[t].pc = "remap" /\ v = IF t \in Timers THEN "report" ELSE "read"
         \/ task[t].pc = "read" /\ v = "write"
         \/ task[t].pc = "write" /\ v = task[t].back
         \/ task[t].pc = "dispatch" /\ v = "exec"
  PROVE  WorkInv'
<1>1. Loaded(t, task[t]) /\ task[t].back \in {"end", "exec"}
  BY Zenon DEF WorkInv, ExInv, Local
<1>2. task[t].acts \in Seq(Acts) /\ v \notin {"toggle", "weigh"}
  BY <1>1, Zenon DEF Loaded
<1>3. Emits(task[t].acts, "Connect") => /\ v \in CarryPcs
                                        /\ v \in {"remap", "read", "write"} => task[t].back = "exec"
  BY <1>1, Zenon DEF Loaded, Carrying, CarryPcs
<1>4. Owner(t, task[t], entry.issue) =>
        \/ Emits(task[t].acts, "Connect") \/ v \in {"dial", "fence", "install", "report"}
        \/ t \in Timers /\ v = "remap"
  BY Zenon DEF Owner, Making, Carrying
<1> QED
  BY <1>2, <1>3, <1>4, QuietWork, Zenon DEF Carrying

LEMMA PublishWork ==
  ASSUME ExInv, WorkInv, NEW t \in Tasks,
         TearDown(t) \/ Install(t) \/ Remap(t) \/ ReadState(t) \/ WriteRegistry(t)
  PROVE  WorkInv'
<1>1. Shape /\ UNCHANGED manager
  BY Zenon DEF ExInv, TearDown, Install, Remap, ReadState, WriteRegistry
<1>2. CASE TearDown(t)
  <2>1. task[t].pc = "teardown" /\ Goto(t, "exec")
    BY <1>2, Zenon DEF TearDown, At
  <2> QED
    BY <1>1, <2>1, GotoGoes, OnwardWork, Zenon
<1>3. CASE Install(t)
  <2> DEFINE v == IF t \in Timers THEN "remap" ELSE "report"
  <2>1. task[t].pc = "install" /\ Goto(t, v)
    BY <1>3, Zenon DEF Install, At
  <2>2. Goes(t, v, task[t].acts)
    BY <1>1, <2>1, GotoGoes, Zenon
  <2> QED
    BY <1>1, <2>1, <2>2, OnwardWork, Zenon
<1>4. CASE Remap(t)
  <2> DEFINE v == IF t \in Timers THEN "report" ELSE "read"
  <2>1. task[t].pc = "remap" /\ Goto(t, v)
    BY <1>4, Zenon DEF Remap, At
  <2>2. Goes(t, v, task[t].acts)
    BY <1>1, <2>1, GotoGoes, Zenon
  <2> QED
    BY <1>1, <2>1, <2>2, OnwardWork, Zenon
<1>5. CASE ReadState(t)
  <2>1. /\ task[t].pc = "read"
        /\ task' = [task EXCEPT ![t].pc = "write", ![t].seen = State(entry)]
    BY <1>5, Zenon DEF ReadState, At
  <2>2. Goes(t, "write", task[t].acts)
    BY <1>1, <2>1, SeesGoes, Zenon
  <2> QED
    BY <1>1, <2>1, <2>2, OnwardWork, Zenon
<1>6. CASE WriteRegistry(t)
  <2>1. task[t].pc = "write" /\ Goto(t, task[t].back)
    BY <1>6, Zenon DEF WriteRegistry, At
  <2> QED
    BY <1>1, <2>1, GotoGoes, OnwardWork, Zenon
<1> QED
  BY <1>2, <1>3, <1>4, <1>5, <1>6, Zenon

-----------------------------------------------------------------------------
\* Outcomes, faults, departures and user vetoes clear the in-flight mark.
LEMMA MarkCleared ==
  ASSUME NEW e \in Entries
  PROVE  /\ OnConnected(e).entry.issue = None /\ OnConnectFailed(e).entry.issue = None
         /\ OnConnectAbandoned(e).entry.issue = None /\ OnReconnectFailed(e).entry.issue = None
         /\ OnCommError(e).entry.issue = None /\ OnReconnectRequested(e).entry.issue = None
         /\ OnUserDisable(e).entry.issue = None /\ OnRuntimeDeactivate(e).entry.issue = None
         /\ e.tracked => OnDeviceVanished(e).entry.issue = None
<1>1. Idle(e) \in Entries /\ Idle(e).issue = None
  BY IdleFields, Zenon
<1>2. ASSUME NEW m
      PROVE  /\ [Idle(e) EXCEPT !.fsm = m].issue = None
             /\ [e EXCEPT !.issue = None, !.scheduled = TRUE, !.fsm = m].issue = None
  BY <1>1, Zenon DEF Entries
<1>3. [e EXCEPT !.issue = None].issue = None
  BY Zenon DEF Entries
<1>4. OnConnected(e).entry.issue = None /\ OnConnectAbandoned(e).entry.issue = None
  BY <1>1, <1>2, Zenon DEF OnConnected, OnConnectAbandoned, Result
<1>5. OnConnectFailed(e).entry.issue = None
  BY <1>2, <1>3, Zenon DEF OnConnectFailed, Result
<1>6. OnReconnectFailed(e).entry.issue = None
  BY <1>2, Zenon DEF OnReconnectFailed, Result
<1>7. OnCommError(e).entry.issue = None /\ OnReconnectRequested(e).entry.issue = None
  BY <1>2, Zenon DEF OnCommError, OnReconnectRequested, ReconnectAfter, Result
<1>8. OnUserDisable(e).entry.issue = None /\ (e.tracked => OnDeviceVanished(e).entry.issue = None)
  BY <1>1, <1>2, Zenon DEF OnUserDisable, OnDeviceVanished, Result
<1>9. OnRuntimeDeactivate(e).entry.issue = None
  BY <1>1, <1>2, Zenon DEF OnRuntimeDeactivate, Result
<1> QED
  BY <1>4, <1>5, <1>6, <1>7, <1>8, <1>9, Zenon

\* Discovery and user_enable stamp exactly the connects they ask for.
LEMMA MarkStamped ==
  ASSUME NEW e \in Entries, NEW layout \in Layouts, NEW stamp, NEW auto
  PROVE  /\ LET r == OnDiscovered(e, auto, layout, stamp)
            IN  \/ r.entry.issue = stamp /\ Emits(r.acts, "Connect") /\ ~InFlight(e)
                \/ r.entry.issue = e.issue /\ ~Emits(r.acts, "Connect")
         /\ LET r == OnUserEnable(e, stamp)
            IN  \/ r.entry.issue = stamp /\ Emits(r.acts, "Connect") /\ e.tracked
                \/ r.entry.issue = e.issue /\ ~Emits(r.acts, "Connect")
<1>1. ASSUME NEW f \in Entries PROVE Emits(<<Connect(f)>>, "Connect") /\ <<Connect(f)>> \in Seq(Acts)
  BY EmitsUnit, Zenon DEF Connect, Entries, Ops
<1>2. CancelIfScheduled(e) \in Seq(Acts) /\ ~Emits(CancelIfScheduled(e), "Connect")
  BY NoConnectLists, Zenon DEF ConnectFree
<1>3. ~Emits(<<>>, "Connect")
  BY DEF Emits
<1>4. ASSUME NEW b \in BOOLEAN
      PROVE  /\ Refreshed(e, b, layout) \in Entries /\ Refreshed(e, b, layout).issue = e.issue
             /\ [Refreshed(e, b, layout) EXCEPT !.issue = stamp].issue = stamp
             /\ \A m : [Refreshed(e, b, layout) EXCEPT !.fsm = m].issue = e.issue
  <2>1. Refreshed(e, b, layout) \in Entries /\ Refreshed(e, b, layout).issue = e.issue
    BY Zenon DEF Refreshed, Entries
  <2>2. ASSUME NEW f \in Entries, NEW m
        PROVE  [f EXCEPT !.issue = stamp].issue = stamp /\ [f EXCEPT !.fsm = m].issue = f.issue
    BY Zenon DEF Entries
  <2> QED
    BY <2>1, <2>2, Zenon
<1>5. LET r == DiscoveredAuto(e, layout, stamp)
      IN  \/ r.entry.issue = stamp /\ Emits(r.acts, "Connect") /\ ~InFlight(e)
          \/ r.entry.issue = e.issue /\ ~Emits(r.acts, "Connect")
  <2>1. CASE CanConnect(e.fsm) /\ ~InFlight(e)
    <3>1. /\ DiscoveredAuto(e, layout, stamp).entry.issue = stamp
          /\ DiscoveredAuto(e, layout, stamp).acts =
               CancelIfScheduled(e) \o <<Connect(Refreshed(e, TRUE, layout))>>
      BY <1>4, <2>1, Zenon DEF DiscoveredAuto, Result
    <3> QED
      BY <1>1, <1>2, <1>4, <2>1, <3>1, EmitsConcat, Zenon
  <2>2. CASE ~(CanConnect(e.fsm) /\ ~InFlight(e))
    BY <1>2, <1>4, <2>2, Zenon DEF DiscoveredAuto, Result
  <2> QED
    BY <2>1, <2>2, Zenon
<1>6. LET r == DiscoveredDeferred(e, layout)
      IN  r.entry.issue = e.issue /\ ~Emits(r.acts, "Connect")
  <2>1. ConnectFree(<<Disconnect(Refreshed(e, FALSE, layout)), Unmap(Refreshed(e, FALSE, layout))>>)
    BY <1>4, NoConnectLists, Zenon
  <2>2. ConnectFree(CancelIfScheduled(e))
    BY NoConnectLists, Zenon
  <2>3. ~Emits(DiscoveredDeferred(e, layout).acts, "Connect")
    BY <2>1, <2>2, ConnectFreeConcat, Zenon DEF DiscoveredDeferred, Result, ConnectFree
  <2>4. DiscoveredDeferred(e, layout).entry.issue = e.issue
    BY <1>4, Zenon DEF DiscoveredDeferred, Result
  <2> QED
    BY <2>3, <2>4, Zenon
<1>7. LET r == OnUserEnable(e, stamp)
      IN  \/ r.entry.issue = stamp /\ Emits(r.acts, "Connect") /\ e.tracked
          \/ r.entry.issue = e.issue /\ ~Emits(r.acts, "Connect")
  <2>1. /\ [[e EXCEPT !.fsm = UserEnabled(@)] EXCEPT !.issue = stamp].issue = stamp
        /\ [e EXCEPT !.fsm = UserEnabled(@)].issue = e.issue
    BY Zenon DEF Entries
  <2> QED
    BY <1>1, <1>3, <2>1, Zenon DEF OnUserEnable, Result
<1> QED
  BY <1>5, <1>6, <1>7, Zenon DEF OnDiscovered

\* A deferred discovery keeps the mark as it is.
LEMMA DeferredKeepsMark ==
  ASSUME NEW e \in Entries, NEW layout \in Layouts
  PROVE  DiscoveredDeferred(e, layout).entry.issue = e.issue
<1>1. /\ Refreshed(e, FALSE, layout).issue = e.issue
      /\ [Refreshed(e, FALSE, layout) EXCEPT !.fsm = HotUnplugged(@)].issue = e.issue
  BY Zenon DEF Refreshed, Entries
<1> QED
  BY <1>1, Zenon DEF DiscoveredDeferred, Result

\* The layout a scan or a convergence names.
LEMMA LayoutIsOne == TheLayout \in Layouts
  BY LayoutsAssumption, Zenon DEF TheLayout

\* The local states that work begins with.
LEMMA FreshLoaded ==
  ASSUME NEW t \in Tasks, NEW a, NEW b
  PROVE  /\ Loaded(t, IdleTask) /\ Loaded(t, Sleeping)
         /\ Loaded(t, [IdleTask EXCEPT !.pc = "observe"])
         /\ ConnectFree(a) => Loaded(t, [IdleTask EXCEPT !.pc = "exec", !.acts = a])
         /\ Loaded(t, [IdleTask EXCEPT !.pc = "toggle", !.on = a, !.auto = b])
         /\ Loaded(t, [IdleTask EXCEPT !.pc = "weigh", !.auto = a])
         /\ t \notin Timers => Loaded(t, [IdleTask EXCEPT !.pc = "adopt", !.pairing = TRUE])
<1>1. <<>> \in Seq(Acts) /\ ~Emits(<<>>, "Connect")
  BY DEF Emits
<1>2. Loaded(t, IdleTask) /\ Loaded(t, Sleeping) /\ Loaded(t, [IdleTask EXCEPT !.pc = "observe"])
  BY <1>1, Zenon DEF Loaded, Carrying, IdleTask, Sleeping
<1>3. ConnectFree(a) => Loaded(t, [IdleTask EXCEPT !.pc = "exec", !.acts = a])
  BY Zenon DEF Loaded, Carrying, IdleTask, ConnectFree
<1>4. Loaded(t, [IdleTask EXCEPT !.pc = "toggle", !.on = a, !.auto = b])
  BY <1>1, Zenon DEF Loaded, Carrying, IdleTask
<1>5. Loaded(t, [IdleTask EXCEPT !.pc = "weigh", !.auto = a])
  BY <1>1, Zenon DEF Loaded, Carrying, IdleTask
<1>6. t \notin Timers => Loaded(t, [IdleTask EXCEPT !.pc = "adopt", !.pairing = TRUE])
  BY <1>1, Zenon DEF Loaded, Carrying, IdleTask
<1> QED
  BY <1>2, <1>3, <1>4, <1>5, <1>6, Zenon

\* A task past its connects, or without one yet, owns none.
LEMMA OwnsNone ==
  ASSUME WorkInv, NEW t \in Tasks, task[t].pc \notin CarryPcs
  PROVE  ~Owner(t, task[t], entry.issue) /\ ~Carrying(task[t])
<1>1. ~Carrying(task[t])
  BY Zenon DEF WorkInv, Loaded
<1> QED
  BY <1>1, Zenon DEF Owner, Making, CarryPcs

\* A slot whose local state is replaced.
LEMMA SetWork ==
  ASSUME ExInv, WorkInv, NEW t \in Tasks, NEW r, Shaped(r), Loaded(t, r),
         task' = [task EXCEPT ![t] = r], task[t].pc \notin CarryPcs,
         Coherent(entry'), issued' \in Nat,
         orphaned' => orphaned, entry'.issue = None \/ (entry' = entry /\ orphaned' = orphaned)
  PROVE  WorkInv'
<1>1. Only(t) /\ task'[t] = r
  BY Replaced, Zenon DEF ExInv
<1>2. ~Owner(t, task[t], entry.issue)
  BY OwnsNone, Zenon
<1> QED
  BY <1>1, <1>2, WorkStep, Zenon

\* The same without a call of the manager.
LEMMA SetQuietWork ==
  ASSUME ExInv, WorkInv, NEW t \in Tasks, NEW r, Shaped(r), Loaded(t, r),
         task' = [task EXCEPT ![t] = r], task[t].pc \notin CarryPcs, UNCHANGED manager
  PROVE  WorkInv'
<1>1. entry' = entry /\ issued' = issued /\ orphaned' = orphaned /\ Coherent(entry) /\ issued \in Nat
  BY Zenon DEF manager, WorkInv
<1> QED
  BY <1>1, SetWork, Zenon

\* A call whose actions the task executes next.
LEMMA CallWork ==
  ASSUME ExInv, WorkInv, NEW t \in Tasks, NEW v, NEW result,
         CallThen(t, result, v), CallOK(entry, result), v \notin {"toggle", "weigh"},
         Emits(result.acts, "Connect") =>
           v \in {"exec", "dispatch", "redisable"} /\ t \notin Timers /\ task[t].pairing = FALSE,
         \/ result.entry.issue = None
         \/ Emits(result.acts, "Connect") /\ task[t].fence = None
         \/ result.entry.issue = entry.issue /\ task[t].pc \notin CarryPcs
  PROVE  WorkInv'
<1>1. Goes(t, v, result.acts) /\ Call(result)
  BY CallGoes, Zenon DEF ExInv, CallThen
<1>2. /\ Only(t) /\ task'[t].pc = v /\ task'[t].acts = result.acts
      /\ task'[t].fence = task[t].fence /\ task'[t].pairing = task[t].pairing
  BY <1>1, Zenon DEF Goes, Moves, Advanced
<1>3. /\ Coherent(entry') /\ issued' \in Nat /\ entry' = result.entry /\ result.acts \in Seq(Acts)
      /\ entry'.issue = entry.issue => orphaned' = orphaned
      /\ orphaned' => \/ orphaned
                      \/ entry'.issue # None /\ entry'.issue # entry.issue
                         /\ ~Emits(result.acts, "Connect")
  BY <1>1, CallSound, Zenon
<1>4. Loaded(t, task[t])
  BY Zenon DEF WorkInv
<1>5. Loaded(t, task'[t])
  <2>1. v \in {"exec", "dispatch", "redisable"} => v \in CarryPcs /\ v \notin {"remap", "read", "write"}
    BY Zenon DEF CarryPcs
  <2> QED
    BY <1>2, <1>3, <1>4, <2>1, Zenon DEF Loaded, Carrying
<1>6. Emits(result.acts, "Connect") /\ task[t].fence = None => Owner(t, task'[t], entry'.issue)
  BY <1>2, Zenon DEF Owner, Making, Carrying
<1>7. task[t].pc \notin CarryPcs => ~Owner(t, task[t], entry.issue)
  BY OwnsNone, Zenon
<1>8. orphaned' => orphaned \/ ~Attended
  BY <1>3, Zenon
<1>9. \/ entry'.issue = None \/ orphaned'
      \/ Owner(t, task'[t], entry'.issue)
      \/ entry'.issue = entry.issue /\ (orphaned => orphaned') /\ ~Owner(t, task[t], entry.issue)
  BY <1>3, <1>6, <1>7, Zenon
<1>10. Coherent(entry') /\ issued' \in Nat
  BY <1>3, Zenon
<1> QED
  BY <1>2, <1>5, <1>8, <1>9, <1>10, WorkStep, Zenon

\* What a report of an outcome asks of the manager.
LEMMA ReportedOK ==
  ASSUME WorkInv, NEW t \in Tasks
  PROVE  /\ CallOK(entry, Reported(t)) /\ ConnectFree(Reported(t).acts)
         /\ Reported(t).entry.issue = None
<1>1. Coherent(entry) /\ entry \in Entries
  BY Zenon DEF WorkInv, Coherent
<1>2. Reported(t) \in {OnConnected(entry), OnConnectAbandoned(entry), OnReconnectFailed(entry),
                       OnConnectFailed(entry)}
  <2>1. CASE task[t].outcome = "ok"
    BY <2>1, Zenon DEF Reported
  <2>2. CASE task[t].outcome = "abandon"
    BY <2>2, Zenon DEF Reported
  <2>3. CASE task[t].outcome # "ok" /\ task[t].outcome # "abandon"
    BY <2>3, Zenon DEF Reported
  <2> QED
    BY <2>1, <2>2, <2>3, Zenon
<1>3. /\ CallOK(entry, OnConnected(entry)) /\ CallOK(entry, OnConnectAbandoned(entry))
      /\ CallOK(entry, OnReconnectFailed(entry)) /\ CallOK(entry, OnConnectFailed(entry))
  BY <1>1, OnConnectedOK, OnConnectAbandonedOK, OnReconnectFailedOK, OnConnectFailedOK, Zenon
<1> QED
  BY <1>1, <1>2, <1>3, QuietCalls, MarkCleared, Zenon

LEMMA ReportWork ==
  ASSUME ExInv, WorkInv, NEW t \in Tasks, Report(t)
  PROVE  WorkInv'
<1> DEFINE refused == ~ReportAccepted(t)
           ok == task[t].outcome = "ok"
           v == IF t \in Timers /\ refused THEN "end"
                ELSE IF t \in Timers \/ task[t].pairing \/ refused THEN "exec"
                ELSE IF ok THEN "remap"
                ELSE "read"
           a == task[t].acts \o Reported(t).acts
           r == [task[t] EXCEPT !.acts = a, !.back = "exec", !.pc = v]
<1>1. /\ task[t].pc = "report" /\ Call(Reported(t))
      /\ task' = [task EXCEPT ![t].acts = @ \o Reported(t).acts, ![t].back = "exec", ![t].pc = v]
  BY Zenon DEF Report, At
<1>2. Shape /\ Shaped(task[t]) /\ Loaded(t, task[t])
  BY Zenon DEF ExInv, Shape, WorkInv
<1> HIDE DEF refused
<1>3. task' = [task EXCEPT ![t] = r]
  BY <1>1, <1>2, Zenon DEF Shape, Shaped, Fields
<1>4. a \in Seq(Acts) /\ (Emits(a, "Connect") => Carrying(task[t]))
  <2>1. task[t].acts \in Seq(Acts)
    BY <1>2, Zenon DEF Loaded
  <2>2. Reported(t).acts \in Seq(Acts) /\ ~Emits(Reported(t).acts, "Connect")
    BY ReportedOK, Zenon DEF ConnectFree
  <2> QED
    BY <2>1, <2>2, EmitsConcat, EmitsEither, Zenon DEF Carrying
<1> HIDE DEF a
<1>5. /\ Shaped(r) /\ r.pc = v /\ r.back = "exec" /\ r.acts = a /\ r.pairing = task[t].pairing
  BY <1>2, Zenon DEF Shaped, Fields
<1> HIDE DEF r
<1>6. Only(t) /\ task'[t] = r
  BY <1>2, <1>3, <1>5, Replaced, Zenon
<1>7. v \in {"end", "exec", "remap", "read"} /\ (t \notin Timers => v # "end")
  BY Zenon
<1> HIDE DEF v
<1>8. Loaded(t, task'[t])
  <2>1. /\ v \in {"end", "exec", "remap", "read"} => v \notin {"toggle", "weigh"}
        /\ v \in {"end", "exec", "remap", "read"} /\ v # "end" => v \in CarryPcs
    BY Zenon DEF CarryPcs
  <2>2. v \notin {"toggle", "weigh"} /\ (t \notin Timers => v \in CarryPcs)
    BY <1>7, <2>1, Zenon
  <2> QED
    BY <1>2, <1>4, <1>5, <1>6, <2>2, Zenon DEF Loaded, Carrying
<1>9. Coherent(entry') /\ issued' \in Nat /\ entry'.issue = None /\ (orphaned' => orphaned)
  <2>1. CallOK(entry, Reported(t)) /\ Reported(t).entry.issue = None
    BY ReportedOK, Zenon
  <2>2. /\ Coherent(entry') /\ issued' \in Nat /\ entry' = Reported(t).entry
        /\ orphaned' => orphaned \/ entry'.issue # None
    BY <1>1, <2>1, CallSound, Zenon
  <2> QED
    BY <2>1, <2>2, Zenon
<1> QED
  BY <1>6, <1>8, <1>9, WorkStep, Zenon

LEMMA EndsWork ==
  ASSUME ExInv, WorkInv, NEW t \in Tasks, Ends(t)
  PROVE  WorkInv'
<1>1. task[t].pc = "end" /\ task[t].pc \notin CarryPcs /\ UNCHANGED manager /\ Shape
  BY Zenon DEF Ends, At, CarryPcs, ExInv
<1>2. CASE t \in Users /\ ~task[t].pairing
  <2>1. Goto(t, "update") /\ "update" \notin {"toggle", "weigh"}
    BY <1>2, Zenon DEF Ends
  <2> QED
    BY <1>1, <2>1, GotoGoes, EmptyWork, Zenon
<1>3. CASE ~(t \in Users /\ ~task[t].pairing)
  <2>1. task' = [task EXCEPT ![t] = IdleTask] /\ Shaped(IdleTask) /\ Loaded(t, IdleTask)
    BY <1>3, IdleLocal, FreshLoaded, Zenon DEF Ends
  <2> QED
    BY <1>1, <2>1, SetQuietWork, Zenon
<1> QED
  BY <1>2, <1>3, Zenon

\* A reconnect task is started, stopped or replaced.
LEMMA HandleWork ==
  ASSUME ExInv, WorkInv, NEW t \in Tasks, ExecSpawnReconnect(t) \/ ExecCancelReconnect(t)
  PROVE  WorkInv'
<1>1. PICK op \in {"SpawnReconnect", "CancelReconnect"} : NextAct(t, op)
  BY Zenon DEF ExecSpawnReconnect, ExecCancelReconnect
<1>2. /\ Tail(task[t].acts) \in Seq(Acts) /\ task[t].pc = "exec" /\ Loaded(t, task[t])
      /\ Emits(Tail(task[t].acts), "Connect") => Carrying(task[t])
      /\ Owner(t, task[t], entry.issue) => Emits(Tail(task[t].acts), "Connect")
  BY <1>1, PoppedWork DEF WorkInv
<1>3. Advanced(task[t], Popped(t), "exec") /\ Popped(t).acts = Tail(task[t].acts)
  BY <1>2, PoppedState, Zenon
<1>4. task'[t] = Popped(t) /\ \A u \in Tasks : u # t => Handled(u)
  BY HandledTasks, Zenon
<1>5. entry' = entry /\ issued' = issued /\ orphaned' = orphaned /\ Coherent(entry) /\ issued \in Nat
  BY Zenon DEF ExecSpawnReconnect, ExecCancelReconnect, manager, WorkInv
<1>6. Loaded(t, task'[t]) /\ (Owner(t, task[t], entry.issue) => Owner(t, task'[t], entry.issue))
  <2>1. /\ task'[t].pc = "exec" /\ task'[t].acts = Tail(task[t].acts)
        /\ task'[t].fence = task[t].fence /\ task'[t].pairing = task[t].pairing
    BY <1>3, <1>4, Zenon DEF Advanced
  <2> QED
    BY <1>2, <2>1, Zenon DEF Loaded, Carrying, CarryPcs, Owner, Making
<1>7. ASSUME NEW u \in Tasks, u # t
      PROVE  Loaded(u, task'[u]) /\ (Owner(u, task[u], entry.issue) => Owner(u, task'[u], entry.issue))
  <2>1. CASE task'[u] = task[u]
    BY <2>1, Zenon DEF WorkInv
  <2>2. CASE u \in Timers /\ timer = u /\ Doomed(task[u], task'[u])
    <3>1. task[u].pc \notin CarryPcs
      BY <2>2, Zenon DEF ExInv, Handles, Dozing, CarryPcs
    <3>2. Loaded(u, task[u]) /\ ~Owner(u, task[u], entry.issue)
      BY <3>1, OwnsNone, Zenon DEF WorkInv
    <3> QED
      BY <2>2, <3>2, Zenon DEF Loaded, Carrying, Doomed, Advanced
  <2>3. CASE task'[u] \in {IdleTask, Sleeping} /\ task[u].pc \in Dozing \cup {"idle"}
    <3>1. task[u].pc \notin CarryPcs
      BY <2>3, Zenon DEF CarryPcs, Dozing
    <3> QED
      BY <2>3, <3>1, FreshLoaded, OwnsNone, Zenon
  <2> QED
    BY <1>4, <1>7, <2>1, <2>2, <2>3, Zenon DEF Handled, ExInv, Handles
<1>8. \A u \in Tasks : /\ Loaded(u, task'[u])
                       /\ Owner(u, task[u], entry.issue) => Owner(u, task'[u], entry.issue)
  BY <1>6, <1>7, Zenon
<1>9. /\ entry'.issue # None => orphaned' \/ \E u \in Tasks : Owner(u, task'[u], entry'.issue)
      /\ Attended => ~orphaned'
  BY <1>5, <1>8, Zenon DEF WorkInv, InFlight
<1> QED
  BY <1>5, <1>8, <1>9, WorkNow, Zenon

\* The steps of a scan that call nothing.
LEMMA ScanQuietWork ==
  ASSUME ExInv, WorkInv, NEW t \in Scans,
         \/ ScanBegins(t) \/ ScanReadsSettings(t) \/ ScanAppliesSettings(t) \/ ScanRefreshes(t)
         \/ ScanResyncs(t) \/ ScanExecutesInline(t)
  PROVE  WorkInv'
<1>1. t \in Tasks /\ Shape /\ UNCHANGED manager
  BY TaskKinds, Zenon DEF ExInv, ScanBegins, ScanReadsSettings, ScanAppliesSettings,
     ScanRefreshes, ScanResyncs, ScanExecutesInline
<1>2. CASE ScanBegins(t)
  <2> DEFINE r == [IdleTask EXCEPT !.pc = "observe"]
  <2>1. task[t].pc = "idle" /\ task' = [task EXCEPT ![t] = r]
    BY <1>2, Zenon DEF ScanBegins, Begin, At
  <2>2. Loaded(t, r)
    BY <1>1, FreshLoaded, Zenon
  <2>3. Shaped(r)
    <3>1. Advanced(IdleTask, r, "observe")
      BY IdleLocal, Edits, Zenon
    <3> QED
      BY <3>1, Zenon DEF Advanced
  <2> HIDE DEF r
  <2>4. task[t].pc \notin CarryPcs
    BY <2>1, Zenon DEF CarryPcs
  <2> QED
    BY <1>1, <2>1, <2>2, <2>3, <2>4, SetQuietWork, Zenon
<1>3. CASE \/ ScanReadsSettings(t) \/ ScanAppliesSettings(t) \/ ScanRefreshes(t)
           \/ ScanResyncs(t)
  <2>1. task[t].pc \notin CarryPcs
    BY <1>3, Zenon DEF ScanReadsSettings, ScanAppliesSettings, ScanRefreshes, ScanResyncs, At,
       CarryPcs
  <2>2. \E v \in {"adapt", "discover", "resync", "dispatch"} : Goes(t, v, task[t].acts)
    <3>1. CASE ScanReadsSettings(t)
      BY <1>1, <3>1, ReadsGoes, Zenon DEF ScanReadsSettings
    <3>2. CASE ScanAppliesSettings(t)
      <4>1. PICK auto : task' = [task EXCEPT ![t].pc = "discover", ![t].auto = auto, ![t].seen = registry]
        BY <3>2, Zenon DEF ScanAppliesSettings
      <4> QED
        BY <1>1, <4>1, AppliesGoes, Zenon
    <3>3. CASE ScanRefreshes(t)
      <4>1. PICK v \in {"resync", "dispatch"} : Goto(t, v)
        BY <3>3, Zenon DEF ScanRefreshes
      <4> QED
        BY <1>1, <4>1, GotoGoes, Zenon
    <3>4. CASE ScanResyncs(t)
      BY <1>1, <3>4, GotoGoes, Zenon DEF ScanResyncs
    <3> QED
      BY <1>3, <3>1, <3>2, <3>3, <3>4, Zenon
  <2>3. PICK v : Goes(t, v, task[t].acts) /\ v \notin {"toggle", "weigh"}
    BY <2>2, Zenon
  <2> QED
    BY <1>1, <2>1, <2>3, EmptyWork, Zenon
<1>4. CASE ScanExecutesInline(t)
  <2>1. task[t].pc = "dispatch" /\ Goto(t, "exec")
    BY <1>4, Zenon DEF ScanExecutesInline, At
  <2> QED
    BY <1>1, <2>1, GotoGoes, OnwardWork, Zenon
<1> QED
  BY <1>2, <1>3, <1>4, Zenon

\* What discovery owes, whichever behaviour it is told.
LEMMA DiscoveredOK ==
  ASSUME WorkInv, NEW auto
  PROVE  LET r == OnDiscovered(entry, auto, TheLayout, Stamp)
         IN  /\ CallOK(entry, r)
             /\ \/ r.entry.issue = Stamp /\ Emits(r.acts, "Connect") /\ ~InFlight(entry)
                \/ r.entry.issue = entry.issue /\ ~Emits(r.acts, "Connect")
<1>1. Coherent(entry) /\ entry \in Entries /\ Stamp \in Nat
  BY DEF WorkInv, Coherent, Stamp
<1>2. CallOK(entry, OnDiscovered(entry, auto, TheLayout, Stamp))
  BY <1>1, LayoutIsOne, DiscoveredAutoOK, DiscoveredDeferredOK, Zenon DEF OnDiscovered
<1> QED
  BY <1>1, <1>2, LayoutIsOne, MarkStamped, Zenon

\* The steps of a scan that call the manager.
LEMMA ScanCallWork ==
  ASSUME ExInv, WorkInv, NEW t \in Scans,
         ScanDiscovers(t) \/ ScanRedisables(t) \/ ScanRetriesStale(t) \/ ScanRetires(t)
  PROVE  WorkInv'
<1>1. /\ t \in Tasks /\ Shape /\ t \notin Timers /\ t \notin Backgrounds
      /\ task[t].pairing = FALSE /\ task[t].fence = None
  BY TaskKinds, Zenon DEF ExInv, Local
<1>2. Coherent(entry) /\ entry \in Entries /\ Stamp \in Nat
  BY DEF WorkInv, Coherent, Stamp
<1>3. CASE ScanDiscovers(t)
  <2> DEFINE result == OnDiscovered(entry, task[t].auto, TheLayout, Stamp)
  <2>1. PICK v \in {"redisable", "refresh", "stale", "dispatch"} :
          /\ CallThen(t, result, v)
          /\ v \in {"refresh", "stale"} => result.acts = <<>>
    BY <1>3, Zenon DEF ScanDiscovers
  <2>2. /\ CallOK(entry, result)
        /\ \/ Emits(result.acts, "Connect")
           \/ result.entry.issue = entry.issue /\ ~Emits(result.acts, "Connect")
    BY DiscoveredOK, Zenon
  <2> HIDE DEF result
  <2>3. ~Emits(<<>>, "Connect")
    BY DEF Emits
  <2>4. v \notin {"toggle", "weigh"}
        /\ (Emits(result.acts, "Connect") => v \in {"exec", "dispatch", "redisable"})
    BY <2>1, <2>3, Zenon
  <2>5. task[t].pc \notin CarryPcs
    BY <1>3, Zenon DEF ScanDiscovers, At, CarryPcs
  <2> QED
    BY <1>1, <2>1, <2>2, <2>4, <2>5, CallWork, Zenon
<1>4. CASE ScanRedisables(t)
  <2>1. CallThen(t, OnUserDisable(entry), "dispatch") /\ "dispatch" \notin {"toggle", "weigh"}
    BY <1>4, Zenon DEF ScanRedisables
  <2>2. /\ CallOK(entry, OnUserDisable(entry)) /\ OnUserDisable(entry).entry.issue = None
        /\ ~Emits(OnUserDisable(entry).acts, "Connect")
    BY <1>2, OnUserDisableOK, MarkCleared, QuietCalls, Zenon DEF ConnectFree
  <2> QED
    BY <1>1, <2>1, <2>2, CallWork, Zenon
<1>5. CASE ScanRetriesStale(t)
  <2>1. task[t].pc \notin CarryPcs
    BY <1>5, Zenon DEF ScanRetriesStale, At, CarryPcs
  <2>2. CASE CanRetryStale(entry) /\ CallThen(t, RetryStaleKnownConnect(entry, Stamp), "dispatch")
    <3> DEFINE result == RetryStaleKnownConnect(entry, Stamp)
    <3>1. CallOK(entry, result)
      BY <1>2, <2>2, IssueOK, Zenon DEF CanRetryStale, RetryStaleKnownConnect, State, CanConnect
    <3>2. Emits(result.acts, "Connect")
      BY <1>2, EmitsUnit, Zenon DEF RetryStaleKnownConnect, Result, Connect, Entries, Ops
    <3>3. "dispatch" \notin {"toggle", "weigh"} /\ "dispatch" \in {"exec", "dispatch", "redisable"}
      BY Zenon
    <3>4. CallThen(t, result, "dispatch")
      BY <2>2, Zenon
    <3> HIDE DEF result
    <3> QED
      BY <1>1, <3>1, <3>2, <3>3, <3>4, CallWork, Zenon
  <2>3. CASE Goto(t, "dispatch") /\ UNCHANGED manager
    <3>1. Goes(t, "dispatch", task[t].acts) /\ "dispatch" \notin {"toggle", "weigh"}
      BY <1>1, <2>3, GotoGoes, Zenon
    <3> QED
      BY <1>1, <2>1, <2>3, <3>1, EmptyWork, Zenon
  <2> QED
    BY <1>5, <2>2, <2>3, Zenon DEF ScanRetriesStale
<1>6. CASE ScanRetires(t)
  <2>1. CallThen(t, OnDeviceVanished(entry), "exec") /\ entry.tracked /\ "exec" \notin {"toggle", "weigh"}
    BY <1>6, Zenon DEF ScanRetires
  <2>2. /\ CallOK(entry, OnDeviceVanished(entry)) /\ OnDeviceVanished(entry).entry.issue = None
        /\ ~Emits(OnDeviceVanished(entry).acts, "Connect")
    BY <1>2, <2>1, OnDeviceVanishedOK, MarkCleared, QuietCalls, Zenon DEF ConnectFree
  <2> QED
    BY <1>1, <2>1, <2>2, CallWork, Zenon
<1> QED
  BY <1>3, <1>4, <1>5, <1>6, Zenon

\* A scan hands its connect to a task that outlives it, fenced to the mark.
LEMMA SpawnWork ==
  ASSUME ExInv, WorkInv, NEW t \in Scans, ScanSpawnsBackground(t)
  PROVE  WorkInv'
<1>1. PICK b \in Backgrounds :
        /\ task[b].pc = "idle"
        /\ task' = [task EXCEPT
             ![t].pc = "end", ![t].acts = <<>>,
             ![b] = [IdleTask EXCEPT !.pc = "exec", !.acts = task[t].acts, !.fence = entry.issue]]
  BY Zenon DEF ScanSpawnsBackground, At
<1>2. Emits(task[t].acts, "Connect") /\ UNCHANGED manager
  BY Zenon DEF ScanSpawnsBackground
<1>3. t \in Tasks /\ b \in Tasks /\ b # t /\ b \notin Timers /\ t \notin Timers
  BY TaskKinds, Zenon
<1>4. Shape /\ Shaped(task[t]) /\ Loaded(t, task[t]) /\ task[t].pairing = FALSE
  BY <1>3, Zenon DEF ExInv, Shape, Local, WorkInv
<1> DEFINE r == [task[t] EXCEPT !.pc = "end", !.acts = <<>>]
           s == [IdleTask EXCEPT !.pc = "exec", !.acts = task[t].acts, !.fence = entry.issue]
<1>5. task' = [[task EXCEPT ![t] = r] EXCEPT ![b] = s]
  BY <1>1, <1>3, <1>4, Zenon DEF Shape
<1>6. r.pc = "end" /\ r.acts = <<>> /\ r.pairing = FALSE
  BY <1>4, Zenon DEF Shaped, Fields
<1>7. s.pc = "exec" /\ s.acts = task[t].acts /\ s.pairing = FALSE /\ s.fence = entry.issue
  BY Zenon DEF IdleTask
<1> HIDE DEF r, s
<1>8. /\ task'[t] = r /\ task'[b] = s
      /\ \A u \in Tasks : u # t /\ u # b => task'[u] = task[u]
  BY <1>3, <1>4, <1>5, Zenon DEF Shape
<1>9. <<>> \in Seq(Acts) /\ ~Emits(<<>>, "Connect")
  BY DEF Emits
<1>10. Loaded(t, r)
  BY <1>3, <1>6, <1>9, Zenon DEF Loaded, Carrying
<1>11. Loaded(b, s)
  <2>1. "exec" \in CarryPcs /\ "exec" \notin {"remap", "read", "write"} /\ "exec" # "toggle"
    BY Zenon DEF CarryPcs
  <2> QED
    BY <1>3, <1>4, <1>7, <2>1, Zenon DEF Loaded
<1>12. \A u \in Tasks : Loaded(u, task'[u])
  BY <1>8, <1>10, <1>11, Zenon DEF WorkInv
<1>13. /\ entry' = entry /\ issued' = issued /\ orphaned' = orphaned /\ Coherent(entry) /\ issued \in Nat
  BY <1>2, Zenon DEF manager, WorkInv
<1>14. Owner(b, task'[b], entry'.issue)
  BY <1>2, <1>7, <1>8, <1>13, Zenon DEF Owner, Making, Carrying
<1>15. Attended => ~orphaned'
  BY <1>13, Zenon DEF WorkInv
<1> QED
  BY <1>3, <1>12, <1>13, <1>14, <1>15, WorkNow, Zenon

\* A call whose actions nobody executes: a connect it marks has lost its owner.
LEMMA DiscardedWork ==
  ASSUME ExInv, WorkInv, NEW t \in Tasks, NEW result, CallOK(entry, result),
         Call(Result(result.entry, <<>>)), ~Attended,
         Only(t), Loaded(t, task'[t]), ~Owner(t, task[t], entry.issue)
  PROVE  WorkInv'
<1>1. Result(result.entry, <<>>).entry = result.entry /\ Result(result.entry, <<>>).acts = <<>>
  BY Zenon DEF Result
<1>2. ~Emits(<<>>, "Connect")
  BY DEF Emits
<1>3. /\ entry' = result.entry /\ issued' \in {Stamp, issued}
      /\ orphaned' = IF result.entry.issue = entry.issue THEN orphaned
                     ELSE InFlight(result.entry) /\ ~Emits(<<>>, "Connect")
  BY <1>1, Zenon DEF Call
<1>4. Coherent(entry') /\ issued' \in Nat
  <2>1. Stamp \in Nat /\ issued \in Nat
    BY DEF WorkInv, Stamp
  <2> QED
    BY <1>3, <2>1, Zenon DEF CallOK
<1>5. CASE result.entry.issue = entry.issue
  BY <1>3, <1>4, <1>5, WorkStep, Zenon
<1>6. CASE result.entry.issue # entry.issue
  <2>1. orphaned' \/ entry'.issue = None
    BY <1>2, <1>3, <1>6, Zenon DEF InFlight
  <2> QED
    BY <1>4, <2>1, WorkStep, Zenon
<1> QED
  BY <1>5, <1>6, Zenon

\* A reconnect task asks to attempt: the connect it is granted is its own.
LEMMA TimerWork ==
  ASSUME ExInv, WorkInv, NEW t \in Timers, Timer(t)
  PROVE  WorkInv'
<1>1. t \in Tasks /\ t \notin Backgrounds /\ Shape /\ Local(t) /\ Loaded(t, task[t])
  BY TaskKinds, Zenon DEF ExInv, WorkInv
<1>2. task[t].fence = None /\ task[t].pairing = FALSE /\ task[t].pc \notin CarryPcs
  BY <1>1, Zenon DEF Local, Loaded, Timer, TimerElapses, TimerWakes, TimerAttempts,
     TimerEndsAborted, At, CarryPcs
<1>3. CASE TimerElapses(t) \/ TimerWakes(t)
  <2>1. PICK v \in {"woken", "attempt", "last"} : Goto(t, v) /\ UNCHANGED manager
    BY <1>3, Zenon DEF TimerElapses, TimerWakes
  <2>2. Goes(t, v, task[t].acts) /\ v \notin {"toggle", "weigh"}
    BY <1>1, <2>1, GotoGoes, Zenon
  <2> QED
    BY <1>1, <1>2, <2>1, <2>2, EmptyWork, Zenon
<1>4. CASE TimerAttempts(t) /\ ~CanAttempt(entry)
  <2>1. Goto(t, "end") /\ UNCHANGED manager /\ "end" \notin {"toggle", "weigh"}
    BY <1>4, Zenon DEF TimerAttempts
  <2>2. Goes(t, "end", task[t].acts)
    BY <1>1, <2>1, GotoGoes, Zenon
  <2> QED
    BY <1>1, <1>2, <2>1, <2>2, EmptyWork, Zenon
<1>5. CASE TimerAttempts(t) /\ CanAttempt(entry)
  <2>1. Goto(t, "dial") /\ Call(OnReconnectAttempt(entry, Stamp))
    BY <1>5, Zenon DEF TimerAttempts
  <2>2. Coherent(entry) /\ Stamp \in Nat
    BY DEF WorkInv, Stamp
  <2>3. CallOK(entry, OnReconnectAttempt(entry, Stamp))
    BY <1>5, <2>2, IssueOK, Zenon DEF CanAttempt, OnReconnectAttempt, State, CanConnect
  <2>4. Coherent(entry') /\ issued' \in Nat /\ (orphaned' => orphaned \/ ~Attended)
    <3>1. ~Attended
      BY Zenon DEF Attended
    <3> QED
      BY <2>1, <2>3, <3>1, CallSound, Zenon
  <2>5. Goes(t, "dial", task[t].acts)
    BY <1>1, <2>1, GotoGoes, Zenon
  <2>6. /\ Only(t) /\ task'[t].pc = "dial" /\ task'[t].acts = task[t].acts
        /\ task'[t].fence = None /\ task'[t].pairing = FALSE
    BY <1>2, <2>5, Zenon DEF Goes, Moves, Advanced
  <2>7. Loaded(t, task'[t])
    <3>1. ~Carrying(task[t])
      BY <1>1, <1>2, Zenon DEF Loaded
    <3> QED
      BY <1>1, <2>6, <3>1, Zenon DEF Loaded, Carrying
  <2>8. Owner(t, task'[t], entry'.issue)
    BY <2>6, Zenon DEF Owner, Making
  <2> QED
    BY <1>1, <2>4, <2>6, <2>7, <2>8, WorkStep, Zenon
<1>6. CASE TimerEndsAborted(t)
  <2>1. task' = [task EXCEPT ![t] = IdleTask] /\ Shaped(IdleTask) /\ Loaded(t, IdleTask)
    BY <1>1, <1>6, IdleLocal, FreshLoaded, Zenon DEF TimerEndsAborted
  <2>2. CASE UNCHANGED manager
    BY <1>1, <1>2, <2>1, <2>2, SetQuietWork, Zenon
  <2>3. CASE CanAttempt(entry) /\ Call(Result(OnReconnectAttempt(entry, Stamp).entry, <<>>))
    <3>1. Coherent(entry) /\ Stamp \in Nat
      BY DEF WorkInv, Stamp
    <3>2. CallOK(entry, OnReconnectAttempt(entry, Stamp))
      BY <2>3, <3>1, IssueOK, Zenon DEF CanAttempt, OnReconnectAttempt, State, CanConnect
    <3>3. Only(t) /\ task'[t] = IdleTask
      BY <1>1, <2>1, Replaced, Zenon
    <3>4. ~Owner(t, task[t], entry.issue) /\ ~Attended
      BY <1>1, <1>2, OwnsNone, Zenon DEF Attended
    <3> QED
      BY <1>1, <2>1, <2>3, <3>2, <3>3, <3>4, DiscardedWork, Zenon
  <2> QED
    BY <1>6, <2>2, <2>3, Zenon DEF TimerEndsAborted
<1> QED
  BY <1>3, <1>4, <1>5, <1>6, Zenon DEF Timer

\* A task whose caller is gone: a connect it had in hand has lost its owner.
LEMMA CancelWork ==
  ASSUME ExInv, WorkInv, NEW t \in Cancellable, Cancelled(t)
  PROVE  WorkInv'
<1>1. t \in Tasks /\ t \notin Timers /\ ~Attended
  BY ExecutorAssumption, TaskKinds, Zenon DEF Others, Attended
<1>2. /\ entry' = entry /\ issued' = issued /\ task' = [task EXCEPT ![t] = IdleTask]
      /\ orphaned' = (orphaned \/ (InFlight(entry) /\ Connecting(t)))
  BY Zenon DEF Cancelled
<1>3. Only(t) /\ task'[t] = IdleTask /\ Loaded(t, task'[t])
  <2>1. Only(t) /\ task'[t] = IdleTask
    BY <1>1, <1>2, IdleLocal, Replaced, Zenon DEF ExInv
  <2> QED
    BY <1>1, <2>1, FreshLoaded, Zenon
<1>4. Owner(t, task[t], entry.issue) => Connecting(t)
  BY Zenon DEF Owner, Making, Carrying, Connecting
<1>5. \/ entry'.issue = None \/ orphaned'
      \/ entry'.issue = entry.issue /\ (orphaned => orphaned') /\ ~Owner(t, task[t], entry.issue)
  BY <1>2, <1>4, Zenon DEF InFlight
<1>6. Coherent(entry') /\ issued' \in Nat
  BY <1>2, Zenon DEF WorkInv
<1> QED
  BY <1>1, <1>3, <1>5, <1>6, WorkStep, Zenon

\* A user's toggle.  The connect of an enable is executed unless the layout does
\* not want the device.
LEMMA ToggleWork ==
  ASSUME ExInv, WorkInv, NEW t \in Users, UserToggles(t)
  PROVE  WorkInv'
<1>1. /\ t \in Tasks /\ t \notin Timers /\ t \notin Backgrounds /\ Shape /\ Local(t)
      /\ Loaded(t, task[t])
  BY TaskKinds, Zenon DEF ExInv, WorkInv, Others
<1>2. task[t].pc = "toggle" /\ task[t].pc \notin CarryPcs
  BY Zenon DEF UserToggles, At, CarryPcs
<1>3. task[t].fence = None /\ task[t].pairing = FALSE
  BY <1>1, <1>2, Zenon DEF Local, Loaded
<1>4. Coherent(entry) /\ entry \in Entries /\ Stamp \in Nat
  BY DEF WorkInv, Coherent, Stamp
<1> DEFINE v == IF entry.tracked THEN "exec" ELSE "unmanaged"
<1>5. v \notin {"toggle", "weigh"} /\ (entry.tracked => v \in {"exec", "dispatch", "redisable"})
  BY Zenon
<1>6. CASE ~task[t].on
  <2>1. CallThen(t, OnUserDisable(entry), v)
    BY <1>6, Zenon DEF UserToggles
  <2>2. /\ CallOK(entry, OnUserDisable(entry)) /\ OnUserDisable(entry).entry.issue = None
        /\ ~Emits(OnUserDisable(entry).acts, "Connect")
    BY <1>4, OnUserDisableOK, MarkCleared, QuietCalls, Zenon DEF ConnectFree
  <2> HIDE DEF v
  <2> QED
    BY <1>1, <1>5, <2>1, <2>2, CallWork, Zenon
<1> DEFINE result == OnUserEnable(entry, Stamp)
<1>7. /\ CallOK(entry, result)
      /\ \/ Emits(result.acts, "Connect") /\ entry.tracked
         \/ result.entry.issue = entry.issue /\ ~Emits(result.acts, "Connect")
  BY <1>4, OnUserEnableOK, LayoutIsOne, MarkStamped, Zenon
<1>8. CASE task[t].on /\ task[t].auto
  <2>1. CallThen(t, result, v)
    BY <1>8, Zenon DEF UserToggles
  <2> HIDE DEF v, result
  <2> QED
    BY <1>1, <1>2, <1>3, <1>5, <1>7, <2>1, CallWork, Zenon
<1>9. CASE task[t].on /\ ~task[t].auto
  <2>1. CallThen(t, Result(result.entry, <<>>), v)
    BY <1>9, Zenon DEF UserToggles
  <2>2. ~Attended
    BY Zenon DEF Attended
  <2> HIDE DEF v, result
  <2>3. Result(result.entry, <<>>).entry = result.entry /\ Result(result.entry, <<>>).acts = <<>>
    BY Zenon DEF Result
  <2>4. Goes(t, v, <<>>) /\ Call(Result(result.entry, <<>>))
    BY <1>1, <2>1, <2>3, CallGoes, Zenon DEF CallThen
  <2>5. Only(t) /\ task'[t].acts = <<>> /\ task'[t].pc = v /\ task'[t].pairing = FALSE
    BY <1>3, <2>4, Zenon DEF Goes, Moves, Advanced
  <2>6. <<>> \in Seq(Acts) /\ ~Emits(<<>>, "Connect")
    BY DEF Emits
  <2>7. Loaded(t, task'[t]) /\ ~Owner(t, task[t], entry.issue)
    BY <1>1, <1>2, <1>5, <2>5, <2>6, OwnsNone, Zenon DEF Loaded, Carrying
  <2> QED
    BY <1>1, <1>7, <2>2, <2>4, <2>5, <2>7, DiscardedWork, Zenon
<1> QED
  BY <1>6, <1>8, <1>9, Zenon

\* A user request apart from its toggle.
LEMMA UserWork ==
  ASSUME ExInv, WorkInv, NEW t \in Users,
         UserBegins(t) \/ UserUpdates(t) \/ UserSaves(t) \/ UserActivates(t)
  PROVE  WorkInv'
<1>1. t \in Tasks /\ t \notin Timers /\ Shape /\ UNCHANGED manager
  BY TaskKinds, Zenon DEF ExInv, Others, UserBegins, UserUpdates, UserSaves, UserActivates
<1>2. task[t].pc \notin CarryPcs
  BY Zenon DEF UserBegins, UserUpdates, UserSaves, UserActivates, Begin, At, CarryPcs
<1>3. CASE UserBegins(t)
  <2>1. PICK a \in BOOLEAN : \E b \in Behaviors(a) :
           task' = [task EXCEPT ![t] = [IdleTask EXCEPT !.pc = "toggle", !.on = a, !.auto = b]]
    BY <1>3, Zenon DEF UserBegins, Begin
  <2>2. PICK b \in Behaviors(a) :
           task' = [task EXCEPT ![t] = [IdleTask EXCEPT !.pc = "toggle", !.on = a, !.auto = b]]
    BY <2>1, Zenon
  <2>3. Loaded(t, [IdleTask EXCEPT !.pc = "toggle", !.on = a, !.auto = b])
    BY <1>1, FreshLoaded, Zenon
  <2>4. Shaped([IdleTask EXCEPT !.pc = "toggle", !.on = a, !.auto = b])
    BY Fresh, Zenon DEF Plain
  <2> QED
    BY <1>1, <1>2, <2>2, <2>3, <2>4, SetQuietWork, Zenon
<1>4. CASE UserUpdates(t)
  <2>1. Goto(t, "save") /\ "save" \notin {"toggle", "weigh"}
    BY <1>4, Zenon DEF UserUpdates
  <2>2. Goes(t, "save", task[t].acts)
    BY <1>1, <2>1, GotoGoes, Zenon
  <2> QED
    BY <1>1, <1>2, <2>1, <2>2, EmptyWork, Zenon
<1>5. CASE UserSaves(t) /\ task[t].on
  <2>1. Goto(t, "activate") /\ "activate" \notin {"toggle", "weigh"}
    BY <1>1, <1>5, Zenon DEF UserSaves, Goto, Shape
  <2>2. Goes(t, "activate", task[t].acts)
    BY <1>1, <2>1, GotoGoes, Zenon
  <2> QED
    BY <1>1, <1>2, <2>1, <2>2, EmptyWork, Zenon
<1>6. CASE UserSaves(t) /\ ~task[t].on
  <2>1. task' = [task EXCEPT ![t] = IdleTask]
    BY <1>1, <1>6, Zenon DEF UserSaves, Shape
  <2>2. Loaded(t, IdleTask) /\ Shaped(IdleTask)
    BY <1>1, FreshLoaded, IdleLocal, Zenon
  <2> QED
    BY <1>1, <1>2, <2>1, <2>2, SetQuietWork, Zenon
<1>7. CASE UserActivates(t)
  <2>1. PICK r \in {[IdleTask EXCEPT !.pc = "adopt", !.pairing = TRUE], IdleTask} :
           task' = [task EXCEPT ![t] = r]
    BY <1>7, Zenon DEF UserActivates
  <2>2. Loaded(t, IdleTask) /\ Loaded(t, [IdleTask EXCEPT !.pc = "adopt", !.pairing = TRUE])
    BY <1>1, FreshLoaded, Zenon
  <2>3. Shaped(IdleTask) /\ Shaped([IdleTask EXCEPT !.pc = "adopt", !.pairing = TRUE])
    BY Fresh, Zenon DEF Plain
  <2>4. Loaded(t, r) /\ Shaped(r)
    BY <2>2, <2>3, Zenon
  <2> QED
    BY <1>1, <1>2, <2>1, <2>4, SetQuietWork, Zenon
<1> QED
  BY <1>3, <1>4, <1>5, <1>6, <1>7, Zenon

\* A call in a task of its own that leaves no connect in flight.
LEMMA BeginCallWork ==
  ASSUME ExInv, WorkInv, NEW t \in Tasks, NEW result, BeginCall(t, result),
         Coherent(result.entry), result.entry.issue = None, ConnectFree(result.acts)
  PROVE  WorkInv'
<1>1. /\ task' = [task EXCEPT ![t] = [IdleTask EXCEPT !.pc = "exec", !.acts = result.acts]]
      /\ entry' = result.entry /\ issued' \in {Stamp, issued} /\ task[t].pc = "idle"
      /\ orphaned' => orphaned
  BY Zenon DEF BeginCall, Begin, Call, At, InFlight
<1>2. issued' \in Nat
  BY <1>1 DEF WorkInv, Stamp
<1>3. Loaded(t, [IdleTask EXCEPT !.pc = "exec", !.acts = result.acts])
  BY FreshLoaded, Zenon
<1>4. Shaped([IdleTask EXCEPT !.pc = "exec", !.acts = result.acts])
  BY Fresh, Zenon DEF Plain
<1>5. task[t].pc \notin CarryPcs
  BY <1>1, Zenon DEF CarryPcs
<1> QED
  BY <1>1, <1>2, <1>3, <1>4, <1>5, SetWork, Zenon

\* The flap report a failed write takes with it changes nothing else.
LEMMA EscalatedCall ==
  ASSUME NEW e, Coherent(e), Renderable(State(e))
  PROVE  LET r == [OnCommError(e) EXCEPT !.entry.fsm = EscalationTaken(@)]
         IN  Coherent(r.entry) /\ r.entry.issue = None /\ r.acts = OnCommError(e).acts
<1> DEFINE f == OnCommError(e).entry
           g == [f EXCEPT !.fsm = EscalationTaken(@)]
           r == [OnCommError(e) EXCEPT !.entry.fsm = EscalationTaken(@)]
<1>1. Coherent(f) /\ f.issue = None /\ f \in Entries
  BY OnCommErrorOK, MarkCleared, Zenon DEF CallOK, Coherent
<1>2. OnCommError(e) = Result(f, OnCommError(e).acts)
  BY Zenon DEF OnCommError, ReconnectAfter, Result
<1>3. r.entry = g /\ r.acts = OnCommError(e).acts
  BY <1>2, Zenon DEF Result
<1>4. Coherent(g)
  <2>1. CallOK(f, Result(g, <<>>))
    BY <1>1, EscalationTakenOK, Zenon
  <2> QED
    BY <2>1, Zenon DEF CallOK, Result
<1>5. g.issue = None
  BY <1>1, Zenon DEF Entries
<1> QED
  BY <1>3, <1>4, <1>5, Zenon

\* Faults and releases.
LEMMA FaultWork ==
  ASSUME ExInv, WorkInv, NEW t \in Tasks, Fault(t) \/ Drops(t)
  PROVE  WorkInv'
<1>1. Coherent(entry) /\ entry \in Entries
  BY Zenon DEF WorkInv, Coherent
<1>2. CASE Fault(t)
  <2>1. Renderable(State(entry))
    BY <1>2, Zenon DEF Fault
  <2>2. CASE BeginCall(t, [OnCommError(entry) EXCEPT !.entry.fsm = EscalationTaken(@)])
    BY <1>1, <2>1, <2>2, EscalatedCall, QuietCalls, BeginCallWork, Zenon
  <2>3. CASE BeginCall(t, OnRuntimeDeactivate(entry))
    BY <1>1, <2>3, OnRuntimeDeactivateOK, MarkCleared, QuietCalls, BeginCallWork, Zenon DEF CallOK
  <2>4. CASE BeginCall(t, OnReconnectRequested(entry))
    BY <1>1, <2>1, <2>4, OnReconnectRequestedOK, MarkCleared, QuietCalls, BeginCallWork, Zenon
       DEF CallOK
  <2> QED
    BY <1>2, <2>2, <2>3, <2>4, Zenon DEF Fault
<1>3. CASE Drops(t)
  <2>1. entry.tracked /\ BeginCall(t, OnDeviceVanished(entry))
    BY <1>3, Zenon DEF Drops
  <2> QED
    BY <1>1, <2>1, OnDeviceVanishedOK, MarkCleared, QuietCalls, BeginCallWork, Zenon DEF CallOK
<1> QED
  BY <1>2, <1>3, Zenon

\* Layout convergence.
LEMMA ConvergeWork ==
  ASSUME ExInv, WorkInv, NEW t \in Convergers, Converge(t)
  PROVE  WorkInv'
<1>1. t \in Tasks /\ t \notin Timers /\ t \notin Backgrounds /\ Shape /\ Local(t) /\ Loaded(t, task[t])
  BY TaskKinds, Zenon DEF ExInv, WorkInv, Others
<1>2. task[t].pc \notin CarryPcs
  BY Zenon DEF Converge, ConvergeBegins, Converges, Begin, At, CarryPcs
<1>3. CASE ConvergeBegins(t)
  <2>1. PICK a : task' = [task EXCEPT ![t] = [IdleTask EXCEPT !.pc = "weigh", !.auto = a]]
    BY <1>3, Zenon DEF ConvergeBegins, Begin
  <2>2. UNCHANGED manager
    BY <1>3, Zenon DEF ConvergeBegins
  <2>3. Loaded(t, [IdleTask EXCEPT !.pc = "weigh", !.auto = a])
    BY <1>1, FreshLoaded, Zenon
  <2>4. Shaped([IdleTask EXCEPT !.pc = "weigh", !.auto = a])
    BY Fresh, Zenon DEF Plain
  <2> QED
    BY <1>1, <1>2, <2>1, <2>2, <2>3, <2>4, SetQuietWork, Zenon
<1>4. CASE Converges(t)
  <2> DEFINE result == OnDiscovered(entry, task[t].auto, TheLayout, Stamp)
  <2>1. PICK v \in {"end", "exec"} : CallThen(t, result, v) /\ (v = "end" => result.acts = <<>>)
    BY <1>4, Zenon DEF Converges
  <2>2. /\ CallOK(entry, result)
        /\ \/ Emits(result.acts, "Connect")
           \/ result.entry.issue = entry.issue /\ ~Emits(result.acts, "Connect")
    BY DiscoveredOK, Zenon
  <2> HIDE DEF result
  <2>3. ~Emits(<<>>, "Connect")
    BY DEF Emits
  <2>4. v \notin {"toggle", "weigh"}
        /\ (Emits(result.acts, "Connect") => v \in {"exec", "dispatch", "redisable"})
    BY <2>1, <2>3, Zenon
  <2>5. task[t].fence = None /\ task[t].pairing = FALSE
    BY <1>1, <1>4, Zenon DEF Local, Loaded, Converges, At
  <2> QED
    BY <1>1, <1>2, <2>1, <2>2, <2>4, <2>5, CallWork, Zenon
<1> QED
  BY <1>3, <1>4, Zenon DEF Converge

\* A pairing: it adopts the device and dials, and no mark is its own.
LEMMA PairWork ==
  ASSUME ExInv, WorkInv, NEW t \in Pairers \cup Users, PairBegins(t) \/ PairAdopts(t)
  PROVE  WorkInv'
<1>1. t \in Tasks /\ t \notin Timers /\ t \notin Backgrounds /\ Shape /\ Loaded(t, task[t])
  BY TaskKinds, Zenon DEF ExInv, WorkInv, Others
<1>2. task[t].pc \notin CarryPcs
  BY Zenon DEF PairBegins, PairAdopts, Begin, At, CarryPcs
<1>3. CASE PairBegins(t)
  <2>1. /\ task' = [task EXCEPT ![t] = [IdleTask EXCEPT !.pc = "adopt", !.pairing = TRUE]]
        /\ UNCHANGED manager
    BY <1>3, Zenon DEF PairBegins, Begin
  <2>2. Loaded(t, [IdleTask EXCEPT !.pc = "adopt", !.pairing = TRUE])
    BY <1>1, FreshLoaded, Zenon
  <2>3. Shaped([IdleTask EXCEPT !.pc = "adopt", !.pairing = TRUE])
    BY Fresh, Zenon DEF Plain
  <2> QED
    BY <1>1, <1>2, <2>1, <2>2, <2>3, SetQuietWork, Zenon
<1>4. CASE PairAdopts(t)
  <2>1. PICK v \in {"dial", "end"} : Goto(t, v)
    BY <1>4, Zenon DEF PairAdopts
  <2>2. Goes(t, v, task[t].acts) /\ v \notin {"toggle", "weigh"}
    BY <1>1, <2>1, GotoGoes, Zenon
  <2>3. CASE UNCHANGED manager
    BY <1>1, <1>2, <2>2, <2>3, EmptyWork, Zenon
  <2>4. CASE Call(DiscoveredDeferred(entry, TheLayout))
    <3>1. Coherent(entry) /\ entry \in Entries
      BY Zenon DEF WorkInv, Coherent
    <3>2. CallOK(entry, DiscoveredDeferred(entry, TheLayout))
      BY <3>1, LayoutIsOne, DiscoveredDeferredOK, Zenon
    <3>3. /\ Coherent(entry') /\ issued' \in Nat /\ entry' = DiscoveredDeferred(entry, TheLayout).entry
          /\ entry'.issue = entry.issue => orphaned' = orphaned
      BY <2>4, <3>2, CallSound, Zenon
    <3>4. DiscoveredDeferred(entry, TheLayout).entry.issue = entry.issue
      BY <3>1, LayoutIsOne, DeferredKeepsMark, Zenon
    <3>5. ~Owner(t, task[t], entry.issue) /\ ~Carrying(task[t])
      BY <1>1, <1>2, OwnsNone, Zenon
    <3>6. Only(t) /\ task'[t].acts = task[t].acts /\ task'[t].pc = v
      BY <2>2, Zenon DEF Goes, Moves, Advanced
    <3>7. Loaded(t, task'[t])
      BY <1>1, <2>2, <3>5, <3>6, Zenon DEF Loaded, Carrying
    <3>8. Coherent(entry') /\ issued' \in Nat /\ entry'.issue = entry.issue /\ orphaned' = orphaned
      BY <3>3, <3>4, Zenon
    <3> QED
      BY <1>1, <3>5, <3>6, <3>7, <3>8, WorkStep, Zenon
  <2> QED
    BY <1>4, <2>3, <2>4, Zenon DEF PairAdopts
<1> QED
  BY <1>3, <1>4, Zenon

\* At the start nothing is tracked, and no task has anything in hand.
LEMMA WorkInvInit ==
  ASSUME Init
  PROVE  WorkInv
<1>1. entry = Untracked /\ issued = 0 /\ ~orphaned /\ \A t \in Tasks : task[t] = IdleTask
  BY Zenon DEF Init
<1>2. Coherent(Untracked) /\ ~InFlight(Untracked)
  <2>1. NewMachine \in Machines /\ MachineCoherent(NewMachine) /\ NewMachine.state = "Known"
    BY Zenon DEF NewMachine, Machines, States, MachineCoherent
  <2>2. (CHOOSE l \in Layouts : TRUE) \in Layouts
    BY LayoutIsOne, Zenon DEF TheLayout
  <2>3. Untracked \in Entries
    BY <2>1, <2>2, Zenon DEF Untracked, Entries
  <2> QED
    BY <2>1, <2>3, Zenon DEF Coherent, Untracked, InFlight, State
<1>3. \A t \in Tasks : Loaded(t, task[t])
  BY <1>1, FreshLoaded, Zenon
<1> QED
  BY <1>1, <1>2, <1>3 DEF WorkInv

\* Every step of every task keeps it.
LEMMA WorkInvNext ==
  ASSUME ExInv, WorkInv, [Next]_vars
  PROVE  WorkInv'
<1>1. CASE \E t \in Tasks : Execute(t)
  BY <1>1, ExecWork, HandleWork, DoneWork, DialWork, FenceWork, PublishWork, ReportWork, EndsWork,
     Zenon DEF Execute
<1>2. CASE \E t \in Scans : Scan(t)
  BY <1>2, ScanQuietWork, ScanCallWork, SpawnWork, Zenon DEF Scan
<1>3. CASE \E t \in Timers : Timer(t)
  BY <1>3, TimerWork, Zenon
<1>4. CASE \E t \in Users : User(t)
  BY <1>4, UserWork, ToggleWork, Zenon DEF User
<1>5. CASE \/ \E t \in Faults : Fault(t)
           \/ \E t \in Droppers : Drops(t)
  <2>1. \A t \in Faults \cup Droppers : t \in Tasks
    BY Zenon DEF Tasks, Others
  <2> QED
    BY <1>5, <2>1, FaultWork, Zenon
<1>6. CASE \/ \E t \in Convergers : Converge(t)
           \/ \E t \in Pairers : PairBegins(t)
           \/ \E t \in Pairers \cup Users : PairAdopts(t)
  BY <1>6, ConvergeWork, PairWork, Zenon
<1>7. CASE \E t \in Cancellable : Cancelled(t)
  BY <1>7, CancelWork, Zenon
<1>8. CASE UNCHANGED vars
  <2>1. task' = task /\ entry' = entry /\ issued' = issued /\ orphaned' = orphaned
    BY <1>8, Zenon DEF vars, manager
  <2> QED
    BY <2>1, WorkNow, Zenon DEF WorkInv, InFlight
<1> QED
  BY <1>1, <1>2, <1>3, <1>4, <1>5, <1>6, <1>7, <1>8, Zenon DEF Next

\* Whatever task calls the lifecycle manager, and in whatever order the calls come,
\* a device is marked as connecting only in a state that can connect, and as waiting
\* for a retry only while it reconnects; a device that reconnects is either waiting
\* for its retry or being connected (lifecycle.rs: connect_in_flight and
\* reconnect_scheduled).
THEOREM ExecutorKeepsMarks ==
  Spec => [](/\ InFlight(entry) => entry.tracked /\ CanConnect(entry.fsm)
             /\ entry.scheduled => entry.tracked /\ State(entry) = "Reconnecting"
             /\ State(entry) = "Reconnecting" => entry.scheduled \/ InFlight(entry))
<1>1. WorkInv => (/\ InFlight(entry) => entry.tracked /\ CanConnect(entry.fsm)
                  /\ entry.scheduled => entry.tracked /\ State(entry) = "Reconnecting"
                  /\ State(entry) = "Reconnecting" => entry.scheduled \/ InFlight(entry))
  BY Zenon DEF WorkInv, Coherent
<1> QED
  BY <1>1, ExInvInit, ExInvNext, WorkInvInit, WorkInvNext, PTL DEF Spec

\* A connect that connect_in_flight names is in the hands of a task that will report
\* it, for any number of tasks of every kind and any outcome of a connect, unless
\* the task that had it was cancelled or its call's actions were thrown away: the
\* mark that keeps every scan from connecting the device again is left behind by no
\* refusal, failure, supersession, tear-down or other end of a task.
THEOREM InFlightAlwaysHasOwner == Spec => []InFlightHasOwner
<1>1. WorkInv => InFlightHasOwner
  <2> SUFFICES ASSUME WorkInv, ~orphaned, InFlight(entry) PROVE \E t \in Tasks : Connecting(t)
    BY Zenon DEF InFlightHasOwner, MarkHasOwner
  <2>1. PICK t \in Tasks : Owner(t, task[t], entry.issue)
    BY Zenon DEF WorkInv
  <2>2. Connecting(t)
    BY <2>1, Zenon DEF Owner, Making, Carrying, Connecting
  <2> QED
    BY <2>2, Zenon
<1> QED
  BY <1>1, ExInvInit, ExInvNext, WorkInvInit, WorkInvNext, PTL DEF Spec

-----------------------------------------------------------------------------
(* Scans and their fenced connects, with nobody else at the device. *)

\* No reconnect task, request, fault, convergence or pairing, nobody who is
\* cancelled, and drivers whose connects succeed.
Undisturbed == Timers \cup Others \cup Cancellable = {} /\ Outcomes \subseteq {"ok"}

\* The layout always targets the device.
Wanted == FALSE \notin Targeting

\* The lists of actions that scans then get.
Lists ==
  {<<>>} \cup {<<Act("Connect", l)>> : l \in Layouts} \cup {<<Act("Unmap", l)>> : l \in Layouts}
    \cup {<<Act("Disconnect", l), Act("Unmap", l)>> : l \in Layouts}

\* A session or a route the task will close.
Closes(r) == r.pc = "close" \/ Emits(r.acts, "Disconnect")
Unroutes(r) == Emits(r.acts, "Disconnect") \/ Emits(r.acts, "Unmap")

\* What a task has in hand where it is, when n connects have been issued.
Stance(t, r, n) ==
  /\ r.outcome = "ok" /\ r.acts \in Lists
  /\ r.acts # <<>> => r.pc \in {"dispatch", "exec", "close"}
  /\ Carrying(r) => r.pc # "close"
  /\ r.pc # "redisable"
  /\ r.pc \in {"adapt", "discover"} => r.on = TRUE
  /\ Wanted /\ r.pc = "discover" => r.auto
  /\ t \in Backgrounds =>
       /\ r.pc = "idle" \/ (r.fence \in Nat /\ r.fence <= n)
       /\ ~Closes(r) /\ ~Unroutes(r)

\* What a task relies on: the entry e, the session s and the route m.
Grip(t, r, e, s, m) ==
  /\ t \in Scans /\ (Carrying(r) \/ r.pc \in {"dial", "install", "report"}) => InFlight(e)
  /\ t \in Backgrounds /\ r.pc \in {"install", "report"} => e.issue = r.fence
  /\ Closes(r) \/ Unroutes(r) \/ r.pc = "teardown" => ~InFlight(e) /\ ~Renderable(State(e))
  /\ r.pc = "remap" => Renderable(State(e))
  /\ Wanted /\ t \in Scans /\ r.pc \in {"refresh", "resync"} => Renderable(State(e)) \/ InFlight(e)
  /\ t \in Backgrounds /\ r.pc \in {"fence", "install", "report"} /\ r.fence = e.issue => s
  /\ t \in Scans /\ r.pc \in {"install", "report"} => s
  /\ r.pc = "report" => m

\* The entry and the hardware: a device that is renderable has session and route.
Calm(e, n, s, m) ==
  /\ State(e) \in {"Known", "Connected"}
  /\ InFlight(e) => e.issue <= n
  /\ s \in BOOLEAN /\ m \in BOOLEAN
  /\ Renderable(State(e)) => s /\ m

\* A session or a route the device should not have is somebody's to close.
CalmInv ==
  /\ live = TRUE /\ saved = None
  /\ Calm(entry, issued, session, mapped)
  /\ \A t \in Tasks : Stance(t, task[t], issued) /\ Grip(t, task[t], entry, session, mapped)
  /\ session /\ ~Renderable(State(entry)) =>
       \E t \in Tasks : Making(t, task[t]) \/ task[t].pc = "teardown" \/ Closes(task[t])
  /\ Wanted /\ mapped /\ ~Renderable(State(entry)) =>
       InFlight(entry) \/ \E t \in Tasks : Unroutes(task[t])

\* Lists of one and of two actions.
LEMMA ShortLists ==
  ASSUME NEW x, NEW y, NEW op
  PROVE  /\ ~Emits(<<>>, op)
         /\ Emits(<<x>>, op) <=> x.op = op
         /\ Emits(<<x, y>>, op) <=> x.op = op \/ y.op = op
         /\ Head(<<x>>) = x /\ Tail(<<x>>) = <<>> /\ <<x>> # <<>>
         /\ Head(<<x, y>>) = x /\ Tail(<<x, y>>) = <<y>> /\ <<x, y>> # <<>>
  BY DEF Emits

\* What the lists emit, and what is left of them after their first action.
LEMMA ListFacts ==
  ASSUME NEW a \in Lists
  PROVE  /\ Emits(a, "Connect") => ~Emits(a, "Disconnect") /\ ~Emits(a, "Unmap")
         /\ a # <<>> => Head(a).op \in {"Connect", "Disconnect", "Unmap"}
         /\ a # <<>> /\ Head(a).op = "Connect" => Emits(a, "Connect") /\ Tail(a) = <<>>
         /\ a # <<>> /\ Head(a).op = "Disconnect" =>
              /\ Emits(a, "Disconnect") /\ Tail(a) \in Lists /\ ~Emits(Tail(a), "Connect")
         /\ a # <<>> /\ Head(a).op = "Unmap" =>
              /\ Emits(a, "Unmap") /\ Tail(a) = <<>>
              /\ ~Emits(a, "Connect") /\ ~Emits(a, "Disconnect")
<1>1. \A l : /\ Act("Connect", l).op = "Connect" /\ Act("Unmap", l).op = "Unmap"
             /\ Act("Disconnect", l).op = "Disconnect"
  BY Zenon DEF Act
<1>2. CASE a = <<>>
  BY <1>2, ShortLists, Zenon
<1>3. ASSUME NEW x, a = <<x>>, x.op = "Connect"
      PROVE  /\ a # <<>> /\ Head(a).op = "Connect" /\ Emits(a, "Connect") /\ Tail(a) = <<>>
             /\ ~Emits(a, "Disconnect") /\ ~Emits(a, "Unmap")
  BY <1>3 DEF Emits
<1>4. ASSUME NEW x, a = <<x>>, x.op = "Unmap"
      PROVE  /\ a # <<>> /\ Head(a).op = "Unmap" /\ Emits(a, "Unmap") /\ Tail(a) = <<>>
             /\ ~Emits(a, "Disconnect") /\ ~Emits(a, "Connect")
  BY <1>4 DEF Emits
<1>5. ASSUME NEW x, NEW y, a = <<x, y>>, x.op = "Disconnect", y.op = "Unmap"
      PROVE  /\ a # <<>> /\ Head(a).op = "Disconnect" /\ Emits(a, "Disconnect") /\ Tail(a) = <<y>>
             /\ ~Emits(a, "Connect") /\ ~Emits(Tail(a), "Connect")
  BY <1>5 DEF Emits
<1>6. CASE \E l \in Layouts : a = <<Act("Connect", l)>>
  <2>1. PICK l \in Layouts : a = <<Act("Connect", l)>>
    BY <1>6, Zenon
  <2> QED
    BY <1>1, <1>3, <2>1, Zenon
<1>7. CASE \E l \in Layouts : a = <<Act("Unmap", l)>>
  <2>1. PICK l \in Layouts : a = <<Act("Unmap", l)>>
    BY <1>7, Zenon
  <2> QED
    BY <1>1, <1>4, <2>1, Zenon
<1>8. CASE \E l \in Layouts : a = <<Act("Disconnect", l), Act("Unmap", l)>>
  <2>1. PICK l \in Layouts : a = <<Act("Disconnect", l), Act("Unmap", l)>>
    BY <1>8, Zenon
  <2>2. <<Act("Unmap", l)>> \in Lists
    BY Zenon DEF Lists
  <2> QED
    BY <1>1, <1>5, <2>1, <2>2, Zenon
<1> QED
  BY <1>2, <1>6, <1>7, <1>8, Zenon DEF Lists

-----------------------------------------------------------------------------
\* The invariant of the next state, said of the next values.
LEMMA CalmNow ==
  ASSUME live' = TRUE, saved' = None, Calm(entry', issued', session', mapped'),
         \A t \in Tasks : /\ Stance(t, task'[t], issued')
                          /\ Grip(t, task'[t], entry', session', mapped'),
         session' /\ ~Renderable(State(entry')) =>
           \E t \in Tasks : Making(t, task'[t]) \/ task'[t].pc = "teardown" \/ Closes(task'[t]),
         Wanted /\ mapped' /\ ~Renderable(State(entry')) =>
           entry'.issue # None \/ \E t \in Tasks : Unroutes(task'[t])
  PROVE  CalmInv'
<1>1. Calm(entry, issued, session, mapped)'
  BY Zenon DEF Calm, InFlight, State
<1>2. (\A t \in Tasks : Stance(t, task[t], issued) /\ Grip(t, task[t], entry, session, mapped))'
  BY Zenon DEF Stance, Grip, Carrying, Closes, Unroutes, Emits, InFlight, State
<1>3. (session /\ ~Renderable(State(entry)) =>
         \E t \in Tasks : Making(t, task[t]) \/ task[t].pc = "teardown" \/ Closes(task[t]))'
  BY Zenon DEF State, Making, Carrying, Closes, Emits
<1>4. (Wanted /\ mapped /\ ~Renderable(State(entry)) =>
         InFlight(entry) \/ \E t \in Tasks : Unroutes(task[t]))'
  BY Zenon DEF State, InFlight, Unroutes, Emits
<1> QED
  BY <1>1, <1>2, <1>3, <1>4, Zenon DEF CalmInv

\* Scans and background connects are the only tasks, and every mark has an owner.
LEMMA OnlyScans ==
  ASSUME Undisturbed
  PROVE  /\ Tasks = Scans \cup Backgrounds /\ Attended
         /\ Users = {} /\ Timers = {}
  BY DEF Undisturbed, Tasks, Others, Attended

\* One task has a step.  A session or route to close stays with the task that has
\* it; a connect in flight has its owner.
LEMMA CalmStep ==
  ASSUME Undisturbed, CalmInv, WorkInv', NEW t \in Tasks, Only(t), live' = TRUE, saved' = None,
         Calm(entry', issued', session', mapped'),
         Stance(t, task'[t], issued'), Grip(t, task'[t], entry', session', mapped'),
         \A u \in Tasks : u # t => /\ Stance(u, task[u], issued')
                                   /\ Grip(u, task[u], entry', session', mapped'),
         session' /\ ~Renderable(State(entry')) =>
           \/ entry'.issue # None
           \/ Making(t, task'[t]) \/ task'[t].pc = "teardown" \/ Closes(task'[t])
           \/ /\ session /\ ~Renderable(State(entry))
              /\ ~(Making(t, task[t]) \/ task[t].pc = "teardown" \/ Closes(task[t])),
         mapped' /\ ~Renderable(State(entry')) =>
           \/ entry'.issue # None \/ Unroutes(task'[t])
           \/ /\ mapped /\ ~Renderable(State(entry)) /\ ~InFlight(entry)
              /\ ~Unroutes(task[t])
           \/ ~Wanted
  PROVE  CalmInv'
<1>1. \A u \in Tasks : u # t => task'[u] = task[u]
  BY Zenon DEF Only
<1>2. \A u \in Tasks : Stance(u, task'[u], issued') /\ Grip(u, task'[u], entry', session', mapped')
  BY <1>1, Zenon
<1>3. ASSUME session', ~Renderable(State(entry'))
      PROVE  \E u \in Tasks : Making(u, task'[u]) \/ task'[u].pc = "teardown" \/ Closes(task'[u])
  <2>1. CASE entry'.issue # None
    <3>1. \E u \in Tasks : Owner(u, task'[u], entry'.issue)
      BY <2>1, OnlyScans, NowOwned, Zenon
    <3> QED
      BY <3>1, Zenon DEF Owner
  <2>2. CASE /\ session /\ ~Renderable(State(entry))
             /\ ~(Making(t, task[t]) \/ task[t].pc = "teardown" \/ Closes(task[t]))
    <3>1. PICK u \in Tasks : Making(u, task[u]) \/ task[u].pc = "teardown" \/ Closes(task[u])
      BY <2>2, Zenon DEF CalmInv
    <3>2. task'[u] = task[u]
      BY <1>1, <2>2, <3>1, Zenon
    <3> QED
      BY <3>1, <3>2, Zenon
  <2> QED
    BY <1>3, <2>1, <2>2, Zenon
<1>4. ASSUME Wanted, mapped', ~Renderable(State(entry'))
      PROVE  entry'.issue # None \/ \E u \in Tasks : Unroutes(task'[u])
  <2>1. CASE mapped /\ ~Renderable(State(entry)) /\ ~InFlight(entry) /\ ~Unroutes(task[t])
    <3>1. PICK u \in Tasks : Unroutes(task[u])
      BY <1>4, <2>1, Zenon DEF CalmInv
    <3>2. task'[u] = task[u]
      BY <1>1, <2>1, <3>1, Zenon
    <3> QED
      BY <3>1, <3>2, Zenon
  <2> QED
    BY <1>4, <2>1, Zenon
<1> QED
  BY <1>2, <1>3, <1>4, CalmNow, Zenon

\* The manager, the session and the route stay.
LEMMA SameCalm ==
  ASSUME Undisturbed, CalmInv, WorkInv', NEW t \in Tasks, Only(t),
         UNCHANGED manager, UNCHANGED hardware, live' = TRUE, saved' = None,
         Stance(t, task'[t], issued), Grip(t, task'[t], entry, session, mapped),
         Making(t, task[t]) \/ task[t].pc = "teardown" \/ Closes(task[t]) =>
           \/ Making(t, task'[t]) \/ task'[t].pc = "teardown" \/ Closes(task'[t])
           \/ InFlight(entry) \/ Renderable(State(entry)),
         Unroutes(task[t]) => Unroutes(task'[t])
  PROVE  CalmInv'
<1>1. entry' = entry /\ issued' = issued /\ session' = session /\ mapped' = mapped
  BY Zenon DEF manager, hardware
<1>2. /\ Calm(entry, issued, session, mapped)
      /\ \A u \in Tasks : Stance(u, task[u], issued) /\ Grip(u, task[u], entry, session, mapped)
  BY Zenon DEF CalmInv
<1>3. session' /\ ~Renderable(State(entry')) =>
        \/ entry'.issue # None
        \/ Making(t, task'[t]) \/ task'[t].pc = "teardown" \/ Closes(task'[t])
        \/ /\ session /\ ~Renderable(State(entry))
           /\ ~(Making(t, task[t]) \/ task[t].pc = "teardown" \/ Closes(task[t]))
  BY <1>1, Zenon DEF InFlight
<1>4. mapped' /\ ~Renderable(State(entry')) =>
        \/ entry'.issue # None \/ Unroutes(task'[t])
        \/ mapped /\ ~Renderable(State(entry)) /\ ~InFlight(entry) /\ ~Unroutes(task[t])
        \/ ~Wanted
  BY <1>1, Zenon DEF InFlight
<1> QED
  BY <1>1, <1>2, <1>3, <1>4, CalmStep, Zenon

\* Where a task without actions relies on something.
BusyPcs == {"close", "dial", "fence", "teardown", "install", "report", "remap", "refresh", "resync",
            "redisable", "adapt", "discover"}

\* Elsewhere it relies on nothing.
LEMMA FreeGrip ==
  ASSUME NEW t, NEW r, NEW e, NEW s, NEW m, r.acts = <<>>, r.pc \notin BusyPcs
  PROVE  /\ Grip(t, r, e, s, m) /\ ~Unroutes(r) /\ ~Closes(r) /\ ~Carrying(r)
<1>1. \A op : ~Emits(r.acts, op)
  BY DEF Emits
<1>2. ~Unroutes(r) /\ ~Closes(r) /\ ~Carrying(r)
  BY <1>1, Zenon DEF Unroutes, Closes, Carrying, BusyPcs
<1>3. /\ r.pc \notin {"dial", "install", "report"} /\ r.pc \notin {"fence", "install", "report"}
      /\ r.pc \notin {"install", "report"} /\ r.pc \notin {"refresh", "resync"}
      /\ r.pc # "teardown" /\ r.pc # "remap" /\ r.pc # "report"
  BY Zenon DEF BusyPcs
<1> QED
  BY <1>2, <1>3, Zenon DEF Grip

LEMMA FreeStance ==
  ASSUME NEW t, NEW r, NEW n, r.acts = <<>>, r.pc \notin BusyPcs, r.outcome = "ok",
         t \in Backgrounds => r.pc = "idle" \/ (r.fence \in Nat /\ r.fence <= n)
  PROVE  Stance(t, r, n)
<1>1. ~Unroutes(r) /\ ~Closes(r) /\ ~Carrying(r)
  BY FreeGrip, Zenon
<1>2. r.acts \in Lists
  BY Zenon DEF Lists
<1>3. r.pc # "redisable" /\ r.pc # "discover" /\ r.pc \notin {"adapt", "discover"}
  BY Zenon DEF BusyPcs
<1> QED
  BY <1>1, <1>2, <1>3, Zenon DEF Stance

\* Nothing in hand and nothing to answer for: the task goes on.
LEMMA PassCalm ==
  ASSUME Undisturbed, CalmInv, WorkInv', NEW t \in Tasks, NEW v, Goes(t, v, <<>>),
         v \notin BusyPcs, UNCHANGED manager, UNCHANGED hardware, live' = TRUE, saved' = None,
         task[t].acts = <<>>, task[t].pc # "idle",
         task[t].pc \in BusyPcs =>
           InFlight(entry) \/ Renderable(State(entry)) \/ task[t].pc \in {"refresh", "resync"}
  PROVE  CalmInv'
<1>1. Only(t) /\ task'[t].pc = v /\ task'[t].acts = <<>> /\ task'[t].outcome = task[t].outcome
      /\ task'[t].fence = task[t].fence
  BY Zenon DEF Goes, Moves, Advanced
<1>2. Stance(t, task[t], issued)
  BY Zenon DEF CalmInv
<1>3. Stance(t, task'[t], issued)
  BY <1>1, <1>2, FreeStance, Zenon DEF Stance
<1>4. Grip(t, task'[t], entry, session, mapped)
  BY <1>1, FreeGrip, Zenon
<1>5. ~Emits(task[t].acts, "Disconnect") /\ ~Emits(task[t].acts, "Unmap") /\ ~Carrying(task[t])
  BY DEF Carrying, Emits
<1>6. ~Unroutes(task[t])
  BY <1>5, Zenon DEF Unroutes
<1>7. Making(t, task[t]) \/ task[t].pc = "teardown" \/ Closes(task[t]) =>
        InFlight(entry) \/ Renderable(State(entry))
  <2>1. t \notin Timers
    BY OnlyScans, Zenon
  <2>2. Making(t, task[t]) \/ task[t].pc = "teardown" \/ Closes(task[t]) =>
          task[t].pc \in {"close", "dial", "fence", "teardown", "install", "report"}
    BY <1>5, <2>1, Zenon DEF Making, Closes
  <2>3. task[t].pc \in {"close", "dial", "fence", "teardown", "install", "report"} =>
          task[t].pc \in BusyPcs /\ task[t].pc \notin {"refresh", "resync"}
    BY Zenon DEF BusyPcs
  <2> QED
    BY <2>2, <2>3, Zenon
<1> QED
  BY <1>1, <1>3, <1>4, <1>6, <1>7, SameCalm, Zenon

\* What no step of an undisturbed scan changes.
LEMMA KeptSettings ==
  ASSUME CalmInv, UNCHANGED settings
  PROVE  live' = TRUE /\ saved' = None
  BY Zenon DEF CalmInv, settings

-----------------------------------------------------------------------------
(* The steps of scans and fenced connects that leave the hardware and the manager's
   entry alone, one lemma per kind of step. *)

\* Taking up a connect, and syncing the registry after a list is done.
LEMMA ExecCalm ==
  ASSUME Undisturbed, ExInv, WorkInv, CalmInv, WorkInv', NEW t \in Tasks,
         ExecConnect(t) \/ ExecDone(t) \/ ReadState(t) \/ WriteRegistry(t)
  PROVE  CalmInv'
<1>1. /\ Shape /\ Shaped(task[t]) /\ Local(t) /\ UNCHANGED manager /\ UNCHANGED hardware
      /\ live' = TRUE /\ saved' = None
  BY KeptSettings, Zenon DEF ExInv, Shape, ExecConnect, ExecDone, ReadState, WriteRegistry
<1>2. Stance(t, task[t], issued) /\ Grip(t, task[t], entry, session, mapped)
  BY Zenon DEF CalmInv
<1>3. CASE ExecConnect(t)
  <2>1. /\ task[t].acts # <<>> /\ Head(task[t].acts).op = "Connect" /\ task[t].pc = "exec"
        /\ Pop(t, "dial")
    BY <1>3, Zenon DEF ExecConnect, NextAct, At
  <2>2. Carrying(task[t]) /\ Tail(task[t].acts) = <<>>
    BY <1>2, <2>1, ListFacts, Zenon DEF Stance, Carrying
  <2>3. /\ Only(t) /\ task'[t].pc = "dial" /\ task'[t].acts = <<>>
        /\ task'[t].outcome = task[t].outcome /\ task'[t].fence = task[t].fence
    BY <1>1, <2>1, <2>2, PopGoes, Zenon DEF Goes, Moves, Advanced
  <2>4. ~Carrying(task'[t]) /\ ~Closes(task'[t]) /\ ~Unroutes(task'[t])
    <3>1. \A op : ~Emits(<<>>, op)
      BY DEF Emits
    <3> QED
      BY <2>3, <3>1, Zenon DEF Carrying, Closes, Unroutes
  <2>5. <<>> \in Lists
    BY Zenon DEF Lists
  <2>6. Stance(t, task'[t], issued)
    BY <1>2, <2>1, <2>3, <2>4, <2>5, Zenon DEF Stance
  <2>7. Grip(t, task'[t], entry, session, mapped)
    BY <1>2, <2>2, <2>3, <2>4, Zenon DEF Grip
  <2>8. Making(t, task'[t])
    BY <2>3, Zenon DEF Making
  <2>9. ~Unroutes(task[t])
    BY <1>2, <2>2, ListFacts, Zenon DEF Stance, Unroutes, Carrying
  <2> QED
    BY <1>1, <2>3, <2>6, <2>7, <2>8, <2>9, SameCalm, Zenon
<1>4. CASE ExecDone(t)
  <2> DEFINE r == [task[t] EXCEPT !.pc = "read", !.back = "end"]
  <2>1. task[t].pc = "exec" /\ task[t].acts = <<>> /\ task[t].pairing = FALSE
    BY <1>1, <1>4, OnlyScans, Zenon DEF ExecDone, At, Local
  <2>2. task' = [task EXCEPT ![t] = r]
    BY <1>1, <1>4, <2>1, Zenon DEF ExecDone, Shape
  <2>3. /\ Shaped(r) /\ r.pc = "read" /\ r.acts = <<>> /\ r.outcome = task[t].outcome
        /\ r.fence = task[t].fence
    BY <1>1, <2>1, Zenon DEF Shaped, Fields
  <2> HIDE DEF r
  <2>4. Only(t) /\ task'[t] = r
    BY <1>1, <2>2, <2>3, Replaced, Zenon
  <2>5. r.pc \notin BusyPcs /\ task[t].pc \notin BusyPcs
    BY <2>1, <2>3, Zenon DEF BusyPcs
  <2>6. Stance(t, r, issued) /\ Grip(t, r, entry, session, mapped)
    <3>1. t \in Backgrounds => r.fence \in Nat /\ r.fence <= issued
      BY <1>2, <2>1, <2>3, Zenon DEF Stance
    <3> QED
      BY <1>2, <2>3, <2>5, <3>1, FreeGrip, FreeStance, Zenon DEF Stance
  <2>7. ~Unroutes(task[t]) /\ ~Closes(task[t]) /\ ~Carrying(task[t])
    BY <2>1, <2>5, FreeGrip, Zenon
  <2>8. ~(Making(t, task[t]) \/ task[t].pc = "teardown")
    BY <2>1, <2>7, Zenon DEF Making
  <2> QED
    BY <1>1, <2>4, <2>6, <2>7, <2>8, SameCalm, Zenon
<1>5. CASE ReadState(t) \/ WriteRegistry(t)
  <2>1. PICK v \in {"write", "end", "exec"} : Goes(t, v, task[t].acts)
    <3>1. CASE ReadState(t)
      BY <1>1, <3>1, SeesGoes, Zenon DEF ReadState
    <3>2. CASE WriteRegistry(t)
      BY <1>1, <3>2, GotoGoes, Zenon DEF WriteRegistry, Local
    <3> QED
      BY <1>5, <3>1, <3>2, Zenon
  <2>2. task[t].pc \in {"read", "write"}
    BY <1>5, Zenon DEF ReadState, WriteRegistry, At
  <2>3. task[t].acts = <<>> /\ task[t].pc # "idle" /\ task[t].pc \notin BusyPcs
    BY <1>2, <2>2, Zenon DEF Stance, BusyPcs
  <2>4. v \notin BusyPcs
    BY Zenon DEF BusyPcs
  <2> QED
    BY <1>1, <2>1, <2>3, <2>4, PassCalm, Zenon
<1> QED
  BY <1>3, <1>4, <1>5, Zenon

\* A slot is emptied, or a scan begins in it.
LEMMA BlankCalm ==
  ASSUME Undisturbed, ExInv, CalmInv, WorkInv', NEW t \in Tasks,
         Ends(t) \/ (t \in Scans /\ ScanBegins(t))
  PROVE  CalmInv'
<1>1. Shape /\ UNCHANGED manager /\ UNCHANGED hardware /\ live' = TRUE /\ saved' = None
  BY KeptSettings, Zenon DEF ExInv, Ends, ScanBegins
<1>2. task[t].pc \in {"end", "idle"}
  BY Zenon DEF Ends, ScanBegins, Begin, At
<1>3. PICK r : /\ task' = [task EXCEPT ![t] = r]
               /\ r = IdleTask \/ (r = [IdleTask EXCEPT !.pc = "observe"] /\ t \in Scans)
  <2>1. t \notin Users
    BY OnlyScans, Zenon
  <2>2. CASE Ends(t)
    BY <2>1, <2>2, Zenon DEF Ends
  <2>3. CASE t \in Scans /\ ScanBegins(t)
    BY <2>3, Zenon DEF ScanBegins, Begin
  <2> QED
    BY <2>2, <2>3, Zenon
<1>4. /\ Shaped(r) /\ r.acts = <<>> /\ r.outcome = "ok" /\ r.pc \in {"idle", "observe"}
      /\ t \in Backgrounds => r.pc = "idle"
  <2>1. CASE r = IdleTask
    BY <2>1, IdleLocal, Zenon DEF IdleTask
  <2>2. CASE r = [IdleTask EXCEPT !.pc = "observe"] /\ t \in Scans
    <3>1. t \notin Backgrounds
      BY <2>2, TaskKinds, Zenon
    <3> QED
      BY <2>2, <3>1, Zenon DEF Shaped, Fields, IdleTask
  <2> QED
    BY <1>3, <2>1, <2>2, Zenon
<1>5. Only(t) /\ task'[t] = r
  BY <1>1, <1>3, <1>4, Replaced, Zenon
<1>6. r.pc \notin BusyPcs /\ task[t].pc \notin BusyPcs /\ task[t].pc \notin {"dispatch", "exec", "close"}
  BY <1>2, <1>4, Zenon DEF BusyPcs
<1>7. Stance(t, r, issued) /\ Grip(t, r, entry, session, mapped)
  BY <1>4, <1>6, FreeGrip, FreeStance, Zenon
<1>8. task[t].acts = <<>>
  BY <1>6, Zenon DEF CalmInv, Stance
<1>9. ~Unroutes(task[t]) /\ ~Closes(task[t]) /\ ~Carrying(task[t])
  BY <1>6, <1>8, FreeGrip, Zenon
<1>10. ~(Making(t, task[t]) \/ task[t].pc = "teardown")
  BY <1>2, <1>9, OnlyScans, Zenon DEF Making
<1> QED
  BY <1>1, <1>5, <1>7, <1>9, <1>10, SameCalm, Zenon

\* ConnectFence::check: a connect that is still wanted has its session.
LEMMA FenceCalm ==
  ASSUME Undisturbed, ExInv, CalmInv, WorkInv', NEW t \in Tasks, FenceCheck(t)
  PROVE  CalmInv'
<1>1. PICK v \in {"install", "exec", "teardown"} :
        /\ Goto(t, v)
        /\ v = "install" => entry.issue = task[t].fence
        /\ v = "exec" => InFlight(entry) \/ Renderable(State(entry))
        /\ v = "teardown" => ~InFlight(entry) /\ ~Renderable(State(entry))
  <2> DEFINE publish == entry.issue = task[t].fence
             yield == ~publish /\ (InFlight(entry) \/ Renderable(State(entry)))
  <2>1. Goto(t, CASE publish -> "install" [] yield -> "exec" [] OTHER -> "teardown")
    BY Zenon DEF FenceCheck
  <2>2. /\ yield => ~publish /\ (InFlight(entry) \/ Renderable(State(entry)))
        /\ ~yield /\ ~publish => ~InFlight(entry) /\ ~Renderable(State(entry))
        /\ publish => entry.issue = task[t].fence
    BY Zenon
  <2> HIDE DEF publish, yield
  <2>3. CASE publish
    <3>1. Goto(t, "install")
      BY <2>1, <2>2, <2>3, Zenon
    <3> QED
      BY <2>2, <2>3, <3>1, Zenon
  <2>4. CASE yield
    <3>1. Goto(t, "exec")
      BY <2>1, <2>2, <2>4, Zenon
    <3> QED
      BY <2>2, <2>4, <3>1, Zenon
  <2>5. CASE ~publish /\ ~yield
    <3>1. Goto(t, "teardown")
      BY <2>1, <2>5, Zenon
    <3> QED
      BY <2>2, <2>5, <3>1, Zenon
  <2> QED
    BY <2>3, <2>4, <2>5, Zenon
<1>2. /\ task[t].pc = "fence" /\ Shape /\ Local(t) /\ UNCHANGED manager /\ UNCHANGED hardware
      /\ live' = TRUE /\ saved' = None
  BY KeptSettings, Zenon DEF FenceCheck, At, ExInv
<1>3. Stance(t, task[t], issued) /\ Grip(t, task[t], entry, session, mapped)
  BY Zenon DEF CalmInv
<1>4. /\ task[t].acts = <<>> /\ t \in Backgrounds /\ t \notin Scans
      /\ task[t].fence \in Nat /\ task[t].fence <= issued
  BY <1>2, <1>3, TaskKinds, Zenon DEF Local, Stance
<1>5. /\ Only(t) /\ task'[t].pc = v /\ task'[t].acts = <<>>
      /\ task'[t].outcome = task[t].outcome /\ task'[t].fence = task[t].fence
  BY <1>1, <1>2, <1>4, GotoGoes, Zenon DEF Goes, Moves, Advanced
<1>6. /\ ~Carrying(task'[t]) /\ ~Closes(task'[t]) /\ ~Unroutes(task'[t]) /\ ~Unroutes(task[t])
      /\ <<>> \in Lists
  <2>1. \A op : ~Emits(<<>>, op)
    BY DEF Emits
  <2> QED
    BY <1>4, <1>5, <2>1, Zenon DEF Carrying, Closes, Unroutes, Lists
<1>7. Stance(t, task'[t], issued)
  BY <1>3, <1>4, <1>5, <1>6, Zenon DEF Stance
<1>8. v = "install" => session
  BY <1>1, <1>2, <1>3, <1>4, Zenon DEF Grip
<1>9. Grip(t, task'[t], entry, session, mapped)
  BY <1>1, <1>4, <1>5, <1>6, <1>8, Zenon DEF Grip
<1>10. \/ Making(t, task'[t]) \/ task'[t].pc = "teardown"
       \/ InFlight(entry) \/ Renderable(State(entry))
  BY <1>1, <1>5, Zenon DEF Making
<1> QED
  BY <1>2, <1>5, <1>6, <1>7, <1>9, <1>10, SameCalm, Zenon

\* A scan up to its call of the manager.
LEMMA ScanReadCalm ==
  ASSUME Undisturbed, ExInv, CalmInv, WorkInv', NEW t \in Scans,
         ScanReadsSettings(t) \/ ScanAppliesSettings(t)
  PROVE  CalmInv'
<1>0. t \in Tasks /\ Shape
  BY TaskKinds, Zenon DEF ExInv
<1>1. /\ t \in Tasks /\ t \notin Backgrounds /\ Shape /\ UNCHANGED manager /\ UNCHANGED hardware
      /\ live = TRUE /\ saved = None
      /\ task[t].pc \in {"observe", "adapt"}
  BY TaskKinds, Zenon DEF ExInv, CalmInv, ScanReadsSettings, ScanAppliesSettings, At
<1>2. Stance(t, task[t], issued)
  BY <1>1, Zenon DEF CalmInv
<1>3. task[t].acts = <<>> /\ task[t].pc \notin {"dial", "fence", "install", "report", "teardown", "close"}
  BY <1>1, <1>2, Zenon DEF Stance
<1>4. \A op : ~Emits(<<>>, op)
  BY DEF Emits
<1>5. PICK v \in {"adapt", "discover"} :
        /\ Goes(t, v, <<>>) /\ live' = TRUE /\ saved' = None /\ task'[t].on = TRUE
        /\ Wanted /\ v = "discover" => task'[t].auto
  <2>1. CASE ScanReadsSettings(t)
    <3>1. task' = [task EXCEPT ![t].pc = "adapt", ![t].on = TRUE] /\ UNCHANGED settings
      BY <1>1, <2>1, Zenon DEF ScanReadsSettings
    <3>2. Goes(t, "adapt", task[t].acts) /\ task'[t].on = TRUE
      BY <1>1, <3>1, ReadsGoes, Zenon
    <3> QED
      BY <1>3, <3>1, <3>2, KeptSettings, Zenon
  <2>2. CASE ScanAppliesSettings(t)
    <3>1. PICK auto \in Behaviors(task[t].on) :
            task' = [task EXCEPT ![t].pc = "discover", ![t].auto = auto, ![t].seen = registry]
      BY <2>2, Zenon DEF ScanAppliesSettings
    <3>2. task[t].on = TRUE /\ live' = task[t].on /\ saved' = saved
      BY <1>2, <2>2, Zenon DEF ScanAppliesSettings, At, Stance
    <3>3. Goes(t, "discover", task[t].acts) /\ task'[t].on = task[t].on /\ task'[t].auto = auto
      BY <1>0, <3>1, AppliesGoes, Zenon
    <3>4. Wanted => auto
      <4>1. PICK targeted \in Targeting : auto = (task[t].on /\ targeted)
        BY Zenon DEF Behaviors
      <4>2. targeted \in BOOLEAN
        BY ExecutorAssumption, Zenon
      <4> QED
        BY <3>2, <4>1, <4>2, Zenon DEF Wanted
    <3> QED
      BY <1>1, <1>3, <3>2, <3>3, <3>4, Zenon
  <2> QED
    BY <2>1, <2>2, Zenon
<1>6. /\ Only(t) /\ task'[t].pc = v /\ task'[t].acts = <<>> /\ task'[t].outcome = task[t].outcome
  BY <1>5, Zenon DEF Goes, Moves, Advanced
<1>7. ~Carrying(task'[t]) /\ ~Closes(task'[t]) /\ ~Unroutes(task'[t]) /\ <<>> \in Lists
  BY <1>4, <1>6, Zenon DEF Carrying, Closes, Unroutes, Lists
<1>8. Stance(t, task'[t], issued)
  BY <1>1, <1>2, <1>5, <1>6, <1>7, Zenon DEF Stance
<1>9. Grip(t, task'[t], entry, session, mapped)
  BY <1>1, <1>6, <1>7, Zenon DEF Grip
<1>10. ~(Making(t, task[t]) \/ task[t].pc = "teardown" \/ Closes(task[t])) /\ ~Unroutes(task[t])
  BY <1>3, <1>4, OnlyScans, Zenon DEF Making, Carrying, Closes, Unroutes
<1> QED
  BY <1>1, <1>5, <1>6, <1>8, <1>9, <1>10, SameCalm, Zenon

\* A scan that refreshes a device it found renderable, or hands over its actions.
LEMMA ScanPassCalm ==
  ASSUME Undisturbed, ExInv, CalmInv, WorkInv', NEW t \in Scans,
         ScanRefreshes(t) \/ ScanExecutesInline(t)
  PROVE  CalmInv'
<1>1. /\ t \in Tasks /\ t \notin Backgrounds /\ Shape /\ UNCHANGED manager /\ UNCHANGED hardware
      /\ live' = TRUE /\ saved' = None
  BY TaskKinds, KeptSettings, Zenon DEF ExInv, ScanRefreshes, ScanExecutesInline
<1>2. Stance(t, task[t], issued) /\ Grip(t, task[t], entry, session, mapped)
  BY <1>1, Zenon DEF CalmInv
<1>3. PICK v \in {"resync", "dispatch", "exec"} :
        /\ Goto(t, v)
        /\ \/ task[t].pc = "refresh" /\ v # "exec"
           \/ task[t].pc = "dispatch" /\ v = "exec"
  BY Zenon DEF ScanRefreshes, ScanExecutesInline, At
<1>4. /\ Only(t) /\ task'[t].pc = v /\ task'[t].acts = task[t].acts
      /\ task'[t].outcome = task[t].outcome
  BY <1>1, <1>3, GotoGoes, Zenon DEF Goes, Moves, Advanced
<1>5. /\ Carrying(task'[t]) <=> Carrying(task[t])
      /\ Closes(task'[t]) <=> Closes(task[t])
      /\ Unroutes(task'[t]) <=> Unroutes(task[t])
  BY <1>3, <1>4, Zenon DEF Carrying, Closes, Unroutes
<1>6. Stance(t, task'[t], issued)
  BY <1>1, <1>2, <1>3, <1>4, <1>5, Zenon DEF Stance
<1>7. Grip(t, task'[t], entry, session, mapped)
  BY <1>1, <1>2, <1>3, <1>4, <1>5, Zenon DEF Grip
<1>8. Making(t, task[t]) => Making(t, task'[t])
  BY <1>3, <1>5, OnlyScans, Zenon DEF Making
<1>9. task[t].pc # "teardown"
  BY <1>3, Zenon
<1> QED
  BY <1>1, <1>4, <1>5, <1>6, <1>7, <1>8, <1>9, SameCalm, Zenon
==============================================================================
