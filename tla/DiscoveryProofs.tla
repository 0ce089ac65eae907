--------------------------- MODULE DiscoveryProofs ----------------------------
(***************************************************************************)
(* Proofs about discovery, for any number of tasks: the shared scan has    *)
(* one owner and no lost wake-up (ScanQueue); scans and the fenced         *)
(* connects they leave behind do not undo each other's work, and leave the *)
(* hardware as the lifecycle describes it (LifecycleExecutor).             *)
(***************************************************************************)
EXTENDS ScanQueue, DeviceLifecycleProofs

-----------------------------------------------------------------------------
(* The shared scan.  A task that finds the flag taken may leave only because *)
(* the owner looks at the queue again, so the second property needs the      *)
(* first.                                                                    *)

\* Which tasks can be at the head of a call.
Places ==
  \A t \in QueueTasks :
    /\ pc[t] = "enqueue" => t \in Enqueuers \cup Schedulers
    /\ pc[t] = "claim" => t \in Callers

QueueInv == QueueTypeOK /\ Places /\ OneOwner /\ PendingIsWatched

\* At the start nobody owns the flag and nothing is queued.
LEMMA InitQueueInv == QueueInit => QueueInv
<1> SUFFICES ASSUME QueueInit PROVE QueueInv
  OBVIOUS
<1>1. \A t \in QueueTasks : pc[t] = CASE t \in Scanners -> "claim"
                                      [] t \in Workers -> "idle"
                                      [] OTHER -> "enqueue"
  BY DEF QueueInit
<1>2. \A t \in QueueTasks : pc[t] \in {"claim", "idle", "enqueue"}
  BY <1>1, CallersAreDistinct DEF Callers
<1>3. QueueTypeOK
  BY <1>2, Zenon DEF QueueInit, QueueTypeOK, Pcs
<1>4. Places
  BY <1>1, CallersAreDistinct DEF Places, QueueTasks, Callers
<1>5. \A t \in QueueTasks : ~Owns(t)
  BY <1>2 DEF Owns
<1> QED
  BY <1>3, <1>4, <1>5 DEF QueueInit, QueueInv, OneOwner, PendingIsWatched

\* Where each step takes its task.
LEMMA TypeStep ==
  ASSUME QueueTypeOK, Places, NEW t \in QueueTasks, Step(t) \/ ScanDropped(t)
  PROVE  QueueTypeOK' /\ Places'
<1> USE DEF Pcs, Over
<1>1. CASE Enqueue(t)
  <2>1. t \in Enqueuers \cup Schedulers
    BY <1>1 DEF Enqueue, Places
  <2> QED
    BY <1>1, <2>1 DEF Enqueue, Proceed, QueueTypeOK, Places, Callers
<1>2. CASE Claim(t)
  <2>1. t \in Callers
    BY <1>2 DEF Claim, Places
  <2> QED
    BY <1>2, <2>1 DEF Claim, Proceed, QueueTypeOK, Places
<1>3. CASE TakeOwn(t)
  BY <1>3 DEF TakeOwn, Proceed, QueueTypeOK, Places, Callers
<1>4. CASE ScanEnds(t)
  BY <1>4 DEF ScanEnds, Proceed, QueueTypeOK, Places
<1>5. CASE Release(t)
  BY <1>5, Zenon DEF Release, Proceed, QueueTypeOK, Places
<1>6. CASE Recheck(t)
  BY <1>6 DEF Recheck, Proceed, QueueTypeOK, Places
<1>7. CASE SpawnClaim(t)
  BY <1>7 DEF SpawnClaim, Proceed, QueueTypeOK, Places
<1>8. CASE SpawnScan(t)
  BY <1>8 DEF SpawnScan, QueueTypeOK, Places, Callers, QueueTasks
<1>9. CASE GiveBack(t)
  BY <1>9 DEF GiveBack, Proceed, QueueTypeOK, Places
<1>10. CASE ScanDropped(t)
  BY <1>10 DEF ScanDropped, Proceed, QueueTypeOK, Places
<1> QED
  BY <1>1, <1>2, <1>3, <1>4, <1>5, <1>6, <1>7, <1>8, <1>9, <1>10 DEF Step

\* Who owns the flag after a step: a task that kept its place still does.
LEMMA OwnerStep ==
  ASSUME QueueTypeOK, OneOwner, NEW t \in QueueTasks, Step(t) \/ ScanDropped(t)
  PROVE  OneOwner'
<1> USE DEF Owns, Over
<1>1. CASE Enqueue(t)
  BY <1>1 DEF Enqueue, Proceed, QueueTypeOK, OneOwner
<1>2. CASE Claim(t)
  <2>1. /\ \A u \in QueueTasks : u # t => pc'[u] = pc[u]
        /\ inProgress => pc'[t] = "done"
        /\ ~inProgress => pc'[t] \in {"scan", "takeOwn"}
        /\ inProgress' = TRUE /\ ~Owns(t)
    BY <1>2 DEF Claim, Proceed, QueueTypeOK
  <2> QED
    BY <2>1 DEF OneOwner
<1>3. CASE TakeOwn(t)
  BY <1>3 DEF TakeOwn, Proceed, QueueTypeOK, OneOwner
<1>4. CASE ScanEnds(t)
  BY <1>4 DEF ScanEnds, Proceed, QueueTypeOK, OneOwner
<1>5. CASE Release(t)
  BY <1>5 DEF Release, Proceed, QueueTypeOK, OneOwner
<1>6. CASE Recheck(t)
  BY <1>6 DEF Recheck, Proceed, QueueTypeOK, OneOwner
<1>7. CASE SpawnClaim(t)
  <2>1. /\ \A u \in QueueTasks : u # t => pc'[u] = pc[u]
        /\ inProgress => pc'[t] \in {"idle", "done"}
        /\ ~inProgress => pc'[t] = "take"
        /\ inProgress' = TRUE /\ ~Owns(t)
    BY <1>7 DEF SpawnClaim, Proceed, QueueTypeOK
  <2> QED
    BY <2>1 DEF OneOwner
<1>8. CASE SpawnScan(t)
  BY <1>8 DEF SpawnScan, QueueTypeOK, OneOwner, QueueTasks
<1>9. CASE GiveBack(t)
  BY <1>9 DEF GiveBack, Proceed, QueueTypeOK, OneOwner
<1>10. CASE ScanDropped(t)
  BY <1>10 DEF ScanDropped, Proceed, QueueTypeOK, OneOwner
<1> QED
  BY <1>1, <1>2, <1>3, <1>4, <1>5, <1>6, <1>7, <1>8, <1>9, <1>10 DEF Step

\* Who watches the queue after a step.  A task that leaves because it lost the
\* exchange leaves the owner behind.
LEMMA WatchStep ==
  ASSUME QueueTypeOK, OneOwner, PendingIsWatched, NEW t \in QueueTasks, Step(t) \/ ScanDropped(t)
  PROVE  PendingIsWatched'
<1> USE DEF Owns, Called, Over
<1>1. CASE Enqueue(t)
  BY <1>1, CallersAreDistinct DEF Enqueue, Proceed, QueueTypeOK, PendingIsWatched
<1>2. CASE Claim(t)
  <2>1. inProgress'
    BY <1>2 DEF Claim
  <2> QED
    BY <2>1, OwnerStep DEF OneOwner, PendingIsWatched
<1>3. CASE TakeOwn(t)
  BY <1>3 DEF TakeOwn, PendingIsWatched
<1>4. CASE ScanEnds(t)
  BY <1>4 DEF ScanEnds, Proceed, QueueTypeOK, PendingIsWatched
<1>5. CASE Release(t)
  BY <1>5 DEF Release, Proceed, QueueTypeOK, PendingIsWatched
<1>6. CASE Recheck(t)
  <2>1. pending # {} => pc'[t] = "spawn"
    BY <1>6 DEF Recheck, Proceed, QueueTypeOK
  <2> QED
    BY <1>6, <2>1 DEF Recheck, PendingIsWatched
<1>7. CASE SpawnClaim(t)
  <2>1. inProgress'
    BY <1>7 DEF SpawnClaim
  <2> QED
    BY <2>1, OwnerStep DEF OneOwner, PendingIsWatched
<1>8. CASE SpawnScan(t)
  BY <1>8 DEF SpawnScan, PendingIsWatched
<1>9. CASE GiveBack(t)
  BY <1>9 DEF GiveBack, Proceed, QueueTypeOK, PendingIsWatched
<1>10. CASE ScanDropped(t)
  BY <1>10 DEF ScanDropped, Proceed, QueueTypeOK, PendingIsWatched
<1> QED
  BY <1>1, <1>2, <1>3, <1>4, <1>5, <1>6, <1>7, <1>8, <1>9, <1>10 DEF Step

\* The invariant holds for ever.
LEMMA AlwaysQueueInv == QueueSpec => []QueueInv
<1>1. QueueInv /\ [QueueNext]_queueVars => QueueInv'
  <2> SUFFICES ASSUME QueueInv, [QueueNext]_queueVars PROVE QueueInv'
    OBVIOUS
  <2>1. CASE QueueNext
    BY <2>1, TypeStep, OwnerStep, WatchStep DEF QueueNext, QueueInv
  <2>2. CASE UNCHANGED queueVars
    BY <2>2 DEF queueVars, QueueInv, QueueTypeOK, Places, OneOwner, PendingIsWatched, Owns, Called
  <2> QED
    BY <2>1, <2>2
<1> QED
  BY <1>1, InitQueueInv, PTL DEF QueueSpec

\* The flag, the queue and the tasks of the shared scan (scan.rs 33-252) have
\* their types, for any number of callers and workers.
THEOREM QueueTypeCorrect == QueueSpec => []QueueTypeOK
  BY AlwaysQueueInv, PTL DEF QueueInv

\* in_progress has exactly one owner while it is set, through every hand-over
\* from a caller to the task that spawn_pending_scan_if_idle spawns.
THEOREM ScanIsExclusive == QueueSpec => []OneOwner
  BY AlwaysQueueInv, PTL DEF QueueInv

\* A queued request always has a task on its way to it: between the store of
\* DiscoveryFlagGuard::drop and its look at the queue no request is forgotten.
THEOREM NoLostWakeup == QueueSpec => []PendingIsWatched
  BY AlwaysQueueInv, PTL DEF QueueInv

-----------------------------------------------------------------------------
(* Scans and their fenced connects: the steps that change the hardware or the
   manager's entry, one lemma per kind of step. *)

\* Whatever happens to session and route, nobody relies on them while no connect is
\* in flight.
LEMMA ClearGrip ==
  ASSUME Undisturbed, NEW u \in Tasks, NEW r, NEW e, NEW n, NEW s0, NEW m0, NEW s, NEW m,
         e.issue = None, Stance(u, r, n), Grip(u, r, e, s0, m0)
  PROVE  Grip(u, r, e, s, m)
<1>1. u \in Scans \/ u \in Backgrounds
  BY OnlyScans, Zenon
<1>2. \A x \in Nat : x # None
  BY NoneAssumption
<1>3. u \in Backgrounds /\ r.pc \in {"fence", "install", "report"} => r.fence # e.issue
  <2>1. r.pc \in {"fence", "install", "report"} => r.pc # "idle"
    BY Zenon
  <2> QED
    BY <1>2, <2>1, Zenon DEF Stance
<1>4. r.pc \notin {"install", "report"}
  BY <1>1, <1>3, Zenon DEF Grip, InFlight
<1> QED
  BY <1>3, <1>4, Zenon DEF Grip

\* A session or route that is kept or given up.
LEMMA SessionKept ==
  ASSUME session' \in {session, FALSE}
  PROVE  session' => session
  BY Zenon

LEMMA RouteKept ==
  ASSUME mapped' \in {mapped, FALSE}
  PROVE  mapped' => mapped
  BY Zenon

\* A task closes the session, or drops the route, of a device without a connect.
LEMMA ClearCalm ==
  ASSUME Undisturbed, CalmInv, WorkInv', NEW t \in Tasks, Only(t),
         UNCHANGED manager, live' = TRUE, saved' = None,
         ~InFlight(entry), ~Renderable(State(entry)),
         session' \in {session, FALSE}, mapped' \in {mapped, FALSE},
         Stance(t, task'[t], issued), Grip(t, task'[t], entry, session', mapped'),
         session' /\ (Making(t, task[t]) \/ task[t].pc = "teardown" \/ Closes(task[t])) =>
           Making(t, task'[t]) \/ task'[t].pc = "teardown" \/ Closes(task'[t]),
         mapped' /\ Unroutes(task[t]) => Unroutes(task'[t])
  PROVE  CalmInv'
<1>1. entry' = entry /\ issued' = issued
  BY Zenon DEF manager
<1>2. entry.issue = None
  BY Zenon DEF InFlight
<1>3. /\ Calm(entry, issued, session, mapped)
      /\ \A u \in Tasks : Stance(u, task[u], issued) /\ Grip(u, task[u], entry, session, mapped)
  BY Zenon DEF CalmInv
<1>4. Calm(entry', issued', session', mapped')
  BY <1>1, <1>3, Zenon DEF Calm
<1>5. \A u \in Tasks : /\ Stance(u, task[u], issued')
                       /\ Grip(u, task[u], entry', session', mapped')
  BY <1>1, <1>2, <1>3, ClearGrip, Zenon
<1>6. (session' => session) /\ (mapped' => mapped)
  BY SessionKept, RouteKept, Zenon
<1>7. session' /\ ~Renderable(State(entry')) =>
        \/ Making(t, task'[t]) \/ task'[t].pc = "teardown" \/ Closes(task'[t])
        \/ /\ session /\ ~Renderable(State(entry))
           /\ ~(Making(t, task[t]) \/ task[t].pc = "teardown" \/ Closes(task[t]))
  BY <1>6, Zenon
<1>8. mapped' /\ ~Renderable(State(entry')) =>
        \/ Unroutes(task'[t])
        \/ mapped /\ ~Renderable(State(entry)) /\ ~InFlight(entry) /\ ~Unroutes(task[t])
  BY <1>6, Zenon
<1>9. Stance(t, task'[t], issued') /\ Grip(t, task'[t], entry', session', mapped')
  BY <1>1, Zenon
<1> QED
  BY <1>4, <1>5, <1>7, <1>8, <1>9, CalmStep, Zenon

\* disconnect_backend_device, the dropping of the routes and
\* close_superseded_connect: all of them of a device nobody wants connected.
LEMMA CloseCalm ==
  ASSUME Undisturbed, ExInv, CalmInv, WorkInv', NEW t \in Tasks,
         ExecDisconnect(t) \/ CloseSession(t) \/ ExecUnmap(t) \/ TearDown(t)
  PROVE  CalmInv'
<1>1. /\ Shape /\ UNCHANGED manager /\ live' = TRUE /\ saved' = None
      /\ session' \in {session, FALSE} /\ mapped' \in {mapped, FALSE}
  BY KeptSettings, Zenon DEF ExInv, ExecDisconnect, CloseSession, ExecUnmap, TearDown
<1>2. Stance(t, task[t], issued) /\ Grip(t, task[t], entry, session, mapped)
  BY Zenon DEF CalmInv
<1>3. \A op : ~Emits(<<>>, op)
  BY DEF Emits
<1>4. <<>> \in Lists /\ task[t].acts \in Lists
  BY <1>2, Zenon DEF Lists, Stance
<1>5. CASE ExecDisconnect(t) \/ CloseSession(t)
  <2>1. PICK v \in {"close", "exec"}, a \in Lists :
          /\ Goes(t, v, a) /\ Closes(task[t]) /\ ~Emits(a, "Connect")
          /\ v = "close" => mapped' = FALSE
          /\ v = "exec" => session' = FALSE /\ a = task[t].acts
    <3>1. CASE ExecDisconnect(t)
      <4>1. /\ task[t].acts # <<>> /\ Head(task[t].acts).op = "Disconnect" /\ Pop(t, "close")
            /\ mapped' = FALSE
        BY <3>1, Zenon DEF ExecDisconnect, NextAct
      <4>2. Goes(t, "close", Tail(task[t].acts))
        BY <1>1, <4>1, PopGoes, Zenon
      <4>3. /\ Emits(task[t].acts, "Disconnect") /\ Tail(task[t].acts) \in Lists
            /\ ~Emits(Tail(task[t].acts), "Connect")
        BY <1>4, <4>1, ListFacts, Zenon
      <4> QED
        BY <4>1, <4>2, <4>3, Zenon DEF Closes
    <3>2. CASE CloseSession(t)
      <4>1. task[t].pc = "close" /\ Goto(t, "exec") /\ session' = FALSE
        BY <3>2, Zenon DEF CloseSession, At
      <4>2. Goes(t, "exec", task[t].acts)
        BY <1>1, <4>1, GotoGoes, Zenon
      <4>3. ~Emits(task[t].acts, "Connect")
        BY <1>2, <4>1, Zenon DEF Stance, Carrying
      <4> QED
        BY <1>4, <4>1, <4>2, <4>3, Zenon DEF Closes
    <3> QED
      BY <1>5, <3>1, <3>2, Zenon
  <2>2. /\ Only(t) /\ task'[t].pc = v /\ task'[t].acts = a /\ task'[t].outcome = task[t].outcome
    BY <2>1, Zenon DEF Goes, Moves, Advanced
  <2>3. ~InFlight(entry) /\ ~Renderable(State(entry)) /\ t \notin Backgrounds
    BY <1>2, <2>1, Zenon DEF Grip, Stance
  <2>4. Stance(t, task'[t], issued)
    BY <1>2, <2>1, <2>2, <2>3, Zenon DEF Stance, Carrying
  <2>5. Grip(t, task'[t], entry, session', mapped')
    BY <2>1, <2>2, <2>3, Zenon DEF Grip, Carrying
  <2>6. /\ session' => Closes(task'[t])
        /\ mapped' /\ Unroutes(task[t]) => Unroutes(task'[t])
    BY <2>1, <2>2, Zenon DEF Closes, Unroutes
  <2> QED
    BY <1>1, <2>2, <2>3, <2>4, <2>5, <2>6, ClearCalm, Zenon
<1>6. CASE ExecUnmap(t) \/ TearDown(t)
  <2>1. /\ Goes(t, "exec", <<>>)
        /\ \/ task[t].pc = "exec" /\ mapped' = FALSE /\ Emits(task[t].acts, "Unmap")
              /\ ~Emits(task[t].acts, "Connect") /\ ~Emits(task[t].acts, "Disconnect")
           \/ task[t].pc = "teardown" /\ session' = FALSE /\ task[t].acts = <<>>
    <3>1. CASE ExecUnmap(t)
      <4>1. /\ task[t].acts # <<>> /\ Head(task[t].acts).op = "Unmap" /\ Pop(t, "exec")
            /\ mapped' = FALSE /\ task[t].pc = "exec"
        BY <3>1, Zenon DEF ExecUnmap, NextAct, At
      <4>2. Goes(t, "exec", Tail(task[t].acts))
        BY <1>1, <4>1, PopGoes, Zenon
      <4> QED
        BY <1>4, <4>1, <4>2, ListFacts, Zenon
    <3>2. CASE TearDown(t)
      <4>1. task[t].pc = "teardown" /\ Goto(t, "exec") /\ session' = FALSE
        BY <3>2, Zenon DEF TearDown, At
      <4>2. Goes(t, "exec", task[t].acts)
        BY <1>1, <4>1, GotoGoes, Zenon
      <4>3. task[t].acts = <<>>
        BY <1>2, <4>1, Zenon DEF Stance
      <4> QED
        BY <4>1, <4>2, <4>3, Zenon
    <3> QED
      BY <1>6, <3>1, <3>2, Zenon
  <2>2. /\ Only(t) /\ task'[t].pc = "exec" /\ task'[t].acts = <<>>
        /\ task'[t].outcome = task[t].outcome /\ task'[t].fence = task[t].fence
    BY <2>1, Zenon DEF Goes, Moves, Advanced
  <2>3. ~InFlight(entry) /\ ~Renderable(State(entry))
    BY <1>2, <2>1, Zenon DEF Grip, Unroutes
  <2>4. task'[t].pc \notin BusyPcs /\ task[t].pc # "idle"
    BY <2>1, <2>2, Zenon DEF BusyPcs
  <2>5. Stance(t, task'[t], issued)
    BY <1>2, <2>2, <2>4, FreeStance, Zenon DEF Stance
  <2>6. Grip(t, task'[t], entry, session', mapped')
    BY <2>2, <2>4, FreeGrip, Zenon
  <2>7. session' => ~(Making(t, task[t]) \/ task[t].pc = "teardown" \/ Closes(task[t]))
    BY <2>1, Zenon DEF Making, Carrying, Closes
  <2>8. mapped' => ~Unroutes(task[t])
    BY <1>3, <2>1, Zenon DEF Unroutes
  <2> QED
    BY <1>1, <2>2, <2>3, <2>5, <2>6, <2>7, <2>8, ClearCalm, Zenon
<1> QED
  BY <1>5, <1>6, Zenon

-----------------------------------------------------------------------------
\* The driver answers: the session is open, whoever waits for it.
LEMMA DialCalm ==
  ASSUME Undisturbed, ExInv, CalmInv, WorkInv', NEW t \in Tasks, Dial(t)
  PROVE  CalmInv'
<1>1. PICK o \in Outcomes :
        /\ session' = (session \/ o = "ok")
        /\ task' = [task EXCEPT ![t].outcome = o,
             ![t].pc = IF o # "ok" THEN (IF task[t].pairing THEN "end" ELSE "report")
                       ELSE IF task[t].fence # None THEN "fence"
                       ELSE "install"]
  BY Zenon DEF Dial
<1>2. o = "ok"
  BY Zenon DEF Undisturbed
<1> DEFINE v == IF task[t].fence # None THEN "fence" ELSE "install"
           r == [task[t] EXCEPT !.outcome = "ok", !.pc = v]
<1>3. /\ task[t].pc = "dial" /\ UNCHANGED manager /\ mapped' = mapped
      /\ live' = TRUE /\ saved' = None
  BY KeptSettings, Zenon DEF Dial, At
<1>4. /\ Shape /\ Shaped(task[t]) /\ Local(t)
      /\ Stance(t, task[t], issued) /\ Grip(t, task[t], entry, session, mapped)
  BY Zenon DEF ExInv, Shape, CalmInv
<1>5. task' = [task EXCEPT ![t] = r] /\ session' = TRUE
  BY <1>1, <1>2, <1>4, Zenon DEF Shape
<1>6. /\ Shaped(r) /\ r.pc = v /\ r.acts = task[t].acts /\ r.fence = task[t].fence /\ r.outcome = "ok"
  BY <1>4, Zenon DEF Shaped, Fields
<1> HIDE DEF r
<1>7. Only(t) /\ task'[t] = r
  BY <1>4, <1>5, <1>6, Replaced, Zenon
<1>8. task[t].acts = <<>> /\ (t \in Backgrounds => task[t].fence \in Nat /\ task[t].fence <= issued)
  BY <1>3, <1>4, Zenon DEF Stance
<1>9. /\ v \in {"fence", "install"}
      /\ v = "install" => t \notin Backgrounds
  <2>1. \A x \in Nat : x # None
    BY NoneAssumption
  <2> QED
    BY <1>8, <2>1, Zenon
<1> HIDE DEF v
<1>10. /\ ~Carrying(r) /\ ~Closes(r) /\ ~Unroutes(r) /\ ~Unroutes(task[t]) /\ <<>> \in Lists
  <2>1. \A op : ~Emits(<<>>, op)
    BY DEF Emits
  <2> QED
    BY <1>6, <1>8, <1>9, <2>1, Zenon DEF Carrying, Closes, Unroutes, Lists
<1>11. Stance(t, r, issued)
  BY <1>6, <1>8, <1>9, <1>10, Zenon DEF Stance
<1>12. Grip(t, r, entry, TRUE, mapped)
  BY <1>3, <1>4, <1>6, <1>9, <1>10, Zenon DEF Grip
<1>13. entry' = entry /\ issued' = issued /\ Calm(entry, issued, TRUE, mapped)
  BY <1>3, Zenon DEF manager, CalmInv, Calm
<1>14. \A u \in Tasks : Stance(u, task[u], issued) /\ Grip(u, task[u], entry, TRUE, mapped)
  BY Zenon DEF CalmInv, Grip
<1>15. Making(t, r)
  BY <1>6, <1>9, Zenon DEF Making
<1>16. mapped' /\ ~Renderable(State(entry')) =>
         \/ entry'.issue # None
         \/ mapped /\ ~Renderable(State(entry)) /\ ~InFlight(entry) /\ ~Unroutes(task[t])
  BY <1>3, <1>10, <1>13, Zenon DEF InFlight
<1> QED
  BY <1>3, <1>5, <1>7, <1>11, <1>12, <1>13, <1>14, <1>15, <1>16, CalmStep, Zenon

\* Sink and route go in.
LEMMA RouteCalm ==
  ASSUME Undisturbed, CalmInv, WorkInv', NEW t \in Tasks, Only(t),
         UNCHANGED manager, session' = session, mapped' = TRUE, live' = TRUE, saved' = None,
         Stance(t, task'[t], issued), Grip(t, task'[t], entry, session, TRUE),
         \/ Making(t, task'[t]) \/ Renderable(State(entry))
         \/ ~(Making(t, task[t]) \/ task[t].pc = "teardown" \/ Closes(task[t])),
         Renderable(State(entry)) \/ InFlight(entry) \/ ~Wanted
  PROVE  CalmInv'
<1>1. entry' = entry /\ issued' = issued /\ Calm(entry, issued, session, TRUE)
  BY Zenon DEF manager, CalmInv, Calm
<1>2. \A u \in Tasks : Stance(u, task[u], issued) /\ Grip(u, task[u], entry, session, TRUE)
  BY Zenon DEF CalmInv, Grip
<1>3. session' /\ ~Renderable(State(entry')) =>
        \/ Making(t, task'[t])
        \/ /\ session /\ ~Renderable(State(entry))
           /\ ~(Making(t, task[t]) \/ task[t].pc = "teardown" \/ Closes(task[t]))
  BY <1>1, Zenon
<1>4. Renderable(State(entry')) \/ entry'.issue # None \/ ~Wanted
  BY <1>1, Zenon DEF InFlight
<1> QED
  BY <1>1, <1>2, <1>3, <1>4, CalmStep, Zenon

\* Installing a connect, and syncing the mappings of a device that is connected or,
\* in a scan, was shown as connected.
LEMMA PublishCalm ==
  ASSUME Undisturbed, ExInv, CalmInv, WorkInv', NEW t \in Tasks,
         Install(t) \/ Remap(t) \/ (t \in Scans /\ ScanResyncs(t))
  PROVE  CalmInv'
<1>1. /\ Shape /\ UNCHANGED manager /\ session' = session /\ mapped' = TRUE
      /\ live' = TRUE /\ saved' = None
  BY KeptSettings, Zenon DEF ExInv, Install, Remap, ScanResyncs
<1>2. Stance(t, task[t], issued) /\ Grip(t, task[t], entry, session, mapped)
  BY Zenon DEF CalmInv
<1>3. PICK v \in {"report", "read", "dispatch"} :
        /\ Goto(t, v)
        /\ \/ task[t].pc = "install" /\ v = "report"
           \/ task[t].pc = "remap" /\ v = "read"
           \/ t \in Scans /\ task[t].pc = "resync" /\ v = "dispatch"
  <2>1. t \notin Timers
    BY OnlyScans, Zenon
  <2> QED
    BY <2>1, Zenon DEF Install, Remap, ScanResyncs, At
<1>4. task[t].acts = <<>> /\ task[t].pc # "idle"
  BY <1>2, <1>3, Zenon DEF Stance
<1>5. /\ Only(t) /\ task'[t].pc = v /\ task'[t].acts = <<>>
      /\ task'[t].outcome = task[t].outcome /\ task'[t].fence = task[t].fence
  BY <1>1, <1>3, <1>4, GotoGoes, Zenon DEF Goes, Moves, Advanced
<1>6. CASE task[t].pc = "install" /\ v = "report"
  <2>1. ~Carrying(task'[t]) /\ ~Closes(task'[t]) /\ ~Unroutes(task'[t]) /\ <<>> \in Lists
    <3>1. \A op : ~Emits(<<>>, op)
      BY DEF Emits
    <3> QED
      BY <1>5, <1>6, <3>1, Zenon DEF Carrying, Closes, Unroutes, Lists
  <2>2. Stance(t, task'[t], issued)
    BY <1>2, <1>4, <1>5, <1>6, <2>1, Zenon DEF Stance
  <2>3. Grip(t, task'[t], entry, session, TRUE)
    BY <1>2, <1>5, <1>6, <2>1, Zenon DEF Grip
  <2>4. Making(t, task'[t])
    BY <1>5, <1>6, Zenon DEF Making
  <2>5. InFlight(entry)
    <3>1. \A x \in Nat : x # None
      BY NoneAssumption
    <3>2. t \in Scans \/ t \in Backgrounds
      BY OnlyScans, Zenon
    <3>3. CASE t \in Scans
      BY <1>2, <1>6, <3>3, Zenon DEF Grip
    <3>4. CASE t \in Backgrounds
      <4>1. entry.issue = task[t].fence /\ task[t].fence \in Nat
        BY <1>2, <1>4, <1>6, <3>4, Zenon DEF Grip, Stance
      <4> QED
        BY <3>1, <4>1, Zenon DEF InFlight
    <3> QED
      BY <3>2, <3>3, <3>4, Zenon
  <2> QED
    BY <1>1, <1>5, <2>2, <2>3, <2>4, <2>5, RouteCalm, Zenon
<1>7. CASE v # "report"
  <2>1. v \notin BusyPcs
    BY <1>7, Zenon DEF BusyPcs
  <2>2. Stance(t, task'[t], issued)
    BY <1>2, <1>4, <1>5, <2>1, FreeStance, Zenon DEF Stance
  <2>3. Grip(t, task'[t], entry, session, TRUE)
    BY <1>5, <2>1, FreeGrip, Zenon
  <2>4. CASE task[t].pc = "remap"
    <3>1. Renderable(State(entry))
      BY <1>2, <2>4, Zenon DEF Grip
    <3> QED
      BY <1>1, <1>5, <2>2, <2>3, <3>1, RouteCalm, Zenon
  <2>5. CASE t \in Scans /\ task[t].pc = "resync"
    <3>1. Renderable(State(entry)) \/ InFlight(entry) \/ ~Wanted
      BY <1>2, <2>5, Zenon DEF Grip
    <3>2. ~(Making(t, task[t]) \/ task[t].pc = "teardown" \/ Closes(task[t]))
      <4>1. \A op : ~Emits(<<>>, op)
        BY DEF Emits
      <4> QED
        BY <1>4, <2>5, <4>1, Zenon DEF Making, Carrying, Closes
    <3> QED
      BY <1>1, <1>5, <2>2, <2>3, <3>1, <3>2, RouteCalm, Zenon
  <2> QED
    BY <1>3, <1>7, <2>4, <2>5, Zenon
<1> QED
  BY <1>3, <1>6, <1>7, Zenon

-----------------------------------------------------------------------------
\* While a task is in the lane, no other relies on the manager's entry: a fresh mark
\* is no fenced connect's.
LEMMA LaneGrip ==
  ASSUME Undisturbed, ExInv, WorkInv, CalmInv, NEW t \in Tasks, InLane(t),
         NEW u \in Tasks, u # t, NEW e, NEW n \in {issued, Stamp},
         e.issue \in {None, entry.issue, Stamp}
  PROVE  Stance(u, task[u], n) /\ Grip(u, task[u], e, session, mapped)
<1>1. Stance(u, task[u], issued) /\ Grip(u, task[u], entry, session, mapped)
  BY Zenon DEF CalmInv
<1>2. issued \in Nat /\ \A x \in Nat : x # None /\ (x <= issued => x <= n /\ x # Stamp)
  BY NoneAssumption DEF WorkInv, Stamp
<1>3. Stance(u, task[u], n)
  <2>1. task[u].fence \in Nat /\ task[u].fence <= issued => task[u].fence <= n
    BY <1>2, Zenon
  <2> QED
    BY <1>1, <2>1, Zenon DEF Stance
<1>4. ~InLane(u) /\ (u \in Scans \/ u \in Backgrounds)
  <2>1. t \in Scans \cup Backgrounds /\ u \in Scans \cup Backgrounds
    BY OnlyScans, Zenon
  <2>2. (lane = t <=> InLane(t)) /\ (lane = u <=> InLane(u))
    BY <2>1, Zenon DEF ExInv, LaneIsHeld
  <2> QED
    BY <2>1, <2>2, Zenon
<1>5. CASE u \in Scans
  <2>1. task[u].pc = "idle" /\ u \notin Backgrounds
    BY <1>4, <1>5, TaskKinds, Zenon DEF InLane, At
  <2>2. task[u].acts = <<>> /\ task[u].pc \notin BusyPcs
    BY <1>1, <2>1, Zenon DEF Stance, BusyPcs
  <2> QED
    BY <1>3, <2>2, FreeGrip, Zenon
<1>6. CASE u \in Backgrounds
  <2>1. u \notin Scans
    BY <1>6, TaskKinds, Zenon
  <2>2. /\ task[u].outcome = "ok" /\ ~Closes(task[u]) /\ ~Unroutes(task[u])
        /\ task[u].pc = "idle" \/ (task[u].fence \in Nat /\ task[u].fence <= issued)
    BY <1>1, <1>6, Zenon DEF Stance
  <2>3. task[u].pc = "idle" \/ task[u].fence # None
    BY <1>2, <2>2, Zenon
  <2>4. task[u].pc \notin {"teardown", "install", "report", "remap"}
    BY <1>4, <1>6, <2>2, <2>3, Zenon DEF InLane
  <2>5. task[u].pc = "fence" /\ task[u].fence = e.issue => session
    <3>1. task[u].pc = "fence" => task[u].fence # None /\ task[u].fence # Stamp
      BY <1>2, <2>2, Zenon
    <3>2. task[u].pc = "fence" /\ task[u].fence = entry.issue => session
      BY <1>1, <1>6, Zenon DEF Grip
    <3> QED
      BY <3>1, <3>2, Zenon
  <2> QED
    BY <1>3, <2>1, <2>2, <2>4, <2>5, Zenon DEF Grip
<1> QED
  BY <1>4, <1>5, <1>6, Zenon

\* A call of the manager in the lane.
LEMMA CallCalm ==
  ASSUME Undisturbed, ExInv, WorkInv, CalmInv, WorkInv', NEW t \in Tasks, InLane(t), Only(t),
         NEW result, Call(result), UNCHANGED hardware, live' = TRUE, saved' = None,
         result.entry.issue \in {None, entry.issue, Stamp},
         State(result.entry) \in {"Known", "Connected"},
         Renderable(State(result.entry)) => session /\ mapped,
         Stance(t, task'[t], issued), Grip(t, task'[t], result.entry, session, mapped),
         session /\ ~Renderable(State(result.entry)) =>
           \/ InFlight(result.entry) \/ Closes(task'[t])
           \/ /\ ~Renderable(State(entry))
              /\ ~(Making(t, task[t]) \/ task[t].pc = "teardown" \/ Closes(task[t])),
         mapped /\ ~Renderable(State(result.entry)) =>
           \/ InFlight(result.entry) \/ Unroutes(task'[t])
           \/ ~Renderable(State(entry)) /\ ~InFlight(entry) /\ ~Unroutes(task[t])
  PROVE  CalmInv'
<1>1. /\ entry' = result.entry /\ issued' = IF result.entry.issue = Stamp THEN Stamp ELSE issued
      /\ session' = session /\ mapped' = mapped
  BY Zenon DEF Call, hardware
<1>2. /\ issued \in Nat /\ Stamp = issued + 1 /\ None \notin Nat
  BY NoneAssumption DEF WorkInv, Stamp
<1>3. issued' \in {issued, Stamp} /\ (entry'.issue = Stamp => issued' = Stamp)
  BY <1>1, Zenon
<1>4. InFlight(entry) => entry.issue \in Nat /\ entry.issue <= issued
  BY Zenon DEF WorkInv, Coherent, Entries, InFlight, CalmInv, Calm
<1>5. entry'.issue # None => entry'.issue <= issued'
  <2>1. entry'.issue \in {None, entry.issue, Stamp}
    BY <1>1, Zenon
  <2>2. CASE entry'.issue = Stamp
    BY <1>2, <1>3, <2>2
  <2>3. CASE entry'.issue = entry.issue /\ entry.issue # None
    <3>1. entry.issue \in Nat /\ entry.issue <= issued
      BY <1>4, <2>3, Zenon DEF InFlight
    <3> QED
      BY <1>2, <1>3, <2>3, <3>1
  <2> QED
    BY <2>1, <2>2, <2>3, Zenon
<1>6. Calm(entry', issued', session', mapped')
  <2>1. session \in BOOLEAN /\ mapped \in BOOLEAN
    BY Zenon DEF CalmInv, Calm
  <2> QED
    BY <1>1, <1>5, <2>1, Zenon DEF Calm, InFlight
<1>7. \A u \in Tasks : u # t => /\ Stance(u, task[u], issued')
                                /\ Grip(u, task[u], entry', session', mapped')
  BY <1>1, <1>3, LaneGrip, Zenon
<1>8. Stance(t, task'[t], issued')
  <2>1. \A x \in Nat : x <= issued => x <= issued'
    BY <1>2, <1>3
  <2> QED
    BY <2>1, Zenon DEF Stance
<1>9. Grip(t, task'[t], entry', session', mapped')
  BY <1>1, Zenon
<1>10. session' /\ ~Renderable(State(entry')) =>
         \/ entry'.issue # None \/ Closes(task'[t])
         \/ /\ session /\ ~Renderable(State(entry))
            /\ ~(Making(t, task[t]) \/ task[t].pc = "teardown" \/ Closes(task[t]))
  BY <1>1, Zenon DEF InFlight
<1>11. mapped' /\ ~Renderable(State(entry')) =>
         \/ entry'.issue # None \/ Unroutes(task'[t])
         \/ mapped /\ ~Renderable(State(entry)) /\ ~InFlight(entry) /\ ~Unroutes(task[t])
  BY <1>1, Zenon DEF InFlight
<1> QED
  BY <1>6, <1>7, <1>8, <1>9, <1>10, <1>11, CalmStep, Zenon

\* A connect that is reported is the one in flight, and the manager accepts it: the
\* device is renderable, with its session open and its route in.
LEMMA ReportCalm ==
  ASSUME Undisturbed, ExInv, WorkInv, CalmInv, WorkInv', NEW t \in Tasks, Report(t)
  PROVE  CalmInv'
<1>1. /\ task[t].pc = "report" /\ Call(Reported(t)) /\ UNCHANGED hardware
      /\ live' = TRUE /\ saved' = None
  BY KeptSettings, Zenon DEF Report, At
<1>2. /\ Shape /\ Shaped(task[t]) /\ Local(t) /\ Coherent(entry) /\ entry \in Entries
      /\ Stance(t, task[t], issued) /\ Grip(t, task[t], entry, session, mapped)
      /\ Calm(entry, issued, session, mapped)
  BY Zenon DEF ExInv, Shape, WorkInv, CalmInv, Coherent
<1>3. t \in Scans \/ t \in Backgrounds
  BY OnlyScans, Zenon
<1>4. /\ task[t].acts = <<>> /\ task[t].outcome = "ok" /\ task[t].pairing = FALSE /\ t \notin Timers
      /\ t \in Backgrounds => task[t].fence \in Nat /\ task[t].fence <= issued
  <2>1. task[t].acts = <<>> /\ task[t].outcome = "ok"
    BY <1>1, <1>2, Zenon DEF Stance
  <2>2. task[t].pairing = FALSE /\ t \notin Timers
    BY <1>2, <1>3, TaskKinds, Zenon DEF Local
  <2>3. t \in Backgrounds => task[t].fence \in Nat /\ task[t].fence <= issued
    BY <1>1, <1>2, Zenon DEF Stance
  <2> QED
    BY <2>1, <2>2, <2>3, Zenon
<1>5. \A x \in Nat : x # None
  BY NoneAssumption
<1>6. InFlight(entry) /\ session /\ mapped
  BY <1>1, <1>2, <1>3, <1>4, <1>5, Zenon DEF Grip, InFlight
<1>7. InLane(t)
  BY <1>1, <1>3, <1>4, <1>5, Zenon DEF InLane, At
<1>8. ConnectAccepted(entry) /\ entry.scheduled = FALSE
  <2>1. entry.tracked /\ CanConnect(entry.fsm)
    BY <1>2, <1>6, Zenon DEF Coherent
  <2>2. entry.scheduled => State(entry) = "Reconnecting"
    BY <1>2, Zenon DEF Coherent
  <2>3. entry.scheduled \in BOOLEAN /\ State(entry) # "Reconnecting"
    BY <1>2, Zenon DEF Entries, Calm
  <2> QED
    BY <2>1, <2>2, <2>3, Zenon DEF ConnectAccepted
<1>9. /\ Reported(t) = OnConnected(entry) /\ ReportAccepted(t)
      /\ OnConnected(entry).acts = <<>>
  BY <1>4, <1>8, Zenon DEF Reported, ReportAccepted, OnConnected, CancelIfScheduled, Result
<1>10. OnConnected(entry).entry.issue = None /\ State(OnConnected(entry).entry) = "Connected"
  <2>1. OnConnected(entry).entry = [Idle(entry) EXCEPT !.fsm = Connected(entry.fsm)]
    BY <1>2, <1>8, IdleFields, Zenon DEF OnConnected, Result
  <2>2. Connected(entry.fsm).state = "Connected"
    BY <1>2, ConnectedMachine, Zenon DEF Entries
  <2>3. \A m : [Idle(entry) EXCEPT !.fsm = m].fsm = m
    BY <1>2, Zenon DEF Idle, Entries
  <2> QED
    BY <1>2, <2>1, <2>2, <2>3, MarkCleared, Zenon DEF State
<1> DEFINE r == [task[t] EXCEPT !.acts = <<>>, !.back = "exec", !.pc = "remap"]
<1>11. task' = [task EXCEPT ![t] = r]
  <2>1. task' = [task EXCEPT ![t].acts = @ \o <<>>, ![t].back = "exec", ![t].pc = "remap"]
    BY <1>4, <1>9, Zenon DEF Report
  <2>2. <<>> \o <<>> = <<>>
    OBVIOUS
  <2> QED
    BY <1>2, <1>4, <2>1, <2>2, Zenon DEF Shape, Shaped, Fields
<1>12. /\ Shaped(r) /\ r.pc = "remap" /\ r.acts = <<>> /\ r.outcome = task[t].outcome
       /\ r.fence = task[t].fence
  BY <1>2, Zenon DEF Shaped, Fields
<1> HIDE DEF r
<1>13. Only(t) /\ task'[t] = r
  BY <1>2, <1>11, <1>12, Replaced, Zenon
<1>14. ~Carrying(r) /\ ~Closes(r) /\ ~Unroutes(r) /\ <<>> \in Lists
  <2>1. \A op : ~Emits(<<>>, op)
    BY DEF Emits
  <2> QED
    BY <1>12, <2>1, Zenon DEF Carrying, Closes, Unroutes, Lists
<1>15. Stance(t, r, issued)
  BY <1>4, <1>12, <1>14, Zenon DEF Stance
<1>16. Renderable(State(OnConnected(entry).entry))
  BY <1>10, Zenon DEF Renderable
<1>17. Grip(t, r, OnConnected(entry).entry, session, mapped)
  BY <1>12, <1>14, <1>16, Zenon DEF Grip
<1>18. Call(OnConnected(entry))
  BY <1>1, <1>9, Zenon
<1> QED
  BY <1>1, <1>6, <1>7, <1>10, <1>13, <1>15, <1>16, <1>17, <1>18, CallCalm, Zenon

-----------------------------------------------------------------------------
\* What a scan's call may make of an undisturbed device: a connect of its own, a
\* departure, or nothing.
Verdict(e, r) ==
  \/ /\ State(r.entry) = "Known" /\ r.entry.issue = Stamp
     /\ \E l \in Layouts : r.acts = <<Act("Connect", l)>>
  \/ State(r.entry) = State(e) /\ r.entry.issue = e.issue /\ r.acts = <<>>
  \/ /\ State(r.entry) = "Known" /\ r.entry.issue = None
     /\ \E l \in Layouts : \/ r.acts = <<Act("Disconnect", l), Act("Unmap", l)>>
                           \/ r.acts = <<Act("Unmap", l)>> /\ ~Renderable(State(e))

\* What the lists of a verdict emit.
LEMMA VerdictLists ==
  ASSUME NEW l
  PROVE  /\ Emits(<<Act("Connect", l)>>, "Connect") /\ <<Act("Connect", l)>> # <<>>
         /\ Emits(<<Act("Unmap", l)>>, "Unmap") /\ <<Act("Unmap", l)>> # <<>>
         /\ ~Emits(<<Act("Unmap", l)>>, "Connect")
         /\ Emits(<<Act("Disconnect", l), Act("Unmap", l)>>, "Unmap")
         /\ Emits(<<Act("Disconnect", l), Act("Unmap", l)>>, "Disconnect")
         /\ ~Emits(<<Act("Disconnect", l), Act("Unmap", l)>>, "Connect")
         /\ <<Act("Disconnect", l), Act("Unmap", l)>> # <<>>
  BY DEF Emits, Act

\* Such a call, by a scan that has nothing in hand.
LEMMA VerdictCalm ==
  ASSUME Undisturbed, ExInv, WorkInv, CalmInv, WorkInv', NEW t \in Scans, NEW v, NEW result,
         CallThen(t, result, v), Verdict(entry, result), UNCHANGED hardware, UNCHANGED settings,
         task[t].pc \in {"observe", "discover", "stale"},
         v \in {"refresh", "stale", "dispatch", "exec"},
         result.acts # <<>> => v \in {"dispatch", "exec"},
         Wanted /\ v = "refresh" => Renderable(State(entry)) \/ InFlight(entry)
  PROVE  CalmInv'
<1>1. /\ t \in Tasks /\ t \notin Backgrounds /\ Shape /\ Call(result)
      /\ live' = TRUE /\ saved' = None
  BY TaskKinds, KeptSettings, Zenon DEF ExInv, CallThen
<1>2. /\ Stance(t, task[t], issued) /\ Calm(entry, issued, session, mapped)
  BY <1>1, Zenon DEF CalmInv
<1>3. InLane(t)
  <2>1. task[t].pc # "idle"
    BY Zenon
  <2> QED
    BY <2>1, Zenon DEF InLane, At
<1>4. /\ Only(t) /\ task'[t].pc = v /\ task'[t].acts = result.acts
      /\ task'[t].outcome = task[t].outcome
  <2>1. Goes(t, v, result.acts)
    BY <1>1, CallGoes, Zenon
  <2> QED
    BY <2>1, Zenon DEF Goes, Moves, Advanced
<1>5. task[t].acts = <<>> /\ \A op : ~Emits(<<>>, op)
  <2>1. \A op : ~Emits(<<>>, op)
    BY DEF Emits
  <2> QED
    BY <1>2, <2>1, Zenon DEF Stance
<1>6. ~(Making(t, task[t]) \/ task[t].pc = "teardown" \/ Closes(task[t])) /\ ~Unroutes(task[t])
  <2>1. t \notin Timers
    BY OnlyScans, Zenon
  <2>2. task[t].pc \notin {"dial", "fence", "install", "report"}
        /\ task[t].pc # "teardown" /\ task[t].pc # "close"
    BY Zenon
  <2> QED
    BY <1>5, <2>1, <2>2, Zenon DEF Making, Carrying, Closes, Unroutes
<1>7. /\ v \notin {"redisable", "adapt", "discover", "dial", "install", "report", "fence"}
      /\ v # "teardown" /\ v # "remap" /\ v # "close"
  BY Zenon
<1>8. Stamp \in Nat /\ Stamp # None
  BY NoneAssumption DEF WorkInv, Stamp
<1>9. ASSUME result.acts \in Lists,
              Carrying(task'[t]) => InFlight(result.entry),
              Closes(task'[t]) \/ Unroutes(task'[t]) =>
                ~InFlight(result.entry) /\ ~Renderable(State(result.entry)),
              v = "refresh" /\ Wanted => Renderable(State(result.entry)) \/ InFlight(result.entry)
       PROVE  Stance(t, task'[t], issued) /\ Grip(t, task'[t], result.entry, session, mapped)
  <2>1. task'[t].acts # <<>> => v \in {"dispatch", "exec", "close"}
    BY <1>4, Zenon
  <2>2. Stance(t, task'[t], issued)
    BY <1>1, <1>2, <1>4, <1>7, <1>9, <2>1, Zenon DEF Stance
  <2>3. v \notin {"dial", "install", "report"} /\ v \notin {"install", "report"}
        /\ v \notin {"fence", "install", "report"} /\ v # "report" /\ v # "resync"
    BY <1>7, Zenon
  <2>4. Grip(t, task'[t], result.entry, session, mapped)
    BY <1>1, <1>4, <1>7, <1>9, <2>3, Zenon DEF Grip
  <2> QED
    BY <2>2, <2>4, Zenon
<1>10. CASE /\ State(result.entry) = "Known" /\ result.entry.issue = Stamp
            /\ \E l \in Layouts : result.acts = <<Act("Connect", l)>>
  <2>1. result.acts \in Lists
    BY <1>10, Zenon DEF Lists
  <2>2. Emits(result.acts, "Connect") /\ result.acts # <<>>
    <3>1. PICK l \in Layouts : result.acts = <<Act("Connect", l)>>
      BY <1>10, Zenon
    <3> QED
      BY <3>1, VerdictLists, Zenon
  <2>3. ~Closes(task'[t]) /\ ~Unroutes(task'[t])
    BY <1>4, <1>7, <2>1, <2>2, ListFacts, Zenon DEF Closes, Unroutes
  <2>4. InFlight(result.entry) /\ ~Renderable(State(result.entry)) /\ v # "refresh"
    BY <1>8, <1>10, <2>2, Zenon DEF InFlight, Renderable
  <2>5. Stance(t, task'[t], issued) /\ Grip(t, task'[t], result.entry, session, mapped)
    BY <1>9, <2>1, <2>3, <2>4, Zenon
  <2>6. /\ result.entry.issue \in {None, entry.issue, Stamp}
        /\ State(result.entry) \in {"Known", "Connected"}
    BY <1>10, Zenon
  <2> QED
    BY <1>1, <1>3, <1>4, <2>4, <2>5, <2>6, CallCalm, Zenon
<1>11. CASE State(result.entry) = State(entry) /\ result.entry.issue = entry.issue /\ result.acts = <<>>
  <2>1. result.acts \in Lists
    BY <1>11, Zenon DEF Lists
  <2>2. ~Carrying(task'[t]) /\ ~Closes(task'[t]) /\ ~Unroutes(task'[t])
    BY <1>4, <1>5, <1>7, <1>11, Zenon DEF Carrying, Closes, Unroutes
  <2>3. InFlight(result.entry) <=> InFlight(entry)
    BY <1>11, Zenon DEF InFlight
  <2>4. Stance(t, task'[t], issued) /\ Grip(t, task'[t], result.entry, session, mapped)
    BY <1>9, <1>11, <2>1, <2>2, <2>3, Zenon
  <2>5. /\ result.entry.issue \in {None, entry.issue, Stamp}
        /\ State(result.entry) \in {"Known", "Connected"}
        /\ Renderable(State(result.entry)) => session /\ mapped
    BY <1>2, <1>11, Zenon DEF Calm
  <2>6. /\ ~Renderable(State(result.entry)) => ~Renderable(State(entry))
        /\ InFlight(result.entry) \/ ~InFlight(entry)
    BY <1>11, <2>3, Zenon
  <2> QED
    BY <1>1, <1>3, <1>4, <1>6, <2>4, <2>5, <2>6, CallCalm, Zenon
<1>12. ASSUME State(result.entry) = "Known", result.entry.issue = None, NEW l \in Layouts,
              \/ result.acts = <<Act("Disconnect", l), Act("Unmap", l)>>
              \/ result.acts = <<Act("Unmap", l)>> /\ ~Renderable(State(entry))
       PROVE  CalmInv'
  <2>1. result.acts \in Lists
    BY <1>12, Zenon DEF Lists
  <2>2. /\ Emits(result.acts, "Unmap") /\ ~Emits(result.acts, "Connect") /\ result.acts # <<>>
        /\ Emits(result.acts, "Disconnect") \/ ~Renderable(State(entry))
    <3>1. CASE result.acts = <<Act("Disconnect", l), Act("Unmap", l)>>
      BY <3>1, VerdictLists, Zenon
    <3>2. CASE result.acts = <<Act("Unmap", l)>> /\ ~Renderable(State(entry))
      BY <3>2, VerdictLists, Zenon
    <3> QED
      BY <1>12, <3>1, <3>2, Zenon
  <2>3. /\ ~Carrying(task'[t]) /\ Unroutes(task'[t])
        /\ Closes(task'[t]) \/ ~Renderable(State(entry))
    BY <1>4, <2>2, Zenon DEF Carrying, Unroutes, Closes
  <2>4. ~InFlight(result.entry) /\ ~Renderable(State(result.entry)) /\ v # "refresh"
    BY <1>12, <2>2, Zenon DEF InFlight, Renderable
  <2>5. Stance(t, task'[t], issued) /\ Grip(t, task'[t], result.entry, session, mapped)
    BY <1>9, <2>1, <2>3, <2>4, Zenon
  <2>6. /\ result.entry.issue \in {None, entry.issue, Stamp}
        /\ State(result.entry) \in {"Known", "Connected"}
    BY <1>12, Zenon
  <2> QED
    BY <1>1, <1>3, <1>4, <1>6, <2>3, <2>4, <2>5, <2>6, CallCalm, Zenon
<1>13. CASE /\ State(result.entry) = "Known" /\ result.entry.issue = None
            /\ \E l \in Layouts : \/ result.acts = <<Act("Disconnect", l), Act("Unmap", l)>>
                                  \/ result.acts = <<Act("Unmap", l)>> /\ ~Renderable(State(entry))
  BY <1>12, <1>13, Zenon
<1> QED
  BY <1>10, <1>11, <1>13, Zenon DEF Verdict

\* Lists joined to an empty one.
LEMMA Joined ==
  ASSUME NEW x \in Acts, NEW y \in Acts
  PROVE  /\ <<>> \o <<x>> = <<x>> /\ <<>> \o <<x, y>> = <<x, y>>
         /\ <<x>> \o <<>> = <<x>> /\ <<x>> \o <<y>> = <<x, y>> /\ <<x, y>> \o <<>> = <<x, y>>
<1> DEFINE a == <<x>> \o <<y>>
<1>1. a \in Seq(Acts) /\ Len(a) = 2 /\ a[1] = x /\ a[2] = y
  OBVIOUS
<1> HIDE DEF a
<1>2. a = <<x, y>>
  BY <1>1
<1>3. <<>> \o <<x>> = <<x>> /\ <<>> \o <<x, y>> = <<x, y>>
  OBVIOUS
<1>4. <<x>> \o <<>> = <<x>> /\ <<x, y>> \o <<>> = <<x, y>>
  OBVIOUS
<1> QED
  BY <1>2, <1>3, <1>4, Zenon DEF a

\* The lists of one device.
LEMMA OwnActs ==
  ASSUME NEW l \in Layouts
  PROVE  Act("Connect", l) \in Acts /\ Act("Disconnect", l) \in Acts /\ Act("Unmap", l) \in Acts
  BY DEF Act, Acts, Ops

\* Setting the mark, or the machine, of an entry.
LEMMA EntryEdits ==
  ASSUME NEW f \in Entries, NEW x
  PROVE  /\ [f EXCEPT !.issue = x].fsm = f.fsm /\ [f EXCEPT !.issue = x].issue = x
         /\ [f EXCEPT !.fsm = x].fsm = x /\ [f EXCEPT !.fsm = x].issue = f.issue
  BY Zenon DEF Entries

\* An undisturbed device waits for no retry.
LEMMA NoRetry ==
  ASSUME WorkInv, CalmInv
  PROVE  /\ entry \in Entries /\ entry.fsm \in Machines /\ entry.layout \in Layouts
         /\ State(entry) \in {"Known", "Connected"} /\ CancelIfScheduled(entry) = <<>>
         /\ Renderable(State(entry)) => entry.issue = None
         /\ ~Renderable(State(entry)) => State(entry) = "Known" /\ CanConnect(entry.fsm)
<1>1. /\ entry \in Entries /\ State(entry) \in {"Known", "Connected"}
      /\ InFlight(entry) => CanConnect(entry.fsm)
      /\ entry.scheduled => State(entry) = "Reconnecting"
  BY Zenon DEF WorkInv, Coherent, CalmInv, Calm
<1>2. entry.fsm \in Machines /\ entry.layout \in Layouts
  BY <1>1, Zenon DEF Entries
<1>3. ~entry.scheduled
  BY <1>1, Zenon
<1>4. CancelIfScheduled(entry) = <<>>
  BY <1>3, Zenon DEF CancelIfScheduled
<1>5. CanConnect(entry.fsm) => ~Renderable(State(entry))
  BY Zenon DEF CanConnect, Renderable, State
<1>6. ~Renderable(State(entry)) => State(entry) = "Known" /\ CanConnect(entry.fsm)
  BY <1>1, Zenon DEF CanConnect, Renderable, State
<1> QED
  BY <1>1, <1>2, <1>4, <1>5, <1>6, Zenon DEF InFlight

\* on_discovered_with_behavior.
LEMMA DiscoveredVerdict ==
  ASSUME WorkInv, CalmInv, NEW auto
  PROVE  /\ Verdict(entry, OnDiscovered(entry, auto, TheLayout, Stamp))
         /\ auto /\ OnDiscovered(entry, auto, TheLayout, Stamp).acts = <<>> =>
              Renderable(State(entry)) \/ InFlight(entry)
<1> DEFINE l == TheLayout
<1>1. l \in Layouts /\ Act("Connect", l) \in Acts /\ Act("Disconnect", l) \in Acts /\ Act("Unmap", l) \in Acts
  BY LayoutIsOne, OwnActs, Zenon
<1>2. /\ entry \in Entries /\ entry.fsm \in Machines
      /\ State(entry) \in {"Known", "Connected"} /\ CancelIfScheduled(entry) = <<>>
      /\ Renderable(State(entry)) => entry.issue = None
      /\ ~Renderable(State(entry)) => State(entry) = "Known" /\ CanConnect(entry.fsm)
  BY NoRetry, Zenon
<1>3. ASSUME NEW b \in BOOLEAN
      PROVE  /\ Refreshed(entry, b, l) \in Entries /\ Refreshed(entry, b, l).fsm = entry.fsm
             /\ Refreshed(entry, b, l).issue = entry.issue /\ Refreshed(entry, b, l).layout = l
  <2>1. entry \in Entries /\ l \in Layouts
    BY <1>1, <1>2, Zenon
  <2> HIDE DEF l
  <2> QED
    BY <2>1, Zenon DEF Refreshed, Entries
<1>4. ASSUME NEW f \in Entries, NEW x
      PROVE  /\ [f EXCEPT !.issue = x].fsm = f.fsm /\ [f EXCEPT !.issue = x].issue = x
             /\ [f EXCEPT !.fsm = x].fsm = x /\ [f EXCEPT !.fsm = x].issue = f.issue
  BY EntryEdits, Zenon
<1>5. CASE auto
  <2> DEFINE r == Refreshed(entry, TRUE, l)
             f == [r EXCEPT !.issue = Stamp]
  <2>1. OnDiscovered(entry, auto, l, Stamp) = DiscoveredAuto(entry, l, Stamp)
    BY <1>5, Zenon DEF OnDiscovered
  <2>2. r \in Entries /\ r.fsm = entry.fsm /\ r.issue = entry.issue /\ r.layout = l
    BY <1>3, Zenon
  <2>3. CASE CanConnect(entry.fsm) /\ ~InFlight(entry)
    <3>1. DiscoveredAuto(entry, l, Stamp) = Result(f, <<>> \o <<Connect(r)>>)
      BY <1>2, <2>3, Zenon DEF DiscoveredAuto
    <3>2. f.fsm = entry.fsm /\ f.issue = Stamp
      BY <1>4, <2>2, Zenon
    <3>3. <<>> \o <<Connect(r)>> = <<Act("Connect", l)>>
      BY <1>1, <2>2, Joined, Zenon DEF Connect
    <3>4. State(entry) = "Known"
      BY <1>2, <2>3, Zenon DEF CanConnect, Renderable, State
    <3> HIDE DEF f, r
    <3>5. /\ Result(f, <<Act("Connect", l)>>).entry = f
          /\ Result(f, <<Act("Connect", l)>>).acts = <<Act("Connect", l)>>
      BY Zenon DEF Result
    <3>6. <<Act("Connect", l)>> # <<>>
      BY VerdictLists, Zenon
    <3> QED
      BY <1>1, <2>1, <3>1, <3>2, <3>3, <3>4, <3>5, <3>6, Zenon DEF Verdict, State
  <2>4. CASE ~(CanConnect(entry.fsm) /\ ~InFlight(entry))
    <3>1. DiscoveredAuto(entry, l, Stamp) = Result(r, <<>>)
      BY <1>2, <2>4, Zenon DEF DiscoveredAuto
    <3>2. Renderable(State(entry)) \/ InFlight(entry)
      BY <1>2, <2>4, Zenon
    <3> HIDE DEF r
    <3>3. Result(r, <<>>).entry = r /\ Result(r, <<>>).acts = <<>>
      BY Zenon DEF Result
    <3> QED
      BY <2>1, <2>2, <3>1, <3>2, <3>3, Zenon DEF Verdict, State
  <2> QED
    BY <2>3, <2>4, Zenon
<1>6. CASE ~auto
  <2> DEFINE r == Refreshed(entry, FALSE, l)
             f == [r EXCEPT !.fsm = HotUnplugged(entry.fsm)]
  <2>1. OnDiscovered(entry, auto, l, Stamp) = DiscoveredDeferred(entry, l)
    BY <1>6, Zenon DEF OnDiscovered
  <2>2. r \in Entries /\ r.fsm = entry.fsm /\ r.issue = entry.issue /\ r.layout = l
    BY <1>3, Zenon
  <2>3. State(entry) # "Reconnecting"
    BY <1>2, Zenon
  <2>4. CASE Renderable(State(entry))
    <3>1. DiscoveredDeferred(entry, l) = Result(f, <<>> \o <<Disconnect(r), Unmap(r)>>)
      BY <1>2, <2>2, <2>3, <2>4, Zenon DEF DiscoveredDeferred
    <3>2. f.fsm = HotUnplugged(entry.fsm) /\ f.issue = None
      BY <1>2, <1>4, <2>2, <2>4, Zenon
    <3>3. HotUnplugged(entry.fsm).state = "Known"
      BY <1>2, ResetMachine, Zenon DEF HotUnplugged, States
    <3>4. <<>> \o <<Disconnect(r), Unmap(r)>> = <<Act("Disconnect", l), Act("Unmap", l)>>
      BY <1>1, <2>2, Joined, Zenon DEF Disconnect, Unmap
    <3> HIDE DEF f, r
    <3>5. /\ Result(f, <<Act("Disconnect", l), Act("Unmap", l)>>).entry = f
          /\ Result(f, <<Act("Disconnect", l), Act("Unmap", l)>>).acts =
               <<Act("Disconnect", l), Act("Unmap", l)>>
      BY Zenon DEF Result
    <3> QED
      BY <1>1, <1>6, <2>1, <3>1, <3>2, <3>3, <3>4, <3>5, Zenon DEF Verdict, State
  <2>5. CASE ~Renderable(State(entry))
    <3>1. DiscoveredDeferred(entry, l) = Result(r, <<>>)
      BY <1>2, <2>3, <2>5, Zenon DEF DiscoveredDeferred
    <3> HIDE DEF r
    <3>2. Result(r, <<>>).entry = r /\ Result(r, <<>>).acts = <<>>
      BY Zenon DEF Result
    <3> QED
      BY <1>6, <2>1, <2>2, <3>1, <3>2, Zenon DEF Verdict, State
  <2> QED
    BY <2>4, <2>5, Zenon
<1> QED
  BY <1>5, <1>6, Zenon

\* on_device_vanished.
LEMMA VanishedVerdict ==
  ASSUME WorkInv, CalmInv, entry.tracked
  PROVE  Verdict(entry, OnDeviceVanished(entry)) /\ OnDeviceVanished(entry).acts # <<>>
<1> DEFINE l == entry.layout
           f == [Idle(entry) EXCEPT !.fsm = HotUnplugged(entry.fsm)]
           a == DisconnectIfRenderable(entry) \o <<Unmap(entry)>> \o CancelIfScheduled(entry)
<1>1. /\ entry \in Entries /\ entry.fsm \in Machines /\ l \in Layouts
      /\ CancelIfScheduled(entry) = <<>>
  BY NoRetry, Zenon
<1>2. OnDeviceVanished(entry) = Result(f, a)
  <2>1. Idle(entry).fsm = entry.fsm
    BY <1>1, IdleFields, Zenon
  <2> QED
    BY <2>1, Zenon DEF OnDeviceVanished
<1>3. f.issue = None /\ f.fsm = HotUnplugged(entry.fsm)
  <2>1. Idle(entry) \in Entries /\ Idle(entry).issue = None
    BY <1>1, IdleFields, Zenon
  <2> DEFINE g == Idle(entry)
             m == HotUnplugged(entry.fsm)
  <2>2. g \in Entries /\ g.issue = None
    BY <2>1, Zenon
  <2> HIDE DEF g, m
  <2>3. [g EXCEPT !.fsm = m].issue = None /\ [g EXCEPT !.fsm = m].fsm = m
    BY <2>2, Zenon DEF Entries
  <2> QED
    BY <2>3, Zenon DEF g, m
<1>4. HotUnplugged(entry.fsm).state = "Known"
  BY <1>1, ResetMachine, Zenon DEF HotUnplugged, States
<1>5. /\ Act("Disconnect", l) \in Acts /\ Act("Unmap", l) \in Acts /\ Unmap(entry) = Act("Unmap", l)
      /\ Disconnect(entry) = Act("Disconnect", l)
  BY <1>1, OwnActs, Zenon DEF Unmap, Disconnect
<1>6. CASE Renderable(State(entry))
  <2>1. a = <<Act("Disconnect", l), Act("Unmap", l)>>
    BY <1>1, <1>5, <1>6, Joined, Zenon DEF DisconnectIfRenderable
  <2> HIDE DEF f, a
  <2>2. Result(f, a).entry = f /\ Result(f, a).acts = a
    BY Zenon DEF Result
  <2>3. a # <<>>
    BY <2>1, VerdictLists, Zenon
  <2> QED
    BY <1>1, <1>2, <1>3, <1>4, <2>1, <2>2, <2>3, Zenon DEF Verdict, State
<1>7. CASE ~Renderable(State(entry))
  <2>1. a = <<Act("Unmap", l)>>
    BY <1>1, <1>5, <1>7, Joined, Zenon DEF DisconnectIfRenderable
  <2> HIDE DEF f, a
  <2>2. Result(f, a).entry = f /\ Result(f, a).acts = a
    BY Zenon DEF Result
  <2>3. a # <<>>
    BY <2>1, VerdictLists, Zenon
  <2> QED
    BY <1>1, <1>2, <1>3, <1>4, <1>7, <2>1, <2>2, <2>3, Zenon DEF Verdict, State
<1> QED
  BY <1>6, <1>7, Zenon

\* The calls of a scan.
LEMMA ScanCallCalm ==
  ASSUME Undisturbed, ExInv, WorkInv, CalmInv, WorkInv', NEW t \in Scans,
         ScanDiscovers(t) \/ ScanRedisables(t) \/ ScanRetriesStale(t) \/ ScanRetires(t)
  PROVE  CalmInv'
<1>1. t \in Tasks /\ Shape /\ UNCHANGED hardware /\ UNCHANGED settings
  BY TaskKinds, Zenon DEF ExInv, ScanDiscovers, ScanRedisables, ScanRetriesStale, ScanRetires
<1>2. Stance(t, task[t], issued)
  BY <1>1, Zenon DEF CalmInv
<1>3. CASE ScanDiscovers(t)
  <2> DEFINE result == OnDiscovered(entry, task[t].auto, TheLayout, Stamp)
  <2>1. task[t].pc = "discover" /\ task[t].on = TRUE /\ (Wanted => task[t].auto)
    BY <1>2, <1>3, Zenon DEF ScanDiscovers, At, Stance
  <2>2. PICK v \in {"refresh", "stale", "dispatch"} :
          /\ CallThen(t, result, v)
          /\ v \in {"refresh", "stale"} => result.acts = <<>>
    BY <1>3, <2>1, Zenon DEF ScanDiscovers
  <2>3. /\ Verdict(entry, result)
        /\ task[t].auto /\ result.acts = <<>> => Renderable(State(entry)) \/ InFlight(entry)
    BY DiscoveredVerdict, Zenon
  <2> HIDE DEF result
  <2>4. /\ task[t].pc \in {"observe", "discover", "stale"}
        /\ v \in {"refresh", "stale", "dispatch", "exec"}
        /\ result.acts # <<>> => v \in {"dispatch", "exec"}
        /\ Wanted /\ v = "refresh" => Renderable(State(entry)) \/ InFlight(entry)
    BY <2>1, <2>2, <2>3, Zenon
  <2> QED
    BY <1>1, <2>2, <2>3, <2>4, VerdictCalm, Zenon
<1>4. CASE ScanRedisables(t)
  BY <1>2, <1>4, Zenon DEF ScanRedisables, At, Stance
<1>5. CASE ScanRetriesStale(t)
  <2>1. task[t].pc = "stale"
    BY <1>5, Zenon DEF ScanRetriesStale, At
  <2>2. CASE CanRetryStale(entry) /\ CallThen(t, RetryStaleKnownConnect(entry, Stamp), "dispatch")
    <3> DEFINE result == RetryStaleKnownConnect(entry, Stamp)
    <3>1. State(entry) = "Known" /\ entry \in Entries /\ entry.layout \in Layouts
      BY <2>2, NoRetry, Zenon DEF CanRetryStale
    <3>2. /\ result.entry = [entry EXCEPT !.issue = Stamp]
          /\ result.acts = <<Act("Connect", entry.layout)>>
      BY Zenon DEF RetryStaleKnownConnect, Result, Connect
    <3>3. CallThen(t, result, "dispatch")
      BY <2>2, Zenon
    <3> HIDE DEF result
    <3>4. result.entry.issue = Stamp /\ State(result.entry) = "Known"
      <4> DEFINE k == Stamp
      <4>1. /\ [entry EXCEPT !.issue = k].issue = k
            /\ [entry EXCEPT !.issue = k].fsm = entry.fsm
        <5> HIDE DEF k
        <5> QED
          BY <3>1, Zenon DEF Entries
      <4> QED
        BY <3>1, <3>2, <4>1, Zenon DEF State
    <3>5. Verdict(entry, result)
      BY <3>1, <3>2, <3>4, Zenon DEF Verdict
    <3>6. /\ task[t].pc \in {"observe", "discover", "stale"}
          /\ "dispatch" \in {"refresh", "stale", "dispatch", "exec"}
          /\ "dispatch" \in {"dispatch", "exec"} /\ "dispatch" # "refresh"
      BY <2>1, Zenon
    <3> QED
      BY <1>1, <3>3, <3>5, <3>6, VerdictCalm, Zenon
  <2>3. CASE Goto(t, "dispatch") /\ UNCHANGED manager
    <3>1. task[t].acts = <<>> /\ task[t].pc # "idle" /\ task[t].pc \notin BusyPcs
      BY <1>2, <2>1, Zenon DEF Stance, BusyPcs
    <3>2. Goes(t, "dispatch", <<>>) /\ "dispatch" \notin BusyPcs
      <4>1. Goes(t, "dispatch", task[t].acts)
        BY <1>1, <2>3, GotoGoes, Zenon
      <4> QED
        BY <3>1, <4>1, Zenon DEF BusyPcs
    <3>3. live' = TRUE /\ saved' = None
      BY <1>1, KeptSettings, Zenon
    <3> QED
      BY <1>1, <2>3, <3>1, <3>2, <3>3, PassCalm, Zenon
  <2> QED
    BY <1>5, <2>2, <2>3, Zenon DEF ScanRetriesStale
<1>6. CASE ScanRetires(t)
  <2>1. task[t].pc = "observe" /\ CallThen(t, OnDeviceVanished(entry), "exec") /\ entry.tracked
    BY <1>6, Zenon DEF ScanRetires, At
  <2>2. Verdict(entry, OnDeviceVanished(entry))
    BY <2>1, VanishedVerdict, Zenon
  <2>3. /\ task[t].pc \in {"observe", "discover", "stale"}
        /\ "exec" \in {"refresh", "stale", "dispatch", "exec"}
        /\ "exec" \in {"dispatch", "exec"} /\ "exec" # "refresh"
    BY <2>1, Zenon
  <2> QED
    BY <1>1, <2>1, <2>2, <2>3, VerdictCalm, Zenon
<1> QED
  BY <1>3, <1>4, <1>5, <1>6, Zenon

\* A scan hands its connect to a task that outlives it.
LEMMA SpawnCalm ==
  ASSUME ExInv, WorkInv, CalmInv, NEW t \in Scans, ScanSpawnsBackground(t)
  PROVE  CalmInv'
<1>1. PICK b \in Backgrounds :
        task' = [task EXCEPT
          ![t].pc = "end", ![t].acts = <<>>,
          ![b] = [IdleTask EXCEPT !.pc = "exec", !.acts = task[t].acts, !.fence = entry.issue]]
  BY Zenon DEF ScanSpawnsBackground
<1>2. /\ Carrying(task[t]) /\ UNCHANGED manager /\ UNCHANGED hardware
      /\ live' = TRUE /\ saved' = None
  BY KeptSettings, Zenon DEF ScanSpawnsBackground, Carrying
<1>3. t \in Tasks /\ b \in Tasks /\ b # t /\ b \notin Scans /\ t \notin Backgrounds
  BY TaskKinds, Zenon
<1>4. Shape /\ Shaped(task[t])
  BY <1>3, Zenon DEF ExInv, Shape
<1>5. /\ Calm(entry, issued, session, mapped) /\ entry \in Entries
      /\ \A u \in Tasks : Stance(u, task[u], issued) /\ Grip(u, task[u], entry, session, mapped)
  BY Zenon DEF CalmInv, WorkInv, Coherent
<1>6. /\ InFlight(entry) /\ entry.issue \in Nat /\ entry.issue <= issued
      /\ task[t].acts \in Lists /\ task[t].outcome = "ok"
      /\ ~Emits(task[t].acts, "Disconnect") /\ ~Emits(task[t].acts, "Unmap")
  <2>1. Stance(t, task[t], issued) /\ Grip(t, task[t], entry, session, mapped)
    BY <1>3, <1>5, Zenon
  <2>2. InFlight(entry) /\ task[t].acts \in Lists /\ task[t].outcome = "ok"
    BY <1>2, <2>1, Zenon DEF Stance, Grip
  <2>3. entry.issue \in Nat
    BY <1>5, <2>2, Zenon DEF Entries, InFlight
  <2>4. ~Emits(task[t].acts, "Disconnect") /\ ~Emits(task[t].acts, "Unmap")
    BY <1>2, <2>2, ListFacts, Zenon DEF Carrying
  <2> QED
    BY <1>5, <2>2, <2>3, <2>4, Zenon DEF Calm
<1> DEFINE r == [task[t] EXCEPT !.pc = "end", !.acts = <<>>]
           s == [IdleTask EXCEPT !.pc = "exec", !.acts = task[t].acts, !.fence = entry.issue]
<1>7. task' = [[task EXCEPT ![t] = r] EXCEPT ![b] = s]
  BY <1>1, <1>3, <1>4, Zenon DEF Shape
<1>8. r.pc = "end" /\ r.acts = <<>> /\ r.outcome = task[t].outcome
  BY <1>4, Zenon DEF Shaped, Fields
<1>9. s.pc = "exec" /\ s.acts = task[t].acts /\ s.fence = entry.issue /\ s.outcome = "ok"
  BY Zenon DEF IdleTask
<1> HIDE DEF r, s
<1>10. /\ task'[t] = r /\ task'[b] = s
       /\ \A u \in Tasks : u # t /\ u # b => task'[u] = task[u]
  BY <1>3, <1>4, <1>7, Zenon DEF Shape
<1>11. Stance(t, r, issued) /\ Grip(t, r, entry, session, mapped)
  <2>1. "end" \notin BusyPcs
    BY Zenon DEF BusyPcs
  <2> QED
    BY <1>3, <1>6, <1>8, <2>1, FreeStance, FreeGrip, Zenon
<1>12. Carrying(s) /\ ~Closes(s) /\ ~Unroutes(s)
  BY <1>2, <1>6, <1>9, Zenon DEF Carrying, Closes, Unroutes
<1>13. Stance(b, s, issued)
  BY <1>6, <1>9, <1>12, Zenon DEF Stance
<1>14. Grip(b, s, entry, session, mapped)
  BY <1>3, <1>9, <1>12, Zenon DEF Grip
<1>15. entry' = entry /\ issued' = issued /\ session' = session /\ mapped' = mapped
  BY <1>2, Zenon DEF manager, hardware
<1>16. \A u \in Tasks : Stance(u, task'[u], issued) /\ Grip(u, task'[u], entry, session, mapped)
  BY <1>5, <1>10, <1>11, <1>13, <1>14, Zenon
<1>17. Making(b, task'[b])
  BY <1>10, <1>12, Zenon DEF Making
<1> QED
  BY <1>2, <1>3, <1>5, <1>6, <1>15, <1>16, <1>17, CalmNow, Zenon DEF InFlight

\* At the start the device is unknown, closed and unrouted, and no task runs.
LEMMA CalmInvInit ==
  ASSUME Init
  PROVE  CalmInv
<1>1. /\ entry = Untracked /\ session = FALSE /\ mapped = FALSE /\ live = TRUE /\ saved = None
      /\ \A t \in Tasks : task[t] = IdleTask
  BY Zenon DEF Init
<1>2. State(entry) = "Known" /\ ~InFlight(entry)
  BY <1>1, Zenon DEF Untracked, NewMachine, State, InFlight
<1>3. Calm(entry, issued, session, mapped)
  BY <1>1, <1>2, Zenon DEF Calm, Renderable
<1>4. /\ IdleTask.acts = <<>> /\ IdleTask.pc = "idle" /\ IdleTask.outcome = "ok"
      /\ "idle" \notin BusyPcs
  BY Zenon DEF IdleTask, BusyPcs
<1>5. \A t \in Tasks : Stance(t, task[t], issued) /\ Grip(t, task[t], entry, session, mapped)
  BY <1>1, <1>4, FreeStance, FreeGrip, Zenon
<1> QED
  BY <1>1, <1>3, <1>5, Zenon DEF CalmInv

\* Every step of a scan and of a connect it started keeps it.
LEMMA CalmInvNext ==
  ASSUME Undisturbed, ExInv, WorkInv, CalmInv, WorkInv', [Next]_vars
  PROVE  CalmInv'
<1>1. CASE \E t \in Tasks : Execute(t)
  <2>1. PICK t \in Tasks : Execute(t)
    BY <1>1, Zenon
  <2>2. ~ExecSpawnReconnect(t) /\ ~ExecCancelReconnect(t)
    <3>1. task[t].acts \in Lists
      BY Zenon DEF CalmInv, Stance
    <3>2. task[t].acts # <<>> => Head(task[t].acts).op \in {"Connect", "Disconnect", "Unmap"}
      BY <3>1, ListFacts, Zenon
    <3> QED
      BY <3>2, Zenon DEF ExecSpawnReconnect, ExecCancelReconnect, NextAct
  <2>3. \/ ExecConnect(t) \/ ExecDone(t) \/ ReadState(t) \/ WriteRegistry(t)
        \/ ExecDisconnect(t) \/ CloseSession(t) \/ ExecUnmap(t) \/ TearDown(t)
        \/ Dial(t) \/ FenceCheck(t) \/ Install(t) \/ Remap(t) \/ Report(t) \/ Ends(t)
    BY <2>1, <2>2, Zenon DEF Execute
  <2> QED
    BY <2>3, ExecCalm, CloseCalm, DialCalm, FenceCalm, PublishCalm, ReportCalm, BlankCalm, Zenon
<1>2. CASE \E t \in Scans : Scan(t)
  <2>1. PICK t \in Scans : Scan(t)
    BY <1>2, Zenon
  <2>2. t \in Tasks
    BY TaskKinds, Zenon
  <2> QED
    BY <2>1, <2>2, BlankCalm, ScanReadCalm, ScanCallCalm, ScanPassCalm, PublishCalm, SpawnCalm, Zenon
       DEF Scan
<1>3. CASE UNCHANGED vars
  <2>1. /\ entry' = entry /\ issued' = issued /\ session' = session /\ mapped' = mapped
        /\ live' = live /\ saved' = saved /\ task' = task
    BY <1>3, Zenon DEF vars, manager, hardware, settings
  <2> QED
    BY <2>1, CalmNow, Zenon DEF CalmInv, InFlight
<1>4. /\ Timers = {} /\ Users = {} /\ Faults = {} /\ Convergers = {} /\ Droppers = {}
      /\ Pairers = {} /\ Pairers \cup Users = {} /\ Cancellable = {}
  BY DEF Undisturbed, Others
<1> QED
  BY <1>1, <1>2, <1>3, <1>4, Zenon DEF Next

\* A flag that says whether a value is in a set, as an equation.
LEMMA SameTruth ==
  ASSUME NEW x \in BOOLEAN, NEW S, NEW y, x <=> y \in S
  PROVE  x = (y \in S)
  BY SMT

\* A task that is not running has nothing in hand.
LEMMA QuietTasks ==
  ASSUME Undisturbed, CalmInv, Quiet, NEW t \in Tasks
  PROVE  /\ ~Making(t, task[t]) /\ task[t].pc # "teardown"
         /\ ~Closes(task[t]) /\ ~Unroutes(task[t])
<1>1. task[t].pc \in {"idle", "sleep"} /\ Stance(t, task[t], issued) /\ t \notin Timers
  BY OnlyScans, Zenon DEF Quiet, CalmInv
<1>2. task[t].acts = <<>>
  BY <1>1, Zenon DEF Stance
<1>3. task[t].pc \notin BusyPcs
  BY <1>1, Zenon DEF BusyPcs
<1>4. ~Unroutes(task[t]) /\ ~Closes(task[t]) /\ ~Carrying(task[t])
  BY <1>2, <1>3, FreeGrip, Zenon
<1> QED
  BY <1>1, <1>4, Zenon DEF Making

-----------------------------------------------------------------------------
\* If only scans and the background connects they start act on a device, none of
\* them is cancelled and every driver connect succeeds, then a fenced connect that
\* passed ConnectFence::check is still the one in flight, and the lifecycle still
\* accepts it, until on_connected is called: for any number of scans and connects,
\* in any order, no scan retires or replaces the device in between, because both
\* hold the target's lane.  The hypotheses are needed: a request, a fault or a timer
\* takes no lane, and the failure of a superseded connect is reported without it
\* and clears the newer mark.
THEOREM FencedConnectAlwaysWanted ==
  ASSUME Timers \cup Others = {}, Cancellable = {}, Outcomes \subseteq {"ok"}
  PROVE  Spec => []FencedConnectStaysWanted
<1>1. Undisturbed
  BY Zenon DEF Undisturbed
<1>2. WorkInv /\ CalmInv => FencedConnectStaysWanted
  <2> SUFFICES ASSUME WorkInv, CalmInv, NEW t \in Backgrounds,
                      task[t].fence # None, task[t].pc \in {"install", "report"}
               PROVE  entry.issue = task[t].fence /\ ConnectAccepted(entry)
    BY Zenon DEF FencedConnectStaysWanted
  <2>1. entry.issue = task[t].fence
    BY TaskKinds, Zenon DEF CalmInv, Grip
  <2>2. entry.tracked /\ CanConnect(entry.fsm)
    BY <2>1, Zenon DEF WorkInv, Coherent, InFlight
  <2> QED
    BY <2>1, <2>2, Zenon DEF ConnectAccepted
<1>3. ExInv /\ WorkInv /\ CalmInv /\ [Next]_vars => ExInv' /\ WorkInv' /\ CalmInv'
  BY <1>1, ExInvNext, WorkInvNext, CalmInvNext, Zenon
<1>4. Init => ExInv /\ WorkInv /\ CalmInv
  BY ExInvInit, WorkInvInit, CalmInvInit, Zenon
<1> QED
  BY <1>2, <1>3, <1>4, PTL DEF Spec

\* Under the same hypotheses (only scans and their connects, no cancellation, every
\* driver connect succeeds), once all of them have finished the driver session is
\* open exactly when the lifecycle calls the device renderable: a session that a late
\* connect opens for a retired device is closed by close_superseded_connect, and one
\* that a newer connect took over is left to it.  The layout may change its mind at
\* will.  A newer connect that fails would leave the session it was given open.
THEOREM QuietSessionAlwaysMatches ==
  ASSUME Timers \cup Others = {}, Cancellable = {}, Outcomes \subseteq {"ok"}
  PROVE  Spec => []QuietSessionMatches
<1>1. Undisturbed
  BY Zenon DEF Undisturbed
<1>2. CalmInv => QuietSessionMatches
  <2> SUFFICES ASSUME CalmInv, Quiet PROVE session = Renderable(State(entry))
    BY Zenon DEF QuietSessionMatches
  <2>1. session => Renderable(State(entry))
    BY <1>1, QuietTasks, Zenon DEF CalmInv
  <2>2. Renderable(State(entry)) => session
    BY Zenon DEF CalmInv, Calm
  <2>3. session \in BOOLEAN
    BY Zenon DEF CalmInv, Calm
  <2> QED
    BY <2>1, <2>2, <2>3, SameTruth, Zenon DEF Renderable
<1>3. ExInv /\ WorkInv /\ CalmInv /\ [Next]_vars => ExInv' /\ WorkInv' /\ CalmInv'
  BY <1>1, ExInvNext, WorkInvNext, CalmInvNext, Zenon
<1>4. Init => ExInv /\ WorkInv /\ CalmInv
  BY ExInvInit, WorkInvInit, CalmInvInit, Zenon
<1> QED
  BY <1>2, <1>3, <1>4, PTL DEF Spec

\* The same for the routes in the backend manager, under the same hypotheses and when
\* the layout keeps targeting the device: no scan that reads a stale registry puts a route back, and a retired
\* device's route is dropped.  (With a layout that changes its mind a scan can
\* refresh the mappings of a device whose session is about to be torn down.)
THEOREM QuietRoutingAlwaysMatches ==
  ASSUME Timers \cup Others = {}, Cancellable = {}, Outcomes \subseteq {"ok"}, FALSE \notin Targeting
  PROVE  Spec => []QuietRoutingMatches
<1>1. Undisturbed /\ Wanted
  BY Zenon DEF Undisturbed, Wanted
<1>2. WorkInv /\ CalmInv => QuietRoutingMatches
  <2> SUFFICES ASSUME WorkInv, CalmInv, Quiet PROVE mapped = Renderable(State(entry))
    BY Zenon DEF QuietRoutingMatches
  <2>1. \A t \in Tasks : ~Making(t, task[t]) /\ ~Unroutes(task[t])
    BY <1>1, QuietTasks, Zenon
  <2>2. ~InFlight(entry)
    BY <1>1, <2>1, OnlyScans, Zenon DEF WorkInv, Owner
  <2>3. mapped => Renderable(State(entry))
    BY <1>1, <2>1, <2>2, Zenon DEF CalmInv
  <2>4. Renderable(State(entry)) => mapped
    BY Zenon DEF CalmInv, Calm
  <2>5. mapped \in BOOLEAN
    BY Zenon DEF CalmInv, Calm
  <2> QED
    BY <2>3, <2>4, <2>5, SameTruth, Zenon DEF Renderable
<1>3. ExInv /\ WorkInv /\ CalmInv /\ [Next]_vars => ExInv' /\ WorkInv' /\ CalmInv'
  BY <1>1, ExInvNext, WorkInvNext, CalmInvNext, Zenon
<1>4. Init => ExInv /\ WorkInv /\ CalmInv
  BY ExInvInit, WorkInvInit, CalmInvInit, Zenon
<1> QED
  BY <1>2, <1>3, <1>4, PTL DEF Spec
==============================================================================
