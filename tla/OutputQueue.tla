----------------------------- MODULE OutputQueue -----------------------------
(***************************************************************************)
(* One device's latest-frame output queue                                  *)
(* (crates/hypercolor-core/src/device/output_queue.rs), from the render    *)
(* loop that pushes colours to the lane that writes them.                  *)
(*                                                                         *)
(* The parties, each a thread or task of its own:                          *)
(*   render loop  push, routed reuse, recovery of a dead worker            *)
(*   worker       takes the latest frame, submits it, replays it           *)
(*   lane         settles every frame once and reports to the metrics,     *)
(*                before submit returns (inline) or later (mailbox)        *)
(*   lifecycle    collects a failure ticket and claims it later            *)
(*                                                                         *)
(* Colours are model values and a frame is its colours and delivery id.    *)
(* Deadlines are flags (armed or not), counters that nothing branches on   *)
(* (latencies, bytes, coalesced frames) are left out, and so is the wrap   *)
(* of the 64-bit sequence.  The lane stands for the drivers' sessions: its *)
(* outcomes are those they report.  The driver that asks for redundant     *)
(* copies (driver-pixel) never skips or declines, and the one that settles *)
(* after submit returned (driver-lifx) never declines or defers.           *)
(***************************************************************************)
EXTENDS Integers, FiniteSets, FiniteSetsExt

CONSTANTS
  Colors,
  Policies,     \* the output policies and kinds of lane to consider
  Threshold,    \* TRANSIENT_WRITE_FAILURE_RECONNECT_THRESHOLD
  None,         \* Option::None
  MaxSeq,       \* bound on delivery sequences
  MaxGen        \* bound on queue generations

AllPolicies ==
  [inline : BOOLEAN, paced : BOOLEAN, replays : BOOLEAN, copies : Nat \ {0}]

ASSUME QueueAssumption ==
  /\ Policies \subseteq AllPolicies
  /\ Threshold \in Nat /\ MaxSeq \in Nat /\ MaxGen \in Nat \ {0}
  /\ None \notin Colors

VARIABLES
  policy,       \* the queue's policy and its lane's kind
  live,         \* the queue exists: its failure fence is active
  slot,         \* the watch channel: the latest payload [color, seq], or None
  unseen,       \* the worker has not seen the slot's last change
  seq,          \* DeliverySequence::next_sequence
  owed,         \* identical_sends_owed
  call,         \* the render loop's push: [pc, color, fresh, dead]
  gen,          \* active_generation
  metrics,      \* the sequences and the failure the receipts leave behind
  worker,       \* the io_task: [pc, frame, result, armed]
  lane,         \* [open, mail, wire, shown]
  ticket,       \* the AsyncWriteFailure the lifecycle task holds, or None
  seen          \* history: what an observer of the device knows

vars == <<policy, live, slot, unseen, seq, owed, call, gen, metrics, worker, lane, ticket, seen>>

Outcomes == {"written", "declined", "unchanged", "deferred", "superseded", "failed", "transient"}
Failures == {"failed", "transient"}

NewMetrics ==
  [handled |-> 0, error |-> 0, undelivered |-> 0, streak |-> 0, retained |-> None]
NewWorker == [pc |-> "wait", frame |-> None, result |-> None, armed |-> FALSE]
NoCall == [pc |-> "idle", color |-> None, fresh |-> FALSE, dead |-> FALSE]

\* What the observer starts over with in every generation.
Afresh(s) == [s EXCEPT !.run = 0, !.written = 0, !.failed = 0, !.base = 0, !.copies = 0]

\* run: failures since the last completed delivery; written and failed: the
\* last delivery to complete and to fail; claimed: the failures acknowledged;
\* latest: the colours last pushed; base and copies: the sequence that brought
\* them and their deliveries since; late: some push met a closed lane.
NewSeen == [run |-> 0, written |-> 0, failed |-> 0, base |-> 0, copies |-> 0,
            claimed |-> {}, latest |-> None, late |-> FALSE]

Init ==
  /\ policy \in Policies
  /\ live = TRUE
  /\ slot = None /\ unseen = FALSE /\ seq = 0 /\ owed = 0
  /\ call = NoCall
  /\ gen = 1
  /\ metrics = NewMetrics
  /\ worker = NewWorker
  /\ lane = [open |-> TRUE, mail |-> None, wire |-> None, shown |-> None]
  /\ ticket = None
  /\ seen = NewSeen

-----------------------------------------------------------------------------
(* OutputQueueMetrics: the state the receipts leave, one operator per      *)
(* record_... method.                                                      *)

LastTerminal(m) == Max({m.handled, m.error, m.undelivered})

EndedUndelivered(m, s) == \E t \in {m.error, m.undelivered} : s = t /\ t > m.handled

\* payload_delivered
Delivered(m, s) == s = m.handled /\ m.handled >= m.error

\* The retained failure once a delivery of sequence s is handled.
RetainedAfter(m, s) ==
  IF m.retained # None /\ m.retained.seq <= s THEN None ELSE m.retained

WriteSuccess(m, s) ==
  [m EXCEPT !.handled = s, !.streak = 0, !.retained = RetainedAfter(m, s)]

WriteSuppressed(m, s) == [m EXCEPT !.handled = s, !.retained = RetainedAfter(m, s)]

WriteDeclined(m, s) == [m EXCEPT !.undelivered = s]

Superseded(m, s) == [m EXCEPT !.undelivered = Max({m.undelivered, s})]

WriteError(m, s, transient) ==
  IF s <= m.handled
  THEN [m EXCEPT !.error = s]
  ELSE [m EXCEPT !.error = s, !.streak = m.streak + 1,
                 !.retained = [seq |-> s, streak |-> m.streak + 1,
                               transient |-> transient, acknowledged |-> FALSE]]

Recorded(m, s, outcome) ==
  CASE outcome = "written" -> WriteSuccess(m, s)
    [] outcome = "declined" -> WriteDeclined(m, s)
    [] outcome \in {"unchanged", "deferred"} -> WriteSuppressed(m, s)
    [] outcome = "superseded" -> Superseded(m, s)
    [] outcome \in Failures -> WriteError(m, s, outcome = "transient")

\* Variant: receipts of a retired generation count.
SettledOfAnyGeneration(frame, outcome) == Recorded(metrics, frame.seq, outcome)

\* FrameObserver::settled
Settled(frame, outcome) ==
  IF frame.gen = gen THEN Recorded(metrics, frame.seq, outcome) ELSE metrics

FailureMatches(m, s) == m.error = s /\ m.handled < s

\* pending_failure
Pending(m) ==
  IF m.retained # None /\ ~m.retained.acknowledged /\ FailureMatches(m, m.retained.seq)
  THEN m.retained ELSE None

\* What the observer notes of a receipt of the current generation.
Noted(frame, outcome) ==
  IF frame.gen # gen THEN seen
  ELSE CASE outcome = "written" ->
              [seen EXCEPT !.run = 0, !.written = Max({@, frame.seq}),
                           !.copies = IF frame.seq >= seen.base THEN @ + 1 ELSE @]
         [] outcome \in Failures -> [seen EXCEPT !.run = @ + 1, !.failed = frame.seq]
         [] OTHER -> seen

Receipt(frame, outcome) ==
  /\ metrics' = Settled(frame, outcome)
  /\ seen' = Noted(frame, outcome)

-----------------------------------------------------------------------------
(* The render loop.  push and the reuse path hold the delivery-sequence    *)
(* lock from their first step to their last; receipts need no such lock.   *)

Locked == call.pc = "decide"

\* Put a payload in the slot under the next sequence and wake the worker.
Publish(color, s) == slot' = [color |-> color, seq |-> s] /\ unseen' = TRUE

\* Variant: a closed lane is treated like any other.
PushBeginsOnClosedLane(c) ==
  /\ live /\ call.pc = "idle" /\ seq < MaxSeq
  /\ seq' = seq + 1
  /\ call' = [pc |-> "decide", color |-> c, dead |-> worker.pc = "dead",
              fresh |-> \/ slot = None
                        \/ slot.color # c
                        \/ EndedUndelivered(metrics, slot.seq)]
  /\ seen' = [seen EXCEPT !.latest = c, !.late = @ \/ ~lane.open]
  /\ UNCHANGED <<policy, live, slot, unseen, owed, gen, metrics, worker, lane, ticket>>

\* push, up to the receipt counters: a payload that certainly goes out is fresh.
PushBegins(c) ==
  /\ live /\ call.pc = "idle" /\ seq < MaxSeq
  /\ seq' = seq + 1
  /\ call' = [pc |-> "decide", color |-> c, dead |-> worker.pc = "dead",
              fresh |-> \/ ~lane.open
                        \/ slot = None
                        \/ slot.color # c
                        \/ EndedUndelivered(metrics, slot.seq)]
  /\ seen' = [seen EXCEPT !.latest = c, !.late = @ \/ ~lane.open]
  /\ UNCHANGED <<policy, live, slot, unseen, owed, gen, metrics, worker, lane, ticket>>

\* The rest of should_suppress_duplicate, for a payload that is not fresh.
OutOrDelivered == slot.seq > metrics.handled \/ Delivered(metrics, slot.seq)

SlotMatches(c) == slot # None /\ slot.color = c

\* Variant: no copies are owed.
PushDecidesOneCopy ==
  /\ live /\ call.pc = "decide"
  /\ LET duplicate == ~call.fresh /\ OutOrDelivered
     IN  IF duplicate THEN UNCHANGED <<slot, unseen, owed, seen>>
         ELSE /\ Publish(call.color, seq)
              /\ owed' = 0
              /\ seen' = IF SlotMatches(call.color) THEN seen
                         ELSE [seen EXCEPT !.base = seq, !.copies = 0]
  /\ call' = IF call.dead THEN [call EXCEPT !.pc = "recover"] ELSE NoCall
  /\ UNCHANGED <<policy, live, seq, gen, metrics, worker, lane, ticket>>

\* push, from the last look at the counters to the send.
PushDecides ==
  /\ live /\ call.pc = "decide"
  /\ LET duplicate == ~call.fresh /\ OutOrDelivered
         copy == duplicate /\ owed > 0 /\ Delivered(metrics, slot.seq)
     IN  IF duplicate /\ ~copy THEN UNCHANGED <<slot, unseen, owed, seen>>
         ELSE /\ Publish(call.color, seq)
              /\ owed' = IF copy THEN owed - 1
                         ELSE IF ~duplicate /\ ~SlotMatches(call.color) THEN policy.copies - 1
                         ELSE owed
              /\ seen' = IF SlotMatches(call.color) THEN seen
                         ELSE [seen EXCEPT !.base = seq, !.copies = 0]
  /\ call' = IF call.dead THEN [call EXCEPT !.pc = "recover"] ELSE NoCall
  /\ UNCHANGED <<policy, live, seq, gen, metrics, worker, lane, ticket>>

\* recover: a new generation and a new worker, which starts with the latest
\* payload unless that one was handled.
Recover ==
  /\ live /\ call.pc = "recover"
  /\ LET unconfirmed == slot # None /\ slot.seq > metrics.handled
     IN  slot' = (IF unconfirmed THEN slot ELSE None) /\ unseen' = unconfirmed
  /\ gen' = gen + 1
  /\ metrics' = NewMetrics /\ seen' = Afresh(seen)
  /\ worker' = NewWorker /\ owed' = 0 /\ call' = NoCall
  /\ UNCHANGED <<policy, live, seq, lane, ticket>>

\* reuse_routed_frame_outputs: retry_latest_after_error, else repeat_latest_if_owed.
Reuse ==
  /\ live /\ call.pc = "idle" /\ seq < MaxSeq
  /\ slot # None
  /\ \/ EndedUndelivered(metrics, slot.seq) /\ UNCHANGED owed
     \/ /\ ~EndedUndelivered(metrics, slot.seq)
        /\ owed > 0 /\ Delivered(metrics, slot.seq)
        /\ owed' = owed - 1
  /\ seq' = seq + 1
  /\ Publish(slot.color, seq + 1)
  /\ UNCHANGED <<policy, live, call, gen, metrics, worker, lane, ticket, seen>>

\* The device is unmapped or its session ends: the queue is dropped.
DropQueue ==
  /\ live /\ call.pc = "idle"
  /\ live' = FALSE
  /\ UNCHANGED <<policy, slot, unseen, seq, owed, call, gen, metrics, worker, lane, ticket, seen>>

-----------------------------------------------------------------------------
(* The worker task.                                                        *)

\* The latest payload, as the worker hands it to the lane.
Latest == [color |-> slot.color, gen |-> gen, seq |-> slot.seq]

TakeLatest ==
  /\ live /\ worker.pc = "wait" /\ unseen
  /\ worker' = [worker EXCEPT !.pc = "submit", !.frame = Latest]
  /\ unseen' = FALSE
  /\ UNCHANGED <<policy, live, slot, seq, owed, call, gen, metrics, lane, ticket, seen>>

\* While the cadence holds a frame back, a newer one replaces it.
PickNewer ==
  /\ live /\ worker.pc = "submit" /\ policy.paced /\ unseen
  /\ worker' = [worker EXCEPT !.frame = Latest]
  /\ unseen' = FALSE
  /\ UNCHANGED <<policy, live, slot, seq, owed, call, gen, metrics, lane, ticket, seen>>

\* Variant: a deferred frame is not looked at again.
ArmedAfterIgnoresDeferral(result) == policy.replays

\* next_reassertion: whether the worker wakes up again by itself.
ArmedAfter(result) == result = "deferred" \/ policy.replays

\* The worker is done with its frame.
Waiting(result) ==
  [worker EXCEPT !.pc = "wait", !.frame = None, !.result = None, !.armed = ArmedAfter(result)]

Submit ==
  /\ live /\ worker.pc = "submit"
  /\ \/ /\ ~lane.open                             \* the sink rejects the frame
        /\ Receipt(worker.frame, "failed")
        /\ worker' = Waiting("failed")
        /\ UNCHANGED lane
     \/ /\ lane.open /\ policy.inline
        /\ lane' = [lane EXCEPT !.wire = worker.frame]
        /\ worker' = [worker EXCEPT !.pc = "await", !.frame = None]
        /\ UNCHANGED <<metrics, seen>>
     \/ /\ lane.open /\ ~policy.inline            \* Submission::Pending
        /\ lane' = [lane EXCEPT !.mail = worker.frame]
        /\ IF lane.mail = None THEN UNCHANGED <<metrics, seen>>
           ELSE Receipt(lane.mail, "superseded")
        /\ worker' = Waiting(None)
  /\ UNCHANGED <<policy, live, slot, unseen, seq, owed, call, gen, ticket>>

\* An inline submission returned the receipt.
Resume ==
  /\ live /\ worker.pc = "await" /\ lane.wire = None
  /\ worker' = Waiting(worker.result)
  /\ UNCHANGED <<policy, live, slot, unseen, seq, owed, call, gen, metrics, lane, ticket, seen>>

\* The lane panics under the worker: the dropped attempt settles as failed.
WorkerPanics ==
  /\ live /\ worker.pc = "submit" /\ gen < MaxGen
  /\ Receipt(worker.frame, "failed")
  /\ worker' = [NewWorker EXCEPT !.pc = "dead"]
  /\ UNCHANGED <<policy, live, slot, unseen, seq, owed, call, gen, lane, ticket>>

\* The deadline passes: requeue_cached_payload.
ReassertDue ==
  /\ live /\ worker.pc = "wait" /\ worker.armed /\ ~Locked /\ seq < MaxSeq
  /\ IF slot = None
     THEN /\ worker' = [worker EXCEPT !.armed = FALSE]
          /\ UNCHANGED <<slot, unseen, seq>>
     ELSE IF slot.seq > LastTerminal(metrics)
     THEN /\ worker' = [worker EXCEPT !.armed = policy.replays]
          /\ UNCHANGED <<slot, unseen, seq>>
     ELSE /\ seq' = seq + 1
          /\ Publish(slot.color, seq + 1)
          /\ worker' = [worker EXCEPT !.armed = FALSE]
  /\ UNCHANGED <<policy, live, owed, call, gen, metrics, lane, ticket, seen>>

-----------------------------------------------------------------------------
(* The lane: a driver's session behind it.                                 *)

\* The driver takes the posted frame; one it is still sending gives way to it.
LaneClaims ==
  /\ live /\ lane.mail # None
  /\ lane' = [lane EXCEPT !.mail = None, !.wire = lane.mail]
  /\ IF lane.wire = None THEN UNCHANGED <<metrics, seen>>
     ELSE Receipt(lane.wire, "superseded")
  /\ UNCHANGED <<policy, live, slot, unseen, seq, owed, call, gen, worker, ticket>>

\* The outcomes the lane's drivers can report for a frame.
Possible(frame) ==
  LET always == {"written"} \cup Failures
      skipped == IF lane.shown = frame.color THEN {"unchanged"} ELSE {}
  IN  always \cup (IF policy.copies > 1 THEN {}
                   ELSE IF policy.inline THEN skipped \cup {"declined", "deferred", "superseded"}
                   ELSE skipped)

\* What the device may show after it.
ShownAfter(frame, outcome) ==
  CASE outcome = "written" -> {frame.color}
    [] outcome \in Failures -> {lane.shown, frame.color}
    [] OTHER -> {lane.shown}

LaneSettles ==
  /\ live /\ lane.wire # None
  /\ \E outcome \in Possible(lane.wire) :
       /\ Receipt(lane.wire, outcome)
       /\ \E c \in ShownAfter(lane.wire, outcome) :
            lane' = [lane EXCEPT !.wire = None, !.shown = c]
       /\ worker' = IF worker.pc = "await" THEN [worker EXCEPT !.result = outcome] ELSE worker
  /\ UNCHANGED <<policy, live, slot, unseen, seq, owed, call, gen, ticket>>

\* A direct write takes the mailbox, with no newer frame of the queue behind it.
DirectWrite ==
  /\ live /\ lane.mail # None
  /\ Receipt(lane.mail, "superseded")
  /\ lane' = [lane EXCEPT !.mail = None]
  /\ UNCHANGED <<policy, live, slot, unseen, seq, owed, call, gen, worker, ticket>>

\* The session closes: what waits is rejected, what is being sent settles later.
LaneCloses ==
  /\ live /\ lane.open
  /\ lane' = [lane EXCEPT !.open = FALSE, !.mail = None]
  /\ IF lane.mail = None THEN UNCHANGED <<metrics, seen>> ELSE Receipt(lane.mail, "failed")
  /\ UNCHANGED <<policy, live, slot, unseen, seq, owed, call, gen, worker, ticket>>

-----------------------------------------------------------------------------
(* The lifecycle task.                                                     *)

\* async_write_failure
TakeTicket ==
  /\ live /\ ticket = None /\ Pending(metrics) # None
  /\ ticket' = [gen |-> gen, seq |-> metrics.retained.seq,
                rides |-> metrics.retained.transient /\ metrics.retained.streak < Threshold]
  /\ UNCHANGED <<policy, live, slot, unseen, seq, owed, call, gen, metrics, worker, lane, seen>>

\* Variant: the ticket is compared with the retained failure only by generation.
IsCurrentByGeneration(t) ==
  live /\ t.gen = gen /\ metrics.retained # None /\ ~metrics.retained.acknowledged

\* The fence is active and the failure is still the queue's last word.
IsCurrent(t) ==
  /\ live /\ t.gen = gen
  /\ metrics.retained # None /\ metrics.retained.seq = t.seq
  /\ ~metrics.retained.acknowledged /\ FailureMatches(metrics, t.seq)

\* claim_current_async_write_failures: a failure the lane rides out stays
\* unacknowledged, any other is acknowledged if it is still current.
Claim ==
  /\ ticket # None
  /\ ticket' = None
  /\ IF ~ticket.rides /\ IsCurrent(ticket)
     THEN /\ metrics' = [metrics EXCEPT !.handled = Max({@, ticket.seq}),
                                        !.retained.acknowledged = TRUE]
          /\ seen' = [seen EXCEPT !.claimed = @ \cup {<<gen, ticket.seq>>}]
     ELSE UNCHANGED <<metrics, seen>>
  /\ UNCHANGED <<policy, live, slot, unseen, seq, owed, call, gen, worker, lane>>

Next ==
  \/ \E c \in Colors : PushBegins(c)
  \/ PushDecides
  \/ Recover
  \/ Reuse
  \/ DropQueue
  \/ TakeLatest
  \/ PickNewer
  \/ Submit
  \/ Resume
  \/ WorkerPanics
  \/ ReassertDue
  \/ LaneClaims
  \/ LaneSettles
  \/ DirectWrite
  \/ LaneCloses
  \/ TakeTicket
  \/ Claim

Spec == Init /\ [][Next]_vars

-----------------------------------------------------------------------------
(* Properties. *)

Payloads == [color : Colors, seq : 1..MaxSeq]
Frames == [color : Colors, gen : 1..MaxGen, seq : 1..MaxSeq]
Retainable == [seq : 1..MaxSeq, streak : Nat, transient : BOOLEAN, acknowledged : BOOLEAN]
Counters == [handled : 0..MaxSeq, error : 0..MaxSeq, undelivered : 0..MaxSeq, streak : Nat,
             retained : Retainable \cup {None}]
Observations == [run : Nat, written : 0..MaxSeq, failed : 0..MaxSeq, base : 0..MaxSeq,
                 copies : Nat, claimed : SUBSET ((1..MaxGen) \X (1..MaxSeq)),
                 latest : Colors \cup {None}, late : BOOLEAN]

Calls == [pc : {"idle", "decide", "recover"}, color : Colors \cup {None},
          fresh : BOOLEAN, dead : BOOLEAN]
Tasks == [pc : {"wait", "submit", "await", "dead"}, frame : Frames \cup {None},
          result : Outcomes \cup {None}, armed : BOOLEAN]
Lanes == [open : BOOLEAN, mail : Frames \cup {None}, wire : Frames \cup {None},
          shown : Colors \cup {None}]
Tickets == [gen : 1..MaxGen, seq : 1..MaxSeq, rides : BOOLEAN]

\* None is no value of an Option.
ASSUME NoneAssumption ==
  None \notin Payloads /\ None \notin Frames /\ None \notin Retainable /\ None \notin Tickets

\* Every party's state has its type.
TypeOK ==
  /\ policy \in Policies
  /\ live \in BOOLEAN /\ unseen \in BOOLEAN
  /\ slot \in Payloads \cup {None}
  /\ seq \in 0..MaxSeq /\ gen \in 1..MaxGen /\ owed \in 0..(policy.copies - 1)
  /\ call \in Calls /\ metrics \in Counters /\ worker \in Tasks /\ lane \in Lanes
  /\ ticket \in Tickets \cup {None}
  /\ seen \in Observations

\* The worker or the lane has the latest payload.
InHand ==
  \/ unseen
  \/ worker.pc \in {"submit", "await"}
  \/ lane.mail = Latest \/ lane.wire = Latest

\* Somebody has it, or the worker will send it again by itself.
OnItsWay == InHand \/ (worker.armed /\ slot.seq <= LastTerminal(metrics))

\* The lifecycle task has claimed a failure, and takes the session down.
Claimed == seen.claimed # {}

Settling == ~live \/ call.pc # "idle" \/ worker.pc = "dead" \/ Claimed

\* The latest colours are never silently lost: once nobody has them in hand any
\* more, the device shows them, or the counters say so and the next identical
\* push or reused frame sends them again.  Duplicates are suppressed only on
\* the strength of this.
NothingIsLost ==
  \/ seen.latest = None \/ Settling \/ ~lane.open
  \/ slot # None /\ slot.color = seen.latest /\ (OnItsWay \/ EndedUndelivered(metrics, slot.seq))
  \/ lane.shown = seen.latest

\* A device whose protocol asks for redundant copies gets that many deliveries
\* of every colour change before the queue goes quiet about it, counting from
\* the change, whatever fails in between (within one worker's life: a
\* recovered queue owes nothing).
CopiesAreSent ==
  slot = None \/ gen > 1 \/ Settling \/ ~lane.open \/ InHand \/ owed > 0
    \/ EndedUndelivered(metrics, slot.seq) \/ policy.copies = 1
    \/ seen.copies >= policy.copies

\* consecutive_failures is the number of failures since the last delivery that
\* completed in this generation, in the order the receipts arrived, until the
\* lifecycle task has claimed one of them; late receipts of a retired
\* generation do not count.
StreakIsTrue == (\E c \in seen.claimed : c[1] = gen) \/ metrics.streak = seen.run

\* A queue that can deliver nothing any more says so: when its worker died
\* under an inline lane, or a frame was pushed after its lane closed and has
\* settled, a failure waits for the lifecycle task or was claimed by it.  Late
\* receipts do not hide it, and the frame is not swallowed as a duplicate.
FailuresSurface ==
  LET idle == live /\ call.pc = "idle"
      died == worker.pc = "dead" /\ policy.inline
      rejected == ~lane.open /\ seen.late /\ ~unseen /\ worker.pc = "wait" /\ lane.wire = None
  IN  idle /\ (died \/ rejected) => Pending(metrics) # None \/ Claimed

\* An acknowledgement is for the last failure of the current generation, with no
\* delivery completed after it, and no failure is acknowledged twice, however
\* long the lifecycle task held the ticket.
ClaimsAreCurrent ==
  [][(ticket # None /\ ticket' = None /\ metrics' # metrics) =>
       /\ live /\ ticket.gen = gen
       /\ <<gen, ticket.seq>> \notin seen.claimed
       /\ ticket.seq = seen.failed /\ seen.written < ticket.seq]_vars
==============================================================================
