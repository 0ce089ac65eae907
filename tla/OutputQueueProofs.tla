-------------------------- MODULE OutputQueueProofs --------------------------
(***************************************************************************)
(* One device's output queue, for any colours, policies, number of         *)
(* deliveries and number of recoveries.                                    *)
(*                                                                         *)
(* The queue compares sequences, and the counters are right only because a *)
(* frame that is still on its way has a sequence nothing was recorded for. *)
(* Frames are in the order wire, mail, worker, slot, and each of them is   *)
(* Unsettled: that is the invariant IInv of the counters.  The second half *)
(* follows the latest frame from place to place (Delivery).                *)
(***************************************************************************)
EXTENDS OutputQueue, TLAPS

\* The sequences handed out so far, without that of a push that is deciding.
Issued == IF call.pc = "decide" THEN seq - 1 ELSE seq

ClaimedNow == \E c \in seen.claimed : c[1] = gen

\* What a step of the queue relies on besides the types.
Control ==
  /\ unseen => slot \in Payloads
  /\ slot # None => slot.seq <= Issued
  /\ worker.pc = "submit" => worker.frame \in Frames /\ worker.frame.gen = gen
  /\ call.pc # "idle" => call.color \in Colors
  /\ call.pc = "decide" => seq > 0
  /\ call.pc = "recover" => call.dead
  /\ call.dead => worker.pc = "dead"
  /\ worker.pc = "dead" => gen < MaxGen
  /\ lane.mail # None => lane.mail.gen <= gen
  /\ lane.wire # None => lane.wire.gen <= gen

\* What the counters and the observer's history have to do with each other.
Records ==
  /\ seen.written <= metrics.handled /\ metrics.handled <= Issued
  /\ metrics.error = seen.failed
  /\ ClaimedNow \/ metrics.streak = seen.run
  /\ \A c \in seen.claimed : c[1] <= gen /\ (c[1] = gen => c[2] <= Issued)
  /\ metrics.retained # None =>
       /\ metrics.retained.seq <= Issued
       /\ ~metrics.retained.acknowledged => <<gen, metrics.retained.seq>> \notin seen.claimed

\* Nothing is recorded for sequence s by counters m and observer o in generation g.
Untouched(s, m, o, g, top) ==
  /\ o.written < s /\ s <= top
  /\ <<g, s>> \notin o.claimed
  /\ m.retained # None => m.retained.seq # s
  /\ (\E c \in o.claimed : c[1] = g) \/ m.handled < s

Unsettled(s) == Untouched(s, metrics, seen, gen, Issued)

Current(f) == f # None /\ f.gen = gen

\* The frames on their way, from the last one published to the first one sent.
InOrder ==
  /\ unseen => Unsettled(slot.seq)
  /\ worker.pc = "submit" =>
       /\ Unsettled(worker.frame.seq)
       /\ unseen => worker.frame.seq < slot.seq
  /\ Current(lane.mail) =>
       /\ Unsettled(lane.mail.seq)
       /\ unseen => lane.mail.seq < slot.seq
       /\ worker.pc = "submit" => lane.mail.seq < worker.frame.seq
  /\ Current(lane.wire) =>
       /\ Unsettled(lane.wire.seq)
       /\ unseen => lane.wire.seq < slot.seq
       /\ worker.pc = "submit" => lane.wire.seq < worker.frame.seq
       /\ Current(lane.mail) => lane.wire.seq < lane.mail.seq

\* A lane that settles before submit returns has no mailbox.
MailIsLater == policy.inline => lane.mail = None

IInv == TypeOK /\ Control /\ MailIsLater /\ Records /\ InOrder
-----------------------------------------------------------------------------
\* The greater of two sequences.
LEMMA MaxOfTwo ==
  ASSUME NEW a \in Int, NEW b \in Int
  PROVE  Max({a, b}) = IF a >= b THEN a ELSE b
<1>1. CASE a >= b
  BY <1>1 DEF Max
<1>2. CASE ~(a >= b)
  BY <1>2 DEF Max
<1> QED
  BY <1>1, <1>2, Zenon

\* Records keep their types when fields of theirs are replaced.
LEMMA HandledCounters ==
  ASSUME NEW m \in Counters, NEW n \in 0..MaxSeq, NEW r \in Retainable \cup {None}
  PROVE  /\ [m EXCEPT !.handled = n, !.streak = 0, !.retained = r] \in Counters
         /\ [m EXCEPT !.handled = n, !.retained = r] \in Counters
BY Zenon DEF Counters

LEMMA FailedCounters ==
  ASSUME NEW m \in Counters, NEW n \in 0..MaxSeq, NEW k \in Nat, NEW r \in Retainable
  PROVE  /\ [m EXCEPT !.error = n, !.streak = k, !.retained = r] \in Counters
         /\ [m EXCEPT !.error = n] \in Counters
BY Zenon DEF Counters

LEMMA NewObservations ==
  ASSUME NEW o \in Observations, NEW n \in 0..MaxSeq, NEW k \in Nat
  PROVE  /\ [o EXCEPT !.run = 0, !.written = n, !.copies = k] \in Observations
         /\ [o EXCEPT !.run = k, !.failed = n] \in Observations
         /\ [o EXCEPT !.base = n, !.copies = 0] \in Observations
BY Zenon DEF Observations

LEMMA AfreshObserved ==
  ASSUME NEW o \in Observations PROVE Afresh(o) \in Observations
<1>1. 0 \in 0..MaxSeq /\ 0 \in Nat
  BY QueueAssumption
<1>2. \A n \in 0..MaxSeq, k \in Nat :
        [o EXCEPT !.run = k, !.written = n, !.failed = n, !.base = n, !.copies = k]
          \in Observations
  BY Zenon DEF Observations
<1> QED
  BY <1>1, <1>2, Zenon DEF Afresh

\* A receipt keeps the types, and the counters in step with the observer.  A frame
\* that is still unsettled stays so: one behind it whatever the outcome, one ahead
\* of it if it failed or gave way.
LEMMA ReceiptRecords ==
  ASSUME TypeOK, Records, UNCHANGED <<gen, seq, call>>,
         NEW f \in Frames, f.gen = gen => Unsettled(f.seq),
         NEW outcome \in Outcomes, Receipt(f, outcome)
  PROVE  /\ metrics' \in Counters /\ seen' \in Observations /\ Records'
         /\ \A s \in 1..MaxSeq :
              /\ Unsettled(s)
              /\ f.gen = gen => f.seq < s \/ (f.seq # s /\ outcome \in Failures \cup {"superseded"})
              => Unsettled(s)'
<1>0. /\ metrics \in Counters /\ seen \in Observations
      /\ seq \in Nat /\ gen \in Nat /\ f.seq \in 1..MaxSeq /\ f.gen \in Nat /\ MaxSeq \in Nat
      /\ metrics.handled \in 0..MaxSeq /\ metrics.error \in 0..MaxSeq
      /\ metrics.undelivered \in 0..MaxSeq /\ metrics.streak \in Nat
      /\ metrics.retained \in Retainable \cup {None}
      /\ metrics.retained # None => metrics.retained.seq \in 1..MaxSeq
      /\ seen.run \in Nat /\ seen.written \in 0..MaxSeq /\ seen.failed \in 0..MaxSeq
      /\ seen.base \in 0..MaxSeq /\ seen.copies \in Nat
      /\ seen.claimed \in SUBSET ((1..MaxGen) \X (1..MaxSeq))
  BY QueueAssumption DEF TypeOK, Counters, Observations, Frames, Retainable
<1>00. metrics \in Counters /\ seen \in Observations /\ f.seq \in 0..MaxSeq
  BY <1>0
<1>1. CASE f.gen # gen
  <2>1. metrics' = metrics /\ seen' = seen
    BY <1>0, <1>1, Zenon DEF Receipt, Settled, Noted
  <2> QED
    BY <1>0, <1>1, <2>1, Zenon DEF Records, Unsettled, Untouched, Issued, ClaimedNow
<1>2. CASE f.gen = gen
  <2>1. metrics' = Recorded(metrics, f.seq, outcome)
    BY <1>0, <1>2, Zenon DEF Receipt, Settled
  <2>2. CASE outcome = "written"
    <3>1. metrics' = WriteSuccess(metrics, f.seq)
      BY <1>0, <2>1, <2>2, Zenon DEF Recorded, Failures
    <3>2. Max({seen.written, f.seq}) = f.seq
      BY <1>0, <1>2, MaxOfTwo DEF Unsettled, Untouched
    <3>3. seen' = [seen EXCEPT !.run = 0, !.written = f.seq,
                     !.copies = IF f.seq >= seen.base THEN @ + 1 ELSE @]
      BY <1>0, <1>2, <2>2, <3>2, Zenon DEF Receipt, Noted, Failures
    <3>4. metrics' \in Counters /\ seen' \in Observations
      <4>1. RetainedAfter(metrics, f.seq) \in Retainable \cup {None}
        BY <1>0, Zenon DEF RetainedAfter
      <4>2. metrics' \in Counters
        BY <1>00, <3>1, <4>1, HandledCounters, Zenon DEF WriteSuccess
      <4>3. (IF f.seq >= seen.base THEN seen.copies + 1 ELSE seen.copies) \in Nat
        BY <1>0
      <4>4. seen' \in Observations
        BY <1>00, <3>3, <4>3, NewObservations, Zenon
      <4> QED
        BY <1>0, <4>2, <4>4, Zenon
    <3>5. /\ metrics'.handled = f.seq /\ metrics'.error = metrics.error /\ metrics'.streak = 0
          /\ metrics'.retained \in {None, metrics.retained}
          /\ seen'.run = 0 /\ seen'.written = f.seq /\ seen'.failed = seen.failed
          /\ seen'.claimed = seen.claimed
      BY <1>0, <3>1, <3>3 DEF WriteSuccess, RetainedAfter
    <3>6. Records'
      BY <1>0, <1>2, <3>4, <3>5 DEF Records, Unsettled, Untouched, Issued, ClaimedNow
    <3> QED
      BY <1>0, <1>2, <2>2, <3>4, <3>5, <3>6, Zenon DEF Unsettled, Untouched, Issued, ClaimedNow,
         Failures
  <2>3. CASE outcome \in {"unchanged", "deferred"}
    <3>1. metrics' = WriteSuppressed(metrics, f.seq) /\ seen' = seen
      BY <1>0, <1>2, <2>1, <2>3, Zenon DEF Recorded, Receipt, Noted, Failures
    <3>2. metrics' \in Counters /\ seen' \in Observations
      <4>1. RetainedAfter(metrics, f.seq) \in Retainable \cup {None}
        BY <1>0, Zenon DEF RetainedAfter
      <4>2. metrics' \in Counters
        BY <1>00, <3>1, <4>1, HandledCounters, Zenon DEF WriteSuppressed
      <4> QED
        BY <1>0, <3>1, <4>2, Zenon
    <3>3. /\ metrics'.handled = f.seq /\ metrics'.error = metrics.error
          /\ metrics'.streak = metrics.streak /\ metrics'.retained \in {None, metrics.retained}
      BY <1>0, <3>1 DEF WriteSuppressed, RetainedAfter
    <3>4. Records'
      BY <1>0, <1>2, <3>1, <3>2, <3>3 DEF Records, Unsettled, Untouched, Issued, ClaimedNow
    <3> QED
      BY <1>0, <1>2, <2>3, <3>1, <3>2, <3>3, <3>4, Zenon DEF Unsettled, Untouched, Issued,
         ClaimedNow, Failures
  <2>4. CASE outcome = "declined"
    <3>1. metrics' = WriteDeclined(metrics, f.seq) /\ seen' = seen
      BY <1>0, <1>2, <2>1, <2>4, Zenon DEF Recorded, Receipt, Noted, Failures
    <3>2. metrics' \in Counters
      BY <1>0, <3>1 DEF WriteDeclined, Counters
    <3>3. /\ metrics'.handled = metrics.handled /\ metrics'.error = metrics.error
          /\ metrics'.streak = metrics.streak /\ metrics'.retained = metrics.retained
      BY <1>0, <3>1, Zenon DEF WriteDeclined, Counters
    <3> QED
      BY <1>0, <3>1, <3>2, <3>3, Zenon DEF Records, Unsettled, Untouched, Issued, ClaimedNow
  <2>5. CASE outcome = "superseded"
    <3>1. metrics' = Superseded(metrics, f.seq) /\ seen' = seen
      BY <1>0, <1>2, <2>1, <2>5, Zenon DEF Recorded, Receipt, Noted, Failures
    <3>2. Max({metrics.undelivered, f.seq}) \in 0..MaxSeq
      BY <1>0, MaxOfTwo
    <3>3. metrics' \in Counters
      BY <1>0, <3>1, <3>2, Zenon DEF Superseded, Counters
    <3>4. /\ metrics'.handled = metrics.handled /\ metrics'.error = metrics.error
          /\ metrics'.streak = metrics.streak /\ metrics'.retained = metrics.retained
      BY <1>0, <3>1, Zenon DEF Superseded, Counters
    <3> QED
      BY <1>0, <3>1, <3>3, <3>4, Zenon DEF Records, Unsettled, Untouched, Issued, ClaimedNow
  <2>6. CASE outcome \in Failures
    <3>1. PICK transient \in BOOLEAN : metrics' = WriteError(metrics, f.seq, transient)
      <4>1. metrics' = WriteError(metrics, f.seq, outcome = "transient")
        BY <1>0, <2>1, <2>6, Zenon DEF Recorded, Failures
      <4> QED
        BY <1>0, <4>1, Zenon
    <3>2. seen' = [seen EXCEPT !.run = @ + 1, !.failed = f.seq]
      BY <1>0, <1>2, <2>6, Zenon DEF Receipt, Noted, Failures
    <3>3. metrics' \in Counters /\ seen' \in Observations
      <4>1. [seq |-> f.seq, streak |-> metrics.streak + 1, transient |-> transient,
             acknowledged |-> FALSE] \in Retainable
        BY <1>0, <3>1 DEF Retainable
      <4>2. metrics' \in Counters
        <5>1. metrics.streak + 1 \in Nat
          BY <1>0
        <5> QED
          BY <1>00, <3>1, <4>1, <5>1, FailedCounters, Zenon DEF WriteError
      <4>3. seen' \in Observations
        <5>1. seen.run + 1 \in Nat
          BY <1>0
        <5> QED
          BY <1>00, <3>2, <5>1, NewObservations, Zenon
      <4> QED
        BY <1>0, <4>2, <4>3, Zenon
    <3>4. /\ metrics'.handled = metrics.handled /\ metrics'.error = f.seq
          /\ f.seq <= metrics.handled => /\ metrics'.streak = metrics.streak
                                        /\ metrics'.retained = metrics.retained
          /\ f.seq > metrics.handled => /\ metrics'.streak = metrics.streak + 1
                                       /\ metrics'.retained.seq = f.seq
          /\ seen'.run = seen.run + 1 /\ seen'.written = seen.written /\ seen'.failed = f.seq
          /\ seen'.claimed = seen.claimed
      BY <1>0, <3>1, <3>2 DEF WriteError
    <3>5. Records'
      BY <1>0, <1>2, <3>3, <3>4 DEF Records, Retainable, Unsettled, Untouched, Issued, ClaimedNow
    <3> QED
      BY <1>0, <1>2, <2>6, <3>3, <3>4, <3>5 DEF Unsettled, Untouched, Issued, ClaimedNow
  <2> QED
    BY <1>0, <2>2, <2>3, <2>4, <2>5, <2>6, Zenon DEF Outcomes, Failures
<1> QED
  BY <1>0, <1>1, <1>2, Zenon

\* Where the counters and the history of receipts stay, and no sequence is taken
\* back, what was unsettled is so still.
LEMMA RecordsKept ==
  ASSUME TypeOK, Records, metrics' = metrics, gen' = gen, Issued <= Issued', Issued' \in Int,
         seen'.run = seen.run, seen'.written = seen.written, seen'.failed = seen.failed,
         seen'.claimed = seen.claimed
  PROVE  Records' /\ \A s \in 1..MaxSeq : Unsettled(s) => Unsettled(s)'
<1>1. /\ metrics.handled \in Int /\ seen.written \in Int /\ Issued \in Int
      /\ metrics.retained # None => metrics.retained.seq \in Int
      /\ \A c \in seen.claimed : c[2] \in Int
  BY QueueAssumption DEF TypeOK, Counters, Retainable, Observations, Issued
<1>2. Records'
  BY <1>1 DEF Records, ClaimedNow
<1>3. \A s \in 1..MaxSeq : Unsettled(s) => Unsettled(s)'
  BY <1>1 DEF Unsettled, Untouched, ClaimedNow
<1> QED
  BY <1>2, <1>3, Zenon

\* A sequence that is handed out now is unsettled, and behind all others.
LEMMA NextIsUnsettled ==
  ASSUME TypeOK, Records, metrics' = metrics, gen' = gen, NEW s \in Int, Issued < s, s = Issued',
         seen'.written = seen.written, seen'.claimed = seen.claimed
  PROVE  Unsettled(s)'
<1>1. /\ metrics.handled \in Int /\ seen.written \in Int /\ Issued \in Int
      /\ metrics.retained # None => metrics.retained.seq \in Int
      /\ \A c \in seen.claimed : c[2] \in Int
  BY QueueAssumption DEF TypeOK, Counters, Retainable, Observations, Issued
<1> QED
  BY <1>1 DEF Records, Unsettled, Untouched, ClaimedNow

\* Every step keeps the types.
LEMMA TypeStep ==
  ASSUME TypeOK, Control, Records, InOrder, [Next]_vars
  PROVE  TypeOK'
<1>0. policy.copies \in Nat \ {0}
  BY QueueAssumption, Zenon DEF AllPolicies, TypeOK
<1>1. ASSUME NEW c \in Colors, PushBegins(c)
      PROVE  TypeOK'
  <2>1. PICK fresh \in BOOLEAN, dead \in BOOLEAN :
           call' = [pc |-> "decide", color |-> c, dead |-> dead, fresh |-> fresh]
    BY <1>1, Zenon DEF PushBegins
  <2>2. call' \in Calls
    BY <2>1, Zenon DEF Calls
  <2>3. PICK late \in BOOLEAN : seen' = [seen EXCEPT !.latest = c, !.late = late]
    BY <1>1, Zenon DEF PushBegins
  <2>4. seen' \in Observations
    BY <2>3, Zenon DEF Observations, TypeOK
  <2> QED
    BY <1>1, <2>2, <2>4, QueueAssumption DEF PushBegins, TypeOK
<1>2. CASE PushDecides
  <2>1. call' \in Calls
    BY <1>2, Zenon DEF PushDecides, Calls, NoCall, TypeOK
  <2>2. slot' \in Payloads \cup {None} /\ unseen' \in BOOLEAN
    <3>1. [color |-> call.color, seq |-> seq] \in Payloads
      BY <1>2 DEF PushDecides, Payloads, Control, TypeOK
    <3>2. \/ slot' = [color |-> call.color, seq |-> seq] /\ unseen' = TRUE
          \/ slot' = slot /\ unseen' = unseen
      BY <1>2, Zenon DEF PushDecides, Publish
    <3> QED
      BY <3>1, <3>2, Zenon DEF TypeOK
  <2>3. owed' \in 0..(policy.copies - 1)
    BY <1>0, <1>2 DEF PushDecides, TypeOK
  <2>4. seen' \in Observations
    <3>1. seen' = seen \/ seen' = [seen EXCEPT !.base = seq, !.copies = 0]
      BY <1>2, Zenon DEF PushDecides
    <3> QED
      BY <3>1, NewObservations, Zenon DEF TypeOK
  <2> QED
    BY <1>2, <2>1, <2>2, <2>3, <2>4, Zenon DEF PushDecides, TypeOK
<1>3. CASE Recover
  <2>1. call' \in Calls
    BY <1>3, Zenon DEF Recover, Calls, NoCall
  <2>2. metrics' \in Counters
    BY <1>3, QueueAssumption DEF Recover, NewMetrics, Counters
  <2>3. worker' \in Tasks
    BY <1>3, Zenon DEF Recover, NewWorker, Tasks
  <2>4. seen' \in Observations
    BY <1>3, AfreshObserved, Zenon DEF Recover, TypeOK
  <2>5. slot' \in Payloads \cup {None} /\ unseen' \in BOOLEAN
    BY <1>3, Zenon DEF Recover, TypeOK
  <2>6. gen' \in 1..MaxGen /\ owed' \in 0..(policy.copies - 1)
    BY <1>0, <1>3, QueueAssumption DEF Recover, Control, TypeOK
  <2> QED
    BY <1>3, <2>1, <2>2, <2>3, <2>4, <2>5, <2>6, Zenon DEF Recover, TypeOK
<1>4. CASE Reuse
  <2>1. slot' \in Payloads \cup {None} /\ unseen' \in BOOLEAN /\ seq' \in 0..MaxSeq
    BY <1>4, QueueAssumption DEF Reuse, Publish, Payloads, TypeOK
  <2>2. owed' \in 0..(policy.copies - 1)
    BY <1>0, <1>4 DEF Reuse, TypeOK
  <2> QED
    BY <1>4, <2>1, <2>2, Zenon DEF Reuse, TypeOK
<1>5. CASE DropQueue
  BY <1>5, Zenon DEF DropQueue, TypeOK
<1>6. CASE TakeLatest
  BY <1>6, Zenon DEF TakeLatest, Latest, Tasks, Frames, Payloads, Control, TypeOK
<1>7. CASE PickNewer
  BY <1>7, Zenon DEF PickNewer, Latest, Tasks, Frames, Payloads, Control, TypeOK
<1>8. CASE Submit
  <2>1. worker.frame \in Frames /\ worker.frame.gen = gen /\ Unsettled(worker.frame.seq)
    BY <1>8, Zenon DEF Submit, Control, InOrder
  <2>2. lane.mail # None => lane.mail \in Frames /\ (lane.mail.gen = gen => Unsettled(lane.mail.seq))
    BY Zenon DEF Lanes, InOrder, Current, TypeOK
  <2>3. UNCHANGED <<gen, seq, call>>
    BY <1>8, Zenon DEF Submit
  <2>4. metrics' \in Counters /\ seen' \in Observations
    <3>1. \/ Receipt(worker.frame, "failed")
          \/ lane.mail # None /\ Receipt(lane.mail, "superseded")
          \/ UNCHANGED <<metrics, seen>>
      BY <1>8, Zenon DEF Submit
    <3> QED
      BY <2>1, <2>2, <2>3, <3>1, ReceiptRecords, Zenon DEF Outcomes, TypeOK
  <2>5. worker' \in Tasks
    <3>1. \A o : ArmedAfter(o) \in BOOLEAN
      BY Zenon DEF ArmedAfter, AllPolicies
    <3>2. \/ worker' = Waiting("failed") \/ worker' = Waiting(None)
          \/ worker' = [worker EXCEPT !.pc = "await", !.frame = None]
      BY <1>8, Zenon DEF Submit
    <3>3. \A o : Waiting(o) \in Tasks
      BY <3>1, Zenon DEF Waiting, Tasks, TypeOK
    <3>4. [worker EXCEPT !.pc = "await", !.frame = None] \in Tasks
      BY Zenon DEF Tasks, TypeOK
    <3> QED
      BY <3>2, <3>3, <3>4, Zenon
  <2>6. lane' \in Lanes
    BY <1>8, <2>1, Zenon DEF Submit, Lanes, TypeOK
  <2> QED
    BY <1>8, <2>4, <2>5, <2>6, Zenon DEF Submit, TypeOK
<1>9. CASE Resume
  BY <1>9, Zenon DEF Resume, Waiting, ArmedAfter, Tasks, TypeOK
<1>10. CASE WorkerPanics
  <2>1. worker.frame \in Frames /\ worker.frame.gen = gen /\ Unsettled(worker.frame.seq)
    BY <1>10, Zenon DEF WorkerPanics, Control, InOrder
  <2>2. UNCHANGED <<gen, seq, call>> /\ Receipt(worker.frame, "failed")
    BY <1>10, Zenon DEF WorkerPanics
  <2>3. metrics' \in Counters /\ seen' \in Observations
    BY <2>1, <2>2, ReceiptRecords, Zenon DEF Outcomes
  <2>4. worker' \in Tasks
    BY <1>10, Zenon DEF WorkerPanics, NewWorker, Tasks
  <2> QED
    BY <1>10, <2>3, <2>4, Zenon DEF WorkerPanics, TypeOK
<1>11. CASE ReassertDue
  <2>1. worker' \in Tasks
    <3>1. PICK armed \in BOOLEAN : worker' = [worker EXCEPT !.armed = armed]
      BY <1>11, QueueAssumption, Zenon DEF ReassertDue, AllPolicies, TypeOK
    <3> QED
      BY <3>1, Zenon DEF Tasks, TypeOK
  <2>2. slot' \in Payloads \cup {None} /\ unseen' \in BOOLEAN /\ seq' \in 0..MaxSeq
    <3>1. slot # None => slot.color \in Colors
      BY Zenon DEF Payloads, TypeOK
    <3>2. slot # None /\ seq < MaxSeq => [color |-> slot.color, seq |-> seq + 1] \in Payloads
      BY <3>1, QueueAssumption DEF Payloads, TypeOK
    <3>3. \/ /\ slot # None /\ slot' = [color |-> slot.color, seq |-> seq + 1]
             /\ unseen' = TRUE /\ seq' = seq + 1
          \/ slot' = slot /\ unseen' = unseen /\ seq' = seq
      BY <1>11, Zenon DEF ReassertDue, Publish
    <3>4. seq < MaxSeq
      BY <1>11, Zenon DEF ReassertDue
    <3>5. seq + 1 \in 0..MaxSeq
      BY <3>4, QueueAssumption DEF TypeOK
    <3> QED
      BY <3>2, <3>3, <3>4, <3>5, Zenon DEF TypeOK
  <2> QED
    BY <1>11, <2>1, <2>2, Zenon DEF ReassertDue, TypeOK
<1>12. CASE LaneClaims
  <2>1. lane.wire # None => lane.wire \in Frames /\ (lane.wire.gen = gen => Unsettled(lane.wire.seq))
    BY Zenon DEF Lanes, InOrder, Current, TypeOK
  <2>2. UNCHANGED <<gen, seq, call>>
    BY <1>12, Zenon DEF LaneClaims
  <2>3. UNCHANGED <<metrics, seen>> \/ (lane.wire # None /\ Receipt(lane.wire, "superseded"))
    BY <1>12, Zenon DEF LaneClaims
  <2>4. metrics' \in Counters /\ seen' \in Observations
    BY <2>1, <2>2, <2>3, ReceiptRecords, Zenon DEF Outcomes, TypeOK
  <2>5. lane' \in Lanes
    BY <1>12, Zenon DEF LaneClaims, Lanes, TypeOK
  <2> QED
    BY <1>12, <2>4, <2>5, Zenon DEF LaneClaims, TypeOK
<1>13. CASE LaneSettles
  <2>1. lane.wire \in Frames /\ (lane.wire.gen = gen => Unsettled(lane.wire.seq))
    BY <1>13, Zenon DEF LaneSettles, Lanes, InOrder, Current, TypeOK
  <2>2. UNCHANGED <<gen, seq, call>>
    BY <1>13, Zenon DEF LaneSettles
  <2>3. PICK outcome \in Possible(lane.wire) :
          /\ Receipt(lane.wire, outcome)
          /\ \E c \in ShownAfter(lane.wire, outcome) :
               lane' = [lane EXCEPT !.wire = None, !.shown = c]
          /\ worker' = IF worker.pc = "await" THEN [worker EXCEPT !.result = outcome] ELSE worker
    BY <1>13, Zenon DEF LaneSettles
  <2>4. outcome \in Outcomes
    BY <2>3, Zenon DEF Possible, Outcomes, Failures
  <2>5. metrics' \in Counters /\ seen' \in Observations
    BY <2>1, <2>2, <2>3, <2>4, ReceiptRecords, Zenon
  <2>6. ShownAfter(lane.wire, outcome) \subseteq Colors \cup {None}
    BY <2>1, <2>4, Zenon DEF ShownAfter, Outcomes, Failures, Lanes, Frames, TypeOK
  <2>7. lane' \in Lanes
    BY <2>3, <2>6, Zenon DEF Lanes, TypeOK
  <2>8. worker' \in Tasks
    BY <2>3, <2>4, Zenon DEF Tasks, TypeOK
  <2> QED
    BY <1>13, <2>5, <2>7, <2>8, Zenon DEF LaneSettles, TypeOK
<1>14. CASE DirectWrite
  <2>1. lane.mail # None => lane.mail \in Frames /\ (lane.mail.gen = gen => Unsettled(lane.mail.seq))
    BY Zenon DEF Lanes, InOrder, Current, TypeOK
  <2>2. UNCHANGED <<gen, seq, call>>
    BY <1>14, Zenon DEF DirectWrite
  <2>3. UNCHANGED <<metrics, seen>> \/ (lane.mail # None /\ Receipt(lane.mail, "superseded"))
    BY <1>14, Zenon DEF DirectWrite
  <2>4. metrics' \in Counters /\ seen' \in Observations
    BY <2>1, <2>2, <2>3, ReceiptRecords, Zenon DEF Outcomes, TypeOK
  <2>5. lane' \in Lanes
    BY <1>14, Zenon DEF DirectWrite, Lanes, TypeOK
  <2> QED
    BY <1>14, <2>4, <2>5, Zenon DEF DirectWrite, TypeOK
<1>15. CASE LaneCloses
  <2>1. lane.mail # None => lane.mail \in Frames /\ (lane.mail.gen = gen => Unsettled(lane.mail.seq))
    BY Zenon DEF Lanes, InOrder, Current, TypeOK
  <2>2. UNCHANGED <<gen, seq, call>>
    BY <1>15, Zenon DEF LaneCloses
  <2>3. UNCHANGED <<metrics, seen>> \/ (lane.mail # None /\ Receipt(lane.mail, "failed"))
    BY <1>15, Zenon DEF LaneCloses
  <2>4. metrics' \in Counters /\ seen' \in Observations
    BY <2>1, <2>2, <2>3, ReceiptRecords, Zenon DEF Outcomes, TypeOK
  <2>5. lane' \in Lanes
    BY <1>15, Zenon DEF LaneCloses, Lanes, TypeOK
  <2> QED
    BY <1>15, <2>4, <2>5, Zenon DEF LaneCloses, TypeOK
<1>16. CASE TakeTicket
  BY <1>16, Zenon DEF TakeTicket, Pending, Tickets, Counters, Retainable, TypeOK
<1>17. CASE Claim
  <2>1. CASE ~ticket.rides /\ IsCurrent(ticket)
    <3>1. ticket \in Tickets /\ ticket.seq \in 0..MaxSeq /\ ticket.seq \in 1..MaxSeq
      BY <1>17 DEF Claim, Tickets, TypeOK
    <3>2. Max({metrics.handled, ticket.seq}) \in 0..MaxSeq
      BY <3>1, MaxOfTwo DEF Counters, TypeOK
    <3>3. metrics' \in Counters
      <4>1. metrics.retained \in Retainable
        BY <2>1, Zenon DEF IsCurrent, Counters, TypeOK
      <4>2. [metrics.retained EXCEPT !.acknowledged = TRUE] \in Retainable
        BY <4>1, Zenon DEF Retainable
      <4>3. metrics' = [metrics EXCEPT !.handled = Max({metrics.handled, ticket.seq}),
                                       !.retained = [metrics.retained EXCEPT !.acknowledged = TRUE]]
        BY <1>17, <2>1, Zenon DEF Claim, Counters
      <4> QED
        BY <3>2, <4>2, <4>3, HandledCounters, Zenon DEF TypeOK
    <3>4. seen' \in Observations
      BY <1>17, <2>1, <3>1 DEF Claim, Observations, TypeOK
    <3> QED
      BY <1>17, <3>3, <3>4, Zenon DEF Claim, TypeOK
  <2>2. CASE ~(~ticket.rides /\ IsCurrent(ticket))
    BY <1>17, <2>2, Zenon DEF Claim, TypeOK
  <2> QED
    BY <2>1, <2>2, Zenon
<1>18. CASE UNCHANGED vars
  BY <1>18, Zenon DEF vars, TypeOK
<1> QED
  BY <1>1, <1>2, <1>3, <1>4, <1>5, <1>6, <1>7, <1>8, <1>9, <1>10, <1>11, <1>12, <1>13, <1>14,
     <1>15, <1>16, <1>17, <1>18, Zenon DEF Next

\* Only a lane that settles later gets mail.
LEMMA MailStep ==
  ASSUME TypeOK, MailIsLater, [Next]_vars
  PROVE  MailIsLater'
<1>1. CASE Submit
  BY <1>1, Zenon DEF Submit, MailIsLater, TypeOK, Lanes
<1>2. CASE LaneClaims \/ LaneSettles \/ DirectWrite \/ LaneCloses
  BY <1>2, Zenon DEF LaneClaims, LaneSettles, DirectWrite, LaneCloses, MailIsLater, TypeOK, Lanes
<1>3. CASE UNCHANGED <<policy, lane>>
  BY <1>3, Zenon DEF MailIsLater
<1> QED
  BY <1>1, <1>2, <1>3, Zenon DEF Next, vars, PushBegins, PushDecides, Recover, Reuse, DropQueue,
     TakeLatest, PickNewer, Resume, WorkerPanics, ReassertDue, TakeTicket, Claim

\* Every step keeps the frames on their way unsettled and in order, and what was
\* recorded in step with what happened.
LEMMA OrderStep ==
  ASSUME TypeOK, Control, MailIsLater, Records, InOrder, [Next]_vars, TypeOK'
  PROVE  Control' /\ Records' /\ InOrder'
<1>0. /\ seq \in Nat /\ seq' \in Nat /\ gen \in Nat /\ Issued \in Int
      /\ slot # None \/ unseen => slot.seq \in 1..MaxSeq
      /\ lane.mail # None => lane.mail \in Frames /\ lane.mail.seq \in 1..MaxSeq
      /\ lane.wire # None => lane.wire \in Frames /\ lane.wire.seq \in 1..MaxSeq
      /\ worker.pc = "submit" => worker.frame.seq \in 1..MaxSeq
  BY QueueAssumption DEF TypeOK, Payloads, Lanes, Frames, Issued, Control
<1>00. \A s \in 1..MaxSeq : Unsettled(s) => s <= Issued
  BY Zenon DEF Unsettled, Untouched
<1>1. ASSUME NEW c \in Colors, PushBegins(c)
      PROVE  Control' /\ Records' /\ InOrder'
  <2>1. /\ seen'.run = seen.run /\ seen'.written = seen.written /\ seen'.failed = seen.failed
        /\ seen'.claimed = seen.claimed
    BY <1>1, Zenon DEF PushBegins, TypeOK, Observations
  <2>2. call'.pc = "decide" /\ call'.color = c /\ call'.dead = (worker.pc = "dead")
    BY <1>1, Zenon DEF PushBegins
  <2>3. Issued' = seq /\ Issued = seq
    BY <1>0, <1>1, <2>2 DEF PushBegins, Issued
  <2>4. Records' /\ \A s \in 1..MaxSeq : Unsettled(s) => Unsettled(s)'
    BY <1>0, <1>1, <2>1, <2>3, RecordsKept DEF PushBegins
  <2>7. UNCHANGED <<slot, unseen, gen, worker, lane>> /\ seq' = seq + 1
    BY <1>1, Zenon DEF PushBegins
  <2>8. call'.dead => worker.pc = "dead"
    BY <2>2, Zenon
  <2>5. Control'
    BY <1>0, <2>2, <2>3, <2>7, <2>8 DEF Control
  <2>6. InOrder'
    BY <1>0, <2>4, <2>7, Zenon DEF InOrder, Current, Unsettled
  <2> QED
    BY <2>4, <2>5, <2>6, Zenon
<1>2. CASE PushDecides
  <2>1. /\ seen'.run = seen.run /\ seen'.written = seen.written /\ seen'.failed = seen.failed
        /\ seen'.claimed = seen.claimed
    BY <1>2, Zenon DEF PushDecides, TypeOK, Observations
  <2>2. /\ call'.pc \in {"idle", "recover"}
        /\ call'.dead => call.dead
        /\ call'.pc = "recover" => call'.dead /\ call'.color = call.color
    BY <1>2, Zenon DEF PushDecides, NoCall, TypeOK, Calls
  <2>3. Issued' = seq /\ Issued = seq - 1
    <3>1. call.pc = "decide" /\ seq' = seq
      BY <1>2, Zenon DEF PushDecides
    <3>2. call'.pc # "decide"
      BY <2>2, Zenon
    <3> QED
      BY <1>0, <3>1, <3>2, Zenon DEF Issued
  <2>4. Records' /\ \A s \in 1..MaxSeq : Unsettled(s) => Unsettled(s)'
    BY <1>0, <1>2, <2>1, <2>3, RecordsKept DEF PushDecides
  <2>5. Untouched(seq, metrics', seen', gen', Issued')
    BY <1>0, <1>2, <2>1, <2>3, NextIsUnsettled DEF PushDecides, Unsettled
  <2>6. \/ slot' = [color |-> call.color, seq |-> seq] /\ unseen' = TRUE
        \/ slot' = slot /\ unseen' = unseen
    BY <1>2, Zenon DEF PushDecides, Publish
  <2>9. UNCHANGED <<seq, gen, worker, lane>> /\ call.pc = "decide"
    BY <1>2, Zenon DEF PushDecides
  <2>10. [color |-> call.color, seq |-> seq] \in Payloads
    BY <1>0, <2>9 DEF Control, TypeOK, Payloads
  <2>7. Control'
    BY <1>0, <2>2, <2>3, <2>6, <2>9, <2>10 DEF Control
  <2>8. InOrder'
    BY <1>0, <1>00, <2>3, <2>4, <2>5, <2>6, <2>9, <2>10 DEF InOrder, Current, Unsettled
  <2> QED
    BY <2>4, <2>7, <2>8, Zenon
<1>3. CASE Recover
  <2>1. Issued' = seq /\ Issued = seq
    BY <1>3, Zenon DEF Recover, Issued, NoCall
  <2>2. /\ metrics'.handled = 0 /\ metrics'.error = 0 /\ metrics'.streak = 0
        /\ metrics'.retained = None
    BY <1>3, Zenon DEF Recover, NewMetrics
  <2>3. /\ seen'.run = 0 /\ seen'.written = 0 /\ seen'.failed = 0
        /\ seen'.claimed = seen.claimed
    BY <1>3, Zenon DEF Recover, Afresh, TypeOK, Observations
  <2>4. \A c \in seen.claimed : c[1] \in Int /\ c[1] <= gen
    BY DEF Records, TypeOK, Observations
  <2>5. gen' = gen + 1
    BY <1>3, Zenon DEF Recover
  <2>6. \A c \in seen.claimed : c[1] # gen' /\ c[1] <= gen'
    BY <1>0, <2>4, <2>5
  <2>7. Records'
    BY <1>0, <2>1, <2>2, <2>3, <2>6 DEF Records, ClaimedNow
  <2>8. \A s \in 1..MaxSeq : s <= seq => Untouched(s, metrics', seen', gen', Issued')
    BY <2>1, <2>2, <2>3, <2>6 DEF Untouched
  <2>9. unseen' => slot' = slot /\ slot # None
    BY <1>3, Zenon DEF Recover
  <2>10. worker'.pc = "wait" /\ call'.pc = "idle" /\ call'.dead = FALSE
    BY <1>3, Zenon DEF Recover, NewWorker, NoCall
  <2>11. Control'
    BY <1>0, <1>3, <2>1, <2>5, <2>9, <2>10 DEF Recover, Control, TypeOK, Frames, Lanes
  <2>12. ~Current(lane.mail)' /\ ~Current(lane.wire)'
    BY <1>0, <1>3, <2>5 DEF Recover, Control, Current, Frames
  <2>13. InOrder'
    BY <1>0, <2>1, <2>8, <2>9, <2>10, <2>12, Zenon DEF InOrder, Unsettled, Control
  <2> QED
    BY <2>7, <2>11, <2>13, Zenon
<1>4. CASE Reuse
  <2>1. Issued = seq /\ Issued' = seq'
    BY <1>4, Zenon DEF Reuse, Issued
  <2>2. \/ /\ seq' = seq + 1 /\ unseen' = TRUE /\ slot # None
           /\ slot' = [color |-> slot.color, seq |-> seq + 1]
        \/ seq' = seq /\ unseen' = unseen /\ slot' = slot
    BY <1>4, Zenon DEF Reuse, Publish
  <2>3. Records' /\ \A s \in 1..MaxSeq : Unsettled(s) => Unsettled(s)'
    BY <1>0, <1>4, <2>1, <2>2, RecordsKept DEF Reuse
  <2>4. seq' = seq + 1 => Untouched(seq + 1, metrics', seen', gen', Issued')
    BY <1>0, <1>4, <2>1, NextIsUnsettled DEF Reuse, Unsettled
  <2>5. worker'.pc = worker.pc /\ worker'.frame = worker.frame
    BY <1>4, Zenon DEF Reuse, TypeOK
  <2>6. Control'
    BY <1>0, <1>4, <2>1, <2>2, <2>5 DEF Reuse, Control, TypeOK, Payloads
  <2>7. InOrder'
    BY <1>0, <1>00, <1>4, <2>1, <2>2, <2>3, <2>4, <2>5 DEF Reuse, InOrder, Current, Unsettled
  <2> QED
    BY <2>3, <2>6, <2>7, Zenon
<1>11. CASE ReassertDue
  <2>1. Issued = seq /\ Issued' = seq'
    BY <1>11, Zenon DEF ReassertDue, Issued, Locked
  <2>2. \/ /\ seq' = seq + 1 /\ unseen' = TRUE /\ slot # None
           /\ slot' = [color |-> slot.color, seq |-> seq + 1]
        \/ seq' = seq /\ unseen' = unseen /\ slot' = slot
    BY <1>11, Zenon DEF ReassertDue, Publish
  <2>3. Records' /\ \A s \in 1..MaxSeq : Unsettled(s) => Unsettled(s)'
    BY <1>0, <1>11, <2>1, <2>2, RecordsKept DEF ReassertDue
  <2>4. seq' = seq + 1 => Untouched(seq + 1, metrics', seen', gen', Issued')
    BY <1>0, <1>11, <2>1, NextIsUnsettled DEF ReassertDue, Unsettled
  <2>5. worker'.pc = worker.pc /\ worker'.frame = worker.frame
    BY <1>11, Zenon DEF ReassertDue, TypeOK, Tasks
  <2>6. Control'
    BY <1>0, <1>11, <2>1, <2>2, <2>5 DEF ReassertDue, Control, TypeOK, Payloads
  <2>7. InOrder'
    BY <1>0, <1>00, <1>11, <2>1, <2>2, <2>3, <2>4, <2>5 DEF ReassertDue, InOrder, Current, Unsettled
  <2> QED
    BY <2>3, <2>6, <2>7, Zenon
<1>6. CASE TakeLatest
  <2>1. Issued' = Issued
    BY <1>6, Zenon DEF TakeLatest, Issued
  <2>2. Records' /\ \A s \in 1..MaxSeq : Unsettled(s) => Unsettled(s)'
    BY <1>0, <1>6, <2>1, RecordsKept DEF TakeLatest
  <2>3. /\ worker'.pc = "submit" /\ worker'.frame = [color |-> slot.color, gen |-> gen, seq |-> slot.seq]
        /\ unseen' = FALSE /\ unseen = TRUE
    BY <1>6, Zenon DEF TakeLatest, Latest, TypeOK, Tasks
  <2>4. slot \in Payloads /\ worker'.frame \in Frames
    BY <1>6, <2>3 DEF TakeLatest, Control, TypeOK, Payloads, Frames
  <2>5. Control'
    BY <1>0, <1>6, <2>1, <2>3, <2>4 DEF TakeLatest, Control
  <2>6. InOrder'
    BY <1>0, <1>6, <2>2, <2>3, <2>4 DEF TakeLatest, InOrder, Current, Unsettled, Payloads
  <2> QED
    BY <2>2, <2>5, <2>6, Zenon
<1>7. CASE PickNewer
  <2>1. Issued' = Issued
    BY <1>7, Zenon DEF PickNewer, Issued
  <2>2. Records' /\ \A s \in 1..MaxSeq : Unsettled(s) => Unsettled(s)'
    BY <1>0, <1>7, <2>1, RecordsKept DEF PickNewer
  <2>3. /\ worker'.pc = "submit" /\ worker'.frame = [color |-> slot.color, gen |-> gen, seq |-> slot.seq]
        /\ unseen' = FALSE /\ unseen = TRUE
    BY <1>7, Zenon DEF PickNewer, Latest, TypeOK, Tasks
  <2>4. slot \in Payloads /\ worker'.frame \in Frames
    BY <1>7, <2>3 DEF PickNewer, Control, TypeOK, Payloads, Frames
  <2>5. Control'
    BY <1>0, <1>7, <2>1, <2>3, <2>4 DEF PickNewer, Control
  <2>6. InOrder'
    BY <1>0, <1>7, <2>2, <2>3, <2>4 DEF PickNewer, InOrder, Current, Unsettled, Payloads
  <2> QED
    BY <2>2, <2>5, <2>6, Zenon
<1>5. CASE DropQueue
  <2>1. Records' /\ \A s \in 1..MaxSeq : Unsettled(s) => Unsettled(s)'
    BY <1>5, <1>0, RecordsKept DEF DropQueue, Issued
  <2> QED
    BY <1>5, <1>0, <2>1 DEF DropQueue, Control, InOrder, Current, Issued, Unsettled
<1>9. CASE Resume
  <2>1. Records' /\ \A s \in 1..MaxSeq : Unsettled(s) => Unsettled(s)'
    BY <1>9, <1>0, RecordsKept DEF Resume, Issued
  <2> QED
    BY <1>9, <1>0, <2>1, Zenon DEF Resume, Waiting, TypeOK, Tasks, Control, InOrder, Current,
       Issued, Unsettled
<1>16. CASE TakeTicket
  <2>1. Records' /\ \A s \in 1..MaxSeq : Unsettled(s) => Unsettled(s)'
    BY <1>16, <1>0, RecordsKept DEF TakeTicket, Issued
  <2> QED
    BY <1>16, <1>0, <2>1 DEF TakeTicket, Control, InOrder, Current, Issued, Unsettled
<1>8. CASE Submit
  <2>1. worker.frame \in Frames /\ worker.frame.gen = gen /\ Unsettled(worker.frame.seq)
    BY <1>8, Zenon DEF Submit, Control, InOrder
  <2>2. UNCHANGED <<slot, unseen, seq, call, gen>> /\ worker.pc = "submit"
    BY <1>8, Zenon DEF Submit
  <2>3. Issued' = Issued
    BY <2>2, Zenon DEF Issued
  <2>4. worker'.pc \in {"wait", "await"}
    BY <1>8, Zenon DEF Submit, Waiting, TypeOK, Tasks
  <2>5. CASE ~lane.open /\ Receipt(worker.frame, "failed") /\ lane' = lane
    <3>1. Records' /\ \A s \in 1..MaxSeq :
            Unsettled(s) /\ s # worker.frame.seq => Unsettled(s)'
      BY <2>1, <2>2, <2>5, ReceiptRecords, Zenon DEF Outcomes, Failures
    <3>2. Control'
      BY <2>2, <2>3, <2>4, <2>5, Zenon DEF Control
    <3>3. InOrder'
      BY <1>0, <2>1, <2>2, <2>4, <2>5, <3>1 DEF InOrder, Current, Unsettled
    <3> QED
      BY <3>1, <3>2, <3>3, Zenon
  <2>6. CASE lane' = [lane EXCEPT !.wire = worker.frame] /\ policy.inline /\ UNCHANGED <<metrics, seen>>
    <3>1. Records' /\ \A s \in 1..MaxSeq : Unsettled(s) => Unsettled(s)'
      BY <1>0, <2>2, <2>3, <2>6, RecordsKept
    <3>2. lane'.wire = worker.frame /\ lane'.mail = lane.mail
      BY <2>6, Zenon DEF TypeOK, Lanes
    <3>3. Control'
      BY <1>0, <2>1, <2>2, <2>3, <2>4, <3>2 DEF Control
    <3>4. InOrder'
      BY <1>0, <2>1, <2>2, <2>4, <2>6, <3>1, <3>2, Zenon DEF InOrder, Current, Unsettled,
         MailIsLater
    <3> QED
      BY <3>1, <3>3, <3>4, Zenon
  <2>7. CASE /\ lane' = [lane EXCEPT !.mail = worker.frame]
             /\ IF lane.mail = None THEN UNCHANGED <<metrics, seen>>
                ELSE Receipt(lane.mail, "superseded")
    <3>1. Records' /\ \A s \in 1..MaxSeq :
            Unsettled(s) /\ (Current(lane.mail) => s # lane.mail.seq) => Unsettled(s)'
      <4>1. CASE lane.mail = None
        BY <1>0, <2>2, <2>3, <2>7, <4>1, RecordsKept
      <4>2. CASE lane.mail # None
        <5>1. lane.mail.gen = gen => Unsettled(lane.mail.seq)
          BY <4>2, Zenon DEF InOrder, Current
        <5> QED
          BY <1>0, <2>2, <2>7, <4>2, <5>1, ReceiptRecords, Zenon DEF Outcomes, Failures, Current
      <4> QED
        BY <4>1, <4>2, Zenon
    <3>2. lane'.mail = worker.frame /\ lane'.wire = lane.wire
      BY <2>7, Zenon DEF TypeOK, Lanes
    <3>3. Control'
      BY <1>0, <2>1, <2>2, <2>3, <2>4, <3>2 DEF Control
    <3>4. Current(lane.mail) => lane.mail.seq < worker.frame.seq
      BY <2>2, Zenon DEF InOrder
    <3>5. Untouched(worker.frame.seq, metrics', seen', gen', Issued')
      BY <1>0, <2>1, <2>2, <3>1, <3>4 DEF Unsettled
    <3>6. unseen => Untouched(slot.seq, metrics', seen', gen', Issued')
      BY <1>0, <3>1 DEF Unsettled, InOrder
    <3>7. Current(lane.wire) => Untouched(lane.wire.seq, metrics', seen', gen', Issued')
      BY <1>0, <3>1 DEF Unsettled, InOrder, Current
    <3>8. InOrder'
      BY <1>0, <2>1, <2>2, <2>4, <3>2, <3>5, <3>6, <3>7, Zenon DEF InOrder, Current, Unsettled
    <3> QED
      BY <3>1, <3>3, <3>8, Zenon
  <2> QED
    BY <1>8, <2>5, <2>6, <2>7, Zenon DEF Submit
<1>10. CASE WorkerPanics
  <2>1. worker.frame \in Frames /\ worker.frame.gen = gen /\ Unsettled(worker.frame.seq)
    BY <1>10, Zenon DEF WorkerPanics, Control, InOrder
  <2>2. /\ UNCHANGED <<slot, unseen, seq, call, gen, lane>> /\ worker.pc = "submit"
        /\ Receipt(worker.frame, "failed") /\ gen < MaxGen
    BY <1>10, Zenon DEF WorkerPanics
  <2>3. Issued' = Issued
    BY <2>2, Zenon DEF Issued
  <2>4. worker'.pc = "dead"
    BY <1>10, Zenon DEF WorkerPanics, NewWorker
  <2>5. Records' /\ \A s \in 1..MaxSeq : Unsettled(s) /\ s # worker.frame.seq => Unsettled(s)'
    BY <2>1, <2>2, ReceiptRecords, Zenon DEF Outcomes, Failures
  <2>6. Control'
    BY <2>2, <2>3, <2>4, Zenon DEF Control
  <2>7. InOrder'
    BY <1>0, <2>1, <2>2, <2>4, <2>5 DEF InOrder, Current, Unsettled
  <2> QED
    BY <2>5, <2>6, <2>7, Zenon
<1>12. CASE LaneClaims
  <2>1. UNCHANGED <<slot, unseen, seq, call, gen, worker>>
    BY <1>12, Zenon DEF LaneClaims
  <2>2. Issued' = Issued
    BY <2>1, Zenon DEF Issued
  <2>3. lane.mail # None /\ lane'.mail = None /\ lane'.wire = lane.mail
    BY <1>12, Zenon DEF LaneClaims, TypeOK, Lanes
  <2>4. Records' /\ \A s \in 1..MaxSeq :
          Unsettled(s) /\ (Current(lane.wire) => s # lane.wire.seq) => Unsettled(s)'
    <3>1. CASE UNCHANGED <<metrics, seen>>
      BY <1>0, <2>1, <2>2, <3>1, RecordsKept
    <3>2. CASE lane.wire # None /\ Receipt(lane.wire, "superseded")
      <4>1. lane.wire.gen = gen => Unsettled(lane.wire.seq)
        BY <3>2, Zenon DEF InOrder, Current
      <4> QED
        BY <1>0, <2>1, <3>2, <4>1, ReceiptRecords, Zenon DEF Outcomes, Failures, Current
    <3> QED
      BY <1>12, <3>1, <3>2, Zenon DEF LaneClaims
  <2>5. Control'
    BY <1>0, <2>1, <2>2, <2>3, Zenon DEF Control
  <2>6. InOrder'
    BY <1>0, <2>1, <2>3, <2>4 DEF InOrder, Current, Unsettled
  <2> QED
    BY <2>4, <2>5, <2>6, Zenon
<1>14. CASE DirectWrite
  <2>1. UNCHANGED <<slot, unseen, seq, call, gen, worker>>
    BY <1>14, Zenon DEF DirectWrite
  <2>2. Issued' = Issued
    BY <2>1, Zenon DEF Issued
  <2>3. lane'.mail = None /\ lane'.wire = lane.wire
    BY <1>14, Zenon DEF DirectWrite, TypeOK, Lanes
  <2>4. Records' /\ \A s \in 1..MaxSeq :
          Unsettled(s) /\ (Current(lane.mail) => s # lane.mail.seq) => Unsettled(s)'
    <3>1. CASE UNCHANGED <<metrics, seen>>
      BY <1>0, <2>1, <2>2, <3>1, RecordsKept
    <3>2. CASE lane.mail # None /\ Receipt(lane.mail, "superseded")
      <4>1. lane.mail.gen = gen => Unsettled(lane.mail.seq)
        BY <3>2, Zenon DEF InOrder, Current
      <4> QED
        BY <1>0, <2>1, <3>2, <4>1, ReceiptRecords, Zenon DEF Outcomes, Failures, Current
    <3> QED
      BY <1>14, <3>1, <3>2, Zenon DEF DirectWrite
  <2>5. Control'
    BY <1>0, <2>1, <2>2, <2>3, Zenon DEF Control
  <2>6. InOrder'
    BY <1>0, <2>1, <2>3, <2>4 DEF InOrder, Current, Unsettled
  <2> QED
    BY <2>4, <2>5, <2>6, Zenon
<1>15. CASE LaneCloses
  <2>1. UNCHANGED <<slot, unseen, seq, call, gen, worker>>
    BY <1>15, Zenon DEF LaneCloses
  <2>2. Issued' = Issued
    BY <2>1, Zenon DEF Issued
  <2>3. lane'.mail = None /\ lane'.wire = lane.wire
    BY <1>15, Zenon DEF LaneCloses, TypeOK, Lanes
  <2>4. Records' /\ \A s \in 1..MaxSeq :
          Unsettled(s) /\ (Current(lane.mail) => s # lane.mail.seq) => Unsettled(s)'
    <3>1. CASE UNCHANGED <<metrics, seen>>
      BY <1>0, <2>1, <2>2, <3>1, RecordsKept
    <3>2. CASE lane.mail # None /\ Receipt(lane.mail, "failed")
      <4>1. lane.mail.gen = gen => Unsettled(lane.mail.seq)
        BY <3>2, Zenon DEF InOrder, Current
      <4> QED
        BY <1>0, <2>1, <3>2, <4>1, ReceiptRecords, Zenon DEF Outcomes, Failures, Current
    <3> QED
      BY <1>15, <3>1, <3>2, Zenon DEF LaneCloses
  <2>5. Control'
    BY <1>0, <2>1, <2>2, <2>3, Zenon DEF Control
  <2>6. InOrder'
    BY <1>0, <2>1, <2>3, <2>4 DEF InOrder, Current, Unsettled
  <2> QED
    BY <2>4, <2>5, <2>6, Zenon
<1>13. CASE LaneSettles
  <2>1. lane.wire # None /\ (lane.wire.gen = gen => Unsettled(lane.wire.seq))
    BY <1>13, Zenon DEF LaneSettles, InOrder, Current
  <2>2. UNCHANGED <<slot, unseen, seq, call, gen>>
    BY <1>13, Zenon DEF LaneSettles
  <2>3. PICK outcome \in Possible(lane.wire) : Receipt(lane.wire, outcome)
    BY <1>13, Zenon DEF LaneSettles
  <2>4. outcome \in Outcomes
    BY <2>3, Zenon DEF Possible, Outcomes, Failures
  <2>5. Records' /\ \A s \in 1..MaxSeq :
          Unsettled(s) /\ (Current(lane.wire) => lane.wire.seq < s) => Unsettled(s)'
    BY <1>0, <2>1, <2>2, <2>3, <2>4, ReceiptRecords, Zenon DEF Current
  <2>6. /\ lane'.mail = lane.mail /\ lane'.wire = None
        /\ worker'.pc = worker.pc /\ worker'.frame = worker.frame
    BY <1>13, Zenon DEF LaneSettles, TypeOK, Lanes, Tasks
  <2>7. Issued' = Issued
    BY <2>2, Zenon DEF Issued
  <2>8. Control'
    BY <1>0, <2>2, <2>6, <2>7, Zenon DEF Control
  <2>9. InOrder'
    BY <1>0, <2>1, <2>2, <2>5, <2>6, Zenon DEF InOrder, Current, Unsettled
  <2> QED
    BY <2>5, <2>8, <2>9, Zenon
<1>17. CASE Claim
  <2>1. UNCHANGED <<slot, unseen, seq, call, gen, worker, lane>>
    BY <1>17, Zenon DEF Claim
  <2>2. Issued' = Issued
    BY <2>1, Zenon DEF Issued
  <2>3. Records' /\ \A s \in 1..MaxSeq : Unsettled(s) => Unsettled(s)'
    <3>1. CASE ~(~ticket.rides /\ IsCurrent(ticket))
      BY <1>0, <1>17, <2>1, <2>2, <3>1, RecordsKept DEF Claim
    <3>2. CASE ~ticket.rides /\ IsCurrent(ticket)
      <4>1. /\ metrics.retained # None /\ metrics.retained.seq = ticket.seq
            /\ ticket.seq \in 1..MaxSeq /\ metrics.handled \in 0..MaxSeq
            /\ metrics.handled < ticket.seq /\ seen.written \in 0..MaxSeq
            /\ seen.claimed \in SUBSET ((1..MaxGen) \X (1..MaxSeq))
        BY <1>17, <3>2, Zenon DEF Claim, IsCurrent, FailureMatches, TypeOK, Tickets, Counters,
           Observations
      <4>2. Max({metrics.handled, ticket.seq}) = ticket.seq
        BY <4>1, MaxOfTwo
      <4>3. /\ metrics'.handled = ticket.seq /\ metrics'.error = metrics.error
            /\ metrics'.retained.seq = ticket.seq /\ metrics'.retained.acknowledged = TRUE
        <5>1. metrics' = [metrics EXCEPT !.handled = ticket.seq,
                            !.retained = [metrics.retained EXCEPT !.acknowledged = TRUE]]
          BY <1>17, <3>2, <4>2, Zenon DEF Claim, TypeOK, Counters
        <5>2. metrics \in Counters /\ metrics.retained \in Retainable
          BY <4>1, Zenon DEF TypeOK, Counters
        <5> QED
          BY <4>1, <5>1, <5>2, Zenon DEF Counters, Retainable
      <4>4. /\ seen'.claimed = seen.claimed \cup {<<gen, ticket.seq>>}
            /\ seen'.written = seen.written /\ seen'.failed = seen.failed
        BY <1>17, <3>2, Zenon DEF Claim, TypeOK, Observations
      <4>5. Records'
        BY <1>0, <2>1, <2>2, <4>1, <4>3, <4>4 DEF Records, ClaimedNow
      <4>6. \A s \in 1..MaxSeq : Unsettled(s) => Unsettled(s)'
        <5>1. \E c \in seen'.claimed : c[1] = gen
          <6>1. <<gen, ticket.seq>> \in seen'.claimed /\ <<gen, ticket.seq>>[1] = gen
            BY <4>4, Zenon
          <6> QED
            BY <6>1, Zenon
        <5>2. \A s \in 1..MaxSeq : s # ticket.seq => <<gen, s>> # <<gen, ticket.seq>>
          BY Zenon
        <5> QED
          BY <2>1, <2>2, <4>1, <4>3, <4>4, <5>1, <5>2, Zenon DEF Unsettled, Untouched
      <4> QED
        BY <4>5, <4>6, Zenon
    <3> QED
      BY <3>1, <3>2, Zenon
  <2>4. Control'
    BY <2>1, <2>2, Zenon DEF Control
  <2>5. InOrder'
    BY <1>0, <2>1, <2>3, Zenon DEF InOrder, Current, Unsettled
  <2> QED
    BY <2>3, <2>4, <2>5, Zenon
<1>18. CASE UNCHANGED vars
  BY <1>18 DEF vars, Control, Records, InOrder, Current, Unsettled, Issued, ClaimedNow
<1> QED
  BY <1>1, <1>2, <1>3, <1>4, <1>5, <1>6, <1>7, <1>8, <1>9, <1>10, <1>11, <1>12, <1>13, <1>14,
     <1>15, <1>16, <1>17, <1>18, Zenon DEF Next

\* At the start nothing was pushed.
LEMMA InitIInv == Init => IInv
<1> SUFFICES ASSUME Init PROVE IInv
  BY Zenon
<1>1. TypeOK
  <2>1. policy.copies \in Nat \ {0}
    BY QueueAssumption, Zenon DEF AllPolicies, Init
  <2>0. 0 \in Nat /\ 0 \in 0..MaxSeq
    BY QueueAssumption
  <2>2. call \in Calls
    BY Zenon DEF NoCall, Calls, Init
  <2>3. /\ metrics \in Counters
        /\ worker \in Tasks
        /\ lane \in Lanes
    <3>1. metrics \in Counters
      BY <2>0, Zenon DEF NewMetrics, Counters, Init
    <3>2. worker \in Tasks
      BY Zenon DEF NewWorker, Tasks, Init
    <3>3. lane \in Lanes
      BY Zenon DEF Lanes, Init
    <3> QED
      BY <3>1, <3>2, <3>3, Zenon
  <2>4. seen \in Observations
    BY <2>0, Zenon DEF NewSeen, Observations, Init
  <2>5. seq \in 0..MaxSeq /\ gen \in 1..MaxGen /\ owed \in 0..(policy.copies - 1)
    BY <2>1, QueueAssumption DEF Init
  <2>6. live \in BOOLEAN /\ unseen \in BOOLEAN /\ slot = None /\ ticket = None
    BY Zenon DEF Init
  <2>7. policy \in Policies
    BY Zenon DEF Init
  <2> QED
    BY <2>2, <2>3, <2>4, <2>5, <2>6, <2>7, Zenon DEF TypeOK
<1>2. Control /\ InOrder
  BY Zenon DEF Control, InOrder, Current, NoCall, NewWorker, Init
<1>3. Records /\ MailIsLater
  BY DEF MailIsLater, Records, NewMetrics, NewSeen, NoCall, Issued, ClaimedNow, Init
<1> QED
  BY <1>1, <1>2, <1>3, Zenon DEF IInv

\* The inductive invariant holds.
LEMMA Invariance == Spec => []IInv
<1>1. IInv /\ [Next]_vars => IInv'
  BY TypeStep, OrderStep, MailStep, Zenon DEF IInv
<1> QED
  BY <1>1, InitIInv, PTL DEF Spec

\* consecutive_failures counts the failures since the last delivery that completed
\* in this generation, for any policy and any number of frames, whenever their
\* receipts come and whatever was recovered, until a failure is claimed.
THEOREM StreakIsAlwaysTrue == Spec => []StreakIsTrue
<1>1. IInv => StreakIsTrue
  BY Zenon DEF IInv, Records, ClaimedNow, StreakIsTrue
<1> QED
  BY <1>1, Invariance, PTL

\* claim_current_async_write_failures acknowledges only the last failure of the
\* current generation, with no delivery completed after it, and none twice,
\* however long the ticket was held.
THEOREM ClaimsAreAlwaysCurrent == Spec => ClaimsAreCurrent
<1> DEFINE A == (ticket # None /\ ticket' = None /\ metrics' # metrics) =>
                  /\ live /\ ticket.gen = gen
                  /\ <<gen, ticket.seq>> \notin seen.claimed
                  /\ ticket.seq = seen.failed /\ seen.written < ticket.seq
<1>1. IInv /\ [Next]_vars => [A]_vars
  <2> SUFFICES ASSUME IInv, [Next]_vars, ticket # None, ticket' = None, metrics' # metrics
               PROVE  A
    BY Zenon
  <2>1. Claim
    BY Zenon DEF Next, vars, PushBegins, PushDecides, Recover, Reuse, DropQueue, TakeLatest,
       PickNewer, Submit, Resume, WorkerPanics, ReassertDue, LaneClaims, LaneSettles, DirectWrite,
       LaneCloses, TakeTicket
  <2>2. IsCurrent(ticket)
    BY <2>1, Zenon DEF Claim
  <2>3. metrics.handled \in Int /\ seen.written \in Int /\ ticket.seq \in Int
    BY DEF IInv, TypeOK, Counters, Observations, Tickets
  <2> QED
    BY <2>2, <2>3 DEF IInv, Records, IsCurrent, FailureMatches
<1> QED
  BY <1>1, Invariance, PTL DEF Spec, ClaimsAreCurrent
-----------------------------------------------------------------------------
(***************************************************************************)
(* Where the latest frame is.  Until a failure is claimed or the lane      *)
(* closes, the frame in the slot is always with the worker, in the mail,   *)
(* on the wire, shown, deferred with a worker that will look again, or     *)
(* ended in a way the next push notices.                                   *)
(***************************************************************************)
\* What a frame and a counter of this generation have to do with the slot.
Placed ==
  /\ seen.base > 0 \/ metrics.undelivered > 0 => slot # None
  /\ slot # None => seen.base <= slot.seq /\ metrics.undelivered <= slot.seq
  /\ worker.pc = "submit" =>
       slot # None /\ worker.frame.seq <= slot.seq /\ (~unseen => worker.frame = Latest)
  /\ Current(lane.mail) => slot # None /\ lane.mail.seq <= slot.seq
  /\ Current(lane.wire) => slot # None /\ lane.wire.seq <= slot.seq
  /\ lane.mail # None /\ Current(lane.wire) => Current(lane.mail)

\* What the lane's kind and its state rule out.
LaneRules ==
  /\ policy.inline /\ worker.pc # "await" => lane.wire = None
  /\ ~lane.open => lane.mail = None
  /\ seen.late => ~lane.open

\* A failure waits for the lifecycle task and the frame being sent cannot hide it.
Waits == Pending(metrics) # None /\ (Current(lane.wire) => lane.wire.seq < metrics.retained.seq)

\* A delivery that failed late is on its way to be noticed, or was.
Surfacing ==
  /\ worker.pc = "dead" /\ policy.inline => Claimed \/ Pending(metrics) # None
  /\ seen.late /\ call.pc = "decide" => call.fresh
  /\ seen.late /\ call.pc = "recover" => unseen
  /\ seen.late /\ call.pc # "decide" => unseen \/ worker.pc = "submit" \/ Claimed \/ Waits

\* Nobody has claimed a failure and the lane takes frames.
Serving == ~Claimed /\ lane.open

\* What the render loop pushed last is what the slot holds.
Pushed ==
  /\ call.pc = "decide" =>
       /\ call.color = seen.latest
       /\ ~call.fresh => slot # None /\ slot.color = call.color
  /\ Serving /\ call.pc # "decide" =>
       IF slot = None THEN seen.latest = None ELSE slot.color = seen.latest

\* The latest frame ended undelivered, and no frame ahead of it can hide that.
Ended ==
  /\ slot.seq > metrics.handled /\ lane.mail = None
  /\ \/ metrics.error = slot.seq /\ lane.wire = None
     \/ /\ metrics.undelivered = slot.seq
        /\ lane.wire # None => ~policy.inline
        /\ Current(lane.wire) => lane.wire.seq < slot.seq

\* Nothing is under way and the latest frame is confirmed.
Quiet == lane.wire = None /\ lane.mail = None /\ metrics.handled = slot.seq

\* The device shows the latest frame.
Shown == Quiet /\ lane.shown = slot.color

\* The latest frame was deferred, and the worker is to look at it again.
Deferred ==
  /\ Quiet /\ policy.copies = 1
  /\ \/ worker.pc = "wait" /\ worker.armed
     \/ worker.pc = "await" /\ worker.result = "deferred"

\* Where the latest frame can be while the worker lives.
Whereabouts ==
  \/ unseen
  \/ worker.pc = "submit" /\ worker.frame = Latest
  \/ lane.mail = Latest \/ lane.wire = Latest
  \/ Ended \/ Shown \/ Deferred

\* Under a dead worker the latest frame is unconfirmed, for its successor to send.
Unconfirmed ==
  /\ slot # None /\ slot.seq > metrics.handled
  /\ Current(lane.mail) => lane.mail.seq < slot.seq
  /\ Current(lane.wire) => lane.wire.seq < slot.seq

\* The latest frame is never out of sight.
Tracked ==
  /\ Serving /\ worker.pc = "dead" => Unconfirmed
  /\ Serving /\ worker.pc # "dead" /\ slot # None => Whereabouts

\* The copies sent and the copies owed make up the number promised for a colour.
Counted ==
  gen = 1 /\ policy.copies > 1 /\ ~Claimed /\ slot # None =>
    /\ owed + seen.copies + 1 >= policy.copies
    /\ metrics.handled = slot.seq => owed + seen.copies >= policy.copies

\* The inductive invariant of the deliveries, next to IInv.
Delivery == Placed /\ LaneRules /\ Surfacing /\ Pushed /\ Tracked /\ Counted
-----------------------------------------------------------------------------
\* The ranges of what the steps compare.
LEMMA Ranges ==
  ASSUME TypeOK, Control
  PROVE  /\ seq \in Nat /\ gen \in Nat /\ Issued \in Int /\ owed \in Nat
         /\ policy.copies \in Nat
         /\ metrics.handled \in Nat /\ metrics.error \in Nat /\ metrics.undelivered \in Nat
         /\ metrics.retained # None => metrics.retained.seq \in Nat
         /\ seen.base \in Nat /\ seen.copies \in Nat
         /\ slot # None => slot \in Payloads /\ slot.seq \in 1..MaxSeq /\ slot.seq \in Nat
         /\ lane.mail # None => lane.mail \in Frames /\ lane.mail.seq \in Nat
         /\ lane.wire # None => lane.wire \in Frames /\ lane.wire.seq \in Nat
         /\ worker.pc = "submit" => worker.frame \in Frames /\ worker.frame.seq \in Nat
<1>1. seq \in Nat /\ gen \in Nat /\ Issued \in Int
  BY QueueAssumption DEF TypeOK, Issued
<1>2. owed \in Nat /\ policy.copies \in Nat
  BY QueueAssumption DEF TypeOK, AllPolicies
<1>3. /\ metrics.handled \in Nat /\ metrics.error \in Nat /\ metrics.undelivered \in Nat
      /\ metrics.retained # None => metrics.retained.seq \in Nat
  BY QueueAssumption DEF TypeOK, Counters, Retainable
<1>4. seen.base \in Nat /\ seen.copies \in Nat
  BY QueueAssumption DEF TypeOK, Observations
<1>5. slot # None => slot \in Payloads /\ slot.seq \in 1..MaxSeq /\ slot.seq \in Nat
  BY QueueAssumption DEF TypeOK, Payloads
<1>6. \A f \in Frames : f.seq \in Nat
  BY QueueAssumption DEF Frames
<1>7. /\ lane.mail # None => lane.mail \in Frames /\ lane.mail.seq \in Nat
      /\ lane.wire # None => lane.wire \in Frames /\ lane.wire.seq \in Nat
  BY <1>6, Zenon DEF TypeOK, Lanes
<1>8. worker.pc = "submit" => worker.frame \in Frames /\ worker.frame.seq \in Nat
  BY <1>6, Zenon DEF Control
<1> QED
  BY <1>1, <1>2, <1>3, <1>4, <1>5, <1>7, <1>8, Zenon

\* What one receipt changes in the counters, and what it leaves.
LEMMA ReceiptChanges ==
  ASSUME TypeOK, NEW f \in Frames, f.gen = gen, NEW outcome \in Outcomes, Receipt(f, outcome)
  PROVE  /\ outcome \in {"written", "unchanged", "deferred"} =>
              /\ metrics'.handled = f.seq /\ metrics'.error = metrics.error
              /\ metrics'.undelivered = metrics.undelivered
              /\ metrics'.retained = RetainedAfter(metrics, f.seq)
         /\ outcome \in {"declined", "superseded"} =>
              /\ metrics'.handled = metrics.handled /\ metrics'.error = metrics.error
              /\ metrics'.retained = metrics.retained
              /\ metrics'.undelivered =
                   IF outcome = "superseded" /\ metrics.undelivered >= f.seq
                   THEN metrics.undelivered ELSE f.seq
         /\ outcome \in Failures =>
              /\ metrics'.handled = metrics.handled /\ metrics'.error = f.seq
              /\ metrics'.undelivered = metrics.undelivered
              /\ f.seq > metrics.handled =>
                   /\ metrics'.retained # None /\ metrics'.retained.seq = f.seq
                   /\ ~metrics'.retained.acknowledged
<1>0. metrics \in Counters /\ metrics.undelivered \in Int /\ f.seq \in Int
  BY QueueAssumption DEF TypeOK, Counters, Frames
<1>1. metrics' = Recorded(metrics, f.seq, outcome)
  BY Zenon DEF Receipt, Settled
<1>2. CASE outcome = "written"
  <2>1. metrics' = WriteSuccess(metrics, f.seq)
    BY <1>1, <1>2, Zenon DEF Recorded, Failures
  <2> QED
    BY <1>0, <1>2, <2>1, Zenon DEF WriteSuccess, Counters, Failures
<1>3. CASE outcome \in {"unchanged", "deferred"}
  <2>1. metrics' = WriteSuppressed(metrics, f.seq)
    BY <1>1, <1>3, Zenon DEF Recorded, Failures
  <2> QED
    BY <1>0, <1>3, <2>1, Zenon DEF WriteSuppressed, Counters, Failures
<1>4. CASE outcome = "declined"
  <2>1. metrics' = WriteDeclined(metrics, f.seq)
    BY <1>1, <1>4, Zenon DEF Recorded, Failures
  <2> QED
    BY <1>0, <1>4, <2>1, Zenon DEF WriteDeclined, Counters, Failures
<1>5. CASE outcome = "superseded"
  <2>1. metrics' = Superseded(metrics, f.seq)
    BY <1>1, <1>5, Zenon DEF Recorded, Failures
  <2> QED
    BY <1>0, <1>5, <2>1, MaxOfTwo, Zenon DEF Superseded, Counters, Failures
<1>6. CASE outcome \in Failures
  <2>1. PICK transient \in BOOLEAN : metrics' = WriteError(metrics, f.seq, transient)
    <3>1. metrics' = WriteError(metrics, f.seq, outcome = "transient")
      BY <1>1, <1>6, Zenon DEF Recorded, Failures
    <3> QED
      BY <3>1, Zenon
  <2>2. /\ metrics'.handled = metrics.handled /\ metrics'.error = f.seq
        /\ metrics'.undelivered = metrics.undelivered
    BY <1>0, <2>1, Zenon DEF WriteError, Counters
  <2>3. ASSUME f.seq > metrics.handled
        PROVE  /\ metrics'.retained # None /\ metrics'.retained.seq = f.seq
               /\ ~metrics'.retained.acknowledged
    <3>1. metrics'.retained = [seq |-> f.seq, streak |-> metrics.streak + 1,
                               transient |-> transient, acknowledged |-> FALSE]
      BY <1>0, <2>1, <2>3, QueueAssumption DEF WriteError, Counters
    <3>2. metrics'.retained \in Retainable
      BY <1>0, <3>1 DEF Retainable, Frames, Counters
    <3>3. metrics'.retained # None
      BY <3>2, NoneAssumption, Zenon
    <3>4. metrics'.retained.seq = f.seq /\ ~metrics'.retained.acknowledged
      BY <3>1
    <3> QED
      BY <3>3, <3>4, Zenon
  <2> QED
    BY <1>6, <2>2, <2>3, Zenon DEF Failures
<1> QED
  BY <1>2, <1>3, <1>4, <1>5, <1>6, Zenon DEF Outcomes, Failures

\* What it changes in what the observer knows.
LEMMA ReceiptNotes ==
  ASSUME TypeOK, NEW f \in Frames, NEW outcome \in Outcomes, Receipt(f, outcome)
  PROVE  /\ seen'.latest = seen.latest /\ seen'.late = seen.late /\ seen'.base = seen.base
         /\ seen'.claimed = seen.claimed
         /\ seen'.copies = IF f.gen = gen /\ outcome = "written" /\ f.seq >= seen.base
                           THEN seen.copies + 1 ELSE seen.copies
         /\ f.gen # gen => metrics' = metrics
<1>0. seen \in Observations
  BY Zenon DEF TypeOK
<1>1. CASE f.gen # gen
  BY <1>1, Zenon DEF Receipt, Noted, Settled
<1>2. CASE f.gen = gen /\ outcome = "written"
  BY <1>0, <1>2, Zenon DEF Receipt, Noted, Observations, Failures
<1>3. CASE f.gen = gen /\ outcome \in Failures
  BY <1>0, <1>3, Zenon DEF Receipt, Noted, Observations, Failures
<1>4. CASE f.gen = gen /\ outcome # "written" /\ outcome \notin Failures
  BY <1>4, Zenon DEF Receipt, Noted
<1> QED
  BY <1>1, <1>2, <1>3, <1>4, Zenon

\* A push that is deciding has changed nothing the worker or the lane goes by.
LEMMA PushBeginsDelivers ==
  ASSUME IInv, Delivery, NEW c \in Colors, PushBegins(c)
  PROVE  Delivery'
<1>1. UNCHANGED <<policy, slot, unseen, owed, gen, metrics, worker, lane>> /\ call.pc = "idle"
  BY Zenon DEF PushBegins
<1>2. call'.pc = "decide" /\ call'.color = c
  BY Zenon DEF PushBegins
<1>3. call'.fresh = (\/ ~lane.open \/ slot = None \/ slot.color # c
                     \/ EndedUndelivered(metrics, slot.seq))
  BY Zenon DEF PushBegins
<1>4. /\ seen'.base = seen.base /\ seen'.copies = seen.copies /\ seen'.claimed = seen.claimed
      /\ seen'.latest = c
  BY Zenon DEF PushBegins, IInv, TypeOK, Observations
<1>5. seen'.late = (seen.late \/ ~lane.open)
  <2>1. seen' = [seen EXCEPT !.latest = c, !.late = @ \/ ~lane.open] /\ seen \in Observations
    BY Zenon DEF PushBegins, IInv, TypeOK
  <2> QED
    BY <2>1, Zenon DEF Observations
<1>6. Placed'
  BY <1>1, <1>4, Zenon DEF Delivery, Placed, Current, Latest
<1>7. LaneRules'
  BY <1>1, <1>5, Zenon DEF Delivery, LaneRules
<1>8. Surfacing'
  <2>1. seen'.late => ~lane.open
    BY <1>5, Zenon DEF Delivery, LaneRules
  <2>2. seen'.late => call'.fresh
    BY <1>3, <2>1, Zenon
  <2> QED
    BY <1>1, <1>2, <1>4, <2>2, Zenon DEF Delivery, Surfacing, Claimed
<1>9. Pushed'
  <2>1. ~call'.fresh => slot # None /\ slot.color = c
    BY <1>3, Zenon
  <2> QED
    BY <1>1, <1>2, <1>4, <2>1, Zenon DEF Pushed
<1>10. Tracked'
  BY <1>1, <1>4, Zenon DEF Delivery, Tracked, Serving, Claimed, Unconfirmed, Whereabouts, Ended,
     Shown, Deferred, Quiet, Current, Latest
<1>11. Counted'
  BY <1>1, <1>4, Zenon DEF Delivery, Counted, Claimed
<1> QED
  BY <1>6, <1>7, <1>8, <1>9, <1>10, <1>11, Zenon DEF Delivery

\* A payload that is published is behind all others, and the worker is woken.
LEMMA PublishDelivers ==
  ASSUME IInv, Delivery, NEW k \in Colors, NEW s \in 1..MaxSeq, Issued < s, Publish(k, s),
         UNCHANGED <<gen, metrics, lane>>,
         worker'.pc = worker.pc, worker'.frame = worker.frame,
         seen'.claimed = seen.claimed, seen'.base \in {seen.base, s}
  PROVE  /\ slot' # None /\ slot'.color = k /\ slot'.seq = s /\ unseen' = TRUE
         /\ metrics.handled < s
         /\ Placed' /\ Tracked'
<1>0. /\ Issued \in Int /\ s \in Int
      /\ metrics.handled \in Nat /\ metrics.undelivered \in Nat /\ seen.base \in Nat
      /\ slot # None => slot.seq \in Nat
      /\ lane.mail # None => lane.mail.seq \in Nat
      /\ lane.wire # None => lane.wire.seq \in Nat
      /\ worker.pc = "submit" => worker.frame.seq \in Nat
  BY Ranges, QueueAssumption DEF IInv
<1>1. slot' = [color |-> k, seq |-> s] /\ unseen' = TRUE
  BY Zenon DEF Publish
<1>2. slot' \in Payloads
  BY <1>1, Zenon DEF Payloads
<1>3. slot' # None /\ slot'.color = k /\ slot'.seq = s
  BY <1>1, <1>2, NoneAssumption, Zenon
<1>4. metrics.handled < s
  BY <1>0 DEF IInv, Records
<1>5. slot # None => slot.seq < s
  BY <1>0 DEF IInv, Control
<1>6. Placed'
  BY <1>0, <1>1, <1>3, <1>5 DEF Delivery, Placed, Current
<1>7. /\ Current(lane.mail) => lane.mail.seq < s
      /\ Current(lane.wire) => lane.wire.seq < s
  BY <1>0, <1>5 DEF Delivery, Placed, Current
<1>8. Unconfirmed'
  BY <1>3, <1>4, <1>7, Zenon DEF Unconfirmed, Current
<1>9. Tracked'
  BY <1>1, <1>8, Zenon DEF Tracked, Whereabouts
<1> QED
  BY <1>1, <1>3, <1>4, <1>6, <1>9, Zenon

\* The push sends the frame or knows that it need not.
LEMMA PushDecidesDelivers ==
  ASSUME IInv, Delivery, PushDecides
  PROVE  Delivery'
<1>1. UNCHANGED <<policy, seq, gen, metrics, worker, lane>> /\ call.pc = "decide"
  BY Zenon DEF PushDecides
<1>2. call' = NoCall \/ (call' = [call EXCEPT !.pc = "recover"] /\ call \in Calls)
  BY Zenon DEF PushDecides, IInv, TypeOK
<1>3. call'.pc # "decide"
  BY <1>2 DEF NoCall, Calls
<1>4. /\ seen'.late = seen.late /\ seen'.claimed = seen.claimed /\ seen'.latest = seen.latest
      /\ seen'.base \in {seen.base, seq}
  BY Zenon DEF PushDecides, IInv, TypeOK, Observations
<1>5. LaneRules'
  BY <1>1, <1>4, Zenon DEF Delivery, LaneRules
<1>6. CASE UNCHANGED <<slot, unseen, owed, seen>> /\ ~call.fresh
  <2>1. Placed'
    BY <1>1, <1>6, Zenon DEF Delivery, Placed, Current, Latest
  <2>2. Surfacing'
    <3>1. ~seen.late
      BY <1>1, <1>6, Zenon DEF Delivery, Surfacing
    <3> QED
      BY <1>1, <1>6, <3>1, Zenon DEF Delivery, Surfacing, Claimed
  <2>3. Pushed'
    BY <1>1, <1>3, <1>6, Zenon DEF Delivery, Pushed
  <2>4. Tracked'
    BY <1>1, <1>6, Zenon DEF Delivery, Tracked, Serving, Claimed, Unconfirmed, Whereabouts, Ended,
       Shown, Deferred, Quiet, Current, Latest
  <2>5. Counted'
    BY <1>1, <1>6, Zenon DEF Delivery, Counted, Claimed
  <2> QED
    BY <1>5, <2>1, <2>2, <2>3, <2>4, <2>5, Zenon DEF Delivery
<1>7. CASE Publish(call.color, seq)
  <2>1. call.color \in Colors /\ seq \in 1..MaxSeq /\ Issued = seq - 1 /\ seq \in Int
    BY <1>1, QueueAssumption DEF IInv, Control, TypeOK, Issued
  <2>2. /\ slot' # None /\ slot'.color = call.color /\ slot'.seq = seq /\ unseen' = TRUE
        /\ metrics.handled < seq
        /\ Placed' /\ Tracked'
    <3>1. /\ Issued < seq /\ gen' = gen /\ metrics' = metrics /\ lane' = lane
          /\ worker'.pc = worker.pc /\ worker'.frame = worker.frame
      BY <1>1, <2>1
    <3> QED
      BY <1>4, <1>7, <2>1, <3>1, PublishDelivers, Zenon
  <2>3. Surfacing'
    BY <1>1, <1>3, <1>4, <2>2, Zenon DEF Delivery, Surfacing, Claimed
  <2>4. Pushed'
    BY <1>1, <1>3, <1>4, <2>2, Zenon DEF Delivery, Pushed
  <2>5. Counted'
    <3>1. SUFFICES ASSUME gen = 1, policy.copies > 1, ~Claimed
                   PROVE  owed' + seen'.copies + 1 >= policy.copies
      BY <1>1, <1>4, <2>1, <2>2, Ranges DEF Counted, Claimed, IInv
    <3>2. /\ owed \in Nat /\ policy.copies \in Nat /\ seen.copies \in Nat
      BY Ranges, Zenon DEF IInv
    <3>3. CASE ~SlotMatches(call.color)
      <4>1. call.fresh
        BY <1>1, <3>3, Zenon DEF Delivery, Pushed, SlotMatches
      <4>2. owed' = policy.copies - 1
        BY <3>3, <4>1, <1>7, <2>1, <2>2, Zenon DEF PushDecides
      <4>3. seen'.copies = 0
        BY <3>3, <4>1, Zenon DEF PushDecides, IInv, TypeOK, Observations
      <4> QED
        BY <3>2, <4>2, <4>3
    <3>4. CASE SlotMatches(call.color)
      <4>1. slot # None /\ owed + seen.copies + 1 >= policy.copies
        BY <3>1, <3>4, Zenon DEF Delivery, Counted, SlotMatches
      <4>2. seen'.copies = seen.copies
        BY <3>4, Zenon DEF PushDecides
      <4>3. \/ owed' = owed
            \/ owed' = owed - 1 /\ Delivered(metrics, slot.seq)
        BY <3>4, Zenon DEF PushDecides
      <4>4. Delivered(metrics, slot.seq) => owed + seen.copies >= policy.copies
        BY <3>1, <4>1, Zenon DEF Delivery, Counted, Delivered
      <4> QED
        BY <3>2, <4>1, <4>2, <4>3, <4>4
    <3> QED
      BY <3>3, <3>4, Zenon
  <2> QED
    BY <1>5, <2>2, <2>3, <2>4, <2>5, Zenon DEF Delivery
<1> QED
  BY <1>6, <1>7, Zenon DEF PushDecides

\* The routed-reuse path sends the frame again.
LEMMA ReuseDelivers ==
  ASSUME IInv, Delivery, Reuse
  PROVE  Delivery'
<1>1. /\ UNCHANGED <<policy, call, gen, metrics, worker, lane, seen>>
      /\ call.pc = "idle" /\ slot # None /\ seq < MaxSeq /\ Publish(slot.color, seq + 1)
  BY Zenon DEF Reuse
<1>2. slot.color \in Colors /\ seq + 1 \in 1..MaxSeq /\ Issued < seq + 1
  BY <1>1, QueueAssumption DEF IInv, TypeOK, Payloads, Issued
<1>3. /\ slot' # None /\ slot'.color = slot.color /\ slot'.seq = seq + 1 /\ unseen' = TRUE
      /\ metrics.handled < seq + 1
      /\ Placed' /\ Tracked'
  <2>1. /\ gen' = gen /\ metrics' = metrics /\ lane' = lane
        /\ worker'.pc = worker.pc /\ worker'.frame = worker.frame
        /\ seen'.claimed = seen.claimed /\ seen'.base \in {seen.base, seq + 1}
    BY <1>1, Zenon
  <2> QED
    BY <1>1, <1>2, <2>1, PublishDelivers, Zenon
<1>4. LaneRules'
  BY <1>1, Zenon DEF Delivery, LaneRules
<1>5. Surfacing'
  BY <1>1, <1>3, Zenon DEF Delivery, Surfacing, Claimed
<1>6. Pushed'
  BY <1>1, <1>3, Zenon DEF Delivery, Pushed, Serving, Claimed
<1>7. Counted'
  <2>1. SUFFICES ASSUME gen = 1, policy.copies > 1, ~Claimed
                 PROVE  owed' + seen.copies + 1 >= policy.copies
    BY <1>1, <1>3, Ranges DEF Counted, Claimed, IInv
  <2>2. owed \in Nat /\ policy.copies \in Nat /\ seen.copies \in Nat
    BY Ranges, Zenon DEF IInv
  <2>3. owed' = owed \/ (owed' = owed - 1 /\ Delivered(metrics, slot.seq))
    BY Zenon DEF Reuse
  <2> QED
    BY <1>1, <2>1, <2>2, <2>3 DEF Delivery, Counted, Delivered
<1> QED
  BY <1>3, <1>4, <1>5, <1>6, <1>7, Zenon DEF Delivery

\* No delivery was handled after the last terminal receipt.
LEMMA LastTerminalIsLast ==
  ASSUME TypeOK
  PROVE  LastTerminal(metrics) \in Int /\ metrics.handled <= LastTerminal(metrics)
<1>1. metrics.handled \in Int /\ metrics.error \in Int /\ metrics.undelivered \in Int
  BY DEF TypeOK, Counters
<1>2. ASSUME NEW a \in Int, NEW b \in Int, NEW d \in Int
      PROVE  Max({a, b, d}) \in Int /\ a <= Max({a, b, d})
  <2>1. \E x \in {a, b, d} : \A y \in {a, b, d} : x >= y
    OBVIOUS
  <2> QED
    BY <2>1, Zenon DEF Max
<1> QED
  BY <1>1, <1>2, Zenon DEF LastTerminal

\* The worker sends the frame again when its deadline passes.
LEMMA ReassertDueDelivers ==
  ASSUME IInv, Delivery, ReassertDue
  PROVE  Delivery'
<1>1. /\ UNCHANGED <<policy, owed, call, gen, metrics, lane, seen>>
      /\ call.pc # "decide" /\ seq < MaxSeq /\ worker.pc = "wait"
  BY Zenon DEF ReassertDue, Locked
<1>2. worker'.pc = worker.pc /\ worker'.frame = worker.frame
  BY Zenon DEF ReassertDue, IInv, TypeOK, Tasks
<1>3. LaneRules'
  BY <1>1, <1>2, Zenon DEF Delivery, LaneRules
<1>4. CASE slot # None /\ Publish(slot.color, seq + 1)
  <2>1. slot.color \in Colors /\ seq + 1 \in 1..MaxSeq /\ Issued < seq + 1
    BY <1>1, <1>4, QueueAssumption DEF IInv, TypeOK, Payloads, Issued
  <2>2. /\ slot' # None /\ slot'.color = slot.color /\ slot'.seq = seq + 1 /\ unseen' = TRUE
        /\ metrics.handled < seq + 1
        /\ Placed' /\ Tracked'
    <3>1. /\ gen' = gen /\ metrics' = metrics /\ lane' = lane
          /\ seen'.claimed = seen.claimed /\ seen'.base \in {seen.base, seq + 1}
      BY <1>1, Zenon
    <3> QED
      BY <1>2, <1>4, <2>1, <3>1, PublishDelivers, Zenon
  <2>3. Surfacing'
    BY <1>1, <1>2, <2>2, Zenon DEF Delivery, Surfacing, Claimed
  <2>4. Pushed'
    BY <1>1, <1>4, <2>2, Zenon DEF Delivery, Pushed, Serving, Claimed
  <2>5. Counted'
    BY <1>1, <1>4, <2>2, Ranges DEF Delivery, Counted, Claimed, IInv
  <2> QED
    BY <1>3, <2>2, <2>3, <2>4, <2>5, Zenon DEF Delivery
<1>5. CASE UNCHANGED <<slot, unseen>> /\ (slot = None \/ slot.seq > LastTerminal(metrics))
  <2>1. Placed'
    BY <1>1, <1>2, <1>5, Zenon DEF Delivery, Placed, Current, Latest
  <2>2. Surfacing'
    BY <1>1, <1>2, <1>5, Zenon DEF Delivery, Surfacing, Claimed, Waits, Current
  <2>3. Pushed'
    BY <1>1, <1>5, Zenon DEF Delivery, Pushed, Serving, Claimed
  <2>4. Tracked'
    <3>1. slot # None => metrics.handled # slot.seq
      <4>1. metrics.handled \in Int /\ (slot # None => slot.seq \in Int)
        BY Ranges DEF IInv
      <4>2. LastTerminal(metrics) \in Int /\ metrics.handled <= LastTerminal(metrics)
        BY LastTerminalIsLast, Zenon DEF IInv
      <4> QED
        BY <1>5, <4>1, <4>2
    <3>2. ~(slot # None /\ Deferred)
      BY <3>1, Zenon DEF Deferred, Quiet
    <3> QED
      BY <1>1, <1>2, <1>5, <3>2, Zenon DEF Delivery, Tracked, Serving, Claimed, Unconfirmed,
         Whereabouts, Ended, Shown, Quiet, Current, Latest
  <2>5. Counted'
    BY <1>1, <1>5, Zenon DEF Delivery, Counted, Claimed
  <2> QED
    BY <1>3, <2>1, <2>2, <2>3, <2>4, <2>5, Zenon DEF Delivery
<1> QED
  BY <1>4, <1>5, Zenon DEF ReassertDue

\* The worker takes the latest frame, first or in place of an older one.
LEMMA TakeDelivers ==
  ASSUME IInv, Delivery, TakeLatest \/ PickNewer
  PROVE  Delivery'
<1>1. /\ UNCHANGED <<policy, slot, owed, call, gen, metrics, lane, seen>>
      /\ unseen /\ unseen' = FALSE /\ worker.pc \in {"wait", "submit"}
  BY Zenon DEF TakeLatest, PickNewer
<1>2. worker'.pc = "submit" /\ worker'.frame = Latest
  BY Zenon DEF TakeLatest, PickNewer, IInv, TypeOK, Tasks
<1>3. slot # None /\ slot.seq \in Int
  BY <1>1, NoneAssumption, Ranges DEF IInv, Control
<1>4. worker'.frame.seq = slot.seq /\ Latest' = Latest
  BY <1>1, <1>2 DEF Latest
<1>5. Placed'
  BY <1>1, <1>2, <1>3, <1>4 DEF Delivery, Placed, Current
<1>6. LaneRules'
  BY <1>1, <1>2, Zenon DEF Delivery, LaneRules
<1>7. Surfacing'
  <2>1. call.pc # "recover"
    BY <1>1, Zenon DEF IInv, Control
  <2> QED
    BY <1>1, <1>2, <2>1, Zenon DEF Delivery, Surfacing
<1>8. Pushed'
  BY <1>1, Zenon DEF Delivery, Pushed, Serving, Claimed
<1>9. Tracked'
  BY <1>2, <1>4, Zenon DEF Tracked, Whereabouts
<1>10. Counted'
  BY <1>1, Zenon DEF Delivery, Counted, Claimed
<1> QED
  BY <1>5, <1>6, <1>7, <1>8, <1>9, <1>10, Zenon DEF Delivery

\* The worker is done with an inline submission, and looks again at what was deferred.
LEMMA ResumeDelivers ==
  ASSUME IInv, Delivery, Resume
  PROVE  Delivery'
<1>1. /\ UNCHANGED <<policy, slot, unseen, owed, call, gen, metrics, lane, seen>>
      /\ worker.pc = "await" /\ lane.wire = None
  BY Zenon DEF Resume
<1>2. worker'.pc = "wait"
  BY Zenon DEF Resume, Waiting, IInv, TypeOK, Tasks
<1>3. worker.result = "deferred" => worker'.armed
  <2>1. worker \in Tasks
    BY Zenon DEF IInv, TypeOK
  <2>2. worker'.armed = ArmedAfter(worker.result)
    BY <2>1, Zenon DEF Resume, Waiting, Tasks
  <2> QED
    BY <2>2, Zenon DEF ArmedAfter
<1>4. Placed'
  BY <1>1, <1>2, Zenon DEF Delivery, Placed, Current
<1>5. LaneRules'
  BY <1>1, Zenon DEF Delivery, LaneRules
<1>6. Surfacing'
  BY <1>1, <1>2, Zenon DEF Delivery, Surfacing, Claimed, Waits, Current
<1>7. Pushed'
  BY <1>1, Zenon DEF Delivery, Pushed, Serving, Claimed
<1>8. Tracked'
  BY <1>1, <1>2, <1>3, Zenon DEF Delivery, Tracked, Serving, Claimed, Whereabouts, Ended, Shown,
     Deferred, Quiet, Current, Latest
<1>9. Counted'
  BY <1>1, Zenon DEF Delivery, Counted, Claimed
<1> QED
  BY <1>4, <1>5, <1>6, <1>7, <1>8, <1>9, Zenon DEF Delivery

\* The new worker starts with the frame its predecessor did not confirm.
LEMMA RecoverDelivers ==
  ASSUME IInv, Delivery, Recover
  PROVE  Delivery'
<1>1. /\ UNCHANGED <<policy, lane>> /\ gen' = gen + 1 /\ call.pc = "recover"
  BY Zenon DEF Recover
<1>2. worker.pc = "dead"
  BY <1>1, Zenon DEF IInv, Control
<1>3. worker'.pc = "wait" /\ call'.pc = "idle"
  BY Zenon DEF Recover, NewWorker, NoCall
<1>4. metrics'.undelivered = 0
  BY Zenon DEF Recover, NewMetrics
<1>5. /\ seen'.base = 0 /\ seen'.late = seen.late /\ seen'.latest = seen.latest
      /\ seen'.claimed = seen.claimed
  BY Zenon DEF Recover, Afresh, IInv, TypeOK, Observations
<1>6. gen \in Nat /\ gen > 0
  BY DEF IInv, TypeOK
<1>7. ~Current(lane.mail)' /\ ~Current(lane.wire)'
  BY <1>1, <1>6 DEF IInv, Control, Current, TypeOK, Lanes, Frames
<1>8. slot' # None => slot'.seq \in Nat
  BY Ranges, Zenon DEF Recover, IInv
<1>9. slot # None /\ slot.seq > metrics.handled => slot' = slot /\ unseen' = TRUE
  BY Zenon DEF Recover
<1>10. Serving => slot' = slot /\ slot # None /\ unseen' = TRUE
  BY <1>2, <1>9, Zenon DEF Delivery, Tracked, Unconfirmed
<1>11. Serving' = Serving
  BY <1>1, <1>5, Zenon DEF Serving, Claimed
<1>12. Placed'
  BY <1>3, <1>4, <1>5, <1>7, <1>8 DEF Placed
<1>13. LaneRules'
  BY <1>1, <1>2, <1>3, <1>5, Zenon DEF Delivery, LaneRules
<1>14. Surfacing'
  <2>1. seen.late => unseen
    BY <1>1, Zenon DEF Delivery, Surfacing
  <2>2. unseen => slot # None /\ slot.seq \in Nat /\ metrics.handled \in Nat
    BY NoneAssumption, Ranges, Zenon DEF IInv, Control
  <2>3. unseen => Claimed \/ slot.seq > metrics.handled
    BY <2>2, Zenon DEF IInv, InOrder, Unsettled, Untouched, Claimed
  <2>4. seen'.late => Claimed' \/ unseen'
    BY <1>5, <1>9, <2>1, <2>2, <2>3, Zenon DEF Claimed
  <2> QED
    BY <1>3, <2>4, Zenon DEF Surfacing
<1>15. Pushed'
  BY <1>1, <1>3, <1>5, <1>10, <1>11, Zenon DEF Delivery, Pushed
<1>16. Tracked'
  BY <1>3, <1>10, <1>11, Zenon DEF Tracked, Whereabouts
<1>17. Counted'
  BY <1>1, <1>6 DEF Counted
<1> QED
  BY <1>12, <1>13, <1>14, <1>15, <1>16, <1>17, Zenon DEF Delivery

\* A claim ends the service; dropping the queue and taking a ticket change nothing here.
LEMMA LifecycleDelivers ==
  ASSUME IInv, Delivery, DropQueue \/ TakeTicket \/ Claim \/ UNCHANGED vars
  PROVE  Delivery'
<1>1. UNCHANGED <<policy, slot, unseen, owed, call, gen, worker, lane>>
  BY Zenon DEF DropQueue, TakeTicket, Claim, vars
<1>2. CASE UNCHANGED <<metrics, seen>>
  <2>1. Placed' /\ LaneRules'
    BY <1>1, <1>2, Zenon DEF Delivery, Placed, LaneRules, Current, Latest
  <2>2. Surfacing' /\ Pushed' /\ Counted'
    BY <1>1, <1>2, Zenon DEF Delivery, Surfacing, Waits, Pushed, Counted, Serving, Claimed, Current
  <2>3. Tracked'
    BY <1>1, <1>2, Zenon DEF Delivery, Tracked, Serving, Claimed, Unconfirmed, Whereabouts, Ended,
       Shown, Deferred, Quiet, Current, Latest
  <2> QED
    BY <2>1, <2>2, <2>3, Zenon DEF Delivery
<1>3. CASE Claim /\ ~ticket.rides /\ IsCurrent(ticket)
  <2>1. /\ seen'.claimed # {} /\ seen'.late = seen.late /\ seen'.base = seen.base
        /\ seen'.latest = seen.latest
    <3>1. seen' = [seen EXCEPT !.claimed = @ \cup {<<gen, ticket.seq>>}] /\ seen \in Observations
      BY <1>3, Zenon DEF Claim, IInv, TypeOK
    <3> QED
      BY <3>1, Zenon DEF Observations
  <2>2. metrics'.undelivered = metrics.undelivered
    BY <1>3, Zenon DEF Claim, IInv, TypeOK, Counters
  <2>3. Placed' /\ LaneRules'
    BY <1>1, <2>1, <2>2, Zenon DEF Delivery, Placed, LaneRules, Current, Latest
  <2>4. Surfacing' /\ Pushed' /\ Counted' /\ Tracked'
    BY <1>1, <2>1, Zenon DEF Delivery, Surfacing, Pushed, Counted, Tracked, Serving, Claimed
  <2> QED
    BY <2>3, <2>4, Zenon DEF Delivery
<1> QED
  BY <1>2, <1>3, Zenon DEF DropQueue, TakeTicket, Claim, vars

\* A frame on its way that was not settled is later than what was handled, until a
\* failure is claimed.
LEMMA UnsettledIsLater ==
  ASSUME NEW s, Unsettled(s)
  PROVE  Claimed \/ s > metrics.handled
BY Zenon DEF Unsettled, Untouched, Claimed

\* A frame that fails leaves a failure for the lifecycle task.
LEMMA FailureWaits ==
  ASSUME TypeOK, Control, NEW f \in Frames, f.gen = gen, Unsettled(f.seq),
         NEW outcome \in Failures, Receipt(f, outcome)
  PROVE  Claimed \/ (Pending(metrics') # None /\ metrics'.retained.seq = f.seq)
<1>1. SUFFICES ASSUME ~Claimed
               PROVE  Pending(metrics') # None /\ metrics'.retained.seq = f.seq
  BY Zenon
<1>2. outcome \in Outcomes
  BY Zenon DEF Outcomes, Failures
<1>3. f.seq > metrics.handled /\ f.seq \in Int /\ metrics.handled \in Int
  BY <1>1, UnsettledIsLater, Ranges, QueueAssumption DEF Frames
<1>4. /\ metrics'.handled = metrics.handled /\ metrics'.error = f.seq
      /\ metrics'.retained # None /\ metrics'.retained.seq = f.seq
      /\ ~metrics'.retained.acknowledged
  BY <1>2, <1>3, ReceiptChanges, Zenon
<1> QED
  BY <1>3, <1>4, Zenon DEF Pending, FailureMatches

\* A frame that gives way to a newer one leaves only that it was not delivered.
LEMMA GivesWay ==
  ASSUME TypeOK, NEW f \in Frames, Receipt(f, "superseded")
  PROVE  /\ seen'.latest = seen.latest /\ seen'.late = seen.late /\ seen'.base = seen.base
         /\ seen'.claimed = seen.claimed /\ seen'.copies = seen.copies
         /\ metrics'.handled = metrics.handled /\ metrics'.error = metrics.error
         /\ metrics'.retained = metrics.retained
         /\ f.gen # gen => metrics'.undelivered = metrics.undelivered
         /\ f.gen = gen => metrics'.undelivered = IF metrics.undelivered >= f.seq
                                                 THEN metrics.undelivered ELSE f.seq
<1>1. /\ seen'.latest = seen.latest /\ seen'.late = seen.late /\ seen'.base = seen.base
      /\ seen'.claimed = seen.claimed /\ seen'.copies = seen.copies
      /\ f.gen # gen => metrics' = metrics
  BY ReceiptNotes, Zenon DEF Outcomes
<1>2. f.gen = gen =>
        /\ metrics'.handled = metrics.handled /\ metrics'.error = metrics.error
        /\ metrics'.retained = metrics.retained
        /\ metrics'.undelivered = IF metrics.undelivered >= f.seq
                                  THEN metrics.undelivered ELSE f.seq
  BY ReceiptChanges, Zenon DEF Outcomes
<1> QED
  BY <1>1, <1>2, Zenon

\* The worker hands its frame to the lane, or has it rejected by a closed one.
LEMMA SubmitDelivers ==
  ASSUME IInv, Delivery, Submit
  PROVE  Delivery'
<1>1. UNCHANGED <<policy, slot, unseen, owed, call, gen>> /\ worker.pc = "submit"
  BY Zenon DEF Submit
<1>2. /\ worker.frame \in Frames /\ worker.frame.gen = gen /\ Unsettled(worker.frame.seq)
      /\ worker.frame # None
  BY <1>1, NoneAssumption, Zenon DEF IInv, Control, InOrder
<1>3. slot # None /\ worker.frame.seq <= slot.seq /\ (~unseen => worker.frame = Latest)
  BY <1>1, Zenon DEF Delivery, Placed
<1>4. Latest' = Latest
  BY <1>1, Zenon DEF Latest
<1>5. CASE /\ ~lane.open /\ Receipt(worker.frame, "failed")
           /\ worker' = Waiting("failed") /\ lane' = lane
  <2>1. worker'.pc = "wait"
    BY <1>5, Zenon DEF Waiting, IInv, TypeOK, Tasks
  <2>2. /\ seen'.latest = seen.latest /\ seen'.late = seen.late /\ seen'.base = seen.base
        /\ seen'.claimed = seen.claimed /\ seen'.copies = seen.copies
    BY <1>2, <1>5, ReceiptNotes, Zenon DEF IInv, Outcomes
  <2>3. metrics'.handled = metrics.handled /\ metrics'.undelivered = metrics.undelivered
    BY <1>2, <1>5, ReceiptChanges, Zenon DEF IInv, Outcomes, Failures
  <2>4. Placed'
    BY <1>1, <1>5, <2>1, <2>2, <2>3, Zenon DEF Delivery, Placed, Current
  <2>5. LaneRules'
    BY <1>1, <1>5, <2>2, Zenon DEF Delivery, LaneRules
  <2>6. Surfacing'
    <3>1. Claimed \/ (Pending(metrics') # None /\ metrics'.retained.seq = worker.frame.seq)
      BY <1>2, <1>5, FailureWaits, Zenon DEF IInv, Failures
    <3>2. Current(lane.wire) => lane.wire.seq < worker.frame.seq
      BY <1>1, Zenon DEF IInv, InOrder
    <3>3. Claimed' \/ Waits'
      BY <1>1, <1>5, <2>2, <3>1, <3>2, Zenon DEF Claimed, Waits, Current, Pending, FailureMatches
    <3> QED
      BY <1>1, <2>1, <2>2, <3>3, Zenon DEF Delivery, Surfacing
  <2>7. Pushed' /\ Tracked'
    BY <1>1, <1>5, <2>2, Zenon DEF Delivery, Pushed, Tracked, Serving
  <2>8. Counted'
    BY <1>1, <2>2, <2>3, Zenon DEF Delivery, Counted, Claimed
  <2> QED
    BY <2>4, <2>5, <2>6, <2>7, <2>8, Zenon DEF Delivery
<1>6. CASE /\ lane.open /\ policy.inline /\ lane' = [lane EXCEPT !.wire = worker.frame]
           /\ worker' = [worker EXCEPT !.pc = "await", !.frame = None]
           /\ UNCHANGED <<metrics, seen>>
  <2>1. worker'.pc = "await"
    BY <1>6, Zenon DEF IInv, TypeOK, Tasks
  <2>2. lane'.wire = worker.frame /\ lane'.mail = lane.mail /\ lane'.open = lane.open
    BY <1>6, Zenon DEF IInv, TypeOK, Lanes
  <2>3. lane.mail = None /\ ~seen.late
    BY <1>6, Zenon DEF IInv, MailIsLater, Delivery, LaneRules
  <2>4. Placed'
    BY <1>1, <1>3, <1>6, <2>1, <2>2, <2>3, Zenon DEF Delivery, Placed, Current
  <2>5. LaneRules' /\ Surfacing'
    BY <1>1, <1>6, <2>1, <2>2, <2>3, Zenon DEF Delivery, LaneRules, Surfacing
  <2>6. Pushed' /\ Counted'
    BY <1>1, <1>6, <2>2, Zenon DEF Delivery, Pushed, Counted, Serving, Claimed
  <2>7. Tracked'
    BY <1>1, <1>3, <1>4, <2>1, <2>2, Zenon DEF Tracked, Whereabouts
  <2> QED
    BY <2>4, <2>5, <2>6, <2>7, Zenon DEF Delivery
<1>7. CASE /\ lane.open /\ ~policy.inline /\ lane' = [lane EXCEPT !.mail = worker.frame]
           /\ worker' = Waiting(None)
           /\ IF lane.mail = None THEN UNCHANGED <<metrics, seen>>
              ELSE Receipt(lane.mail, "superseded")
  <2>1. worker'.pc = "wait"
    BY <1>7, Zenon DEF Waiting, IInv, TypeOK, Tasks
  <2>2. lane'.wire = lane.wire /\ lane'.mail = worker.frame /\ lane'.open = lane.open
    BY <1>7, Zenon DEF IInv, TypeOK, Lanes
  <2>3. ~seen.late
    BY <1>7, Zenon DEF Delivery, LaneRules
  <2>4. /\ seen'.latest = seen.latest /\ seen'.late = seen.late /\ seen'.base = seen.base
        /\ seen'.claimed = seen.claimed /\ seen'.copies = seen.copies
        /\ metrics'.handled = metrics.handled
        /\ \/ metrics'.undelivered = metrics.undelivered
           \/ Current(lane.mail) /\ metrics'.undelivered = lane.mail.seq
    <3>1. CASE lane.mail = None
      BY <1>7, <3>1, Zenon
    <3>2. CASE lane.mail # None
      <4>1. lane.mail \in Frames
        BY <3>2, Ranges, Zenon DEF IInv
      <4> QED
        BY <1>7, <3>2, <4>1, GivesWay, Zenon DEF IInv, Current
    <3> QED
      BY <3>1, <3>2, Zenon
  <2>5. Placed'
    BY <1>1, <1>2, <1>3, <2>1, <2>2, <2>4, Zenon DEF Delivery, Placed, Current
  <2>6. LaneRules' /\ Surfacing'
    BY <1>1, <1>7, <2>1, <2>2, <2>3, <2>4, Zenon DEF Delivery, LaneRules, Surfacing
  <2>7. Pushed' /\ Counted'
    BY <1>1, <2>2, <2>4, Zenon DEF Delivery, Pushed, Counted, Serving, Claimed
  <2>8. Tracked'
    BY <1>1, <1>3, <1>4, <2>1, <2>2, Zenon DEF Tracked, Whereabouts
  <2> QED
    BY <2>5, <2>6, <2>7, <2>8, Zenon DEF Delivery
<1> QED
  BY <1>5, <1>6, <1>7, Zenon DEF Submit

\* A worker that dies leaves its frame unconfirmed and a failure waiting.
LEMMA WorkerPanicsDelivers ==
  ASSUME IInv, Delivery, WorkerPanics
  PROVE  Delivery'
<1>1. /\ UNCHANGED <<policy, slot, unseen, owed, call, gen, lane>> /\ worker.pc = "submit"
      /\ Receipt(worker.frame, "failed")
  BY Zenon DEF WorkerPanics
<1>2. worker.frame \in Frames /\ worker.frame.gen = gen /\ Unsettled(worker.frame.seq)
  BY <1>1, Zenon DEF IInv, Control, InOrder
<1>3. slot # None /\ worker.frame.seq <= slot.seq
  BY <1>1, Zenon DEF Delivery, Placed
<1>4. worker'.pc = "dead"
  BY Zenon DEF WorkerPanics, NewWorker
<1>5. /\ seen'.latest = seen.latest /\ seen'.late = seen.late /\ seen'.base = seen.base
      /\ seen'.claimed = seen.claimed /\ seen'.copies = seen.copies
  BY <1>1, <1>2, ReceiptNotes, Zenon DEF IInv, Outcomes
<1>6. metrics'.handled = metrics.handled /\ metrics'.undelivered = metrics.undelivered
  BY <1>1, <1>2, ReceiptChanges, Zenon DEF IInv, Outcomes, Failures
<1>7. Placed'
  BY <1>1, <1>4, <1>5, <1>6, Zenon DEF Delivery, Placed, Current
<1>8. LaneRules'
  BY <1>1, <1>5, Zenon DEF Delivery, LaneRules
<1>9. Surfacing'
  <2>1. Claimed \/ (Pending(metrics') # None /\ metrics'.retained.seq = worker.frame.seq)
    BY <1>1, <1>2, FailureWaits, Zenon DEF IInv, Failures
  <2>2. Current(lane.wire) => lane.wire.seq < worker.frame.seq
    BY <1>1, Zenon DEF IInv, InOrder
  <2>3. Claimed' \/ Waits'
    BY <1>1, <1>5, <2>1, <2>2, Zenon DEF Claimed, Waits, Current, Pending, FailureMatches
  <2> QED
    BY <1>1, <1>5, <2>3, Zenon DEF Delivery, Surfacing, Waits
<1>10. Pushed' /\ Counted'
  BY <1>1, <1>5, <1>6, Zenon DEF Delivery, Pushed, Counted, Serving, Claimed
<1>11. Tracked'
  <2>1. /\ slot.seq \in Int /\ worker.frame.seq \in Int /\ metrics.handled \in Int
        /\ lane.mail # None => lane.mail.seq \in Int
        /\ lane.wire # None => lane.wire.seq \in Int
    BY <1>1, <1>3, Ranges DEF IInv
  <2>2. /\ Current(lane.mail) => lane.mail.seq < worker.frame.seq
        /\ Current(lane.wire) => lane.wire.seq < worker.frame.seq
    BY <1>1, Zenon DEF IInv, InOrder
  <2>3. Claimed \/ worker.frame.seq > metrics.handled
    BY <1>2, UnsettledIsLater, Zenon
  <2>4. Claimed \/ Unconfirmed'
    BY <1>1, <1>3, <1>6, <2>1, <2>2, <2>3 DEF Unconfirmed, Current
  <2> QED
    BY <1>4, <1>5, <2>4, Zenon DEF Tracked, Serving, Claimed
<1> QED
  BY <1>7, <1>8, <1>9, <1>10, <1>11, Zenon DEF Delivery

\* While the latest frame is being sent nothing waits behind it.
LEMMA LatestOnWire ==
  ASSUME IInv, Placed, lane.wire = Latest, slot # None
  PROVE  lane.mail = None
<1>1. SUFFICES ASSUME lane.mail # None PROVE FALSE
  BY Zenon
<1>2. slot.seq \in Int /\ lane.mail \in Frames /\ lane.mail.seq \in Int
  BY <1>1, Ranges DEF IInv
<1>3. Latest \in Frames
  BY <1>1, Ranges, Zenon DEF Latest, Frames, IInv, TypeOK, Payloads
<1>4. Current(lane.wire) /\ lane.wire.seq = slot.seq
  BY <1>3, NoneAssumption DEF Current, Latest
<1>5. Current(lane.mail) /\ lane.mail.seq <= slot.seq
  BY <1>1, <1>4, Zenon DEF Placed
<1>6. lane.wire.seq < lane.mail.seq
  BY <1>4, <1>5, Zenon DEF IInv, InOrder
<1> QED
  BY <1>2, <1>4, <1>5, <1>6

\* The driver goes over to the posted frame.
LEMMA LaneClaimsDelivers ==
  ASSUME IInv, Delivery, LaneClaims
  PROVE  Delivery'
<1>1. UNCHANGED <<policy, slot, unseen, owed, call, gen, worker>> /\ lane.mail # None
  BY Zenon DEF LaneClaims
<1>2. lane'.mail = None /\ lane'.wire = lane.mail /\ lane'.open = lane.open
  BY Zenon DEF LaneClaims, IInv, TypeOK, Lanes
<1>3. ~policy.inline /\ lane.open /\ ~seen.late
  BY <1>1, Zenon DEF IInv, MailIsLater, Delivery, LaneRules
<1>4. /\ seen'.latest = seen.latest /\ seen'.late = seen.late /\ seen'.base = seen.base
      /\ seen'.claimed = seen.claimed /\ seen'.copies = seen.copies
      /\ metrics'.handled = metrics.handled
      /\ \/ metrics'.undelivered = metrics.undelivered
         \/ Current(lane.wire) /\ metrics'.undelivered = lane.wire.seq
  <2>1. CASE lane.wire = None
    BY <2>1, Zenon DEF LaneClaims
  <2>2. CASE lane.wire # None
    <3>1. lane.wire \in Frames /\ Receipt(lane.wire, "superseded")
      BY <2>2, Ranges, Zenon DEF IInv, LaneClaims
    <3> QED
      BY <2>2, <3>1, GivesWay, Zenon DEF IInv, Current
  <2> QED
    BY <2>1, <2>2, Zenon
<1>5. Placed'
  BY <1>1, <1>2, <1>4, Zenon DEF Delivery, Placed, Current, Latest
<1>6. LaneRules' /\ Surfacing'
  BY <1>1, <1>2, <1>3, <1>4, Zenon DEF Delivery, LaneRules, Surfacing
<1>7. Pushed' /\ Counted'
  BY <1>1, <1>2, <1>4, Zenon DEF Delivery, Pushed, Counted, Serving, Claimed
<1>8. Tracked'
  <2>1. Serving' = Serving /\ Latest' = Latest
    BY <1>1, <1>2, <1>4, Zenon DEF Serving, Claimed, Latest
  <2>2. Unconfirmed => Unconfirmed'
    BY <1>1, <1>2, <1>4, Zenon DEF Unconfirmed, Current
  <2>3. slot # None => lane.wire # Latest
    BY <1>1, LatestOnWire, Zenon DEF Delivery
  <2>4. slot # None /\ Whereabouts => Whereabouts'
    BY <1>1, <1>2, <2>1, <2>3, Zenon DEF Whereabouts, Ended, Shown, Deferred, Quiet
  <2> QED
    BY <1>1, <2>1, <2>2, <2>4, Zenon DEF Delivery, Tracked
<1> QED
  BY <1>5, <1>6, <1>7, <1>8, Zenon DEF Delivery

\* A direct write takes the posted frame's place, and the counters say so.
LEMMA DirectWriteDelivers ==
  ASSUME IInv, Delivery, DirectWrite
  PROVE  Delivery'
<1>1. /\ UNCHANGED <<policy, slot, unseen, owed, call, gen, worker>>
      /\ lane.mail # None /\ Receipt(lane.mail, "superseded")
  BY Zenon DEF DirectWrite
<1>2. lane'.mail = None /\ lane'.wire = lane.wire /\ lane'.open = lane.open
  BY Zenon DEF DirectWrite, IInv, TypeOK, Lanes
<1>3. ~policy.inline /\ lane.open /\ ~seen.late
  BY <1>1, Zenon DEF IInv, MailIsLater, Delivery, LaneRules
<1>4. /\ seen'.latest = seen.latest /\ seen'.late = seen.late /\ seen'.base = seen.base
      /\ seen'.claimed = seen.claimed /\ seen'.copies = seen.copies
      /\ metrics'.handled = metrics.handled
      /\ ~Current(lane.mail) => metrics'.undelivered = metrics.undelivered
      /\ Current(lane.mail) => metrics'.undelivered = IF metrics.undelivered >= lane.mail.seq
                                                      THEN metrics.undelivered ELSE lane.mail.seq
  <2>1. lane.mail \in Frames
    BY <1>1, Ranges, Zenon DEF IInv
  <2> QED
    BY <1>1, <2>1, GivesWay, Zenon DEF IInv, Current
<1>5. Placed'
  BY <1>1, <1>2, <1>4, Zenon DEF Delivery, Placed, Current, Latest
<1>6. LaneRules' /\ Surfacing'
  BY <1>1, <1>2, <1>3, <1>4, Zenon DEF Delivery, LaneRules, Surfacing
<1>7. Pushed' /\ Counted'
  BY <1>1, <1>2, <1>4, Zenon DEF Delivery, Pushed, Counted, Serving, Claimed
<1>8. Tracked'
  <2>1. Serving' = Serving /\ Latest' = Latest
    BY <1>1, <1>2, <1>4, Zenon DEF Serving, Claimed, Latest
  <2>2. Unconfirmed => Unconfirmed'
    BY <1>1, <1>2, <1>4, Zenon DEF Unconfirmed, Current
  <2>3. slot # None => lane.wire # Latest
    BY <1>1, LatestOnWire, Zenon DEF Delivery
  <2>4. ASSUME slot # None, lane.mail = Latest, ~Claimed
        PROVE  Ended'
    <3>1. /\ slot.seq \in Int /\ metrics.undelivered \in Int /\ metrics.handled \in Int
      BY <2>4, Ranges DEF IInv
    <3>2. Current(lane.mail) /\ lane.mail.seq = slot.seq
      BY <1>1, <2>4 DEF Current, Latest
    <3>3. slot.seq > metrics.handled
      BY <2>4, <3>2, UnsettledIsLater, Zenon DEF IInv, InOrder
    <3>4. metrics'.undelivered = slot.seq
      BY <1>4, <2>4, <3>1, <3>2 DEF Delivery, Placed
    <3>5. Current(lane.wire) => lane.wire.seq < slot.seq
      BY <3>2, Zenon DEF IInv, InOrder
    <3> QED
      BY <1>1, <1>2, <1>3, <1>4, <3>3, <3>4, <3>5, Zenon DEF Ended, Current
  <2>5. slot # None /\ Serving /\ Whereabouts => Whereabouts'
    BY <1>1, <2>1, <2>3, <2>4, Zenon DEF Whereabouts, Ended, Shown, Deferred, Quiet, Serving
  <2> QED
    BY <1>1, <2>1, <2>2, <2>5, Zenon DEF Delivery, Tracked
<1> QED
  BY <1>5, <1>6, <1>7, <1>8, Zenon DEF Delivery

\* The lane closes: what waits in it fails, and nothing more is promised of it.
LEMMA LaneClosesDelivers ==
  ASSUME IInv, Delivery, LaneCloses
  PROVE  Delivery'
<1>1. UNCHANGED <<policy, slot, unseen, owed, call, gen, worker>> /\ lane.open
  BY Zenon DEF LaneCloses
<1>2. lane'.mail = None /\ lane'.wire = lane.wire /\ lane'.open = FALSE
  BY Zenon DEF LaneCloses, IInv, TypeOK, Lanes
<1>3. ~seen.late /\ (policy.inline => UNCHANGED <<metrics, seen>>)
  BY <1>1, Zenon DEF Delivery, LaneRules, IInv, MailIsLater, LaneCloses
<1>4. /\ seen'.latest = seen.latest /\ seen'.late = seen.late /\ seen'.base = seen.base
      /\ seen'.claimed = seen.claimed /\ seen'.copies = seen.copies
      /\ metrics'.handled = metrics.handled /\ metrics'.undelivered = metrics.undelivered
  <2>1. CASE lane.mail = None
    BY <2>1, Zenon DEF LaneCloses
  <2>2. CASE lane.mail # None
    <3>1. lane.mail \in Frames /\ Receipt(lane.mail, "failed")
      BY <2>2, Ranges, Zenon DEF IInv, LaneCloses
    <3>2. /\ seen'.latest = seen.latest /\ seen'.late = seen.late /\ seen'.base = seen.base
          /\ seen'.claimed = seen.claimed /\ seen'.copies = seen.copies
          /\ lane.mail.gen # gen => metrics' = metrics
      BY <3>1, ReceiptNotes, Zenon DEF IInv, Outcomes
    <3>3. lane.mail.gen = gen =>
            metrics'.handled = metrics.handled /\ metrics'.undelivered = metrics.undelivered
      BY <3>1, ReceiptChanges, Zenon DEF IInv, Outcomes, Failures
    <3> QED
      BY <3>2, <3>3, Zenon
  <2> QED
    BY <2>1, <2>2, Zenon
<1>5. Placed'
  BY <1>1, <1>2, <1>4, Zenon DEF Delivery, Placed, Current, Latest
<1>6. LaneRules'
  BY <1>1, <1>2, <1>4, Zenon DEF Delivery, LaneRules
<1>7. Surfacing'
  BY <1>1, <1>3, <1>4, Zenon DEF Delivery, Surfacing, Claimed
<1>8. Pushed' /\ Tracked'
  BY <1>1, <1>2, <1>4, Zenon DEF Delivery, Pushed, Tracked, Serving
<1>9. Counted'
  BY <1>1, <1>4, Zenon DEF Delivery, Counted, Claimed
<1> QED
  BY <1>5, <1>6, <1>7, <1>8, <1>9, Zenon DEF Delivery

\* A receipt of an older frame does not hide a failure that waits.
LEMMA FailureIsKept ==
  ASSUME TypeOK, Control, NEW f \in Frames, f.gen = gen, Unsettled(f.seq),
         NEW outcome \in Outcomes, Receipt(f, outcome),
         Pending(metrics) # None, f.seq < metrics.retained.seq
  PROVE  Claimed \/ Pending(metrics') # None
<1>0. f.seq \in Int
  BY DEF Frames
<1>1. /\ metrics.retained # None /\ ~metrics.retained.acknowledged
      /\ metrics.error = metrics.retained.seq /\ metrics.handled < metrics.retained.seq
  BY Zenon DEF Pending, FailureMatches
<1>2. metrics.retained.seq \in Int
  BY <1>1, Ranges
<1>3. CASE outcome \in {"written", "unchanged", "deferred"}
  <2>1. /\ metrics'.handled = f.seq /\ metrics'.error = metrics.error
        /\ metrics'.retained = RetainedAfter(metrics, f.seq)
    BY <1>3, ReceiptChanges, Zenon
  <2>2. metrics'.retained = metrics.retained
    BY <1>0, <1>2, <2>1 DEF RetainedAfter
  <2> QED
    BY <1>1, <2>1, <2>2, Zenon DEF Pending, FailureMatches
<1>4. CASE outcome \in {"declined", "superseded"}
  <2>1. /\ metrics'.handled = metrics.handled /\ metrics'.error = metrics.error
        /\ metrics'.retained = metrics.retained
    BY <1>4, ReceiptChanges, Zenon
  <2> QED
    BY <1>1, <2>1, Zenon DEF Pending, FailureMatches
<1>5. CASE outcome \in Failures
  BY <1>5, FailureWaits, Zenon
<1> QED
  BY <1>3, <1>4, <1>5, Zenon DEF Outcomes, Failures

\* The lane settles the frame it was sending.
LEMMA LaneSettlesDelivers ==
  ASSUME IInv, Delivery, LaneSettles
  PROVE  Delivery'
<1>1. UNCHANGED <<policy, slot, unseen, owed, call, gen>> /\ lane.wire # None
  BY Zenon DEF LaneSettles
<1>2. PICK outcome \in Possible(lane.wire) :
        /\ Receipt(lane.wire, outcome)
        /\ \E c \in ShownAfter(lane.wire, outcome) :
             lane' = [lane EXCEPT !.wire = None, !.shown = c]
        /\ worker' = IF worker.pc = "await" THEN [worker EXCEPT !.result = outcome] ELSE worker
  BY Zenon DEF LaneSettles
<1>0. PICK c \in ShownAfter(lane.wire, outcome) : lane' = [lane EXCEPT !.wire = None, !.shown = c]
  BY <1>2, Zenon
<1>3. /\ lane'.wire = None /\ lane'.mail = lane.mail /\ lane'.open = lane.open /\ lane'.shown = c
  BY <1>0, Zenon DEF IInv, TypeOK, Lanes
<1>4. /\ worker'.pc = worker.pc /\ worker'.frame = worker.frame /\ worker'.armed = worker.armed
      /\ worker.pc = "await" => worker'.result = outcome
  BY <1>2, Zenon DEF IInv, TypeOK, Tasks
<1>5. outcome \in Outcomes
  BY <1>2, Zenon DEF Possible, Outcomes, Failures
<1>6. /\ lane.wire \in Frames /\ lane.wire.seq \in Nat
      /\ metrics.handled \in Nat /\ metrics.undelivered \in Nat /\ seen.copies \in Nat
      /\ owed \in Nat /\ policy.copies \in Nat /\ seen.base \in Nat
      /\ slot # None => slot.seq \in Nat
  BY <1>1, Ranges, Zenon DEF IInv
<1>7. Current(lane.wire) <=> lane.wire.gen = gen
  BY <1>1, Zenon DEF Current
<1>8. lane.wire.gen = gen =>
        /\ Unsettled(lane.wire.seq) /\ slot # None /\ lane.wire.seq <= slot.seq
  BY <1>7, Zenon DEF IInv, InOrder, Delivery, Placed
<1>9. /\ seen'.latest = seen.latest /\ seen'.late = seen.late /\ seen'.base = seen.base
      /\ seen'.claimed = seen.claimed
      /\ seen'.copies = IF lane.wire.gen = gen /\ outcome = "written" /\ lane.wire.seq >= seen.base
                        THEN seen.copies + 1 ELSE seen.copies
      /\ lane.wire.gen # gen => metrics' = metrics
  BY <1>2, <1>5, <1>6, ReceiptNotes, Zenon DEF IInv
<1>10. lane.wire.gen = gen =>
         /\ outcome \in {"written", "unchanged", "deferred"} =>
              /\ metrics'.handled = lane.wire.seq /\ metrics'.error = metrics.error
              /\ metrics'.undelivered = metrics.undelivered
         /\ outcome \in {"declined", "superseded"} =>
              /\ metrics'.handled = metrics.handled /\ metrics'.error = metrics.error
              /\ metrics'.undelivered =
                   IF outcome = "superseded" /\ metrics.undelivered >= lane.wire.seq
                   THEN metrics.undelivered ELSE lane.wire.seq
         /\ outcome \in Failures =>
              /\ metrics'.handled = metrics.handled /\ metrics'.error = lane.wire.seq
              /\ metrics'.undelivered = metrics.undelivered
  BY <1>2, <1>5, <1>6, ReceiptChanges, Zenon DEF IInv
<1>11. \/ outcome \in {"written", "unchanged", "deferred"}
       \/ outcome \in {"declined", "superseded"}
       \/ outcome \in Failures
  BY <1>5, Zenon DEF Outcomes, Failures
<1>12. Placed'
  <2>1. \/ metrics'.undelivered = metrics.undelivered
        \/ lane.wire.gen = gen /\ metrics'.undelivered = lane.wire.seq
    BY <1>9, <1>10, <1>11, Zenon
  <2> QED
    BY <1>1, <1>3, <1>4, <1>8, <1>9, <2>1, Zenon DEF Delivery, Placed, Current, Latest
<1>13. LaneRules'
  BY <1>1, <1>3, <1>4, <1>9, Zenon DEF Delivery, LaneRules
<1>14. Surfacing'
  <2>1. ~(worker.pc = "dead" /\ policy.inline)
    BY <1>1, Zenon DEF Delivery, LaneRules
  <2>2. Waits => Claimed' \/ Waits'
    <3>1. CASE lane.wire.gen # gen
      BY <1>3, <1>9, <3>1, Zenon DEF Waits, Current
    <3>2. CASE lane.wire.gen = gen /\ Waits
      <4>1. Claimed \/ Pending(metrics') # None
        BY <1>2, <1>5, <1>6, <1>7, <1>8, <3>2, FailureIsKept, Zenon DEF IInv, Waits
      <4> QED
        BY <1>3, <1>9, <4>1, Zenon DEF Claimed, Waits, Current, Pending, FailureMatches
    <3> QED
      BY <3>1, <3>2, Zenon
  <2> QED
    BY <1>1, <1>4, <1>9, <2>1, <2>2, Zenon DEF Delivery, Surfacing, Claimed
<1>15. Pushed'
  BY <1>1, <1>3, <1>9, Zenon DEF Delivery, Pushed, Serving, Claimed
<1>16. Counted'
  <2>1. SUFFICES ASSUME gen = 1, policy.copies > 1, ~Claimed, slot # None
                 PROVE  /\ owed + seen'.copies + 1 >= policy.copies
                        /\ metrics'.handled = slot.seq => owed + seen'.copies >= policy.copies
    BY <1>1, <1>9, Zenon DEF Counted, Claimed
  <2>2. owed + seen.copies + 1 >= policy.copies
    BY <2>1, Zenon DEF Delivery, Counted
  <2>3. metrics.handled = slot.seq => owed + seen.copies >= policy.copies
    BY <2>1, Zenon DEF Delivery, Counted
  <2>4. outcome = "written" \/ outcome \in Failures
    BY <1>2, <2>1, Zenon DEF Possible
  <2>5. CASE lane.wire.gen = gen /\ outcome = "written"
    <3>1. metrics'.handled = lane.wire.seq
      BY <1>10, <2>5, Zenon
    <3>2. seen.base <= slot.seq
      BY <2>1, Zenon DEF Delivery, Placed
    <3> QED
      BY <1>6, <1>9, <2>1, <2>2, <2>5, <3>1, <3>2
  <2>6. CASE lane.wire.gen # gen \/ outcome \in Failures
    <3>1. metrics'.handled = metrics.handled /\ seen'.copies = seen.copies
      BY <1>9, <1>10, <2>6, Zenon DEF Failures
    <3> QED
      BY <2>2, <2>3, <3>1, Zenon
  <2> QED
    BY <2>4, <2>5, <2>6, Zenon
<1>17. Tracked'
  <2>1. Serving' = Serving /\ Latest' = Latest
    BY <1>1, <1>3, <1>9, Zenon DEF Serving, Claimed, Latest
  <2>2. Unconfirmed => Unconfirmed'
    BY <1>1, <1>3, <1>7, <1>9, <1>10, <1>11, Zenon DEF Unconfirmed, Current
  <2>3. ASSUME slot # None, ~Claimed, lane.wire = Latest
        PROVE  Ended' \/ Shown' \/ Deferred'
    <3>1. lane.wire.gen = gen /\ lane.wire.seq = slot.seq /\ lane.wire.color = slot.color
      BY <2>3 DEF Latest
    <3>2. lane.mail = None
      BY <2>3, LatestOnWire, Zenon DEF Delivery
    <3>3. slot.seq > metrics.handled /\ metrics.undelivered <= slot.seq
      BY <1>8, <2>3, <3>1, UnsettledIsLater, Zenon DEF Delivery, Placed
    <3>4. CASE outcome \in Failures
      BY <1>1, <1>3, <1>10, <3>1, <3>2, <3>3, <3>4, Zenon DEF Ended
    <3>5. CASE outcome \in {"declined", "superseded"}
      <4>1. metrics'.undelivered = slot.seq
        BY <1>6, <1>10, <2>3, <3>1, <3>3, <3>5
      <4> QED
        BY <1>1, <1>3, <1>10, <3>1, <3>2, <3>3, <3>5, <4>1, Zenon DEF Ended, Current
    <3>6. CASE outcome \in {"written", "unchanged", "deferred"}
      <4>1. Quiet'
        BY <1>1, <1>3, <1>10, <3>1, <3>2, <3>6, Zenon DEF Quiet
      <4>2. CASE outcome = "written"
        <5>1. c = slot.color
          BY <1>0, <3>1, <4>2, Zenon DEF ShownAfter, Failures
        <5> QED
          BY <1>1, <1>3, <4>1, <5>1, Zenon DEF Shown
      <4>3. CASE outcome = "unchanged"
        <5>1. lane.shown = slot.color
          BY <1>2, <3>1, <4>3, Zenon DEF Possible, Failures
        <5>2. c = lane.shown
          BY <1>0, <4>3, Zenon DEF ShownAfter, Failures
        <5> QED
          BY <1>1, <1>3, <4>1, <5>1, <5>2, Zenon DEF Shown
      <4>4. CASE outcome = "deferred"
        <5>1. policy.inline /\ ~(policy.copies > 1)
          BY <1>2, <4>4, Zenon DEF Possible, Failures
        <5>2. policy.copies = 1
          BY <5>1, QueueAssumption DEF IInv, TypeOK, AllPolicies
        <5>3. worker.pc = "await"
          BY <1>1, <5>1, Zenon DEF Delivery, LaneRules
        <5> QED
          BY <1>1, <1>4, <4>1, <4>4, <5>2, <5>3, Zenon DEF Deferred
      <4> QED
        BY <3>6, <4>2, <4>3, <4>4, Zenon
    <3> QED
      BY <1>11, <3>4, <3>5, <3>6, Zenon
  <2>4. ASSUME slot # None, Ended
        PROVE  Ended'
    <3>1. /\ slot.seq > metrics.handled /\ lane.mail = None
          /\ metrics.undelivered = slot.seq /\ ~policy.inline
          /\ lane.wire.gen = gen => lane.wire.seq < slot.seq
      BY <1>1, <1>7, <2>4, Zenon DEF Ended
    <3>2. outcome \notin {"declined", "superseded"}
      BY <1>2, <3>1, Zenon DEF Possible, Failures
    <3>3. metrics'.undelivered = slot.seq /\ slot.seq > metrics'.handled
      BY <1>9, <1>10, <1>11, <3>1, <3>2, Zenon
    <3> QED
      BY <1>1, <1>3, <3>1, <3>3, Zenon DEF Ended, Current
  <2>5. slot # None /\ Serving /\ Whereabouts => Whereabouts'
    BY <1>1, <1>3, <1>4, <2>1, <2>3, <2>4, Zenon DEF Whereabouts, Shown, Deferred, Quiet, Serving
  <2> QED
    BY <1>1, <1>4, <2>1, <2>2, <2>5, Zenon DEF Delivery, Tracked
<1> QED
  BY <1>12, <1>13, <1>14, <1>15, <1>16, <1>17, Zenon DEF Delivery

\* At the start there is nothing to deliver.
LEMMA InitDelivery == Init => Delivery
<1> SUFFICES ASSUME Init PROVE Delivery
  BY Zenon
<1>1. Placed /\ LaneRules
  BY DEF Init, Placed, LaneRules, Current, NewMetrics, NewWorker, NewSeen
<1>2. Surfacing /\ Pushed
  BY Zenon DEF Init, Surfacing, Pushed, NoCall, NewWorker, NewSeen
<1>3. Tracked /\ Counted
  BY Zenon DEF Init, Tracked, Counted, NewWorker
<1> QED
  BY <1>1, <1>2, <1>3, Zenon DEF Delivery

\* The frames stay where Delivery says.
LEMMA DeliveryInvariance == Spec => [](IInv /\ Delivery)
<1>1. IInv /\ Delivery /\ [Next]_vars => Delivery'
  BY PushBeginsDelivers, PushDecidesDelivers, RecoverDelivers, ReuseDelivers, TakeDelivers,
     SubmitDelivers, ResumeDelivers, WorkerPanicsDelivers, ReassertDueDelivers, LaneClaimsDelivers,
     LaneSettlesDelivers, DirectWriteDelivers, LaneClosesDelivers, LifecycleDelivers, Zenon DEF Next
<1> QED
  BY <1>1, InitDelivery, Invariance, PTL DEF Spec

\* The latest colours are never silently lost, whichever policy the queue has, for
\* any number of pushes, replays and recoveries: a duplicate is suppressed only
\* while they are shown, on their way, or sent again by the next push.
THEOREM NothingIsEverLost == Spec => []NothingIsLost
<1>1. IInv /\ Delivery => NothingIsLost
  <2> SUFFICES ASSUME IInv, Delivery, seen.latest # None, ~Settling, lane.open
               PROVE  NothingIsLost
    BY Zenon DEF NothingIsLost
  <2>1. call.pc = "idle" /\ worker.pc # "dead" /\ Serving
    BY Zenon DEF Settling, Serving
  <2>2. slot # None /\ slot.color = seen.latest
    BY <2>1, Zenon DEF Delivery, Pushed
  <2>3. Whereabouts
    BY <2>1, <2>2, Zenon DEF Delivery, Tracked
  <2>4. Ended => EndedUndelivered(metrics, slot.seq)
    BY Zenon DEF Ended, EndedUndelivered
  <2>5. Shown => lane.shown = seen.latest
    BY <2>2, Zenon DEF Shown
  <2>6. Deferred => OnItsWay
    <3>1. LastTerminal(metrics) \in Int /\ metrics.handled <= LastTerminal(metrics)
      BY LastTerminalIsLast, Zenon DEF IInv
    <3> QED
      BY <3>1, Zenon DEF Deferred, Quiet, OnItsWay, InHand
  <2> QED
    BY <2>2, <2>3, <2>4, <2>5, <2>6, Zenon DEF NothingIsLost, Whereabouts, OnItsWay, InHand
<1> QED
  BY <1>1, DeliveryInvariance, PTL

\* A protocol that asks for redundant copies of a frame gets that many deliveries of
\* every colour change before the queue goes quiet, for any number of copies.
THEOREM CopiesAreAlwaysSent == Spec => []CopiesAreSent
<1>1. IInv /\ Delivery => CopiesAreSent
  <2> SUFFICES ASSUME IInv, Delivery, slot # None, ~(gen > 1), ~Settling, lane.open, ~InHand,
                      ~(owed > 0), ~EndedUndelivered(metrics, slot.seq), policy.copies # 1
               PROVE  seen.copies >= policy.copies
    BY Zenon DEF CopiesAreSent
  <2>1. worker.pc # "dead" /\ Serving
    BY Zenon DEF Settling, Serving
  <2>2. Whereabouts /\ ~Ended
    BY <2>1, Zenon DEF Delivery, Tracked, Ended, EndedUndelivered
  <2>3. metrics.handled = slot.seq
    BY <2>2, Zenon DEF Whereabouts, InHand, Shown, Deferred, Quiet
  <2>4. owed = 0 /\ policy.copies \in Nat /\ policy.copies > 1 /\ gen = 1 /\ seen.copies \in Nat
    BY Ranges, QueueAssumption DEF IInv, TypeOK, AllPolicies
  <2> QED
    BY <2>1, <2>3, <2>4 DEF Delivery, Counted, Serving
<1> QED
  BY <1>1, DeliveryInvariance, PTL

\* A queue that can deliver nothing any more says so: a failure waits for the
\* lifecycle task or was claimed when the worker died under an inline lane, or a
\* frame was pushed after the lane closed and has settled.
THEOREM FailuresAlwaysSurface == Spec => []FailuresSurface
<1>1. IInv /\ Delivery => FailuresSurface
  BY Zenon DEF Delivery, Surfacing, Waits, FailuresSurface
<1> QED
  BY <1>1, DeliveryInvariance, PTL
==============================================================================
