-------------------------- MODULE IdempotencyProofs --------------------------
(***************************************************************************)
(* The idempotency store for any keys, requests, sizes and bounds.         *)
(*                                                                         *)
(* What makes the properties inductive: a key is in flight exactly while   *)
(* its run is (Marked); completion times follow the sequence numbers       *)
(* (Ordered), so that the front of the deque is the oldest answer and the  *)
(* store forgets an answer only after its age or for a newer one (Gone);   *)
(* and the counter of answers counts the records (Counted), so that the    *)
(* newest one is never pushed out.                                         *)
(*                                                                         *)
(* The second half is about bytes: sums over finite sets, the ledger that  *)
(* the byte counters keep (Ledger), and what follows for an answer that    *)
(* was pushed out.                                                         *)
(***************************************************************************)
EXTENDS Idempotency, FiniteSetTheorems, WellFoundedInduction, TLAPS

Marked ==
  /\ \A k \in Keys : entries[k].state # "absent" => key[entries[k].run] = k
  /\ \A k \in Keys : entries[k].state = "in_flight" => run_pc[entries[k].run] = "running"
  /\ \A q \in Requests : run_pc[q] = "running" => entries[key[q]] = InFlight(q)
  /\ \A q \in completed : entries[key[q]] = Completed(q)
  /\ \A k \in Keys : entries[k].state = "completed" => entries[k].run \in completed
  /\ \A q \in Requests : pc[q] \in {"unsent", "claiming"} => run_pc[q] = "none"

Ordered ==
  /\ completed \subseteq Settled
  /\ \A q \in Settled : sequence[q] < next_sequence /\ completed_at[q] <= clock
  /\ \A p, q \in Settled : p # q => sequence[p] # sequence[q]
  /\ \A p, q \in Settled : sequence[p] < sequence[q] => completed_at[p] <= completed_at[q]

Gone ==
  \A q \in Settled \ completed :
    Aged(q) \/ \E p \in Settled : sequence[q] < sequence[p]

Counted ==
  /\ completed_count = Cardinality(completed)
  /\ pending_count = Cardinality(Running)
  /\ next_sequence = Cardinality(Settled)

Settling == \E q \in Requests : run_pc[q] \in {"expiring", "shrinking"}

Bounded ==
  /\ ~Settling => ~TooMuch
  /\ pending_count <= PendingEntries /\ pending_bytes <= PendingBytes

IInv ==
  /\ TypeOK /\ Marked /\ Ordered /\ Gone /\ Counted /\ Bounded
  /\ AppliedOnce /\ AnswersBelong
------------------------------------------------------------------------------
\* A nonempty set of natural numbers has a least member.
LEMMA LeastMember ==
  ASSUME NEW T \in SUBSET Nat, T # {}
  PROVE  \E x \in T : \A y \in T : x <= y
<1>1. IsWellFoundedOn(OpToRel(<, Nat), Nat)
  BY NatLessThanWellFounded, Zenon
<1>2. PICK x \in T : \A y \in T : ~(<<y, x>> \in OpToRel(<, Nat))
  BY <1>1, WFMin, Zenon
<1>3. \A y \in T : ~(y < x)
  BY <1>2, Zenon DEF OpToRel
<1> QED
  BY <1>3

\* Sets of requests are finite.
LEMMA FiniteRequests ==
  ASSUME NEW S \in SUBSET Requests
  PROVE  IsFiniteSet(S) /\ Cardinality(S) \in 0 .. MaxRequests
<1>1. IsFiniteSet(Requests) /\ Cardinality(Requests) = MaxRequests
  BY RequestsAreBounded, FS_Interval DEF Requests
<1>2. IsFiniteSet(S) /\ Cardinality(S) <= MaxRequests
  BY <1>1, FS_Subset, Zenon
<1> QED
  BY <1>2, FS_CardinalityType, RequestsAreBounded

\* An outcome weighs a number of bytes.
LEMMA OutcomeWeighs ==
  ASSUME NEW o \in Outcomes
  PROVE  o.weight \in Nat
<1>1. CASE o = Abandoned
  BY <1>1, Zenon DEF Abandoned
<1>2. CASE o \in [kind : {"Answered"}, weight : Weights]
  BY <1>2, SizesAreNatural, Zenon
<1> QED
  BY <1>1, <1>2, Zenon DEF Outcomes

\* The three kinds of entry are told apart by their state.
LEMMA EntryKinds ==
  /\ Absent.state = "absent"
  /\ \A q : InFlight(q).state = "in_flight" /\ InFlight(q).run = q
  /\ \A q : Completed(q).state = "completed" /\ Completed(q).run = q
  BY Zenon DEF Absent, InFlight, Completed

\* What an entry is.
LEMMA EntryShape ==
  ASSUME TypeOK, NEW k \in Keys
  PROVE  /\ entries[k].state \in {"absent", "in_flight", "completed"}
         /\ entries[k].state = "absent" => entries[k] = Absent
         /\ entries[k].state = "in_flight" =>
              entries[k].run \in Requests /\ entries[k] = InFlight(entries[k].run)
         /\ entries[k].state = "completed" =>
              entries[k].run \in Requests /\ entries[k] = Completed(entries[k].run)
  BY Zenon DEF TypeOK, Absent, InFlight, Completed

\* Once expire is done no completed answer has aged: the front is the oldest, and
\* it has not.
LEMMA NothingAged ==
  ASSUME TypeOK, Ordered, Expired, NEW q \in completed
  PROVE  ~Aged(q)
<1> DEFINE T == {sequence[p] : p \in completed}
<1>1. T \in SUBSET Nat /\ T # {}
  BY DEF TypeOK
<1>2. PICK x \in T : \A y \in T : x <= y
  BY <1>1, LeastMember, Zenon
<1>3. PICK p \in completed : x = sequence[p]
  BY <1>2, Zenon
<1>4. p \in Requests /\ Oldest(p)
  BY <1>2, <1>3 DEF Oldest, TypeOK
<1>5. ~Aged(p)
  BY <1>4, Zenon DEF Expired
<1>6. p = q \/ completed_at[p] <= completed_at[q]
  <2>1. p \in Settled /\ q \in Settled /\ p \in Requests /\ q \in Requests
    BY <1>4, Zenon DEF Ordered, TypeOK
  <2>2. sequence[p] <= sequence[q] /\ sequence[p] \in Nat /\ sequence[q] \in Nat
    BY <1>4, <2>1, Zenon DEF Oldest, TypeOK
  <2>3. p # q => sequence[p] < sequence[q]
    BY <2>1, <2>2 DEF Ordered
  <2> QED
    BY <2>1, <2>3, Zenon DEF Ordered
<1> QED
  BY <1>5, <1>6, RetentionIsNatural DEF Aged, TypeOK

\* What an eviction does: its record is current, so that the entry goes with it.
LEMMA Evicted ==
  ASSUME TypeOK, Marked, Counted, NEW q \in completed, evict_front(q)
  PROVE  /\ entries' = [entries EXCEPT ![key[q]] = Absent]
         /\ completed' = completed \ {q}
         /\ completed_count' = completed_count - 1
         /\ completed_count' \in 0 .. MaxRequests
         /\ completed_count' = Cardinality(completed')
         /\ stored_bytes' \in Nat
<1>1. entries[key[q]] = Completed(q) /\ q \in Requests /\ key[q] \in Keys
  BY Zenon DEF Marked, TypeOK
<1>2. /\ entries' = [entries EXCEPT ![key[q]] = Absent] /\ completed' = completed \ {q}
      /\ completed_count' = saturating_sub(completed_count, 1)
      /\ stored_bytes' = saturating_sub(stored_bytes, outcome[q].weight)
  BY <1>1 DEF evict_front, forget, Completed
<1>3. outcome[q].weight \in Nat
  BY <1>1, OutcomeWeighs, Zenon DEF TypeOK
<1>4. IsFiniteSet(completed)
  BY FiniteRequests, Zenon DEF TypeOK
<1>5. Cardinality(completed) \in Nat /\ Cardinality(completed) # 0
  BY <1>4, FS_CardinalityType, FS_EmptySet, Zenon
<1>6. Cardinality(completed \ {q}) = Cardinality(completed) - 1
  BY <1>4, FS_RemoveElement, Zenon
<1>7. stored_bytes' \in Nat
  BY <1>2, <1>3 DEF saturating_sub, TypeOK
<1> QED
  BY <1>2, <1>5, <1>6, <1>7, RequestsAreBounded DEF saturating_sub, Counted, TypeOK

\* A request that starts a run was running nothing, and one that is settled is
\* settled for the first time.
LEMMA RunsMove ==
  ASSUME TypeOK, Marked, Counted, NEW q \in Requests
  PROVE  /\ run_pc[q] = "none" /\ run_pc' = [run_pc EXCEPT ![q] = "running"] =>
              /\ Running' = Running \cup {q} /\ Settled' = Settled
              /\ Cardinality(Running') = pending_count + 1
         /\ run_pc[q] = "running" /\ run_pc' = [run_pc EXCEPT ![q] = "expiring"] =>
              /\ Running' = Running \ {q} /\ Settled' = Settled \cup {q}
              /\ Cardinality(Running') = pending_count - 1
              /\ Cardinality(Settled') = next_sequence + 1
<1>1. IsFiniteSet(Running) /\ IsFiniteSet(Settled)
  BY FiniteRequests, Zenon DEF Running, Settled
<1>2. ASSUME run_pc[q] = "none", run_pc' = [run_pc EXCEPT ![q] = "running"]
      PROVE  Running' = Running \cup {q} /\ q \notin Running /\ Settled' = Settled
  BY <1>2, Zenon DEF TypeOK, Running, Settled
<1>3. ASSUME run_pc[q] = "running", run_pc' = [run_pc EXCEPT ![q] = "expiring"]
      PROVE  /\ Running' = Running \ {q} /\ q \in Running
             /\ Settled' = Settled \cup {q} /\ q \notin Settled
  BY <1>3, Zenon DEF TypeOK, Running, Settled
<1>4. ASSUME Running' = Running \cup {q}, q \notin Running
      PROVE  Cardinality(Running') = pending_count + 1
  BY <1>1, <1>4, FS_AddElement, Zenon DEF Counted
<1>5. ASSUME Running' = Running \ {q}, q \in Running
      PROVE  Cardinality(Running') = pending_count - 1
  BY <1>1, <1>5, FS_RemoveElement, Zenon DEF Counted
<1>6. ASSUME Settled' = Settled \cup {q}, q \notin Settled
      PROVE  Cardinality(Settled') = next_sequence + 1
  BY <1>1, <1>6, FS_AddElement, Zenon DEF Counted
<1> QED
  BY <1>2, <1>3, <1>4, <1>5, <1>6, Zenon

\* A request that is not answered from its entry finds none: an aged answer was
\* evicted with its record, and forget has nothing to do.
LEMMA NewKey ==
  ASSUME TypeOK, Marked, Ordered, NEW q \in Requests, DecideNew(q)
  PROVE  entries[key[q]] = Absent /\ UNCHANGED <<completed_count, stored_bytes>>
<1>1. key[q] \in Keys /\ Expired /\ ~Known(entries[key[q]])
  BY Zenon DEF TypeOK, DecideNew
<1>2. entries[key[q]].state # "completed"
  BY <1>1, NothingAged, Zenon DEF Known, Marked
<1>3. entries[key[q]].state = "absent"
  BY <1>1, <1>2, EntryShape, Zenon DEF Known
<1> QED
  BY <1>1, <1>3, EntryShape, Zenon DEF DecideNew

\* The lock and the publication move a settled run on, and settle nothing.
LEMMA RunsStay ==
  ASSUME TypeOK, NEW q \in Requests, ExpireDone(q) \/ ShrinkDone(q) \/ Publish(q)
  PROVE  Running' = Running /\ Settled' = Settled /\ Begun' = Begun
  BY DEF TypeOK, ExpireDone, ShrinkDone, Publish, Running, Settled, Begun

\* Every step keeps the types.
LEMMA TypeStep ==
  ASSUME TypeOK, Marked, Ordered, Counted, [Next]_vars
  PROVE  TypeOK'
<1>1. CASE Tick \/ UNCHANGED vars
  BY <1>1, RetentionIsNatural DEF Tick, vars, store, request, run, TypeOK
<1>2. ASSUME NEW q \in Requests,
             Claim(q) \/ HangUp(q) \/ RequestStep(q) \/ RunStep(q) \/ Expire(q) \/ Shrink(q)
      PROVE  TypeOK'
  <2>1. CASE Claim(q) \/ HangUp(q) \/ Receive(q) \/ ExpireDone(q) \/ ShrinkDone(q) \/
            Publish(q)
    BY <2>1, SizesAreNatural, RetentionIsNatural, Zenon DEF Claim, HangUp, Receive, ExpireDone,
       ShrinkDone, Publish, store, request, run, TypeOK
  <2>2. CASE DecideKnown(q)
    <3>1. /\ pc'[q] \in {"mismatch", "waiting", "replayed"} /\ source'[q] \in Requests \cup {None}
          /\ \E at, p : Answer(q, at, p)
      BY <2>2, EntryShape, SizesAreNatural, RetentionIsNatural DEF DecideKnown, Answer, Known,
         store, request, TypeOK
    <3> QED
      BY <3>1 DEF Answer, store, run, TypeOK
  <2>3. CASE DecideNew(q)
    <3>1. entries[key[q]] = Absent /\ UNCHANGED <<completed_count, stored_bytes>>
      BY <2>3, NewKey, Zenon
    <3>2. /\ entries'[key[q]] \in {Absent, InFlight(q)}
          /\ entries' = [entries EXCEPT ![key[q]] = entries'[key[q]]]
      BY <2>3, Zenon DEF DecideNew, TypeOK
    <3>3. pending_count' \in 0 .. MaxRequests /\ pending_bytes' \in Nat
      <4>1. CASE run_pc' = [run_pc EXCEPT ![q] = "running"] /\ pending_count' = pending_count + 1
        <5>1. run_pc[q] = "none"
          BY <2>3, Zenon DEF Marked, DecideNew
        <5>2. Cardinality(Running') = pending_count' /\ Running' \in SUBSET Requests
          BY <4>1, <5>1, RunsMove, Zenon DEF Running
        <5>3. pending_count' \in 0 .. MaxRequests
          BY <5>2, FiniteRequests, Zenon
        <5> QED
          BY <2>3, <5>3, SizesAreNatural DEF DecideNew, run, TypeOK
      <4>2. CASE UNCHANGED <<pending_count, pending_bytes>>
        BY <4>2, Zenon DEF TypeOK
      <4> QED
        BY <2>3, <4>1, <4>2, Zenon DEF DecideNew
    <3>4. entries' \in [Keys -> [state : {"absent"}, run : {None}]
                           \cup [state : {"in_flight", "completed"}, run : Requests]]
      BY <3>2 DEF Absent, InFlight, TypeOK
    <3>5. /\ pc'[q] \in {"busy", "running"} /\ pc' = [pc EXCEPT ![q] = pc'[q]]
          /\ source' \in [Requests -> Requests \cup {None}]
          /\ begun_at' \in [Requests -> 0 .. MaxClock] /\ begun_seq' \in [Requests -> Nat]
      BY <2>3, SizesAreNatural DEF DecideNew, TypeOK
    <3>6. run_pc' \in [Requests -> {"none", "running", "expiring", "shrinking", "settled", "sent"}]
      BY <2>3, Zenon DEF DecideNew, TypeOK
    <3>7. UNCHANGED <<clock, completed, next_sequence, key, fingerprint, outcome, sequence,
                      completed_at>>
      BY <2>3, Zenon DEF DecideNew
    <3>8. pc' \in [Requests -> {"unsent", "gone", "claiming", "running", "waiting",
                               "answered", "replayed", "mismatch", "busy"}]
      BY <3>5, Zenon DEF TypeOK
    <3> QED
      BY <3>1, <3>3, <3>4, <3>5, <3>6, <3>7, <3>8, Zenon DEF TypeOK
  <2>4. CASE \E o \in Outcomes : Settle(q, o)
    <3>1. PICK o \in Outcomes : Settle(q, o)
      BY <2>4, Zenon
    <3>2. /\ Cardinality(Running') = pending_count - 1 /\ Running' \in SUBSET Requests
          /\ Cardinality(Settled') = next_sequence + 1 /\ Settled' \in SUBSET Requests
      BY <3>1, RunsMove, Zenon DEF Settle, Unsettled, Running, Settled
    <3>3. pending_count' \in 0 .. MaxRequests /\ next_sequence' \in 0 .. MaxRequests
      BY <3>1, <3>2, FiniteRequests, RequestsAreBounded DEF Settle, saturating_sub
    <3>4. completed' \in SUBSET Requests /\ completed_count' \in 0 .. MaxRequests
      <4>1. q \notin completed
        BY <3>1, Zenon DEF Ordered, Settled, Settle, Unsettled
      <4>2. IsFiniteSet(completed)
        BY FiniteRequests, Zenon DEF TypeOK
      <4>3. completed' \in SUBSET Requests /\ completed_count' = Cardinality(completed')
        BY <3>1, <4>1, <4>2, FS_AddElement, RequestsAreBounded, SizesAreNatural,
           RetentionIsNatural, Zenon DEF Settle, Counted, request, TypeOK
      <4> QED
        BY <4>3, FiniteRequests, Zenon
    <3>5. stored_bytes' \in Nat /\ pending_bytes' \in Nat
      BY <3>1, OutcomeWeighs, SizesAreNatural DEF Settle, saturating_sub, TypeOK
    <3>6. entries' \in [Keys -> [state : {"absent"}, run : {None}]
                           \cup [state : {"in_flight", "completed"}, run : Requests]]
      BY <3>1, Zenon DEF Settle, Completed, TypeOK
    <3> QED
      BY <3>1, <3>3, <3>4, <3>5, <3>6 DEF Settle, TimeOfSettlement, request, TypeOK
  <2>5. CASE Expire(q)
    <3>1. q \in completed
      BY <2>5, Zenon DEF Expire, Oldest
    <3>2. entries' = [entries EXCEPT ![key[q]] = Absent] /\ completed' = completed \ {q}
      BY <2>5, <3>1, Evicted, Zenon DEF Expire
    <3>3. completed_count' \in 0 .. MaxRequests /\ stored_bytes' \in Nat
      BY <2>5, <3>1, Evicted, Zenon DEF Expire
    <3> QED
      BY <2>5, <3>2, <3>3, Zenon DEF Expire, Absent, request, run, TypeOK
  <2>6. CASE Shrink(q)
    <3>1. q \in completed
      BY <2>6, Zenon DEF Shrink, Oldest
    <3>2. entries' = [entries EXCEPT ![key[q]] = Absent] /\ completed' = completed \ {q}
      BY <2>6, <3>1, Evicted, Zenon DEF Shrink
    <3>3. completed_count' \in 0 .. MaxRequests /\ stored_bytes' \in Nat
      BY <2>6, <3>1, Evicted, Zenon DEF Shrink
    <3> QED
      BY <2>6, <3>2, <3>3, Zenon DEF Shrink, Absent, request, run, TypeOK
  <2> QED
    BY <1>2, <2>1, <2>2, <2>3, <2>4, <2>5, <2>6, Zenon DEF RequestStep, RunStep
<1> QED
  BY <1>1, <1>2, Zenon DEF Next

\* The counters count.
LEMMA CountedStep ==
  ASSUME TypeOK, Marked, Ordered, Counted, [Next]_vars
  PROVE  Counted'
<1>1. CASE Tick \/ UNCHANGED vars
  BY <1>1, Zenon DEF Tick, vars, Running, Settled, store, run, Counted
<1>2. ASSUME NEW q \in Requests,
             Claim(q) \/ HangUp(q) \/ RequestStep(q) \/ RunStep(q) \/ Expire(q) \/ Shrink(q)
      PROVE  Counted'
  <2>1. CASE Claim(q) \/ HangUp(q) \/ DecideKnown(q) \/ Receive(q)
    BY <2>1, Zenon DEF Claim, HangUp, DecideKnown, Answer, Receive, Running, Settled, store, run,
       Counted
  <2>2. CASE DecideNew(q)
    <3>1. UNCHANGED <<completed, completed_count, next_sequence>> /\ run_pc[q] = "none"
      BY <2>2, NewKey, Zenon DEF DecideNew, Marked
    <3>2. CASE UNCHANGED <<pending_count, run_pc>>
      BY <3>1, <3>2, Zenon DEF Running, Settled, Counted
    <3>3. CASE run_pc' = [run_pc EXCEPT ![q] = "running"] /\ pending_count' = pending_count + 1
      BY <3>1, <3>3, RunsMove, Zenon DEF Counted
    <3> QED
      BY <2>2, <3>2, <3>3, Zenon DEF DecideNew
  <2>3. CASE \E o \in Outcomes : Settle(q, o)
    <3>1. PICK o \in Outcomes : Settle(q, o)
      BY <2>3, Zenon
    <3>2. /\ Cardinality(Running') = pending_count - 1 /\ Running' \in SUBSET Requests
          /\ Cardinality(Settled') = next_sequence + 1
      BY <3>1, RunsMove, Zenon DEF Settle, Unsettled, Running
    <3>3. pending_count - 1 >= 0
      BY <3>2, FiniteRequests DEF TypeOK
    <3>4. q \notin completed /\ IsFiniteSet(completed)
      BY <3>1, FiniteRequests, Zenon DEF Ordered, Settled, Settle, Unsettled, TypeOK
    <3>5. Cardinality(completed') = Cardinality(completed) + 1
      BY <3>1, <3>4, FS_AddElement, Zenon DEF Settle
    <3> QED
      BY <3>1, <3>2, <3>3, <3>5 DEF Settle, saturating_sub, TypeOK, Counted
  <2>4. CASE ExpireDone(q)
    BY <2>4, RunsStay, Zenon DEF ExpireDone, store, Counted
  <2>5. CASE ShrinkDone(q)
    BY <2>5, RunsStay, Zenon DEF ShrinkDone, store, Counted
  <2>6. CASE Publish(q)
    BY <2>6, RunsStay, Zenon DEF Publish, store, Counted
  <2>7. CASE Expire(q)
    <3>1. completed_count' = Cardinality(completed')
      BY <2>7, Evicted, Zenon DEF Expire, Oldest
    <3> QED
      BY <2>7, <3>1, Zenon DEF Expire, Running, Settled, run, Counted
  <2>8. CASE Shrink(q)
    <3>1. completed_count' = Cardinality(completed')
      BY <2>8, Evicted, Zenon DEF Shrink, Oldest
    <3> QED
      BY <2>8, <3>1, Zenon DEF Shrink, Running, Settled, run, Counted
  <2> QED
    BY <1>2, <2>1, <2>2, <2>3, <2>4, <2>5, <2>6, <2>7, <2>8, Zenon DEF RequestStep, RunStep
<1> QED
  BY <1>1, <1>2, Zenon DEF Next

\* A key is marked for its run, from the claim to the eviction.
LEMMA MarkedStep ==
  ASSUME TypeOK, Marked, Ordered, Counted, [Next]_vars
  PROVE  Marked'
<1>1. CASE Tick \/ UNCHANGED vars
  BY <1>1, Zenon DEF Tick, vars, store, request, run, Marked
<1>2. ASSUME NEW q \in Requests,
             Claim(q) \/ HangUp(q) \/ RequestStep(q) \/ RunStep(q) \/ Expire(q) \/ Shrink(q)
      PROVE  Marked'
  <2>1. CASE Claim(q)
    BY <2>1, Zenon DEF Claim, TypeOK, store, run, Marked
  <2>2. CASE HangUp(q)
    BY <2>2, Zenon DEF HangUp, TypeOK, store, run, Marked
  <2>3. CASE DecideKnown(q)
    BY <2>3, RetentionIsNatural DEF DecideKnown, Answer, TypeOK, store, request, run, Marked
  <2>4. CASE DecideNew(q)
    <3>1. entries[key[q]] = Absent /\ run_pc[q] = "none"
      BY <2>4, NewKey, Zenon DEF DecideNew, Marked
    <3>2. \A p \in Requests : key[p] = key[q] => run_pc[p] # "running" /\ p \notin completed
      BY <3>1, EntryKinds DEF Marked
    <3>3. CASE pc'[q] = "busy"
      BY <2>4, <3>1, <3>3, RequestsAreBounded, SizesAreNatural DEF DecideNew, TypeOK, store,
         request, run, Marked
    <3>4. CASE pc'[q] = "running"
      <4>1. /\ UNCHANGED <<completed, key>> /\ pc' = [pc EXCEPT ![q] = "running"]
            /\ entries' = [entries EXCEPT ![key[q]] = InFlight(q)]
            /\ run_pc' = [run_pc EXCEPT ![q] = "running"]
        BY <2>4, <3>4, Zenon DEF DecideNew, TypeOK
      <4>2. key[q] \in Keys /\ InFlight(q).state = "in_flight" /\ InFlight(q).run = q
        BY Zenon DEF TypeOK, InFlight
      <4> QED
        BY <3>1, <3>2, <4>1, <4>2, EntryKinds DEF TypeOK, Marked
    <3> QED
      BY <2>4, <3>3, <3>4 DEF DecideNew, TypeOK
  <2>5. CASE Receive(q)
    BY <2>5, Zenon DEF Receive, TypeOK, store, run, Marked
  <2>6. CASE \E o \in Outcomes : Settle(q, o)
    <3>1. PICK o \in Outcomes : Settle(q, o)
      BY <2>6, Zenon
    <3>2. entries[key[q]] = InFlight(q) /\ entries' = [entries EXCEPT ![key[q]] = Completed(q)]
      BY <3>1, Zenon DEF Settle, Unsettled, Marked
    <3>3. /\ run_pc[q] = "running" /\ run_pc' = [run_pc EXCEPT ![q] = "expiring"]
          /\ completed' = completed \cup {q} /\ UNCHANGED <<key, pc>>
      BY <3>1, Zenon DEF Settle, Unsettled, request
    <3>4. \A p \in Requests : p # q /\ key[p] = key[q] => run_pc[p] # "running" /\ p \notin completed
      BY <3>2, EntryKinds DEF Marked
    <3> QED
      BY <3>2, <3>3, <3>4, EntryKinds DEF TypeOK, Marked
  <2>7. CASE ExpireDone(q)
    BY <2>7 DEF ExpireDone, TypeOK, store, request, Marked
  <2>8. CASE ShrinkDone(q)
    BY <2>8, Zenon DEF ShrinkDone, TypeOK, store, request, Marked
  <2>9. CASE Publish(q)
    BY <2>9 DEF Publish, TypeOK, store, request, Marked
  <2>10. CASE Expire(q)
    <3>1. /\ q \in completed /\ entries' = [entries EXCEPT ![key[q]] = Absent]
          /\ completed' = completed \ {q}
      BY <2>10, Evicted, Zenon DEF Expire, Oldest
    <3>2. entries[key[q]] = Completed(q) /\ UNCHANGED <<key, pc, run_pc>>
      BY <2>10, <3>1, Zenon DEF Expire, request, run, Marked
    <3>3. \A p \in Requests : p # q /\ key[p] = key[q] => run_pc[p] # "running" /\ p \notin completed
      BY <3>2, EntryKinds DEF Marked
    <3>4. run_pc[q] # "running"
      BY <3>2, EntryKinds DEF TypeOK, Marked
    <3> QED
      BY <3>1, <3>2, <3>3, <3>4, EntryKinds DEF TypeOK, Marked
  <2>11. CASE Shrink(q)
    <3>1. /\ q \in completed /\ entries' = [entries EXCEPT ![key[q]] = Absent]
          /\ completed' = completed \ {q}
      BY <2>11, Evicted, Zenon DEF Shrink, Oldest
    <3>2. entries[key[q]] = Completed(q) /\ UNCHANGED <<key, pc, run_pc>>
      BY <2>11, <3>1, Zenon DEF Shrink, request, run, Marked
    <3>3. \A p \in Requests : p # q /\ key[p] = key[q] => run_pc[p] # "running" /\ p \notin completed
      BY <3>2, EntryKinds DEF Marked
    <3>4. run_pc[q] # "running"
      BY <3>2, EntryKinds DEF TypeOK, Marked
    <3> QED
      BY <3>1, <3>2, <3>3, <3>4, EntryKinds DEF TypeOK, Marked
  <2> QED
    BY <1>2, <2>1, <2>2, <2>3, <2>4, <2>5, <2>6, <2>7, <2>8, <2>9, <2>10, <2>11,
       Zenon DEF RequestStep, RunStep
<1> QED
  BY <1>1, <1>2, Zenon DEF Next

\* Answers are recorded in the order of time.
LEMMA OrderedStep ==
  ASSUME TypeOK, Marked, Ordered, Counted, [Next]_vars
  PROVE  Ordered'
<1>1. CASE Tick \/ UNCHANGED vars
  <2>1. /\ Settled' = Settled /\ clock' >= clock
        /\ UNCHANGED <<completed, sequence, next_sequence, completed_at>>
    BY <1>1 DEF Tick, vars, Settled, TypeOK, store, run
  <2>2. \A q \in Settled : completed_at[q] \in Nat
    BY DEF TypeOK, Settled
  <2>3. clock \in Nat /\ clock' \in Nat
    BY <1>1 DEF TypeOK, Tick, vars
  <2> QED
    BY <2>1, <2>2, <2>3 DEF Ordered
<1>2. ASSUME NEW q \in Requests,
             Claim(q) \/ HangUp(q) \/ RequestStep(q) \/ RunStep(q) \/ Expire(q) \/ Shrink(q)
      PROVE  Ordered'
  <2>1. CASE Claim(q) \/ HangUp(q) \/ DecideKnown(q) \/ Receive(q)
    <3>1. UNCHANGED <<clock, store, run>>
      BY <2>1, Zenon DEF Claim, HangUp, DecideKnown, Answer, Receive
    <3> QED
      BY <3>1, Zenon DEF store, run, Settled, Ordered
  <2>2. CASE DecideNew(q)
    <3>1. Settled' = Settled
      BY <2>2, RetentionIsNatural, Zenon DEF DecideNew, Settled, TypeOK, Marked, run
    <3> QED
      BY <2>2, <3>1, Zenon DEF DecideNew, Ordered
  <2>3. CASE \E o \in Outcomes : Settle(q, o)
    <3>1. PICK o \in Outcomes : Settle(q, o)
      BY <2>3, Zenon
    <3>2. Settled' = Settled \cup {q} /\ q \notin Settled
      BY <3>1, RunsMove, Zenon DEF Settle, Unsettled, Settled
    <3>3. \A p \in Settled : sequence'[p] = sequence[p] /\ completed_at'[p] = completed_at[p]
                             /\ sequence[p] \in Nat /\ completed_at[p] \in Nat
      BY <3>1, <3>2 DEF Settle, TypeOK, Settled
    <3>4. /\ sequence'[q] = next_sequence /\ completed_at'[q] = clock /\ clock' = clock
          /\ next_sequence' = next_sequence + 1 /\ completed' = completed \cup {q}
          /\ clock \in Nat /\ next_sequence \in Nat
      BY <3>1 DEF Settle, TimeOfSettlement, TypeOK
    <3> QED
      BY <3>2, <3>3, <3>4 DEF Ordered
  <2>4. CASE ExpireDone(q)
    BY <2>4, RunsStay, Zenon DEF ExpireDone, store, Ordered
  <2>5. CASE ShrinkDone(q)
    BY <2>5, RunsStay, Zenon DEF ShrinkDone, store, Ordered
  <2>6. CASE Publish(q)
    BY <2>6, RunsStay, Zenon DEF Publish, store, Ordered
  <2>7. CASE Expire(q)
    BY <2>7, Evicted, Zenon DEF Expire, Oldest, Settled, run, Ordered
  <2>8. CASE Shrink(q)
    BY <2>8, Evicted, Zenon DEF Shrink, Oldest, Settled, run, Ordered
  <2> QED
    BY <1>2, <2>1, <2>2, <2>3, <2>4, <2>5, <2>6, <2>7, <2>8, Zenon DEF RequestStep, RunStep
<1> QED
  BY <1>1, <1>2, Zenon DEF Next

\* An answer goes when it has aged or for a newer one.
LEMMA GoneStep ==
  ASSUME TypeOK, Marked, Ordered, Counted, Gone, [Next]_vars
  PROVE  Gone'
<1>1. CASE Tick \/ UNCHANGED vars
  <2>1. Settled' = Settled /\ clock' >= clock /\ UNCHANGED <<completed, sequence, completed_at>>
    BY <1>1 DEF Tick, vars, Settled, TypeOK, store, run
  <2>2. \A q \in Settled : completed_at[q] \in Nat
    BY DEF TypeOK, Settled
  <2>3. clock \in Nat /\ clock' \in Nat
    BY <1>1 DEF TypeOK, Tick, vars
  <2>4. \A q \in Settled : Aged(q) => Aged(q)'
    BY <2>1, <2>2, <2>3, RetentionIsNatural DEF Settled, Aged
  <2> QED
    BY <2>1, <2>4, Zenon DEF Gone
<1>2. ASSUME NEW q \in Requests,
             Claim(q) \/ HangUp(q) \/ RequestStep(q) \/ RunStep(q) \/ Expire(q) \/ Shrink(q)
      PROVE  Gone'
  <2>1. CASE Claim(q) \/ HangUp(q) \/ DecideKnown(q) \/ Receive(q)
    BY <2>1, Zenon DEF Claim, HangUp, DecideKnown, Answer, Receive, Settled, store, run, Gone, Aged
  <2>2. CASE DecideNew(q)
    <3>1. Settled' = Settled /\ UNCHANGED <<clock, completed, sequence, completed_at>>
      BY <2>2 DEF DecideNew, Settled, TypeOK, Marked
    <3> QED
      BY <3>1, Zenon DEF Gone, Aged
  <2>3. CASE \E o \in Outcomes : Settle(q, o)
    <3>1. PICK o \in Outcomes : Settle(q, o)
      BY <2>3, Zenon
    <3>2. /\ Settled' = Settled \cup {q} /\ q \notin Settled /\ completed' = completed \cup {q}
          /\ clock' = clock
      BY <3>1, RunsMove, Zenon DEF Settle, Unsettled, Settled
    <3>3. \A p \in Settled : sequence'[p] = sequence[p] /\ completed_at'[p] = completed_at[p]
      BY <3>1, <3>2, Zenon DEF Settle, TypeOK, Settled
    <3> QED
      BY <3>2, <3>3, Zenon DEF Gone, Aged
  <2>4. CASE ExpireDone(q)
    <3>1. Settled' = Settled /\ UNCHANGED <<clock, completed, sequence, completed_at>>
      BY <2>4, RunsStay, Zenon DEF ExpireDone, store
    <3> QED
      BY <3>1, Zenon DEF Gone, Aged
  <2>5. CASE ShrinkDone(q)
    <3>1. Settled' = Settled /\ UNCHANGED <<clock, completed, sequence, completed_at>>
      BY <2>5, RunsStay, Zenon DEF ShrinkDone, store
    <3> QED
      BY <3>1, Zenon DEF Gone, Aged
  <2>6. CASE Publish(q)
    <3>1. Settled' = Settled /\ UNCHANGED <<clock, completed, sequence, completed_at>>
      BY <2>6, RunsStay, Zenon DEF Publish, store
    <3> QED
      BY <3>1, Zenon DEF Gone, Aged
  <2>7. CASE Expire(q)
    <3>1. Aged(q) /\ completed' = completed \ {q}
      BY <2>7, Evicted, Zenon DEF Expire, Oldest
    <3>2. Settled' = Settled /\ UNCHANGED <<clock, sequence, completed_at>>
      BY <2>7, Zenon DEF Expire, Settled, run
    <3> QED
      BY <3>1, <3>2, Zenon DEF Gone, Aged
  <2>8. CASE Shrink(q)
    <3>1. q \in completed /\ completed' = completed \ {q} /\ completed_count > 1
      BY <2>8, Evicted, SizesAreNatural, RetentionIsNatural DEF Shrink, Oldest, TooMuch, TypeOK,
         request
    <3>2. completed' # {}
      <4>1. Cardinality(completed') = completed_count - 1
        BY <2>8, <3>1, Evicted, Zenon DEF Shrink
      <4>2. Cardinality({}) = 0 /\ completed_count - 1 # 0
        BY <3>1, FS_EmptySet DEF TypeOK
      <4> QED
        BY <4>1, <4>2, Zenon
    <3>3. PICK p \in completed : p # q
      BY <3>1, <3>2, Zenon
    <3>4. sequence[q] <= sequence[p] /\ sequence[q] \in Nat /\ sequence[p] \in Nat
      BY <2>8, <3>3, Zenon DEF Shrink, Oldest, TypeOK
    <3>5. sequence[q] < sequence[p] /\ p \in Settled
      BY <3>1, <3>3, <3>4 DEF Ordered
    <3>6. Settled' = Settled /\ UNCHANGED <<clock, sequence, completed_at>>
      BY <2>8, Zenon DEF Shrink, Settled, run
    <3> QED
      BY <3>1, <3>5, <3>6, Zenon DEF Gone, Aged
  <2> QED
    BY <1>2, <2>1, <2>2, <2>3, <2>4, <2>5, <2>6, <2>7, <2>8, Zenon DEF RequestStep, RunStep
<1> QED
  BY <1>1, <1>2, Zenon DEF Next

\* A run begins when the key is free, and its past stays what it was.
LEMMA AppliedStep ==
  ASSUME TypeOK, Marked, Ordered, Counted, Gone, AppliedOnce, [Next]_vars
  PROVE  AppliedOnce'
<1>1. CASE Tick \/ UNCHANGED vars
  BY <1>1 DEF Tick, vars, Begun, Settled, request, run, AppliedOnce, BeganAfter
<1>2. ASSUME NEW q \in Requests,
             Claim(q) \/ HangUp(q) \/ RequestStep(q) \/ RunStep(q) \/ Expire(q) \/ Shrink(q)
      PROVE  AppliedOnce'
  <2>1. CASE Claim(q) \/ HangUp(q) \/ DecideKnown(q) \/ Receive(q)
    <3>1. UNCHANGED <<key, run>>
      BY <2>1, Zenon DEF Claim, HangUp, DecideKnown, Answer, Receive
    <3> QED
      BY <3>1, Zenon DEF run, Settled, Begun, BeganAfter, AppliedOnce
  <2>2. CASE DecideNew(q)
    <3>1. run_pc[q] = "none" /\ entries[key[q]] = Absent
      BY <2>2, NewKey, Zenon DEF DecideNew, Marked
    <3>2. CASE UNCHANGED <<run_pc, begun_at, begun_seq>>
      BY <2>2, <3>2, RequestsAreBounded DEF DecideNew, Begun, Settled, store, request, run,
         AppliedOnce, BeganAfter
    <3>3. CASE /\ run_pc' = [run_pc EXCEPT ![q] = "running"]
               /\ begun_at' = [begun_at EXCEPT ![q] = clock]
               /\ begun_seq' = [begun_seq EXCEPT ![q] = next_sequence]
      <4>1. /\ Settled' = Settled /\ Begun' = Begun \cup {q} /\ q \notin Settled
            /\ UNCHANGED <<key, sequence, completed_at>>
        BY <2>2, <3>1, <3>3 DEF DecideNew, TypeOK, Settled, Begun
      <4>2. /\ begun_at'[q] = clock /\ begun_seq'[q] = next_sequence
            /\ \A n \in Begun : n # q => begun_at'[n] = begun_at[n] /\ begun_seq'[n] = begun_seq[n]
        BY <3>3, Zenon DEF TypeOK, Begun
      <4>3. ASSUME NEW n \in Begun, n # q, key[n] = key[q] PROVE BeganAfter(q, n)'
        <5>1. n \in Settled \ completed
          BY <3>1, <4>3, EntryKinds DEF Marked, Begun, Settled, TypeOK
        <5>2. sequence[n] < next_sequence
          BY <5>1, Zenon DEF Ordered
        <5>3. Aged(n) \/ \E p \in Settled : sequence[n] < sequence[p] /\ sequence[p] < next_sequence
          BY <5>1, Zenon DEF Gone, Ordered
        <5> QED
          BY <4>1, <4>2, <5>1, <5>2, <5>3, Zenon DEF Aged, BeganAfter
      <4>4. q \notin Begun
        BY <3>1, Zenon DEF Begun
      <4>5. ASSUME NEW p \in Begun, NEW n \in Begun, p # n, key[p] = key[n]
            PROVE  BeganAfter(p, n)' \/ BeganAfter(n, p)'
        BY <4>1, <4>2, <4>4, <4>5, Zenon DEF AppliedOnce, BeganAfter
      <4> QED
        BY <4>1, <4>3, <4>5, Zenon DEF AppliedOnce
    <3> QED
      BY <2>2, <3>2, <3>3, Zenon DEF DecideNew
  <2>3. CASE \E o \in Outcomes : Settle(q, o)
    <3>1. PICK o \in Outcomes : Settle(q, o)
      BY <2>3, Zenon
    <3>2. /\ Settled' = Settled \cup {q} /\ q \notin Settled
          /\ UNCHANGED <<key, begun_at, begun_seq>>
      BY <3>1, RunsMove, Zenon DEF Settle, Unsettled, Settled, request
    <3>3. \A p \in Settled : sequence'[p] = sequence[p] /\ completed_at'[p] = completed_at[p]
      BY <3>1, <3>2, Zenon DEF Settle, TypeOK, Settled
    <3>4. Begun' = Begun
      BY <3>1, Zenon DEF Settle, Unsettled, TypeOK, Begun
    <3> QED
      BY <3>2, <3>3, <3>4 DEF AppliedOnce, BeganAfter
  <2>4. CASE ExpireDone(q)
    <3>1. /\ Settled' = Settled /\ Begun' = Begun
          /\ UNCHANGED <<key, sequence, completed_at, begun_at, begun_seq>>
      BY <2>4, RunsStay, Zenon DEF ExpireDone, request
    <3> QED
      BY <3>1 DEF AppliedOnce, BeganAfter
  <2>5. CASE ShrinkDone(q)
    <3>1. /\ Settled' = Settled /\ Begun' = Begun
          /\ UNCHANGED <<key, sequence, completed_at, begun_at, begun_seq>>
      BY <2>5, RunsStay, Zenon DEF ShrinkDone, request
    <3> QED
      BY <3>1 DEF AppliedOnce, BeganAfter
  <2>6. CASE Publish(q)
    <3>1. /\ Settled' = Settled /\ Begun' = Begun
          /\ UNCHANGED <<key, sequence, completed_at, begun_at, begun_seq>>
      BY <2>6, RunsStay, Zenon DEF Publish, request
    <3> QED
      BY <3>1 DEF AppliedOnce, BeganAfter
  <2>7. CASE Expire(q)
    <3>1. /\ Settled' = Settled /\ Begun' = Begun
          /\ UNCHANGED <<key, sequence, completed_at, begun_at, begun_seq>>
      BY <2>7, Zenon DEF Expire, Settled, Begun, request, run
    <3> QED
      BY <3>1 DEF AppliedOnce, BeganAfter
  <2>8. CASE Shrink(q)
    <3>1. /\ Settled' = Settled /\ Begun' = Begun
          /\ UNCHANGED <<key, sequence, completed_at, begun_at, begun_seq>>
      BY <2>8, Zenon DEF Shrink, Settled, Begun, request, run
    <3> QED
      BY <3>1 DEF AppliedOnce, BeganAfter
  <2> QED
    BY <1>2, <2>1, <2>2, <2>3, <2>4, <2>5, <2>6, <2>7, <2>8, Zenon DEF RequestStep, RunStep
<1> QED
  BY <1>1, <1>2, Zenon DEF Next

\* A request is given to a run of its own key and fingerprint.
LEMMA AnswersStep ==
  ASSUME TypeOK, Marked, Ordered, Counted, AnswersBelong, [Next]_vars
  PROVE  AnswersBelong'
<1>1. CASE Tick \/ UNCHANGED vars
  BY <1>1, Zenon DEF Tick, vars, Begun, Settled, request, run, AnswersBelong
<1>2. ASSUME NEW q \in Requests,
             Claim(q) \/ HangUp(q) \/ RequestStep(q) \/ RunStep(q) \/ Expire(q) \/ Shrink(q)
      PROVE  AnswersBelong'
  <2>1. CASE Claim(q)
    BY <2>1, Zenon DEF Claim, TypeOK, Begun, Settled, run, AnswersBelong
  <2>2. CASE HangUp(q)
    BY <2>2, Zenon DEF HangUp, TypeOK, Begun, Settled, run, AnswersBelong
  <2>3. CASE DecideKnown(q)
    <3> DEFINE e == entries[key[q]]
    <3>1. /\ key[q] \in Keys /\ Known(e)
          /\ UNCHANGED <<key, fingerprint>> /\ Begun' = Begun /\ Settled' = Settled
      BY <2>3, Zenon DEF DecideKnown, Answer, TypeOK, Begun, Settled, run
    <3>2. e.run \in Begun /\ key[e.run] = key[q] /\ (e.state = "completed" => e.run \in Settled)
      BY <3>1, EntryShape, Zenon DEF Known, Marked, Ordered, Begun, Settled
    <3>3. CASE Answer(q, "mismatch", None)
      BY <3>1, <3>3, Zenon DEF Answer, TypeOK, AnswersBelong
    <3>4. CASE Same(e, q) /\ e.state = "in_flight" /\ Answer(q, "waiting", e.run)
      BY <3>1, <3>2, <3>4, Zenon DEF Answer, TypeOK, Same, AnswersBelong
    <3>5. CASE Same(e, q) /\ e.state = "completed" /\ Answer(q, "replayed", e.run)
      BY <3>1, <3>2, <3>5, Zenon DEF Answer, TypeOK, Same, AnswersBelong
    <3> QED
      BY <2>3, <3>1, <3>3, <3>4, <3>5, Zenon DEF DecideKnown, Known
  <2>4. CASE DecideNew(q)
    <3>1. run_pc[q] = "none" /\ UNCHANGED <<key, fingerprint>>
      BY <2>4, Zenon DEF DecideNew, Marked
    <3>2. \A p \in Begun : p \in Begun' /\ (p \in Settled => p \in Settled')
      BY <2>4, <3>1, Zenon DEF DecideNew, Begun, Settled, TypeOK
    <3>3. CASE pc' = [pc EXCEPT ![q] = "busy"] /\ UNCHANGED source
      BY <3>1, <3>2, <3>3, Zenon DEF TypeOK, Begun, Settled, AnswersBelong
    <3>4. CASE /\ pc' = [pc EXCEPT ![q] = "running"] /\ source' = [source EXCEPT ![q] = q]
               /\ q \in Begun'
      BY <3>1, <3>2, <3>4 DEF TypeOK, Begun, Settled, AnswersBelong
    <3> QED
      BY <2>4, <3>3, <3>4, Zenon DEF DecideNew, Begun, TypeOK
  <2>5. CASE Receive(q)
    <3>1. source[q] \in Settled
      BY <2>5, Zenon DEF Receive, Begun, Settled, AnswersBelong
    <3> QED
      BY <2>5, <3>1, Zenon DEF Receive, TypeOK, Begun, Settled, run, AnswersBelong
  <2>6. CASE \E o \in Outcomes : Settle(q, o)
    <3>1. UNCHANGED request /\ Begun' = Begun /\ \A p \in Settled : p \in Settled'
      BY <2>6 DEF Settle, Unsettled, TypeOK, Begun, Settled
    <3> QED
      BY <3>1, Zenon DEF request, AnswersBelong
  <2>7. CASE ExpireDone(q)
    BY <2>7, RunsStay, Zenon DEF ExpireDone, request, AnswersBelong
  <2>8. CASE ShrinkDone(q)
    BY <2>8, RunsStay, Zenon DEF ShrinkDone, request, AnswersBelong
  <2>9. CASE Publish(q)
    BY <2>9, RunsStay, Zenon DEF Publish, request, AnswersBelong
  <2>10. CASE Expire(q)
    BY <2>10, Zenon DEF Expire, Begun, Settled, request, run, AnswersBelong
  <2>11. CASE Shrink(q)
    BY <2>11, Zenon DEF Shrink, Begun, Settled, request, run, AnswersBelong
  <2> QED
    BY <1>2, <2>1, <2>2, <2>3, <2>4, <2>5, <2>6, <2>7, <2>8, <2>9, <2>10, <2>11,
       Zenon DEF RequestStep, RunStep
<1> QED
  BY <1>1, <1>2, Zenon DEF Next

\* The loops end within the bounds, and a claim is refused at the bounds.
LEMMA BoundedStep ==
  ASSUME TypeOK, Marked, Ordered, Counted, Bounded, [Next]_vars
  PROVE  Bounded'
<1>1. CASE Tick \/ UNCHANGED vars
  BY <1>1, Zenon DEF Tick, vars, TooMuch, Settling, store, run, Bounded
<1>2. ASSUME NEW q \in Requests,
             Claim(q) \/ HangUp(q) \/ RequestStep(q) \/ RunStep(q) \/ Expire(q) \/ Shrink(q)
      PROVE  Bounded'
  <2>1. CASE Claim(q)
    BY <2>1, Zenon DEF Claim, TooMuch, Settling, store, run, Bounded
  <2>2. CASE HangUp(q)
    BY <2>2, Zenon DEF HangUp, TooMuch, Settling, store, run, Bounded
  <2>3. CASE DecideKnown(q)
    BY <2>3, Zenon DEF DecideKnown, Answer, TooMuch, Settling, store, run, Bounded
  <2>4. CASE DecideNew(q)
    <3>1. UNCHANGED <<completed_count, stored_bytes>>
      BY <2>4, NewKey, Zenon
    <3>2. Settling => Settling'
      BY <2>4 DEF DecideNew, Settling, TypeOK, Marked
    <3>3. pending_count' <= PendingEntries /\ pending_bytes' <= PendingBytes
      BY <2>4, SizesAreNatural, RetentionIsNatural DEF DecideNew, TypeOK, Bounded
    <3> QED
      BY <3>1, <3>2, <3>3, Zenon DEF TooMuch, Bounded
  <2>5. CASE Receive(q)
    BY <2>5, Zenon DEF Receive, TooMuch, Settling, store, run, Bounded
  <2>6. CASE \E o \in Outcomes : Settle(q, o)
    <3>1. PICK o \in Outcomes : Settle(q, o)
      BY <2>6, Zenon
    <3>2. Settling'
      BY <3>1, Zenon DEF Settle, Settling, TypeOK
    <3>3. pending_count' <= pending_count /\ pending_bytes' <= pending_bytes
      BY <3>1, SizesAreNatural DEF Settle, saturating_sub, TypeOK
    <3>4. /\ pending_count \in Nat /\ pending_bytes \in Nat
          /\ pending_count' \in Nat /\ pending_bytes' \in Nat
      BY <3>1, SizesAreNatural DEF Settle, saturating_sub, TypeOK
    <3> QED
      BY <3>2, <3>3, <3>4, RetentionIsNatural DEF Bounded
  <2>7. CASE ExpireDone(q)
    <3>1. UNCHANGED store /\ (Settling => Settling')
      BY <2>7, Zenon DEF ExpireDone, Settling, TypeOK
    <3> QED
      BY <3>1, Zenon DEF TooMuch, store, Bounded
  <2>8. CASE ShrinkDone(q)
    <3>1. completed = {} => completed_count = 0
      BY FS_EmptySet, Zenon DEF Counted
    <3>2. ~TooMuch
      BY <2>8, <3>1, RetentionIsNatural DEF ShrinkDone, TooMuch
    <3> QED
      BY <2>8, <3>2, Zenon DEF ShrinkDone, TooMuch, store, Bounded
  <2>9. CASE Publish(q)
    <3>1. UNCHANGED store /\ (Settling => Settling')
      BY <2>9, Zenon DEF Publish, Settling, TypeOK
    <3> QED
      BY <3>1, Zenon DEF TooMuch, store, Bounded
  <2>10. CASE Expire(q)
    <3>1. /\ completed_count' = completed_count - 1
          /\ stored_bytes' <= stored_bytes /\ stored_bytes' \in Nat
      <4>1. q \in completed /\ evict_front(q)
        BY <2>10, Zenon DEF Expire, Oldest
      <4>2. entries[key[q]] = Completed(q) /\ outcome[q].weight \in Nat
        BY <4>1, OutcomeWeighs, Zenon DEF Marked, TypeOK
      <4>3. stored_bytes' = saturating_sub(stored_bytes, outcome[q].weight)
        BY <4>1, <4>2, EntryKinds, Zenon DEF evict_front, forget
      <4> QED
        BY <4>1, <4>2, <4>3, Evicted DEF saturating_sub, TypeOK
    <3>2. ~TooMuch => ~TooMuch'
      BY <3>1, RetentionIsNatural DEF TooMuch, TypeOK
    <3> QED
      BY <2>10, <3>2, Zenon DEF Expire, Settling, run, Bounded
  <2>11. CASE Shrink(q)
    <3>1. /\ completed_count' = completed_count - 1
          /\ stored_bytes' <= stored_bytes /\ stored_bytes' \in Nat
      <4>1. q \in completed /\ evict_front(q)
        BY <2>11, Zenon DEF Shrink, Oldest
      <4>2. entries[key[q]] = Completed(q) /\ outcome[q].weight \in Nat
        BY <4>1, OutcomeWeighs, Zenon DEF Marked, TypeOK
      <4>3. stored_bytes' = saturating_sub(stored_bytes, outcome[q].weight)
        BY <4>1, <4>2, EntryKinds, Zenon DEF evict_front, forget
      <4> QED
        BY <4>1, <4>2, <4>3, Evicted DEF saturating_sub, TypeOK
    <3>2. ~TooMuch => ~TooMuch'
      BY <3>1, RetentionIsNatural DEF TooMuch, TypeOK
    <3> QED
      BY <2>11, <3>2, Zenon DEF Shrink, Settling, run, Bounded
  <2> QED
    BY <1>2, <2>1, <2>2, <2>3, <2>4, <2>5, <2>6, <2>7, <2>8, <2>9, <2>10, <2>11,
       Zenon DEF RequestStep, RunStep
<1> QED
  BY <1>1, <1>2, Zenon DEF Next

\* At the start nothing is stored and nothing was asked.
LEMMA InitIInv == Init => IInv
<1> SUFFICES ASSUME Init PROVE IInv
  BY Zenon
<1>1. Running = {} /\ Settled = {} /\ Begun = {} /\ Cardinality({}) = 0
  BY FS_EmptySet, Zenon DEF Running, Settled, Begun, Init
<1>2. TypeOK
  <2>1. entries \in [Keys -> [state : {"absent"}, run : {None}]
                        \cup [state : {"in_flight", "completed"}, run : Requests]]
    BY Zenon DEF Absent, Init
  <2>2. outcome \in [Requests -> Outcomes]
    BY Zenon DEF Outcomes, Init
  <2> QED
    BY <2>1, <2>2, RequestsAreBounded, RetentionIsNatural DEF TypeOK, Init
<1>3. Marked
  BY EntryKinds, Zenon DEF Marked, Init
<1>4. Ordered /\ Gone /\ Counted
  BY <1>1, Zenon DEF Ordered, Gone, Counted, Init
<1>5. AppliedOnce
  BY <1>1, Zenon DEF AppliedOnce
<1>6. AnswersBelong
  BY Zenon DEF AnswersBelong, Init
<1>7. Bounded
  BY RetentionIsNatural DEF Bounded, TooMuch, Init
<1> QED
  BY <1>2, <1>3, <1>4, <1>5, <1>6, <1>7, Zenon DEF IInv

\* The inductive invariant holds in every reachable state.
THEOREM Invariance == Spec => []IInv
<1>1. ASSUME IInv, [Next]_vars PROVE IInv'
  BY <1>1, TypeStep, CountedStep, MarkedStep, OrderedStep, GoneStep, AppliedStep, AnswersStep,
     BoundedStep, Zenon DEF IInv
<1> QED
  BY <1>1, InitIInv, PTL DEF Spec

\* A retry never applies a write twice while its answer is kept, for any keys and
\* any number of requests (claim, settle).
THEOREM NoSecondApplication == Spec => []AppliedOnce
  BY Invariance, PTL DEF IInv

\* Every answer comes from a recorded run of the same key and fingerprint.
THEOREM AnswersAreTrue == Spec => []AnswersBelong
  BY Invariance, PTL DEF IInv

\* The bounds on what is kept and on what is in flight hold between operations
\* (shrink_to, Busy).
THEOREM StoreIsBounded == Spec => []WithinBounds
<1>1. IInv => WithinBounds
  <2> SUFFICES ASSUME IInv, Free PROVE WithinBounds
    BY Zenon DEF WithinBounds
  <2>1. ~TooMuch
    BY Zenon DEF IInv, Bounded, Settling, Free
  <2> QED
    BY <2>1, RetentionIsNatural DEF IInv, TypeOK, Bounded, TooMuch, WithinBounds
<1> QED
  BY <1>1, Invariance, PTL

\* No record of the deque is ever stale: the check of evict_front and the expired
\* branch of claim are never needed.
THEOREM RecordsStayCurrent == Spec => []RecordsAreCurrent
<1>1. IInv => RecordsAreCurrent
  BY Zenon DEF IInv, Marked, Ordered, RecordsAreCurrent
<1> QED
  BY <1>1, Invariance, PTL
-----------------------------------------------------------------------------
(***************************************************************************)
(* Sums over finite sets.  SumFunctionOnSet is computed by a recursive     *)
(* function, which cannot be unfolded before it is known to exist, and     *)
(* takes the members in an order of its own.  Both are settled by looking  *)
(* at the smallest case in which they would fail.                          *)
(***************************************************************************)
Pick(s) == CHOOSE x \in s : TRUE

\* One unfolding of the function that sums w over the subsets of S.
Unfold(w, S, I) ==
  [s \in SUBSET S |-> IF s = {} THEN 0 ELSE w[Pick(s)] + I[s \ {Pick(s)}]]

\* A nonempty family of subsets of a finite set has a smallest member.
LEMMA SmallestSet ==
  ASSUME NEW U, IsFiniteSet(U), NEW F \in SUBSET SUBSET U, F # {}
  PROVE  \E m \in F : \A x \in m : m \ {x} \notin F
<1> DEFINE sizes == {n \in Nat : \E s \in F : Cardinality(s) = n}
<1>1. \A s \in F : IsFiniteSet(s) /\ Cardinality(s) \in Nat
  BY FS_Subset, FS_CardinalityType, Zenon
<1>2. sizes # {} /\ sizes \in SUBSET Nat
  BY <1>1, Zenon
<1>3. PICK n \in sizes : \A y \in sizes : n <= y
  <2> HIDE DEF sizes
  <2> QED
    BY <1>2, LeastMember, Zenon
<1>4. PICK m \in F : Cardinality(m) = n
  BY <1>3, Zenon
<1>5. ASSUME NEW x \in m, m \ {x} \in F PROVE FALSE
  <2>1. Cardinality(m \ {x}) = Cardinality(m) - 1
    BY <1>1, FS_RemoveElement, Zenon
  <2>2. Cardinality(m \ {x}) \in sizes
    BY <1>1, <1>5, Zenon
  <2>3. n <= Cardinality(m \ {x}) /\ n \in Nat
    BY <1>3, <2>2, Zenon
  <2> QED
    BY <1>4, <2>1, <2>3
<1> QED
  BY <1>5, Zenon

\* Picking takes a member.
LEMMA PickMember ==
  ASSUME NEW s, s # {}
  PROVE  Pick(s) \in s
  BY Zenon DEF Pick

\* The recursive function exists.
LEMMA SumExists ==
  ASSUME NEW S, IsFiniteSet(S), NEW w, \A q \in S : w[q] \in Nat
  PROVE  \E I \in [SUBSET S -> Nat] : I = Unfold(w, S, I)
<1> DEFINE D(n) == {s \in SUBSET S : Cardinality(s) <= n}
           Value(I, s) == IF s = {} THEN 0 ELSE w[Pick(s)] + I[s \ {Pick(s)}]
           Good(n) == \E f \in [D(n) -> Nat] : \A s \in D(n) : f[s] = Value(f, s)
           bad == {k \in Nat : ~Good(k)}
<1>0. /\ Cardinality(S) \in Nat
      /\ \A s \in SUBSET S : /\ Cardinality(s) \in Nat /\ Cardinality(s) <= Cardinality(S)
                             /\ IsFiniteSet(s)
  BY FS_Subset, FS_CardinalityType, Zenon
<1>1. \A s \in SUBSET S : s # {} =>
         /\ s \ {Pick(s)} \in SUBSET S /\ w[Pick(s)] \in Nat
         /\ Cardinality(s \ {Pick(s)}) = Cardinality(s) - 1
  BY <1>0, PickMember, FS_RemoveElement, Zenon
<1>2. Good(0)
  <2>1. \A s \in D(0) : s = {}
    BY <1>0, FS_EmptySet
  <2>2. [s \in D(0) |-> 0] \in [D(0) -> Nat]
    BY Zenon
  <2> QED
    BY <2>1, <2>2, Zenon
<1>3. ASSUME NEW n \in Nat, Good(n) PROVE Good(n + 1)
  <2>1. PICK I \in [D(n) -> Nat] : \A s \in D(n) : I[s] = Value(I, s)
    BY <1>3, Zenon
  <2> DEFINE J == [s \in D(n + 1) |-> Value(I, s)]
  <2>2. \A s \in D(n + 1) : s # {} => s \ {Pick(s)} \in D(n) /\ w[Pick(s)] \in Nat
    BY <1>0, <1>1
  <2>3. J \in [D(n + 1) -> Nat]
    BY <2>2
  <2>4. \A s \in D(n) : s \in D(n + 1) /\ J[s] = I[s]
    BY <1>0, <2>1
  <2>5. \A s \in D(n + 1) : J[s] = Value(J, s)
    <3>1. \A s \in D(n + 1) : J[s] = Value(I, s)
      BY Zenon
    <3> HIDE DEF J, D
    <3> QED
      BY <2>2, <2>4, <3>1, Zenon
  <2> HIDE DEF J, D
  <2> QED
    BY <2>3, <2>5, Zenon
<1>4. bad = {}
  <2> SUFFICES ASSUME bad # {} PROVE FALSE
    BY Zenon
  <2> HIDE DEF Good
  <2>1. bad \in SUBSET Nat
    BY Zenon
  <2>2. PICK m \in bad : \A y \in bad : m <= y
    <3> HIDE DEF bad
    <3> QED
      BY <2>1, LeastMember, Zenon
  <2>3. m # 0 /\ m \in Nat
    BY <1>2, <2>2, Zenon
  <2>4. m - 1 \in Nat /\ m - 1 \notin bad
    BY <2>2, <2>3
  <2>5. Good((m - 1) + 1)
    BY <1>3, <2>4, Zenon
  <2> QED
    BY <2>2, <2>3, <2>5
<1>5. Good(Cardinality(S))
  <2> HIDE DEF Good
  <2> QED
    BY <1>0, <1>4, Zenon
<1>6. D(Cardinality(S)) = SUBSET S
  BY <1>0, Zenon
<1>7. PICK J \in [SUBSET S -> Nat] : \A s \in SUBSET S : J[s] = Value(J, s)
  BY <1>5, <1>6, Zenon
<1>8. J = Unfold(w, S, J)
  BY <1>7, Zenon DEF Unfold
<1> HIDE DEF D, Value, Good, bad
<1> QED
  BY <1>7, <1>8, Zenon

\* Two of them agree on the sets on which their terms do.
LEMMA SumsAgree ==
  ASSUME NEW S, IsFiniteSet(S), NEW T, NEW v, NEW w, NEW I, NEW J,
         I = Unfold(v, S, I), J = Unfold(w, T, J),
         S \subseteq T, \A q \in S : v[q] = w[q]
  PROVE  \A s \in SUBSET S : I[s] = J[s]
<1> DEFINE bad == {s \in SUBSET S : I[s] # J[s]}
<1>1. bad \in SUBSET SUBSET S
  BY Zenon
<1>2. \A s \in SUBSET S :
         /\ I[s] = IF s = {} THEN 0 ELSE v[Pick(s)] + I[s \ {Pick(s)}]
         /\ J[s] = IF s = {} THEN 0 ELSE w[Pick(s)] + J[s \ {Pick(s)}]
  BY Zenon DEF Unfold
<1>3. ASSUME NEW m \in bad, \A x \in m : m \ {x} \notin bad PROVE FALSE
  <2>1. m # {}
    BY <1>2, <1>3, Zenon
  <2>2. Pick(m) \in m
    BY <2>1, PickMember, Zenon
  <2>3. I[m \ {Pick(m)}] = J[m \ {Pick(m)}]
    BY <1>3, <2>2, Zenon
  <2>4. v[Pick(m)] = w[Pick(m)]
    BY <2>2, Zenon
  <2> QED
    BY <1>2, <1>3, <2>1, <2>3, <2>4, Zenon
<1>4. bad = {}
  <2> HIDE DEF bad
  <2> QED
    BY <1>1, <1>3, SmallestSet, Zenon
<1> QED
  BY <1>4, Zenon

\* I holds the sums of w over the subsets of U.
HoldsSums(I, w, U) ==
  /\ I \in [SUBSET U -> Nat] /\ I = Unfold(w, U, I)
  /\ \A S \in SUBSET U : SumFunctionOnSet(w, S) = I[S]

\* The sum over S is the value, at S, of the function for any larger finite set.
LEMMA SumIsValue ==
  ASSUME NEW U, IsFiniteSet(U), NEW w, \A q \in U : w[q] \in Nat
  PROVE  \E I : HoldsSums(I, w, U)
<1>1. PICK I \in [SUBSET U -> Nat] : I = Unfold(w, U, I)
  BY SumExists, Zenon
<1>2. ASSUME NEW S \in SUBSET U PROVE SumFunctionOnSet(w, S) = I[S]
  <2> DEFINE J == CHOOSE f : f = Unfold(w, S, f)
  <2>1. IsFiniteSet(S) /\ \A q \in S : w[q] \in Nat
    BY FS_Subset, Zenon
  <2>2. \E f : f = Unfold(w, S, f)
    BY <2>1, SumExists, Zenon
  <2>3. J = Unfold(w, S, J)
    BY <2>2, Zenon
  <2>4. SumFunctionOnSet(w, S) = J[S]
    BY Zenon DEF SumFunctionOnSet, FoldFunctionOnSet, MapThenFoldSet, Pick, Unfold
  <2>5. J[S] = I[S]
    <3> HIDE DEF J
    <3> QED
      BY <1>1, <2>1, <2>3, SumsAgree
  <2> QED
    BY <2>4, <2>5, Zenon
<1> QED
  BY <1>1, <1>2, Zenon DEF HoldsSums

\* A sum is a number, nothing adds up to 0, and a member may be taken out of it.
LEMMA SumRemove ==
  ASSUME NEW S, IsFiniteSet(S), NEW w, \A q \in S : w[q] \in Nat
  PROVE  /\ SumFunctionOnSet(w, S) \in Nat
         /\ SumFunctionOnSet(w, {}) = 0
         /\ \A x \in S : /\ SumFunctionOnSet(w, S \ {x}) \in Nat
                         /\ SumFunctionOnSet(w, S) = w[x] + SumFunctionOnSet(w, S \ {x})
<1>0. PICK I : HoldsSums(I, w, S)
  BY SumIsValue, Zenon
<1>1. /\ I \in [SUBSET S -> Nat] /\ I = Unfold(w, S, I)
      /\ \A s \in SUBSET S : SumFunctionOnSet(w, s) = I[s]
  BY <1>0, Zenon DEF HoldsSums
<1>2. \A s \in SUBSET S : I[s] = IF s = {} THEN 0 ELSE w[Pick(s)] + I[s \ {Pick(s)}]
  BY <1>1, Zenon DEF Unfold
<1> DEFINE bad == {s \in SUBSET S : \E x \in s : I[s] # w[x] + I[s \ {x}]}
<1>3. bad \in SUBSET SUBSET S
  BY Zenon
<1>4. ASSUME NEW m \in bad, \A x \in m : m \ {x} \notin bad PROVE FALSE
  <2>1. PICK x \in m : I[m] # w[x] + I[m \ {x}]
    BY <1>4, Zenon
  <2> DEFINE p == Pick(m)
  <2>2. p \in m /\ I[m] = w[p] + I[m \ {p}]
    BY <1>2, <1>4, <2>1, PickMember, Zenon
  <2>3. x # p
    BY <2>1, <2>2, Zenon
  <2> HIDE DEF p
  <2>4. m \ {p} \in SUBSET S /\ m \ {x} \in SUBSET S /\ (m \ {p}) \ {x} \in SUBSET S
    BY <1>4, Zenon
  <2>5. I[m \ {p}] = w[x] + I[(m \ {p}) \ {x}]
    BY <1>4, <2>2, <2>3, <2>4, Zenon
  <2>6. I[m \ {x}] = w[p] + I[(m \ {p}) \ {x}]
    <3>1. I[m \ {x}] = w[p] + I[(m \ {x}) \ {p}]
      BY <1>4, <2>1, <2>2, <2>3, <2>4, Zenon
    <3>2. (m \ {x}) \ {p} = (m \ {p}) \ {x}
      BY Zenon
    <3> QED
      BY <3>1, <3>2, Zenon
  <2>7. w[x] \in Nat /\ w[p] \in Nat /\ I[(m \ {p}) \ {x}] \in Nat
    BY <1>1, <1>4, <2>1, <2>2, <2>4, Zenon
  <2> DEFINE rest == I[(m \ {p}) \ {x}]
  <2>8. w[p] + (w[x] + rest) = w[x] + (w[p] + rest)
    BY <2>7
  <2> HIDE DEF rest
  <2> QED
    BY <2>1, <2>2, <2>5, <2>6, <2>8, Zenon DEF rest
<1>5. bad = {}
  <2> HIDE DEF bad
  <2> QED
    BY <1>3, <1>4, SmallestSet, Zenon
<1>6. \A x \in S : S \ {x} \in SUBSET S /\ I[S] = w[x] + I[S \ {x}]
  BY <1>5, Zenon
<1> QED
  BY <1>1, <1>2, <1>6

\* Adding a member adds its term.
LEMMA SumInsert ==
  ASSUME NEW S, IsFiniteSet(S), NEW w, NEW x, x \notin S, \A q \in S \cup {x} : w[q] \in Nat
  PROVE  /\ SumFunctionOnSet(w, S) \in Nat
         /\ SumFunctionOnSet(w, S \cup {x}) = w[x] + SumFunctionOnSet(w, S)
<1>1. IsFiniteSet(S \cup {x}) /\ (S \cup {x}) \ {x} = S
  BY FS_AddElement, Zenon
<1> QED
  BY <1>1, SumRemove

\* Only the terms of the members count.
LEMMA SumSame ==
  ASSUME NEW S, IsFiniteSet(S), NEW v, NEW w, \A q \in S : v[q] = w[q] /\ w[q] \in Nat
  PROVE  SumFunctionOnSet(v, S) = SumFunctionOnSet(w, S)
<1>0. (\A q \in S : v[q] \in Nat) /\ (\A q \in S : w[q] \in Nat)
  BY Zenon
<1>1. PICK I : HoldsSums(I, v, S)
  BY <1>0, SumIsValue, Zenon
<1>2. PICK J : HoldsSums(J, w, S)
  BY <1>0, SumIsValue, Zenon
<1>3. \A s \in SUBSET S : I[s] = J[s]
  <2>1. I = Unfold(v, S, I) /\ J = Unfold(w, S, J)
    BY <1>1, <1>2, Zenon DEF HoldsSums
  <2> QED
    BY <2>1, SumsAgree
<1> QED
  BY <1>1, <1>2, <1>3, Zenon DEF HoldsSums

\* A larger set has no smaller sum.
LEMMA SumGrows ==
  ASSUME NEW T, IsFiniteSet(T), NEW S \in SUBSET T, NEW w, \A q \in T : w[q] \in Nat
  PROVE  SumFunctionOnSet(w, S) <= SumFunctionOnSet(w, T)
<1> DEFINE Total(s) == SumFunctionOnSet(w, s)
           bad == {s \in SUBSET T : S \subseteq s /\ ~(Total(S) <= Total(s))}
<1>1. \A s \in SUBSET T : IsFiniteSet(s) /\ \A q \in s : w[q] \in Nat
  BY FS_Subset, Zenon
<1>2. ASSUME NEW s \in SUBSET T PROVE Total(s) \in Nat
  BY <1>1, SumRemove, Zenon
<1>3. ASSUME NEW m \in bad, \A x \in m : m \ {x} \notin bad PROVE FALSE
  <2>1. m # S /\ m \in SUBSET T /\ S \subseteq m /\ ~(Total(S) <= Total(m))
    <3>1. Total(S) <= Total(S)
      <4> HIDE DEF Total
      <4> QED
        BY <1>2
    <3> QED
      BY <1>3, <3>1, Zenon
  <2>2. PICK x \in m : x \notin S
    BY <2>1, Zenon
  <2>3. Total(m) = w[x] + Total(m \ {x}) /\ w[x] \in Nat
    BY <1>1, <2>1, SumRemove, Zenon
  <2>4. Total(S) <= Total(m \ {x}) /\ m \ {x} \in SUBSET T
    BY <1>3, <2>1, <2>2, Zenon
  <2> HIDE DEF Total
  <2> QED
    BY <1>2, <2>1, <2>3, <2>4
<1>4. bad = {}
  <2> HIDE DEF bad
  <2>1. bad \in SUBSET SUBSET T
    BY Zenon DEF bad
  <2> QED
    BY <1>3, <2>1, SmallestSet, Zenon
<1>5. T \notin bad
  BY <1>4, Zenon
<1> HIDE DEF Total
<1> QED
  BY <1>5, Zenon DEF Total

-----------------------------------------------------------------------------
(***************************************************************************)
(* The ledger.  Every step does one of four things to what is counted.     *)
(***************************************************************************)
Kept == <<completed, outcome, sequence, completed_at, fingerprint>>

\* Nothing is counted anew; time may pass.
Idles ==
  /\ UNCHANGED <<Kept, stored_bytes, pending_bytes>>
  /\ Running' = Running /\ Settled' = Settled /\ clock' >= clock

\* claim of a new key
Begins(q) ==
  /\ q \notin Running /\ Running' = Running \cup {q} /\ Settled' = Settled
  /\ pending_bytes' = pending_bytes + Size[fingerprint[q]]
  /\ UNCHANGED <<Kept, stored_bytes, clock>>

\* settle
Settles(q, o) ==
  /\ q \in Running /\ Running' = Running \ {q}
  /\ q \notin Settled /\ Settled' = Settled \cup {q}
  /\ completed' = completed \cup {q}
  /\ outcome' = [outcome EXCEPT ![q] = o]
  /\ sequence' = [sequence EXCEPT ![q] = next_sequence]
  /\ completed_at' = [completed_at EXCEPT ![q] = clock]
  /\ stored_bytes' = stored_bytes + o.weight
  /\ pending_bytes' = saturating_sub(pending_bytes, Size[fingerprint[q]])
  /\ UNCHANGED <<fingerprint, clock>>

\* evict_front, in either loop
Evicts(q) ==
  /\ Oldest(q) /\ (Aged(q) \/ TooMuch)
  /\ completed' = completed \ {q}
  /\ stored_bytes' = saturating_sub(stored_bytes, outcome[q].weight)
  /\ Running' = Running /\ Settled' = Settled
  /\ UNCHANGED <<outcome, sequence, completed_at, fingerprint, pending_bytes, clock>>

\* What evict_front takes off the counters is the record's own answer.
LEMMA EvictionMoves ==
  ASSUME TypeOK, Marked, NEW q \in Requests, Oldest(q), evict_front(q)
  PROVE  /\ completed' = completed \ {q}
         /\ stored_bytes' = saturating_sub(stored_bytes, outcome[q].weight)
<1>1. q \in completed /\ entries[key[q]] = Completed(q)
  BY Zenon DEF Oldest, Marked
<1> QED
  BY <1>1, EntryKinds, Zenon DEF evict_front, forget

\* Every step does one of the four.
LEMMA LedgerMoves ==
  ASSUME IInv, [Next]_vars
  PROVE  \/ Idles
         \/ \E q \in Requests : Begins(q) \/ Evicts(q) \/ \E o \in Outcomes : Settles(q, o)
<1>0. TypeOK /\ Marked /\ Ordered /\ Counted
  BY Zenon DEF IInv
<1>1. clock \in Nat
  BY <1>0, RetentionIsNatural DEF TypeOK
<1>2. CASE Tick
  BY <1>1, <1>2 DEF Tick, store, request, run, Idles, Kept, Running, Settled
<1>3. CASE UNCHANGED vars
  BY <1>1, <1>3 DEF vars, store, request, run, Idles, Kept, Running, Settled
<1>4. ASSUME NEW q \in Requests, Claim(q) \/ HangUp(q) \/ DecideKnown(q) \/ Receive(q)
      PROVE  Idles
  <2>1. UNCHANGED <<clock, store, fingerprint, run>>
    BY <1>4, Zenon DEF Claim, HangUp, DecideKnown, Answer, Receive
  <2> QED
    BY <1>1, <2>1 DEF store, run, Idles, Kept, Running, Settled
<1>5. ASSUME NEW q \in Requests, ExpireDone(q) \/ ShrinkDone(q) \/ Publish(q)
      PROVE  Idles
  <2>1. UNCHANGED <<clock, store, request, outcome, sequence, completed_at>>
    BY <1>5, Zenon DEF ExpireDone, ShrinkDone, Publish
  <2>2. Running' = Running /\ Settled' = Settled
    BY <1>0, <1>5, RunsStay, Zenon
  <2> QED
    BY <1>1, <2>1, <2>2 DEF store, request, Idles, Kept
<1>6. ASSUME NEW q \in Requests, DecideNew(q)
      PROVE  Idles \/ Begins(q)
  <2>1. UNCHANGED <<clock, completed, fingerprint, outcome, sequence, completed_at>>
    BY <1>6, Zenon DEF DecideNew
  <2>2. UNCHANGED stored_bytes
    BY <1>0, <1>6, NewKey, Zenon
  <2>3. run_pc[q] = "none"
    BY <1>0, <1>6, Zenon DEF DecideNew, Marked
  <2>4. CASE UNCHANGED <<pending_bytes, run_pc>>
    BY <1>1, <2>1, <2>2, <2>4 DEF Idles, Kept, Running, Settled
  <2>5. CASE /\ run_pc' = [run_pc EXCEPT ![q] = "running"]
             /\ pending_bytes' = pending_bytes + Size[fingerprint[q]]
    <3>1. Running' = Running \cup {q} /\ Settled' = Settled
      BY <1>0, <2>3, <2>5, RunsMove, Zenon
    <3>2. q \notin Running
      BY <2>3, Zenon DEF Running
    <3> QED
      BY <2>1, <2>2, <2>5, <3>1, <3>2, Zenon DEF Begins, Kept
  <2> QED
    BY <1>6, <2>4, <2>5, Zenon DEF DecideNew
<1>7. ASSUME NEW q \in Requests, NEW o \in Outcomes, Settle(q, o)
      PROVE  Settles(q, o)
  <2>1. run_pc[q] = "running" /\ run_pc' = [run_pc EXCEPT ![q] = "expiring"]
    BY <1>7, Zenon DEF Settle, Unsettled
  <2>2. Running' = Running \ {q} /\ Settled' = Settled \cup {q}
    BY <1>0, <2>1, RunsMove, Zenon
  <2>3. q \in Running /\ q \notin Settled
    BY <2>1, Zenon DEF Running, Settled
  <2> QED
    BY <1>7, <2>2, <2>3, Zenon DEF Settle, TimeOfSettlement, request, Settles
<1>8. ASSUME NEW q \in Requests, Expire(q) PROVE Evicts(q)
  <2>1. Oldest(q) /\ Aged(q) /\ UNCHANGED <<clock, pending_bytes, request, run>>
    BY <1>8, Zenon DEF Expire
  <2>2. completed' = completed \ {q}
        /\ stored_bytes' = saturating_sub(stored_bytes, outcome[q].weight)
    BY <1>0, <1>8, <2>1, EvictionMoves, Zenon DEF Expire
  <2> QED
    BY <2>1, <2>2, Zenon DEF request, run, Evicts, Running, Settled
<1>9. ASSUME NEW q \in Requests, Shrink(q) PROVE Evicts(q)
  <2>1. Oldest(q) /\ TooMuch /\ UNCHANGED <<clock, pending_bytes, request, run>>
    BY <1>9, Zenon DEF Shrink
  <2>2. completed' = completed \ {q}
        /\ stored_bytes' = saturating_sub(stored_bytes, outcome[q].weight)
    BY <1>0, <1>9, <2>1, EvictionMoves, Zenon DEF Shrink
  <2> QED
    BY <2>1, <2>2, Zenon DEF request, run, Evicts, Running, Settled
<1> QED
  BY <1>2, <1>3, <1>4, <1>5, <1>6, <1>7, <1>8, <1>9, Zenon DEF Next, RequestStep, RunStep

\* The bytes the store holds and the bytes in flight are what the counters say.
Ledger ==
  /\ stored_bytes = SumFunctionOnSet(Weight, completed)
  /\ pending_bytes = SumFunctionOnSet(BodySize, Running)

\* The terms of the sums are numbers.
LEMMA Terms ==
  ASSUME TypeOK, NEW q \in Requests
  PROVE  /\ Weight[q] = outcome[q].weight /\ Weight[q] \in Nat
         /\ BodySize[q] = Size[fingerprint[q]] /\ BodySize[q] \in Nat
<1>1. outcome[q].weight \in Nat
  BY OutcomeWeighs, Zenon DEF TypeOK
<1>2. Size[fingerprint[q]] \in Nat
  BY SizesAreNatural, Zenon DEF TypeOK
<1> QED
  BY <1>1, <1>2, Zenon DEF Weight, BodySize

\* Taking a member out of a balanced sum never saturates.
LEMMA Subtracts ==
  ASSUME NEW S, IsFiniteSet(S), NEW w, \A q \in S : w[q] \in Nat, NEW x \in S
  PROVE  saturating_sub(SumFunctionOnSet(w, S), w[x]) = SumFunctionOnSet(w, S \ {x})
<1>1. /\ SumFunctionOnSet(w, S \ {x}) \in Nat /\ w[x] \in Nat
      /\ SumFunctionOnSet(w, S) = w[x] + SumFunctionOnSet(w, S \ {x})
  BY SumRemove, Zenon
<1> QED
  BY <1>1 DEF saturating_sub

\* The counters of bytes count, and no subtraction saturates.
LEMMA LedgerStep ==
  ASSUME IInv, IInv', Ledger, [Next]_vars
  PROVE  Ledger'
<1>0. TypeOK /\ Ordered /\ TypeOK'
  BY Zenon DEF IInv
<1>1. /\ completed \in SUBSET Requests /\ Running \in SUBSET Requests
      /\ IsFiniteSet(completed) /\ IsFiniteSet(Running)
  BY <1>0, FiniteRequests, Zenon DEF TypeOK, Running
<1>2. /\ \A q \in completed : Weight[q] \in Nat
      /\ \A q \in Running : BodySize[q] \in Nat
  BY <1>0, <1>1, Terms, Zenon
<1>3. outcome' = outcome => Weight' = Weight
  BY Zenon DEF Weight
<1>4. fingerprint' = fingerprint => BodySize' = BodySize
  BY Zenon DEF BodySize
<1>5. CASE Idles
  <2>1. completed' = completed /\ Running' = Running /\ Weight' = Weight /\ BodySize' = BodySize
    BY <1>3, <1>4, <1>5, Zenon DEF Idles, Kept
  <2> QED
    BY <1>5, <2>1, Zenon DEF Idles, Ledger
<1>6. ASSUME NEW q \in Requests, Begins(q) PROVE Ledger'
  <2>1. /\ completed' = completed /\ Weight' = Weight /\ BodySize' = BodySize
        /\ stored_bytes' = stored_bytes
    BY <1>3, <1>4, <1>6, Zenon DEF Begins, Kept
  <2>2. /\ q \notin Running /\ Running' = Running \cup {q}
        /\ pending_bytes' = pending_bytes + BodySize[q] /\ BodySize[q] \in Nat
    BY <1>0, <1>6, Terms, Zenon DEF Begins
  <2>3. \A p \in Running \cup {q} : BodySize[p] \in Nat
    BY <1>2, <2>2, Zenon
  <2>4. /\ SumFunctionOnSet(BodySize, Running) \in Nat
        /\ SumFunctionOnSet(BodySize, Running \cup {q}) =
             BodySize[q] + SumFunctionOnSet(BodySize, Running)
    BY <1>1, <2>2, <2>3, SumInsert, Zenon
  <2>5. pending_bytes' = SumFunctionOnSet(BodySize', Running')
    BY <2>1, <2>2, <2>4 DEF Ledger
  <2> QED
    BY <2>1, <2>5, Zenon DEF Ledger
<1>7. ASSUME NEW q \in Requests, Evicts(q) PROVE Ledger'
  <2>1. /\ Running' = Running /\ Weight' = Weight /\ BodySize' = BodySize
        /\ pending_bytes' = pending_bytes
    BY <1>3, <1>4, <1>7, Zenon DEF Evicts
  <2>2. /\ q \in completed /\ completed' = completed \ {q}
        /\ stored_bytes' = saturating_sub(stored_bytes, Weight[q])
    BY <1>0, <1>7, Terms, Zenon DEF Evicts, Oldest
  <2>3. stored_bytes' = SumFunctionOnSet(Weight, completed \ {q})
    BY <1>1, <1>2, <2>2, Subtracts, Zenon DEF Ledger
  <2> QED
    BY <2>1, <2>2, <2>3, Zenon DEF Ledger
<1>8. ASSUME NEW q \in Requests, NEW o \in Outcomes, Settles(q, o) PROVE Ledger'
  <2>1. q \in Running /\ Running' = Running \ {q} /\ BodySize' = BodySize
    BY <1>4, <1>8, Zenon DEF Settles
  <2>2. pending_bytes' = saturating_sub(pending_bytes, BodySize[q])
    BY <1>0, <1>8, Terms, Zenon DEF Settles
  <2>3. pending_bytes' = SumFunctionOnSet(BodySize, Running \ {q})
    BY <1>1, <1>2, <2>1, <2>2, Subtracts, Zenon DEF Ledger
  <2>4. q \notin completed /\ completed' = completed \cup {q}
    BY <1>0, <1>8, Zenon DEF Settles, Ordered
  <2>5. \A p \in completed : Weight'[p] = Weight[p]
    BY <1>0, <1>1, <1>8, <2>4, Zenon DEF Settles, Weight, TypeOK
  <2>6. Weight'[q] = o.weight /\ o.weight \in Nat
    BY <1>0, <1>8, OutcomeWeighs, Zenon DEF Settles, Weight, TypeOK
  <2>7. SumFunctionOnSet(Weight', completed) = SumFunctionOnSet(Weight, completed)
    BY <1>1, <1>2, <2>5, SumSame, Zenon
  <2>8. \A p \in completed \cup {q} : Weight'[p] \in Nat
    BY <1>2, <2>5, <2>6, Zenon
  <2>9. /\ SumFunctionOnSet(Weight', completed) \in Nat
        /\ SumFunctionOnSet(Weight', completed \cup {q}) =
             Weight'[q] + SumFunctionOnSet(Weight', completed)
    BY <1>1, <2>4, <2>8, SumInsert, Zenon
  <2>10. stored_bytes' = SumFunctionOnSet(Weight', completed \cup {q})
    BY <1>8, <2>6, <2>7, <2>9 DEF Settles, Ledger
  <2> QED
    BY <2>1, <2>3, <2>4, <2>10, Zenon DEF Ledger
<1> QED
  BY <1>5, <1>6, <1>7, <1>8, LedgerMoves, Zenon

\* The completed entries are as many as the records: each record is its entry's.
LEMMA EntriesAreRecords ==
  ASSUME TypeOK, Marked
  PROVE  Cardinality({k \in Keys : entries[k].state = "completed"}) = Cardinality(completed)
<1> DEFINE T == {k \in Keys : entries[k].state = "completed"}
           f == [q \in completed |-> key[q]]
<1>1. \A q \in completed : q \in Requests /\ key[q] \in T /\ entries[key[q]].run = q
  BY EntryKinds DEF TypeOK, Marked
<1>2. \A k \in T : entries[k].run \in completed /\ key[entries[k].run] = k
  BY Zenon DEF Marked
<1>3. f \in [completed -> T] /\ \A q \in completed : f[q] = key[q]
  BY <1>1, Zenon
<1>4. IsFiniteSet(completed)
  BY FiniteRequests, Zenon DEF TypeOK
<1> HIDE DEF T, f
<1>5. f \in Injection(completed, T)
  BY <1>1, <1>3 DEF Injection, IsInjective
<1>6. f \in Surjection(completed, T)
  BY <1>2, <1>3, Zenon DEF Surjection
<1>7. ExistsBijection(completed, T)
  BY <1>5, <1>6, Zenon DEF ExistsBijection, Bijection
<1>8. Cardinality(T) = Cardinality(completed)
  BY <1>4, <1>7, FS_Bijection, Zenon
<1> QED
  BY <1>8, Zenon DEF T

\* What is newer than a settled answer only grows, and stays what it was.
Newer(q) == {p \in Settled : sequence[p] > sequence[q]}

PushedOut(q) ==
  \/ Aged(q)
  \/ Newer(q) # {} /\ Cardinality(Newer(q)) >= Entries
  \/ Newer(q) # {} /\ SumFunctionOnSet(Weight, Newer(q) \cup {q}) > Bytes

LEMMA KeptIsPushedOut ==
  KeptUntilPushedOut <=> \A q \in Settled \ completed : PushedOut(q)
  BY Zenon DEF KeptUntilPushedOut, PushedOut, Newer

\* An answer that was pushed out stays so: settlements only add newer ones.
LEMMA PushedOutStays ==
  ASSUME TypeOK, TypeOK', NEW q \in Settled, PushedOut(q),
         Settled \subseteq Settled', clock' >= clock,
         \A p \in Settled : /\ sequence'[p] = sequence[p] /\ completed_at'[p] = completed_at[p]
                            /\ outcome'[p] = outcome[p]
  PROVE  PushedOut(q)'
<1>1. /\ Settled \in SUBSET Requests /\ Settled' \in SUBSET Requests
      /\ q \in Requests /\ q \in Settled'
  BY Zenon DEF Settled
<1>2. Newer(q) \subseteq Newer(q)'
  BY <1>1, Zenon DEF Newer
<1>3. /\ IsFiniteSet(Newer(q)') /\ Newer(q) \in SUBSET Newer(q)'
      /\ IsFiniteSet(Newer(q)' \cup {q})
  BY <1>1, <1>2, FiniteRequests, Zenon DEF Newer
<1>4. CASE Aged(q)
  <2>1. completed_at'[q] = completed_at[q] /\ completed_at[q] \in Int
    BY <1>1, RetentionIsNatural DEF TypeOK
  <2>2. clock \in Int /\ clock' \in Int /\ Age \in Int
    BY RetentionIsNatural DEF TypeOK
  <2>3. clock' - completed_at'[q] >= Age
    BY <1>4, <2>1, <2>2 DEF Aged
  <2> QED
    BY <2>3, Zenon DEF PushedOut, Aged
<1>5. CASE Newer(q) # {} /\ Cardinality(Newer(q)) >= Entries
  <2>1. Cardinality(Newer(q)) <= Cardinality(Newer(q)')
    BY <1>3, FS_Subset, Zenon
  <2>2. Cardinality(Newer(q)) \in Nat /\ Cardinality(Newer(q)') \in Nat
    BY <1>3, FS_Subset, FS_CardinalityType, Zenon
  <2>3. Newer(q)' # {} /\ Cardinality(Newer(q)') >= Entries
    BY <1>3, <1>5, <2>1, <2>2, RetentionIsNatural
  <2> QED
    BY <2>3, Zenon DEF PushedOut
<1>6. CASE Newer(q) # {} /\ SumFunctionOnSet(Weight, Newer(q) \cup {q}) > Bytes
  <2> DEFINE old == Newer(q) \cup {q}
             new == Newer(q)' \cup {q}
  <2>1. old \in SUBSET new /\ IsFiniteSet(new) /\ IsFiniteSet(old) /\ new \in SUBSET Requests
    BY <1>1, <1>3, FS_Subset DEF Newer
  <2>2. \A p \in old : p \in Settled /\ p \in Requests
    BY <1>1, Zenon DEF Newer
  <2>3. \A p \in old : Weight'[p] = Weight[p] /\ Weight[p] \in Nat
    BY <2>2, Terms, Zenon DEF Weight
  <2>4. \A p \in new : Weight'[p] \in Nat
    BY <2>1, OutcomeWeighs, Zenon DEF Weight, TypeOK
  <2> HIDE DEF old, new
  <2>5. SumFunctionOnSet(Weight', old) = SumFunctionOnSet(Weight, old)
    BY <2>1, <2>3, SumSame, Zenon
  <2>6. SumFunctionOnSet(Weight', old) <= SumFunctionOnSet(Weight', new)
    BY <2>1, <2>4, SumGrows, Zenon
  <2>7. /\ SumFunctionOnSet(Weight, old) \in Nat
        /\ SumFunctionOnSet(Weight', new) \in Nat
    BY <2>1, <2>3, <2>4, SumRemove, Zenon
  <2>8. SumFunctionOnSet(Weight', new) > Bytes
    BY <1>6, <2>5, <2>6, <2>7, RetentionIsNatural DEF old
  <2> QED
    BY <1>3, <1>6, <2>8, Zenon DEF PushedOut, new
<1> QED
  BY <1>4, <1>5, <1>6, Zenon DEF PushedOut

\* shrink_to evicts the oldest answer only for the newer ones it keeps.
LEMMA ShrinkPushesOut ==
  ASSUME IInv, Ledger, NEW q \in Requests, Oldest(q), TooMuch
  PROVE  PushedOut(q)
<1>0. TypeOK /\ Ordered /\ Counted
  BY Zenon DEF IInv
<1>1. q \in completed /\ completed \subseteq Settled /\ completed \subseteq Requests
  BY <1>0, Zenon DEF Oldest, Ordered, TypeOK
<1>2. IsFiniteSet(completed) /\ IsFiniteSet(Newer(q)) /\ IsFiniteSet(Newer(q) \cup {q})
  BY <1>1, FiniteRequests, Zenon DEF Newer, Settled
<1>3. completed \ {q} \subseteq Newer(q)
  <2> SUFFICES ASSUME NEW p \in completed, p # q PROVE p \in Newer(q)
    BY Zenon
  <2>1. sequence[q] <= sequence[p] /\ sequence[q] # sequence[p] /\ p \in Settled
    BY <1>0, <1>1, Zenon DEF Oldest, Ordered
  <2>2. sequence[q] \in Nat /\ sequence[p] \in Nat
    BY <1>0, <1>1, Zenon DEF TypeOK
  <2> QED
    BY <2>1, <2>2 DEF Newer
<1>4. Cardinality(completed \ {q}) = completed_count - 1 /\ completed_count \in Nat
  <2>1. completed_count = Cardinality(completed) /\ Cardinality(completed) \in Nat
    BY <1>0, <1>2, FS_CardinalityType, Zenon DEF Counted
  <2>2. Cardinality(completed \ {q}) = Cardinality(completed) - 1
    BY <1>1, <1>2, FS_RemoveElement, Zenon
  <2> QED
    BY <2>1, <2>2, Zenon
<1>5. /\ Cardinality(completed \ {q}) <= Cardinality(Newer(q))
      /\ Cardinality(Newer(q)) \in Nat
  BY <1>2, <1>3, FS_Subset, FS_CardinalityType, Zenon
<1>6. completed_count > 1
  BY <1>4, RetentionIsNatural DEF TooMuch
<1>7. Newer(q) # {}
  <2>1. Cardinality(Newer(q)) # 0
    BY <1>4, <1>5, <1>6
  <2> QED
    BY <2>1, FS_EmptySet, Zenon
<1>8. CASE completed_count > (IF Entries > 1 THEN Entries ELSE 1)
  <2>1. Cardinality(Newer(q)) >= Entries
    BY <1>4, <1>5, <1>8, RetentionIsNatural
  <2> QED
    BY <1>7, <2>1, Zenon DEF PushedOut
<1>9. CASE stored_bytes > Bytes
  <2>1. completed \in SUBSET (Newer(q) \cup {q})
    BY <1>3, Zenon
  <2>2. \A p \in Newer(q) \cup {q} : Weight[p] \in Nat
    BY <1>0, Terms, Zenon DEF Newer, Settled
  <2>3. SumFunctionOnSet(Weight, completed) <= SumFunctionOnSet(Weight, Newer(q) \cup {q})
    BY <1>2, <2>1, <2>2, SumGrows, Zenon
  <2>4. /\ SumFunctionOnSet(Weight, Newer(q) \cup {q}) \in Nat
        /\ SumFunctionOnSet(Weight, completed) = stored_bytes /\ stored_bytes \in Nat
    BY <1>0, <1>2, <2>2, SumRemove, Zenon DEF Ledger, TypeOK
  <2>5. SumFunctionOnSet(Weight, Newer(q) \cup {q}) > Bytes
    BY <1>9, <2>3, <2>4, RetentionIsNatural
  <2> QED
    BY <1>7, <2>5, Zenon DEF PushedOut
<1> QED
  BY <1>8, <1>9, Zenon DEF TooMuch

\* No step forgets an answer early.
LEMMA KeptStep ==
  ASSUME IInv, IInv', Ledger, KeptUntilPushedOut, [Next]_vars
  PROVE  KeptUntilPushedOut'
<1>0. TypeOK /\ TypeOK' /\ clock \in Nat
  BY RetentionIsNatural DEF IInv, TypeOK
<1>1. \A q \in Settled \ completed : PushedOut(q)
  BY KeptIsPushedOut, Zenon
<1>2. ASSUME Settled \subseteq Settled', clock' >= clock,
             \A p \in Settled : /\ sequence'[p] = sequence[p]
                                /\ completed_at'[p] = completed_at[p]
                                /\ outcome'[p] = outcome[p],
             \A q \in Settled' \ completed' : q \in Settled /\ PushedOut(q)
      PROVE  KeptUntilPushedOut'
  <2>1. \A q \in Settled' \ completed' : PushedOut(q)'
    BY <1>0, <1>2, PushedOutStays, Zenon
  <2>2. KeptUntilPushedOut' <=> \A q \in Settled' \ completed' : PushedOut(q)'
    BY Zenon DEF KeptUntilPushedOut, PushedOut, Newer
  <2> QED
    BY <2>1, <2>2, Zenon
<1>3. CASE Idles
  <2>1. /\ Settled' = Settled /\ completed' = completed /\ clock' >= clock
        /\ sequence' = sequence /\ completed_at' = completed_at /\ outcome' = outcome
    BY <1>3, Zenon DEF Idles, Kept
  <2> QED
    BY <1>1, <1>2, <2>1, Zenon
<1>4. ASSUME NEW q \in Requests, Begins(q) PROVE KeptUntilPushedOut'
  <2>1. /\ Settled' = Settled /\ completed' = completed /\ clock' >= clock
        /\ sequence' = sequence /\ completed_at' = completed_at /\ outcome' = outcome
    BY <1>0, <1>4 DEF Begins, Kept
  <2> QED
    BY <1>1, <1>2, <2>1, Zenon
<1>5. ASSUME NEW q \in Requests, Evicts(q) PROVE KeptUntilPushedOut'
  <2>1. PushedOut(q)
    BY <1>5, ShrinkPushesOut, Zenon DEF Evicts, PushedOut
  <2>2. /\ Settled' = Settled /\ completed' = completed \ {q} /\ clock' >= clock
        /\ sequence' = sequence /\ completed_at' = completed_at /\ outcome' = outcome
    BY <1>0, <1>5 DEF Evicts
  <2> QED
    BY <1>1, <1>2, <2>1, <2>2, Zenon
<1>6. ASSUME NEW q \in Requests, NEW o \in Outcomes, Settles(q, o)
      PROVE  KeptUntilPushedOut'
  <2>1. /\ Settled' = Settled \cup {q} /\ q \notin Settled /\ completed' = completed \cup {q}
        /\ clock' >= clock
    BY <1>0, <1>6 DEF Settles
  <2>2. \A p \in Settled : /\ sequence'[p] = sequence[p] /\ completed_at'[p] = completed_at[p]
                           /\ outcome'[p] = outcome[p]
    BY <1>0, <1>6, <2>1, Zenon DEF Settles, Settled, TypeOK
  <2>3. \A p \in Settled' \ completed' : p \in Settled /\ PushedOut(p)
    BY <1>1, <2>1, Zenon
  <2> QED
    BY <1>2, <2>1, <2>2, <2>3, Zenon
<1> QED
  BY <1>3, <1>4, <1>5, <1>6, LedgerMoves, Zenon

\* The ledger and what it implies hold in every reachable state.
LEMMA LedgerInvariance == Spec => [](IInv /\ Ledger /\ KeptUntilPushedOut)
<1>1. Init => Ledger /\ KeptUntilPushedOut
  <2> SUFFICES ASSUME Init PROVE Ledger /\ KeptUntilPushedOut
    BY Zenon
  <2>1. completed = {} /\ Running = {} /\ Settled = {}
    BY Zenon DEF Init, Running, Settled
  <2>2. ASSUME NEW w PROVE SumFunctionOnSet(w, {}) = 0
    <3>1. IsFiniteSet({}) /\ \A q \in {} : w[q] \in Nat
      BY FS_EmptySet, Zenon
    <3> QED
      BY <3>1, SumRemove, Zenon
  <2>3. Ledger
    BY <2>1, <2>2, Zenon DEF Init, Ledger
  <2> QED
    BY <2>1, <2>3, Zenon DEF KeptUntilPushedOut
<1>2. IInv /\ IInv' /\ Ledger /\ KeptUntilPushedOut /\ [Next]_vars
        => (Ledger /\ KeptUntilPushedOut)'
  BY LedgerStep, KeptStep, Zenon
<1> QED
  BY <1>1, <1>2, Invariance, PTL DEF Spec

\* The counters of the store and of the writes in flight are exact, in number and
\* in bytes: no saturating_sub of forget, claim or settle ever saturates.
THEOREM LedgerAlwaysBalances == Spec => []LedgerBalances
<1>1. IInv /\ Ledger => LedgerBalances
  BY EntriesAreRecords, Zenon DEF IInv, Counted, Ledger, LedgerBalances
<1> QED
  BY <1>1, LedgerInvariance, PTL

\* The store never forgets an answer early: one that is gone before its age was
\* pushed out by newer ones, for their number or for their bytes (shrink_to).
THEOREM NothingForgottenEarly == Spec => []KeptUntilPushedOut
  BY LedgerInvariance, PTL
==============================================================================
