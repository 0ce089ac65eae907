---------------------------- MODULE Idempotency -----------------------------
(***************************************************************************)
(* Idempotency-Key for scene writes (daemon, api/idempotency.rs): a store  *)
(* of keyed requests that runs the first request of a key, makes repeats   *)
(* wait for it or replays its answer, and forgets answers by age, number   *)
(* and size.                                                               *)
(*                                                                         *)
(* The mutex of the store is held by a request that is "claiming" and by a *)
(* run that is "expiring" or "shrinking"; the loops that evict are taken   *)
(* one record at a time.  The handler runs on a task of its own: a run,    *)
(* named after the request that began it, goes on when its caller hangs    *)
(* up.  A key is the client's key in the scope of its credential.  The     *)
(* deque of completed records is the set of its members: only settle       *)
(* pushes, and it numbers what it pushes.  Requests without a key pass     *)
(* through unchanged and are left out.                                     *)
(***************************************************************************)
EXTENDS Naturals, FiniteSets, Functions

CONSTANTS
  MaxRequests,    \* bound: keyed requests
  Keys,           \* scoped keys
  Fingerprints,
  Size,           \* Size[f]: the bytes of the body of a request f
  Weights,        \* the bytes an answer may have
  Entries, Bytes, Age,            \* Retention of completed answers
  PendingEntries, PendingBytes,   \* Retention of writes in flight
  MaxClock        \* bound: how long the clock runs

ASSUME RequestsAreBounded == MaxRequests \in Nat
ASSUME SizesAreNatural == Size \in [Fingerprints -> Nat] /\ Weights \subseteq Nat
ASSUME RetentionIsNatural ==
  Entries \in Nat /\ Bytes \in Nat /\ Age \in Nat /\ PendingEntries \in Nat
  /\ PendingBytes \in Nat /\ MaxClock \in Nat

\* Requests, in the order in which they reach the store.
Requests == 1 .. MaxRequests
None == 0

VARIABLES
  clock,
  entries,        \* entries[k]: its state and the run it is about
  completed, completed_count, stored_bytes, pending_count, pending_bytes,
  next_sequence,  \* StoreInner
  pc,             \* pc[q]: where the request is
  key, fingerprint,               \* what it asks
  source,         \* source[q]: the run whose outcome answers it
  run_pc,         \* run_pc[q]: where the run begun by q is
  outcome, sequence, completed_at,    \* what the run recorded
  begun_at, begun_seq             \* history: the clock and next_sequence at its claim

store == <<entries, completed, completed_count, stored_bytes, pending_count,
           pending_bytes, next_sequence>>
request == <<pc, key, fingerprint, source>>
run == <<run_pc, outcome, sequence, completed_at, begun_at, begun_seq>>
vars == <<clock, store, request, run>>

\* Outcome, with what weight counts of it.
Abandoned == [kind |-> "Abandoned", weight |-> 0]
Outcomes == [kind : {"Answered"}, weight : Weights] \cup {Abandoned}

Absent == [state |-> "absent", run |-> None]
InFlight(q) == [state |-> "in_flight", run |-> q]
Completed(q) == [state |-> "completed", run |-> q]

Settled == {q \in Requests : run_pc[q] \in {"expiring", "shrinking", "settled", "sent"}}
Free == /\ \A q \in Requests : pc[q] # "claiming"
        /\ \A q \in Requests : run_pc[q] \notin {"expiring", "shrinking"}

Init ==
  /\ clock = 0
  /\ entries = [k \in Keys |-> Absent]
  /\ completed = {} /\ completed_count = 0 /\ stored_bytes = 0
  /\ pending_count = 0 /\ pending_bytes = 0 /\ next_sequence = 0
  /\ pc = [q \in Requests |-> "unsent"]
  /\ key \in [Requests -> Keys]                   \* what each request will ask
  /\ fingerprint \in [Requests -> Fingerprints]
  /\ source = [q \in Requests |-> None]
  /\ run_pc = [q \in Requests |-> "none"]
  /\ outcome = [q \in Requests |-> Abandoned]
  /\ sequence = [q \in Requests |-> 0]
  /\ completed_at = [q \in Requests |-> 0]
  /\ begun_at = [q \in Requests |-> 0]
  /\ begun_seq = [q \in Requests |-> 0]
-----------------------------------------------------------------------------
saturating_sub(a, b) == IF a >= b THEN a - b ELSE 0

Aged(q) == clock - completed_at[q] >= Age

Oldest(q) == q \in completed /\ \A p \in completed : sequence[q] <= sequence[p]

\* Variant: the bytes of a forgotten answer stay counted.
ForgetKeepsBytes(k) ==
  /\ entries' = [entries EXCEPT ![k] = Absent]
  /\ completed_count' = saturating_sub(completed_count, 1)
  /\ UNCHANGED stored_bytes

\* forget of a key whose entry is completed.
forget(k) ==
  /\ entries' = [entries EXCEPT ![k] = Absent]
  /\ completed_count' = saturating_sub(completed_count, 1)
  /\ stored_bytes' = saturating_sub(stored_bytes, outcome[entries[k].run].weight)

\* The record goes; its entry goes when the record still describes it.
evict_front(q) ==
  /\ completed' = completed \ {q}
  /\ IF entries[key[q]] = Completed(q)
       THEN forget(key[q])
       ELSE UNCHANGED <<entries, completed_count, stored_bytes>>
-----------------------------------------------------------------------------
(* A request: guard.                                                       *)

\* The client goes away while it waits; what it began goes on.
HangUp(q) ==
  /\ pc[q] \in {"running", "waiting"}
  /\ pc' = [pc EXCEPT ![q] = "gone"]
  /\ UNCHANGED <<clock, store, key, fingerprint, source, run>>

\* The key is parsed, the body is buffered, and the request takes the mutex.
Claim(q) ==
  /\ pc[q] = "unsent" /\ \A p \in Requests : p < q => pc[p] # "unsent"
  /\ Free
  /\ pc' = [pc EXCEPT ![q] = "claiming"]
  /\ UNCHANGED <<clock, store, key, fingerprint, source, run>>

\* The loop of expire, for a claim or a settlement.
Expire(q) ==
  /\ \E p \in Requests : pc[p] = "claiming" \/ run_pc[p] = "expiring"
  /\ Oldest(q) /\ Aged(q)
  /\ evict_front(q)
  /\ UNCHANGED <<clock, pending_count, pending_bytes, next_sequence, request, run>>

Expired == \A q \in Requests : Oldest(q) => ~Aged(q)

Answer(q, at, p) ==
  /\ pc' = [pc EXCEPT ![q] = at]
  /\ source' = [source EXCEPT ![q] = p]
  /\ UNCHANGED <<clock, store, key, fingerprint, run>>

\* Variant: a request in flight is not looked up.
KnownWhenDone(e) == e.state = "completed" /\ ~Aged(e.run)

\* The entry stands for a request in flight or one that was answered lately.
Known(e) == e.state = "in_flight" \/ (e.state = "completed" /\ ~Aged(e.run))

\* Variant: a repeat of a request in flight is not compared with it.
SameUnlessRunning(e, q) ==
  e.state = "in_flight" \/ fingerprint[e.run] = fingerprint[q]

\* *held == fingerprint
Same(e, q) == fingerprint[e.run] = fingerprint[q]

DecideKnown(q) ==
  LET e == entries[key[q]]
  IN  /\ pc[q] = "claiming" /\ Expired
      /\ Known(e)
      /\ IF ~Same(e, q) THEN Answer(q, "mismatch", None)
         ELSE IF e.state = "in_flight" THEN Answer(q, "waiting", e.run)
         ELSE Answer(q, "replayed", e.run)

\* The key is new, or what it named has expired.
DecideNew(q) ==
  LET e == entries[key[q]]
      size == Size[fingerprint[q]]
      busy == pending_count >= PendingEntries \/ pending_bytes + size > PendingBytes
  IN  /\ pc[q] = "claiming" /\ Expired
      /\ ~Known(e)
      /\ IF e.state = "completed"
           THEN /\ completed_count' = saturating_sub(completed_count, 1)
                /\ stored_bytes' = saturating_sub(stored_bytes, outcome[e.run].weight)
           ELSE UNCHANGED <<completed_count, stored_bytes>>
      /\ entries' = [entries EXCEPT ![key[q]] = IF busy THEN Absent ELSE InFlight(q)]
      /\ IF busy
           THEN /\ pc' = [pc EXCEPT ![q] = "busy"]
                /\ UNCHANGED <<pending_count, pending_bytes, source, run_pc, begun_at,
                               begun_seq>>
           ELSE /\ pc' = [pc EXCEPT ![q] = "running"]
                /\ pending_count' = pending_count + 1
                /\ pending_bytes' = pending_bytes + size
                /\ source' = [source EXCEPT ![q] = q]
                /\ run_pc' = [run_pc EXCEPT ![q] = "running"]
                /\ begun_at' = [begun_at EXCEPT ![q] = clock]
                /\ begun_seq' = [begun_seq EXCEPT ![q] = next_sequence]
      /\ UNCHANGED <<clock, completed, next_sequence, key, fingerprint, outcome,
                     sequence, completed_at>>

\* task.await of the first request, wait of a repeat.
Receive(q) ==
  /\ pc[q] \in {"running", "waiting"}
  /\ run_pc[source[q]] = "sent"
  /\ pc' = [pc EXCEPT ![q] = IF pc[q] = "running" THEN "answered" ELSE "replayed"]
  /\ UNCHANGED <<clock, store, key, fingerprint, source, run>>
-----------------------------------------------------------------------------
(* A run: the handler answers, or ends without an answer; InFlight settles *)
(* or is dropped.                                                          *)

\* A claim that was settled is not settled again when it is dropped.
Unsettled(q) == run_pc[q] = "running"

\* now, read under the mutex.
TimeOfSettlement(q) == clock

Settle(q, o) ==
  /\ Unsettled(q)
  /\ Free
  /\ run_pc' = [run_pc EXCEPT ![q] = "expiring"]
  /\ outcome' = [outcome EXCEPT ![q] = o]
  /\ pending_count' = saturating_sub(pending_count, 1)
  /\ pending_bytes' = saturating_sub(pending_bytes, Size[fingerprint[q]])
  /\ sequence' = [sequence EXCEPT ![q] = next_sequence]
  /\ next_sequence' = next_sequence + 1
  /\ completed_at' = [completed_at EXCEPT ![q] = TimeOfSettlement(q)]
  /\ entries' = [entries EXCEPT ![key[q]] = Completed(q)]
  /\ completed' = completed \cup {q}
  /\ completed_count' = completed_count + 1
  /\ stored_bytes' = stored_bytes + o.weight
  /\ UNCHANGED <<clock, request, begun_at, begun_seq>>

ExpireDone(q) ==
  /\ run_pc[q] = "expiring" /\ Expired
  /\ run_pc' = [run_pc EXCEPT ![q] = "shrinking"]
  /\ UNCHANGED <<clock, store, request, outcome, sequence, completed_at, begun_at,
                 begun_seq>>

\* Variant: an answer goes as soon as the bound is reached.
AtTheBound ==
  \/ completed_count >= (IF Entries > 1 THEN Entries ELSE 1) /\ completed_count > 1
  \/ stored_bytes > Bytes /\ completed_count > 1

TooMuch ==
  \/ completed_count > (IF Entries > 1 THEN Entries ELSE 1)
  \/ stored_bytes > Bytes /\ completed_count > 1

\* The loop of shrink_to.
Shrink(q) ==
  /\ \E p \in Requests : run_pc[p] = "shrinking"
  /\ TooMuch
  /\ Oldest(q)
  /\ evict_front(q)
  /\ UNCHANGED <<clock, pending_count, pending_bytes, next_sequence, request, run>>

ShrinkDone(q) ==
  /\ run_pc[q] = "shrinking"
  /\ ~TooMuch \/ completed = {}
  /\ run_pc' = [run_pc EXCEPT ![q] = "settled"]
  /\ UNCHANGED <<clock, store, request, outcome, sequence, completed_at, begun_at,
                 begun_seq>>

\* Variant: an abandoned run wakes nobody.
PublishAnswer(q) ==
  /\ run_pc[q] = "settled" /\ outcome[q] # Abandoned
  /\ run_pc' = [run_pc EXCEPT ![q] = "sent"]
  /\ UNCHANGED <<clock, store, request, outcome, sequence, completed_at, begun_at,
                 begun_seq>>

\* send_replace, after the mutex is released.
Publish(q) ==
  /\ run_pc[q] = "settled"
  /\ run_pc' = [run_pc EXCEPT ![q] = "sent"]
  /\ UNCHANGED <<clock, store, request, outcome, sequence, completed_at, begun_at,
                 begun_seq>>

\* now is read under the mutex, so that the clock may stand while it is held.
Tick ==
  /\ Free
  /\ clock < MaxClock
  /\ clock' = clock + 1
  /\ UNCHANGED <<store, request, run>>
-----------------------------------------------------------------------------
RequestStep(q) == DecideKnown(q) \/ DecideNew(q) \/ Receive(q)

RunStep(q) ==
  \/ \E o \in Outcomes : Settle(q, o)
  \/ ExpireDone(q) \/ ShrinkDone(q) \/ Publish(q)

Next ==
  \/ Tick
  \/ \E q \in Requests :
       Claim(q) \/ HangUp(q) \/ RequestStep(q) \/ RunStep(q) \/ Expire(q) \/ Shrink(q)

Spec == Init /\ [][Next]_vars

\* Something that can go on does: tasks are run, loops continue, handlers end.
\* Clients need not come, wait or hang up.
Fairness ==
  WF_vars(\E q \in Requests : RequestStep(q) \/ RunStep(q) \/ Expire(q) \/ Shrink(q))

FairSpec == Spec /\ Fairness
-----------------------------------------------------------------------------
Begun == {q \in Requests : run_pc[q] # "none"}
Running == {q \in Requests : run_pc[q] = "running"}

\* The variables keep their types.
TypeOK ==
  /\ clock \in 0 .. MaxClock
  /\ entries \in [Keys -> [state : {"absent"}, run : {None}]
                         \cup [state : {"in_flight", "completed"}, run : Requests]]
  /\ completed \subseteq Requests
  /\ completed_count \in 0 .. MaxRequests /\ stored_bytes \in Nat
  /\ pending_count \in 0 .. MaxRequests /\ pending_bytes \in Nat
  /\ next_sequence \in 0 .. MaxRequests
  /\ pc \in [Requests -> {"unsent", "gone", "claiming", "running", "waiting",
                          "answered", "replayed", "mismatch", "busy"}]
  /\ key \in [Requests -> Keys] /\ fingerprint \in [Requests -> Fingerprints]
  /\ source \in [Requests -> Requests \cup {None}]
  /\ run_pc \in [Requests -> {"none", "running", "expiring", "shrinking", "settled", "sent"}]
  /\ outcome \in [Requests -> Outcomes]
  /\ sequence \in [Requests -> Nat] /\ completed_at \in [Requests -> 0 .. MaxClock]
  /\ begun_at \in [Requests -> 0 .. MaxClock] /\ begun_seq \in [Requests -> Nat]

\* p began once n was settled, and n's answer was gone for a reason: it had aged,
\* or newer answers had come.
BeganAfter(p, n) ==
  /\ n \in Settled /\ sequence[n] < begun_seq[p]
  /\ \/ begun_at[p] - completed_at[n] >= Age
     \/ \E i \in Settled : sequence[n] < sequence[i] /\ sequence[i] < begun_seq[p]

\* A retry with the same key never applies twice while its answer is kept ("the
\* key closes that gap"): two runs of a key are never under way together, and the
\* second waited for the first's answer to age or to be pushed out by a newer one.
AppliedOnce ==
  \A p, n \in Begun : p # n /\ key[p] = key[n] => BeganAfter(p, n) \/ BeganAfter(n, p)

\* A request is answered by a run of the same key and the same fingerprint, and
\* by nothing that is not recorded yet.
AnswersBelong ==
  \A q \in Requests :
    /\ pc[q] \in {"running", "waiting", "answered", "replayed"} =>
         /\ source[q] \in Begun
         /\ key[source[q]] = key[q] /\ fingerprint[source[q]] = fingerprint[q]
    /\ pc[q] \in {"answered", "replayed"} => source[q] \in Settled

\* The bytes of each answer and of each body.
Weight == [q \in Requests |-> outcome[q].weight]
BodySize == [q \in Requests |-> Size[fingerprint[q]]]

\* The counters agree with what is stored and with what is in flight.
LedgerBalances ==
  /\ completed_count = Cardinality({k \in Keys : entries[k].state = "completed"})
  /\ stored_bytes = SumFunctionOnSet(Weight, completed)
  /\ pending_count = Cardinality(Running)
  /\ pending_bytes = SumFunctionOnSet(BodySize, Running)

\* Between operations the store is within its bounds, and only the newest answer
\* may be larger than the bound on bytes (shrink_to, Busy).
WithinBounds ==
  Free => /\ completed_count <= (IF Entries > 1 THEN Entries ELSE 1)
          /\ stored_bytes <= Bytes \/ completed_count <= 1
          /\ pending_count <= PendingEntries /\ pending_bytes <= PendingBytes

\* An answer that is gone before its age was pushed out by newer ones, for their
\* number or for their bytes: the store never forgets early (shrink_to).
KeptUntilPushedOut ==
  \A q \in Settled \ completed :
    LET newer == {p \in Settled : sequence[p] > sequence[q]}
    IN  \/ Aged(q)
        \/ newer # {} /\ Cardinality(newer) >= Entries
        \/ newer # {} /\ SumFunctionOnSet(Weight, newer \cup {q}) > Bytes

\* The records and the completed entries are the same, in the order of time: no
\* record is stale when it reaches the front, and expire leaves no aged answer
\* behind ("read under the lock, so completion times stay in deque order").
RecordsAreCurrent ==
  /\ \A q \in completed : entries[key[q]] = Completed(q)
  /\ \A k \in Keys : entries[k].state = "completed" => entries[k].run \in completed
  /\ \A p, q \in completed : sequence[p] < sequence[q] => completed_at[p] <= completed_at[q]

\* No repeat hangs: who waits for a run is answered, when the handler panics too
\* (Drop for InFlight).
WaitersAreAnswered ==
  []<>(\A q \in Requests : pc[q] \notin {"running", "waiting"})
=============================================================================
