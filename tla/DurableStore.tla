----------------------------- MODULE DurableStore -----------------------------
(***************************************************************************)
(* One destination of the durable persistence coordinator                  *)
(* (crates/hypercolor-persistence/src/lib.rs): callers admit complete      *)
(* payloads for one file, one attempt at a time replaces the file, a pool  *)
(* of retry workers owns what no caller carries, the disk fails, other     *)
(* programs edit the file, and the process may crash between any two       *)
(* steps.                                                                  *)
(*                                                                         *)
(* Every use of the destination's state mutex is one step, and so is every *)
(* file operation made outside it.  The supervisor's queue holds a         *)
(* destination at most once and the due time only delays it, so queued is  *)
(* a flag and a worker may pop it at any time.  The disk is the content    *)
(* readers see and the set of contents a crash may leave: a rename adds    *)
(* one, a directory sync reduces the set to what is visible.               *)
(*                                                                         *)
(* Generations restart at 0 with the process.  Here a new process goes on  *)
(* counting from the last one (base stands for its 0), so that a           *)
(* generation names one write of the whole behaviour.  The payload digest  *)
(* is the payload.                                                         *)
(***************************************************************************)
EXTENDS Integers, FiniteSets

CONSTANTS
  Foreground,   \* callers of commit, commit_and_wait_durable and their variants
  Behind,       \* callers of admit_write_behind
  Workers,      \* retry workers
  Payloads,     \* file contents
  Seed,         \* the content the first process finds
  MaxWrites,    \* reservations in a behaviour
  MaxTroubles   \* failing file operations, edits by others and crashes

Writers == Foreground \cup Behind
Tasks == Writers \cup Workers
None == 0
Generations == 1 .. MaxWrites

ASSUME TasksAreDistinct ==
  Foreground \cap Behind = {} /\ Writers \cap Workers = {}
ASSUME SeedIsContent == Seed \in Payloads
ASSUME BoundsAreNatural ==
  MaxWrites \in Nat /\ MaxTroubles \in Nat

VARIABLES
  next_generation, latest, pending, active, foreground, landed, durable, lagging,
  payload,      \* [Generations -> what the write carries]
  queued,       \* the destination is in the supervisor's queue
  pc, gen, result,            \* per task: what it does next, for which write
  visible,      \* the file: [gen, bytes]; gen is 0 if this daemon did not write it
  possible,     \* what a crash may leave of it
  base, promised, foreign,    \* see DurableRegister; base is the process's 0
  troubles      \* how many there have been

state == <<next_generation, latest, pending, active, foreground, landed, durable, lagging, payload>>
tasks == <<pc, gen, result>>
disk == <<visible, possible, foreign>>
history == <<base, promised>>
vars == <<state, queued, tasks, disk, history, troubles>>

Contents == [gen : {0} \cup Generations, bytes : Payloads]
WriterPcs == {"idle", "reserved", "admitted", "dropped", "waiting", "kicked", "flushing"}
AttemptPcs == {"check", "verify", "stage", "replace", "rename", "sync",
               "durable", "superseded", "failed"}

Init ==
  /\ next_generation = 0 /\ latest = 0 /\ pending = None /\ active = None
  /\ foreground = None /\ landed = 0 /\ durable = {} /\ lagging = FALSE
  /\ payload = [g \in Generations |-> Seed]
  /\ queued = FALSE
  /\ pc = [t \in Tasks |-> "idle"] /\ gen = [t \in Tasks |-> None]
  /\ result = [t \in Tasks |-> "none"]
  /\ visible = [gen |-> 0, bytes |-> Seed]
  /\ possible = {visible} /\ foreign = FALSE
  /\ base = 0 /\ promised = 0
  /\ troubles = 0

Trouble ==
  /\ troubles < MaxTroubles
  /\ troubles' = troubles + 1

Goto(t, next) == pc' = [pc EXCEPT ![t] = next]
-------------------------------------------------------------------------------
(***************************************************************************)
(* Admission                                                               *)
(***************************************************************************)

\* reserve, at the store's snapshot; the payload is serialised afterwards.
Reserve(t) ==
  /\ t \in Writers /\ pc[t] = "idle"
  /\ next_generation < MaxWrites
  /\ next_generation' = next_generation + 1
  /\ gen' = [gen EXCEPT ![t] = next_generation + 1]
  /\ result' = [result EXCEPT ![t] = "none"]
  /\ Goto(t, "reserved")
  /\ UNCHANGED <<latest, pending, active, foreground, landed, durable, lagging, payload,
                 queued, disk, history, troubles>>

\* A reservation has no destructor.
Discard(t) ==
  /\ pc[t] = "reserved"
  /\ Goto(t, "idle")
  /\ UNCHANGED <<state, queued, gen, result, disk, history, troubles>>

\* Variant: a new admission clears the failure, as it clears the last error.
AdmitClearsLag(t, p) ==
  /\ pc[t] = "reserved"
  /\ IF gen[t] > latest
     THEN latest' = gen[t] /\ pending' = gen[t] /\ foreground' = gen[t] /\ lagging' = FALSE
     ELSE UNCHANGED <<latest, pending, foreground, lagging>>
  /\ payload' = [payload EXCEPT ![gen[t]] = p]
  /\ Goto(t, "admitted")
  /\ UNCHANGED <<next_generation, active, landed, durable, queued, gen, result, disk, history,
                 troubles>>

\* admit and admit_write_behind, with record_admission
Admit(t, p) ==
  /\ pc[t] = "reserved"
  /\ IF gen[t] > latest
     THEN latest' = gen[t] /\ pending' = gen[t] /\ foreground' = gen[t]
     ELSE UNCHANGED <<latest, pending, foreground>>
  /\ payload' = [payload EXCEPT ![gen[t]] = p]
  /\ Goto(t, "admitted")
  /\ UNCHANGED <<next_generation, active, landed, durable, lagging, queued, gen,
                 result, disk, history, troubles>>

Released(g) == IF foreground = g THEN None ELSE foreground

\* Drop of an admitted write nobody committed; commit_wait drops it too when
\* the shutdown came first.
DropArmed(t) ==
  /\ pc[t] = "admitted"
  /\ foreground' = Released(gen[t])
  /\ Goto(t, "dropped")
  /\ UNCHANGED <<next_generation, latest, pending, active, landed, durable, lagging,
                 payload, queued, gen, result, disk, history, troubles>>

\* begin_foreground: blocked while another attempt is active
Begin(t) ==
  /\ pc[t] = "admitted"
  /\ gen[t] # latest \/ active = None
  /\ foreground' = Released(gen[t])
  /\ IF gen[t] # latest
     THEN /\ Goto(t, "idle")
          /\ result' = [result EXCEPT ![t] = "superseded"]
          /\ UNCHANGED active
     ELSE /\ active' = gen[t]
          /\ Goto(t, "check")
          /\ UNCHANGED result
  /\ UNCHANGED <<next_generation, latest, pending, landed, durable, lagging, payload,
                 queued, gen, disk, history, troubles>>
-------------------------------------------------------------------------------
(***************************************************************************)
(* The retry supervisor                                                    *)
(***************************************************************************)

\* RetrySupervisor::next
Pop(t) ==
  /\ t \in Workers /\ pc[t] = "idle"
  /\ queued
  /\ queued' = FALSE
  /\ Goto(t, "popped")
  /\ UNCHANGED <<state, gen, result, disk, history, troubles>>

\* retry_once up to its attempt: it yields to a caller and to a running attempt
RetryOnce(t) ==
  /\ pc[t] = "popped"
  /\ IF foreground # None \/ active # None \/ pending = None
     THEN /\ Goto(t, "idle")
          /\ queued' = (queued \/ pending # None)
          /\ UNCHANGED <<active, gen>>
     ELSE /\ active' = pending
          /\ gen' = [gen EXCEPT ![t] = pending]
          /\ Goto(t, "check")
          /\ UNCHANGED queued
  /\ UNCHANGED <<next_generation, latest, pending, foreground, landed, durable, lagging,
                 payload, result, disk, history, troubles>>

\* schedule_retry at the end of a dropped write or of a finished attempt; a
\* worker whose attempt failed schedules whether or not anything is pending.
Schedule(t) ==
  /\ pc[t] \in {"dropped", "schedule"}
  /\ queued' = (queued \/ pending # None \/ (t \in Workers /\ result[t] = "failed"))
  /\ Goto(t, IF t \in Foreground /\ result[t] = "failed" THEN "waiting" ELSE "idle")
  /\ UNCHANGED <<state, gen, result, disk, history, troubles>>
-------------------------------------------------------------------------------
(***************************************************************************)
(* One attempt: try_write_stage_aware and finish_attempt                   *)
(***************************************************************************)
OwnContent(t) == [gen |-> gen[t], bytes |-> payload[gen[t]]]

\* A write-behind attempt lands once it has started (StandDown::UntilStarted).
StandsDown(t) == gen[t] # latest /\ t \notin Behind

\* Under the lock: nothing is staged for a payload that is behind already.
Check(t) ==
  /\ pc[t] = "check"
  /\ Goto(t, IF gen[t] # latest THEN "superseded"
             ELSE IF durable = {payload[gen[t]]} THEN "verify" ELSE "stage")
  /\ UNCHANGED <<state, queued, gen, result, disk, history, troubles>>

\* Variant: an equal change stamp is taken for equal bytes.
VerifyTrustsStamp(t) ==
  /\ pc[t] = "verify"
  /\ visible' = [visible EXCEPT !.gen = gen[t]]
  /\ possible' = {[visible EXCEPT !.gen = gen[t]]}
  /\ foreign' = FALSE
  /\ Goto(t, "durable")
  /\ UNCHANGED <<state, queued, gen, result, history, troubles>>

\* DurableBytes::verify: bytes compared, file and directory synced.  A changed
\* stamp, another identity or mode, and any error fall through to a write.
Verify(t) ==
  /\ pc[t] = "verify"
  /\ \/ /\ visible.bytes = payload[gen[t]]
        /\ visible' = OwnContent(t)
        /\ possible' = {OwnContent(t)}
        /\ foreign' = FALSE
        /\ Goto(t, "durable")
     \/ /\ Goto(t, "stage")
        /\ UNCHANGED disk
  /\ UNCHANGED <<state, queued, gen, result, history, troubles>>

\* The temporary file: created, written, given its mode and synced.
Stage(t) ==
  /\ pc[t] = "stage"
  /\ \/ Goto(t, "replace") /\ UNCHANGED troubles
     \/ Goto(t, "failed") /\ Trouble
  /\ UNCHANGED <<state, queued, gen, result, disk, history>>

RenameTo(t) ==
  \/ /\ visible' = OwnContent(t)
     /\ possible' = possible \cup {OwnContent(t)}
     /\ Goto(t, "sync")
     /\ UNCHANGED <<foreign, troubles>>
  \/ Goto(t, "failed") /\ Trouble /\ UNCHANGED disk

\* The second look at the newest generation and, unless the attempt lets
\* admissions proceed, the rename under the same lock.
Replace(t) ==
  /\ pc[t] = "replace"
  /\ IF StandsDown(t)
     THEN Goto(t, "superseded") /\ UNCHANGED <<durable, disk, troubles>>
     ELSE /\ durable' = {}
          /\ IF t \in Behind
             THEN Goto(t, "rename") /\ UNCHANGED <<disk, troubles>>
             ELSE RenameTo(t)
  /\ UNCHANGED <<next_generation, latest, pending, active, foreground, landed, lagging,
                 payload, queued, gen, result, history>>

\* The rename of a write-behind attempt, outside the lock.
Rename(t) ==
  /\ pc[t] = "rename"
  /\ RenameTo(t)
  /\ UNCHANGED <<state, queued, gen, result, history>>

\* Variant: the parent directory is not synced.
SyncForgotten(t) ==
  /\ pc[t] = "sync"
  /\ durable' = {payload[gen[t]]}
  /\ Goto(t, "durable")
  /\ UNCHANGED <<next_generation, latest, pending, active, foreground, landed, lagging,
                 payload, queued, gen, result, disk, history, troubles>>

\* sync_parent_directory, then what it made durable is recorded, if the stamps
\* can be read and still name the staged file.  forget_durable_bytes between
\* the two has the effect it has before both.
Sync(t) ==
  /\ pc[t] = "sync"
  /\ \/ /\ possible' = {visible}
        /\ foreign' = FALSE
        /\ durable' \in {{}, {payload[gen[t]]}}
        /\ Goto(t, "durable")
        /\ UNCHANGED <<visible, troubles>>
     \/ Goto(t, "failed") /\ Trouble /\ UNCHANGED <<disk, durable>>
  /\ UNCHANGED <<next_generation, latest, pending, active, foreground, landed, lagging,
                 payload, queued, gen, result, history>>

Maximum(a, b) == IF a > b THEN a ELSE b
Outcome(t) == IF pc[t] = "durable" THEN "written" ELSE pc[t]

\* Variant: the supervisor is told only by its own workers.
FinishLeaves(t) ==
  /\ pc[t] \in {"durable", "superseded", "failed"}
  /\ active' = IF active = gen[t] THEN None ELSE active
  /\ pending' = IF pc[t] = "durable" /\ pending = gen[t] THEN None ELSE pending
  /\ landed' = IF pc[t] = "durable" THEN Maximum(landed, gen[t]) ELSE landed
  /\ promised' = IF pc[t] = "durable" THEN Maximum(promised, gen[t]) ELSE promised
  /\ lagging' = (pc[t] = "failed" \/ (lagging /\ pc[t] # "durable"))
  /\ result' = [result EXCEPT ![t] = Outcome(t)]
  /\ Goto(t, IF t \in Workers THEN "schedule"
             ELSE IF t \in Foreground /\ pc[t] = "failed" THEN "waiting" ELSE "idle")
  /\ UNCHANGED <<next_generation, latest, foreground, durable, payload, queued, gen, disk,
                 base, troubles>>

\* finish_attempt: whoever finishes hands what is still pending, and owned by
\* nobody, to the supervisor.  schedule_retry looks at pending again.
Finish(t) ==
  /\ pc[t] \in {"durable", "superseded", "failed"}
  /\ active' = IF active = gen[t] THEN None ELSE active
  /\ pending' = IF pc[t] = "durable" /\ pending = gen[t] THEN None ELSE pending
  /\ landed' = IF pc[t] = "durable" THEN Maximum(landed, gen[t]) ELSE landed
  /\ promised' = IF pc[t] = "durable" THEN Maximum(promised, gen[t]) ELSE promised
  /\ lagging' = (pc[t] = "failed" \/ (lagging /\ pc[t] # "durable"))
  /\ result' = [result EXCEPT ![t] = Outcome(t)]
  /\ Goto(t, IF \/ t \in Workers
                \/ pending' # None /\ active' = None /\ foreground = None THEN "schedule"
             ELSE IF t \in Foreground /\ pc[t] = "failed" THEN "waiting"
             ELSE "idle")
  /\ UNCHANGED <<next_generation, latest, foreground, durable, payload, queued, gen, disk,
                 base, troubles>>

\* Variant: a destination nobody is writing counts as written.
WaitForIdle(t) ==
  /\ pc[t] = "waiting"
  /\ latest # gen[t] \/ active = None
  /\ result' = [result EXCEPT ![t] = IF latest # gen[t] THEN "superseded" ELSE "written"]
  /\ Goto(t, "idle")
  /\ UNCHANGED <<state, queued, gen, disk, history, troubles>>

\* The rest of commit_wait: the caller keeps its guards until the fate of its
\* write is known.
Wait(t) ==
  /\ pc[t] = "waiting"
  /\ latest # gen[t] \/ (pending = None /\ active = None)
  /\ result' = [result EXCEPT ![t] = IF latest # gen[t] THEN "superseded" ELSE "written"]
  /\ Goto(t, "idle")
  /\ UNCHANGED <<state, queued, gen, disk, history, troubles>>

\* A plain commit returns its error at once, and a shutdown (writers_stopped)
\* releases those who wait with its authority.
ReturnFailed(t) ==
  /\ pc[t] = "waiting"
  /\ Goto(t, "idle")
  /\ UNCHANGED <<state, queued, gen, result, disk, history, troubles>>
-------------------------------------------------------------------------------
(***************************************************************************)
(* flush, and what happens to the file behind the coordinator              *)
(***************************************************************************)

\* kick, with which a flush begins
FlushKick(t) ==
  /\ t \in Foreground /\ pc[t] = "idle"
  /\ queued' = (queued \/ pending # None)
  /\ Goto(t, "kicked")
  /\ result' = [result EXCEPT ![t] = "none"]
  /\ UNCHANGED <<state, gen, disk, history, troubles>>

\* What the flush waits for: the newest write admitted by now.
FlushTarget(t) ==
  /\ pc[t] = "kicked"
  /\ gen' = [gen EXCEPT ![t] = latest]
  /\ Goto(t, "flushing")
  /\ UNCHANGED <<state, queued, result, disk, history, troubles>>

Unsettled(t) == (pending # None \/ active # None) /\ landed < gen[t]

\* Variant: a destination nobody is writing counts as settled.
FlushReturnIdle(t) ==
  /\ pc[t] = "flushing"
  /\ result' = [result EXCEPT ![t] = IF active # None /\ landed < gen[t]
                                     THEN "timeout" ELSE "flushed"]
  /\ Goto(t, "idle")
  /\ UNCHANGED <<state, queued, gen, disk, history, troubles>>

\* The deadline may pass at any time while the destination is unsettled.
FlushReturn(t) ==
  /\ pc[t] = "flushing"
  /\ result' = [result EXCEPT ![t] = IF Unsettled(t) THEN "timeout" ELSE "flushed"]
  /\ Goto(t, "idle")
  /\ UNCHANGED <<state, queued, gen, disk, history, troubles>>

\* forget_durable_bytes
ForgetDurableBytes ==
  /\ durable # {}
  /\ durable' = {}
  /\ UNCHANGED <<next_generation, latest, pending, active, foreground, landed, lagging,
                 payload, queued, tasks, disk, history, troubles>>

\* Another program, or the daemon without this coordinator, writes the file.
\* A writer active during an attempt is outside the contract.
OutsideEdit ==
  /\ active = None
  /\ Trouble
  /\ \E b \in Payloads :
        /\ visible' = [gen |-> 0, bytes |-> b]
        /\ possible' = possible \cup {[gen |-> 0, bytes |-> b]}
  /\ foreign' = TRUE
  /\ UNCHANGED <<state, queued, tasks, history>>

\* The machine stops: one of the possible contents survives, and the next
\* process starts with DestinationState::default.
Crash ==
  /\ Trouble
  /\ \E c \in possible : visible' = c /\ possible' = {c}
  /\ base' = next_generation
  /\ latest' = next_generation /\ landed' = next_generation
  /\ pending' = None /\ active' = None /\ foreground' = None
  /\ durable' = {} /\ lagging' = FALSE
  /\ queued' = FALSE
  /\ pc' = [t \in Tasks |-> "idle"] /\ gen' = [t \in Tasks |-> None]
  /\ result' = [t \in Tasks |-> "none"]
  /\ UNCHANGED <<next_generation, payload, promised, foreign>>
-------------------------------------------------------------------------------
Attempt(t) ==
  \/ Check(t) \/ Verify(t) \/ Stage(t) \/ Replace(t) \/ Rename(t) \/ Sync(t)
  \/ Finish(t) \/ Schedule(t)

Step(t) ==
  \/ Reserve(t) \/ Discard(t) \/ DropArmed(t) \/ Begin(t) \/ Wait(t) \/ ReturnFailed(t)
  \/ \E p \in Payloads : Admit(t, p)
  \/ FlushKick(t) \/ FlushTarget(t) \/ FlushReturn(t)
  \/ Pop(t) \/ RetryOnce(t) \/ Attempt(t)

Next ==
  \/ \E t \in Tasks : Step(t)
  \/ ForgetDurableBytes \/ OutsideEdit \/ Crash

\* Every thread runs on; the disk fails only finitely often (MaxTroubles), which
\* is what the retry supervisor waits for.  An admitted write is committed or
\* dropped.  Nothing makes a caller reserve or admit.
Fairness ==
  \A t \in Tasks :
     WF_vars(DropArmed(t) \/ Begin(t) \/ Wait(t) \/ Pop(t) \/ RetryOnce(t) \/ Attempt(t))

Spec == Init /\ [][Next]_vars
FairSpec == Spec /\ Fairness
-------------------------------------------------------------------------------
(***************************************************************************)
(* Properties                                                              *)
(***************************************************************************)
TypeOK ==
  /\ next_generation \in 0 .. MaxWrites /\ base \in 0 .. MaxWrites
  /\ latest \in 0 .. MaxWrites /\ landed \in 0 .. MaxWrites /\ promised \in 0 .. MaxWrites
  /\ pending \in 0 .. MaxWrites /\ active \in 0 .. MaxWrites /\ foreground \in 0 .. MaxWrites
  /\ durable \in SUBSET Payloads
  /\ payload \in [Generations -> Payloads]
  /\ lagging \in BOOLEAN /\ queued \in BOOLEAN /\ foreign \in BOOLEAN
  /\ pc \in [Tasks -> WriterPcs \cup AttemptPcs \cup {"popped", "schedule"}]
  /\ gen \in [Tasks -> 0 .. MaxWrites]
  /\ result \in [Tasks -> {"none", "written", "superseded", "failed", "flushed", "timeout"}]
  /\ visible \in possible /\ possible \in SUBSET Contents
  /\ troubles \in 0 .. MaxTroubles

\* The durability contract across crashes (lib.rs 303-342): while nobody else
\* wrote the file, no crash can leave anything older than the newest write
\* that was reported durable, and whatever it leaves is a whole payload.
PromiseKept ==
  ~foreign => \A c \in possible :
                 /\ c.gen >= promised
                 /\ c.gen # 0 => c.bytes = payload[c.gen]

\* A caller that was told Written, at once or after waiting for the retry
\* worker, has its payload or a newer one on the disk, come what may
\* (commit_stage_aware 1542-1557, commit_wait 1494-1529).
WrittenIsDurable ==
  \A t \in Writers :
     (result[t] = "written" /\ ~foreign) => \A c \in possible : c.gen >= gen[t]

\* Nobody waits for everybody: a payload that has not landed always has a
\* caller that will commit or drop it, an attempt, or a place with the
\* supervisor (finish_attempt 1280-1290, Drop 1559-1577, retry_once 1293-1328).
PendingIsDriven ==
  pending # None =>
     \/ queued
     \/ \E t \in Tasks :
           \/ pc[t] \in AttemptPcs \cup {"popped", "dropped", "schedule"}
           \/ pc[t] = "admitted" /\ gen[t] = pending

\* pending_failure (944-953): a caller whose write failed is reported as
\* lagging until that write or a newer one has landed; no older attempt that
\* lands late, and no newer admission, hides it.
FailureStaysVisible ==
  \A t \in Writers :
     (result[t] = "failed" /\ landed < gen[t]) => lagging /\ pending # None

\* flush (997-1044): a flush that does not time out means that the newest
\* write admitted before it, or a newer one, has landed.
FlushCovers ==
  \A t \in Foreground :
     (result[t] = "flushed" /\ gen[t] > base /\ ~foreign)
        => \A c \in possible : c.gen >= gen[t]

\* "Only one attempt per destination runs at a time", which every unlocked
\* file operation of an attempt relies on (1693-1695, 1760-1763).
OneAttempt ==
  \A t, u \in Tasks : (pc[t] \in AttemptPcs /\ pc[u] \in AttemptPcs) => t = u

\* "The file keeps moving forward" (379-381): without another program or a
\* crash, a reader never sees an older write after a newer one, although a
\* write-behind attempt renames without looking at what was admitted since.
FileMovesForward ==
  [][OutsideEdit \/ Crash \/ visible'.gen >= visible.gen]_vars

\* The coordinator implements the register it promises.
Register == INSTANCE DurableRegister WITH
  Versions <- 0 .. MaxWrites,
  current  <- visible.gen,
  possible <- {c.gen : c \in possible}

RegisterSpec == Register!Spec

\* Once no new writes come, the newest payload lands, unless the process dies
\* first, and every transaction that waits for its write is released
\* (retry_worker 1662-1669, commit_wait 1494-1529).
AdmittedLands ==
  (pending # None \/ \E t \in Writers : pc[t] = "waiting")
     ~> (pending = None /\ \A t \in Writers : pc[t] # "waiting")
=============================================================================
