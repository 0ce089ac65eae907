------------------------------ MODULE ScanQueue ------------------------------
(***************************************************************************)
(* Who runs the shared discovery scan, and what happens to the requests    *)
(* that arrive while one runs (crates/hypercolor-daemon/src/discovery:     *)
(* scan.rs 33-252, mod.rs 152-192).                                        *)
(*                                                                         *)
(* One AtomicBool, in_progress, is the right to scan; a mutex guards the   *)
(* coalesced requests.  Every access to either is a step of its own, since *)
(* the callers are on different threads of the runtime.  Callers:          *)
(*   Scanners    execute_discovery_scan_if_idle and the HTTP handler,      *)
(*               which scan only if nobody else does                       *)
(*   Enqueuers   execute_discovery_scan_or_enqueue                         *)
(*   Schedulers  schedule_discovery_scan                                   *)
(*   Workers     the tasks spawn_pending_scan_if_idle spawns               *)
(* Each caller makes one call; its request is named after it.  A request   *)
(* stands for its targets: merging keeps the union (and the longest        *)
(* timeout), taking empties the queue.  The scan of a caller that runs it  *)
(* itself is part of the caller: it is dropped with the request that       *)
(* waits for it (api/devices/discovery.rs) or with the session transition  *)
(* that is aborted (session.rs).  Workers are tasks of their own.          *)
(***************************************************************************)
EXTENDS Integers, FiniteSets

CONSTANTS Scanners, Enqueuers, Schedulers, Workers

Callers == Scanners \cup Enqueuers \cup Schedulers
QueueTasks == Callers \cup Workers

ASSUME CallersAreDistinct ==
  /\ Scanners \cap Enqueuers = {} /\ Scanners \cap Schedulers = {}
  /\ Enqueuers \cap Schedulers = {} /\ Callers \cap Workers = {}

VARIABLES
  inProgress,   \* the flag
  pending,      \* requests merged and not yet taken
  pc,           \* [QueueTasks -> what the task does next]
  scanning,     \* [QueueTasks -> requests the task's scan stands for]
  served,       \* requests some scan has finished
  lost          \* requests taken by a scan that was dropped

queueVars == <<inProgress, pending, pc, scanning, served, lost>>

QueueInit ==
  /\ inProgress = FALSE
  /\ pending = {}
  /\ pc = [t \in QueueTasks |-> CASE t \in Scanners -> "claim"
                                  [] t \in Workers -> "idle"
                                  [] OTHER -> "enqueue"]
  /\ scanning = [t \in QueueTasks |-> {}]
  /\ served = {}
  /\ lost = {}

Proceed(t, next) == pc' = [pc EXCEPT ![t] = next]

\* A call that is over; a worker may be spawned again.
Over(t) == IF t \in Workers THEN "idle" ELSE "done"

\* enqueue_pending_scan
Enqueue(t) ==
  /\ pc[t] = "enqueue"
  /\ pending' = pending \cup {t}
  /\ Proceed(t, IF t \in Enqueuers THEN "claim" ELSE "spawn")
  /\ UNCHANGED <<inProgress, scanning, served, lost>>

\* Variant: the flag is loaded and stored, not exchanged.
ClaimUnchecked(t) ==
  /\ pc[t] = "claim"
  /\ inProgress' = TRUE
  /\ Proceed(t, IF t \in Scanners THEN "scan" ELSE "takeOwn")
  /\ scanning' = [scanning EXCEPT ![t] = IF t \in Scanners THEN {t} ELSE {}]
  /\ UNCHANGED <<pending, served, lost>>

\* The compare_exchange of a caller that scans itself; losing it ends the call.
Claim(t) ==
  /\ pc[t] = "claim"
  /\ inProgress' = TRUE
  /\ Proceed(t, IF inProgress THEN "done" ELSE IF t \in Scanners THEN "scan" ELSE "takeOwn")
  /\ scanning' = [scanning EXCEPT ![t] = IF ~inProgress /\ t \in Scanners THEN {t} ELSE {}]
  /\ UNCHANGED <<pending, served, lost>>

\* take_pending_scan, expected to find at least the caller's own request; an
\* empty queue is a panic that leaves the flag set.
TakeOwn(t) ==
  /\ pc[t] = "takeOwn"
  /\ scanning' = [scanning EXCEPT ![t] = pending]
  /\ pending' = {}
  /\ Proceed(t, IF pending = {} THEN "panicked" ELSE "scan")
  /\ UNCHANGED <<inProgress, served, lost>>

\* run_discovery_scan comes to its end, however it went.
ScanEnds(t) ==
  /\ pc[t] = "scan"
  /\ served' = served \cup scanning[t]
  /\ Proceed(t, "release")
  /\ UNCHANGED <<inProgress, pending, scanning, lost>>

\* The future of the caller is dropped in the middle of its scan.  The guard runs
\* all the same; the requests the scan stood for are gone.
ScanDropped(t) ==
  /\ pc[t] = "scan" /\ t \in Scanners \cup Enqueuers
  /\ lost' = lost \cup scanning[t]
  /\ Proceed(t, "release")
  /\ UNCHANGED <<inProgress, pending, scanning, served>>

\* Variant: the guard does not look for requests that came meanwhile.
ReleaseAndLeave(t) ==
  /\ pc[t] = "release"
  /\ inProgress' = FALSE
  /\ scanning' = [scanning EXCEPT ![t] = {}]
  /\ Proceed(t, Over(t))
  /\ UNCHANGED <<pending, served, lost>>

\* DiscoveryFlagGuard::drop stores the flag, then looks at the queue.
Release(t) ==
  /\ pc[t] = "release"
  /\ inProgress' = FALSE
  /\ scanning' = [scanning EXCEPT ![t] = {}]
  /\ Proceed(t, "recheck")
  /\ UNCHANGED <<pending, served, lost>>

\* has_pending_scan decides whether to try again.
Recheck(t) ==
  /\ pc[t] = "recheck"
  /\ Proceed(t, IF pending # {} THEN "spawn" ELSE Over(t))
  /\ UNCHANGED <<inProgress, pending, scanning, served, lost>>

\* The compare_exchange of spawn_pending_scan_if_idle.
SpawnClaim(t) ==
  /\ pc[t] = "spawn"
  /\ inProgress' = TRUE
  /\ Proceed(t, IF inProgress THEN Over(t) ELSE "take")
  /\ UNCHANGED <<pending, scanning, served, lost>>

\* A non-empty queue goes to a task that inherits the flag.
SpawnScan(t) ==
  /\ pc[t] = "take" /\ pending # {}
  /\ \E w \in Workers :
       /\ pc[w] = "idle"
       /\ pc' = [pc EXCEPT ![t] = Over(t), ![w] = "scan"]
       /\ scanning' = [scanning EXCEPT ![w] = pending]
  /\ pending' = {}
  /\ UNCHANGED <<inProgress, served, lost>>

\* An empty queue: the flag is given back, and the queue looked at again.
GiveBack(t) ==
  /\ pc[t] = "take" /\ pending = {}
  /\ Proceed(t, "release")
  /\ UNCHANGED <<inProgress, pending, scanning, served, lost>>

Step(t) ==
  \/ Enqueue(t)
  \/ Claim(t)
  \/ TakeOwn(t)
  \/ ScanEnds(t)
  \/ Release(t)
  \/ Recheck(t)
  \/ SpawnClaim(t)
  \/ SpawnScan(t)
  \/ GiveBack(t)

QueueNext == \E t \in QueueTasks : Step(t) \/ ScanDropped(t)

\* The call was made: no caller has to call at all.
Called(t) == pc[t] # "enqueue" /\ ~(t \in Scanners /\ pc[t] = "claim")

\* A call that was made goes on, unless it is dropped in its scan: the runtime
\* polls its task, and a scan is bounded by its timeout.
Fairness == \A t \in QueueTasks : WF_queueVars(Called(t) /\ Step(t))

QueueSpec == QueueInit /\ [][QueueNext]_queueVars /\ Fairness

-----------------------------------------------------------------------------
(* Properties. *)

Pcs == {"enqueue", "claim", "takeOwn", "scan", "release", "recheck", "spawn", "take",
        "idle", "done", "panicked"}

\* The flag, the queue and the tasks have their types.
QueueTypeOK ==
  /\ inProgress \in BOOLEAN
  /\ pending \subseteq Enqueuers \cup Schedulers
  /\ pc \in [QueueTasks -> Pcs]
  /\ scanning \in [QueueTasks -> SUBSET Callers]
  /\ served \subseteq Callers /\ lost \subseteq Callers

\* The task has won the flag and not given it back; a panic keeps it for ever.
Owns(t) == pc[t] \in {"takeOwn", "scan", "release", "take", "panicked"}

\* in_progress admits one owner at a time and is never left set without one: two
\* scans never run side by side, although the flag passes from task to task.
OneOwner ==
  /\ \A t, u \in QueueTasks : Owns(t) /\ Owns(u) => t = u
  /\ inProgress <=> \E t \in QueueTasks : Owns(t)

Panicked == \E t \in QueueTasks : pc[t] = "panicked"

\* A request that sits in the queue always has a task on its way to it, that
\* owns the flag or is about to look: no wake-up is lost in the handover.  Only
\* an owner that panicked has the flag and does not come to the queue.
PendingIsWatched ==
  pending # {} =>
    \E t \in QueueTasks : Owns(t) \/ (Called(t) /\ pc[t] \in {"recheck", "spawn", "claim"})

\* Every request that was queued is scanned, unless an owner panicked or the scan
\* that had taken the request was dropped: what is still queued then is taken by
\* the worker the guard spawns (DiscoveryFlagGuard).
RequestsAreServed ==
  \A r \in Enqueuers \cup Schedulers :
    (r \in pending) ~> (r \in served \cup lost \/ Panicked)

\* execute_discovery_scan_or_enqueue expects to find the request it enqueued
\* ("discovery owner should find the request it just enqueued").
OwnerFindsItsRequest == ~Panicked
==============================================================================
