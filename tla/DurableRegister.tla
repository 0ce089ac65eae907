--------------------------- MODULE DurableRegister ---------------------------
(***************************************************************************)
(* What a destination of crates/hypercolor-persistence promises, without   *)
(* generations in flight, locks, retries or callers: a register that a     *)
(* crash may set back, but never behind what it has promised.              *)
(*                                                                         *)
(* A version is the number of a write; 0 is what was there before, and     *)
(* also whatever somebody else put there.  The contract is the one stated  *)
(* above AtomicFileWriter (lib.rs 303-342): a write that is reported as    *)
(* written is durably there, outside edits finished before the call        *)
(* included, and "the file keeps moving forward".                          *)
(***************************************************************************)
EXTENDS Integers

CONSTANT Versions

VARIABLES
  current,     \* the version a reader sees now
  possible,    \* the versions a crash may leave
  promised,    \* the newest version reported as durable
  foreign      \* somebody else wrote since the last version became durable

vars == <<current, possible, promised, foreign>>

Init ==
  /\ current = 0 /\ possible = {0} /\ promised = 0 /\ foreign = FALSE

\* A newer version becomes visible; the older ones may still come back.
Show(v) ==
  /\ v >= current
  /\ current' = v
  /\ possible' = possible \cup {v}
  /\ UNCHANGED <<promised, foreign>>

\* What is visible becomes all that a crash can leave.  Content that is the
\* same as a newer write's counts as that write.
Settle(v) ==
  /\ v >= current
  /\ current' = v
  /\ possible' = {v}
  /\ foreign' = FALSE
  /\ UNCHANGED promised

\* A version is reported as durable only if no crash can undo it.
Promise(v) ==
  /\ ~foreign
  /\ \A p \in possible : v <= p
  /\ promised' = IF v > promised THEN v ELSE promised
  /\ UNCHANGED <<current, possible, foreign>>

\* The file is not locked against other programs.
ForeignEdit ==
  /\ current' = 0
  /\ possible' = possible \cup {0}
  /\ foreign' = TRUE
  /\ UNCHANGED promised

Crash ==
  \E v \in possible :
     /\ current' = v /\ possible' = {v}
     /\ UNCHANGED <<promised, foreign>>

Next ==
  \/ \E v \in Versions : Show(v) \/ Settle(v) \/ Promise(v)
  \/ ForeignEdit
  \/ Crash

Spec == Init /\ [][Next]_vars
=============================================================================
