------------------------- MODULE MCLifecycleExecutor -------------------------
(***************************************************************************)
(* Model-checking instances of LifecycleExecutor.  The .cfg files choose   *)
(* which tasks race: slots of one kind run the same code, so they are      *)
(* interchangeable.                                                        *)
(***************************************************************************)
EXTENDS LifecycleExecutor, TLC

Slots ==
  Permutations(Scans) \cup Permutations(Backgrounds) \cup Permutations(Timers)
    \cup Permutations(Users)
==============================================================================
