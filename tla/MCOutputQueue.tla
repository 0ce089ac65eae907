---------------------------- MODULE MCOutputQueue ----------------------------
EXTENDS OutputQueue, TLC

\* Four lanes: one that defers frames (Govee), one that also replays them
\* (Twinkly), one with redundant copies (E1.31), and one that settles frames
\* after submit returned (LIFX).
SmallPolicies ==
  {[inline |-> TRUE,  paced |-> TRUE, replays |-> FALSE, copies |-> 1],
   [inline |-> TRUE,  paced |-> TRUE, replays |-> TRUE,  copies |-> 1],
   [inline |-> TRUE,  paced |-> TRUE, replays |-> TRUE,  copies |-> 2],
   [inline |-> FALSE, paced |-> TRUE, replays |-> TRUE,  copies |-> 1]}

Palette == Permutations(Colors)
==============================================================================
