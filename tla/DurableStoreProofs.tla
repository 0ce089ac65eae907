-------------------------- MODULE DurableStoreProofs --------------------------
(***************************************************************************)
(* The durability contract of the persistence coordinator for any number   *)
(* of callers, workers, payloads, writes and troubles.                     *)
(*                                                                         *)
(* None of the properties is inductive.  What carries them: generations    *)
(* are ordered (Numbers), the running attempt is the only one and was the  *)
(* newest when it started (Calls, OneAttempt), so nothing on the disk is   *)
(* newer than it (Disk); and a reserved generation is new everywhere       *)
(* (Fresh), so that admitting it changes the payload of no other write.    *)
(***************************************************************************)
EXTENDS DurableStore, TLAPS

Numbers ==
  /\ base <= landed /\ landed <= latest /\ latest <= next_generation
  /\ promised <= latest
  /\ landed > base => landed <= promised
  /\ pending = None => landed = latest
  /\ pending # None => pending = latest /\ base < pending
  /\ foreground # None => foreground = latest

\* A caller that holds the retry workers off is there to commit or drop.
Owners ==
  foreground # None => \E t \in Tasks : pc[t] = "admitted" /\ gen[t] = foreground

Calls ==
  \A t \in Tasks :
     /\ pc[t] = "reserved" => base < gen[t] /\ gen[t] <= next_generation
     /\ pc[t] \in {"admitted", "dropped", "schedule", "waiting"}
           => base < gen[t] /\ gen[t] <= latest
     /\ pc[t] = "flushing" => gen[t] <= latest
     /\ pc[t] = "popped" => t \in Workers
     /\ pc[t] = "kicked" => result[t] = "none"
     /\ pc[t] \in AttemptPcs => active = gen[t] /\ base < gen[t] /\ gen[t] <= latest

Fresh ==
  \A t \in Tasks : pc[t] = "reserved" =>
     /\ gen[t] # latest
     /\ \A c \in possible : c.gen # gen[t]
     /\ \A u \in Tasks : u # t /\ pc[u] \in {"reserved", "admitted"} \cup AttemptPcs
                            => gen[u] # gen[t]

Disk ==
  /\ \A c \in possible : /\ c.gen <= latest
                         /\ c.gen # 0 => c.bytes = payload[c.gen]
                         /\ ~foreign => promised <= c.gen
  /\ \A t \in Tasks :
        /\ pc[t] \in AttemptPcs => promised <= gen[t] /\ \A c \in possible : c.gen <= gen[t]
        /\ pc[t] = "sync" => visible.gen = gen[t]
        /\ pc[t] = "durable" => ~foreign /\ \A c \in possible : c.gen = gen[t]

Reports ==
  \A t \in Writers :
     /\ result[t] = "written" => gen[t] <= promised
     /\ result[t] = "flushed" /\ gen[t] > base => gen[t] <= promised
     /\ result[t] = "failed" =>
           /\ gen[t] <= latest
           /\ landed < gen[t] => lagging
           /\ \A u \in Tasks : pc[u] \in AttemptPcs => gen[t] <= gen[u]

IInv ==
  /\ TypeOK /\ Numbers /\ Owners /\ Calls /\ OneAttempt /\ Fresh /\ Disk /\ Reports
  /\ PendingIsDriven
-------------------------------------------------------------------------------
\* The generation of an admitted write names a payload.
LEMMA AttemptHasPayload ==
  ASSUME TypeOK, Calls, NEW t \in Tasks,
         pc[t] \in {"reserved", "admitted"} \cup AttemptPcs
  PROVE  gen[t] \in Generations /\ gen[t] \in 0 .. MaxWrites /\ payload[gen[t]] \in Payloads
<1>1. base \in Nat /\ gen[t] \in 0 .. MaxWrites /\ base < gen[t]
  BY BoundsAreNatural DEF TypeOK, Calls
<1>2. gen[t] \in Generations
  BY <1>1, BoundsAreNatural DEF Generations
<1> QED
  BY <1>1, <1>2, Zenon DEF TypeOK

\* Every step of a task keeps the types.
LEMMA TypeStep ==
  ASSUME TypeOK, Calls, NEW t \in Tasks, Step(t)
  PROVE  TypeOK'
<1>1. CASE Reserve(t)
  BY <1>1, BoundsAreNatural DEF Reserve, TypeOK, WriterPcs, disk, history, Goto
<1>2. CASE Discard(t)
  BY <1>2, Zenon DEF Discard, TypeOK, WriterPcs, state, disk, history, Goto
<1>3. CASE DropArmed(t)
  <2>1. gen[t] \in Generations /\ gen[t] \in 0 .. MaxWrites /\ payload[gen[t]] \in Payloads
    BY <1>3, AttemptHasPayload, Zenon DEF DropArmed
  <2> QED
    BY <1>3, <2>1, BoundsAreNatural DEF DropArmed, Contents, TypeOK, WriterPcs, disk, history,
       Goto, None, Released
<1>4. CASE Begin(t)
  <2>1. gen[t] \in Generations /\ gen[t] \in 0 .. MaxWrites /\ payload[gen[t]] \in Payloads
    BY <1>4, AttemptHasPayload, Zenon DEF Begin
  <2> QED
    BY <1>4, <2>1, BoundsAreNatural DEF Begin, Contents, TypeOK, WriterPcs, AttemptPcs, disk,
       history, Goto, None, Released
<1>5. CASE Wait(t)
  BY <1>5, Zenon DEF Wait, TypeOK, WriterPcs, state, disk, history, Goto
<1>6. CASE ReturnFailed(t)
  BY <1>6, Zenon DEF ReturnFailed, TypeOK, WriterPcs, state, disk, history, Goto
<1>7. CASE \E p \in Payloads : Admit(t, p)
  <2>1. gen[t] \in Generations /\ gen[t] \in 0 .. MaxWrites /\ payload[gen[t]] \in Payloads
    BY <1>7, AttemptHasPayload, Zenon DEF Admit
  <2> QED
    BY <1>7, <2>1 DEF Admit, Contents, TypeOK, WriterPcs, disk, history, Goto
<1>8. CASE FlushKick(t)
  BY <1>8, Zenon DEF FlushKick, TypeOK, WriterPcs, state, disk, history, Goto
<1>9. CASE FlushTarget(t)
  BY <1>9, Zenon DEF FlushTarget, TypeOK, WriterPcs, state, disk, history, Goto
<1>10. CASE FlushReturn(t)
  BY <1>10, Zenon DEF FlushReturn, TypeOK, WriterPcs, state, disk, history, Goto
<1>11. CASE Pop(t)
  BY <1>11, Zenon DEF Pop, TypeOK, state, disk, history, Goto
<1>12. CASE RetryOnce(t)
  BY <1>12, Zenon DEF RetryOnce, TypeOK, WriterPcs, AttemptPcs, disk, history, Goto
<1>13. CASE Check(t)
  BY <1>13, Zenon DEF Check, TypeOK, AttemptPcs, state, disk, history, Goto
<1>14. CASE Verify(t)
  <2>1. OwnContent(t) \in Contents
    BY <1>14, AttemptHasPayload, Zenon DEF Verify, OwnContent, Contents, AttemptPcs
  <2>2. visible' \in possible' /\ possible' \in SUBSET Contents /\ foreign' \in BOOLEAN
    BY <1>14, <2>1, Zenon DEF Verify, TypeOK, disk
  <2> QED
    BY <1>14, <2>2, Zenon DEF Verify, TypeOK, AttemptPcs, state, history, Goto
<1>15. CASE Stage(t)
  BY <1>15, BoundsAreNatural DEF Stage, TypeOK, AttemptPcs, state, disk, history, Goto, Trouble
<1>16. CASE Replace(t)
  <2>1. gen[t] \in Generations /\ gen[t] \in 0 .. MaxWrites /\ payload[gen[t]] \in Payloads
    BY <1>16, AttemptHasPayload, Zenon DEF Replace, RenameTo, StandsDown, OwnContent, AttemptPcs
  <2> QED
    BY <1>16, <2>1, BoundsAreNatural DEF Replace, RenameTo, StandsDown, OwnContent, Contents,
       TypeOK, AttemptPcs, disk, history, Goto, Trouble
<1>17. CASE Rename(t)
  <2>1. gen[t] \in Generations /\ gen[t] \in 0 .. MaxWrites /\ payload[gen[t]] \in Payloads
    BY <1>17, AttemptHasPayload, Zenon DEF Rename, RenameTo, OwnContent, AttemptPcs
  <2> QED
    BY <1>17, <2>1, BoundsAreNatural DEF Rename, RenameTo, OwnContent, Contents, TypeOK,
       AttemptPcs, state, disk, history, Goto, Trouble
<1>18. CASE Sync(t)
  <2>1. payload[gen[t]] \in Payloads
    BY <1>18, AttemptHasPayload, Zenon DEF Sync, AttemptPcs
  <2>2. visible' \in possible' /\ possible' \in SUBSET Contents /\ foreign' \in BOOLEAN
    BY <1>18, Zenon DEF Sync, TypeOK, disk
  <2>3. durable' \in SUBSET Payloads /\ troubles' \in 0 .. MaxTroubles
    BY <1>18, <2>1, BoundsAreNatural DEF Sync, TypeOK, Trouble
  <2>4. pc' \in [Tasks -> WriterPcs \cup AttemptPcs \cup {"popped", "schedule"}]
    BY <1>18, Zenon DEF Sync, TypeOK, AttemptPcs, Goto
  <2> QED
    BY <1>18, <2>2, <2>3, <2>4, Zenon DEF Sync, TypeOK, history
<1>19. CASE Finish(t)
  <2>1. gen[t] \in Generations /\ gen[t] \in 0 .. MaxWrites /\ payload[gen[t]] \in Payloads
    BY <1>19, AttemptHasPayload, Zenon DEF Finish, AttemptPcs
  <2> QED
    BY <1>19, <2>1, BoundsAreNatural DEF Finish, Contents, TypeOK, WriterPcs, disk, Goto, None,
       Maximum, Outcome
<1>20. CASE Schedule(t)
  BY <1>20, Zenon DEF Schedule, TypeOK, WriterPcs, state, disk, history, Goto
<1> QED
  BY <1>1, <1>2, <1>3, <1>4, <1>5, <1>6, <1>7, <1>8, <1>9, <1>10, <1>11, <1>12, <1>13, <1>14,
     <1>15, <1>16, <1>17, <1>18, <1>19, <1>20, Zenon DEF Step, Attempt

\* The counters keep their order: only the newest write is admitted, and only
\* an admitted one lands.
LEMMA NumbersStep ==
  ASSUME TypeOK, Calls, Numbers, NEW t \in Tasks, Step(t)
  PROVE  Numbers'
<1>1. CASE Reserve(t)
  BY <1>1 DEF Reserve, history, TypeOK, Numbers
<1>2. CASE Discard(t)
  BY <1>2, Zenon DEF Discard, state, history, Numbers
<1>3. CASE DropArmed(t)
  BY <1>3, Zenon DEF DropArmed, history, Numbers, Released
<1>4. CASE Begin(t)
  BY <1>4, Zenon DEF Begin, history, Numbers, Released
<1>5. CASE Wait(t)
  BY <1>5, Zenon DEF Wait, state, history, Numbers
<1>6. CASE ReturnFailed(t)
  BY <1>6, Zenon DEF ReturnFailed, state, history, Numbers
<1>7. CASE \E p \in Payloads : Admit(t, p)
  BY <1>7 DEF Admit, history, None, TypeOK, Numbers, Calls
<1>8. CASE FlushKick(t)
  BY <1>8, Zenon DEF FlushKick, state, history, Numbers
<1>9. CASE FlushTarget(t)
  BY <1>9, Zenon DEF FlushTarget, state, history, Numbers
<1>10. CASE FlushReturn(t)
  BY <1>10, Zenon DEF FlushReturn, state, history, Numbers
<1>11. CASE Pop(t)
  BY <1>11, Zenon DEF Pop, state, history, Numbers
<1>12. CASE RetryOnce(t)
  BY <1>12, Zenon DEF RetryOnce, history, Numbers
<1>13. CASE Check(t)
  BY <1>13, Zenon DEF Check, state, history, Numbers
<1>14. CASE Verify(t)
  BY <1>14, Zenon DEF Verify, OwnContent, state, history, Numbers
<1>15. CASE Stage(t)
  BY <1>15, Zenon DEF Stage, state, history, Numbers
<1>16. CASE Replace(t)
  BY <1>16, Zenon DEF Replace, RenameTo, StandsDown, OwnContent, history, Numbers
<1>17. CASE Rename(t)
  BY <1>17, Zenon DEF Rename, RenameTo, OwnContent, state, history, Numbers
<1>18. CASE Sync(t)
  BY <1>18, Zenon DEF Sync, history, Numbers
<1>19. CASE Finish(t)
  BY <1>19 DEF Finish, TypeOK, Numbers, Calls, AttemptPcs, Maximum
<1>20. CASE Schedule(t)
  BY <1>20, Zenon DEF Schedule, state, history, Numbers
<1> QED
  BY <1>1, <1>2, <1>3, <1>4, <1>5, <1>6, <1>7, <1>8, <1>9, <1>10, <1>11, <1>12, <1>13, <1>14,
     <1>15, <1>16, <1>17, <1>18, <1>19, <1>20, Zenon DEF Step, Attempt

\* What a call holds while it is under way.
LEMMA CallsStep ==
  ASSUME TypeOK, Calls, Numbers, OneAttempt, NEW t \in Tasks, Step(t)
  PROVE  Calls'
<1>1. CASE Reserve(t)
  BY <1>1 DEF Reserve, history, Goto, TypeOK, Numbers, Calls, AttemptPcs
<1>2. CASE Discard(t)
  BY <1>2 DEF Discard, state, history, Goto, Calls, AttemptPcs
<1>3. CASE DropArmed(t)
  BY <1>3 DEF DropArmed, history, Goto, Calls, AttemptPcs
<1>4. CASE Begin(t)
  BY <1>4 DEF Begin, history, Goto, None, TypeOK, Calls, AttemptPcs
<1>5. CASE Wait(t)
  BY <1>5 DEF Wait, state, history, Goto, Calls, AttemptPcs
<1>6. CASE ReturnFailed(t)
  BY <1>6 DEF ReturnFailed, state, history, Goto, Calls, AttemptPcs
<1>7. CASE \E p \in Payloads : Admit(t, p)
  BY <1>7 DEF Admit, history, Goto, TypeOK, Calls, AttemptPcs
<1>8. CASE FlushKick(t)
  BY <1>8, Zenon DEF FlushKick, state, history, Goto, TypeOK, Calls, AttemptPcs
<1>9. CASE FlushTarget(t)
  BY <1>9 DEF FlushTarget, state, history, Goto, TypeOK, Calls, AttemptPcs
<1>10. CASE FlushReturn(t)
  BY <1>10 DEF FlushReturn, state, history, Goto, Calls, AttemptPcs
<1>11. CASE Pop(t)
  BY <1>11 DEF Pop, state, history, Goto, Calls, AttemptPcs
<1>12. CASE RetryOnce(t)
  BY <1>12 DEF RetryOnce, history, Goto, None, TypeOK, Numbers, Calls, AttemptPcs
<1>13. CASE Check(t)
  BY <1>13 DEF Check, state, history, Goto, Calls, AttemptPcs
<1>14. CASE Verify(t)
  BY <1>14, Zenon DEF Verify, OwnContent, state, history, Goto, TypeOK, Calls, WriterPcs
<1>15. CASE Stage(t)
  BY <1>15, Zenon DEF Stage, state, history, Goto, TypeOK, Calls, WriterPcs
<1>16. CASE Replace(t)
  BY <1>16 DEF Replace, RenameTo, StandsDown, OwnContent, history, Goto, TypeOK, Calls, WriterPcs
<1>17. CASE Rename(t)
  BY <1>17, Zenon DEF Rename, RenameTo, OwnContent, state, history, Goto, TypeOK, Calls, WriterPcs
<1>18. CASE Sync(t)
  BY <1>18, Zenon DEF Sync, history, Goto, TypeOK, Calls, WriterPcs
<1>19. CASE Finish(t)
  BY <1>19, Zenon DEF Finish, Goto, TypeOK, Calls, OneAttempt, AttemptPcs
<1>20. CASE Schedule(t)
  BY <1>20 DEF Schedule, state, history, Goto, Calls, AttemptPcs
<1> QED
  BY <1>1, <1>2, <1>3, <1>4, <1>5, <1>6, <1>7, <1>8, <1>9, <1>10, <1>11, <1>12, <1>13, <1>14,
     <1>15, <1>16, <1>17, <1>18, <1>19, <1>20, Zenon DEF Step, Attempt

\* An attempt starts only when none is active.
LEMMA OneAttemptStep ==
  ASSUME TypeOK, Calls, OneAttempt, NEW t \in Tasks, Step(t)
  PROVE  OneAttempt'
<1>1. CASE Reserve(t)
  BY <1>1 DEF Reserve, Goto, OneAttempt, AttemptPcs
<1>2. CASE Discard(t)
  BY <1>2 DEF Discard, Goto, OneAttempt, AttemptPcs
<1>3. CASE DropArmed(t)
  BY <1>3 DEF DropArmed, Goto, OneAttempt, AttemptPcs
<1>4. CASE Begin(t)
  BY <1>4 DEF Begin, Goto, None, TypeOK, Calls, OneAttempt, AttemptPcs
<1>5. CASE Wait(t)
  BY <1>5 DEF Wait, Goto, OneAttempt, AttemptPcs
<1>6. CASE ReturnFailed(t)
  BY <1>6 DEF ReturnFailed, Goto, OneAttempt, AttemptPcs
<1>7. CASE \E p \in Payloads : Admit(t, p)
  BY <1>7 DEF Admit, Goto, OneAttempt, AttemptPcs
<1>8. CASE FlushKick(t)
  BY <1>8 DEF FlushKick, Goto, OneAttempt, AttemptPcs
<1>9. CASE FlushTarget(t)
  BY <1>9 DEF FlushTarget, Goto, OneAttempt, AttemptPcs
<1>10. CASE FlushReturn(t)
  BY <1>10 DEF FlushReturn, Goto, OneAttempt, AttemptPcs
<1>11. CASE Pop(t)
  BY <1>11 DEF Pop, Goto, OneAttempt, AttemptPcs
<1>12. CASE RetryOnce(t)
  BY <1>12 DEF RetryOnce, Goto, None, TypeOK, Calls, OneAttempt, AttemptPcs
<1>13. CASE Check(t)
  BY <1>13 DEF Check, Goto, OneAttempt, AttemptPcs
<1>14. CASE Verify(t)
  BY <1>14 DEF Verify, OwnContent, Goto, TypeOK, OneAttempt, AttemptPcs
<1>15. CASE Stage(t)
  BY <1>15, Zenon DEF Stage, Goto, TypeOK, OneAttempt, AttemptPcs
<1>16. CASE Replace(t)
  BY <1>16 DEF Replace, RenameTo, StandsDown, OwnContent, Goto, TypeOK, OneAttempt, AttemptPcs
<1>17. CASE Rename(t)
  BY <1>17, Zenon DEF Rename, RenameTo, OwnContent, Goto, TypeOK, OneAttempt, AttemptPcs
<1>18. CASE Sync(t)
  BY <1>18, Zenon DEF Sync, Goto, TypeOK, OneAttempt, AttemptPcs
<1>19. CASE Finish(t)
  BY <1>19 DEF Finish, Goto, OneAttempt, AttemptPcs
<1>20. CASE Schedule(t)
  BY <1>20 DEF Schedule, Goto, OneAttempt, AttemptPcs
<1> QED
  BY <1>1, <1>2, <1>3, <1>4, <1>5, <1>6, <1>7, <1>8, <1>9, <1>10, <1>11, <1>12, <1>13, <1>14,
     <1>15, <1>16, <1>17, <1>18, <1>19, <1>20, Zenon DEF Step, Attempt

\* The caller that holds the workers off gives way only when it commits, drops
\* its write, or a newer one is admitted.
LEMMA OwnersStep ==
  ASSUME TypeOK, Numbers, Owners, NEW t \in Tasks, Step(t)
  PROVE  Owners'
<1>1. CASE Reserve(t)
  BY <1>1 DEF Reserve, Goto, Owners
<1>2. CASE Discard(t)
  BY <1>2 DEF Discard, state, Goto, Owners
<1>3. CASE DropArmed(t)
  BY <1>3 DEF DropArmed, Goto, Owners, Released
<1>4. CASE Begin(t)
  BY <1>4, Zenon DEF Begin, Goto, TypeOK, Owners, Released
<1>5. CASE Wait(t)
  BY <1>5 DEF Wait, state, Goto, Owners
<1>6. CASE ReturnFailed(t)
  BY <1>6 DEF ReturnFailed, state, Goto, Owners
<1>7. CASE \E p \in Payloads : Admit(t, p)
  BY <1>7, Zenon DEF Admit, Goto, TypeOK, Owners
<1>8. CASE FlushKick(t)
  BY <1>8 DEF FlushKick, state, Goto, Owners
<1>9. CASE FlushTarget(t)
  BY <1>9 DEF FlushTarget, state, Goto, Owners
<1>10. CASE FlushReturn(t)
  BY <1>10 DEF FlushReturn, state, Goto, Owners
<1>11. CASE Pop(t)
  BY <1>11 DEF Pop, state, Goto, Owners
<1>12. CASE RetryOnce(t)
  BY <1>12, Zenon DEF RetryOnce, Goto, TypeOK, Owners
<1>13. CASE Check(t)
  BY <1>13 DEF Check, state, Goto, Owners
<1>14. CASE Verify(t)
  BY <1>14, Zenon DEF Verify, OwnContent, state, Goto, TypeOK, Owners
<1>15. CASE Stage(t)
  BY <1>15, Zenon DEF Stage, state, Goto, TypeOK, Owners
<1>16. CASE Replace(t)
  BY <1>16, Zenon DEF Replace, RenameTo, StandsDown, OwnContent, Goto, TypeOK, Owners
<1>17. CASE Rename(t)
  BY <1>17, Zenon DEF Rename, RenameTo, OwnContent, state, Goto, TypeOK, Owners
<1>18. CASE Sync(t)
  BY <1>18, Zenon DEF Sync, Goto, TypeOK, Owners
<1>19. CASE Finish(t)
  BY <1>19 DEF Finish, Goto, Owners
<1>20. CASE Schedule(t)
  BY <1>20 DEF Schedule, state, Goto, Owners
<1> QED
  BY <1>1, <1>2, <1>3, <1>4, <1>5, <1>6, <1>7, <1>8, <1>9, <1>10, <1>11, <1>12, <1>13, <1>14,
     <1>15, <1>16, <1>17, <1>18, <1>19, <1>20, Zenon DEF Step, Attempt

\* Showing the content of an attempt reuses no number.
LEMMA ShownIsNotFresh ==
  ASSUME Fresh, NEW t \in Tasks, pc[t] \in AttemptPcs, pc'[t] \in AttemptPcs,
         \A u \in Tasks : u # t => pc'[u] = pc[u], gen' = gen, latest' = latest,
         \A c \in possible' : c \in possible \/ c.gen = gen[t]
  PROVE  Fresh'
<1>1. pc'[t] # "reserved" /\ pc[t] # "reserved"
  BY Zenon DEF AttemptPcs
<1> SUFFICES ASSUME NEW u \in Tasks, pc'[u] = "reserved"
             PROVE  /\ gen[u] # latest
                    /\ \A c \in possible' : c.gen # gen[u]
                    /\ \A v \in Tasks :
                         v # u /\ pc'[v] \in {"reserved", "admitted"} \cup AttemptPcs
                            => gen[v] # gen[u]
  BY Zenon DEF Fresh
<1>2. u # t /\ pc[u] = "reserved"
  BY <1>1, Zenon
<1>3. gen[t] # gen[u] /\ gen[u] # latest /\ \A c \in possible : c.gen # gen[u]
  BY <1>2, Zenon DEF Fresh
<1>4. \A v \in Tasks : v # u /\ v # t /\ pc[v] \in {"reserved", "admitted"} \cup AttemptPcs
                         => gen[v] # gen[u]
  BY <1>2, Zenon DEF Fresh
<1> QED
  BY <1>3, <1>4, Zenon

\* A new number is on no disk and with no other task.
LEMMA FreshStep ==
  ASSUME TypeOK, Numbers, Calls, Fresh, Disk, NEW t \in Tasks, Step(t)
  PROVE  Fresh'
<1>1. CASE Reserve(t)
  <2>1. /\ UNCHANGED <<latest, possible>>
        /\ \A u \in Tasks : u # t => pc'[u] = pc[u] /\ gen'[u] = gen[u]
        /\ pc'[t] = "reserved" /\ gen'[t] = next_generation + 1
    BY <1>1, Zenon DEF Reserve, disk, Goto, TypeOK
  <2>2. /\ latest # gen'[t] /\ \A c \in possible : c.gen # gen'[t]
        /\ \A u \in Tasks : pc[u] \in {"reserved", "admitted"} \cup AttemptPcs
                               => gen[u] # gen'[t]
    BY <2>1 DEF TypeOK, Numbers, Calls, Disk, Contents, Generations
  <2> QED
    <3>1. ASSUME NEW u \in Tasks, pc'[u] = "reserved"
          PROVE  gen'[u] # latest /\ \A c \in possible : c.gen # gen'[u]
      BY <2>1, <2>2, <3>1, Zenon DEF Fresh
    <3>2. ASSUME NEW u \in Tasks, pc'[u] = "reserved", NEW v \in Tasks, v # u,
                 pc'[v] \in {"reserved", "admitted"} \cup AttemptPcs
          PROVE  gen'[v] # gen'[u]
      BY <2>1, <2>2, <3>2, Zenon DEF Fresh
    <3> QED
      BY <2>1, <3>1, <3>2, Zenon DEF Fresh
<1>2. CASE Discard(t)
  BY <1>2 DEF Discard, state, disk, Goto, Fresh
<1>3. CASE DropArmed(t)
  BY <1>3 DEF DropArmed, disk, Goto, Fresh
<1>4. CASE Begin(t)
  BY <1>4 DEF Begin, disk, Goto, TypeOK, Fresh, AttemptPcs
<1>5. CASE Wait(t)
  BY <1>5 DEF Wait, state, disk, Goto, Fresh, AttemptPcs
<1>6. CASE ReturnFailed(t)
  BY <1>6 DEF ReturnFailed, state, disk, Goto, Fresh, AttemptPcs
<1>7. CASE \E p \in Payloads : Admit(t, p)
  BY <1>7, Zenon DEF Admit, disk, Goto, TypeOK, Fresh
<1>8. CASE FlushKick(t)
  BY <1>8 DEF FlushKick, state, disk, Goto, Fresh, AttemptPcs
<1>9. CASE FlushTarget(t)
  BY <1>9 DEF FlushTarget, state, disk, Goto, Fresh, AttemptPcs
<1>10. CASE FlushReturn(t)
  BY <1>10 DEF FlushReturn, state, disk, Goto, Fresh, AttemptPcs
<1>11. CASE Pop(t)
  BY <1>11 DEF Pop, state, disk, Goto, Fresh, AttemptPcs
<1>12. CASE RetryOnce(t)
  <2>1. CASE foreground # None \/ active # None \/ pending = None
    BY <1>12, <2>1 DEF RetryOnce, state, disk, Goto, TypeOK, Fresh, AttemptPcs
  <2>2. CASE ~(foreground # None \/ active # None \/ pending = None)
    <3>1. /\ \A u \in Tasks : u # t => pc'[u] = pc[u] /\ gen'[u] = gen[u]
          /\ pc'[t] = "check" /\ gen'[t] = latest
          /\ UNCHANGED <<latest, possible>>
      BY <1>12, <2>2, Zenon DEF RetryOnce, disk, Goto, TypeOK, Numbers
    <3> QED
      BY <3>1, Zenon DEF Fresh
  <2> QED
    BY <2>1, <2>2, Zenon
<1>13. CASE Check(t)
  <2>1. /\ \A u \in Tasks : u # t => pc'[u] = pc[u]
        /\ pc[t] = "check" /\ pc'[t] # "reserved"
        /\ UNCHANGED <<gen, latest, possible>>
    BY <1>13 DEF Check, state, disk, Goto
  <2> QED
    BY <2>1, Zenon DEF Fresh, AttemptPcs
<1>14. CASE Verify(t)
  <2>1. /\ pc[t] \in AttemptPcs /\ pc'[t] \in AttemptPcs
        /\ \A u \in Tasks : u # t => pc'[u] = pc[u]
    BY <1>14, Zenon DEF Verify, Goto, TypeOK, AttemptPcs
  <2>2. /\ gen' = gen /\ latest' = latest
        /\ \A c \in possible' : c \in possible \/ c.gen = gen[t]
    BY <1>14 DEF Verify, OwnContent, state, disk
  <2> QED
    BY <2>1, <2>2, ShownIsNotFresh, Zenon
<1>15. CASE Stage(t)
  BY <1>15 DEF Stage, state, disk, Goto, TypeOK, Fresh, Disk, AttemptPcs
<1>16. CASE Replace(t)
  BY <1>16 DEF Replace, RenameTo, StandsDown, OwnContent, disk, Goto, TypeOK, Fresh, AttemptPcs
<1>17. CASE Rename(t)
  <2>1. /\ pc[t] \in AttemptPcs /\ pc'[t] \in AttemptPcs
        /\ \A u \in Tasks : u # t => pc'[u] = pc[u]
    BY <1>17, Zenon DEF Rename, RenameTo, Goto, TypeOK, AttemptPcs
  <2>2. /\ gen' = gen /\ latest' = latest
        /\ \A c \in possible' : c \in possible \/ c.gen = gen[t]
    BY <1>17 DEF Rename, RenameTo, OwnContent, state, disk
  <2> QED
    BY <2>1, <2>2, ShownIsNotFresh, Zenon
<1>18. CASE Sync(t)
  BY <1>18 DEF Sync, disk, Goto, TypeOK, Fresh, AttemptPcs
<1>19. CASE Finish(t)
  BY <1>19 DEF Finish, disk, Goto, Fresh, AttemptPcs
<1>20. CASE Schedule(t)
  BY <1>20 DEF Schedule, state, disk, Goto, Fresh, AttemptPcs
<1> QED
  BY <1>1, <1>2, <1>3, <1>4, <1>5, <1>6, <1>7, <1>8, <1>9, <1>10, <1>11, <1>12, <1>13, <1>14,
     <1>15, <1>16, <1>17, <1>18, <1>19, <1>20, Zenon DEF Step, Attempt

\* A task that goes anywhere but into an attempt leaves the attempts as they are.
LEMMA QuietMove ==
  ASSUME TypeOK, NEW t \in Tasks, NEW s, s \notin AttemptPcs, Goto(t, s)
  PROVE  \A u \in Tasks : /\ u # t => pc'[u] = pc[u]
                          /\ pc'[u] \in AttemptPcs => u # t /\ pc'[u] = pc[u]
  BY Zenon DEF Goto, TypeOK

\* The disk is read through the attempts alone.
LEMMA DiskKept ==
  ASSUME Disk, UNCHANGED <<latest, payload, promised, disk>>,
         \A u \in Tasks : pc'[u] \in AttemptPcs => pc'[u] = pc[u] /\ gen'[u] = gen[u]
  PROVE  Disk'
<1>1. UNCHANGED <<latest, payload, promised, foreign, possible, visible>>
  BY Zenon DEF disk
<1>2. "sync" \in AttemptPcs /\ "durable" \in AttemptPcs
  BY Zenon DEF AttemptPcs
<1> QED
  BY <1>1, <1>2, Zenon DEF Disk

\* What the running attempt does to the disk.
LEMMA DiskStep ==
  ASSUME TypeOK, Numbers, Calls, OneAttempt, Fresh, Disk, NEW t \in Tasks, Step(t)
  PROVE  Disk'
<1>1. CASE Reserve(t)
  <2>1. /\ UNCHANGED <<latest, payload, promised, disk>>
        /\ \A u \in Tasks : u # t => gen'[u] = gen[u]
    BY <1>1, Zenon DEF Reserve, history, TypeOK
  <2>2. \A u \in Tasks : pc'[u] \in AttemptPcs => u # t /\ pc'[u] = pc[u]
    BY <1>1, QuietMove, Zenon DEF Reserve, AttemptPcs
  <2> QED
    BY <2>1, <2>2, DiskKept, Zenon
<1>2. CASE Discard(t)
  <2>1. UNCHANGED <<latest, payload, promised, disk, gen>>
    BY <1>2, Zenon DEF Discard, state, history
  <2>2. \A u \in Tasks : pc'[u] \in AttemptPcs => pc'[u] = pc[u]
    BY <1>2, QuietMove, Zenon DEF Discard, AttemptPcs
  <2> QED
    BY <2>1, <2>2, DiskKept, Zenon
<1>3. CASE DropArmed(t)
  <2>1. UNCHANGED <<latest, payload, promised, disk, gen>>
    BY <1>3, Zenon DEF DropArmed, history
  <2>2. \A u \in Tasks : pc'[u] \in AttemptPcs => pc'[u] = pc[u]
    BY <1>3, QuietMove, Zenon DEF DropArmed, AttemptPcs
  <2> QED
    BY <2>1, <2>2, DiskKept, Zenon
<1>4. CASE Begin(t)
  BY <1>4 DEF Begin, disk, history, Goto, TypeOK, Numbers, Disk, AttemptPcs
<1>5. CASE Wait(t)
  <2>1. UNCHANGED <<latest, payload, promised, disk, gen>>
    BY <1>5, Zenon DEF Wait, state, history
  <2>2. \A u \in Tasks : pc'[u] \in AttemptPcs => pc'[u] = pc[u]
    BY <1>5, QuietMove, Zenon DEF Wait, AttemptPcs
  <2> QED
    BY <2>1, <2>2, DiskKept, Zenon
<1>6. CASE ReturnFailed(t)
  <2>1. UNCHANGED <<latest, payload, promised, disk, gen>>
    BY <1>6, Zenon DEF ReturnFailed, state, history
  <2>2. \A u \in Tasks : pc'[u] \in AttemptPcs => pc'[u] = pc[u]
    BY <1>6, QuietMove, Zenon DEF ReturnFailed, AttemptPcs
  <2> QED
    BY <2>1, <2>2, DiskKept, Zenon
<1>7. CASE \E p \in Payloads : Admit(t, p)
  <2>1. /\ pc[t] = "reserved" /\ latest' \in Nat /\ latest' >= latest
        /\ \A g \in Generations : g # gen[t] => payload'[g] = payload[g]
        /\ \A u \in Tasks : u # t => pc'[u] = pc[u]
        /\ pc'[t] = "admitted"
        /\ UNCHANGED <<gen, visible, possible, foreign, promised>>
    BY <1>7 DEF Admit, disk, history, Goto, TypeOK
  <2>2. \A c \in possible : c.gen # 0 => c.gen \in Generations /\ c.gen # gen[t]
    BY <2>1, Zenon DEF Contents, TypeOK, Fresh
  <2>3. ASSUME NEW c \in possible'
        PROVE  /\ c.gen <= latest'
               /\ c.gen # 0 => c.bytes = payload'[c.gen]
               /\ ~foreign' => promised' <= c.gen
    <3>1. c \in possible /\ c.gen \in Int
      BY <2>1 DEF Contents, Generations, TypeOK
    <3>2. c.gen <= latest'
      BY <2>1, <3>1 DEF TypeOK, Disk
    <3> QED
      BY <2>1, <2>2, <3>1, <3>2, Zenon DEF Disk
  <2>4. \A u \in Tasks :
          /\ pc'[u] \in AttemptPcs => pc[u] \in AttemptPcs
          /\ pc'[u] = "sync" => pc[u] = "sync"
          /\ pc'[u] = "durable" => pc[u] = "durable"
    BY <2>1, Zenon DEF AttemptPcs
  <2>6. (\A u \in Tasks :
          /\ pc[u] \in AttemptPcs => promised <= gen[u] /\ \A c \in possible : c.gen <= gen[u]
          /\ pc[u] = "sync" => visible.gen = gen[u]
          /\ pc[u] = "durable" => ~foreign /\ \A c \in possible : c.gen = gen[u])'
    BY <2>1, <2>4, Zenon DEF Disk
  <2> QED
    BY <2>3, <2>6, Zenon DEF Disk
<1>8. CASE FlushKick(t)
  <2>1. UNCHANGED <<latest, payload, promised, disk, gen>>
    BY <1>8, Zenon DEF FlushKick, state, history
  <2>2. \A u \in Tasks : pc'[u] \in AttemptPcs => pc'[u] = pc[u]
    BY <1>8, QuietMove, Zenon DEF FlushKick, AttemptPcs
  <2> QED
    BY <2>1, <2>2, DiskKept, Zenon
<1>9. CASE FlushTarget(t)
  <2>1. /\ UNCHANGED <<latest, payload, promised, disk>>
        /\ \A u \in Tasks : u # t => gen'[u] = gen[u]
    BY <1>9, Zenon DEF FlushTarget, state, history, TypeOK
  <2>2. \A u \in Tasks : pc'[u] \in AttemptPcs => u # t /\ pc'[u] = pc[u]
    BY <1>9, QuietMove, Zenon DEF FlushTarget, AttemptPcs
  <2> QED
    BY <2>1, <2>2, DiskKept, Zenon
<1>10. CASE FlushReturn(t)
  <2>1. UNCHANGED <<latest, payload, promised, disk, gen>>
    BY <1>10, Zenon DEF FlushReturn, state, history
  <2>2. \A u \in Tasks : pc'[u] \in AttemptPcs => pc'[u] = pc[u]
    BY <1>10, QuietMove, Zenon DEF FlushReturn, AttemptPcs
  <2> QED
    BY <2>1, <2>2, DiskKept, Zenon
<1>11. CASE Pop(t)
  <2>1. UNCHANGED <<latest, payload, promised, disk, gen>>
    BY <1>11, Zenon DEF Pop, state, history
  <2>2. \A u \in Tasks : pc'[u] \in AttemptPcs => pc'[u] = pc[u]
    BY <1>11, QuietMove, Zenon DEF Pop, AttemptPcs
  <2> QED
    BY <2>1, <2>2, DiskKept, Zenon
<1>12. CASE RetryOnce(t)
  <2>1. /\ UNCHANGED <<latest, payload, promised, disk>>
        /\ \A u \in Tasks : u # t => pc'[u] = pc[u] /\ gen'[u] = gen[u]
        /\ pc'[t] \in {"idle", "check"}
    BY <1>12, Zenon DEF RetryOnce, history, Goto, TypeOK
  <2>2. pc'[t] \in AttemptPcs => gen'[t] = latest
    BY <1>12 DEF RetryOnce, Goto, TypeOK, Numbers, AttemptPcs
  <2>3. promised <= latest /\ \A c \in possible : c.gen <= latest
    BY Zenon DEF Numbers, Disk
  <2> QED
    BY <2>1, <2>2, <2>3, Zenon DEF Disk, disk
<1>13. CASE Check(t)
  BY <1>13 DEF Check, state, disk, history, Goto, Disk, AttemptPcs
<1>14. CASE Verify(t)
  BY <1>14 DEF Verify, OwnContent, state, disk, history, Goto, None, TypeOK, Calls, Disk, AttemptPcs
<1>15. CASE Stage(t)
  BY <1>15, Zenon DEF Stage, state, disk, history, Goto, TypeOK, Disk, AttemptPcs
<1>16. CASE Replace(t)
  BY <1>16 DEF Replace, RenameTo, StandsDown, OwnContent, disk, history, Goto, TypeOK, OneAttempt,
     Disk, AttemptPcs
<1>17. CASE Rename(t)
  BY <1>17 DEF Rename, RenameTo, OwnContent, state, disk, history, Goto, TypeOK, Calls, Disk,
     AttemptPcs
<1>18. CASE Sync(t)
  BY <1>18 DEF Sync, disk, history, Goto, TypeOK, Disk, AttemptPcs
<1>19. CASE Finish(t)
  BY <1>19, Zenon DEF Finish, disk, Goto, TypeOK, Disk, AttemptPcs, Maximum
<1>20. CASE Schedule(t)
  BY <1>20 DEF Schedule, state, disk, history, Goto, Disk, AttemptPcs
<1> QED
  BY <1>1, <1>2, <1>3, <1>4, <1>5, <1>6, <1>7, <1>8, <1>9, <1>10, <1>11, <1>12, <1>13, <1>14,
     <1>15, <1>16, <1>17, <1>18, <1>19, <1>20, Zenon DEF Step, Attempt

\* A report is compared with the file's numbers and with the attempts alone.
LEMMA ReportsKept ==
  ASSUME Reports, UNCHANGED <<latest, landed, promised, base, lagging>>,
         \A u \in Writers : \/ result'[u] = result[u] /\ gen'[u] = gen[u]
                            \/ result'[u] \notin {"written", "flushed", "failed"},
         \A u \in Tasks : pc'[u] \in AttemptPcs => pc'[u] = pc[u] /\ gen'[u] = gen[u]
  PROVE  Reports'
  BY Zenon DEF Reports

\* What callers are told.
LEMMA ReportsStep ==
  ASSUME TypeOK, Numbers, Calls, OneAttempt, Reports, NEW t \in Tasks, Step(t)
  PROVE  Reports'
<1>1. CASE Reserve(t)
  <2>1. /\ UNCHANGED <<latest, landed, promised, base, lagging>>
        /\ \A u \in Tasks : u # t => gen'[u] = gen[u] /\ result'[u] = result[u]
        /\ result'[t] = "none"
    BY <1>1, Zenon DEF Reserve, history, TypeOK
  <2>2. \A u \in Tasks : pc'[u] \in AttemptPcs => u # t /\ pc'[u] = pc[u]
    BY <1>1, QuietMove, Zenon DEF Reserve, AttemptPcs
  <2> QED
    BY <2>1, <2>2, ReportsKept, Zenon DEF Tasks
<1>2. CASE Discard(t)
  <2>1. UNCHANGED <<latest, landed, promised, base, lagging, gen, result>>
    BY <1>2, Zenon DEF Discard, state, history
  <2>2. \A u \in Tasks : pc'[u] \in AttemptPcs => pc'[u] = pc[u]
    BY <1>2, QuietMove, Zenon DEF Discard, AttemptPcs
  <2> QED
    BY <2>1, <2>2, ReportsKept, Zenon
<1>3. CASE DropArmed(t)
  <2>1. UNCHANGED <<latest, landed, promised, base, lagging, gen, result>>
    BY <1>3, Zenon DEF DropArmed, history
  <2>2. \A u \in Tasks : pc'[u] \in AttemptPcs => pc'[u] = pc[u]
    BY <1>3, QuietMove, Zenon DEF DropArmed, AttemptPcs
  <2> QED
    BY <2>1, <2>2, ReportsKept, Zenon
<1>4. CASE Begin(t)
  BY <1>4 DEF Begin, history, Goto, TypeOK, Reports, AttemptPcs, Tasks
<1>5. CASE Wait(t)
  BY <1>5 DEF Wait, state, history, Goto, Numbers, Calls, Reports, AttemptPcs
<1>6. CASE ReturnFailed(t)
  <2>1. UNCHANGED <<latest, landed, promised, base, lagging, gen, result>>
    BY <1>6, Zenon DEF ReturnFailed, state, history
  <2>2. \A u \in Tasks : pc'[u] \in AttemptPcs => pc'[u] = pc[u]
    BY <1>6, QuietMove, Zenon DEF ReturnFailed, AttemptPcs
  <2> QED
    BY <2>1, <2>2, ReportsKept, Zenon
<1>7. CASE \E p \in Payloads : Admit(t, p)
  BY <1>7 DEF Admit, history, Goto, TypeOK, Reports, AttemptPcs, Tasks
<1>8. CASE FlushKick(t)
  <2>1. /\ UNCHANGED <<latest, landed, promised, base, lagging>>
        /\ \A u \in Tasks : u # t => gen'[u] = gen[u] /\ result'[u] = result[u]
        /\ result'[t] = "none"
    BY <1>8, Zenon DEF FlushKick, state, history, TypeOK
  <2>2. \A u \in Tasks : pc'[u] \in AttemptPcs => u # t /\ pc'[u] = pc[u]
    BY <1>8, QuietMove, Zenon DEF FlushKick, AttemptPcs
  <2> QED
    BY <2>1, <2>2, ReportsKept, Zenon DEF Tasks
<1>9. CASE FlushTarget(t)
  <2>1. /\ UNCHANGED <<latest, landed, promised, base, lagging, result>>
        /\ \A u \in Tasks : u # t => gen'[u] = gen[u]
        /\ result[t] = "none"
    BY <1>9, Zenon DEF FlushTarget, state, history, TypeOK, Calls
  <2>2. \A u \in Tasks : pc'[u] \in AttemptPcs => u # t /\ pc'[u] = pc[u]
    BY <1>9, QuietMove, Zenon DEF FlushTarget, AttemptPcs
  <2> QED
    BY <2>1, <2>2, ReportsKept, Zenon DEF Tasks
<1>10. CASE FlushReturn(t)
  BY <1>10 DEF FlushReturn, state, history, Goto, TypeOK, Numbers, Calls, Reports, AttemptPcs,
     Unsettled
<1>11. CASE Pop(t)
  <2>1. UNCHANGED <<latest, landed, promised, base, lagging, gen, result>>
    BY <1>11, Zenon DEF Pop, state, history
  <2>2. \A u \in Tasks : pc'[u] \in AttemptPcs => pc'[u] = pc[u]
    BY <1>11, QuietMove, Zenon DEF Pop, AttemptPcs
  <2> QED
    BY <2>1, <2>2, ReportsKept, Zenon
<1>12. CASE RetryOnce(t)
  <2>1. t \notin Writers
    BY <1>12, TasksAreDistinct, Zenon DEF RetryOnce, Calls
  <2>2. /\ UNCHANGED <<latest, landed, promised, base, lagging, result>>
        /\ \A u \in Tasks : u # t => pc'[u] = pc[u] /\ gen'[u] = gen[u]
    BY <1>12, Zenon DEF RetryOnce, history, Goto, TypeOK
  <2>3. pc'[t] \in AttemptPcs => gen'[t] = latest
    BY <1>12 DEF RetryOnce, Goto, TypeOK, Numbers, AttemptPcs
  <2>4. \A u \in Writers : result[u] = "failed" => gen[u] <= latest
    BY DEF Reports
  <2> QED
    BY <2>1, <2>2, <2>3, <2>4, Zenon DEF Reports, Tasks
<1>13. CASE Check(t)
  <2>1. UNCHANGED <<latest, landed, promised, base, lagging, gen, result>>
    BY <1>13, Zenon DEF Check, state, history
  <2>2. \A u \in Tasks : pc'[u] \in AttemptPcs => pc[u] \in AttemptPcs
    BY <1>13, Zenon DEF Check, Goto, TypeOK, AttemptPcs
  <2> QED
    BY <2>1, <2>2, Zenon DEF Reports
<1>14. CASE Verify(t)
  BY <1>14, Zenon DEF Verify, OwnContent, state, history, Goto, TypeOK, Reports, AttemptPcs
<1>15. CASE Stage(t)
  BY <1>15, Zenon DEF Stage, state, history, Goto, TypeOK, Reports, AttemptPcs
<1>16. CASE Replace(t)
  BY <1>16, Zenon DEF Replace, RenameTo, StandsDown, OwnContent, history, Goto, TypeOK, Reports,
     AttemptPcs
<1>17. CASE Rename(t)
  BY <1>17, Zenon DEF Rename, RenameTo, OwnContent, state, history, Goto, TypeOK, Reports,
     AttemptPcs
<1>18. CASE Sync(t)
  BY <1>18, Zenon DEF Sync, history, Goto, TypeOK, Reports, AttemptPcs
<1>19. CASE Finish(t)
  <2>1. /\ \A u \in Tasks : u # t => pc'[u] = pc[u] /\ result'[u] = result[u]
        /\ pc'[t] \notin AttemptPcs
        /\ UNCHANGED <<gen, latest, base>>
    BY <1>19, Zenon DEF Finish, Goto, TypeOK, AttemptPcs
  <2>2. \A u \in Tasks : pc'[u] \notin AttemptPcs
    BY <1>19, <2>1, Zenon DEF Finish, OneAttempt, AttemptPcs
  <2>3. promised' >= promised /\ landed' >= landed
    BY <1>19 DEF Finish, state, tasks, Trouble, TypeOK, Maximum
  <2>4. ASSUME NEW u \in Writers, u # t, result[u] = "failed", landed' < gen[u]
        PROVE  lagging'
    <3>1. landed \in Nat /\ gen[u] \in Nat /\ gen[t] \in Nat
      BY DEF TypeOK, Tasks
    <3>2. gen[u] <= gen[t] /\ (landed < gen[u] => lagging)
      BY <1>19, <2>4, Zenon DEF Finish, Reports, AttemptPcs
    <3>3. pc[t] # "durable"
      <4>1. pc[t] = "durable" => landed' = Maximum(landed, gen[t])
        BY <1>19, Zenon DEF Finish
      <4> QED
        BY <2>4, <3>1, <3>2, <4>1 DEF Maximum
    <3> QED
      BY <1>19, <2>4, <3>2, <3>3, Zenon DEF Finish
  <2>5. /\ result'[t] = Outcome(t) /\ Outcome(t) \in {"written", "superseded", "failed"}
        /\ pc[t] \in AttemptPcs /\ promised \in Nat /\ gen[t] \in Nat
    BY <1>19 DEF Finish, tasks, disk, history, None, TypeOK, AttemptPcs, Outcome
  <2>6. result'[t] = "written" => gen[t] <= promised'
    BY <1>19, <2>5 DEF Finish, Maximum, Outcome
  <2>7. result'[t] = "failed" => gen[t] <= latest /\ lagging'
    BY <1>19, <2>5, Zenon DEF Finish, Calls, Outcome
  <2>8. ASSUME NEW u \in Writers, u # t
        PROVE  /\ result'[u] = "written" => gen'[u] <= promised'
               /\ result'[u] = "flushed" /\ gen'[u] > base' => gen'[u] <= promised'
               /\ result'[u] = "failed" => gen'[u] <= latest'
    <3>1. gen[u] \in Nat /\ promised \in Nat /\ promised' \in Nat
      BY <1>19 DEF Finish, Goto, TypeOK, Maximum, Tasks
    <3>2. /\ result[u] = "written" => gen[u] <= promised
          /\ result[u] = "flushed" /\ gen[u] > base => gen[u] <= promised
          /\ result[u] = "failed" => gen[u] <= latest
      BY <2>8, Zenon DEF Reports
    <3>3. result'[u] = result[u] /\ gen'[u] = gen[u]
      BY <2>1, <2>8, Zenon DEF Tasks
    <3> QED
      BY <2>1, <2>3, <3>1, <3>2, <3>3
  <2> QED
    BY <2>1, <2>2, <2>4, <2>5, <2>6, <2>7, <2>8, Zenon DEF None, Reports, Tasks
<1>20. CASE Schedule(t)
  BY <1>20 DEF Schedule, state, history, Goto, Reports, AttemptPcs
<1> QED
  BY <1>1, <1>2, <1>3, <1>4, <1>5, <1>6, <1>7, <1>8, <1>9, <1>10, <1>11, <1>12, <1>13, <1>14,
     <1>15, <1>16, <1>17, <1>18, <1>19, <1>20, Zenon DEF Step, Attempt

\* A payload changes hands without being left alone.
LEMMA DrivenStep ==
  ASSUME TypeOK, Numbers, Owners, Calls, PendingIsDriven, NEW t \in Tasks, Step(t)
  PROVE  PendingIsDriven'
<1>1. CASE Reserve(t)
  BY <1>1 DEF Reserve, Goto, PendingIsDriven, AttemptPcs
<1>2. CASE Discard(t)
  BY <1>2 DEF Discard, state, Goto, PendingIsDriven, AttemptPcs
<1>3. CASE DropArmed(t)
  BY <1>3 DEF DropArmed, Goto, PendingIsDriven
<1>4. CASE Begin(t)
  BY <1>4, Zenon DEF Begin, Goto, TypeOK, Numbers, PendingIsDriven, AttemptPcs
<1>5. CASE Wait(t)
  BY <1>5 DEF Wait, state, Goto, PendingIsDriven, AttemptPcs
<1>6. CASE ReturnFailed(t)
  BY <1>6 DEF ReturnFailed, state, Goto, PendingIsDriven, AttemptPcs
<1>7. CASE \E p \in Payloads : Admit(t, p)
  BY <1>7 DEF Admit, Goto, TypeOK, PendingIsDriven, AttemptPcs
<1>8. CASE FlushKick(t)
  BY <1>8, Zenon DEF FlushKick, state, PendingIsDriven
<1>9. CASE FlushTarget(t)
  <2>1. /\ pc[t] = "kicked" /\ UNCHANGED <<pending, queued>>
        /\ \A u \in Tasks : u # t => pc'[u] = pc[u] /\ gen'[u] = gen[u]
    BY <1>9, Zenon DEF FlushTarget, state, Goto, TypeOK
  <2> QED
    BY <2>1, Zenon DEF PendingIsDriven, AttemptPcs
<1>10. CASE FlushReturn(t)
  BY <1>10 DEF FlushReturn, state, Goto, PendingIsDriven, AttemptPcs
<1>11. CASE Pop(t)
  BY <1>11, Zenon DEF Pop, Goto, TypeOK, PendingIsDriven
<1>12. CASE RetryOnce(t)
  BY <1>12, Zenon DEF RetryOnce, Goto, TypeOK, PendingIsDriven, AttemptPcs
<1>13. CASE Check(t)
  BY <1>13 DEF Check, Goto, PendingIsDriven, AttemptPcs
<1>14. CASE Verify(t)
  BY <1>14, Zenon DEF Verify, OwnContent, Goto, TypeOK, PendingIsDriven, AttemptPcs
<1>15. CASE Stage(t)
  BY <1>15, Zenon DEF Stage, Goto, TypeOK, PendingIsDriven, AttemptPcs
<1>16. CASE Replace(t)
  BY <1>16, Zenon DEF Replace, RenameTo, StandsDown, OwnContent, Goto, TypeOK, PendingIsDriven,
     AttemptPcs
<1>17. CASE Rename(t)
  BY <1>17, Zenon DEF Rename, RenameTo, OwnContent, Goto, TypeOK, PendingIsDriven, AttemptPcs
<1>18. CASE Sync(t)
  BY <1>18, Zenon DEF Sync, Goto, TypeOK, PendingIsDriven, AttemptPcs
<1>19. CASE Finish(t)
  BY <1>19 DEF Finish, Goto, Numbers, Owners, Calls, PendingIsDriven
<1>20. CASE Schedule(t)
  BY <1>20, Zenon DEF Schedule, state, PendingIsDriven
<1> QED
  BY <1>1, <1>2, <1>3, <1>4, <1>5, <1>6, <1>7, <1>8, <1>9, <1>10, <1>11, <1>12, <1>13, <1>14,
     <1>15, <1>16, <1>17, <1>18, <1>19, <1>20, Zenon DEF Step, Attempt

\* A crash leaves one of the possible contents and an empty process; another
\* program writes only while no attempt runs.
LEMMA OutsideStep ==
  ASSUME IInv, ForgetDurableBytes \/ OutsideEdit \/ Crash
  PROVE  IInv'
<1>1. CASE ForgetDurableBytes
  <2>1. /\ UNCHANGED <<next_generation, latest, pending, active, foreground, landed, lagging>>
        /\ UNCHANGED <<payload, queued, tasks, disk, history, troubles>>
        /\ durable' = {}
    BY <1>1, Zenon DEF ForgetDurableBytes
  <2>2. TypeOK'
    BY <2>1, Zenon DEF TypeOK, IInv, tasks, disk, history
  <2>3. Numbers' /\ Owners' /\ PendingIsDriven'
    BY <2>1, Zenon DEF Numbers, Owners, PendingIsDriven, IInv, tasks, history
  <2>4. Calls' /\ OneAttempt'
    BY <2>1, Zenon DEF Calls, OneAttempt, IInv, tasks, history
  <2>5. Fresh' /\ Disk'
    BY <2>1, Zenon DEF Fresh, Disk, IInv, tasks, disk, history
  <2>6. Reports'
    BY <2>1, Zenon DEF Reports, IInv, tasks, history
  <2> QED
    BY <2>2, <2>3, <2>4, <2>5, <2>6, Zenon DEF IInv
<1>2. CASE OutsideEdit
  <2>1. \A t \in Tasks : pc[t] \notin AttemptPcs
    BY <1>2 DEF OutsideEdit, Calls, TypeOK, IInv, None
  <2>2. PICK b \in Payloads : /\ visible' = [gen |-> 0, bytes |-> b]
                              /\ possible' = possible \cup {[gen |-> 0, bytes |-> b]}
    BY <1>2, Zenon DEF OutsideEdit
  <2>3. foreign' = TRUE /\ UNCHANGED <<state, queued, tasks, history>>
    BY <1>2, Zenon DEF OutsideEdit
  <2>4. TypeOK'
    BY <1>2, <2>2, <2>3, BoundsAreNatural DEF OutsideEdit, TypeOK, Contents, IInv, state, tasks,
       history, Trouble
  <2>5. Fresh'
    <3>1. \A t \in Tasks : pc[t] = "reserved" => gen[t] # 0
      BY DEF Calls, TypeOK, IInv
    <3>2. /\ UNCHANGED <<pc, gen, latest>>
          /\ \A c \in possible' : c \in possible \/ c.gen = 0
      BY <2>2, <2>3 DEF state, tasks
    <3> QED
      BY <3>1, <3>2, Zenon DEF Fresh, IInv
  <2>6. Disk'
    BY <2>1, <2>2, <2>3 DEF Disk, AttemptPcs, TypeOK, IInv, state, tasks
  <2> QED
    <3>1. Numbers' /\ Owners' /\ PendingIsDriven'
      BY <2>3, Zenon DEF Numbers, Owners, PendingIsDriven, IInv, state, tasks, history
    <3>2. Calls' /\ OneAttempt' /\ Reports'
      BY <2>3, Zenon DEF Calls, OneAttempt, Reports, IInv, state, tasks, history
    <3> QED
      BY <2>4, <2>5, <2>6, <3>1, <3>2, Zenon DEF IInv
<1>3. CASE Crash
  <2>1. PICK c \in possible : visible' = c /\ possible' = {c}
    BY <1>3, Zenon DEF Crash
  <2>2. \A t \in Tasks : pc'[t] = "idle" /\ gen'[t] = 0 /\ result'[t] = "none"
    BY <1>3, Zenon DEF Crash, None
  <2>3. TypeOK'
    <3>1. visible' \in possible' /\ possible' \in SUBSET Contents
      BY <2>1, Zenon DEF TypeOK, IInv
    <3>2. /\ pc' \in [Tasks -> WriterPcs \cup AttemptPcs \cup {"popped", "schedule"}]
          /\ result' \in [Tasks -> {"none", "written", "superseded", "failed", "flushed", "timeout"}]
      BY <1>3, Zenon DEF Crash, WriterPcs
    <3>3. gen' \in [Tasks -> 0 .. MaxWrites] /\ durable' \in SUBSET Payloads
      BY <1>3, BoundsAreNatural DEF Crash, None
    <3>4. lagging' \in BOOLEAN /\ queued' \in BOOLEAN /\ foreign' \in BOOLEAN
      BY <1>3, Zenon DEF Crash, TypeOK, IInv
    <3>5. /\ next_generation' \in 0 .. MaxWrites /\ base' \in 0 .. MaxWrites
          /\ latest' \in 0 .. MaxWrites /\ landed' \in 0 .. MaxWrites
          /\ promised' \in 0 .. MaxWrites /\ pending' \in 0 .. MaxWrites
          /\ active' \in 0 .. MaxWrites /\ foreground' \in 0 .. MaxWrites
          /\ troubles' \in 0 .. MaxTroubles /\ payload' \in [Generations -> Payloads]
      BY <1>3, BoundsAreNatural DEF Crash, TypeOK, IInv, Trouble, None
    <3> QED
      BY <3>1, <3>2, <3>3, <3>4, <3>5, Zenon DEF TypeOK
  <2>4. Numbers' /\ Owners' /\ PendingIsDriven'
    BY <1>3 DEF Crash, Numbers, Owners, PendingIsDriven, TypeOK, IInv
  <2>5. Calls' /\ OneAttempt' /\ Fresh' /\ Reports'
    BY <2>2, Zenon DEF Calls, OneAttempt, Fresh, Reports, AttemptPcs, Tasks
  <2>6. c.gen \in Int /\ latest' \in Int /\ latest <= latest' /\ latest \in Int
    BY <1>3 DEF Crash, TypeOK, Contents, Generations, Numbers, IInv
  <2>7. Disk'
    <3>1. /\ c.gen <= latest
          /\ c.gen # 0 => c.bytes = payload[c.gen]
          /\ ~foreign => promised <= c.gen
      BY Zenon DEF Disk, IInv
    <3>2. UNCHANGED <<payload, promised, foreign>>
      BY <1>3, Zenon DEF Crash
    <3>3. \A t \in Tasks : pc'[t] = "idle"
      BY <2>2, Zenon
    <3> QED
      BY <2>1, <2>6, <3>1, <3>2, <3>3 DEF Disk, AttemptPcs
  <2> QED
    BY <2>3, <2>4, <2>5, <2>7, Zenon DEF IInv
<1> QED
  BY <1>1, <1>2, <1>3, Zenon

\* At the start nothing is admitted and the seed is on the disk.
LEMMA InitIInv == Init => IInv
<1> SUFFICES ASSUME Init PROVE IInv
  BY Zenon
<1>1. TypeOK
  <2>1. visible \in possible /\ possible \in SUBSET Contents
    BY SeedIsContent DEF Init, Contents
  <2>2. /\ pc \in [Tasks -> WriterPcs \cup AttemptPcs \cup {"popped", "schedule"}]
        /\ result \in [Tasks -> {"none", "written", "superseded", "failed", "flushed", "timeout"}]
    BY Zenon DEF Init, WriterPcs
  <2>3. /\ gen \in [Tasks -> 0 .. MaxWrites] /\ durable \in SUBSET Payloads
        /\ payload \in [Generations -> Payloads]
    BY BoundsAreNatural, SeedIsContent DEF Init, None
  <2>4. lagging \in BOOLEAN /\ queued \in BOOLEAN /\ foreign \in BOOLEAN
    BY Zenon DEF Init
  <2>5. 0 \in 0 .. MaxWrites /\ 0 \in 0 .. MaxTroubles
    BY BoundsAreNatural
  <2> QED
    BY <2>1, <2>2, <2>3, <2>4, <2>5, Zenon DEF Init, TypeOK, None
<1>2. \A t \in Tasks : pc[t] = "idle" /\ result[t] = "none"
  BY Zenon DEF Init
<1>3. Numbers /\ Owners /\ PendingIsDriven
  BY DEF Init, Numbers, Owners, PendingIsDriven, None
<1>4. Calls /\ OneAttempt /\ Fresh /\ Reports
  BY <1>2, Zenon DEF Calls, OneAttempt, Fresh, Reports, AttemptPcs, Tasks
<1>5. Disk
  BY <1>2 DEF Init, Disk, AttemptPcs
<1> QED
  BY <1>1, <1>3, <1>4, <1>5, Zenon DEF IInv

\* The inductive invariant holds in every reachable state.
THEOREM Invariance == Spec => []IInv
<1>1. ASSUME IInv, [Next]_vars PROVE IInv'
  <2>1. ASSUME NEW t \in Tasks, Step(t) PROVE IInv'
    BY <1>1, <2>1, TypeStep, NumbersStep, CallsStep, OneAttemptStep, OwnersStep, FreshStep,
       DiskStep, ReportsStep, DrivenStep, Zenon DEF IInv
  <2>2. CASE ForgetDurableBytes \/ OutsideEdit \/ Crash
    BY <1>1, <2>2, OutsideStep, Zenon
  <2>3. CASE UNCHANGED vars
    <3>1. TypeOK'
      BY <1>1, <2>3, Zenon DEF TypeOK, vars, state, tasks, disk, history, IInv
    <3>2. Numbers' /\ Owners' /\ PendingIsDriven'
      BY <1>1, <2>3, Zenon DEF Numbers, Owners, PendingIsDriven, vars, state, tasks, history, IInv
    <3>3. Calls' /\ OneAttempt'
      BY <1>1, <2>3, Zenon DEF Calls, OneAttempt, vars, state, tasks, history, IInv
    <3>4. Fresh' /\ Disk'
      BY <1>1, <2>3, Zenon DEF Fresh, Disk, vars, state, tasks, disk, history, IInv
    <3>5. Reports'
      BY <1>1, <2>3, Zenon DEF Reports, vars, state, tasks, history, IInv
    <3> QED
      BY <3>1, <3>2, <3>3, <3>4, <3>5, Zenon DEF IInv
  <2> QED
    BY <1>1, <2>1, <2>2, <2>3, Zenon DEF Next
<1> QED
  BY <1>1, InitIInv, PTL DEF Spec

\* No crash undoes a write that was reported durable, and what a crash leaves
\* is one whole payload (the contract above AtomicFileWriter).
THEOREM CrashSafety == Spec => []PromiseKept
<1>1. IInv => PromiseKept
  BY Zenon DEF IInv, Disk, PromiseKept, TypeOK, Contents, Generations
<1> QED
  BY <1>1, Invariance, PTL

\* What the reports are compared with: the disk holds nothing older than promised.
LEMMA PromisedIsOnDisk ==
  ASSUME IInv
  PROVE  /\ \A c \in possible : c.gen \in Int /\ (~foreign => promised <= c.gen)
         /\ promised \in Int /\ \A t \in Writers : gen[t] \in Int
  BY BoundsAreNatural DEF IInv, TypeOK, Disk, Contents, Generations, Tasks

\* A caller of commit or commit_wait that is told Written has its payload, or a
\* newer one, on the disk, whatever happens next.
THEOREM ReportsAreTrue == Spec => []WrittenIsDurable
<1>1. IInv => WrittenIsDurable
  BY PromisedIsOnDisk DEF WrittenIsDurable, IInv, Reports
<1> QED
  BY <1>1, Invariance, PTL

\* A flush that returns in time covers every write admitted before it looked at
\* the latest generation: nothing older can be read after a crash.
THEOREM FlushesCover == Spec => []FlushCovers
<1>1. IInv => FlushCovers
  BY PromisedIsOnDisk DEF FlushCovers, Writers, IInv, Reports
<1> QED
  BY <1>1, Invariance, PTL

\* A failed write is visible as lagging until it, or a newer one, has landed.
THEOREM FailuresAreVisible == Spec => []FailureStaysVisible
<1>1. ASSUME IInv PROVE FailureStaysVisible
  <2> SUFFICES ASSUME NEW t \in Writers, result[t] = "failed", landed < gen[t]
               PROVE  lagging /\ pending # None
    BY Zenon DEF FailureStaysVisible
  <2>1. lagging /\ gen[t] <= latest
    BY <1>1, Zenon DEF IInv, Reports
  <2> QED
    BY <1>1, <2>1 DEF IInv, Numbers, TypeOK, Tasks
<1> QED
  BY <1>1, Invariance, PTL

\* At most one attempt at a time works on the destination: begin_foreground and
\* retry_once refuse to start while active is set.
THEOREM AttemptsAreExclusive == Spec => []OneAttempt
  BY Invariance, PTL DEF IInv

\* No admitted payload is left without somebody to land it: a caller, a running
\* attempt or a scheduled retry (finish_attempt, Drop, schedule_retry).
THEOREM PendingHasDriver == Spec => []PendingIsDriven
  BY Invariance, PTL DEF IInv
-------------------------------------------------------------------------------
(***************************************************************************)
(* The coordinator implements DurableRegister.                             *)
(***************************************************************************)
Gens == {c.gen : c \in possible}

\* Each kind of change an attempt makes to the disk is a step of the register.
LEMMA ShowStep ==
  ASSUME IInv, NEW t \in Tasks, pc[t] \in AttemptPcs, UNCHANGED <<promised, foreign>>,
         visible' = OwnContent(t), possible' = possible \cup {OwnContent(t)}
  PROVE  Register!Next
<1>1. gen[t] \in 0 .. MaxWrites /\ visible.gen <= gen[t]
  BY AttemptHasPayload, Zenon DEF IInv, Disk, TypeOK
<1>2. Gens' = Gens \cup {gen[t]} /\ visible'.gen = gen[t]
  <2>1. OwnContent(t).gen = gen[t]
    BY Zenon DEF OwnContent
  <2> QED
    BY <2>1, Zenon DEF Gens
<1>3. PICK v \in 0 .. MaxWrites : v = gen[t]
  BY <1>1, Zenon
<1>4. Register!Show(v)
  BY <1>1, <1>2, <1>3, Zenon DEF Register!Show, Gens
<1> QED
  BY <1>4, Zenon DEF Register!Next

\* An attempt that settles its content on the disk settles the register.
LEMMA SettleStep ==
  ASSUME IInv, NEW t \in Tasks, pc[t] \in AttemptPcs, UNCHANGED promised, foreign' = FALSE,
         visible'.gen = gen[t], possible' = {visible'}
  PROVE  Register!Next
<1>1. gen[t] \in 0 .. MaxWrites /\ visible.gen <= gen[t]
  BY AttemptHasPayload, Zenon DEF IInv, Disk, TypeOK
<1>2. Gens' = {gen[t]}
  BY Zenon DEF Gens
<1>3. PICK v \in 0 .. MaxWrites : v = gen[t]
  BY <1>1, Zenon
<1>4. Register!Settle(v)
  BY <1>1, <1>2, <1>3, Zenon DEF Register!Settle, Gens
<1> QED
  BY <1>4, Zenon DEF Register!Next

\* What a landed attempt reports is what the register may promise.
LEMMA PromiseStep ==
  ASSUME IInv, NEW t \in Tasks, pc[t] = "durable", UNCHANGED disk,
         promised' = Maximum(promised, gen[t])
  PROVE  Register!Next
<1>1. gen[t] \in 0 .. MaxWrites /\ promised \in 0 .. MaxWrites
  BY AttemptHasPayload, Zenon DEF IInv, AttemptPcs, TypeOK
<1>2. ~foreign /\ \A c \in possible : c.gen = gen[t]
  BY Zenon DEF IInv, Disk
<1>3. Gens' = Gens /\ visible' = visible /\ foreign' = foreign
  BY Zenon DEF Gens, disk
<1>4. \A v \in Gens : v = gen[t]
  BY <1>2, Zenon DEF Gens
<1>5. \A v \in Gens : gen[t] <= v
  BY <1>1, <1>4
<1>6. promised' = IF gen[t] > promised THEN gen[t] ELSE promised
  BY <1>1 DEF Maximum
<1>7. Register!Promise(gen[t])
  BY <1>2, <1>3, <1>5, <1>6, Zenon DEF Register!Promise, Gens
<1> QED
  BY <1>1, <1>7, Zenon DEF Register!Next

\* Every step of a caller or of a worker is a step of the register, or leaves the
\* file and what was promised alone.
LEMMA TaskImplements ==
  ASSUME IInv, NEW t \in Tasks, Step(t)
  PROVE  Register!Next \/ UNCHANGED <<disk, promised>>
<1>1. CASE \/ Reserve(t) \/ Discard(t) \/ DropArmed(t) \/ Begin(t) \/ Wait(t) \/ ReturnFailed(t)
           \/ \E p \in Payloads : Admit(t, p)
           \/ FlushKick(t) \/ FlushTarget(t) \/ FlushReturn(t)
           \/ Pop(t) \/ RetryOnce(t) \/ Check(t) \/ Stage(t) \/ Schedule(t)
  BY <1>1, Zenon DEF Reserve, Discard, DropArmed, Begin, Wait, ReturnFailed, Admit, FlushKick,
     FlushTarget, FlushReturn, Pop, RetryOnce, Check, Stage, Schedule, history
<1>2. CASE Verify(t)
  <2>1. CASE UNCHANGED disk
    BY <1>2, <2>1, Zenon DEF Verify, history
  <2>2. CASE visible' = OwnContent(t) /\ possible' = {OwnContent(t)} /\ foreign' = FALSE
    BY <1>2, <2>2, SettleStep, Zenon DEF Verify, OwnContent, history, AttemptPcs
  <2> QED
    BY <1>2, <2>1, <2>2, Zenon DEF Verify
<1>3. CASE Replace(t) \/ Rename(t)
  <2>1. pc[t] \in AttemptPcs /\ UNCHANGED promised /\ (UNCHANGED disk \/ RenameTo(t))
    BY <1>3, Zenon DEF Replace, Rename, history, AttemptPcs
  <2>2. CASE UNCHANGED disk
    BY <2>1, <2>2, Zenon
  <2>3. CASE /\ visible' = OwnContent(t) /\ possible' = possible \cup {OwnContent(t)}
             /\ UNCHANGED foreign
    BY <2>1, <2>3, ShowStep, Zenon
  <2> QED
    BY <2>1, <2>2, <2>3, Zenon DEF RenameTo
<1>4. CASE Sync(t)
  <2>1. CASE UNCHANGED disk
    BY <1>4, <2>1, Zenon DEF Sync, history
  <2>2. CASE possible' = {visible} /\ foreign' = FALSE /\ UNCHANGED visible
    <3>1. visible'.gen = gen[t]
      BY <1>4, <2>2, Zenon DEF Sync, IInv, Disk
    <3> QED
      BY <1>4, <2>2, <3>1, SettleStep, Zenon DEF Sync, history, AttemptPcs
  <2> QED
    BY <1>4, <2>1, <2>2, Zenon DEF Sync
<1>5. CASE Finish(t)
  <2>1. CASE pc[t] = "durable"
    BY <1>5, <2>1, PromiseStep, Zenon DEF Finish
  <2>2. CASE pc[t] # "durable"
    BY <1>5, <2>2, Zenon DEF Finish
  <2> QED
    BY <2>1, <2>2, Zenon
<1> QED
  BY <1>1, <1>2, <1>3, <1>4, <1>5, Zenon DEF Step, Attempt

\* The coordinator, with its retries, its unlocked renames and its skips of
\* identical bytes, is a register that never loses what it promised.
THEOREM ImplementsRegister == Spec => RegisterSpec
<1>1. Init => Register!Init
  <2> SUFFICES ASSUME Init PROVE Register!Init
    BY Zenon
  <2>1. {c.gen : c \in possible} = {0} /\ visible.gen = 0
    BY DEF Init
  <2> QED
    BY <2>1, Zenon DEF Init, Register!Init
<1>2. ASSUME IInv, [Next]_vars PROVE [Register!Next]_(Register!vars)
  <2>1. ASSUME UNCHANGED <<disk, promised>> PROVE UNCHANGED Register!vars
    BY <2>1, Zenon DEF disk, Register!vars
  <2>2. ASSUME NEW t \in Tasks, Step(t) PROVE [Register!Next]_(Register!vars)
    BY <1>2, <2>1, <2>2, TaskImplements, Zenon
  <2>3. CASE ForgetDurableBytes \/ UNCHANGED vars
    BY <2>1, <2>3, Zenon DEF ForgetDurableBytes, vars, history, disk
  <2>4. CASE OutsideEdit
    <3>1. Gens' = Gens \cup {0} /\ visible'.gen = 0 /\ foreign' = TRUE /\ UNCHANGED promised
      BY <2>4 DEF OutsideEdit, Gens, history
    <3> QED
      BY <3>1, Zenon DEF Gens, Register!ForeignEdit, Register!Next
  <2>5. CASE Crash
    <3>1. PICK c \in possible : visible' = c /\ possible' = {c} /\ UNCHANGED <<promised, foreign>>
      BY <2>5, Zenon DEF Crash
    <3>2. c.gen \in Gens /\ visible'.gen = c.gen /\ Gens' = {c.gen}
      BY <3>1, Zenon DEF Gens
    <3> QED
      BY <3>1, <3>2, Zenon DEF Gens, Register!Crash, Register!Next
  <2> QED
    BY <1>2, <2>2, <2>3, <2>4, <2>5, Zenon DEF Next
<1> QED
  BY <1>1, <1>2, Invariance, PTL DEF Spec, RegisterSpec, Register!Spec

\* A reader never sees an older write after a newer one.
THEOREM ReadersMoveForward == Spec => FileMovesForward
<1>1. ASSUME IInv, [Next]_vars PROVE [OutsideEdit \/ Crash \/ visible'.gen >= visible.gen]_vars
  <2>1. visible.gen \in Int
    BY <1>1 DEF IInv, TypeOK, Contents, Generations
  <2>2. ASSUME visible' = visible PROVE visible'.gen >= visible.gen
    BY <2>1, <2>2
  <2>3. ASSUME NEW t \in Tasks, Step(t) PROVE visible'.gen >= visible.gen
    <3>1. CASE visible' = visible
      BY <2>2, <3>1, Zenon
    <3>2. CASE pc[t] \in AttemptPcs /\ visible' = OwnContent(t)
      BY <1>1, <2>1, <3>2, AttemptHasPayload, Zenon DEF IInv, Disk, TypeOK, OwnContent
    <3> QED
      BY <2>3, <3>1, <3>2, Zenon DEF Step, Attempt, Reserve, Discard, DropArmed, Begin, Wait,
         ReturnFailed, Admit, FlushKick, FlushTarget, FlushReturn, Pop, RetryOnce, Check, Verify,
         Stage, Replace, Rename, RenameTo, Sync, Finish, Schedule, disk, AttemptPcs
  <2>4. CASE ForgetDurableBytes \/ UNCHANGED vars
    BY <2>2, <2>4, Zenon DEF ForgetDurableBytes, vars, disk
  <2> QED
    BY <1>1, <2>3, <2>4, Zenon DEF Next
<1> QED
  BY <1>1, Invariance, PTL DEF FileMovesForward, Spec
=============================================================================
