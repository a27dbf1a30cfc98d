------------------------ MODULE SemanticLock_proofs ------------------------
(* Why two sagas are never past one lock: a saga that has not ended and is   *)
(* past a lock, or is being granted it, and whose TTL has not run out, is    *)
(* the one the key names.                                                    *)
EXTENDS SemanticLock, TLAPS

\* The key of a lock that has not lapsed names the saga that is past it.
Granted(s) == IF pc[s] \in {"track", "stamp"} THEN key[s] ELSE {}
Named ==
  \A s \in Sagas \ ended : \A k \in (past[s] \cup Granted(s)) \ lapsed[s] : lock[k] = s

\* A release is only ever of a saga that has ended, and a pass asks for one key.
Orderly ==
  \A s \in Sagas :
    (ending[s] # "no" => s \in ended) /\ (\A j, k \in key[s] : j = k)

IInv == TypeOK /\ Named /\ Orderly

USE FreeAssumption, BoundsAssumption DEF Grants, MayDelete, Recorded, Spend

\* The strengthened invariant holds at the start.
LEMMA InitIInv == Init => IInv
  BY DEF Init, IInv, TypeOK, Named, Granted, Orderly, Label

\* Every step preserves it.
LEMMA NextIInv == IInv /\ [Next]_vars => IInv'
<1> SUFFICES ASSUME IInv, [Next]_vars PROVE IInv'
  OBVIOUS
<1> USE DEF IInv, TypeOK, Label, Rests, redis, pass, release, ghost
<1>1. ASSUME NEW s \in Sagas, SetNX(s) PROVE IInv'
  <2> PICK k \in key[s] :
        \/ /\ Grants(lock[k])
           /\ lock' = [lock EXCEPT ![k] = s]
           /\ pc' = [pc EXCEPT ![s] = "track"]
           /\ lapsed' = [lapsed EXCEPT ![s] = @ \ {k}]
           /\ UNCHANGED <<key, past, blockedBy>>
        \/ /\ ~Grants(lock[k])
           /\ blockedBy' = [blockedBy EXCEPT ![s] = lock[k]]
           /\ Rests(s) /\ UNCHANGED <<lock, lapsed>>
    BY <1>1 DEF SetNX
  <2>1. k \in Keys /\ key[s] = {k}
    BY DEF Orderly
  <2>2. CASE /\ Grants(lock[k])
             /\ lock' = [lock EXCEPT ![k] = s]
             /\ pc' = [pc EXCEPT ![s] = "track"]
             /\ lapsed' = [lapsed EXCEPT ![s] = @ \ {k}]
             /\ UNCHANGED <<key, past, blockedBy>>
    <3>1. TypeOK' /\ Orderly'
      BY <1>1, <2>1, <2>2 DEF SetNX, Orderly
    <3>2. Named'
      BY <1>1, <2>1, <2>2 DEF SetNX, Named, Granted
    <3> QED
      BY <3>1, <3>2
  <2>3. CASE /\ ~Grants(lock[k])
             /\ blockedBy' = [blockedBy EXCEPT ![s] = lock[k]]
             /\ Rests(s) /\ UNCHANGED <<lock, lapsed>>
    <3>1. TypeOK' /\ Orderly'
      BY <1>1, <2>1, <2>3 DEF SetNX, Orderly
    <3>2. Named'
      BY <1>1, <2>1, <2>3 DEF SetNX, Named, Granted
    <3> QED
      BY <3>1, <3>2
  <2> QED
    BY <2>2, <2>3
<1>2. ASSUME NEW s \in Sagas, BeginStep(s) \/ EndStep(s) \/ Track(s) \/ AcquireError(s)
      PROVE  IInv'
  <2>1. CASE BeginStep(s)
    BY <2>1 DEF BeginStep, Named, Granted, Orderly
  <2>2. CASE EndStep(s)
    BY <2>2 DEF EndStep, Named, Granted, Orderly
  <2>3. CASE Track(s)
    BY <2>3 DEF Track, Named, Granted, Orderly
  <2>4. CASE AcquireError(s)
    BY <2>4 DEF AcquireError, Named, Granted, Orderly
  <2> QED
    BY <1>2, <2>1, <2>2, <2>3, <2>4
<1>3. ASSUME NEW s \in Sagas, Stamp(s) PROVE IInv'
  BY <1>3 DEF Stamp, Named, Granted, Orderly
<1>4. ASSUME NEW s \in Sagas, End(s) PROVE IInv'
  BY <1>4 DEF End, Named, Granted, Orderly
<1>5. ASSUME NEW s \in Sagas, Members(s) \/ Drop(s) \/ ReleaseError(s) PROVE IInv'
  BY <1>5 DEF Members, Drop, ReleaseError, Named, Granted, Orderly
<1>6. ASSUME NEW s \in Sagas, Release(s) PROVE IInv'
  <2>1. s \in ended
    BY <1>6 DEF Release, Orderly
  <2>2. PICK k \in held[s] :
          /\ lock' = IF MayDelete(s, lock[k]) THEN [lock EXCEPT ![k] = Free] ELSE lock
          /\ held' = [held EXCEPT ![s] = @ \ {k}]
          /\ ending' = [ending EXCEPT ![s] = IF held[s] = {k} THEN "drop" ELSE "release"]
    BY <1>6 DEF Release
  <2>3. TypeOK' /\ Orderly'
    BY <1>6, <2>1, <2>2 DEF Release, Orderly
  <2>4. Named'
    BY <1>6, <2>1, <2>2 DEF Release, Named, Granted
  <2> QED
    BY <2>3, <2>4
<1>7. ASSUME NEW s \in Sagas, SetExpires(s) PROVE IInv'
  BY <1>7 DEF SetExpires, Named, Granted, Orderly
<1>8. ASSUME NEW k \in Keys, LockExpires(k) PROVE IInv'
  BY <1>8 DEF LockExpires, Named, Granted, Orderly
<1>9. CASE Crash
  BY <1>9 DEF Crash, Named, Granted, Orderly
<1>10. CASE UNCHANGED vars
  BY <1>10 DEF vars, Named, Granted, Orderly
<1> QED
  BY <1>1, <1>2, <1>3, <1>4, <1>5, <1>6, <1>7, <1>8, <1>9, <1>10 DEF Next

\* The type invariant holds of every behaviour.
THEOREM TypeCorrect == Spec => []TypeOK
<1>1. IInv => TypeOK
  BY DEF IInv
<1> QED
  BY <1>1, InitIInv, NextIInv, PTL DEF Spec

\* Two sagas that have not ended are never both past the locked step of one
\* aggregate, unless a TTL ran out under one of them -- whatever is lost, whenever
\* the process dies, and wherever a pass is when a saga is ended.
THEOREM Exclusion == Spec => []MutualExclusion
<1>1. IInv => MutualExclusion
  BY DEF IInv, Named, MutualExclusion
<1> QED
  BY <1>1, InitIInv, NextIInv, PTL DEF Spec

\* A lock leaves its holder only by that saga's own release or by its TTL.
THEOREM HoldersRelease == Spec => OnlyTheHolderReleases
<1> DEFINE Step == \A k \in Keys, s \in Sagas :
                     lock[k] = s /\ lock'[k] # s =>
                       ending[s] = "release" \/ k \in lapsed'[s]
<1>1. IInv /\ [Next]_vars => [Step]_vars
  <2> SUFFICES ASSUME IInv, Next PROVE Step
    BY DEF vars
  <2> USE DEF IInv, TypeOK
  <2>1. ASSUME NEW s \in Sagas, SetNX(s) PROVE Step
    BY <2>1 DEF SetNX
  <2>2. ASSUME NEW s \in Sagas, Release(s) PROVE Step
    BY <2>2 DEF Release
  <2>3. ASSUME NEW k \in Keys, LockExpires(k) PROVE Step
    BY <2>3 DEF LockExpires
  <2>4. ASSUME UNCHANGED lock PROVE Step
    BY <2>4
  <2> QED
    BY <2>1, <2>2, <2>3, <2>4
       DEF Next, BeginStep, EndStep, Track, Stamp, AcquireError, End, Members, Drop,
           ReleaseError, SetExpires, Crash, redis
<1> QED
  BY <1>1, InitIInv, NextIInv, PTL DEF Spec, OnlyTheHolderReleases

-----------------------------------------------------------------------------
(* Nothing is left locked. *)

\* No bound is ever refilled, so what was spent shows.
Budgeted == budget.fault <= MaxFaults /\ budget.expiry <= MaxExpiries

\* Where to find the locks a saga holds: under its key while it acquires and in its
\* holder set, and once it has ended in what its release has yet to delete.
Listed(s) ==
  CASE ending[s] = "no"      -> holderSet[s] \cup (IF pc[s] = "track" THEN key[s] ELSE {})
    [] ending[s] = "members" -> holderSet[s]
    [] ending[s] = "release" -> held[s]
    [] OTHER                 -> {}

Findable ==
  Undisturbed => \A s \in Sagas \ raced, k \in Keys : lock[k] = s => k \in Listed(s)

\* A saga that has ended takes no lock, unless it was taking one when it ended.
NoneTaken ==
  \A s \in Sagas \ raced :
    (s \in ended <=> ending[s] # "no") /\ (s \in ended => pc[s] \notin {"ask", "track"})

LInv == IInv /\ Budgeted /\ (Undisturbed => NoneTaken) /\ Findable

\* Whatever spends a bound ends the undisturbed part for good.
LEMMA Spent ==
  ASSUME TypeOK, Budgeted, NEW what \in {"fault", "expiry"}, Spend(what)
  PROVE  Budgeted' /\ ~Undisturbed'
<1>1. budget.fault \in Nat /\ budget.expiry \in Nat
  BY DEF TypeOK
<1>2. CASE what = "fault"
  <2>1. budget'.fault = budget.fault - 1 /\ budget'.expiry = budget.expiry
    BY <1>2 DEF TypeOK
  <2> QED
    BY <1>1, <1>2, <2>1 DEF Budgeted, Undisturbed
<1>3. CASE what = "expiry"
  <2>1. budget'.fault = budget.fault /\ budget'.expiry = budget.expiry - 1
    BY <1>3 DEF TypeOK
  <2> QED
    BY <1>1, <1>3, <2>1 DEF Budgeted, Undisturbed
<1> QED
  BY <1>2, <1>3

\* Nobody holds a lock at the start.
LEMMA InitLInv == Init => LInv
<1> SUFFICES ASSUME Init PROVE LInv
  OBVIOUS
<1>1. IInv
  BY InitIInv
<1>2. Budgeted /\ NoneTaken /\ Findable
  BY DEF Init, Budgeted, NoneTaken, Findable
<1> QED
  BY <1>1, <1>2 DEF LInv

\* A step of one saga, without a fault, which leaves the other sagas their locks
\* and gives them none: its own are what is left to find.
LEMMA StepFindable ==
  ASSUME LInv, IInv', UNCHANGED budget, NEW s \in Sagas,
         raced \subseteq raced',
         \A o \in Sagas \ {s} :
           /\ pc'[o] = pc[o] /\ key'[o] = key[o] /\ held'[o] = held[o]
           /\ ending'[o] = ending[o] /\ holderSet'[o] = holderSet[o]
           /\ o \in ended' <=> o \in ended
           /\ \A k \in Keys : lock'[k] = o => lock[k] = o,
         Undisturbed /\ s \notin raced' =>
           /\ s \in ended' <=> ending'[s] # "no"
           /\ s \in ended' => pc'[s] \notin {"ask", "track"}
           /\ \A k \in Keys : lock'[k] = s => k \in Listed(s)'
  PROVE  LInv'
<1>1. \A o \in Sagas \ {s} : Listed(o)' = Listed(o)
  BY DEF Listed
<1>2. Budgeted'
  BY DEF LInv, Budgeted
<1>3. Undisturbed' <=> Undisturbed
  BY DEF Undisturbed
<1>4. Undisturbed => NoneTaken'
  BY DEF LInv, NoneTaken
<1>5. Findable'
  BY <1>1, <1>3 DEF LInv, Findable
<1> QED
  BY <1>2, <1>3, <1>4, <1>5 DEF LInv

\* Every step leaves an undisturbed saga's locks where it will find them.
LEMMA NextLInv == LInv /\ [Next]_vars => LInv'
<1> SUFFICES ASSUME LInv, [Next]_vars PROVE LInv'
  OBVIOUS
<1>1. IInv /\ IInv' /\ Budgeted /\ Findable /\ TypeOK /\ (Undisturbed => NoneTaken)
  BY NextIInv DEF LInv, IInv
<1> USE DEF Rests, redis, pass, release, ghost
<1>2. ASSUME NEW s \in Sagas, SetNX(s) PROVE LInv'
  BY <1>1, <1>2, StepFindable DEF SetNX, TypeOK, Findable, Listed, NoneTaken
<1>3. ASSUME NEW s \in Sagas, BeginStep(s) \/ EndStep(s) PROVE LInv'
  BY <1>1, <1>3, StepFindable DEF BeginStep, EndStep, TypeOK, Findable, Listed, NoneTaken
<1>4. ASSUME NEW s \in Sagas, Track(s) PROVE LInv'
  BY <1>1, <1>4, StepFindable DEF Track, TypeOK, Findable, Listed, NoneTaken
<1>5. ASSUME NEW s \in Sagas, Stamp(s) PROVE LInv'
  BY <1>1, <1>5, StepFindable DEF Stamp, TypeOK, Findable, Listed, NoneTaken
<1>6. ASSUME NEW s \in Sagas, End(s) PROVE LInv'
  BY <1>1, <1>6, StepFindable DEF End, TypeOK, Findable, Listed, NoneTaken
<1>7. ASSUME NEW s \in Sagas, Members(s) PROVE LInv'
  BY <1>1, <1>7, StepFindable DEF Members, TypeOK, Findable, Listed, NoneTaken
<1>8. ASSUME NEW s \in Sagas, Release(s) PROVE LInv'
  <2>1. PICK k \in held[s] :
          /\ lock' = IF MayDelete(s, lock[k]) THEN [lock EXCEPT ![k] = Free] ELSE lock
          /\ held' = [held EXCEPT ![s] = @ \ {k}]
          /\ ending' = [ending EXCEPT ![s] = IF held[s] = {k} THEN "drop" ELSE "release"]
    BY <1>8 DEF Release
  <2>2. k \in Keys /\ lock'[k] # s
    BY <1>1, <2>1 DEF TypeOK
  <2>3. \A j \in Keys : lock'[j] \in Sagas => lock'[j] = lock[j]
    BY <1>1, <2>1 DEF TypeOK
  <2>4. Undisturbed /\ s \notin raced => \A j \in Keys : lock'[j] = s => j \in held[s] \ {k}
    BY <1>1, <1>8, <2>2, <2>3 DEF Release, Findable, Listed
  <2>5. Undisturbed /\ s \notin raced => \A j \in Keys : lock'[j] = s => j \in Listed(s)'
    BY <1>1, <2>1, <2>4 DEF Listed, TypeOK
  <2> QED
    BY <1>1, <1>8, <2>1, <2>3, <2>5, StepFindable DEF Release, TypeOK, NoneTaken
<1>9. ASSUME NEW s \in Sagas, Drop(s) PROVE LInv'
  BY <1>1, <1>9, StepFindable DEF Drop, TypeOK, Findable, Listed, NoneTaken
<1>10. ASSUME NEW what \in {"fault", "expiry"}, Spend(what) PROVE LInv'
  <2>1. Budgeted' /\ ~Undisturbed'
    BY <1>1, <1>10, Spent
  <2> QED
    BY <1>1, <2>1 DEF LInv, Findable
<1>11. CASE UNCHANGED vars
  <2>1. Budgeted' /\ (Undisturbed' <=> Undisturbed)
    BY <1>1, <1>11 DEF vars, Budgeted, Undisturbed
  <2>2. Findable' /\ (Undisturbed => NoneTaken')
    BY <1>1, <1>11, <2>1 DEF vars, Findable, Listed, NoneTaken
  <2> QED
    BY <1>1, <2>1, <2>2 DEF LInv
<1> QED
  BY <1>2, <1>3, <1>4, <1>5, <1>6, <1>7, <1>8, <1>9, <1>10, <1>11
     DEF Next, AcquireError, ReleaseError, SetExpires, LockExpires, Crash

\* A saga whose ending has been cleaned up after holds no lock, where no connection,
\* process or TTL has failed it on the way and its pass was not taking one when it
\* ended: the timeout checker may end it anywhere else.
THEOREM NothingLeftLocked == Spec => []EndedHoldsNothing
<1>1. LInv => EndedHoldsNothing
  BY DEF LInv, Findable, Listed, EndedHoldsNothing
<1> QED
  BY <1>1, InitLInv, NextLInv, PTL DEF Spec
=============================================================================
