---------------------------- MODULE SemanticLock ----------------------------
(***************************************************************************)
(* The semantic lock that keeps two sagas off one aggregate: the Redis     *)
(* store of infrastructure/saga/RedisSemanticLockStore.ts, asked by the    *)
(* saga engine before a locked step and told when the saga has ended.      *)
(*                                                                         *)
(* acquire is three Redis commands and releaseAllForSaga one command per   *)
(* key and two more; each is a step here, so that another saga, a lost     *)
(* connection, an expiry or a crash of the process can fall between any    *)
(* two.  Time is abstract: a key's or a holder set's TTL may run out at    *)
(* any moment once it is set.                                              *)
(***************************************************************************)
EXTENDS Naturals, FiniteSets

CONSTANTS
  Sagas,         \* sagas the process advances
  Keys,          \* lock keys: one per aggregate two sagas may meet on
  Free,          \* the value of a key nobody holds
  MaxFaults,     \* BOUNDS: lost connections to Redis and crashes of the process,
  MaxExpiries    \*   TTLs that run out

ASSUME FreeAssumption == Free \notin Sagas
ASSUME BoundsAssumption == {MaxFaults, MaxExpiries} \subseteq Nat

VARIABLES
  lock,      \* saga:semlock:<key>: the saga it names
  holderSet, \* saga:semlock:holder:<saga>: the keys recorded for it
  stamped,   \* the holder sets that have a TTL
  pc,        \* where each saga's pass is
  key,       \* the key each pass is asking for
  ended,     \* sagas whose row holds an ending
  ending,    \* where the release that follows an ending is
  held,      \* what SMEMBERS gave that release
  past,      \* keys whose locked step each saga was let past and still works behind
  lapsed,    \* keys whose lock ran out under a saga that had it
  raced,     \* GHOST: sagas that ended while their pass was taking a lock
  blockedBy, \* the holder that last refused each saga
  budget     \* what remains of each bound

redis   == <<lock, holderSet, stamped>>
pass    == <<pc, key>>
release == <<ending, held>>
ghost   == <<lapsed, raced, blockedBy>>
vars    == <<lock, holderSet, stamped, pc, key, ended, ending, held, past, lapsed, raced,
             blockedBy, budget>>

Label == {"rest", "ask", "track", "stamp", "work"}

\* The type invariant.
TypeOK ==
  /\ lock \in [Keys -> Sagas \cup {Free}]
  /\ holderSet \in [Sagas -> SUBSET Keys]
  /\ stamped \subseteq Sagas
  /\ pc \in [Sagas -> Label]
  /\ key \in [Sagas -> SUBSET Keys]
  /\ ended \subseteq Sagas
  /\ ending \in [Sagas -> {"no", "members", "release", "drop", "done"}]
  /\ held \in [Sagas -> SUBSET Keys]
  /\ past \in [Sagas -> SUBSET Keys]
  /\ lapsed \in [Sagas -> SUBSET Keys]
  /\ raced \subseteq Sagas
  /\ blockedBy \in [Sagas -> Sagas \cup {Free}]
  /\ budget \in [fault : Nat, expiry : Nat]

Init ==
  /\ lock = [k \in Keys |-> Free] /\ holderSet = [s \in Sagas |-> {}] /\ stamped = {}
  /\ pc = [s \in Sagas |-> "rest"] /\ key = [s \in Sagas |-> {}]
  /\ ended = {} /\ ending = [s \in Sagas |-> "no"] /\ held = [s \in Sagas |-> {}]
  /\ past = [s \in Sagas |-> {}] /\ lapsed = [s \in Sagas |-> {}] /\ raced = {}
  /\ blockedBy = [s \in Sagas |-> Free]
  /\ budget = [fault |-> MaxFaults, expiry |-> MaxExpiries]

Spend(what) == budget[what] > 0 /\ budget' = [budget EXCEPT ![what] = @ - 1]

-----------------------------------------------------------------------------
(* The pass.  It reads the row before each step and not again until the step is *)
(* over: a saga that is ended meanwhile goes through with it.                    *)

\* The pass gives the turn back: a saga that has ended is past nothing then.
Rests(s) ==
  /\ pc' = [pc EXCEPT ![s] = "rest"] /\ key' = [key EXCEPT ![s] = {}]
  /\ past' = IF s \in ended THEN [past EXCEPT ![s] = {}] ELSE past

\* A step with a lock, or one without.
BeginStep(s) ==
  /\ pc[s] = "rest" /\ s \notin ended
  /\ \/ \E k \in Keys : pc' = [pc EXCEPT ![s] = "ask"] /\ key' = [key EXCEPT ![s] = {k}]
     \/ pc' = [pc EXCEPT ![s] = "work"] /\ UNCHANGED key
  /\ UNCHANGED <<redis, ended, release, past, ghost, budget>>

\* The step has answered.  Over an ending the pass yields, and releases nothing.
EndStep(s) ==
  /\ pc[s] = "work" /\ Rests(s)
  /\ UNCHANGED <<redis, ended, release, ghost, budget>>

-----------------------------------------------------------------------------
(* acquire. *)

\* MUTANT of Grants: a plain SET, without NX.
GrantsAlways(holder) == holder \in Sagas \cup {Free}

\* SET NX takes a key that does not exist -- whoever holds the one that does.
Grants(holder) == holder = Free

\* SET key saga PX ttl NX.  A key already there refuses the step, which fails
\* and may be retried.
SetNX(s) ==
  /\ pc[s] = "ask"
  /\ \E k \in key[s] :
       \/ /\ Grants(lock[k])
          /\ lock' = [lock EXCEPT ![k] = s]
          /\ pc' = [pc EXCEPT ![s] = "track"]
          /\ lapsed' = [lapsed EXCEPT ![s] = @ \ {k}]
          /\ UNCHANGED <<key, past, blockedBy>>
       \/ /\ ~Grants(lock[k])
          /\ blockedBy' = [blockedBy EXCEPT ![s] = lock[k]]
          /\ Rests(s) /\ UNCHANGED <<lock, lapsed>>
  /\ UNCHANGED <<holderSet, stamped, ended, release, raced, budget>>

\* MUTANT of Recorded: SET instead of SADD, which keeps the last key only.
RecordedLast(s) == key[s]

\* What the holder set is once the key asked for is added.
Recorded(s) == holderSet[s] \cup key[s]

\* SADD holder-set key.
Track(s) ==
  /\ pc[s] = "track"
  /\ holderSet' = [holderSet EXCEPT ![s] = Recorded(s)]
  /\ pc' = [pc EXCEPT ![s] = "stamp"]
  /\ UNCHANGED <<lock, stamped, key, ended, release, past, ghost, budget>>

\* PEXPIRE holder-set; acquire answers true and the step goes past the lock.
Stamp(s) ==
  /\ pc[s] = "stamp"
  /\ stamped' = IF holderSet[s] = {} THEN stamped ELSE stamped \cup {s}
  /\ past' = [past EXCEPT ![s] = @ \cup key[s]]
  /\ pc' = [pc EXCEPT ![s] = "work"]
  /\ key' = [key EXCEPT ![s] = {}]
  /\ UNCHANGED <<lock, holderSet, ended, release, ghost, budget>>

\* A lost connection before or between the commands answers CONNECTION_ERROR: the
\* step fails, and what the earlier commands did stays.
AcquireError(s) ==
  /\ pc[s] \in {"ask", "track", "stamp"} /\ Spend("fault")
  /\ Rests(s)
  /\ UNCHANGED <<redis, ended, release, ghost>>

-----------------------------------------------------------------------------
(* releaseAllForSaga, once the saga's ending is durable. *)

\* completeSaga, failSaga or the walk ends the saga: its own pass between two
\* steps, or the timeout checker wherever that pass is.
End(s) ==
  /\ s \notin ended /\ ended' = ended \cup {s}
  /\ ending' = [ending EXCEPT ![s] = "members"]
  /\ past' = IF pc[s] = "rest" THEN [past EXCEPT ![s] = {}] ELSE past
  /\ raced' = IF pc[s] \in {"ask", "track"} THEN raced \cup {s} ELSE raced
  /\ UNCHANGED <<redis, pass, held, lapsed, blockedBy, budget>>

\* SMEMBERS holder-set.
Members(s) ==
  /\ ending[s] = "members"
  /\ held' = [held EXCEPT ![s] = holderSet[s]]
  /\ ending' = [ending EXCEPT ![s] = IF holderSet[s] = {} THEN "done" ELSE "release"]
  /\ UNCHANGED <<redis, pass, ended, past, ghost, budget>>

\* MUTANT of MayDelete: DEL without asking whose lock it is by now.
MayDeleteAny(s, holder) == {s, holder} \subseteq Sagas \cup {Free}

\* The release script deletes the key only while its value is the saga's.
MayDelete(s, holder) == holder = s

Release(s) ==
  /\ ending[s] = "release"
  /\ \E k \in held[s] :
       /\ lock' = IF MayDelete(s, lock[k]) THEN [lock EXCEPT ![k] = Free] ELSE lock
       /\ held' = [held EXCEPT ![s] = @ \ {k}]
       /\ ending' = [ending EXCEPT ![s] = IF held[s] = {k} THEN "drop" ELSE "release"]
  /\ UNCHANGED <<holderSet, stamped, pass, ended, past, ghost, budget>>

\* DEL holder-set.
Drop(s) ==
  /\ ending[s] = "drop"
  /\ holderSet' = [holderSet EXCEPT ![s] = {}]
  /\ stamped' = stamped \ {s}
  /\ ending' = [ending EXCEPT ![s] = "done"]
  /\ UNCHANGED <<lock, pass, ended, held, past, ghost, budget>>

\* A cleanup that fails is only logged.
ReleaseError(s) ==
  /\ ending[s] \in {"members", "release", "drop"} /\ Spend("fault")
  /\ ending' = [ending EXCEPT ![s] = "done"]
  /\ held' = [held EXCEPT ![s] = {}]
  /\ UNCHANGED <<redis, pass, ended, past, ghost>>

-----------------------------------------------------------------------------
(* What happens to all of them. *)

\* The process dies: a saga that had not ended is resumed from its row, one that
\* had is not looked at again.
Crash ==
  /\ Spend("fault")
  /\ pc' = [s \in Sagas |-> "rest"] /\ key' = [s \in Sagas |-> {}]
  /\ past' = [s \in Sagas |-> IF s \in ended THEN {} ELSE past[s]]
  /\ ending' = [s \in Sagas |-> IF s \in ended THEN "done" ELSE "no"]
  /\ held' = [s \in Sagas |-> {}]
  /\ UNCHANGED <<redis, ended, ghost>>

\* A lock's TTL runs out.
LockExpires(k) ==
  /\ lock[k] # Free /\ Spend("expiry")
  /\ lock' = [lock EXCEPT ![k] = Free]
  /\ lapsed' = [lapsed EXCEPT ![lock[k]] = @ \cup {k}]
  /\ UNCHANGED <<holderSet, stamped, pass, ended, release, past, raced, blockedBy>>

\* A holder set's TTL runs out.
SetExpires(s) ==
  /\ s \in stamped /\ Spend("expiry")
  /\ holderSet' = [holderSet EXCEPT ![s] = {}]
  /\ stamped' = stamped \ {s}
  /\ UNCHANGED <<lock, pass, ended, release, past, ghost>>

Next ==
  \/ \E s \in Sagas :
       \/ BeginStep(s) \/ EndStep(s)
       \/ SetNX(s) \/ Track(s) \/ Stamp(s) \/ AcquireError(s)
       \/ End(s) \/ Members(s) \/ Release(s) \/ Drop(s) \/ ReleaseError(s)
       \/ SetExpires(s)
  \/ \E k \in Keys : LockExpires(k)
  \/ Crash

Spec == Init /\ [][Next]_vars

-----------------------------------------------------------------------------
(* Properties. *)

\* Two sagas are never both past the locked step of one aggregate, unless a TTL
\* ran out under one of them or one has ended and its pass has yet to notice:
\* through lost connections, crashes and releases of locks that were lost and
\* taken by another (the NX of acquire, the gate of RELEASE_SCRIPT).
MutualExclusion ==
  \A s, t \in Sagas \ ended : s # t =>
    \A k \in past[s] \cap past[t] : k \in lapsed[s] \cup lapsed[t]

\* The same of sagas that have ended too: "two concurrent sagas cannot progress
\* past the locked step on the same aggregate".  The code breaks it: the timeout
\* checker releases the locks of a saga whose pass is still inside a step.
NoTwoAtWork ==
  \A s, t \in Sagas : s # t =>
    \A k \in past[s] \cap past[t] : k \in lapsed[s] \cup lapsed[t]

\* A lock leaves its holder only by that saga's own release or by its TTL
\* (RELEASE_SCRIPT: an expired lock that another saga reacquired is not stomped on).
OnlyTheHolderReleases ==
  [][\A k \in Keys, s \in Sagas :
       lock[k] = s /\ lock'[k] # s => ending[s] = "release" \/ k \in lapsed'[s]]_vars

\* A saga whose ending has been cleaned up after holds no lock, where no connection,
\* process or TTL failed it on the way and its pass was not just taking one: a lock
\* taken beside the release, and recorded after its SMEMBERS, stays until its TTL.
Undisturbed == budget = [fault |-> MaxFaults, expiry |-> MaxExpiries]
EndedHoldsNothing ==
  Undisturbed => \A s \in Sagas \ raced, k \in Keys : ending[s] = "done" => lock[k] # s

\* Only another saga's lock refuses a step: "ok(false) when the lock is already held
\* by a different sagaId".  The code breaks it: acquire does not compare, and the
\* retry of a locked step is refused by what its first attempt took.
RefusedByAnother == \A s \in Sagas : blockedBy[s] # s

=============================================================================
