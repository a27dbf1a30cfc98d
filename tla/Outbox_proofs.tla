--------------------------- MODULE Outbox_proofs ---------------------------
(* Theorems about the outbox.  The argument: as long as no lease, crash or    *)
(* failed mark has touched an event, one relay at most has it in hand, under  *)
(* a live claim, and the event is open until that relay's mark or archive.    *)
(* As long as no lease has run out under a relay at work on it, the exclusion *)
(* holds through crashes and failed marks too, and the retry count the relay  *)
(* was given is the row's.                                                    *)
EXTENDS Outbox, TLAPS

\* A relay's own bookkeeping.
PollerOK ==
  \A r \in Relays :
    /\ pc[r] = "idle" => batch[r] = {}
    /\ pc[r] \in {"mark", "failed"} => cur[r] \in batch[r]
    /\ pc[r] = "mark" => seen[cur[r]] > 0
    /\ \A e \in batch[r] : state[e] # "none"

\* What one row says.
RowOK ==
  \A e \in Ids :
    /\ state[e] = "none" => seen[e] = 0
    /\ dead[e] # "no" => state[e] \in {"published", "gone"}

\* An event nothing has happened to has one relay at most, and is delivered
\* only when it is published or that relay is about to publish it.
Untouched(e) ==
  /\ \A r, s \in Relays : e \in batch[r] /\ e \in batch[s] => r = s
  /\ \A r \in Relays : e \in batch[r] => state[e] = "open" /\ claim[e] = "live"
  /\ seen[e] # 2
  /\ seen[e] = 1 => \/ state[e] \in {"published", "gone"} /\ dead[e] = "no"
                    \/ \E r \in Relays : pc[r] = "mark" /\ cur[r] = e

UntouchedOK == \A e \in Ids \ excuse : Untouched(e)

IInv == TypeOK /\ PollerOK /\ RowOK /\ UntouchedOK

USE NoneAssumption, RetryAssumption, BoundsAssumption

LEMMA InitIInv == Init => IInv
  BY DEF Init, IInv, TypeOK, PollerOK, RowOK, UntouchedOK, Untouched

\* The bounds stay numbers.
BudgetOK == budget \in [db : Nat, crash : Nat, lapse : Nat, redrive : Nat]

LEMMA Spending ==
  ASSUME BudgetOK, \/ UNCHANGED budget
                   \/ Spend("db") \/ Spend("crash") \/ Spend("lapse") \/ Spend("redrive")
  PROVE  BudgetOK'
  BY DEF BudgetOK, Spend

\* Steps that touch no relay's hands.
LEMMA RowSteps ==
  ASSUME IInv, NEW e \in Ids,
         Write(e) \/ Resolve(e) \/ Clean(e) \/ Due(e) \/ (\E new \in Ids : Redrive(e, new))
  PROVE  IInv'
<1> USE DEF IInv
<1>1. CASE Write(e)
  BY <1>1 DEF Write, poller, TypeOK, PollerOK, RowOK, UntouchedOK, Untouched
<1>2. CASE Resolve(e)
  BY <1>2 DEF Resolve, poller, TypeOK, PollerOK, RowOK, UntouchedOK, Untouched
<1>3. CASE Clean(e)
  BY <1>3 DEF Clean, MayDelete, poller, TypeOK, PollerOK, RowOK, UntouchedOK, Untouched
<1>4. CASE Due(e)
  BY <1>4 DEF Due, poller, TypeOK, PollerOK, RowOK, UntouchedOK, Untouched
<1>5. ASSUME NEW new \in Ids, Redrive(e, new) PROVE IInv'
  <2>1. TypeOK'
    BY <1>5 DEF Redrive, Spend, poller, TypeOK
  <2>2. PollerOK' /\ RowOK' /\ UntouchedOK'
    BY <1>5 DEF Redrive, poller, TypeOK, PollerOK, RowOK, UntouchedOK, Untouched
  <2> QED
    BY <2>1, <2>2
<1> QED
  BY <1>1, <1>2, <1>3, <1>4, <1>5

\* A claim takes only rows nobody has in hand.
LEMMA PollStep == ASSUME IInv, NEW r \in Relays, Poll(r) PROVE IInv'
<1> USE DEF IInv
<1>1. PICK taken \in SUBSET {e \in Ids : Eligible(e)} :
        /\ taken # {}
        /\ claim' = [e \in Ids |-> IF e \in taken THEN "live" ELSE claim[e]]
        /\ batch' = [batch EXCEPT ![r] = taken]
        /\ snap' = [snap EXCEPT ![r] = [e \in Ids |-> IF e \in taken THEN retry[e] ELSE 0]]
  BY DEF Poll
<1>2. \A e \in taken : state[e] = "open" /\ claim[e] # "live"
  BY <1>1 DEF Eligible, Unclaimed
<1>3. TypeOK'
  BY <1>1 DEF Poll, TypeOK
<1>4. PollerOK' /\ RowOK'
  BY <1>1, <1>2 DEF Poll, TypeOK, PollerOK, RowOK
<1>5. UntouchedOK'
  <2> SUFFICES ASSUME NEW e \in Ids \ excuse PROVE Untouched(e)'
    BY DEF Poll, UntouchedOK
  <2>1. Untouched(e) /\ batch[r] = {}
    BY DEF UntouchedOK, PollerOK, Poll
  <2>2. e \in taken => \A s \in Relays : e \notin batch[s]
    BY <1>2, <2>1 DEF Untouched
  <2>3. \A s \in Relays : e \in batch'[s] => e \in batch[s] \/ (s = r /\ e \in taken)
    BY <1>1, <2>1 DEF TypeOK
  <2>4. \A s \in Relays : e \in batch'[s] => state'[e] = "open" /\ claim'[e] = "live"
    BY <1>1, <1>2, <2>1, <2>3 DEF Untouched, Poll, TypeOK
  <2>5. \A s, t \in Relays : e \in batch'[s] /\ e \in batch'[t] => s = t
    BY <2>1, <2>2, <2>3 DEF Untouched
  <2> QED
    BY <2>1, <2>4, <2>5 DEF Untouched, Poll, TypeOK
<1> QED
  BY <1>3, <1>4, <1>5

\* A lease that runs out under a relay touches the event; any other does not.
LEMMA LeaseStep == ASSUME IInv, NEW e \in Ids, LeaseRunsOut(e) PROVE IInv'
<1> USE DEF IInv
<1>0. BudgetOK'
  BY Spending DEF LeaseRunsOut, TypeOK, BudgetOK
<1>1. TypeOK'
  <2>1. lapsed' \subseteq Ids
    BY DEF LeaseRunsOut, TypeOK
  <2>2. claim' \in [Ids -> {"none", "live", "expired"}] /\ excuse' \subseteq Ids
    BY DEF LeaseRunsOut, TypeOK
  <2> QED
    BY <1>0, <2>1, <2>2 DEF LeaseRunsOut, TypeOK, BudgetOK
<1>2. PollerOK' /\ RowOK'
  BY DEF LeaseRunsOut, TypeOK, PollerOK, RowOK
<1>3. UntouchedOK'
  BY DEF LeaseRunsOut, TypeOK, UntouchedOK, Untouched
<1> QED
  BY <1>1, <1>2, <1>3

\* A dispatch of an untouched event is its first.
LEMMA DispatchStep == ASSUME IInv, NEW r \in Relays, Dispatch(r) PROVE IInv'
<1> USE DEF IInv
<1>1. PICK e \in batch[r] :
        /\ cur' = [cur EXCEPT ![r] = e]
        /\ \/ /\ seen' = [seen EXCEPT ![e] = Resolved(e)]
              /\ pc' = [pc EXCEPT ![r] = "mark"]
           \/ /\ pc' = [pc EXCEPT ![r] = "failed"]
              /\ UNCHANGED seen
  BY DEF Dispatch
<1>2. e \in Ids /\ Resolved(e) \in {1, 2}
  BY DEF TypeOK, Resolved
<1>3. TypeOK'
  <2>1. seen' \in [Ids -> 0..2]
    <3>1. Resolved(e) \in 0..2 /\ seen \in [Ids -> 0..2]
      BY <1>2 DEF TypeOK
    <3>2. seen' = [seen EXCEPT ![e] = Resolved(e)] \/ seen' = seen
      BY <1>1
    <3> QED
      BY <3>1, <3>2
  <2>2. cur' \in [Relays -> Ids \cup {None}]
    BY <1>1, <1>2 DEF TypeOK
  <2>3. pc' = [pc EXCEPT ![r] = "mark"] \/ pc' = [pc EXCEPT ![r] = "failed"]
    BY <1>1
  <2>4. pc' \in [Relays -> {"idle", "next", "mark", "failed"}]
    BY <2>3 DEF TypeOK
  <2> QED
    BY <2>1, <2>2, <2>4 DEF Dispatch, rows, TypeOK
<1>4. PollerOK' /\ RowOK'
  BY <1>1, <1>2 DEF Dispatch, rows, TypeOK, PollerOK, RowOK
<1>5. UntouchedOK'
  <2> SUFFICES ASSUME NEW f \in Ids \ excuse PROVE Untouched(f)'
    BY DEF Dispatch, UntouchedOK
  <2>1. Untouched(f) /\ pc[r] = "next"
    BY DEF UntouchedOK, Dispatch
  <2>2. CASE f = e
    <3>1. seen[e] = 0
      BY <2>1, <2>2, <1>2 DEF Untouched, PollerOK, TypeOK
    <3>2. seen'[e] \in {0, 1} /\ (seen'[e] = 1 => pc'[r] = "mark" /\ cur'[r] = e)
      BY <1>1, <1>2, <3>1 DEF Resolved, TypeOK
    <3> QED
      BY <2>1, <2>2, <3>2 DEF Untouched, Dispatch, rows
  <2>3. CASE f # e
    <3>1. seen'[f] = seen[f]
      BY <1>1, <2>3 DEF TypeOK
    <3>2. \A s \in Relays : pc[s] = "mark" => pc'[s] = "mark" /\ cur'[s] = cur[s]
      BY <1>1, <2>1 DEF TypeOK
    <3> QED
      BY <2>1, <3>1, <3>2 DEF Untouched, Dispatch, rows
  <2> QED
    BY <2>2, <2>3
<1> QED
  BY <1>3, <1>4, <1>5

\* What a relay that lets go of rows leaves behind, however it does.
LetGo(r) ==
  /\ batch' \in [Relays -> SUBSET Ids] /\ pc' \in [Relays -> {"idle", "next", "mark", "failed"}]
  /\ \A s \in Relays \ {r} : batch'[s] = batch[s] /\ pc'[s] = pc[s] /\ cur'[s] = cur[s]
  /\ batch'[r] \subseteq batch[r] \ {cur[r]}
  /\ cur' \in [Relays -> Ids \cup {None}]
  /\ pc'[r] \in {"idle", "next"}
  /\ pc'[r] = "idle" => batch'[r] = {}
  /\ UNCHANGED snap

LEMMA Leaving ==
  ASSUME TypeOK, NEW r \in Relays, Finished(r) \/ (Aborted(r) /\ cur[r] \in Ids \cup {None})
  PROVE  LetGo(r)
<1>1. CASE Finished(r)
  BY <1>1 DEF TypeOK, Finished, LetGo
<1>2. CASE Aborted(r)
  BY <1>2 DEF TypeOK, Aborted, LetGo
<1> QED
  BY <1>1, <1>2

\* The end of a row: the one mark of an untouched event, its release, its
\* archive, or a crash.
LEMMA MarkStep == ASSUME IInv, NEW r \in Relays, Mark(r) PROVE IInv'
<1> USE DEF IInv
<1> DEFINE e == cur[r]
<1>0. e \in batch[r] /\ e \in Ids /\ seen[e] > 0
  BY DEF Mark, PollerOK, TypeOK
<1>1. CASE state[e] = "gone"
  <2>1. e \in excuse
    BY <1>0, <1>1 DEF UntouchedOK, Untouched
  <2>2. /\ pc' = [pc EXCEPT ![r] = "failed"]
        /\ UNCHANGED <<state, retry, waiting, claim, batch, snap, cur>>
        /\ UNCHANGED <<dead, seen, lapsed, excuse, budget>>
    BY <1>1 DEF Mark
  <2>3. TypeOK' /\ PollerOK' /\ RowOK'
    BY <1>0, <2>2 DEF TypeOK, PollerOK, RowOK
  <2>4. UntouchedOK'
    <3> SUFFICES ASSUME NEW f \in Ids \ excuse PROVE Untouched(f)'
      BY <2>2 DEF UntouchedOK
    <3>1. \A s \in Relays : pc[s] = "mark" /\ cur[s] = f => pc'[s] = "mark"
      BY <2>1, <2>2 DEF TypeOK
    <3> QED
      BY <2>2, <3>1 DEF UntouchedOK, Untouched
  <2> QED
    BY <2>3, <2>4
<1>2. CASE state[e] # "gone"
  <2>1. LetGo(r) /\ Publish(e) /\ UNCHANGED <<dead, seen, lapsed, excuse, budget>>
    BY <1>2, Leaving DEF Mark
  <2>2. TypeOK'
    BY <1>0, <2>1 DEF LetGo, Publish, TypeOK
  <2>3. PollerOK' /\ RowOK'
    <3>1. \A f \in Ids : state[f] # "none" => state'[f] # "none"
      BY <2>1 DEF Publish, TypeOK
    <3>2. PollerOK'
      <4> SUFFICES ASSUME NEW s \in Relays
                   PROVE  /\ pc'[s] = "idle" => batch'[s] = {}
                          /\ pc'[s] \in {"mark", "failed"} => cur'[s] \in batch'[s]
                          /\ pc'[s] = "mark" => seen'[cur'[s]] > 0
                          /\ \A f \in batch'[s] : state'[f] # "none"
        BY DEF PollerOK
      <4>1. CASE s = r
        BY <2>1, <3>1, <4>1 DEF LetGo, TypeOK, PollerOK
      <4>2. CASE s # r
        BY <2>1, <3>1, <4>2 DEF LetGo, TypeOK, PollerOK
      <4> QED
        BY <4>1, <4>2
    <3>3. state'[e] = "published" /\ \A f \in Ids \ {e} : state'[f] = state[f]
      BY <1>0, <2>1 DEF Publish, TypeOK
    <3>4. RowOK'
      BY <1>0, <2>1, <3>3 DEF TypeOK, RowOK
    <3> QED
      BY <3>2, <3>4
  <2>4. UntouchedOK'
    <3> SUFFICES ASSUME NEW f \in Ids \ excuse PROVE Untouched(f)'
      BY <2>1 DEF UntouchedOK
    <3>1. Untouched(f)
      BY DEF UntouchedOK
    <3>2. CASE f = e
      <4>1. \A s \in Relays : f \notin batch'[s]
        BY <1>0, <2>1, <3>1, <3>2 DEF Untouched, LetGo
      <4>2. state'[f] = "published" /\ dead'[f] = "no"
        BY <1>0, <2>1, <3>1, <3>2 DEF Untouched, Publish, RowOK, TypeOK
      <4> QED
        BY <2>1, <3>1, <4>1, <4>2 DEF Untouched
    <3>3. CASE f # e
      <4>1. state'[f] = state[f] /\ claim'[f] = claim[f]
        BY <2>1, <3>3 DEF Publish, TypeOK
      <4>2. \A s \in Relays : /\ f \in batch'[s] => f \in batch[s]
                              /\ pc[s] = "mark" /\ cur[s] = f => pc'[s] = "mark" /\ cur'[s] = f
        BY <2>1, <3>3 DEF LetGo
      <4> QED
        BY <2>1, <3>1, <4>1, <4>2 DEF Untouched
    <3> QED
      BY <3>2, <3>3
  <2> QED
    BY <2>2, <2>3, <2>4
<1> QED
  BY <1>1, <1>2

LEMMA MarkFailsStep == ASSUME IInv, NEW r \in Relays, MarkFails(r) PROVE IInv'
<1> USE DEF IInv
<1> DEFINE e == cur[r]
<1>0. e \in batch[r] /\ e \in Ids
  BY DEF MarkFails, PollerOK, TypeOK
<1>1. /\ Publish(e) \/ UNCHANGED <<state, retry, waiting, claim>>
      /\ pc' = [pc EXCEPT ![r] = "failed"]
      /\ excuse' = excuse \cup {e}
      /\ UNCHANGED <<dead, batch, snap, cur, lapsed, seen>>
      /\ Spend("db")
      /\ Publish(e) => state[e] # "gone"
                       \/ UNCHANGED <<state, retry, waiting, claim>>
  BY DEF MarkFails
<1>2. TypeOK'
  <2>1. BudgetOK'
    BY <1>1, Spending DEF TypeOK, BudgetOK
  <2>2. state' \in [Ids -> {"none", "open", "published", "gone"}]
        /\ claim' \in [Ids -> {"none", "live", "expired"}] /\ UNCHANGED <<retry, waiting>>
    <3>1. CASE Publish(e)
      BY <1>0, <3>1 DEF Publish, TypeOK
    <3>2. CASE UNCHANGED <<state, retry, waiting, claim>>
      BY <3>2 DEF TypeOK
    <3> QED
      BY <1>1, <3>1, <3>2
  <2>3. pc' \in [Relays -> {"idle", "next", "mark", "failed"}] /\ excuse' \subseteq Ids
    BY <1>0, <1>1 DEF TypeOK
  <2> QED
    BY <1>1, <2>1, <2>2, <2>3 DEF TypeOK, BudgetOK
<1>3. PollerOK' /\ RowOK'
  BY <1>0, <1>1 DEF Publish, TypeOK, PollerOK, RowOK
<1>4. UntouchedOK'
  <2> SUFFICES ASSUME NEW f \in Ids \ excuse, f # e PROVE Untouched(f)'
    BY <1>1 DEF UntouchedOK
  <2>1. state'[f] = state[f] /\ claim'[f] = claim[f]
    BY <1>1 DEF Publish, TypeOK
  <2>2. \A s \in Relays : pc[s] = "mark" /\ cur[s] = f => pc'[s] = "mark"
    BY <1>1 DEF TypeOK
  <2> QED
    BY <1>1, <2>1, <2>2 DEF UntouchedOK, Untouched
<1> QED
  BY <1>2, <1>3, <1>4

\* A row that is let go of without having been published.
LEMMA Dropped ==
  ASSUME IInv, NEW r \in Relays, pc[r] # "mark" \/ cur[r] \in excuse', LetGo(r),
         excuse \subseteq excuse', UNCHANGED <<state, dead, seen>>,
         cur[r] \in batch[r] \/ claim' = claim,
         \A e \in Ids \ {cur[r]} : claim'[e] = claim[e]
  PROVE  PollerOK' /\ RowOK' /\ UntouchedOK'
<1> USE DEF IInv
<1>1. PollerOK' /\ RowOK'
  <2>1. PollerOK'
    BY DEF LetGo, TypeOK, PollerOK
  <2>2. RowOK'
    BY DEF RowOK
  <2> QED
    BY <2>1, <2>2
<1>2. UntouchedOK'
  <2> SUFFICES ASSUME NEW f \in Ids \ excuse' PROVE Untouched(f)'
    BY DEF UntouchedOK
  <2>1. Untouched(f)
    BY DEF UntouchedOK
  <2>2. \A s \in Relays : /\ f \in batch'[s] => f \in batch[s]
                          /\ pc[s] = "mark" /\ cur[s] = f => pc'[s] = "mark" /\ cur'[s] = f
    BY DEF LetGo
  <2>3. \A s \in Relays : f \in batch'[s] => claim'[f] = claim[f]
    BY <2>1, <2>2 DEF Untouched, LetGo
  <2> QED
    BY <2>1, <2>2, <2>3 DEF Untouched
<1> QED
  BY <1>1, <1>2

LEMMA ReleaseStep == ASSUME IInv, NEW r \in Relays, Release(r) PROVE IInv'
<1> USE DEF IInv
<1> DEFINE e == cur[r]
<1>0. e \in batch[r] /\ e \in Ids /\ snap[r][e] + 1 \in 0..(MaxRetries - 1)
  BY DEF Release, Exhausted, PollerOK, TypeOK
<1>1. LetGo(r)
  BY <1>0, Leaving DEF Release
<1>2. /\ retry' \in [Ids -> 0..(MaxRetries - 1)] /\ waiting' \subseteq Ids
      /\ claim' \in [Ids -> {"none", "live", "expired"}]
      /\ \A f \in Ids \ {e} : claim'[f] = claim[f]
  <2>1. Reschedule(r) \/ UNCHANGED <<retry, waiting, claim>>
    BY DEF Release
  <2>2. CASE Reschedule(r)
    BY <1>0, <2>2 DEF Reschedule, TypeOK
  <2>3. CASE UNCHANGED <<retry, waiting, claim>>
    BY <2>3 DEF TypeOK
  <2> QED
    BY <2>1, <2>2, <2>3
<1>3. BudgetOK'
  BY Spending DEF Release, TypeOK, BudgetOK
<1>4. pc[r] # "mark" /\ UNCHANGED <<state, dead, seen, lapsed, excuse>>
  BY DEF Release
<1>5. TypeOK'
  BY <1>1, <1>2, <1>3, <1>4 DEF LetGo, TypeOK, BudgetOK
<1> QED
  BY <1>0, <1>1, <1>2, <1>4, <1>5, Dropped

LEMMA CrashStep == ASSUME IInv, NEW r \in Relays, Crash(r) PROVE IInv'
<1> USE DEF IInv
<1>1. LetGo(r)
  BY Leaving DEF Crash, TypeOK
<1>2. cur[r] \in Ids \/ pc[r] # "mark"
  BY DEF PollerOK, TypeOK
<1>3. TypeOK'
  <2>1. BudgetOK'
    BY Spending DEF Crash, TypeOK, BudgetOK
  <2>2. excuse' \subseteq Ids
    BY <1>2 DEF Crash, TypeOK
  <2> QED
    BY <1>1, <2>1, <2>2 DEF Crash, rows, LetGo, TypeOK, BudgetOK
<1> QED
  BY <1>1, <1>3, Dropped DEF Crash, rows

LEMMA ArchiveStep == ASSUME IInv, NEW r \in Relays, Archive(r) PROVE IInv'
<1> USE DEF IInv
<1> DEFINE e == cur[r]
<1>0. e \in batch[r] /\ e \in Ids /\ pc[r] = "failed"
  BY DEF Archive, PollerOK, TypeOK
<1>1. LetGo(r)
  BY <1>0, Leaving DEF Archive
<1>2. budget' \in [db : Nat, crash : Nat, lapse : Nat, redrive : Nat]
  BY DEF Archive, Spend, TypeOK
<1>3. UNCHANGED <<seen, lapsed, excuse>> /\ (DeadLetter(e) \/ UNCHANGED rows)
  BY DEF Archive
<1>4. CASE UNCHANGED rows
  <2>1. TypeOK'
    BY <1>1, <1>2, <1>3, <1>4 DEF LetGo, rows, TypeOK
  <2> QED
    BY <1>0, <1>1, <1>3, <1>4, <2>1, Dropped DEF rows
<1>5. CASE DeadLetter(e)
  <2>1. TypeOK'
    BY <1>0, <1>1, <1>2, <1>3, <1>5 DEF LetGo, DeadLetter, Publish, TypeOK
  <2>2. PollerOK' /\ RowOK'
    <3>1. PollerOK'
      BY <1>0, <1>1, <1>3, <1>5 DEF LetGo, DeadLetter, Publish, TypeOK, PollerOK
    <3>2. RowOK'
      BY <1>0, <1>3, <1>5 DEF DeadLetter, Publish, TypeOK, RowOK
    <3> QED
      BY <3>1, <3>2
  <2>3. UntouchedOK'
    <3> SUFFICES ASSUME NEW f \in Ids \ excuse PROVE Untouched(f)'
      BY <1>3 DEF UntouchedOK
    <3>1. Untouched(f)
      BY DEF UntouchedOK
    <3>2. CASE f = e
      <4>1. \A s \in Relays : f \notin batch'[s]
        BY <1>0, <1>1, <3>1, <3>2 DEF Untouched, LetGo
      <4>2. seen[f] = 0
        BY <1>0, <3>1, <3>2 DEF Untouched, PollerOK, TypeOK
      <4> QED
        BY <1>3, <4>1, <4>2 DEF Untouched
    <3>3. CASE f # e
      <4>1. state'[f] = state[f] /\ claim'[f] = claim[f] /\ dead'[f] = dead[f]
        BY <1>5, <3>3 DEF DeadLetter, Publish, TypeOK
      <4>2. \A s \in Relays : /\ f \in batch'[s] => f \in batch[s]
                              /\ pc[s] = "mark" /\ cur[s] = f => pc'[s] = "mark" /\ cur'[s] = f
        BY <1>1, <3>3 DEF LetGo
      <4> QED
        BY <1>3, <3>1, <4>1, <4>2 DEF Untouched
    <3> QED
      BY <3>2, <3>3
  <2> QED
    BY <2>1, <2>2, <2>3
<1> QED
  BY <1>3, <1>4, <1>5

LEMMA NextIInv == IInv /\ [Next]_vars => IInv'
<1>1. IInv /\ UNCHANGED vars => IInv'
  BY DEF vars, IInv, TypeOK, PollerOK, RowOK, UntouchedOK, Untouched
<1> QED
  BY <1>1, RowSteps, PollStep, LeaseStep, DispatchStep, MarkStep, MarkFailsStep,
     ReleaseStep, ArchiveStep, CrashStep DEF Next

\* The strengthened invariant holds of every behaviour.
LEMMA Invariance == Spec => []IInv
  BY InitIInv, NextIInv, PTL DEF Spec

\* The type invariant holds of every behaviour: no row ever counts as many
\* retries as the relay grants.
THEOREM TypeCorrect == Spec => []TypeOK
<1>1. IInv => TypeOK
  BY DEF IInv
<1> QED
  BY <1>1, Invariance, PTL

\* An event's second dispatch resolves only after a lease, a crash or a failed
\* mark has hit that event.
THEOREM DuplicatesCaused == Spec => []DuplicatesHaveACause
<1>1. IInv => DuplicatesHaveACause
  BY DEF IInv, UntouchedOK, Untouched, DuplicatesHaveACause
<1> QED
  BY <1>1, Invariance, PTL

\* A delivered event is dead-lettered only by the same causes.
THEOREM DeadLettersHonest == Spec => []DeadLettersWereNotDelivered
<1>1. IInv => DeadLettersWereNotDelivered
  BY DEF IInv, TypeOK, UntouchedOK, Untouched, RowOK, PollerOK, DeadLettersWereNotDelivered
<1> QED
  BY <1>1, Invariance, PTL

\* No open row has used up its retries.
THEOREM Unstranded == Spec => []NeverStranded
<1>1. IInv => NeverStranded
  BY DEF IInv, TypeOK, NeverStranded
<1> QED
  BY <1>1, Invariance, PTL

\* A dead letter already there means the row is terminal.
THEOREM Swallowed == Spec => []SwallowedIsTerminal
<1>1. IInv => SwallowedIsTerminal
  BY DEF IInv, RowOK, SwallowedIsTerminal
<1> QED
  BY <1>1, Invariance, PTL

\* An event whose lease has not run out under a relay: one relay at most has it
\* in hand, its claim stands while it can be claimed, and the count the claim
\* returned is still the row's.
Kept(e) ==
  \A r \in Relays : e \in batch[r] =>
    /\ \A s \in Relays : e \in batch[s] => r = s
    /\ claim[e] = "live" \/ state[e] # "open"
    /\ snap[r][e] = retry[e]

KeptOK == \A e \in Ids \ lapsed : Kept(e)

\* What every step but a claim does to the hands a row is in.
LEMMA HandsOnlyEmpty ==
  ASSUME IInv, NEW e \in Ids \ lapsed, Kept(e),
         \A s \in Relays : batch'[s] \subseteq batch[s], UNCHANGED snap,
         \A s \in Relays : e \in batch'[s] => retry'[e] = retry[e],
         \A s \in Relays : e \in batch'[s] =>
           (claim'[e] = claim[e] /\ state'[e] = state[e]) \/ state'[e] # "open"
  PROVE  Kept(e)'
BY DEF Kept

LEMMA KeptStep == ASSUME IInv, KeptOK, [Next]_vars PROVE KeptOK'
<1> USE DEF IInv
<1> SUFFICES ASSUME NEW e \in Ids, e \notin lapsed' PROVE Kept(e)'
  BY DEF KeptOK
<1>1. lapsed \subseteq lapsed'
  BY DEF Next, vars, Write, Resolve, Clean, LeaseRunsOut, Due, Redrive, Poll, Dispatch, Mark,
         MarkFails, Release, Archive, Crash, Finished, Aborted
<1>2. Kept(e)
  BY <1>1 DEF KeptOK
<1>3. ASSUME NEW r \in Relays, Poll(r) PROVE Kept(e)'
  <2>1. PICK taken \in SUBSET {f \in Ids : Eligible(f)} :
          /\ claim' = [f \in Ids |-> IF f \in taken THEN "live" ELSE claim[f]]
          /\ batch' = [batch EXCEPT ![r] = taken]
          /\ snap' = [snap EXCEPT ![r] = [f \in Ids |-> IF f \in taken THEN retry[f] ELSE 0]]
    BY <1>3 DEF Poll
  <2>2. batch[r] = {} /\ UNCHANGED <<state, retry>>
    BY <1>3 DEF Poll, PollerOK
  <2>3. e \in taken => \A s \in Relays : e \notin batch[s]
    BY <1>2, <2>1 DEF Kept, Eligible, Unclaimed
  <2>4. \A s \in Relays \ {r} : batch'[s] = batch[s] /\ snap'[s] = snap[s]
    BY <2>1 DEF TypeOK
  <2>5. batch'[r] = taken /\ (e \in taken => snap'[r][e] = retry[e] /\ claim'[e] = "live")
    BY <2>1 DEF TypeOK
  <2>6. e \notin taken => claim'[e] = claim[e]
    BY <2>1
  <2> QED
    BY <1>2, <2>2, <2>3, <2>4, <2>5, <2>6 DEF Kept
<1>4. ASSUME NEW f \in Ids, Write(f) \/ Resolve(f) \/ Clean(f) \/ Due(f)
                            \/ (\E new \in Ids : Redrive(f, new))
      PROVE  Kept(e)'
  <2>1. UNCHANGED <<batch, snap, retry, claim>>
    BY <1>4 DEF Write, Resolve, Clean, Due, Redrive, poller
  <2>2. \A s \in Relays : e \in batch[s] => state'[e] = state[e] \/ state'[e] # "open"
    BY <1>4 DEF Write, Resolve, Clean, Due, Redrive, PollerOK, TypeOK
  <2> QED
    BY <1>1, <1>2, <2>1, <2>2, HandsOnlyEmpty
<1>5. ASSUME NEW f \in Ids, LeaseRunsOut(f) PROVE Kept(e)'
  <2>1. UNCHANGED <<batch, snap, retry, state>>
    BY <1>5 DEF LeaseRunsOut
  <2>2. \A s \in Relays : e \in batch[s] => claim'[e] = claim[e]
    BY <1>5 DEF LeaseRunsOut, TypeOK
  <2> QED
    BY <1>1, <1>2, <2>1, <2>2, HandsOnlyEmpty
<1>6. ASSUME NEW r \in Relays, Dispatch(r) PROVE Kept(e)'
  BY <1>1, <1>2, <1>6, HandsOnlyEmpty DEF Dispatch, rows
<1>7. ASSUME NEW r \in Relays, Mark(r) \/ MarkFails(r) PROVE Kept(e)'
  <2>1. Publish(cur[r]) \/ UNCHANGED <<state, retry, waiting, claim>>
    BY <1>7 DEF Mark, MarkFails
  <2>2. UNCHANGED <<snap, retry>> /\ \A s \in Relays : batch'[s] \subseteq batch[s]
    BY <1>7 DEF Mark, MarkFails, Publish, Finished, TypeOK
  <2>3. (claim'[e] = claim[e] /\ state'[e] = state[e]) \/ state'[e] # "open"
    BY <2>1 DEF Publish, TypeOK
  <2> QED
    BY <1>1, <1>2, <2>2, <2>3, HandsOnlyEmpty
<1>8. ASSUME NEW r \in Relays, Release(r) PROVE Kept(e)'
  <2>1. LetGo(r) /\ UNCHANGED state /\ cur[r] \in batch[r] /\ cur[r] \in Ids
    BY <1>8, Leaving DEF Release, PollerOK, TypeOK
  <2>2. Reschedule(r) \/ UNCHANGED <<retry, waiting, claim>>
    BY <1>8 DEF Release
  <2>3. e # cur[r] => retry'[e] = retry[e] /\ claim'[e] = claim[e]
    BY <2>2 DEF Reschedule, TypeOK
  <2>4. e = cur[r] => \A s \in Relays : e \notin batch'[s]
    BY <1>2, <2>1 DEF Kept, LetGo
  <2>5. \A s \in Relays : batch'[s] \subseteq batch[s]
    BY <2>1 DEF LetGo
  <2> QED
    BY <1>1, <1>2, <2>1, <2>3, <2>4, <2>5, HandsOnlyEmpty DEF LetGo
<1>9. ASSUME NEW r \in Relays, Archive(r) \/ Crash(r) PROVE Kept(e)'
  <2>1. DeadLetter(cur[r]) \/ UNCHANGED rows
    BY <1>9 DEF Archive, Crash
  <2>2. Finished(r) \/ Aborted(r)
    BY <1>9 DEF Archive, Crash
  <2>3. UNCHANGED <<snap, retry>> /\ \A s \in Relays : batch'[s] \subseteq batch[s]
    BY <2>1, <2>2 DEF DeadLetter, Publish, Finished, Aborted, rows, TypeOK
  <2>4. (claim'[e] = claim[e] /\ state'[e] = state[e]) \/ state'[e] # "open"
    BY <2>1 DEF DeadLetter, Publish, rows, TypeOK
  <2> QED
    BY <1>1, <1>2, <2>3, <2>4, HandsOnlyEmpty
<1>10. CASE UNCHANGED vars
  BY <1>2, <1>10 DEF vars, Kept
<1> QED
  BY <1>3, <1>4, <1>5, <1>6, <1>7, <1>8, <1>9, <1>10 DEF Next

LEMMA KeptInvariance == Spec => []KeptOK
<1>1. Init => KeptOK
  BY DEF Init, KeptOK, Kept
<1>2. IInv /\ KeptOK /\ [Next]_vars => KeptOK'
  BY KeptStep
<1> QED
  BY <1>1, <1>2, Invariance, PTL DEF Spec

\* A row is in the hands of two relays only if its lease ran out under one.
THEOREM ClaimsExcluded == Spec => []ClaimsExclude
<1>1. IInv /\ KeptOK => ClaimsExclude
  BY DEF IInv, TypeOK, KeptOK, Kept, ClaimsExclude
<1> QED
  BY <1>1, Invariance, KeptInvariance, PTL

\* The retries an event has used are given back only by a relay that has
\* outlived its lease.
THEOREM RetriesKept == Spec => RetriesOnlyGrow
<1>1. ASSUME IInv, KeptOK, [Next]_vars PROVE \A e \in Ids \ lapsed' : retry'[e] >= retry[e]
  <2> USE DEF IInv
  <2> SUFFICES ASSUME NEW e \in Ids, e \notin lapsed' PROVE retry'[e] >= retry[e]
    BY <1>1
  <2>1. retry[e] \in Nat
    BY <1>1 DEF TypeOK
  <2>2. UNCHANGED retry \/ (\E r \in Relays : Release(r) /\ Reschedule(r))
    BY <1>1 DEF Next, vars, rows, Write, Resolve, Clean, LeaseRunsOut, Due, Redrive, Poll, Dispatch,
           Mark, MarkFails, Publish, Release, Archive, DeadLetter, Crash
  <2>3. ASSUME NEW r \in Relays, Release(r), Reschedule(r) PROVE retry'[e] >= retry[e]
    <3>1. cur[r] \in batch[r] /\ cur[r] \in Ids /\ UNCHANGED lapsed
      BY <1>1, <2>3 DEF Release, PollerOK, TypeOK
    <3>2. CASE e = cur[r]
      <4>1. snap[r][e] = retry[e]
        BY <1>1, <3>1, <3>2 DEF KeptOK, Kept
      <4> QED
        BY <1>1, <2>1, <2>3, <3>2, <4>1 DEF Reschedule, TypeOK
    <3>3. CASE e # cur[r]
      BY <1>1, <2>1, <2>3, <3>3 DEF Reschedule, TypeOK
    <3> QED
      BY <3>2, <3>3
  <2> QED
    BY <2>1, <2>2, <2>3
<1> QED
  BY <1>1, Invariance, KeptInvariance, PTL DEF Spec, RetriesOnlyGrow

\* Every behaviour of the outbox is one the abstract promise allows: each step
\* accepts, handles, settles or parks one event, or changes nothing it speaks of.
THEOREM PromiseKept == Spec => KeepsItsPromise
<1>1. Init => Promise!Init
  BY DEF Init, Promise!Init
<1>2. IInv /\ [Next]_vars => [Promise!Next]_Promise!vars
  <2> SUFFICES ASSUME IInv, [Next]_vars PROVE [Promise!Next]_Promise!vars
    OBVIOUS
  <2> USE DEF IInv, TypeOK
  <2> DEFINE Same == UNCHANGED <<state, seen, dead>>
  <2>1. Same => UNCHANGED Promise!vars
    BY DEF Promise!vars
  <2>2. ASSUME NEW e \in Ids, state[e] = "none", state' = [state EXCEPT ![e] = "open"],
               UNCHANGED seen, {f \in Ids : dead'[f] # "no"} = {f \in Ids : dead[f] # "no"}
        PROVE  Promise!Accept(e)
    BY <2>2 DEF Promise!Accept
  <2>3. ASSUME NEW e \in Ids, state[e] # "none", seen' = [seen EXCEPT ![e] = Resolved(e)],
               UNCHANGED <<state, dead>>
        PROVE  Promise!Handle(e)
    BY <2>3 DEF Promise!Handle, Resolved
  <2>4. ASSUME NEW e \in Ids, state[e] \in {"open", "published"}, seen[e] > 0, Publish(e),
               UNCHANGED <<seen, dead>>
        PROVE  Promise!Settle(e) \/ UNCHANGED Promise!vars
    <3>1. CASE state[e] = "open"
      BY <2>4, <3>1 DEF Publish, Promise!Settle
    <3>2. CASE state[e] = "published"
      BY <2>4, <3>2 DEF Publish, Promise!vars
    <3> QED
      BY <2>4, <3>1, <3>2
  <2>5. ASSUME NEW e \in Ids, state[e] \in {"open", "published"}, DeadLetter(e), UNCHANGED seen
        PROVE  Promise!Park(e)
    BY <2>5 DEF DeadLetter, Publish, Promise!Park
  <2>6. ASSUME NEW e \in Ids, Write(e) PROVE Promise!Accept(e)
    BY <2>6, <2>2 DEF Write
  <2>7. ASSUME NEW e \in Ids, NEW new \in Ids, Redrive(e, new) PROVE Promise!Accept(new)
    <3>1. dead' = [dead EXCEPT ![e] = "resolved"] /\ dead[e] # "no"
      BY <2>7 DEF Redrive
    <3>2. \A f \in Ids : dead'[f] # "no" <=> dead[f] # "no"
      BY <3>1
    <3> QED
      BY <2>7, <2>2, <3>2 DEF Redrive
  <2>8. ASSUME NEW e \in Ids, Resolve(e) PROVE UNCHANGED Promise!vars
    BY <2>8 DEF Resolve, Promise!vars
  <2>9. ASSUME NEW e \in Ids, Clean(e) PROVE UNCHANGED Promise!vars
    BY <2>9 DEF Clean, MayDelete, Promise!vars
  <2>10. ASSUME NEW r \in Relays, Dispatch(r) PROVE Promise!Next \/ UNCHANGED Promise!vars
    <3>1. PICK e \in batch[r] : \/ seen' = [seen EXCEPT ![e] = Resolved(e)]
                                \/ UNCHANGED seen
      BY <2>10 DEF Dispatch
    <3>2. e \in Ids /\ state[e] # "none" /\ UNCHANGED <<state, dead>>
      BY <2>10, <3>1 DEF Dispatch, rows, PollerOK
    <3> QED
      BY <2>1, <2>3, <3>1, <3>2 DEF Promise!Next
  <2>11. ASSUME NEW r \in Relays, Mark(r) \/ MarkFails(r)
         PROVE  Promise!Next \/ UNCHANGED Promise!vars
    <3>1. cur[r] \in Ids /\ seen[cur[r]] > 0 /\ state[cur[r]] # "none"
      BY <2>11 DEF Mark, MarkFails, PollerOK
    <3>2. UNCHANGED state \/ (state[cur[r]] # "gone" /\ Publish(cur[r]))
      BY <2>11 DEF Mark, MarkFails
    <3>3. UNCHANGED <<seen, dead>>
      BY <2>11 DEF Mark, MarkFails
    <3> QED
      BY <2>1, <2>4, <3>1, <3>2, <3>3 DEF Promise!Next
  <2>12. ASSUME NEW r \in Relays, Archive(r) PROVE Promise!Next \/ UNCHANGED Promise!vars
    <3>1. cur[r] \in Ids /\ state[cur[r]] # "none"
      BY <2>12 DEF Archive, PollerOK
    <3>2. UNCHANGED rows \/ DeadLetter(cur[r])
      BY <2>12 DEF Archive
    <3>3. DeadLetter(cur[r]) => state[cur[r]] # "gone"
      BY DEF DeadLetter
    <3>4. UNCHANGED seen
      BY <2>12 DEF Archive
    <3> QED
      BY <2>1, <2>5, <3>1, <3>2, <3>3, <3>4 DEF Promise!Next, rows
  <2>13. ASSUME NEW e \in Ids, LeaseRunsOut(e) \/ Due(e) PROVE Same
    BY <2>13 DEF LeaseRunsOut, Due
  <2>14. ASSUME NEW r \in Relays, Poll(r) \/ Release(r) \/ Crash(r) PROVE Same
    BY <2>14 DEF Poll, Release, Crash, rows
  <2>15. UNCHANGED vars => Same
    BY DEF vars
  <2> HIDE DEF Same
  <2> QED
    BY <2>1, <2>6, <2>7, <2>8, <2>9, <2>10, <2>11, <2>12, <2>13, <2>14, <2>15
       DEF Next, Promise!Next
<1> QED
  BY <1>1, <1>2, Invariance, PTL DEF Spec, KeepsItsPromise, Promise!Spec
=============================================================================
