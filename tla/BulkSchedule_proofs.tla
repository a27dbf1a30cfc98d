------------------------- MODULE BulkSchedule_proofs -------------------------
(* Theorems about bulk scheduling.  The argument has three layers.  A row that *)
(* never had two attempts at a time has one attempt, which holds its job, so    *)
(* what the attempt read of the row still holds.  From that: its scheduled post *)
(* is the one its item names.  And as long as no fault fell between a change    *)
(* and its record, and the queue has not forgotten the row, a row that ended    *)
(* has a finished job, or an attempt with nothing left to do.                   *)
EXTENDS BulkSchedule, TLAPS, FiniteSetTheorems

Ended(i) == item[i].status \in {"SCHEDULED", "FAILED"}

\* An attempt that has, or is about to have, its post scheduled.
Succeeds(w) == worker[w].pc \in {"count", "commit"} /\ worker[w].to = "SCHEDULED"

\* Bookkeeping of slots, and of jobs and their callbacks.
SlotsOK ==
  \A w \in Workers :
    /\ worker[w].pc # "idle" => worker[w].row \in Items
    /\ worker[w].pc = "idle" => worker[w].row = None
    /\ worker[w].pc \in {"persist", "load", "save"} => worker[w].post # 0

JobsOK ==
  \A i \in Items :
    /\ job[i].state \in {"ready", "active"} => job[i].made < Attempts
    /\ job[i].state = "active" => job[i].by \in Workers
    /\ failing[i] # "no" => job[i].state = "failed"

\* Nothing happens before the batch is confirmed.
Dormant ==
  batch = "none" =>
    /\ \A i \in Items :
         /\ item[i].status = "none" /\ event[i] = "none" /\ job[i].state = "none"
         /\ created[i] = 0 /\ scheduled[i] = {} /\ failing[i] = "no" /\ letter[i] = "none"
    /\ \A w \in Workers : worker[w].pc = "idle"
    /\ swept = {}

\* Who found no other row pending is right until it has committed.
CountsOK ==
  /\ CompletionIsHonest
  /\ \A w \in Workers : worker[w].pc = "commit" /\ worker[w].last => Settled(worker[w].row)
  /\ \A i \in Items : failing[i] = "alone" => Settled(i)

\* One attempt, and it holds the job.
Alone(i) ==
  \A w \in Workers : worker[w].row = i => job[i].state = "active" /\ job[i].by = w

\* What an attempt carries is what the item says.
Carried(i) ==
  \A w \in Workers : worker[w].row = i =>
    /\ worker[w].pc \in {"create", "persist"} => item[i].post = 0
    /\ worker[w].pc \in {"load", "save"} \/ Succeeds(w) =>
         worker[w].post = item[i].post /\ item[i].post # 0
    /\ Succeeds(w) => worker[w].post \in scheduled[i]

\* A scheduled post is the one the item names.
Named(i) ==
  /\ scheduled[i] \subseteq {item[i].post} \ {0}
  /\ item[i].status = "SCHEDULED" => item[i].post \in scheduled[i]

\* The post of the row is on record, or its attempt is about to record it.
Once(i) ==
  /\ created[i] <= 1
  /\ created[i] = 1 =>
       item[i].post # 0 \/ \E w \in Workers : worker[w].pc = "persist" /\ worker[w].row = i
  /\ \A w \in Workers : worker[w].pc = "create" /\ worker[w].row = i => created[i] = 0

\* A row that ended is not worked on again, and a scheduled post is on record, or
\* its attempt is about to record it.
Closing(i) ==
  /\ Ended(i) =>
       \/ job[i].state = "completed"
       \/ job[i].state = "failed" /\ failing[i] = "no"
       \/ /\ job[i].state = "active" /\ worker[job[i].by].row = i
          /\ worker[job[i].by].pc = "done"
  /\ scheduled[i] # {} =>
       \/ item[i].status = "SCHEDULED"
       \/ \E w \in Workers : worker[w].row = i /\ Succeeds(w)

AloneOK   == \A i \in Items \ overlap : Alone(i) /\ Carried(i) /\ Named(i)
OnceOK    == \A i \in Items \ (excuse \cup overlap) : Once(i)
ClosingOK == \A i \in Items \ Disturbed : Closing(i)

IInv ==
  /\ TypeOK /\ SlotsOK /\ JobsOK /\ Dormant /\ CountsOK
  /\ AloneOK /\ OnceOK /\ ClosingOK

USE NoneAssumption, BoundsAssumption DEF letters

LEMMA InitIInv == Init => IInv
  BY DEF Init, Idle, NoJob, Ids, Rows, Jobs, Runs, IInv, TypeOK, SlotsOK, JobsOK, Dormant,
         CountsOK, CompletionIsHonest, AloneOK, Alone, Carried, Succeeds, Named, OnceOK, Once, ClosingOK, Closing, Ended

-----------------------------------------------------------------------------
(* Frames: what a step at one row cannot disturb. *)

\* The step does not concern row j.
Untouched(j) ==
  /\ item'[j] = item[j] /\ job'[j] = job[j] /\ failing'[j] = failing[j]
  /\ created'[j] = created[j] /\ scheduled'[j] = scheduled[j]
  /\ \A w \in Workers : worker'[w] = worker[w] \/ (worker[w].row # j /\ worker'[w].row # j)

LEMMA RowKept ==
  ASSUME JobsOK, NEW j \in Items, Untouched(j)
  PROVE  /\ Alone(j) => Alone(j)'
         /\ Carried(j) => Carried(j)'
         /\ Named(j) => Named(j)'
         /\ Once(j) => Once(j)'
         /\ Closing(j) => Closing(j)'
<1> USE DEF Untouched
<1>1. Alone(j) => Alone(j)'
  BY DEF Alone
<1>2. Carried(j) => Carried(j)'
  BY DEF Carried, Succeeds
<1>3. Named(j) => Named(j)'
  BY DEF Named
<1>4. Once(j) => Once(j)'
  BY DEF Once
<1>5. Closing(j) => Closing(j)'
  BY DEF Closing, Ended, Succeeds, JobsOK
<1> QED
  BY <1>1, <1>2, <1>3, <1>4, <1>5

\* The excuses only grow.
Blamed ==
  excuse \subseteq excuse' /\ overlap \subseteq overlap' /\ forgotten \subseteq forgotten'

\* A step that concerns row i alone: i is what is left to prove.
LEMMA RowsKept ==
  ASSUME JobsOK, AloneOK, OnceOK, ClosingOK, Blamed, NEW i \in Items,
         \A j \in Items \ {i} : Untouched(j),
         i \notin overlap' => Alone(i)' /\ Carried(i)' /\ Named(i)',
         i \notin (excuse \cup overlap)' => Once(i)',
         i \notin Disturbed' => Closing(i)'
  PROVE  AloneOK' /\ OnceOK' /\ ClosingOK'
<1>1. ASSUME NEW j \in Items, j \notin overlap' PROVE Alone(j)' /\ Carried(j)' /\ Named(j)'
  BY <1>1, RowKept DEF AloneOK, Blamed
<1>2. ASSUME NEW j \in Items, j \notin (excuse \cup overlap)' PROVE Once(j)'
  BY <1>2, RowKept DEF OnceOK, Blamed
<1>3. ASSUME NEW j \in Items, j \notin Disturbed' PROVE Closing(j)'
  BY <1>3, RowKept DEF ClosingOK, Blamed, Disturbed
<1> QED
  BY <1>1, <1>2, <1>3 DEF AloneOK, OnceOK, ClosingOK

\* Rows only stop being pending, so who counted no other one is still right.
LEMMA CountsKept ==
  ASSUME CountsOK,
         \A j \in Items : item'[j].status = "PENDING" => item[j].status = "PENDING",
         batch' = "COMPLETED" =>
           batch = "COMPLETED" \/ \A j \in Items : item'[j].status # "PENDING",
         \A w \in Workers : worker'[w].pc = "commit" /\ worker'[w].last =>
           \/ worker[w].pc = "commit" /\ worker[w].last /\ worker'[w].row = worker[w].row
           \/ Settled(worker'[w].row),
         \A j \in Items : failing'[j] = "alone" => failing[j] = "alone" \/ Settled(j)
  PROVE  CountsOK'
<1>1. ASSUME NEW i, Settled(i) PROVE Settled(i)'
  BY <1>1 DEF Settled
<1>2. CompletionIsHonest'
  BY DEF CountsOK, CompletionIsHonest
<1>3. ASSUME NEW w \in Workers, worker'[w].pc = "commit", worker'[w].last
      PROVE  Settled(worker[w].row)'
  <2>1. Settled(worker'[w].row)
    BY <1>3 DEF CountsOK
  <2> QED
    BY <2>1 DEF Settled
<1>4. ASSUME NEW i \in Items, failing'[i] = "alone" PROVE Settled(i)'
  BY <1>1, <1>4 DEF CountsOK
<1> QED
  BY <1>2, <1>3, <1>4 DEF CountsOK, Settled

-----------------------------------------------------------------------------
(* One lemma per group of actions. *)

LEMMA ConfirmStep == ASSUME IInv, Confirm PROVE IInv'
<1> USE DEF IInv
<1>1. TypeOK'
  BY DEF Confirm, TypeOK, Ids, Rows, posts, ghosts
<1>2. SlotsOK' /\ JobsOK'
  BY DEF Confirm, SlotsOK, JobsOK
<1>3. Dormant'
  BY DEF Confirm, Dormant
<1>4. CountsOK'
  BY DEF Confirm, CountsOK, CompletionIsHonest, Dormant
<1>5. ASSUME NEW i \in Items PROVE (Alone(i) /\ Carried(i) /\ Named(i) /\ Once(i) /\ Closing(i))'
  <2>1. /\ item'[i].status = "PENDING" /\ item'[i].post = 0
        /\ created'[i] = 0 /\ scheduled'[i] = {} /\ worker' = worker
        /\ \A w \in Workers : worker[w].row # i /\ worker[w].pc = "idle"
    BY DEF Confirm, posts, Dormant, SlotsOK
  <2>2. (Alone(i) /\ Carried(i))'
    BY <2>1 DEF Alone, Carried
  <2>3. (Named(i) /\ Once(i))'
    BY <2>1 DEF Named, Once
  <2>4. Closing(i)'
    BY <2>1 DEF Closing, Ended
  <2> QED
    BY <2>2, <2>3, <2>4
<1> QED
  BY <1>1, <1>2, <1>3, <1>4, <1>5 DEF AloneOK, OnceOK, ClosingOK

\* A step of the queue or of a callback at one row.
LEMMA QueueStep ==
  ASSUME IInv, NEW i \in Items, job[i].state # "none", UNCHANGED <<batch, item, event, letters, posts, worker>>,
         NEW j \in Jobs, job' = [job EXCEPT ![i] = j],
         NEW f \in {"no", "due", "alone", "among"}, failing' = [failing EXCEPT ![i] = f],
         Blamed, overlap' \subseteq Items, forgotten' \subseteq Items, lost' \subseteq Items,
         excuse' \subseteq Items, faults' \in 0..MaxFaults,
         j.state = "ready" => j.made < Attempts, j.state # "active",
         f # "no" => j.state = "failed", f = "alone" => failing[i] = "alone" \/ Settled(i),
         i \notin overlap' => i \notin overlap /\ \A w \in Workers : worker[w].row # i,
         i \notin Disturbed' => ~Ended(i)
  PROVE  IInv'
<1> USE DEF IInv, posts
<1>1. TypeOK'
  BY DEF TypeOK
<1>2. SlotsOK' /\ Dormant'
  BY DEF SlotsOK, Dormant
<1>3. JobsOK'
  BY DEF JobsOK, TypeOK
<1>4. CountsOK'
  BY CountsKept DEF CountsOK, CompletionIsHonest, TypeOK
<1>5. \A k \in Items \ {i} : Untouched(k)
  BY DEF Untouched, TypeOK
<1>6. i \notin overlap' => Alone(i)' /\ Carried(i)' /\ Named(i)'
  BY DEF AloneOK, Alone, Carried, Named
<1>7. i \notin (excuse \cup overlap)' => Once(i)'
  BY DEF OnceOK, Once, Blamed
<1>8. i \notin Disturbed' => Closing(i)'
  BY DEF ClosingOK, Closing, Ended, Disturbed, Blamed
<1> QED
  BY <1>1, <1>2, <1>3, <1>4, <1>5, <1>6, <1>7, <1>8, RowsKept

\* What Enqueue does to a row: a job the queue does not hold means that nobody
\* works on the row and that it has not ended.
LEMMA EnqueueStep ==
  ASSUME IInv, NEW i \in Items, batch # "none", Enqueue(i),
         event' \in [Items -> {"none", "open", "closed"}], swept' \subseteq Items,
         letter' \in [Items -> {"none", "unresolved", "resolved", "retried"}],
         faults' \in 0..MaxFaults, UNCHANGED <<manifest, posts, worker, failing, ghosts>>
  PROVE  IInv'
<1> USE DEF IInv, manifest, posts, ghosts
<1> DEFINE new == IF job[i].state = "none" THEN [NoJob EXCEPT !.state = "ready"] ELSE job[i]
<1>1. new \in Jobs /\ (job[i].state = "none" => new.state = "ready" /\ new.made = 0)
  BY DEF TypeOK, NoJob, Jobs
<1>2. job' = [job EXCEPT ![i] = new]
  BY DEF Enqueue
<1>3. job[i].state # "none" => new = job[i]
  OBVIOUS
<1> HIDE DEF new
<1>4. TypeOK'
  BY <1>1, <1>2 DEF TypeOK
<1>5. SlotsOK' /\ Dormant'
  BY DEF SlotsOK, Dormant
<1>6. JobsOK'
  BY <1>1, <1>2, <1>3 DEF JobsOK, TypeOK
<1>7. CountsOK'
  BY CountsKept DEF CountsOK, CompletionIsHonest
<1>8. Blamed /\ \A j \in Items \ {i} : Untouched(j)
  BY <1>2 DEF Blamed, Untouched, TypeOK
<1>9. CASE job[i].state # "none"
  <2>1. Untouched(i)
    BY <1>2, <1>3, <1>9 DEF Untouched, TypeOK
  <2> QED
    BY <1>4, <1>5, <1>6, <1>7, <1>8, <2>1, RowKept, RowsKept
    DEF AloneOK, OnceOK, ClosingOK, Disturbed
<1>10. CASE job[i].state = "none"
  <2>1. job'[i].state = "ready"
    BY <1>1, <1>2, <1>10 DEF TypeOK
  <2>2. i \notin overlap => \A w \in Workers : worker[w].row # i
    BY <1>10 DEF AloneOK, Alone
  <2>3. i \notin overlap' => Alone(i)' /\ Carried(i)' /\ Named(i)'
    BY <2>2 DEF AloneOK, Alone, Carried, Named
  <2>4. i \notin (excuse \cup overlap)' => Once(i)'
    BY <2>2 DEF OnceOK, Once
  <2>5. i \notin Disturbed' => Closing(i)'
    BY <1>10, <2>2 DEF ClosingOK, Closing, Ended, Disturbed
  <2> QED
    BY <1>4, <1>5, <1>6, <1>7, <1>8, <2>3, <2>4, <2>5, RowsKept
<1> QED
  BY <1>9, <1>10

\* The relay, the sweep and the operator change the queue by an enqueue or not at all.
Feeds ==
  \/ Sweep
  \/ \E i \in Items : Dispatch(i) \/ Redrive(i) \/ ResolveLetter(i) \/ RetryLetter(i)

LEMMA FeedStep == ASSUME IInv, Feeds PROVE IInv'
<1> DEFINE Fed ==
      /\ batch # "none" /\ faults' \in 0..MaxFaults /\ swept' \subseteq Items
      /\ event' \in [Items -> {"none", "open", "closed"}]
      /\ letter' \in [Items -> {"none", "unresolved", "resolved", "retried"}]
      /\ UNCHANGED <<manifest, posts, worker, failing, ghosts>>
      /\ UNCHANGED job \/ \E i \in Items : Enqueue(i)
<1>1. Fed
  <2>1. CASE Sweep
    BY <2>1 DEF IInv, TypeOK, Dormant, Sweep, Unresolved, Stuck
  <2>2. ASSUME NEW i \in Items, Dispatch(i) \/ Redrive(i)
        PROVE  Fed
    BY <2>2 DEF IInv, TypeOK, Dormant, Dispatch, Redrive, Saved, Fault
  <2>3. ASSUME NEW i \in Items, ResolveLetter(i) \/ RetryLetter(i)
        PROVE  Fed
    BY <2>3 DEF IInv, TypeOK, Dormant, ResolveLetter, RetryLetter, Stuck
  <2> QED
    BY <2>1, <2>2, <2>3 DEF Feeds
<1>2. ASSUME NEW i \in Items, Enqueue(i) PROVE IInv'
  BY <1>1, <1>2, EnqueueStep
<1>3. CASE UNCHANGED job
  <2> USE DEF IInv, manifest, posts, ghosts
  <2>1. TypeOK' /\ SlotsOK' /\ JobsOK' /\ Dormant'
    BY <1>1, <1>3 DEF TypeOK, SlotsOK, JobsOK, Dormant
  <2>2. CountsOK'
    BY <1>1, <1>3, CountsKept DEF CountsOK, CompletionIsHonest
  <2>3. Blamed /\ \A j \in Items : Untouched(j)
    BY <1>1, <1>3 DEF Blamed, Untouched
  <2>4. AloneOK' /\ OnceOK' /\ ClosingOK'
    BY <1>1, <1>3, <2>3, RowKept DEF AloneOK, OnceOK, ClosingOK, Disturbed
  <2> QED
    BY <2>1, <2>2, <2>4
<1> QED
  BY <1>1, <1>2, <1>3

LEMMA IdleTyped == Idle \in Runs /\ Idle.pc = "idle" /\ Idle.row = None
  BY DEF Idle, Runs, Ids

LEMMA TakeStep == ASSUME IInv, NEW w \in Workers, NEW i \in Items, Take(w, i) PROVE IInv'
<1> USE DEF IInv, manifest, posts, ghosts
<1> DEFINE j == [job[i] EXCEPT !.state = "active", !.by = w]
           r == [Idle EXCEPT !.pc = "find", !.row = i]
<1>1. worker[w] = Idle /\ job[i].state = "ready"
      /\ job' = [job EXCEPT ![i] = j] /\ worker' = [worker EXCEPT ![w] = r]
      /\ UNCHANGED <<manifest, event, letters, posts, failing, ghosts, faults>>
  BY DEF Take, Free
<1>2. j \in Jobs /\ j.state = "active" /\ j.by = w /\ j.made = job[i].made
  <2>1. job[i] \in Jobs
    BY DEF TypeOK
  <2> QED
    BY <2>1 DEF Jobs
<1>3. r \in Runs /\ r.pc = "find" /\ r.row = i
  BY IdleTyped DEF Runs
<1>4. worker[w].row = None /\ worker[w].pc = "idle"
  BY <1>1, IdleTyped
<1> HIDE DEF j, r
<1>5. TypeOK'
  BY <1>1, <1>2, <1>3 DEF TypeOK
<1>6. SlotsOK'
  BY <1>1, <1>3 DEF SlotsOK, TypeOK
<1>7. JobsOK'
  BY <1>1, <1>2 DEF JobsOK, TypeOK
<1>8. Dormant'
  BY <1>1 DEF Dormant
<1>9. CountsOK'
  BY <1>1, <1>3, CountsKept DEF CountsOK, CompletionIsHonest, TypeOK
<1>10. Blamed /\ \A k \in Items \ {i} : Untouched(k)
  BY <1>1, <1>3, <1>4 DEF Blamed, Untouched, TypeOK
<1>11. i \notin overlap => \A v \in Workers : worker[v].row # i
  BY <1>1 DEF AloneOK, Alone
<1>12. /\ \A v \in Workers \ {w} : worker'[v] = worker[v]
       /\ worker'[w].pc = "find" /\ job'[i].state = "active" /\ job'[i].by = w
  BY <1>1, <1>2, <1>3 DEF TypeOK
<1>13. i \notin overlap' => Alone(i)' /\ Carried(i)' /\ Named(i)'
  BY <1>1, <1>11, <1>12 DEF AloneOK, Alone, Carried, Succeeds, Named
<1>14. i \notin (excuse \cup overlap)' => Once(i)'
  BY <1>1, <1>11, <1>12 DEF OnceOK, Once
<1>15. i \notin Disturbed' => Closing(i)'
  BY <1>1, <1>11, <1>12 DEF ClosingOK, Closing, Ended, Succeeds, Disturbed
<1> QED
  BY <1>5, <1>6, <1>7, <1>8, <1>9, <1>10, <1>13, <1>14, <1>15, RowsKept

LEMMA Recovery ==
  ASSUME NEW j \in Jobs
  PROVE  /\ Recovered(j) \in Jobs /\ Recovered(j).state \in {"ready", "failed"}
         /\ Recovered(j).made = j.made
<1>1. CASE j.stalls = 1
  BY <1>1 DEF Recovered, Jobs
<1>2. CASE j.stalls # 1
  <2> DEFINE k == [j EXCEPT !.state = "ready"]
             l == [k EXCEPT !.stalls = 1]
  <2>1. k \in Jobs /\ k.state = "ready" /\ k.made = j.made
    BY DEF Jobs
  <2>2. Recovered(j) = [l EXCEPT !.by = None]
    BY <1>2 DEF Recovered
  <2> HIDE DEF k
  <2>3. l \in Jobs /\ l.state = k.state /\ l.made = k.made
    BY <2>1 DEF Jobs
  <2> HIDE DEF l
  <2> QED
    BY <2>1, <2>2, <2>3 DEF Jobs
<1> QED
  BY <1>1, <1>2

LEMMA StallStep == ASSUME IInv, NEW i \in Items, Stall(i) PROVE IInv'
<1> USE DEF IInv
<1>1. job[i] \in Jobs /\ job[i].state = "active" /\ failing[i] = "no" /\ job[i].made < Attempts
  BY DEF TypeOK, Stall, JobsOK
<1>2. /\ Recovered(job[i]) \in Jobs /\ Recovered(job[i]).state \in {"ready", "failed"}
      /\ Recovered(job[i]).made < Attempts
  BY <1>1, Recovery
<1>3. job' = [job EXCEPT ![i] = Recovered(job[i])] /\ failing' = [failing EXCEPT ![i] = "no"]
  BY <1>1 DEF Stall, TypeOK
<1>4. UNCHANGED <<batch, item, event, letters, posts, worker, excuse, forgotten>>
  BY DEF Stall, manifest
<1>5. Blamed /\ overlap' \subseteq Items /\ lost' \subseteq Items /\ faults' \in 0..MaxFaults
  BY <1>4 DEF Stall, Fault, Saved, TypeOK, Blamed
<1>6. i \notin overlap' => i \notin overlap /\ \A w \in Workers : worker[w].row # i
  BY DEF Stall, AloneOK, Alone
<1>7. i \notin Disturbed' => ~Ended(i)
  BY <1>1, <1>4, <1>6 DEF Stall, ClosingOK, Closing, Disturbed
<1> QED
  BY <1>1, <1>2, <1>3, <1>4, <1>5, <1>6, <1>7, QueueStep DEF TypeOK

LEMMA EvictStep == ASSUME IInv, NEW i \in Items, Evict(i) PROVE IInv'
<1> USE DEF IInv
<1>1. job[i].state \in {"completed", "failed"} /\ failing[i] = "no"
  BY DEF Evict
<1>2. NoJob \in Jobs /\ NoJob.state = "none"
  BY DEF NoJob, Jobs
<1>3. job' = [job EXCEPT ![i] = NoJob] /\ failing' = [failing EXCEPT ![i] = "no"]
  BY <1>1 DEF Evict, TypeOK
<1>4. UNCHANGED <<batch, item, event, letters, posts, worker, excuse, overlap, lost>>
  BY DEF Evict, manifest
<1>5. Blamed /\ forgotten' \subseteq Items /\ faults' \in 0..MaxFaults
  BY <1>4 DEF Evict, Fault, TypeOK, Blamed
<1>6. i \notin overlap => \A w \in Workers : worker[w].row # i
  BY <1>1 DEF AloneOK, Alone
<1>7. i \notin Disturbed' => ~Ended(i)
  BY DEF Evict, Ended, Disturbed
<1> QED
  BY <1>1, <1>2, <1>3, <1>4, <1>5, <1>6, <1>7, QueueStep DEF TypeOK

\* While the callback has something to do, the row has not ended and nobody is
\* at it.
LEMMA Calling ==
  ASSUME IInv, NEW i \in Items, failing[i] # "no"
  PROVE  /\ job[i].state = "failed" /\ batch # "none"
         /\ i \notin overlap => \A w \in Workers : worker[w].row # i
         /\ i \notin Disturbed => ~Ended(i) /\ scheduled[i] = {}
<1>1. job[i].state = "failed" /\ batch # "none"
  BY DEF IInv, JobsOK, Dormant
<1>2. i \notin overlap => \A w \in Workers : worker[w].row # i
  BY <1>1 DEF IInv, AloneOK, Alone
<1>3. i \notin Disturbed => ~Ended(i) /\ scheduled[i] = {}
  BY <1>1, <1>2 DEF IInv, ClosingOK, Closing, Ended, Disturbed
<1> QED
  BY <1>1, <1>2, <1>3

LEMMA FailCountStep == ASSUME IInv, NEW i \in Items, FailCount(i) PROVE IInv'
<1> DEFINE f == IF Settled(i) THEN "alone" ELSE "among"
<1>1. job[i] \in Jobs /\ job[i].state = "failed"
  BY Calling DEF IInv, TypeOK, FailCount
<1>2. job' = [job EXCEPT ![i] = job[i]] /\ failing' = [failing EXCEPT ![i] = f]
  BY DEF FailCount, IInv, TypeOK
<1>3. UNCHANGED <<batch, item, event, letters, posts, worker, excuse, overlap, forgotten, lost, faults>>
  BY DEF FailCount, manifest, ghosts
<1>4. Blamed /\ excuse' \subseteq Items /\ overlap' \subseteq Items /\ forgotten' \subseteq Items
      /\ lost' \subseteq Items /\ faults' \in 0..MaxFaults
  BY <1>3 DEF IInv, TypeOK, Blamed
<1>5. f \in {"alone", "among"} /\ (f = "alone" => Settled(i))
  OBVIOUS
<1>6. /\ i \notin overlap' => i \notin overlap /\ \A w \in Workers : worker[w].row # i
      /\ i \notin Disturbed' => ~Ended(i)
  BY <1>3, Calling DEF FailCount, Disturbed
<1> HIDE DEF f
<1> QED
  BY <1>1, <1>2, <1>3, <1>4, <1>5, <1>6, QueueStep

LEMMA FailCommitStep == ASSUME IInv, NEW i \in Items, FailCommit(i) PROVE IInv'
<1> USE DEF IInv
<1>1. /\ failing[i] \in {"alone", "among"} /\ failing' = [failing EXCEPT ![i] = "no"]
      /\ UNCHANGED <<event, letters, job, posts, worker, excuse, overlap, forgotten>>
  BY DEF FailCommit
<1>2. /\ job[i].state = "failed" /\ batch # "none"
      /\ i \notin overlap => \A w \in Workers : worker[w].row # i
      /\ i \notin Disturbed => ~Ended(i) /\ scheduled[i] = {}
  BY <1>1, Calling
<1>3. \/ item' = [item EXCEPT ![i].status = "FAILED"] /\ batch' = Closed(failing[i] = "alone")
      \/ UNCHANGED <<batch, item>>
  BY DEF FailCommit, manifest
<1>4. \A j \in Items :
        /\ j # i => item'[j] = item[j]
        /\ item'[j].post = item[j].post
        /\ item'[j].status = item[j].status \/ (j = i /\ item'[j].status = "FAILED")
  BY <1>3 DEF TypeOK, Rows
<1>5. TypeOK'
  <2>1. /\ item' \in [Items -> Rows]
        /\ batch' \in {"none", "PROCESSING", "COMPLETED"}
    <3>1. item' \in [Items -> Rows]
      BY <1>3 DEF TypeOK, Rows
    <3>2. batch' \in {"none", "PROCESSING", "COMPLETED"}
      BY <1>3 DEF TypeOK, Closed
    <3> QED
      BY <3>1, <3>2
  <2>2. faults' \in 0..MaxFaults /\ lost' \subseteq Items
    BY DEF TypeOK, FailCommit, Fault, Saved
  <2> QED
    BY <1>1, <2>1, <2>2 DEF TypeOK, posts
<1>6. SlotsOK' /\ JobsOK' /\ Dormant'
  <2>1. batch' # "none"
    BY <1>2, <1>3 DEF Closed
  <2> QED
    BY <1>1, <2>1 DEF SlotsOK, JobsOK, Dormant, TypeOK
<1>7. CountsOK'
  <2>1. batch' = "COMPLETED" =>
          batch = "COMPLETED" \/ \A j \in Items : item'[j].status # "PENDING"
    BY <1>3, <1>4 DEF Closed, CountsOK, Settled, TypeOK, Rows
  <2> QED
    BY <1>1, <1>4, <2>1, CountsKept DEF TypeOK
<1>8. Blamed /\ \A j \in Items \ {i} : Untouched(j)
  BY <1>1, <1>4 DEF Blamed, Untouched, TypeOK, posts
<1>9. i \notin overlap' => Alone(i)' /\ Carried(i)' /\ Named(i)'
  BY <1>1, <1>2, <1>4 DEF AloneOK, Alone, Carried, Named, posts
<1>10. i \notin (excuse \cup overlap)' => Once(i)'
  BY <1>1, <1>2, <1>4 DEF OnceOK, Once, posts
<1>11. i \notin Disturbed' => Closing(i)'
  BY <1>1, <1>2, <1>4 DEF Closing, Disturbed, posts, TypeOK
<1> QED
  BY <1>5, <1>6, <1>7, <1>8, <1>9, <1>10, <1>11, RowsKept

\* The row a worker is at; as long as nobody else was at it, nobody is, and it
\* has not ended unless the worker has.
LEMMA Hand ==
  ASSUME IInv, NEW w \in Workers, NEW i, i = worker[w].row, worker[w].pc # "idle"
  PROVE  /\ i \in Items /\ batch # "none"
         /\ i \notin overlap =>
              /\ Alone(i) /\ Carried(i) /\ Named(i) /\ Holds(w)
              /\ \A v \in Workers \ {w} : worker[v].row # i
         /\ i \notin excuse \cup overlap => Once(i)
         /\ i \notin Disturbed =>
              /\ Ended(i) => worker[w].pc = "done"
              /\ scheduled[i] # {} => item[i].status = "SCHEDULED" \/ Succeeds(w)
<1>1. i \in Items /\ batch # "none"
  BY DEF IInv, SlotsOK, Dormant
<1>2. i \notin overlap =>
        /\ Alone(i) /\ Carried(i) /\ Named(i) /\ Holds(w)
        /\ \A v \in Workers \ {w} : worker[v].row # i
  BY <1>1 DEF IInv, AloneOK, Alone, Holds
<1>3. i \notin excuse \cup overlap => Once(i)
  BY <1>1 DEF IInv, OnceOK
<1>4. i \notin Disturbed =>
        /\ Ended(i) => worker[w].pc = "done"
        /\ scheduled[i] # {} => item[i].status = "SCHEDULED" \/ Succeeds(w)
  BY <1>1, <1>2 DEF IInv, ClosingOK, Closing, Disturbed, Holds
<1> QED
  BY <1>1, <1>2, <1>3, <1>4

LEMMA FinishStep == ASSUME IInv, NEW w \in Workers, Finish(w) PROVE IInv'
<1> USE DEF IInv, manifest, posts, ghosts
<1>0. PICK i : i = worker[w].row
  OBVIOUS
<1>1. /\ worker[w].pc \in {"done", "throw"} /\ worker' = [worker EXCEPT ![w] = Idle]
      /\ UNCHANGED <<batch, item, event, letters, created, scheduled, excuse, overlap, forgotten, lost, faults>>
  BY DEF Finish
<1>2. i \in Items /\ batch # "none"
  BY <1>0, <1>1, Hand
<1>3. job[i] \in Jobs
  BY <1>2 DEF TypeOK
<1>4. PICK j \in Jobs, f \in {"no", "due", "alone", "among"} :
        /\ job' = [job EXCEPT ![i] = j] /\ failing' = [failing EXCEPT ![i] = f]
        /\ j.state = "ready" => j.made < Attempts
        /\ j.state = "active" => j = job[i]
        /\ f # "no" => j.state = "failed"
        /\ f # "alone" \/ f = failing[i]
        /\ Holds(w) => \/ j.state = "completed" /\ f = "no"
                       \/ j.state \in {"ready", "failed"} /\ worker[w].pc = "throw"
  <2>1. CASE ~Holds(w)
    <3>1. job' = [job EXCEPT ![i] = job[i]] /\ failing' = [failing EXCEPT ![i] = failing[i]]
          /\ failing[i] \in {"no", "due", "alone", "among"}
      BY <1>0, <1>2, <2>1 DEF Finish, TypeOK
    <3> QED
      BY <1>0, <1>2, <1>3, <2>1, <3>1 DEF JobsOK
  <2>2. CASE Holds(w) /\ worker[w].pc = "done"
    <3> DEFINE j == [job[i] EXCEPT !.state = "completed", !.by = None]
    <3>1. j \in Jobs /\ j.state = "completed"
      BY <1>3 DEF Jobs
    <3>2. job' = [job EXCEPT ![i] = j] /\ failing' = [failing EXCEPT ![i] = "no"]
      BY <1>0, <1>2, <2>2 DEF Finish, TypeOK, JobsOK, Holds
    <3> HIDE DEF j
    <3> QED
      BY <2>2, <3>1, <3>2
  <2>3. CASE Holds(w) /\ worker[w].pc = "throw"
    <3> DEFINE j == [job[i] EXCEPT !.made = job[i].made + 1, !.by = None,
                                   !.state = IF MayRetry(i) THEN "ready" ELSE "failed"]
    <3>1. job[i].made < Attempts /\ failing[i] = "no"
      BY <1>0, <1>2, <2>3 DEF JobsOK, Holds
    <3>2. j \in Jobs /\ j.state = (IF MayRetry(i) THEN "ready" ELSE "failed")
          /\ j.made = job[i].made + 1
      <4>1. job[i].made + 1 \in 0..Attempts
        BY <1>3, <3>1 DEF Jobs
      <4> QED
        BY <1>3, <4>1 DEF Jobs
    <3>3. job' = [job EXCEPT ![i] = j]
          /\ failing' = [failing EXCEPT ![i] = IF Exhausted(i) THEN "due" ELSE "no"]
      <4>1. failing = [failing EXCEPT ![i] = "no"]
        BY <1>2, <3>1 DEF TypeOK
      <4>2. job' = [job EXCEPT ![i] = j]
        BY <1>0, <2>3 DEF Finish, MayRetry
      <4>3. failing' = IF Exhausted(i) THEN [failing EXCEPT ![i] = "due"] ELSE failing
        BY <1>0, <2>3 DEF Finish
      <4> QED
        BY <4>1, <4>2, <4>3
    <3>4. (MayRetry(i) => j.made < Attempts) /\ (MayRetry(i) <=> ~Exhausted(i))
      BY <1>3, <3>2 DEF MayRetry, Exhausted, Jobs
    <3> HIDE DEF j
    <3> QED
      BY <2>3, <3>2, <3>3, <3>4
  <2> QED
    BY <1>1, <2>1, <2>2, <2>3
<1>5. TypeOK'
  BY <1>1, <1>2, <1>4, IdleTyped DEF TypeOK
<1>6. SlotsOK' /\ Dormant'
  BY <1>1, <1>2, IdleTyped DEF SlotsOK, Dormant, TypeOK
<1>7. JobsOK'
  BY <1>2, <1>4 DEF JobsOK, TypeOK
<1>8. CountsOK'
  BY <1>1, <1>2, <1>4, IdleTyped, CountsKept DEF CountsOK, CompletionIsHonest, TypeOK
<1>9. Blamed /\ \A k \in Items \ {i} : Untouched(k)
  BY <1>0, <1>1, <1>2, <1>4, IdleTyped DEF Blamed, Untouched, TypeOK
<1>10. i \notin overlap => Holds(w) /\ \A v \in Workers : worker'[v].row # i
  BY <1>0, <1>1, <1>2, Hand, IdleTyped DEF TypeOK
<1>11. i \notin overlap' => Alone(i)' /\ Carried(i)' /\ Named(i)'
  BY <1>0, <1>1, <1>2, <1>10 DEF AloneOK, Alone, Carried, Named
<1>12. i \notin (excuse \cup overlap)' => Once(i)'
  BY <1>0, <1>1, <1>2, <1>10, Hand DEF Once
<1>13. i \notin Disturbed' => Closing(i)'
  <2>1. Ended(i)' <=> Ended(i)
    BY <1>1 DEF Ended
  <2>3. ASSUME i \notin Disturbed, Ended(i) PROVE job'[i].state = "completed"
    BY <1>0, <1>1, <1>2, <1>4, <1>10, <2>3, Hand DEF Disturbed, TypeOK
  <2>4. ASSUME i \notin Disturbed, scheduled[i] # {} PROVE item[i].status = "SCHEDULED"
    BY <1>0, <1>1, <2>4, Hand DEF Succeeds
  <2> QED
    BY <1>1, <2>1, <2>3, <2>4 DEF Closing, Disturbed
<1> QED
  BY <1>2, <1>5, <1>6, <1>7, <1>8, <1>9, <1>11, <1>12, <1>13, RowsKept

\* An attempt's step at its row.  What is left to each step: the counts, and what
\* the row and the attempt say of each other.
LEMMA AttemptStep ==
  ASSUME IInv, NEW w \in Workers, NEW i, i = worker[w].row, worker[w].pc # "idle",
         UNCHANGED <<event, letters, job, failing, overlap, forgotten, lost>>,
         worker' \in [Workers -> Runs], \A v \in Workers \ {w} : worker'[v] = worker[v],
         worker'[w].row = i, worker'[w].pc # "idle",
         worker'[w].pc \in {"persist", "load", "save"} => worker'[w].post # 0,
         batch' \in {"PROCESSING", "COMPLETED"}, faults' \in 0..MaxFaults,
         item' \in [Items -> Rows], created' \in [Items -> Ids],
         scheduled' \in [Items -> SUBSET (1..Copies)],
         \A k \in Items \ {i} :
           item'[k] = item[k] /\ created'[k] = created[k] /\ scheduled'[k] = scheduled[k],
         excuse' = excuse \/ excuse' = excuse \cup {i},
         CountsOK',
         i \notin overlap => Carried(i)' /\ Named(i)',
         i \notin excuse' \cup overlap => Once(i)',
         i \notin excuse' \cup overlap \cup forgotten =>
           /\ item'[i].status \in {"SCHEDULED", "FAILED"} => worker'[w].pc = "done"
           /\ scheduled'[i] # {} =>
                \/ item'[i].status = "SCHEDULED"
                \/ worker'[w].pc \in {"count", "commit"} /\ worker'[w].to = "SCHEDULED"
  PROVE  IInv'
<1> USE DEF IInv
<1>1. /\ i \in Items /\ batch # "none"
      /\ i \notin overlap => Holds(w) /\ Alone(i) /\ \A v \in Workers \ {w} : worker[v].row # i
  BY Hand
<1>2. TypeOK'
  BY <1>1 DEF TypeOK
<1>3. SlotsOK' /\ JobsOK'
  BY <1>1 DEF SlotsOK, JobsOK
<1>4. Dormant'
  BY DEF Dormant
<1>5. Blamed /\ \A k \in Items \ {i} : Untouched(k)
  BY <1>1 DEF Blamed, Untouched
<1>6. i \notin overlap' => Alone(i)'
  BY <1>1 DEF Alone
<1>7. i \notin Disturbed' => Closing(i)'
  BY <1>1 DEF Closing, Ended, Succeeds, Disturbed, Holds
<1> QED
  BY <1>1, <1>2, <1>3, <1>4, <1>5, <1>6, <1>7, RowsKept

\* Before it has counted, an attempt's step leaves the counts alone.
LEMMA CountsUntouched ==
  ASSUME IInv, NEW w \in Workers, \A v \in Workers \ {w} : worker'[v] = worker[v],
         worker'[w].pc # "commit", UNCHANGED <<batch, failing>>,
         \A j \in Items : item'[j].status = item[j].status
  PROVE  CountsOK'
  BY CountsKept DEF IInv, CountsOK, CompletionIsHonest

\* Steps of an attempt that change nothing but the attempt.
LEMMA ReadStep ==
  ASSUME IInv, NEW w \in Workers, NEW i, i = worker[w].row, worker[w].pc # "idle",
         UNCHANGED <<batch, item, event, letters, job, created, scheduled, failing, excuse, overlap,
                     forgotten, lost>>,
         faults' \in 0..MaxFaults,
         worker' \in [Workers -> Runs], \A v \in Workers \ {w} : worker'[v] = worker[v],
         worker'[w].row = i, worker'[w].pc \notin {"idle", "persist", "commit"},
         worker'[w].pc = "count" => worker'[w].to = "FAILED",
         worker'[w].pc \in {"load", "save"} =>
           worker'[w].post # 0 /\ (i \notin overlap => worker'[w].post = item[i].post),
         worker'[w].pc = "create" => item[i].post = 0 /\ worker[w].pc = "find",
         worker[w].pc \notin {"persist", "done"}, ~Succeeds(w)
  PROVE  IInv'
<1>1. /\ i \in Items /\ batch # "none"
      /\ i \notin overlap =>
              /\ Alone(i) /\ Carried(i) /\ Named(i) /\ Holds(w)
              /\ \A v \in Workers \ {w} : worker[v].row # i
      /\ i \notin excuse \cup overlap => Once(i)
      /\ i \notin Disturbed =>
              /\ Ended(i) => worker[w].pc = "done"
              /\ scheduled[i] # {} => item[i].status = "SCHEDULED" \/ Succeeds(w)
  BY Hand
<1>2. /\ item' \in [Items -> Rows] /\ created' \in [Items -> Ids]
      /\ scheduled' \in [Items -> SUBSET (1..Copies)]
      /\ batch' \in {"PROCESSING", "COMPLETED"}
  BY <1>1 DEF IInv, TypeOK
<1>3. CountsOK'
  BY CountsUntouched
<1>4. i \notin overlap => Carried(i)' /\ Named(i)'
  BY <1>1 DEF Carried, Named, Succeeds
<1>5. i \notin excuse \cup overlap => Once(i)'
  BY <1>1, <1>2 DEF Once, Ids
<1>6. i \notin excuse' \cup overlap \cup forgotten =>
        item[i].status \notin {"SCHEDULED", "FAILED"} /\ scheduled[i] = {}
  BY <1>1 DEF Ended, Disturbed
<1> QED
  BY <1>2, <1>3, <1>4, <1>5, <1>6, AttemptStep

LEMMA Spent == ASSUME IInv, Fault \/ Saved PROVE faults' \in 0..MaxFaults
  BY DEF IInv, TypeOK, Fault, Saved

\* How an attempt moves on.
Moves(w, pc) ==
  /\ worker' \in [Workers -> Runs] /\ \A v \in Workers \ {w} : worker'[v] = worker[v]
  /\ worker'[w].pc = pc /\ worker'[w].row = worker[w].row

LEMMA GotoMoves ==
  ASSUME TypeOK, NEW w \in Workers, NEW pc \in {"load", "save", "done", "throw"}, Goto(w, pc)
  PROVE  Moves(w, pc) /\ worker'[w].post = worker[w].post
<1>1. worker[w] \in Runs /\ worker' = [worker EXCEPT ![w] = [worker[w] EXCEPT !.pc = pc]]
  BY DEF TypeOK, Goto
<1>2. [worker[w] EXCEPT !.pc = pc] \in Runs
  BY <1>1 DEF Runs
<1> QED
  BY <1>1, <1>2 DEF Moves, TypeOK, Runs

LEMMA CountMoves ==
  ASSUME TypeOK, NEW w \in Workers, NEW to \in {"SCHEDULED", "FAILED"},
         worker' = [worker EXCEPT ![w] = [@ EXCEPT !.pc = "count", !.to = to]]
  PROVE  Moves(w, "count") /\ worker'[w].to = to /\ worker'[w].post = worker[w].post
<1>1. worker[w] \in Runs
  BY DEF TypeOK
<1>2. [worker[w] EXCEPT !.pc = "count", !.to = to] \in Runs
  BY <1>1 DEF Runs
<1> QED
  BY <1>1, <1>2 DEF Moves, TypeOK, Runs

LEMMA CommitMoves ==
  ASSUME TypeOK, NEW w \in Workers, NEW b \in BOOLEAN,
         worker' = [worker EXCEPT ![w] = [@ EXCEPT !.pc = "commit", !.last = b]]
  PROVE  /\ Moves(w, "commit") /\ worker'[w].last = b
         /\ worker'[w].to = worker[w].to /\ worker'[w].post = worker[w].post
<1>1. worker[w] \in Runs
  BY DEF TypeOK
<1>2. [worker[w] EXCEPT !.pc = "commit", !.last = b] \in Runs
  BY <1>1 DEF Runs
<1> QED
  BY <1>1, <1>2 DEF Moves, TypeOK, Runs

\* An attempt takes a post in hand.
LEMMA PostMoves ==
  ASSUME TypeOK, NEW w \in Workers, NEW p \in Ids, NEW pc \in {"create", "persist", "load"},
         \/ worker' = [worker EXCEPT ![w] = [@ EXCEPT !.post = p, !.pc = pc]]
         \/ worker' = [worker EXCEPT ![w] = [@ EXCEPT !.pc = pc, !.post = p]]
  PROVE  Moves(w, pc) /\ worker'[w].post = p
<1>1. worker[w] \in Runs
  BY DEF TypeOK
<1>2. /\ [worker[w] EXCEPT !.post = p, !.pc = pc] \in Runs
      /\ [worker[w] EXCEPT !.pc = pc, !.post = p] \in Runs
  BY <1>1 DEF Runs
<1>3. CASE worker' = [worker EXCEPT ![w] = [worker[w] EXCEPT !.post = p, !.pc = pc]]
  BY <1>1, <1>2, <1>3 DEF Moves, TypeOK, Runs
<1>4. CASE worker' = [worker EXCEPT ![w] = [worker[w] EXCEPT !.pc = pc, !.post = p]]
  BY <1>1, <1>2, <1>4 DEF Moves, TypeOK, Runs
<1> QED
  BY <1>3, <1>4

LEMMA FindItemStep == ASSUME IInv, NEW w \in Workers, FindItem(w) PROVE IInv'
<1>1. PICK i : i = worker[w].row
  OBVIOUS
<1>2. /\ worker[w].pc = "find" /\ ~Succeeds(w) /\ TypeOK /\ faults' \in 0..MaxFaults
      /\ UNCHANGED <<batch, item, event, letters, job, created, scheduled, failing, excuse, overlap,
                     forgotten, lost>>
  BY Spent DEF FindItem, At, Succeeds, Fails, Quiet, posts, IInv
<1>3. i \in Items /\ item[i].post \in Ids
  BY <1>1, <1>2, Hand DEF TypeOK, Rows
<1>4. CASE Goto(w, "done") \/ Goto(w, "throw")
  <2>1. Moves(w, "done") \/ Moves(w, "throw")
    BY <1>2, <1>4, GotoMoves
  <2> QED
    BY <1>1, <1>2, <2>1, ReadStep DEF Moves
<1>5. CASE worker' = [worker EXCEPT ![w] =
             [@ EXCEPT !.post = Known(i), !.pc = IF Known(i) = 0 THEN "create" ELSE "load"]]
  <2>1. \/ item[i].post = 0 /\ Moves(w, "create")
        \/ item[i].post # 0 /\ Moves(w, "load") /\ worker'[w].post = item[i].post
    BY <1>2, <1>3, <1>5, PostMoves DEF Known
  <2> QED
    BY <1>1, <1>2, <2>1, ReadStep DEF Moves
<1> QED
  BY <1>1, <1>4, <1>5 DEF FindItem, Fails

LEMMA LoadPostStep == ASSUME IInv, NEW w \in Workers, LoadPost(w) PROVE IInv'
<1>1. PICK i : i = worker[w].row
  OBVIOUS
<1>2. /\ worker[w].pc = "load" /\ ~Succeeds(w) /\ TypeOK /\ faults' \in 0..MaxFaults
      /\ UNCHANGED <<batch, item, event, letters, job, created, scheduled, failing, excuse, overlap,
                     forgotten, lost>>
  BY Spent DEF LoadPost, At, Succeeds, Fails, Quiet, posts, IInv
<1>3. worker[w].post # 0 /\ (i \notin overlap => worker[w].post = item[i].post)
  BY <1>1, <1>2, Hand DEF IInv, SlotsOK, Carried
<1>4. CASE Goto(w, "save") \/ Goto(w, "throw")
  <2>1. (Moves(w, "save") \/ Moves(w, "throw")) /\ worker'[w].post = worker[w].post
    BY <1>2, <1>4, GotoMoves
  <2> QED
    BY <1>1, <1>2, <1>3, <2>1, ReadStep DEF Moves
<1>5. CASE Rejects(w)
  <2>1. Moves(w, "count") /\ worker'[w].to = "FAILED"
    BY <1>2, <1>5, CountMoves DEF Rejects
  <2> QED
    BY <1>1, <1>2, <2>1, ReadStep DEF Moves
<1> QED
  BY <1>4, <1>5 DEF LoadPost, Fails

LEMMA CreatePostStep == ASSUME IInv, NEW w \in Workers, CreatePost(w) PROVE IInv'
<1>1. PICK i : i = worker[w].row
  OBVIOUS
<1>2. /\ worker[w].pc = "create" /\ ~Succeeds(w) /\ TypeOK /\ faults' \in 0..MaxFaults
      /\ UNCHANGED <<batch, item, event, letters, job, scheduled, failing, overlap, forgotten, lost>>
  BY Spent DEF CreatePost, At, Succeeds, Fails, Quiet, IInv
<1>3. /\ i \in Items /\ batch \in {"PROCESSING", "COMPLETED"} /\ created[i] \in Ids
      /\ i \notin overlap => Carried(i) /\ Named(i) /\ \A v \in Workers \ {w} : worker[v].row # i
      /\ i \notin excuse \cup overlap => Once(i)
      /\ i \notin Disturbed => ~Ended(i) /\ scheduled[i] = {}
  BY <1>1, <1>2, Hand DEF TypeOK, Ended
<1>4. CASE Rejects(w) /\ UNCHANGED <<created, excuse>>
  <2>1. Moves(w, "count") /\ worker'[w].to = "FAILED"
    BY <1>2, <1>4, CountMoves DEF Rejects
  <2> QED
    BY <1>1, <1>2, <1>4, <2>1, ReadStep DEF Moves
<1>5. CASE Goto(w, "throw") /\ UNCHANGED <<created, excuse>>
  <2>1. Moves(w, "throw")
    BY <1>2, <1>5, GotoMoves
  <2> QED
    BY <1>1, <1>2, <1>5, <2>1, ReadStep DEF Moves
<1>6. CASE created[i] < Copies /\ created' = [created EXCEPT ![i] = @ + 1]
  <2>1. /\ created' \in [Items -> Ids] /\ created'[i] = created[i] + 1
        /\ \A k \in Items \ {i} : created'[k] = created[k]
    BY <1>2, <1>3, <1>6 DEF TypeOK, Ids
  <2>2. CASE /\ worker' = [worker EXCEPT ![w] = [@ EXCEPT !.pc = "persist", !.post = created'[i]]]
             /\ UNCHANGED excuse
    <3>1. Moves(w, "persist") /\ worker'[w].post = created'[i] /\ created'[i] # 0
      <4>1. created'[i] \in Ids /\ created'[i] # 0
        BY <1>3, <2>1 DEF Ids
      <4> QED
        BY <1>2, <2>2, <4>1, PostMoves
    <3>2. CountsOK'
      BY <1>2, <3>1, CountsUntouched DEF Moves
    <3>3. i \notin overlap => Carried(i)' /\ Named(i)'
      BY <1>1, <1>2, <1>3, <3>1 DEF Moves, Carried, Named, Succeeds
    <3>4. i \notin excuse' \cup overlap => Once(i)'
      BY <1>1, <1>2, <1>3, <2>1, <2>2, <3>1 DEF Moves, Once
    <3>5. i \notin excuse' \cup overlap \cup forgotten =>
            item[i].status \notin {"SCHEDULED", "FAILED"} /\ scheduled[i] = {}
      BY <1>3, <2>2 DEF Ended, Disturbed
    <3> QED
      BY <1>1, <1>2, <1>3, <2>1, <2>2, <3>1, <3>2, <3>3, <3>4, <3>5, AttemptStep
      DEF Moves, TypeOK
  <2>3. CASE Goto(w, "throw") /\ excuse' = excuse \cup {i}
    <3>1. Moves(w, "throw")
      BY <1>2, <2>3, GotoMoves
    <3>2. CountsOK'
      BY <1>2, <3>1, CountsUntouched DEF Moves
    <3>3. i \notin overlap => Carried(i)' /\ Named(i)'
      BY <1>1, <1>2, <1>3, <3>1 DEF Moves, Carried, Named, Succeeds
    <3> QED
      BY <1>1, <1>2, <1>3, <2>1, <2>3, <3>1, <3>2, <3>3, AttemptStep DEF Moves, TypeOK
  <2> QED
    BY <1>1, <1>6, <1>4, <1>5, <2>2, <2>3 DEF CreatePost, Fails
<1> QED
  BY <1>1, <1>4, <1>5, <1>6 DEF CreatePost, Fails

LEMMA PersistPostStep == ASSUME IInv, NEW w \in Workers, PersistPost(w) PROVE IInv'
<1>1. PICK i : i = worker[w].row
  OBVIOUS
<1>2. /\ worker[w].pc = "persist" /\ ~Succeeds(w) /\ TypeOK /\ faults' \in 0..MaxFaults
      /\ UNCHANGED <<batch, event, letters, job, created, scheduled, failing, overlap, forgotten, lost>>
  BY Spent DEF PersistPost, At, Succeeds, Fails, Quiet, posts, IInv
<1>3. /\ i \in Items /\ batch \in {"PROCESSING", "COMPLETED"} /\ item[i] \in Rows
      /\ worker[w].post \in Ids /\ worker[w].post # 0
      /\ i \notin overlap => Carried(i) /\ Named(i) /\ \A v \in Workers \ {w} : worker[v].row # i
      /\ i \notin excuse \cup overlap => Once(i)
      /\ i \notin Disturbed => ~Ended(i) /\ scheduled[i] = {}
  BY <1>1, <1>2, Hand DEF IInv, SlotsOK, TypeOK, Ended, Runs
<1>4. CASE item' = [item EXCEPT ![i].post = worker[w].post] /\ Goto(w, "load") /\ UNCHANGED excuse
  <2>1. Moves(w, "load") /\ worker'[w].post = worker[w].post
    BY <1>2, <1>4, GotoMoves
  <2>2. /\ item' \in [Items -> Rows] /\ item'[i].post = worker[w].post
        /\ item'[i].status = item[i].status /\ \A k \in Items \ {i} : item'[k] = item[k]
    BY <1>2, <1>3, <1>4 DEF TypeOK, Rows
  <2>3. CountsOK'
    BY <1>2, <2>1, <2>2, CountsUntouched DEF Moves
  <2>4. i \notin overlap => Carried(i)' /\ Named(i)'
    <3>1. i \notin overlap => scheduled[i] = {} /\ item[i].status # "SCHEDULED"
      BY <1>1, <1>2, <1>3 DEF Carried, Named
    <3> QED
      BY <1>1, <1>2, <1>3, <2>1, <2>2, <3>1 DEF Moves, Carried, Named, Succeeds
  <2>5. i \notin excuse' \cup overlap => Once(i)'
    BY <1>1, <1>2, <1>3, <1>4, <2>1, <2>2 DEF Moves, Once
  <2>6. i \notin excuse' \cup overlap \cup forgotten =>
          item'[i].status \notin {"SCHEDULED", "FAILED"} /\ scheduled[i] = {}
    BY <1>3, <1>4, <2>2 DEF Ended, Disturbed
  <2> QED
    BY <1>1, <1>2, <1>3, <1>4, <2>1, <2>2, <2>3, <2>4, <2>5, <2>6, AttemptStep DEF Moves, TypeOK
<1>5. CASE Goto(w, "throw") /\ UNCHANGED item /\ excuse' = excuse \cup {i}
  <2>1. Moves(w, "throw")
    BY <1>2, <1>5, GotoMoves
  <2>2. CountsOK'
    BY <1>2, <1>5, <2>1, CountsUntouched DEF Moves
  <2>3. i \notin overlap => Carried(i)' /\ Named(i)'
    BY <1>1, <1>2, <1>3, <1>5, <2>1 DEF Moves, Carried, Named, Succeeds
  <2> QED
    BY <1>1, <1>2, <1>3, <1>5, <2>1, <2>2, <2>3, AttemptStep DEF Moves, TypeOK
<1> QED
  BY <1>1, <1>4, <1>5 DEF PersistPost, Fails

LEMMA SavePostStep == ASSUME IInv, NEW w \in Workers, SavePost(w) PROVE IInv'
<1>1. PICK i : i = worker[w].row
  OBVIOUS
<1>2. /\ worker[w].pc = "save" /\ ~Succeeds(w) /\ TypeOK /\ faults' \in 0..MaxFaults
      /\ UNCHANGED <<batch, item, event, letters, job, created, failing, overlap, forgotten, lost>>
  BY Spent DEF SavePost, At, Succeeds, Fails, Quiet, IInv
<1>3. PICK p : p = worker[w].post
  OBVIOUS
<1>4. /\ i \in Items /\ batch \in {"PROCESSING", "COMPLETED"} /\ p \in 1..Copies
      /\ i \notin overlap =>
           /\ Carried(i) /\ Named(i) /\ \A v \in Workers \ {w} : worker[v].row # i
           /\ p = item[i].post
      /\ i \notin excuse \cup overlap => Once(i)
      /\ i \notin Disturbed => ~Ended(i)
  <2>1. p \in Ids /\ p # 0
    BY <1>2, <1>3 DEF IInv, SlotsOK, TypeOK, Runs
  <2> QED
    BY <1>1, <1>2, <1>3, <2>1, Hand DEF TypeOK, Ids, Carried
<1>5. CASE Goto(w, "throw") /\ UNCHANGED <<scheduled, excuse>>
  <2>1. Moves(w, "throw")
    BY <1>2, <1>5, GotoMoves
  <2> QED
    BY <1>1, <1>2, <1>5, <2>1, ReadStep DEF Moves
<1>6. CASE scheduled' = [scheduled EXCEPT ![i] = @ \cup {p}]
  <2>1. /\ scheduled' \in [Items -> SUBSET (1..Copies)] /\ scheduled'[i] = scheduled[i] \cup {p}
        /\ \A k \in Items \ {i} : scheduled'[k] = scheduled[k]
    BY <1>2, <1>4, <1>6 DEF TypeOK
  <2>2. i \notin overlap => Named(i)'
    BY <1>2, <1>4, <2>1 DEF Named
  <2>3. CASE /\ worker' = [worker EXCEPT ![w] = [@ EXCEPT !.pc = "count", !.to = "SCHEDULED"]]
             /\ UNCHANGED excuse
    <3>1. Moves(w, "count") /\ worker'[w].to = "SCHEDULED" /\ worker'[w].post = p
      BY <1>2, <1>3, <2>3, CountMoves
    <3>2. CountsOK'
      BY <1>2, <3>1, CountsUntouched DEF Moves
    <3>3. i \notin overlap => Carried(i)'
      BY <1>1, <1>2, <1>4, <2>1, <3>1 DEF Moves, Carried, Succeeds
    <3>4. i \notin excuse' \cup overlap => Once(i)'
      BY <1>1, <1>2, <1>4, <2>3, <3>1 DEF Moves, Once
    <3>5. i \notin excuse' \cup overlap \cup forgotten =>
            item[i].status \notin {"SCHEDULED", "FAILED"}
      BY <1>4, <2>3 DEF Ended, Disturbed
    <3> QED
      BY <1>1, <1>2, <1>4, <2>1, <2>2, <2>3, <3>1, <3>2, <3>3, <3>4, <3>5, AttemptStep
      DEF Moves, TypeOK
  <2>4. CASE Goto(w, "throw") /\ excuse' = excuse \cup {i}
    <3>1. Moves(w, "throw")
      BY <1>2, <2>4, GotoMoves
    <3>2. CountsOK'
      BY <1>2, <3>1, CountsUntouched DEF Moves
    <3>3. i \notin overlap => Carried(i)'
      BY <1>1, <1>2, <1>4, <3>1 DEF Moves, Carried, Succeeds
    <3> QED
      BY <1>1, <1>2, <1>4, <2>1, <2>2, <2>4, <3>1, <3>2, <3>3, AttemptStep DEF Moves, TypeOK
  <2> QED
    BY <1>1, <1>3, <1>5, <1>6, <2>3, <2>4 DEF SavePost, Fails
<1> QED
  BY <1>1, <1>3, <1>5, <1>6 DEF SavePost, Fails

LEMMA CountPendingStep == ASSUME IInv, NEW w \in Workers, CountPending(w) PROVE IInv'
<1>1. PICK i : i = worker[w].row
  OBVIOUS
<1>2. /\ worker[w].pc = "count" /\ TypeOK /\ faults' \in 0..MaxFaults
      /\ UNCHANGED <<batch, item, event, letters, job, created, scheduled, failing, excuse, overlap,
                     forgotten, lost>>
  BY Spent DEF CountPending, At, Quiet, posts, IInv
<1>3. /\ i \in Items /\ batch \in {"PROCESSING", "COMPLETED"}
      /\ i \notin overlap => Carried(i) /\ Named(i) /\ \A v \in Workers \ {w} : worker[v].row # i
      /\ i \notin excuse \cup overlap => Once(i)
      /\ i \notin Disturbed =>
           ~Ended(i) /\ (scheduled[i] # {} => item[i].status = "SCHEDULED" \/ Succeeds(w))
  BY <1>1, <1>2, Hand DEF TypeOK, Ended
<1>4. /\ Moves(w, "commit") /\ worker'[w].last = Settled(i)
      /\ worker'[w].to = worker[w].to /\ worker'[w].post = worker[w].post
  <2>1. Settled(i) \in BOOLEAN
    BY DEF Settled
  <2> QED
    BY <1>1, <1>2, <2>1, CommitMoves DEF CountPending
<1>5. CountsOK'
  BY <1>1, <1>2, <1>4, CountsKept DEF IInv, CountsOK, CompletionIsHonest, Moves
<1>6. i \notin overlap => Carried(i)' /\ Named(i)'
  BY <1>1, <1>2, <1>3, <1>4 DEF Moves, Carried, Named, Succeeds
<1>7. i \notin excuse' \cup overlap => Once(i)'
  BY <1>1, <1>2, <1>3, <1>4 DEF Moves, Once
<1>8. i \notin excuse' \cup overlap \cup forgotten =>
        /\ item[i].status \notin {"SCHEDULED", "FAILED"}
        /\ scheduled[i] # {} => worker[w].to = "SCHEDULED"
  BY <1>2, <1>3 DEF Ended, Disturbed, Succeeds
<1> QED
  BY <1>1, <1>2, <1>3, <1>4, <1>5, <1>6, <1>7, <1>8, AttemptStep DEF Moves, TypeOK

LEMMA CommitItemStep == ASSUME IInv, NEW w \in Workers, CommitItem(w) PROVE IInv'
<1>1. PICK i : i = worker[w].row
  OBVIOUS
<1>2. /\ worker[w].pc = "commit" /\ TypeOK /\ faults' \in 0..MaxFaults /\ worker[w] \in Runs
      /\ UNCHANGED <<event, letters, job, created, scheduled, failing, overlap, forgotten, lost>>
  BY Spent DEF CommitItem, At, Fails, posts, IInv, TypeOK
<1>3. /\ i \in Items /\ batch \in {"PROCESSING", "COMPLETED"} /\ item[i] \in Rows
      /\ i \notin overlap => Carried(i) /\ Named(i) /\ \A v \in Workers \ {w} : worker[v].row # i
      /\ i \notin excuse \cup overlap => Once(i)
      /\ i \notin Disturbed =>
           ~Ended(i) /\ (scheduled[i] # {} => worker[w].to = "SCHEDULED")
  BY <1>1, <1>2, Hand DEF TypeOK, Ended, Succeeds
<1>4. CASE UNCHANGED manifest /\ Goto(w, "throw")
           /\ excuse' = IF worker[w].to = "SCHEDULED" THEN excuse \cup {i} ELSE excuse
  <2>1. Moves(w, "throw") /\ UNCHANGED <<item, batch>>
    BY <1>2, <1>4, GotoMoves DEF manifest
  <2>2. CountsOK'
    BY <1>2, <2>1, CountsUntouched DEF Moves
  <2>3. i \notin overlap => Carried(i)' /\ Named(i)'
    BY <1>1, <1>2, <1>3, <2>1 DEF Moves, Carried, Named, Succeeds
  <2>4. i \notin excuse' \cup overlap => Once(i)'
    BY <1>1, <1>2, <1>3, <1>4, <2>1 DEF Moves, Once
  <2>5. i \notin excuse' \cup overlap \cup forgotten =>
          item[i].status \notin {"SCHEDULED", "FAILED"} /\ scheduled[i] = {}
    BY <1>3, <1>4 DEF Ended, Disturbed
  <2> QED
    BY <1>1, <1>2, <1>3, <1>4, <2>1, <2>2, <2>3, <2>4, <2>5, AttemptStep DEF Moves, TypeOK
<1>5. CASE /\ batch' = Closed(worker[w].last)
           /\ item' = [item EXCEPT ![i] =
                [status |-> worker[w].to,
                 post   |-> IF worker[w].to = "SCHEDULED" THEN worker[w].post ELSE @.post]]
           /\ \/ Goto(w, "done") /\ UNCHANGED excuse
              \/ Goto(w, "throw") /\ excuse' = excuse \cup {i}
  <2>1. /\ Moves(w, "done") \/ Moves(w, "throw")
        /\ excuse' = excuse \/ excuse' = excuse \cup {i}
        /\ i \notin excuse' => Moves(w, "done") /\ i \notin excuse
    BY <1>2, <1>5, GotoMoves
  <2>2. /\ item'[i].status = worker[w].to /\ worker[w].to \in {"SCHEDULED", "FAILED"}
        /\ item'[i].post = IF worker[w].to = "SCHEDULED" THEN worker[w].post ELSE item[i].post
        /\ item' \in [Items -> Rows] /\ \A k \in Items \ {i} : item'[k] = item[k]
    BY <1>2, <1>3, <1>5 DEF TypeOK, Rows, Runs
  <2>3. CountsOK'
    <3>1. batch' = "COMPLETED" =>
            batch = "COMPLETED" \/ \A j \in Items : item'[j].status # "PENDING"
      BY <1>1, <1>2, <1>5, <2>2 DEF Closed, IInv, CountsOK, Settled
    <3> QED
      BY <1>2, <1>3, <2>1, <2>2, <3>1, CountsKept DEF IInv, Moves
  <2>4. i \notin overlap => Carried(i)' /\ Named(i)'
    BY <1>1, <1>2, <1>3, <2>1, <2>2 DEF Moves, Carried, Named, Succeeds
  <2>5. i \notin excuse' \cup overlap => Once(i)'
    <3>1. i \notin overlap /\ worker[w].to = "SCHEDULED" => item'[i].post = item[i].post
      BY <1>1, <1>2, <1>3, <2>2 DEF Carried, Succeeds
    <3> QED
      BY <1>1, <1>2, <1>3, <1>5, <2>1, <2>2, <3>1 DEF Moves, Once
  <2>6. i \notin excuse' \cup overlap \cup forgotten =>
          (scheduled[i] # {} => item'[i].status = "SCHEDULED")
    BY <1>3, <1>5, <2>2 DEF Disturbed
  <2>7. batch' \in {"PROCESSING", "COMPLETED"}
    BY <1>3, <1>5 DEF Closed
  <2> QED
    BY <1>1, <1>2, <1>3, <1>5, <2>1, <2>2, <2>3, <2>4, <2>5, <2>6, <2>7, AttemptStep
    DEF Moves, TypeOK
<1> QED
  BY <1>1, <1>4, <1>5 DEF CommitItem, Fails

LEMMA CrashStep ==
  ASSUME IInv, NEW ws \in SUBSET Workers, NEW is \in SUBSET Items, Crash(ws, is)
  PROVE  IInv'
<1> USE DEF IInv
<1>1. /\ worker' = [w \in Workers |-> IF w \in ws THEN Idle ELSE worker[w]]
      /\ failing' = [i \in Items |-> IF i \in is THEN "no" ELSE failing[i]]
      /\ UNCHANGED <<batch, item, event, letter, job, created, scheduled, overlap, forgotten>>
      /\ swept' \in {swept, {}} /\ Fault /\ excuse \subseteq excuse' /\ lost \subseteq lost'
      /\ \A w \in ws : worker[w].pc # "idle" /\ Unrecorded(w) => worker[w].row \in excuse'
  BY DEF Crash, manifest, posts, At
<1>2. TypeOK'
  <2>1. faults' \in 0..MaxFaults
    BY <1>1, Spent
  <2>2. excuse' \subseteq Items /\ lost' \subseteq Items
    BY DEF Crash, At, SlotsOK, TypeOK
  <2>3. worker' \in [Workers -> Runs] /\ failing' \in [Items -> {"no", "due", "alone", "among"}]
    BY <1>1, IdleTyped DEF TypeOK
  <2> QED
    BY <1>1, <2>1, <2>2, <2>3 DEF TypeOK
<1>3. /\ \A w \in Workers : worker'[w] = worker[w] \/ (worker'[w] = Idle /\ w \in ws)
      /\ \A i \in Items : failing'[i] = failing[i] \/ failing'[i] = "no"
  BY <1>1
<1>4. SlotsOK' /\ JobsOK'
  BY <1>1, <1>3, IdleTyped DEF SlotsOK, JobsOK
<1>5. Dormant'
  BY <1>1, <1>3, IdleTyped DEF Dormant
<1>6. CountsOK'
  BY <1>1, <1>3, IdleTyped, CountsKept DEF CountsOK, CompletionIsHonest
<1>7. \A i \in Items, w \in Workers : worker'[w].row = i => worker'[w] = worker[w]
  BY <1>3, IdleTyped
<1>8. \A w \in Workers : \/ worker'[w] = worker[w]
                         \/ worker[w].pc = "idle" \/ ~Unrecorded(w) \/ worker[w].row \in excuse'
  BY <1>1, <1>3
<1>9. ASSUME NEW i \in Items, i \notin overlap' PROVE Alone(i)' /\ Carried(i)' /\ Named(i)'
  BY <1>1, <1>7, <1>9 DEF AloneOK, Alone, Carried, Named, Succeeds
<1>10. ASSUME NEW i \in Items, i \notin (excuse \cup overlap)' PROVE Once(i)'
  BY <1>1, <1>7, <1>8, <1>10 DEF OnceOK, Once, Unrecorded, At
<1>11. ASSUME NEW i \in Items, i \notin Disturbed' PROVE Closing(i)'
  <2>1. Closing(i) /\ i \notin excuse'
    BY <1>1, <1>11 DEF ClosingOK, Disturbed
  <2>2. Ended(i) => \/ job[i].state = "completed"
                    \/ job[i].state = "failed" /\ failing'[i] = "no"
                    \/ /\ job[i].state = "active" /\ worker'[job[i].by].row = i
                       /\ worker'[job[i].by].pc = "done"
    BY <1>3, <1>8, <2>1 DEF Closing, Unrecorded, At, JobsOK
  <2>3. scheduled[i] # {} =>
          item[i].status = "SCHEDULED" \/ \E w \in Workers : worker'[w].row = i /\ Succeeds(w)'
    BY <1>8, <2>1 DEF Closing, Unrecorded, Succeeds
  <2> QED
    BY <1>1, <2>2, <2>3 DEF Closing, Ended
<1> QED
  BY <1>2, <1>4, <1>5, <1>6, <1>9, <1>10, <1>11 DEF AloneOK, OnceOK, ClosingOK

LEMMA Stutter == ASSUME IInv, UNCHANGED vars PROVE IInv'
  BY DEF vars, IInv, TypeOK, SlotsOK, JobsOK, Dormant, CountsOK, CompletionIsHonest, Settled,
         AloneOK, Alone, Carried, Succeeds, Named, OnceOK, Once, ClosingOK, Closing, Ended, Disturbed

-----------------------------------------------------------------------------
(* The theorems. *)

\* IInv is inductive: whatever confirms, dispatches, attempts, stalls, crashes
\* or is swept next, each of its parts is left as it was found.
THEOREM Invariance == Spec => []IInv
<1>1. Init => IInv
  BY InitIInv
<1>2. IInv /\ [Next]_vars => IInv'
  <2> SUFFICES ASSUME IInv, [Next]_vars PROVE IInv'
    OBVIOUS
  <2>1. CASE Confirm
    BY <2>1, ConfirmStep
  <2>2. ASSUME NEW i \in Items, RowStep(i) PROVE IInv'
    BY <2>2, FeedStep, StallStep, EvictStep, FailCountStep, FailCommitStep DEF RowStep, Feeds
  <2>3. ASSUME NEW w \in Workers, WorkerStep(w) PROVE IInv'
    BY <2>3, TakeStep, FindItemStep, CreatePostStep, PersistPostStep, LoadPostStep,
       SavePostStep, CountPendingStep, CommitItemStep, FinishStep DEF WorkerStep
  <2>4. ASSUME NEW ws \in SUBSET Workers, NEW is \in SUBSET Items, Crash(ws, is) PROVE IInv'
    BY <2>4, CrashStep
  <2>5. CASE UNCHANGED vars
    BY <2>5, Stutter
  <2>6. CASE Sweep
    BY <2>6, FeedStep DEF Feeds
  <2> QED
    BY <2>1, <2>2, <2>3, <2>4, <2>5, <2>6 DEF Next
<1> QED
  BY <1>1, <1>2, PTL DEF Spec

\* Types, for any number of rows, slots, attempts and faults.
THEOREM TypeCorrect == Spec => []TypeOK
<1>1. IInv => TypeOK
  BY DEF IInv
<1> QED
  BY <1>1, Invariance, PTL

\* A row has one post, unless a fault fell between a post and its record, or two
\* attempts ran at a time: ProcessBulkScheduleRowUseCase takes over what the item names.
THEOREM OnePost == Spec => []OnePostPerRow
<1>1. IInv => OnePostPerRow
  BY DEF IInv, TypeOK, Ids, OnceOK, Once, OnePostPerRow
<1> QED
  BY <1>1, Invariance, PTL

\* Only two attempts at a time schedule two posts for one row; crashes and failed
\* writes alone never do, because a scheduled post is the one the item names.
THEOREM NotTwice == Spec => []NoRowIsScheduledTwice
<1>1. ASSUME IInv, NEW i \in Items, i \notin overlap PROVE Cardinality(scheduled[i]) <= 1
  <2>1. scheduled[i] \in SUBSET {item[i].post}
    BY <1>1 DEF IInv, AloneOK, Named
  <2>2. IsFiniteSet({item[i].post}) /\ Cardinality({item[i].post}) = 1
    BY FS_Singleton
  <2>3. Cardinality(scheduled[i]) <= Cardinality({item[i].post})
    BY <2>1, <2>2, FS_Subset
  <2> QED
    BY <2>2, <2>3
<1>2. ASSUME IInv, NEW i \in Items PROVE Cardinality(scheduled[i]) \in Nat
  <2>1. IsFiniteSet(1..Copies)
    BY FS_Interval
  <2>2. scheduled[i] \in SUBSET (1..Copies)
    BY <1>2 DEF IInv, TypeOK
  <2> QED
    BY <2>1, <2>2, FS_Subset, FS_CardinalityType
<1>3. IInv => NoRowIsScheduledTwice
  BY <1>1, <1>2 DEF NoRowIsScheduledTwice
<1> QED
  BY <1>3, Invariance, PTL

\* What the manifest calls scheduled is, by the id it names.
THEOREM ScheduledHonest == Spec => []ScheduledIsScheduled
<1>1. IInv => ScheduledIsScheduled
  BY DEF IInv, AloneOK, Named, ScheduledIsScheduled
<1> QED
  BY <1>1, Invariance, PTL

\* A row reported FAILED has no scheduled post, unless a fault between a change
\* and its record, a second attempt or a job the queue forgot hid it.
THEOREM FailedHonest == Spec => []FailureIsHonest
<1>1. ASSUME IInv, NEW i \in Items, item[i].status = "FAILED", i \notin Disturbed
      PROVE  scheduled[i] = {}
  <2>1. Closing(i) /\ Alone(i)
    BY <1>1 DEF IInv, AloneOK, ClosingOK, Disturbed
  <2> QED
    BY <1>1, <2>1 DEF Closing, Alone, Ended, Succeeds
<1>2. IInv => FailureIsHonest
  BY <1>1 DEF FailureIsHonest
<1> QED
  BY <1>2, Invariance, PTL

\* The batch is completed only when no row is pending, though the counts of two
\* transactions miss what the other has not committed.
THEOREM Completed == Spec => []CompletionIsHonest
<1>1. IInv => CompletionIsHonest
  BY DEF IInv, CountsOK
<1> QED
  BY <1>1, Invariance, PTL

\* Only two writers change an item's status, the attempt's commit and the callback's;
\* neither comes to a row that ended undisturbed.
THEOREM EndingsKept == Spec => EndingsAreFinal
<1> DEFINE Kept == \A i \in Items : Ended(i) /\ item'[i].status # item[i].status => i \in Disturbed'
<1>1. IInv /\ IInv' /\ [Next]_vars => Kept
  <2> SUFFICES ASSUME IInv, [Next]_vars, NEW i \in Items, Ended(i), i \notin Disturbed',
                      item'[i].status # item[i].status
               PROVE  FALSE
    OBVIOUS
  <2>1. CASE Confirm
    BY <2>1 DEF Confirm, IInv, Dormant, Ended
  <2>2. ASSUME NEW j \in Items, RowStep(j) PROVE FALSE
    <3>1. j = i /\ FailCommit(j)
      BY <2>2 DEF RowStep, Dispatch, Redrive, ResolveLetter, RetryLetter, Stall, Evict, FailCount, FailCommit, manifest, IInv,
                  TypeOK
    <3>2. failing[i] # "no" /\ UNCHANGED <<excuse, overlap, forgotten>>
      BY <3>1 DEF FailCommit
    <3> QED
      BY <3>2, Calling DEF Disturbed
  <2>3. ASSUME NEW w \in Workers, WorkerStep(w) PROVE FALSE
    <3>1. CASE PersistPost(w)
      BY <3>1 DEF PersistPost, IInv, TypeOK, Rows
    <3>2. CASE CommitItem(w)
      <4>1. i = worker[w].row /\ worker[w].pc = "commit" /\ excuse \subseteq excuse'
            /\ UNCHANGED <<overlap, forgotten>>
        BY <3>2 DEF CommitItem, At, IInv, TypeOK, manifest, Fails
      <4> QED
        BY <4>1, Hand DEF Disturbed
    <3> QED
      BY <2>3, <3>1, <3>2 DEF WorkerStep, Take, FindItem, CreatePost, LoadPost, SavePost,
         CountPending, Finish, manifest, Quiet
  <2>4. ASSUME NEW ws \in SUBSET Workers, NEW is \in SUBSET Items, Crash(ws, is) PROVE FALSE
    BY <2>4 DEF Crash, manifest
  <2>5. CASE UNCHANGED vars \/ Sweep
    BY <2>5 DEF vars, Sweep, manifest
  <2> QED
    BY <2>1, <2>2, <2>3, <2>4, <2>5 DEF Next
<1>2. Kept => \A i \in Items :
         item[i].status \in {"SCHEDULED", "FAILED"} /\ item'[i].status # item[i].status
           => i \in Disturbed'
  BY DEF Ended
<1> QED
  BY <1>1, <1>2, Invariance, PTL DEF Spec, EndingsAreFinal
=============================================================================
