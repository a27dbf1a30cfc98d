---------------------------- MODULE BulkSchedule ----------------------------
(***************************************************************************)
(* Bulk scheduling: a confirmed CSV becomes a batch with one item and one  *)
(* outbox event per row (ConfirmBulkScheduleUseCase); the relay's handler  *)
(* enqueues a job per row, the worker creates and schedules the row's post *)
(* (ProcessBulkScheduleRowUseCase) and settles item and batch; a callback  *)
(* records rows whose attempts ran out, and a sweep enqueues rows whose    *)
(* event was dead-lettered, a few at a time.                               *)
(*                                                                         *)
(* One batch.  The relay is module Outbox's, seen from one event: open     *)
(* until dispatched or dead-lettered.  A worker is a slot for one attempt. *)
(* Each transaction is a step, but for the one that settles an item: its   *)
(* count of pending items sees what others have committed (READ COMMITTED),*)
(* so reading and committing are two.                                      *)
(***************************************************************************)
EXTENDS Naturals, FiniteSets

CONSTANTS
  Items,    \* the batch's rows
  Workers,  \* attempts that may run at a time
  None,     \* no worker, no item
  Attempts, \* attempts of the bulk-schedule queue's jobs
  PerTick,  \* dead letters one tick of the sweep takes (MAX_PER_TICK)
  Copies,   \* BOUND on the posts created for one row
  MaxFaults \* BOUND on faults of any kind

ASSUME NoneAssumption == None \notin Items \cup Workers
ASSUME WorkersAssumption == Workers \subseteq Nat
ASSUME ItemsAssumption == IsFiniteSet(Items) /\ Items # {}
ASSUME BoundsAssumption ==
  MaxFaults \in Nat /\ Attempts \in Nat \ {0} /\ Copies \in Nat \ {0} /\ PerTick \in Nat \ {0}

VARIABLES
  batch,     \* the batch's stored status
  item,      \* each row's manifest item: status and postId (0 for none)
  event,     \* its BulkScheduleRowConfirmed in the outbox
  letter,    \* the row's dead letter; an operator resolves or retries it
  swept,     \* what the sweep's query returned and it has not come to yet
  job,       \* its job in Redis
  created,   \* how many posts were created for it
  scheduled, \* which of them are SCHEDULED
  worker,    \* each slot's attempt
  failing,   \* the `failed' callback of the row's job
  excuse,    \* GHOST: rows a fault hit between a change and its record
  overlap,   \* GHOST: rows that had two attempts at a time
  forgotten, \* GHOST: rows whose job retention dropped when they had ended
  lost,      \* GHOST: rows whose callback never ran to its end
  faults     \* what remains of the bound

manifest == <<batch, item>>
posts    == <<created, scheduled>>
letters  == <<letter, swept>>
ghosts   == <<excuse, overlap, forgotten, lost>>
vars     == <<batch, item, event, letter, swept, job, created, scheduled, worker, failing,
              excuse, overlap, forgotten, lost, faults>>

Ids  == 0..Copies
Rows == [status : {"none", "PENDING", "SCHEDULED", "FAILED"}, post : Ids]
Jobs == [state : {"none", "ready", "active", "completed", "failed"},
         made : 0..Attempts, stalls : 0..1, by : Workers \cup {None}]
Runs == [pc : {"idle", "find", "create", "persist", "load", "save", "count", "commit",
               "done", "throw"},
         row : Items \cup {None}, post : Ids, to : {"SCHEDULED", "FAILED"}, last : BOOLEAN]

\* The type invariant.
TypeOK ==
  /\ batch \in {"none", "PROCESSING", "COMPLETED"}
  /\ item \in [Items -> Rows]
  /\ event \in [Items -> {"none", "open", "closed"}]
  /\ letter \in [Items -> {"none", "unresolved", "resolved", "retried"}]
  /\ swept \subseteq Items
  /\ job \in [Items -> Jobs]
  /\ created \in [Items -> Ids]
  /\ scheduled \in [Items -> SUBSET (1..Copies)]
  /\ worker \in [Workers -> Runs]
  /\ failing \in [Items -> {"no", "due", "alone", "among"}]
  /\ excuse \subseteq Items /\ overlap \subseteq Items
  /\ forgotten \subseteq Items /\ lost \subseteq Items
  /\ faults \in 0..MaxFaults

NoJob == [state |-> "none", made |-> 0, stalls |-> 0, by |-> None]
Idle  == [pc |-> "idle", row |-> None, post |-> 0, to |-> "SCHEDULED", last |-> FALSE]

Init ==
  /\ batch = "none"
  /\ item = [i \in Items |-> [status |-> "none", post |-> 0]]
  /\ event = [i \in Items |-> "none"] /\ letter = [i \in Items |-> "none"] /\ swept = {}
  /\ job = [i \in Items |-> NoJob]
  /\ created = [i \in Items |-> 0] /\ scheduled = [i \in Items |-> {}]
  /\ worker = [w \in Workers |-> Idle] /\ failing = [i \in Items |-> "no"]
  /\ excuse = {} /\ overlap = {} /\ forgotten = {} /\ lost = {} /\ faults = MaxFaults

Fault == faults > 0 /\ faults' = faults - 1
Saved == UNCHANGED faults

-----------------------------------------------------------------------------
(* Confirmation, dispatch and sweep. *)

\* Batch, items and events commit together.
Confirm ==
  /\ batch = "none"
  /\ batch' = "PROCESSING"
  /\ item' = [i \in Items |-> [status |-> "PENDING", post |-> 0]]
  /\ event' = [i \in Items |-> "open"]
  /\ UNCHANGED <<letters, job, posts, worker, failing, ghosts, faults>>

\* The job id is bulk-<batch>-<item>: an id the queue still holds is ignored.
Enqueue(i) ==
  job' = [job EXCEPT ![i] = IF @.state = "none" THEN [NoJob EXCEPT !.state = "ready"] ELSE @]

\* The relay hands the event to the handler, which throws if it cannot enqueue.
\* The event is then open again, or archived as a dead letter when its retries are
\* spent; and it is dispatched once more when the relay's mark failed.
Dispatch(i) ==
  /\ event[i] = "open"
  /\ \/ Saved /\ Enqueue(i) /\ event' = [event EXCEPT ![i] = "closed"] /\ UNCHANGED letter
     \/ Fault /\ Enqueue(i) /\ UNCHANGED <<event, letter>>
     \/ /\ Fault /\ UNCHANGED job /\ event' = [event EXCEPT ![i] = "closed"]
        /\ letter' = [letter EXCEPT ![i] = "unresolved"]
  /\ UNCHANGED <<manifest, swept, posts, worker, failing, ghosts>>

\* MUTANT of Stuck: what the sweep should look for but does not: the sweep
\* resolves a dead letter the first time it meets it, enqueued or not.
StuckNever(i) == FALSE

\* An unresolved dead letter of the row.  The sweep resolves none.
Stuck(i) == letter[i] = "unresolved"

Unresolved == {i \in Items : Stuck(i)}

\* The sweep's query: unresolved dead letters in no order, PerTick at most.
Sweep ==
  /\ swept = {} /\ Unresolved # {}
  /\ \E s \in SUBSET Unresolved :
       /\ s = Unresolved \/ Cardinality(s) = PerTick
       /\ Cardinality(s) <= PerTick
       /\ swept' = s
  /\ UNCHANGED <<manifest, event, letter, job, posts, worker, failing, ghosts, faults>>

\* One row of what it returned, whatever has become of its dead letter since; an
\* enqueue that fails waits for another tick.
Redrive(i) ==
  /\ i \in swept /\ swept' = swept \ {i}
  /\ (Saved /\ Enqueue(i)) \/ (Fault /\ UNCHANGED job)
  /\ UNCHANGED <<manifest, event, letter, posts, worker, failing, ghosts>>

\* The operator's two routes: resolve, and retry, which also writes a new event.
\* Either sets resolvedAt.  BOUND: no retry while the row's event is open.
ResolveLetter(i) ==
  /\ Stuck(i) /\ letter' = [letter EXCEPT ![i] = "resolved"]
  /\ UNCHANGED <<manifest, event, swept, job, posts, worker, failing, ghosts, faults>>

RetryLetter(i) ==
  /\ letter[i] # "none" /\ event[i] = "closed"
  /\ letter' = [letter EXCEPT ![i] = "retried"] /\ event' = [event EXCEPT ![i] = "open"]
  /\ UNCHANGED <<manifest, swept, job, posts, worker, failing, ghosts, faults>>

-----------------------------------------------------------------------------
(* The queue (external). *)

\* Slots are alike: the first free one takes the job.
Free(w) == worker[w] = Idle /\ \A v \in Workers : v < w => worker[v] # Idle

Take(w, i) ==
  /\ Free(w) /\ job[i].state = "ready"
  /\ job' = [job EXCEPT ![i] = [@ EXCEPT !.state = "active", !.by = w]]
  /\ worker' = [worker EXCEPT ![w] = [Idle EXCEPT !.pc = "find", !.row = i]]
  /\ UNCHANGED <<manifest, event, letters, posts, failing, ghosts, faults>>

Holds(w) == job[worker[w].row].state = "active" /\ job[worker[w].row].by = w

\* Attempts are left after the one that failed.
MayRetry(i) == job[i].made + 1 < Attempts

\* MUTANT of Exhausted: the callback records every failed attempt.
ExhaustedAtOnce(i) == job[i].made + 1 >= 1

\* The callback's test, made against the count of the attempt that failed.
Exhausted(i) == job[i].made + 1 >= Attempts

\* Only the attempt that holds the lock finishes the job.  The worker's `failed'
\* event starts the callback; it does something only after the last attempt.
Finish(w) ==
  LET i == worker[w].row IN
  /\ worker[w].pc \in {"done", "throw"}
  /\ worker' = [worker EXCEPT ![w] = Idle]
  /\ \/ ~Holds(w) /\ UNCHANGED <<job, failing>>
     \/ /\ Holds(w) /\ worker[w].pc = "done" /\ UNCHANGED failing
        /\ job' = [job EXCEPT ![i] = [@ EXCEPT !.state = "completed", !.by = None]]
     \/ /\ Holds(w) /\ worker[w].pc = "throw"
        /\ job' = [job EXCEPT ![i] =
             [@ EXCEPT !.made = job[i].made + 1, !.by = None,
                       !.state = IF MayRetry(i) THEN "ready" ELSE "failed"]]
        /\ failing' = IF Exhausted(i) THEN [failing EXCEPT ![i] = "due"] ELSE failing
  /\ UNCHANGED <<manifest, event, letters, posts, ghosts, faults>>

\* MUTANT of Recovered: a job may stall as often as it likes.
RecoveredAlways(j) == [j EXCEPT !.state = "ready", !.stalls = @ + 1, !.by = None]

\* A stalled job waits again; one that stalls twice fails.
Recovered(j) ==
  IF j.stalls = 1 THEN [j EXCEPT !.state = "failed", !.by = None]
  ELSE [j EXCEPT !.state = "ready", !.stalls = 1, !.by = None]

\* The job's lock ran out, its holder dead or too slow.  When it
\* fails for its stalls it has attempts left, and the callback does nothing.
Stall(i) ==
  /\ job[i].state = "active"
  /\ \/ worker[job[i].by].row # i /\ Saved /\ UNCHANGED overlap
     \/ worker[job[i].by].row = i /\ Fault /\ overlap' = overlap \cup {i}
  /\ job' = [job EXCEPT ![i] = Recovered(@)]
  /\ lost' = IF job[i].stalls = 1 THEN lost \cup {i} ELSE lost
  /\ UNCHANGED <<manifest, event, letters, posts, worker, failing, excuse, forgotten>>

\* Retention drops a finished job: not before its callback, for fifty others
\* would have to fail in between.
Evict(i) ==
  /\ failing[i] = "no" /\ job[i].state \in {"completed", "failed"} /\ Fault
  /\ job' = [job EXCEPT ![i] = NoJob]
  /\ forgotten' = IF item[i].status = "PENDING" THEN forgotten ELSE forgotten \cup {i}
  /\ UNCHANGED <<manifest, event, letters, posts, worker, failing, excuse, overlap, lost>>

-----------------------------------------------------------------------------
(* One attempt at a row. *)

At(w, pc)   == worker[w].pc = pc
Goto(w, pc) == worker' = [worker EXCEPT ![w].pc = pc]
Fails(w)    == Fault /\ Goto(w, "throw")
Quiet       == UNCHANGED <<batch, event, letters, job, failing, overlap, forgotten, lost>>

\* MUTANT of Rejects: a rejected post counts as one that has been scheduled.
RejectsAsScheduled(w) ==
  worker' = [worker EXCEPT ![w] = [@ EXCEPT !.pc = "count", !.to = "SCHEDULED"]]

\* A rejection by the domain is the row's failure, not the attempt's.
Rejects(w) == worker' = [worker EXCEPT ![w] = [@ EXCEPT !.pc = "count", !.to = "FAILED"]]

\* MUTANT of Known: the id of the earlier attempt's post is not looked at.
KnownNever(i) == 0

\* The post an earlier attempt created for the row, or 0.
Known(i) == item[i].post

\* The guard: a row that has ended is not processed again; a post created by an
\* earlier attempt is taken over.
FindItem(w) ==
  LET i == worker[w].row IN
  /\ At(w, "find")
  /\ \/ /\ Saved /\ item[i].status = "PENDING"
        /\ worker' = [worker EXCEPT ![w] =
             [@ EXCEPT !.post = Known(i), !.pc = IF Known(i) = 0 THEN "create" ELSE "load"]]
     \/ Saved /\ item[i].status # "PENDING" /\ Goto(w, "done")
     \/ Fails(w)
  /\ Quiet /\ UNCHANGED <<item, posts, excuse>>

\* CreatePostUseCase: a post, a rejection, or an error -- before or after the
\* commit.
CreatePost(w) ==
  LET i == worker[w].row
      more == created[i] < Copies /\ created' = [created EXCEPT ![i] = @ + 1]
  IN /\ At(w, "create")
     /\ \/ /\ Saved /\ more /\ UNCHANGED excuse
           /\ worker' = [worker EXCEPT ![w] =
                [@ EXCEPT !.pc = "persist", !.post = created'[i]]]
        \/ Saved /\ Rejects(w) /\ UNCHANGED <<created, excuse>>
        \/ Fails(w) /\ UNCHANGED <<created, excuse>>
        \/ Fails(w) /\ more /\ excuse' = excuse \cup {i}
     /\ Quiet /\ UNCHANGED <<item, scheduled>>

\* The item's row is locked by a transaction that has written it.
Locked(i) ==
  \/ \E w \in Workers : At(w, "commit") /\ worker[w].row = i
  \/ failing[i] \in {"alone", "among"}

\* markItemPostCreated, by id alone.
PersistPost(w) ==
  LET i == worker[w].row IN
  /\ At(w, "persist") /\ ~Locked(i)
  /\ \/ /\ Saved /\ item' = [item EXCEPT ![i].post = worker[w].post]
        /\ Goto(w, "load") /\ UNCHANGED excuse
     \/ Fails(w) /\ UNCHANGED item /\ excuse' = excuse \cup {i}
  /\ Quiet /\ UNCHANGED posts

\* SchedulePostUseCase up to the domain's answer: a post that is SCHEDULED
\* already is rejected, and so is one whose channel is gone or time is past.
LoadPost(w) ==
  LET i == worker[w].row IN
  /\ At(w, "load")
  /\ \/ Saved /\ worker[w].post \notin scheduled[i] /\ Goto(w, "save")
     \/ Saved /\ Rejects(w)
     \/ Fails(w)
  /\ Quiet /\ UNCHANGED <<item, posts, excuse>>

\* Its save: a compare-and-swap on the version it loaded.
SavePost(w) ==
  LET i == worker[w].row
      p == worker[w].post
  IN /\ At(w, "save")
     /\ \/ /\ Saved /\ p \notin scheduled[i] /\ UNCHANGED excuse
           /\ scheduled' = [scheduled EXCEPT ![i] = @ \cup {p}]
           /\ worker' = [worker EXCEPT ![w] = [@ EXCEPT !.pc = "count", !.to = "SCHEDULED"]]
        \/ Saved /\ p \in scheduled[i] /\ Goto(w, "throw") /\ UNCHANGED <<scheduled, excuse>>
        \/ Fails(w) /\ UNCHANGED <<scheduled, excuse>>
        \/ /\ Fails(w) /\ excuse' = excuse \cup {i}
           /\ scheduled' = [scheduled EXCEPT ![i] = @ \cup {p}]
     /\ Quiet /\ UNCHANGED <<item, created>>

\* MUTANT of Settled: the count includes no row that another attempt works on.
SettledButForOthers(i) ==
  \A j \in Items \ {i} : item[j].status = "PENDING" => job[j].state = "active"

\* completeBatchIfSettled's count: no other item is pending.
Settled(i) == \A j \in Items \ {i} : item[j].status # "PENDING"

\* The transaction that settles the item: written and counted ...
CountPending(w) ==
  /\ At(w, "count") /\ ~Locked(worker[w].row) /\ Saved
  /\ worker' = [worker EXCEPT ![w] =
       [@ EXCEPT !.pc = "commit", !.last = Settled(worker[w].row)]]
  /\ Quiet /\ UNCHANGED <<item, posts, excuse>>

Closed(last) == IF last /\ batch = "PROCESSING" THEN "COMPLETED" ELSE batch

\* ... and committed, the batch with it: answered, unanswered, or not at all.
CommitItem(w) ==
  LET i == worker[w].row
      lands == /\ batch' = Closed(worker[w].last)
               /\ item' = [item EXCEPT ![i] =
                    [status |-> worker[w].to,
                     post   |-> IF worker[w].to = "SCHEDULED" THEN worker[w].post ELSE @.post]]
  IN
  /\ At(w, "commit")
  /\ \/ Saved /\ lands /\ Goto(w, "done") /\ UNCHANGED excuse
     \/ Fails(w) /\ lands /\ excuse' = excuse \cup {i}
     \/ /\ Fails(w) /\ UNCHANGED manifest
        /\ excuse' = IF worker[w].to = "SCHEDULED" THEN excuse \cup {i} ELSE excuse
  /\ UNCHANGED <<event, letters, job, posts, failing, overlap, forgotten, lost>>

-----------------------------------------------------------------------------
(* The callback of a job whose attempts ran out; it looks at neither the item *)
(* nor the post.                                                             *)

FailCount(i) ==
  /\ failing[i] = "due" /\ ~Locked(i)
  /\ failing' = [failing EXCEPT ![i] = IF Settled(i) THEN "alone" ELSE "among"]
  /\ UNCHANGED <<manifest, event, letters, job, posts, worker, ghosts, faults>>

FailCommit(i) ==
  /\ failing[i] \in {"alone", "among"}
  /\ failing' = [failing EXCEPT ![i] = "no"]
  /\ \/ /\ Saved /\ item' = [item EXCEPT ![i].status = "FAILED"]
        /\ batch' = Closed(failing[i] = "alone") /\ UNCHANGED lost
     \/ Fault /\ UNCHANGED manifest /\ lost' = lost \cup {i}
  /\ UNCHANGED <<event, letters, job, posts, worker, excuse, overlap, forgotten>>

\* What the attempt did is not on record: the post's id or its scheduling with
\* the manifest, or the row's ending with the queue.
Unrecorded(w) ==
  \/ At(w, "persist")
  \/ worker[w].pc \in {"count", "commit"} /\ worker[w].to = "SCHEDULED"
  \/ At(w, "done")

\* A process dies with its attempts and its callbacks, and perhaps the sweep's turn.
Crash(ws, is) ==
  LET hit == {w \in ws : ~At(w, "idle")}
      cut == {i \in is : failing[i] # "no"}
  IN /\ Fault /\ swept' \in {swept, {}}
     /\ hit # {} \/ cut # {} \/ swept' # swept
     /\ worker' = [w \in Workers |-> IF w \in ws THEN Idle ELSE worker[w]]
     /\ failing' = [i \in Items |-> IF i \in is THEN "no" ELSE failing[i]]
     /\ lost' = lost \cup cut
     /\ excuse' = excuse \cup {worker[w].row : w \in {v \in hit : Unrecorded(v)}}
     /\ UNCHANGED <<manifest, event, letter, job, posts, overlap, forgotten>>

-----------------------------------------------------------------------------
WorkerStep(w) ==
  \/ \E i \in Items : Take(w, i)
  \/ FindItem(w) \/ CreatePost(w) \/ PersistPost(w) \/ LoadPost(w) \/ SavePost(w)
  \/ CountPending(w) \/ CommitItem(w) \/ Finish(w)

RowStep(i) ==
  \/ Dispatch(i) \/ Redrive(i) \/ ResolveLetter(i) \/ RetryLetter(i)
  \/ Stall(i) \/ Evict(i) \/ FailCount(i) \/ FailCommit(i)

Next ==
  \/ Confirm \/ Sweep
  \/ \E i \in Items : RowStep(i)
  \/ \E w \in Workers : WorkerStep(w)
  \/ \E ws \in SUBSET Workers, is \in SUBSET Items : Crash(ws, is)

Spec == Init /\ [][Next]_vars

\* The relay dispatches what is open; the sweep goes on, over no row in particular; so do
\* the workers, the callbacks that have started and the queue's search for dead holders.
\* Operators owe nothing.
Fairness ==
  /\ WF_vars(Sweep \/ \E i \in Items : Redrive(i))
  /\ WF_vars(\E w \in Workers : WorkerStep(w))
  /\ \A i \in Items : WF_vars(Dispatch(i))
  /\ WF_vars(\E i \in Items : FailCount(i) \/ FailCommit(i))
  /\ WF_vars(\E i \in Items : Stall(i) /\ worker[job[i].by].row # i)

FairSpec == Spec /\ Fairness

-----------------------------------------------------------------------------
(* Properties *)

\* A row has one post, unless a fault fell between a post and its record, or two
\* attempts of the row ran at a time: retries and redeliveries reuse it.
OnePostPerRow == \A i \in Items : created[i] > 1 => i \in excuse \cup overlap

\* Two posts of one row are scheduled, and so published twice, only if two
\* attempts ran at a time: crashes and failed writes alone never do it.
NoRowIsScheduledTwice == \A i \in Items : Cardinality(scheduled[i]) > 1 => i \in overlap

\* What the manifest calls scheduled is, and by the id it names -- unless the
\* late attempt of two wrote its own id over the other's.
ScheduledIsScheduled ==
  \A i \in Items :
    item[i].status = "SCHEDULED" => item[i].post \in scheduled[i] \/ i \in overlap

\* What may undo a row's ending: a fault, two attempts at a time, or a queue that
\* forgot the row's job and was given it again.
Disturbed == excuse \cup overlap \cup forgotten

\* A row reported FAILED has no scheduled post, unless one of these hid it.
FailureIsHonest ==
  \A i \in Items : item[i].status = "FAILED" /\ scheduled[i] # {} => i \in Disturbed

\* The same without the exception: "All item mutations are idempotent so BullMQ
\* at-least-once delivery is safe."  The code breaks it: a retry meets its own
\* scheduled post and takes the rejection for the row's failure.
FailedRowIsNotScheduled ==
  \A i \in Items : item[i].status = "FAILED" => scheduled[i] = {}

\* The batch is completed only when no row is pending, however transactions of
\* different rows overlap.
CompletionIsHonest ==
  batch = "COMPLETED" => \A i \in Items : item[i].status # "PENDING"

\* A row that ended keeps its ending, unless two attempts ran at a time, or the
\* queue did not learn of the ending -- or forgot it -- and all its attempts
\* failed before they had read the item.
EndingsAreFinal ==
  [][\A i \in Items :
       item[i].status \in {"SCHEDULED", "FAILED"} /\ item'[i].status # item[i].status
         => i \in Disturbed']_vars

\* An operator has set the row's dead letter aside and written no new event.
Waived(i) == letter[i] = "resolved"

\* Once the batch is confirmed every row ends, dead-lettered events and dead workers
\* included, unless its callback was lost or an operator waived its dead letter: this
\* as long as the sweep's one tick can hold all the dead letters there are.
EveryRowEnds ==
  <>[](Cardinality(Unresolved) <= PerTick) =>
    []<>(batch # "none" =>
           \A i \in Items : item[i].status # "PENDING" \/ i \in lost \/ Waived(i))

\* The same without that condition: "Backstop sweep that re-drives stuck
\* bulk-scheduling rows."  The code breaks it: with more dead letters than a tick
\* takes, the query may return the same ones for ever, and none is resolved.
StuckRowsAreRedriven ==
  \A i \in Items : Stuck(i) ~> ~Stuck(i) \/ i \in swept
=============================================================================
