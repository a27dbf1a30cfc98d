--------------------------- MODULE PostPublishing ---------------------------
(***************************************************************************)
(* From a saga's pivot to a published post: the steps of the post          *)
(* publishing saga after its draft exists (saga.ts), the BullMQ queue      *)
(* between them and the workers (external), the publish handler            *)
(* (publishHandler.ts) with the publish log and the thread's rows, and the *)
(* promotion of the post (CompletePostPublishingUseCase).                  *)
(*                                                                         *)
(* One existing draft.  A worker here is a slot that runs one attempt of   *)
(* one job.  Each database statement, queue command and provider call is   *)
(* a step, and anything may come between two of them: the other attempt of *)
(* a job that stalled, another channel's job, a second saga, a deletion.   *)
(* Faults of any kind draw on one budget.                                  *)
(***************************************************************************)
EXTENDS Naturals, FiniteSets

CONSTANTS
  Channels,  \* the channels the request names
  Workers,   \* attempts that may run at a time
  Sagas,     \* publishing sagas started for the post
  None,      \* no worker, no channel
  Tweets,    \* the fragments of the thread plan
  Kinds,     \* what render may answer: "single", "thread"
  Modes,     \* what the requests ask for: "publish-now", "schedule"
  Attempts,  \* defaultJobOptions.attempts
  Retries,   \* the saga's retryPolicy.maxRetries
  MaxFaults, \* BOUND on faults of any kind
  MaxEdits   \* BOUND on what users do to the post

ASSUME NoneAssumption == None \notin Workers \cup Channels
ASSUME KindsAssumption ==
  Kinds \subseteq {"single", "thread"} /\ Modes \subseteq {"publish-now", "schedule"}
ASSUME ChannelsAssumption == IsFiniteSet(Channels) /\ Channels # {} /\ Tweets # {}
ASSUME BoundsAssumption ==
  /\ {MaxFaults, MaxEdits, Retries} \subseteq Nat /\ Attempts \in Nat \ {0}

VARIABLES
  kind,    \* what the post's content renders to
  post,    \* the Post row: status, and whether post, project or account is deleted
  job,     \* the channel's job in Redis
  log,     \* the channel's PublishLog row
  thread,  \* whether the post's Thread row exists
  tweet,   \* the Tweet rows
  live,    \* times the content went out on the channel: 0, 1 or more
  worker,  \* each slot's attempt
  saga,    \* each saga from the request on: the status its row holds, and its pass
  skipped, \* GHOST: channels whose job an attempt ended for a deletion
  closed,  \* GHOST: channels whose job ended for that, or found the thread published
  excuse,  \* GHOST: channels a fault has hit between a publish and its record
  faults, edits \* what remains of the bounds

world  == <<live, kind>>
rows   == <<post, log, thread, tweet>>
ghosts == <<skipped, closed, excuse>>
bounds == <<faults, edits>>
vars   == <<kind, post, job, log, thread, tweet, live, worker, saga, skipped,
            closed, excuse, faults, edits>>

Jobs == [state : {"none", "ready", "active", "completed", "failed"},
         made : 0..Attempts, stalls : 0..1, by : Workers \cup {None}]
Runs == [pc : {"idle", "log", "post", "running", "thread", "insert", "tweets",
               "call", "mark", "ok", "err", "done", "throw"},
         ch : Channels \cup {None}, rest : SUBSET Tweets]
Passes == [pc : {"idle", "lock", "pivot", "enqueue", "wait", "promote", "over"},
           row : {"running", "completed", "failed", "compensated"},
           mode : Modes, todo : SUBSET Channels, bad : BOOLEAN, open : BOOLEAN,
           left : 0..Retries]

\* The type invariant.
TypeOK ==
  /\ kind \in Kinds
  /\ post \in [status : {"DRAFT", "SCHEDULED", "PUBLISHED"}, deleted : BOOLEAN]
  /\ job \in [Channels -> Jobs]
  /\ log \in [Channels -> {"none", "RUNNING", "OK", "ERR"}]
  /\ thread \in BOOLEAN
  /\ tweet \in [Tweets -> {"none", "PENDING", "PUBLISHED"}]
  /\ live \in [Channels -> 0..2]
  /\ worker \in [Workers -> Runs]
  /\ saga \in [Sagas -> Passes]
  /\ skipped \subseteq Channels /\ closed \subseteq Channels /\ excuse \subseteq Channels
  /\ faults \in 0..MaxFaults /\ edits \in 0..MaxEdits

NoJob == [state |-> "none", made |-> 0, stalls |-> 0, by |-> None]
Idle  == [pc |-> "idle", ch |-> None, rest |-> {}]

Init ==
  /\ kind \in Kinds
  /\ post = [status |-> "DRAFT", deleted |-> FALSE]
  /\ job = [c \in Channels |-> NoJob]
  /\ log = [c \in Channels |-> "none"]
  /\ thread = FALSE /\ tweet = [t \in Tweets |-> "none"]
  /\ live = [c \in Channels |-> 0]
  /\ worker = [w \in Workers |-> Idle]
  /\ saga \in [Sagas -> {[pc |-> "idle", row |-> "running", mode |-> m, todo |-> {},
                          bad |-> FALSE, open |-> FALSE, left |-> Retries] : m \in Modes}]
  /\ skipped = {} /\ closed = {} /\ excuse = {}
  /\ faults = MaxFaults /\ edits = MaxEdits

Fault == faults > 0 /\ faults' = faults - 1 /\ UNCHANGED edits
Edit  == edits > 0 /\ edits' = edits - 1 /\ UNCHANGED faults

-----------------------------------------------------------------------------
(* The saga.  A step that fails is tried again while retries are left; then *)
(* a saga before its pivot is compensated, and one from the pivot on fails. *)

Ended(s)    == saga[s].row # "running"
PastLock(s) == ~Ended(s) /\ saga[s].pc \notin {"idle", "lock"}

Over(g, row) == [g EXCEPT !.pc = "over", !.row = row, !.todo = {}, !.bad = FALSE, !.open = FALSE]

Again(g) ==
  IF g.left = 0 THEN Over(g, IF g.pc = "lock" THEN "compensated" ELSE "failed")
  ELSE [g EXCEPT !.left = g.left - 1,
                 !.pc   = IF g.pc = "enqueue" THEN "pivot" ELSE g.pc,
                 !.todo = IF g.pc = "wait" THEN Channels ELSE {},
                 !.bad  = FALSE, !.open = FALSE]

\* The step is over, and its result written -- unless the saga has ended meanwhile:
\* the write is refused then, and the pass yields.
Goes(s, g) ==
  saga' = [saga EXCEPT ![s] = IF Ended(s) THEN Over(@, @.row) ELSE g]

StepFails(s) == Goes(s, Again(saga[s]))

\* The request: the post is a draft now.  Another saga of the post may be anywhere.
Start(s) ==
  /\ saga[s].pc = "idle" /\ post.status = "DRAFT" /\ ~post.deleted
  /\ saga' = [saga EXCEPT ![s].pc = "lock"]
  /\ UNCHANGED <<job, worker, world, rows, ghosts, bounds>>

\* create-post over an existing draft only passes the semantic lock of the post; it
\* does not look at the post.  One that another saga holds fails the step.
Lock(s) ==
  /\ saga[s].pc = "lock"
  /\ IF \E o \in Sagas \ {s} : PastLock(o) THEN StepFails(s)
     ELSE Goes(s, [saga[s] EXCEPT !.pc = "pivot", !.left = Retries])
  /\ UNCHANGED <<job, worker, world, rows, ghosts, bounds>>

\* The lock store is unreachable; the lock runs out under its holder; or what a lost
\* first attempt took refuses every retry.
LockError(s) ==
  /\ saga[s].pc = "lock" /\ Fault
  /\ \/ StepFails(s)
     \/ Goes(s, [saga[s] EXCEPT !.pc = "pivot", !.left = Retries])
     \/ Goes(s, Over(saga[s], "compensated"))
  /\ UNCHANGED <<job, worker, world, rows, ghosts>>

\* The pivot's countermeasure: the row must still read DRAFT.
Reread(s) ==
  /\ saga[s].pc = "pivot"
  /\ IF post.status = "DRAFT" /\ ~post.deleted
     THEN saga' = [saga EXCEPT ![s].pc = "enqueue", ![s].todo = Channels]
     ELSE StepFails(s)
  /\ UNCHANGED <<job, worker, world, rows, ghosts, bounds>>

\* queueJob under the id publish-<post>-<channel>: BullMQ ignores an id it still
\* holds, whatever became of that job.
Added(c) == IF job[c].state = "none" THEN [NoJob EXCEPT !.state = "ready"] ELSE job[c]

\* GHOST: a saga may have counted the channel's last job by now.
Counted == post.status = "PUBLISHED" \/ \E o \in Sagas : saga[o].pc \in {"wait", "promote"}

Queued(c) ==
  LET new == job[c].state = "none" IN
  /\ job' = [job EXCEPT ![c] = Added(c)]
  /\ skipped' = IF new THEN skipped \ {c} ELSE skipped
  /\ closed' = IF new /\ ~Counted THEN closed \ {c} ELSE closed

\* The step's data, and success, come only after the last job.
Scheduled(s, c) ==
  IF saga[s].todo # {c} THEN saga' = [saga EXCEPT ![s].todo = @ \ {c}]
  ELSE Goes(s, IF saga[s].mode = "schedule" THEN Over(saga[s], "completed")
               ELSE [saga[s] EXCEPT !.pc = "wait", !.todo = Channels, !.left = Retries])

Enqueue(s, c) ==
  /\ saga[s].pc = "enqueue" /\ c \in saga[s].todo
  /\ Queued(c) /\ Scheduled(s, c)
  /\ UNCHANGED <<worker, world, rows, excuse, bounds>>

\* The queue is unreachable, before or after it took the job; what was enqueued
\* before stays.
EnqueueError(s) ==
  /\ saga[s].pc = "enqueue" /\ Fault /\ StepFails(s)
  /\ UNCHANGED <<job, skipped, closed>> \/ \E c \in saga[s].todo : Queued(c)
  /\ UNCHANGED <<worker, world, rows, excuse>>

\* MUTANT of Reads: a job that is gone has completed.
ReadsGoneAsDone(c) ==
  CASE job[c].state \in {"completed", "none"} -> "completed"
    [] job[c].state = "failed" -> "failed"
    [] OTHER -> "pending"

\* MUTANT of Reads: a job that is gone is in the bucket of those still open.
ReadsGoneAsPending(c) ==
  CASE job[c].state = "completed" -> "completed"
    [] job[c].state = "failed" -> "failed"
    [] OTHER -> "pending"

\* getJobStates on one job: a missing one counts as failed.
Reads(c) ==
  CASE job[c].state = "completed" -> "completed"
    [] job[c].state \in {"failed", "none"} -> "failed"
    [] OTHER -> "pending"

\* MUTANT of Verdict: an unfinished wait is a failed step, as before the
\* waiting outcome existed.
VerdictAtOnce(bad, open) == IF open \/ bad THEN "retry" ELSE "promote"

\* The wait step's answer to the counts.
Verdict(bad, open) ==
  IF open THEN "wait" ELSE IF bad THEN "retry" ELSE "promote"

\* Jobs are read one after another; after the last the step answers.
Poll(s, c) ==
  LET bad  == saga[s].bad \/ Reads(c) = "failed"
      open == saga[s].open \/ Reads(c) = "pending"
  IN /\ saga[s].pc = "wait" /\ c \in saga[s].todo
     /\ CASE saga[s].todo # {c} ->
               saga' = [saga EXCEPT ![s] =
                 [@ EXCEPT !.todo = saga[s].todo \ {c}, !.bad = bad, !.open = open]]
          [] saga[s].todo = {c} /\ Verdict(bad, open) = "retry" -> StepFails(s)
          [] saga[s].todo = {c} /\ Verdict(bad, open) # "retry" ->
               Goes(s, [saga[s] EXCEPT
                 !.pc = Verdict(bad, open), !.bad = FALSE, !.open = FALSE,
                 !.left = IF open THEN saga[s].left ELSE Retries,
                 !.todo = IF open THEN Channels ELSE {}])
     /\ UNCHANGED <<job, worker, world, rows, ghosts, bounds>>

\* An unreadable queue is a failed step, not a wait.
PollError(s) ==
  /\ saga[s].pc = "wait" /\ Fault /\ StepFails(s)
  /\ UNCHANGED <<job, worker, world, rows, ghosts>>

\* The promotion loads the post under its transaction; one that is already
\* published is answered with success.
Promote(s) ==
  /\ saga[s].pc = "promote"
  /\ IF post.deleted THEN StepFails(s) /\ UNCHANGED post
     ELSE /\ Goes(s, Over(saga[s], "completed"))
          /\ post' = [post EXCEPT !.status = "PUBLISHED"]
  /\ UNCHANGED <<job, worker, log, thread, tweet, world, ghosts, bounds>>

\* The command fails: a lost connection, or another writer's version.
PromoteError(s) ==
  /\ saga[s].pc = "promote" /\ Fault /\ StepFails(s)
  /\ UNCHANGED <<job, worker, world, rows, ghosts>>

\* The saga's thirty minutes run out, and the timeout checker fails it.  A pass that
\* is inside the pivot or the promotion goes through with that step.
Horizon(s) ==
  /\ ~Ended(s) /\ saga[s].pc # "idle" /\ Fault
  /\ \/ saga' = [saga EXCEPT ![s] = Over(@, "failed")]
     \/ /\ saga[s].pc \in {"pivot", "enqueue", "promote"}
        /\ saga' = [saga EXCEPT ![s].row = "failed"]
  /\ UNCHANGED <<job, worker, world, rows, ghosts>>

-----------------------------------------------------------------------------
(* The queue (external). *)

Take(w, c) ==
  /\ worker[w] = Idle /\ job[c].state = "ready"
  /\ job' = [job EXCEPT ![c] = [@ EXCEPT !.state = "active", !.by = w]]
  /\ worker' = [worker EXCEPT ![w] = [pc |-> "log", ch |-> c, rest |-> {}]]
  /\ UNCHANGED <<saga, world, rows, ghosts, bounds>>

\* MUTANT of MayRetry: one attempt too many.
MayRetryOnce(c) == job[c].made < Attempts

\* Attempts are left after the one that failed.
MayRetry(c) == job[c].made + 1 < Attempts

\* Only the attempt that holds the job's lock may finish it.
Finish(w) ==
  LET c == worker[w].ch IN
  /\ worker[w].pc \in {"done", "throw"}
  /\ worker' = [worker EXCEPT ![w] = Idle]
  /\ job' =
       CASE job[c].state # "active" \/ job[c].by # w -> job
         [] job[c].state = "active" /\ job[c].by = w /\ worker[w].pc = "done" ->
              [job EXCEPT ![c] = [@ EXCEPT !.state = "completed", !.by = None]]
         [] OTHER ->
              [job EXCEPT ![c] =
                [@ EXCEPT !.made = job[c].made + 1, !.by = None,
                          !.state = IF MayRetry(c) THEN "ready" ELSE "failed"]]
  /\ UNCHANGED <<saga, world, rows, ghosts, bounds>>

\* MUTANT of Recovered: nothing looks for stalled jobs.
RecoveredNever(j) == j

\* A stalled job waits again; one that stalls twice fails.
Recovered(j) ==
  IF j.stalls = 1 THEN [j EXCEPT !.state = "failed", !.by = None]
  ELSE [j EXCEPT !.state = "ready", !.stalls = 1, !.by = None]

\* The job's lock ran out.  Its holder is dead, or alive and too slow: then
\* two attempts of one job run.
Stall(c) ==
  /\ job[c].state = "active"
  /\ IF worker[job[c].by].ch = c THEN Fault ELSE UNCHANGED bounds
  /\ IF worker[job[c].by].ch = c \/ job[c].stalls = 1 THEN excuse' = excuse \cup {c}
     ELSE UNCHANGED excuse
  /\ job' = [job EXCEPT ![c] = Recovered(@)]
  /\ UNCHANGED <<saga, worker, world, rows, skipped, closed>>

\* Retention: finished jobs beyond the newest hundred or fifty are dropped.
Evict(c) ==
  /\ job[c].state \in {"completed", "failed"} /\ Fault
  /\ job' = [job EXCEPT ![c] = NoJob]
  /\ UNCHANGED <<saga, worker, world, rows, ghosts>>

-----------------------------------------------------------------------------
(* The handler.  What it does not check is left as it is: the results of    *)
(* logPublish and updateTweet are not looked at.                           *)

At(w, pc)     == worker[w].pc = pc
Goto(w, pc)   == worker' = [worker EXCEPT ![w].pc = pc]
Saved         == UNCHANGED <<faults, edits>> \* the write or read succeeded
Quiet         == UNCHANGED <<job, saga>>

\* MUTANT of IsDone: asks for the post's word, which the log never has.
IsDoneNever(c) == log[c] = "PUBLISHED"

IsDone(c) == log[c] = "OK"

\* Idempotency by the log.  A read that fails reads as "not yet".
ReadLog(w) ==
  LET c == worker[w].ch IN
  /\ At(w, "log")
  /\ \/ Saved /\ Goto(w, IF IsDone(c) THEN "done" ELSE "post") /\ UNCHANGED excuse
     \/ /\ Fault /\ Goto(w, "post")
        /\ excuse' = IF IsDone(c) THEN excuse \cup {c} ELSE excuse
  /\ Quiet /\ UNCHANGED <<world, rows, skipped, closed>>

\* MUTANT of OnDeleted: an error like any other, left to the queue's retries.
OnDeletedThrow == "throw"

\* A deleted post ends its job: a retry after a restore would publish it.
OnDeleted == "done"

LoadPost(w) ==
  LET c == worker[w].ch IN
  /\ At(w, "post")
  /\ \/ /\ Saved /\ post.deleted /\ Goto(w, OnDeleted)
        /\ skipped' = skipped \cup {c} /\ closed' = closed \cup {c}
     \/ /\ Saved /\ ~post.deleted /\ Goto(w, "running") /\ UNCHANGED <<skipped, closed>>
     \/ /\ Fault /\ Goto(w, "throw") /\ UNCHANGED <<skipped, closed>>
  /\ Quiet /\ UNCHANGED <<world, rows, excuse>>

\* logPublish is an upsert: it replaces whatever the row says.
LogRunning(w) ==
  /\ At(w, "running")
  /\ \/ Saved /\ log' = [log EXCEPT ![worker[w].ch] = "RUNNING"]
     \/ Fault /\ UNCHANGED log
  /\ Goto(w, IF kind = "thread" THEN "thread" ELSE "call")
  /\ Quiet /\ UNCHANGED <<world, post, thread, tweet, ghosts>>

\* The thread's rows say that all of it is out -- on some channel: the Thread
\* row belongs to the post.
Complete == \A t \in Tweets : tweet[t] = "PUBLISHED"

\* createThread's look-up, and the early return of a complete thread; one whose
\* tweets cannot be read counts as incomplete.
FindThread(w) ==
  LET c == worker[w].ch IN
  /\ At(w, "thread")
  /\ \/ /\ Saved /\ thread /\ Complete
        /\ Goto(w, "done") /\ closed' = closed \cup {c}
     \/ /\ Saved /\ thread /\ ~Complete /\ UNCHANGED closed
        /\ worker' = [worker EXCEPT ![w] = [@ EXCEPT !.pc = "tweets", !.rest = Tweets]]
     \/ /\ Fault /\ thread /\ Complete /\ UNCHANGED closed
        /\ worker' = [worker EXCEPT ![w] = [@ EXCEPT !.pc = "tweets", !.rest = Tweets]]
     \/ Saved /\ ~thread /\ Goto(w, "insert") /\ UNCHANGED closed
     \/ Fault /\ Goto(w, "throw") /\ UNCHANGED closed
  /\ Quiet /\ UNCHANGED <<world, rows, skipped, excuse>>

\* The insert; another channel's job may have come first.
InsertThread(w) ==
  /\ At(w, "insert")
  /\ \/ /\ Saved /\ ~thread /\ thread' = TRUE
        /\ worker' = [worker EXCEPT ![w] = [@ EXCEPT !.pc = "tweets", !.rest = Tweets]]
     \/ Saved /\ thread /\ Goto(w, "throw") /\ UNCHANGED thread
     \/ Fault /\ Goto(w, "throw") /\ UNCHANGED thread
  /\ Quiet /\ UNCHANGED <<world, post, log, tweet, ghosts>>

\* The attempt is past fragment t, the last one leading on to pc.
Past(v, t, pc) ==
  IF v.rest = {t} THEN [v EXCEPT !.rest = {}, !.pc = pc] ELSE [v EXCEPT !.rest = v.rest \ {t}]

\* createTweet for one fragment; a sequence number that exists is as good.
CreateTweet(w, t) ==
  /\ At(w, "tweets") /\ t \in worker[w].rest
  /\ \/ /\ Saved
        /\ tweet' = [tweet EXCEPT ![t] = IF @ = "none" THEN "PENDING" ELSE @]
        /\ worker' = [worker EXCEPT ![w] = Past(@, t, "call")]
     \/ /\ Fault /\ UNCHANGED tweet
        /\ worker' = [worker EXCEPT ![w] = [@ EXCEPT !.pc = "throw", !.rest = {}]]
  /\ Quiet /\ UNCHANGED <<world, post, log, thread, ghosts>>

Published(c) == live' = [live EXCEPT ![c] = IF @ = 2 THEN 2 ELSE @ + 1]

\* Credentials, then the provider: it publishes, refuses, or -- a fault --
\* publishes and answers with an error.  A thread without credentials throws
\* and leaves no ERR row.
CallProvider(w) ==
  LET c == worker[w].ch IN
  /\ At(w, "call")
  /\ \/ /\ Saved /\ Published(c) /\ UNCHANGED excuse
        /\ IF kind = "thread"
           THEN worker' = [worker EXCEPT ![w] = [@ EXCEPT !.pc = "mark", !.rest = Tweets]]
           ELSE Goto(w, "ok")
     \/ Saved /\ Goto(w, "err") /\ UNCHANGED <<live, excuse>>
     \/ Saved /\ kind = "thread" /\ Goto(w, "throw") /\ UNCHANGED <<live, excuse>>
     \/ Fault /\ Published(c) /\ excuse' = excuse \cup {c} /\ Goto(w, "err")
  /\ Quiet /\ UNCHANGED <<kind, rows, skipped, closed>>

\* updateTweet for one published tweet.
MarkTweet(w, t) ==
  /\ At(w, "mark") /\ t \in worker[w].rest
  /\ \/ Saved /\ tweet' = [tweet EXCEPT ![t] = "PUBLISHED"]
     \/ Fault /\ UNCHANGED tweet
  /\ worker' = [worker EXCEPT ![w] = Past(@, t, "ok")]
  /\ Quiet /\ UNCHANGED <<world, post, log, thread, ghosts>>

\* MUTANT of Outcome: the success is not logged.
OutcomeOfErrors(w) == IF At(w, "ok") THEN "RUNNING" ELSE "ERR"

Outcome(w) == IF At(w, "ok") THEN "OK" ELSE "ERR"

\* MUTANT of Then: an error after the publish fails the attempt too.
ThenThrow(w) == "throw"

\* How the attempt ends.
Then(w) == IF At(w, "ok") THEN "done" ELSE "throw"

\* The last logPublish, and the notification, which is best-effort and only
\* makes the saga poll sooner.
LogOutcome(w) ==
  LET c == worker[w].ch IN
  /\ At(w, "ok") \/ At(w, "err")
  /\ \/ Saved /\ log' = [log EXCEPT ![c] = Outcome(w)] /\ UNCHANGED excuse
     \/ /\ Fault /\ UNCHANGED log
        /\ excuse' = IF At(w, "ok") THEN excuse \cup {c} ELSE excuse
  /\ Goto(w, Then(w))
  /\ Quiet /\ UNCHANGED <<world, post, thread, tweet, skipped, closed>>

\* What the attempt did or found is not on record yet.
Unrecorded(w) ==
  At(w, "mark") \/ At(w, "ok") \/ (At(w, "done") /\ worker[w].ch \in skipped)

\* A process dies with the attempts it runs.  Their jobs stay active until
\* the queue finds them stalled.
Crash(ws) ==
  /\ Fault /\ \E w \in ws : ~At(w, "idle")
  /\ worker' = [w \in Workers |-> IF w \in ws THEN Idle ELSE worker[w]]
  /\ excuse' = excuse \cup {worker[w].ch : w \in {v \in ws : Unrecorded(v)}}
  /\ UNCHANGED <<job, saga, world, rows, skipped, closed>>

-----------------------------------------------------------------------------
(* Users. *)

\* The post is scheduled by another route while a saga holds it.
Reschedule ==
  /\ post.status = "DRAFT" /\ Edit
  /\ post' = [post EXCEPT !.status = "SCHEDULED"]
  /\ UNCHANGED <<job, worker, saga, log, thread, tweet, world, ghosts>>

\* The project or the account is deleted, or restored.
Delete ==
  /\ Edit /\ post' = [post EXCEPT !.deleted = ~@]
  /\ UNCHANGED <<job, worker, saga, log, thread, tweet, world, ghosts>>

-----------------------------------------------------------------------------
SagaStep(s) ==
  \/ Start(s) \/ Lock(s) \/ LockError(s) \/ Reread(s) \/ \E c \in Channels : Enqueue(s, c) \/ Poll(s, c)
  \/ EnqueueError(s) \/ PollError(s) \/ Promote(s) \/ PromoteError(s) \/ Horizon(s)

WorkerStep(w) ==
  \/ \E c \in Channels : Take(w, c)
  \/ ReadLog(w) \/ LoadPost(w) \/ LogRunning(w) \/ FindThread(w) \/ InsertThread(w)
  \/ \E t \in Tweets : CreateTweet(w, t) \/ MarkTweet(w, t)
  \/ CallProvider(w) \/ LogOutcome(w) \/ Finish(w)

Next ==
  \/ \E s \in Sagas : SagaStep(s)
  \/ \E w \in Workers : WorkerStep(w)
  \/ \E c \in Channels : Stall(c) \/ Evict(c)
  \/ \E ws \in SUBSET Workers : Crash(ws)
  \/ Reschedule \/ Delete

Spec == Init /\ [][Next]_vars

\* The engine's polls and retries, the workers and the queue's stall check go
\* on; nothing obliges a provider to accept, or a user to do anything.
Fairness ==
  /\ \A s \in Sagas : WF_vars(SagaStep(s) /\ saga[s].pc # "idle")
  /\ \A w \in Workers : WF_vars(WorkerStep(w))
  /\ \A c \in Channels : WF_vars(Stall(c) /\ worker[job[c].by].ch # c)

FairSpec == Spec /\ Fairness

-----------------------------------------------------------------------------
(* Properties *)

\* A published post went out on every channel, unless the job of a channel was
\* ended for a deletion, or because the thread's rows were found published.
PromotedHasACause ==
  post.status = "PUBLISHED" =>
    \A c \in Channels : live[c] > 0 \/ c \in closed

\* UpdatePostStatusStep: "the facts it needs to establish that EVERY scheduled
\* channel published" -- without the second exception.  The code breaks it: the
\* thread's rows are the post's, so the first channel's thread stands for all.
PromotedIsOnEveryChannel ==
  post.status = "PUBLISHED" => \A c \in Channels : live[c] > 0

\* Nothing goes out twice on a channel unless a fault fell between a publish
\* and its record: retries, redeliveries, a second saga and other channels'
\* jobs do not repeat it.
DuplicatesHaveACause == \A c \in Channels : live[c] = 2 => c \in excuse

\* A job that failed did not publish, unless such a fault hid it.
FailureIsHonest ==
  \A c \in Channels : job[c].state = "failed" /\ live[c] > 0 => c \in excuse

\* Where nothing went wrong and nobody touched the post, a saga only fails for a job
\* that failed and did not publish, or because another saga of the post, which it
\* waited for at the lock, has published it; and it is only compensated where the
\* lock let another saga through.
SagaFailureIsHonest ==
  faults = MaxFaults /\ edits = MaxEdits =>
    \A s \in Sagas :
      /\ saga[s].row = "failed" =>
           \/ \E c \in Channels : job[c].state = "failed" /\ live[c] = 0
           \/ \E o \in Sagas \ {s} : saga[o].row = "completed" /\ post.status = "PUBLISHED"
      /\ saga[s].row = "compensated" =>
           \E o \in Sagas \ {s} : saga[o].pc \notin {"idle", "lock"} /\ saga[o].row # "compensated"

\* "Restoring must never republish as a queue side effect": once an attempt has
\* ended a job for a deletion, only a new request brings the content out, or
\* a second attempt of that job that ran beside the first.
DeletionIsFinal ==
  [][\A c \in Channels : live'[c] > live[c] /\ c \in skipped => c \in excuse']_vars

\* A recorded success stays recorded, though every logPublish replaces the row:
\* only a read that failed, or a second attempt beside the first, undoes it.
SuccessStaysRecorded ==
  [][\A c \in Channels : log[c] = "OK" /\ log'[c] # "OK" => c \in excuse']_vars

\* Every saga that starts ends.
EventuallyEnds == \A s \in Sagas : saga[s].pc = "lock" ~> Ended(s)

\* Every job that is enqueued is finished: no stall and no crash leaves it open.
EventuallyFinished ==
  \A c \in Channels : job[c].state = "ready" ~> job[c].state \in {"completed", "failed"}
=============================================================================
