------------------------ MODULE PostPublishing_proofs ------------------------
(* Theorems about publishing.  A channel that no fault has hit between a       *)
(* publish and its record has one attempt at most, and that attempt holds the  *)
(* job: so an attempt that has not called the provider is at a channel where   *)
(* nothing is out, and what is out is on record, or about to be.  A job that a *)
(* saga has counted as completed stands for a channel that is out, or was      *)
(* closed, and stays so.  In the calm a saga that ends otherwise than completed *)
(* has a failed job, or another saga of the post, to show for it.              *)
EXTENDS PostPublishing, TLAPS

\* The channel's content is out, or its last job ended for another reason.
Settled(c) == live[c] > 0 \/ c \in closed

\* Bookkeeping of slots and jobs.
SlotsOK ==
  \A w \in Workers :
    /\ worker[w].pc # "idle" => worker[w].ch \in Channels
    /\ worker[w].pc = "idle" => worker[w].ch = None

JobsOK ==
  \A c \in Channels :
    /\ job[c].state \in {"ready", "active"} => job[c].made < Attempts
    /\ job[c].state = "active" => job[c].by \in Workers

\* The attempt that holds its job's lock.
Holds(w) == job[worker[w].ch].state = "active" /\ job[worker[w].ch].by = w

\* What is on record is out; a job that is over, or about to be, is settled.
RecordsOK ==
  /\ \A c \in Channels : log[c] = "OK" => live[c] > 0
  /\ \A w \in Workers : worker[w].pc \in {"mark", "ok"} => live[worker[w].ch] > 0
  /\ \A c \in Channels : job[c].state = "completed" => Settled(c)
  /\ \A w \in Workers : worker[w].pc = "done" /\ Holds(w) => Settled(worker[w].ch)

\* What a saga has counted is settled, and so is what a post was published for.
SagasOK ==
  /\ \A s \in Sagas : saga[s].pc = "wait" /\ ~saga[s].bad /\ ~saga[s].open =>
       \A c \in Channels \ saga[s].todo : Settled(c)
  /\ \A s \in Sagas : saga[s].pc = "promote" => \A c \in Channels : Settled(c)
  /\ PromotedHasACause

\* One attempt, and it holds the job.
Alone(c) ==
  \A w \in Workers : worker[w].ch = c => job[c].state = "active" /\ job[c].by = w

\* Before the provider's call nothing is out, and after it it is.
Fresh(c) ==
  \A w \in Workers : worker[w].ch = c /\ worker[w].pc \notin {"log", "mark", "ok", "done"} =>
    live[c] = 0

\* What is out is out once, and recorded or about to be.
Recorded(c) ==
  /\ live[c] # 2
  /\ live[c] = 1 =>
       log[c] = "OK" \/ \E w \in Workers : worker[w].ch = c /\ worker[w].pc \in {"mark", "ok"}
  /\ job[c].state = "failed" => live[c] = 0

\* A job that was ended for a deletion is over, or about to be.
Dropped(c) ==
  c \in skipped =>
    \/ job[c].state \in {"completed", "none"}
    \/ \E w \in Workers : worker[w].ch = c /\ worker[w].pc = "done"

ChannelsOK == \A c \in Channels \ excuse : Alone(c) /\ Fresh(c) /\ Recorded(c) /\ Dropped(c)

\* Where nothing has gone wrong, every active job has its attempt, every job a
\* saga relies on is there, and a saga that has not completed has a cause.
Calm == faults = MaxFaults /\ edits = MaxEdits

FailedJob == \E c \in Channels : job[c].state = "failed"

\* Another saga of the post was let past the lock, or published the post.
OtherPast(s) ==
  \E o \in Sagas \ {s} : saga[o].pc \notin {"idle", "lock"} /\ saga[o].row # "compensated"
OtherPublished(s) ==
  post.status = "PUBLISHED" /\ \E o \in Sagas \ {s} : saga[o].row = "completed"

Reliable(s) ==
  /\ saga[s].pc = "enqueue" => \A c \in Channels \ saga[s].todo : job[c].state # "none"
  /\ saga[s].pc = "wait" => \A c \in Channels : job[c].state # "none"
  /\ saga[s].bad => FailedJob
  /\ saga[s].pc = "over" <=> saga[s].row # "running"

Caused(s) ==
  /\ saga[s].row = "failed" => FailedJob \/ OtherPublished(s)
  /\ saga[s].row = "compensated" => OtherPast(s)

Sound ==
  /\ excuse = {} /\ ~post.deleted /\ post.status # "SCHEDULED"
  /\ \A c \in Channels : job[c].state = "active" => worker[job[c].by].ch = c
  /\ post.status = "PUBLISHED" => \E s \in Sagas : saga[s].row = "completed"
  /\ \A s \in Sagas : Reliable(s) /\ Caused(s)

CalmOK == Calm => Sound

IInv ==
  /\ TypeOK /\ SlotsOK /\ JobsOK /\ RecordsOK /\ SagasOK /\ ChannelsOK /\ CalmOK

USE NoneAssumption, BoundsAssumption

\* At first there is no job, no attempt and no active saga.
LEMMA InitIInv == Init => IInv
<1> SUFFICES ASSUME Init PROVE IInv
  OBVIOUS
<1>1. TypeOK
  <2>1. NoJob \in Jobs /\ Idle \in Runs
    BY DEF NoJob, Idle, Jobs, Runs
  <2>2. ASSUME NEW m \in Modes
        PROVE  [pc |-> "idle", row |-> "running", mode |-> m, todo |-> {}, bad |-> FALSE, open |-> FALSE,
                left |-> Retries] \in Passes
    BY DEF Passes
  <2>3. saga \in [Sagas -> Passes]
    BY <2>2 DEF Init
  <2>4. job \in [Channels -> Jobs] /\ worker \in [Workers -> Runs]
    BY <2>1 DEF Init
  <2>5. post \in [status : {"DRAFT", "SCHEDULED", "PUBLISHED"}, deleted : BOOLEAN]
    BY DEF Init
  <2>6. faults \in 0..MaxFaults /\ edits \in 0..MaxEdits
    BY DEF Init
  <2>7. /\ log \in [Channels -> {"none", "RUNNING", "OK", "ERR"}]
        /\ tweet \in [Tweets -> {"none", "PENDING", "PUBLISHED"}]
        /\ live \in [Channels -> 0..2]
    BY DEF Init
  <2>8. /\ kind \in Kinds /\ thread \in BOOLEAN
        /\ skipped \subseteq Channels /\ closed \subseteq Channels /\ excuse \subseteq Channels
    BY DEF Init
  <2> QED
    BY <2>3, <2>4, <2>5, <2>6, <2>7, <2>8 DEF TypeOK
<1>2. SlotsOK /\ JobsOK /\ RecordsOK /\ ChannelsOK
  BY DEF Init, NoJob, Idle, SlotsOK, JobsOK, RecordsOK, Holds, ChannelsOK, Alone, Fresh, Recorded,
         Dropped
<1>3. SagasOK /\ CalmOK
  BY DEF Init, SagasOK, CalmOK, Sound, Reliable, Caused, PromotedHasACause, NoJob
<1> QED
  BY <1>1, <1>2, <1>3 DEF IInv

\* A free slot is at no channel.
LEMMA IdleTyped == Idle \in Runs /\ Idle.pc = "idle" /\ Idle.ch = None
  BY DEF Idle, Runs

\* A fault, or an edit, ends the calm for good.
LEMMA Spending ==
  ASSUME TypeOK, Fault \/ Edit \/ UNCHANGED bounds
  PROVE  /\ faults' \in 0..MaxFaults /\ edits' \in 0..MaxEdits
         /\ Calm' => Calm /\ UNCHANGED bounds
  BY DEF TypeOK, Fault, Edit, bounds, Calm

-----------------------------------------------------------------------------
(* Frames. *)

\* The step does not concern channel c.
Untouched(c) ==
  /\ job'[c] = job[c] /\ log'[c] = log[c] /\ live'[c] = live[c]
  /\ c \in skipped' <=> c \in skipped
  /\ \A w \in Workers : worker'[w] = worker[w] \/ (worker[w].ch # c /\ worker'[w].ch # c)

\* A step at one channel leaves what is said of the others.
LEMMA ChannelsKept ==
  ASSUME ChannelsOK, excuse \subseteq excuse', NEW c \in Channels,
         \A d \in Channels \ {c} : Untouched(d),
         c \notin excuse' => Alone(c)' /\ Fresh(c)' /\ Recorded(c)' /\ Dropped(c)'
  PROVE  ChannelsOK'
<1>1. ASSUME NEW d \in Channels, Untouched(d), Alone(d), Fresh(d), Recorded(d), Dropped(d)
      PROVE  Alone(d)' /\ Fresh(d)' /\ Recorded(d)' /\ Dropped(d)'
  <2>1. Alone(d)' /\ Fresh(d)'
    BY <1>1 DEF Untouched, Alone, Fresh
  <2>2. Recorded(d)' /\ Dropped(d)'
    BY <1>1 DEF Untouched, Recorded, Dropped
  <2> QED
    BY <2>1, <2>2
<1> QED
  BY <1>1 DEF ChannelsOK

\* Settled channels stay settled, and sagas and post stay as they are.
LEMMA SagasKept ==
  ASSUME SagasOK, UNCHANGED saga, post'.status = "PUBLISHED" => post.status = "PUBLISHED",
         \A c \in Channels : Settled(c) => Settled(c)'
  PROVE  SagasOK'
  BY DEF SagasOK, Settled, PromotedHasACause

\* The calm goes on where no saga and no post moves, and no failed job is lost.
LEMMA CalmKept ==
  ASSUME Sound, UNCHANGED <<saga, post>>, excuse' = {},
         \A c \in Channels : job'[c].state = "active" => worker'[job'[c].by].ch = c,
         \A c \in Channels :
           /\ job[c].state # "none" => job'[c].state # "none"
           /\ job[c].state = "failed" => job'[c].state = "failed"
  PROVE  Sound'
<1>1. FailedJob => FailedJob'
  BY DEF FailedJob
<1>2. \A s \in Sagas : Reliable(s) => Reliable(s)'
  BY <1>1 DEF Reliable
<1>3. \A s \in Sagas : Caused(s) => Caused(s)'
  BY <1>1 DEF Caused, OtherPast, OtherPublished
<1> QED
  BY <1>2, <1>3 DEF Sound

\* The row a worker is at; where no fault has hit, the worker holds the job and
\* nobody else is there.
LEMMA Hand ==
  ASSUME IInv, NEW w \in Workers, NEW c, c = worker[w].ch, worker[w].pc # "idle"
  PROVE  /\ c \in Channels
         /\ c \notin excuse =>
              /\ Alone(c) /\ Holds(w) /\ \A v \in Workers \ {w} : worker[v].ch # c
              /\ worker[w].pc \notin {"log", "mark", "ok", "done"} => live[c] = 0
              /\ live[c] # 2
              /\ live[c] = 1 => log[c] = "OK" \/ worker[w].pc \in {"mark", "ok"}
              /\ c \in skipped => worker[w].pc = "done"
<1>1. c \in Channels
  BY DEF IInv, SlotsOK
<1>2. ASSUME c \notin excuse
      PROVE  /\ Alone(c) /\ Fresh(c) /\ Recorded(c) /\ Dropped(c)
             /\ Holds(w) /\ \A v \in Workers \ {w} : worker[v].ch # c
  BY <1>1, <1>2 DEF IInv, ChannelsOK, Alone, Holds
<1> QED
  BY <1>1, <1>2 DEF Fresh, Recorded, Dropped, Holds

\* A statement of the handler.  What is left to each: what is out, what is on
\* record, and where the attempt stands.
LEMMA AttemptStep ==
  ASSUME IInv, NEW w \in Workers, NEW c, c = worker[w].ch, worker[w].pc # "idle",
         UNCHANGED <<kind, post, job, saga>>, Fault \/ Saved,
         worker' \in [Workers -> Runs], \A v \in Workers \ {w} : worker'[v] = worker[v],
         worker'[w].ch = c, worker'[w].pc # "idle",
         thread' \in BOOLEAN, tweet' \in [Tweets -> {"none", "PENDING", "PUBLISHED"}],
         log' \in [Channels -> {"none", "RUNNING", "OK", "ERR"}],
         live' \in [Channels -> 0..2],
         \A d \in Channels \ {c} : log'[d] = log[d] /\ live'[d] = live[d],
         live[c] > 0 => live'[c] > 0,
         skipped' = skipped \/ skipped' = skipped \cup {c},
         closed' = closed \/ closed' = closed \cup {c},
         excuse' = excuse \/ (Fault /\ excuse' = excuse \cup {c}),
         log'[c] = "OK" \/ worker'[w].pc \in {"mark", "ok"} => live'[c] > 0,
         worker'[w].pc = "done" => live'[c] > 0 \/ c \in closed',
         c \notin excuse' =>
           /\ worker'[w].pc \notin {"log", "mark", "ok", "done"} => live'[c] = 0
           /\ live'[c] # 2
           /\ live'[c] = 1 => log'[c] = "OK" \/ worker'[w].pc \in {"mark", "ok"}
           /\ c \in skipped' => worker'[w].pc = "done"
  PROVE  IInv'
<1> USE DEF IInv
<1>1. /\ c \in Channels
      /\ c \notin excuse => Alone(c) /\ Holds(w) /\ \A v \in Workers \ {w} : worker[v].ch # c
  BY Hand
<1>2. /\ faults' \in 0..MaxFaults /\ edits' \in 0..MaxEdits
      /\ Calm' => Calm /\ UNCHANGED bounds
  BY Spending DEF Saved, bounds
<1>3. TypeOK'
  BY <1>1, <1>2 DEF TypeOK
<1>4. SlotsOK' /\ JobsOK'
  BY <1>1 DEF SlotsOK, JobsOK
<1>5. \A d \in Channels : Settled(d) => Settled(d)'
  BY <1>1 DEF Settled
<1>6. RecordsOK'
  <2>1. \A d \in Channels : log'[d] = "OK" => live'[d] > 0
    BY DEF RecordsOK
  <2>2. \A v \in Workers : worker'[v].pc \in {"mark", "ok"} => live'[worker'[v].ch] > 0
    BY DEF RecordsOK, SlotsOK
  <2>3. \A d \in Channels : job'[d].state = "completed" => Settled(d)'
    BY <1>5 DEF RecordsOK
  <2>4. ASSUME NEW v \in Workers, worker'[v].pc = "done", Holds(v)' PROVE Settled(worker[v].ch)'
    <3>1. CASE v = w
      BY <2>4, <3>1 DEF Settled
    <3>2. CASE v # w
      <4>1. worker'[v] = worker[v] /\ worker[v].ch \in Channels /\ Holds(v)
        BY <2>4, <3>2 DEF Holds, SlotsOK
      <4>2. Settled(worker[v].ch)
        BY <2>4, <4>1 DEF RecordsOK
      <4> QED
        BY <1>5, <4>1, <4>2 DEF Settled
    <3> QED
      BY <3>1, <3>2
  <2> QED
    BY <2>1, <2>2, <2>3, <2>4 DEF RecordsOK
<1>7. SagasOK'
  BY <1>5, SagasKept
<1>8. \A d \in Channels \ {c} : Untouched(d)
  BY <1>1 DEF Untouched
<1>9. c \notin excuse' => Alone(c)' /\ Fresh(c)' /\ Recorded(c)' /\ Dropped(c)'
  <2> SUFFICES ASSUME c \notin excuse' PROVE Alone(c)' /\ Fresh(c)' /\ Recorded(c)' /\ Dropped(c)'
    OBVIOUS
  <2>1. Alone(c) /\ Holds(w) /\ \A v \in Workers \ {w} : worker'[v].ch # c
    BY <1>1
  <2>2. Alone(c)' /\ Fresh(c)'
    BY <2>1 DEF Alone, Fresh
  <2>3. Recorded(c)' /\ Dropped(c)'
    BY <2>1 DEF Recorded, Dropped, Holds
  <2> QED
    BY <2>2, <2>3
<1>10. ChannelsOK'
  BY <1>1, <1>8, <1>9, ChannelsKept
<1>11. CalmOK'
  <2>1. \A v \in Workers : worker'[v].ch = worker[v].ch
    OBVIOUS
  <2>2. Calm' => excuse' = {} /\ Calm
    BY <1>2 DEF CalmOK, Sound, Calm, Fault, bounds, TypeOK
  <2>3. Sound => \A d \in Channels : job'[d].state = "active" => worker'[job'[d].by].ch = d
    BY <2>1 DEF Sound, JobsOK
  <2> QED
    BY <2>2, <2>3, CalmKept DEF CalmOK
<1> QED
  BY <1>3, <1>4, <1>6, <1>7, <1>10, <1>11

-----------------------------------------------------------------------------
(* The handler's statements. *)

\* The attempt goes on to pc, at the same channel.
Moved(w, pc) ==
  /\ worker' \in [Workers -> Runs]
  /\ \A v \in Workers \ {w} : worker'[v] = worker[v]
  /\ worker'[w].ch = worker[w].ch /\ worker'[w].pc = pc

Steps == {"idle", "log", "post", "running", "thread", "insert", "tweets",
          "call", "mark", "ok", "err", "done", "throw"}

\* Goto is a move.
LEMMA GotoMoves ==
  ASSUME TypeOK, NEW w \in Workers, NEW pc \in Steps, Goto(w, pc)
  PROVE  Moved(w, pc)
<1>1. worker[w] \in Runs
  BY DEF TypeOK
<1>2. [worker[w] EXCEPT !.pc = pc] \in Runs
  BY <1>1 DEF Runs, Steps
<1>3. /\ [worker[w] EXCEPT !.pc = pc].pc = pc
      /\ [worker[w] EXCEPT !.pc = pc].ch = worker[w].ch
  BY <1>1 DEF Runs
<1>4. worker' = [worker EXCEPT ![w] = [worker[w] EXCEPT !.pc = pc]] /\ worker \in [Workers -> Runs]
  BY DEF Goto, TypeOK
<1> QED
  BY <1>2, <1>3, <1>4 DEF Moved

\* So is a step that sets the fragments still to do.
LEMMA RestMoves ==
  ASSUME TypeOK, NEW w \in Workers, NEW pc \in Steps, NEW r \in SUBSET Tweets,
         worker' = [worker EXCEPT ![w] = [worker[w] EXCEPT !.pc = pc, !.rest = r]]
  PROVE  Moved(w, pc)
<1>1. worker[w] \in Runs
  BY DEF TypeOK
<1>2. [worker[w] EXCEPT !.pc = pc, !.rest = r] \in Runs
  BY <1>1 DEF Runs, Steps
<1>3. /\ [worker[w] EXCEPT !.pc = pc, !.rest = r].pc = pc
      /\ [worker[w] EXCEPT !.pc = pc, !.rest = r].ch = worker[w].ch
  BY <1>1 DEF Runs
<1> QED
  BY <1>2, <1>3 DEF Moved, TypeOK

\* And the step past one fragment, which leads on or stays.
LEMMA PastMoves ==
  ASSUME TypeOK, NEW w \in Workers, NEW t \in Tweets, NEW pc \in Steps,
         worker' = [worker EXCEPT ![w] = Past(worker[w], t, pc)]
  PROVE  Moved(w, pc) \/ Moved(w, worker[w].pc)
<1>1. worker[w] \in Runs /\ worker \in [Workers -> Runs]
  BY DEF TypeOK
<1>2. [worker[w] EXCEPT !.rest = {}, !.pc = pc] \in Runs
  BY <1>1 DEF Runs, Steps
<1>3. [worker[w] EXCEPT !.rest = worker[w].rest \ {t}] \in Runs
  BY <1>1 DEF Runs
<1>4. /\ [worker[w] EXCEPT !.rest = {}, !.pc = pc].pc = pc
      /\ [worker[w] EXCEPT !.rest = {}, !.pc = pc].ch = worker[w].ch
      /\ [worker[w] EXCEPT !.rest = worker[w].rest \ {t}].pc = worker[w].pc
      /\ [worker[w] EXCEPT !.rest = worker[w].rest \ {t}].ch = worker[w].ch
  BY <1>1 DEF Runs
<1>5. CASE worker[w].rest = {t}
  BY <1>1, <1>2, <1>4, <1>5 DEF Past, Moved
<1>6. CASE worker[w].rest # {t}
  BY <1>1, <1>3, <1>4, <1>6 DEF Past, Moved
<1> QED
  BY <1>5, <1>6

\* A recorded success is out, so "done" is right; a read that failed is an excuse.
LEMMA StepReadLog ==
  ASSUME IInv, NEW w \in Workers, ReadLog(w) PROVE IInv'
<1> DEFINE c == worker[w].ch
<1>1. /\ worker[w].pc = "log" /\ UNCHANGED <<kind, post, job, saga, log, thread, tweet, live>>
      /\ UNCHANGED <<skipped, closed>>
  BY DEF ReadLog, At, Quiet, world, rows
<1>2. c \in Channels
  BY <1>1, Hand
<1>3. c \notin excuse => live[c] # 2 /\ (live[c] = 1 => log[c] = "OK") /\ c \notin skipped
  BY <1>1, Hand
<1>4. live[c] \in 0..2 /\ TypeOK /\ (log[c] = "OK" => live[c] > 0)
  BY <1>2 DEF IInv, TypeOK, RecordsOK
<1>5. CASE Saved /\ Goto(w, IF IsDone(c) THEN "done" ELSE "post") /\ UNCHANGED excuse
  <2>1. CASE log[c] = "OK"
    <3>1. Moved(w, "done")
      BY <1>4, <1>5, <2>1, GotoMoves DEF IsDone, Steps
    <3> QED
      BY <1>1, <1>2, <1>3, <1>4, <1>5, <2>1, <3>1, AttemptStep DEF Moved, IInv, TypeOK
  <2>2. CASE log[c] # "OK"
    <3>1. Moved(w, "post")
      BY <1>4, <1>5, <2>2, GotoMoves DEF IsDone, Steps
    <3> QED
      BY <1>1, <1>2, <1>3, <1>4, <1>5, <2>2, <3>1, AttemptStep DEF Moved, IInv, TypeOK
  <2> QED
    BY <2>1, <2>2
<1>6. CASE Fault /\ Goto(w, "post") /\ excuse' = IF IsDone(c) THEN excuse \cup {c} ELSE excuse
  <2>1. Moved(w, "post")
    BY <1>4, <1>6, GotoMoves DEF Steps
  <2>2. excuse' = excuse \/ excuse' = excuse \cup {c}
    BY <1>6
  <2>3. c \notin excuse' => c \notin excuse /\ log[c] # "OK"
    BY <1>6 DEF IsDone
  <2> QED
    BY <1>1, <1>2, <1>3, <1>4, <1>6, <2>1, <2>2, <2>3, AttemptStep DEF Moved, IInv, TypeOK
<1> QED
  BY <1>5, <1>6 DEF ReadLog

\* A deleted post settles its channel.
LEMMA StepLoadPost ==
  ASSUME IInv, NEW w \in Workers, LoadPost(w) PROVE IInv'
<1> DEFINE c == worker[w].ch
<1>1. /\ worker[w].pc = "post" /\ UNCHANGED <<kind, post, job, saga, log, thread, tweet, live>>
      /\ UNCHANGED excuse
  BY DEF LoadPost, At, Quiet, world, rows
<1>2. c \in Channels
  BY <1>1, Hand
<1>3. c \notin excuse => live[c] = 0 /\ c \notin skipped
  BY <1>1, Hand
<1>4. live[c] \in 0..2 /\ TypeOK /\ (log[c] = "OK" => live[c] > 0)
  BY <1>2 DEF IInv, TypeOK, RecordsOK
<1>5. CASE /\ Saved /\ Goto(w, OnDeleted)
           /\ skipped' = skipped \cup {c} /\ closed' = closed \cup {c}
  <2>1. Moved(w, "done")
    BY <1>4, <1>5, GotoMoves DEF OnDeleted, Steps
  <2> QED
    BY <1>1, <1>2, <1>3, <1>4, <1>5, <2>1, AttemptStep DEF Moved, IInv, TypeOK
<1>6. ASSUME NEW pc \in {"running", "throw"}, Goto(w, pc), Fault \/ Saved,
             UNCHANGED <<skipped, closed>>
      PROVE  IInv'
  <2>1. Moved(w, pc)
    BY <1>4, <1>6, GotoMoves DEF Steps
  <2> QED
    BY <1>1, <1>2, <1>3, <1>4, <1>6, <2>1, AttemptStep DEF Moved, IInv, TypeOK
<1> QED
  BY <1>5, <1>6 DEF LoadPost

\* A success that is replaced is not out, unless a fault has hit.
LEMMA StepLogRunning ==
  ASSUME IInv, NEW w \in Workers, LogRunning(w) PROVE IInv'
<1> DEFINE c == worker[w].ch
<1>1. /\ worker[w].pc = "running" /\ UNCHANGED <<kind, post, job, saga, thread, tweet, live>>
      /\ UNCHANGED <<excuse, closed, skipped>> /\ (Saved \/ Fault)
  BY DEF LogRunning, At, Quiet, world, ghosts
<1>2. c \in Channels
  BY <1>1, Hand
<1>3. c \notin excuse => live[c] = 0 /\ c \notin skipped
  BY <1>1, Hand
<1>4. live[c] \in 0..2 /\ TypeOK /\ (log[c] = "OK" => live[c] > 0)
  BY <1>2 DEF IInv, TypeOK, RecordsOK
<1>5. /\ log' \in [Channels -> {"none", "RUNNING", "OK", "ERR"}]
      /\ \A d \in Channels \ {c} : log'[d] = log[d]
      /\ log'[c] = "OK" => log[c] = "OK"
  BY <1>2, <1>4 DEF LogRunning, TypeOK
<1>6. PICK pc \in {"thread", "call"} : Moved(w, pc)
  BY <1>4, GotoMoves DEF LogRunning, Steps
<1> QED
  BY <1>1, <1>2, <1>3, <1>4, <1>5, <1>6, AttemptStep DEF Moved, IInv, TypeOK

\* A complete thread settles the channel that finds it.
LEMMA StepFindThread ==
  ASSUME IInv, NEW w \in Workers, FindThread(w) PROVE IInv'
<1> DEFINE c == worker[w].ch
<1>1. /\ worker[w].pc = "thread" /\ UNCHANGED <<kind, post, job, saga, log, thread, tweet, live>>
      /\ UNCHANGED <<excuse, skipped>>
  BY DEF FindThread, At, Quiet, world, rows
<1>2. c \in Channels
  BY <1>1, Hand
<1>3. c \notin excuse => live[c] = 0 /\ c \notin skipped
  BY <1>1, Hand
<1>4. live[c] \in 0..2 /\ TypeOK /\ (log[c] = "OK" => live[c] > 0)
  BY <1>2 DEF IInv, TypeOK, RecordsOK
<1>5. CASE Saved /\ Goto(w, "done") /\ closed' = closed \cup {c}
  <2>1. Moved(w, "done")
    BY <1>4, <1>5, GotoMoves DEF Steps
  <2> QED
    BY <1>1, <1>2, <1>3, <1>4, <1>5, <2>1, AttemptStep DEF Moved, IInv, TypeOK
<1>6. ASSUME NEW pc \in {"insert", "throw", "tweets"}, Moved(w, pc), Fault \/ Saved,
             UNCHANGED closed
      PROVE  IInv'
  BY <1>1, <1>2, <1>3, <1>4, <1>6, AttemptStep DEF Moved, IInv, TypeOK
<1>7. CASE worker' = [worker EXCEPT ![w] = [@ EXCEPT !.pc = "tweets", !.rest = Tweets]]
  <2>1. Moved(w, "tweets")
    BY <1>4, <1>7, RestMoves DEF Steps
  <2>2. (Fault \/ Saved) /\ UNCHANGED closed
    <3>1. worker'[w].pc # "done" /\ worker'[w].pc # "insert" /\ worker'[w].pc # "throw"
      BY <2>1 DEF Moved
    <3>2. ~Goto(w, "done") /\ ~Goto(w, "insert") /\ ~Goto(w, "throw")
      BY <1>4, <3>1, GotoMoves DEF Moved, Steps
    <3> QED
      BY <3>2 DEF FindThread
  <2> QED
    BY <1>6, <2>1, <2>2
<1>8. ASSUME NEW pc \in {"insert", "throw"}, Goto(w, pc), Fault \/ Saved, UNCHANGED closed
      PROVE  IInv'
  BY <1>4, <1>6, <1>8, GotoMoves DEF Steps
<1> QED
  BY <1>5, <1>7, <1>8 DEF FindThread

\* No record but the thread changes.
LEMMA StepInsertThread ==
  ASSUME IInv, NEW w \in Workers, InsertThread(w) PROVE IInv'
<1> DEFINE c == worker[w].ch
<1>1. /\ worker[w].pc = "insert" /\ UNCHANGED <<kind, post, job, saga, log, tweet, live>>
      /\ UNCHANGED <<excuse, closed, skipped>> /\ (Saved \/ Fault)
  BY DEF InsertThread, At, Quiet, world, ghosts
<1>2. c \in Channels
  BY <1>1, Hand
<1>3. c \notin excuse => live[c] = 0 /\ c \notin skipped
  BY <1>1, Hand
<1>4. live[c] \in 0..2 /\ TypeOK /\ (log[c] = "OK" => live[c] > 0)
  BY <1>2 DEF IInv, TypeOK, RecordsOK
<1>5. PICK pc \in {"tweets", "throw"} : Moved(w, pc)
  <2>1. CASE Goto(w, "throw")
    BY <1>4, <2>1, GotoMoves DEF Steps
  <2>2. CASE worker' = [worker EXCEPT ![w] = [@ EXCEPT !.pc = "tweets", !.rest = Tweets]]
    BY <1>4, <2>2, RestMoves DEF Steps
  <2> QED
    BY <2>1, <2>2 DEF InsertThread
<1>6. thread' \in BOOLEAN
  BY <1>4 DEF InsertThread, TypeOK
<1> QED
  BY <1>1, <1>2, <1>3, <1>4, <1>5, <1>6, AttemptStep DEF Moved, IInv, TypeOK

\* No record but the tweet changes.
LEMMA StepCreateTweet ==
  ASSUME IInv, NEW w \in Workers, NEW t \in Tweets, CreateTweet(w, t) PROVE IInv'
<1> DEFINE c == worker[w].ch
<1>1. /\ worker[w].pc = "tweets" /\ UNCHANGED <<kind, post, job, saga, log, thread, live>>
      /\ UNCHANGED <<excuse, closed, skipped>> /\ (Saved \/ Fault)
  BY DEF CreateTweet, At, Quiet, world, ghosts
<1>2. c \in Channels
  BY <1>1, Hand
<1>3. c \notin excuse => live[c] = 0 /\ c \notin skipped
  BY <1>1, Hand
<1>4. live[c] \in 0..2 /\ TypeOK /\ (log[c] = "OK" => live[c] > 0)
  BY <1>2 DEF IInv, TypeOK, RecordsOK
<1>5. PICK pc \in {"tweets", "throw", "call"} : Moved(w, pc)
  <2>1. CASE worker' = [worker EXCEPT ![w] = Past(@, t, "call")]
    <3>1. Moved(w, "call") \/ Moved(w, worker[w].pc)
      BY <1>4, <2>1, PastMoves DEF Steps
    <3> QED
      BY <1>1, <3>1
  <2>2. CASE worker' = [worker EXCEPT ![w] = [@ EXCEPT !.pc = "throw", !.rest = {}]]
    <3>1. "throw" \in Steps /\ {} \in SUBSET Tweets
      BY DEF Steps
    <3>2. Moved(w, "throw")
      BY <1>4, <2>2, <3>1, RestMoves
    <3> QED
      BY <3>2
  <2> QED
    BY <2>1, <2>2 DEF CreateTweet
<1>6. tweet' \in [Tweets -> {"none", "PENDING", "PUBLISHED"}]
  BY <1>4 DEF CreateTweet, TypeOK
<1> QED
  BY <1>1, <1>2, <1>3, <1>4, <1>5, <1>6, AttemptStep DEF Moved, IInv, TypeOK

\* What was not out is out once; an answer lost on the way is an excuse.
LEMMA StepCallProvider ==
  ASSUME IInv, NEW w \in Workers, CallProvider(w) PROVE IInv'
<1> DEFINE c == worker[w].ch
<1>1. /\ worker[w].pc = "call" /\ UNCHANGED <<kind, post, job, saga, log, thread, tweet>>
      /\ UNCHANGED <<closed, skipped>>
  BY DEF CallProvider, At, Quiet, rows
<1>2. c \in Channels
  BY <1>1, Hand
<1>3. c \notin excuse => live[c] = 0 /\ c \notin skipped
  BY <1>1, Hand
<1>4. live[c] \in 0..2 /\ TypeOK /\ (log[c] = "OK" => live[c] > 0)
  BY <1>2 DEF IInv, TypeOK, RecordsOK
<1>5. ASSUME Published(c)
      PROVE  /\ live' \in [Channels -> 0..2] /\ \A d \in Channels \ {c} : live'[d] = live[d]
             /\ live'[c] > 0 /\ (live[c] = 0 => live'[c] = 1)
  BY <1>2, <1>4, <1>5 DEF Published, TypeOK
<1>6. ASSUME Published(c), Saved, UNCHANGED excuse, NEW pc \in {"mark", "ok"}, Moved(w, pc)
      PROVE  IInv'
  BY <1>1, <1>2, <1>3, <1>4, <1>5, <1>6, AttemptStep DEF Moved, IInv, TypeOK
<1>7. ASSUME UNCHANGED <<live, excuse>>, Saved, NEW pc \in {"err", "throw"}, Goto(w, pc)
      PROVE  IInv'
  <2>1. Moved(w, pc)
    BY <1>4, <1>7, GotoMoves DEF Steps
  <2> QED
    BY <1>1, <1>2, <1>3, <1>4, <1>7, <2>1, AttemptStep DEF Moved, IInv, TypeOK
<1>8. CASE Fault /\ Published(c) /\ excuse' = excuse \cup {c} /\ Goto(w, "err")
  <2>1. Moved(w, "err")
    BY <1>4, <1>8, GotoMoves DEF Steps
  <2> QED
    BY <1>1, <1>2, <1>3, <1>4, <1>5, <1>8, <2>1, AttemptStep DEF Moved, IInv, TypeOK
<1>9. CASE /\ Saved /\ Published(c) /\ UNCHANGED excuse
           /\ worker' = [worker EXCEPT ![w] = [@ EXCEPT !.pc = "mark", !.rest = Tweets]]
  BY <1>4, <1>6, <1>9, RestMoves DEF Steps
<1>10. CASE Saved /\ Published(c) /\ UNCHANGED excuse /\ Goto(w, "ok")
  BY <1>4, <1>6, <1>10, GotoMoves DEF Steps
<1> QED
  BY <1>7, <1>8, <1>9, <1>10 DEF CallProvider

\* What is out stays about to be recorded.
LEMMA StepMarkTweet ==
  ASSUME IInv, NEW w \in Workers, NEW t \in Tweets, MarkTweet(w, t) PROVE IInv'
<1> DEFINE c == worker[w].ch
<1>1. /\ worker[w].pc = "mark" /\ UNCHANGED <<kind, post, job, saga, log, thread, live>>
      /\ UNCHANGED <<excuse, closed, skipped>> /\ (Saved \/ Fault)
  BY DEF MarkTweet, At, Quiet, world, ghosts
<1>2. c \in Channels
  BY <1>1, Hand
<1>3. c \notin excuse => live[c] # 2 /\ c \notin skipped
  BY <1>1, Hand
<1>4. live[c] \in 0..2 /\ TypeOK /\ live[c] > 0
  BY <1>1, <1>2 DEF IInv, TypeOK, RecordsOK
<1>5. PICK pc \in {"mark", "ok"} : Moved(w, pc)
  BY <1>1, <1>4, PastMoves DEF MarkTweet, Steps
<1>6. tweet' \in [Tweets -> {"none", "PENDING", "PUBLISHED"}]
  BY <1>4 DEF MarkTweet, TypeOK
<1> QED
  BY <1>1, <1>2, <1>3, <1>4, <1>5, <1>6, AttemptStep DEF Moved, IInv, TypeOK

\* What is out goes on record, or the lost write is an excuse.
LEMMA StepLogOutcome ==
  ASSUME IInv, NEW w \in Workers, LogOutcome(w) PROVE IInv'
<1> DEFINE c == worker[w].ch
<1>1. /\ worker[w].pc \in {"ok", "err"} /\ UNCHANGED <<kind, post, job, saga, thread, tweet, live>>
      /\ UNCHANGED <<closed, skipped>>
  BY DEF LogOutcome, At, Quiet, world
<1>2. c \in Channels
  BY <1>1, Hand
<1>3. c \notin excuse => /\ live[c] # 2 /\ c \notin skipped
                         /\ worker[w].pc = "err" => live[c] = 0
  BY <1>1, Hand
<1>4. /\ live[c] \in 0..2 /\ TypeOK /\ (log[c] = "OK" => live[c] > 0)
      /\ worker[w].pc = "ok" => live[c] > 0
  BY <1>1, <1>2 DEF IInv, TypeOK, RecordsOK
<1>5. ASSUME NEW x \in {"OK", "ERR"}, log' = [log EXCEPT ![c] = x]
      PROVE  /\ log' \in [Channels -> {"none", "RUNNING", "OK", "ERR"}]
             /\ log'[c] = x /\ \A d \in Channels \ {c} : log'[d] = log[d]
  BY <1>2, <1>4, <1>5 DEF TypeOK
<1>6. CASE worker[w].pc = "ok"
  <2>1. Moved(w, "done")
    BY <1>4, <1>6, GotoMoves DEF LogOutcome, Then, At, Steps
  <2>2. CASE Saved /\ log' = [log EXCEPT ![c] = "OK"] /\ UNCHANGED excuse
    BY <1>1, <1>2, <1>3, <1>4, <1>5, <1>6, <2>1, <2>2, AttemptStep DEF Moved, IInv, TypeOK
  <2>3. CASE Fault /\ UNCHANGED log /\ excuse' = excuse \cup {c}
    BY <1>1, <1>2, <1>3, <1>4, <1>6, <2>1, <2>3, AttemptStep DEF Moved, IInv, TypeOK
  <2> QED
    BY <1>6, <2>2, <2>3 DEF LogOutcome, Outcome, At
<1>7. CASE worker[w].pc = "err"
  <2>1. Moved(w, "throw")
    BY <1>4, <1>7, GotoMoves DEF LogOutcome, Then, At, Steps
  <2>2. CASE Saved /\ log' = [log EXCEPT ![c] = "ERR"] /\ UNCHANGED excuse
    BY <1>1, <1>2, <1>3, <1>4, <1>5, <1>7, <2>1, <2>2, AttemptStep DEF Moved, IInv, TypeOK
  <2>3. CASE Fault /\ UNCHANGED <<log, excuse>>
    BY <1>1, <1>2, <1>3, <1>4, <1>7, <2>1, <2>3, AttemptStep DEF Moved, IInv, TypeOK
  <2> QED
    BY <1>7, <2>2, <2>3 DEF LogOutcome, Outcome, At
<1> QED
  BY <1>1, <1>6, <1>7

-----------------------------------------------------------------------------
(* The queue, crashes and users. *)

\* A waiting job has no attempt, so the new one is alone.
LEMMA StepTake ==
  ASSUME IInv, NEW w \in Workers, NEW c \in Channels, Take(w, c) PROVE IInv'
<1> USE DEF IInv
<1> DEFINE j == [job[c] EXCEPT !.state = "active", !.by = w]
           r == [pc |-> "log", ch |-> c, rest |-> {}]
<1>1. /\ worker[w].pc = "idle" /\ worker[w].ch = None /\ job[c].state = "ready"
      /\ UNCHANGED <<kind, live, saga, post, log, thread, tweet, skipped, closed, excuse>>
      /\ UNCHANGED <<faults, edits>>
  BY IdleTyped DEF Take, world, rows, ghosts, bounds
<1>2. job[c] \in Jobs /\ job \in [Channels -> Jobs] /\ worker \in [Workers -> Runs]
  BY DEF TypeOK
<1>3. j \in Jobs /\ j.state = "active" /\ j.by = w /\ j.made = job[c].made
  BY <1>2 DEF Jobs
<1>4. /\ job' \in [Channels -> Jobs] /\ job'[c] = j
      /\ \A d \in Channels \ {c} : job'[d] = job[d]
  BY <1>2, <1>3 DEF Take
<1>5. r \in Runs /\ r.pc = "log" /\ r.ch = c
  BY DEF Runs
<1>6. /\ worker' \in [Workers -> Runs] /\ worker'[w] = r
      /\ \A v \in Workers \ {w} : worker'[v] = worker[v]
  BY <1>2, <1>5 DEF Take
<1>7. TypeOK'
  BY <1>1, <1>4, <1>6 DEF TypeOK
<1> HIDE DEF j, r
<1>8. SlotsOK' /\ JobsOK'
  <2>1. SlotsOK'
    BY <1>5, <1>6 DEF SlotsOK
  <2>2. JobsOK'
    BY <1>1, <1>3, <1>4 DEF JobsOK
  <2> QED
    BY <2>1, <2>2
<1>9. \A d \in Channels : Settled(d) => Settled(d)'
  BY <1>1 DEF Settled
<1>10. RecordsOK'
  <2>1. \A d \in Channels : log'[d] = "OK" => live'[d] > 0
    BY <1>1 DEF RecordsOK
  <2>2. \A v \in Workers : worker'[v].pc \in {"mark", "ok"} => live'[worker'[v].ch] > 0
    BY <1>1, <1>5, <1>6 DEF RecordsOK
  <2>3. \A d \in Channels : job'[d].state = "completed" => Settled(d)'
    BY <1>3, <1>4, <1>9 DEF RecordsOK
  <2>4. ASSUME NEW v \in Workers, worker'[v].pc = "done", Holds(v)'
        PROVE  Settled(worker[v].ch)' /\ worker'[v].ch = worker[v].ch
    <3>1. v # w /\ worker'[v] = worker[v]
      BY <1>5, <1>6, <2>4
    <3>2. worker[v].ch \in Channels
      BY <2>4, <3>1 DEF SlotsOK
    <3>3. worker[v].ch # c
      BY <1>3, <1>4, <2>4, <3>1 DEF Holds
    <3>4. Holds(v)
      BY <1>4, <2>4, <3>1, <3>2, <3>3 DEF Holds
    <3> QED
      BY <1>9, <2>4, <3>1, <3>2, <3>4 DEF RecordsOK
  <2> QED
    BY <2>1, <2>2, <2>3, <2>4 DEF RecordsOK, Settled
<1>11. SagasOK'
  BY <1>1, <1>9, SagasKept
<1>12. ChannelsOK'
  <2>1. \A d \in Channels \ {c} : Untouched(d)
    BY <1>1, <1>4, <1>5, <1>6 DEF Untouched
  <2>2. ASSUME c \notin excuse' PROVE Alone(c)' /\ Fresh(c)' /\ Recorded(c)' /\ Dropped(c)'
    <3>1. \A v \in Workers : worker[v].ch # c
      BY <1>1, <2>2 DEF ChannelsOK, Alone
    <3>2. /\ live[c] # 2 /\ (live[c] = 1 => log[c] = "OK") /\ c \notin skipped
      BY <1>1, <2>2, <3>1 DEF ChannelsOK, Recorded, Dropped
    <3>3. Alone(c)' /\ Fresh(c)'
      BY <1>3, <1>4, <1>5, <1>6, <3>1 DEF Alone, Fresh
    <3>4. Recorded(c)' /\ Dropped(c)'
      BY <1>1, <1>3, <1>4, <3>2 DEF Recorded, Dropped
    <3> QED
      BY <3>3, <3>4
  <2> QED
    BY <1>1, <2>1, <2>2, ChannelsKept
<1>13. CalmOK'
  <2> SUFFICES ASSUME Calm' PROVE Sound'
    BY DEF CalmOK
  <2>1. Calm /\ Sound
    BY <1>1 DEF Calm, CalmOK
  <2>2. ASSUME NEW d \in Channels, job'[d].state = "active" PROVE worker'[job'[d].by].ch = d
    <3>1. CASE d = c
      BY <1>3, <1>4, <1>5, <1>6, <3>1
    <3>2. CASE d # c
      <4>1. job'[d] = job[d] /\ worker[job[d].by].ch = d /\ job[d].by \in Workers
        BY <1>4, <2>1, <2>2, <3>2 DEF Sound, JobsOK
      <4>2. job[d].by # w
        BY <1>1, <4>1
      <4> QED
        BY <1>6, <4>1, <4>2
    <3> QED
      BY <3>1, <3>2
  <2>3. \A d \in Channels : /\ job[d].state # "none" => job'[d].state # "none"
                            /\ job[d].state = "failed" => job'[d].state = "failed"
    BY <1>1, <1>3, <1>4
  <2>4. excuse' = {}
    BY <1>1, <2>1 DEF Sound
  <2> QED
    BY <1>1, <2>1, <2>2, <2>3, <2>4, CalmKept
<1> QED
  BY <1>7, <1>8, <1>10, <1>11, <1>12, <1>13

\* How a finished attempt leaves its job.
LEMMA FinishJob ==
  ASSUME IInv, NEW w \in Workers, Finish(w), NEW c, c = worker[w].ch
  PROVE  /\ c \in Channels /\ worker[w].pc \in {"done", "throw"}
         /\ job' \in [Channels -> Jobs] /\ \A d \in Channels \ {c} : job'[d] = job[d]
         /\ ~Holds(w) => job' = job
         /\ Holds(w) => /\ job'[c].state # "active" /\ job'[c].state # "none"
                        /\ job'[c].state = "ready" => job'[c].made < Attempts
                        /\ worker[w].pc = "done" => job'[c].state = "completed"
                        /\ worker[w].pc = "throw" => job'[c].state \in {"ready", "failed"}
<1>1. c \in Channels /\ worker[w].pc \in {"done", "throw"}
  BY Hand DEF Finish
<1>2. job[c] \in Jobs /\ job \in [Channels -> Jobs]
  BY <1>1 DEF IInv, TypeOK
<1>3. CASE ~Holds(w)
  BY <1>1, <1>2, <1>3 DEF Finish, Holds
<1>4. CASE Holds(w)
  <2>1. job[c].made < Attempts /\ job[c].made \in Nat
    BY <1>1, <1>2, <1>4 DEF Holds, IInv, JobsOK, Jobs
  <2>2. CASE worker[w].pc = "done"
    <3> DEFINE j == [job[c] EXCEPT !.state = "completed", !.by = None]
    <3>1. j \in Jobs /\ j.state = "completed"
      BY <1>2 DEF Jobs
    <3>2. job' = [job EXCEPT ![c] = j]
      BY <1>4, <2>2 DEF Finish, Holds
    <3>3. job'[c] = j /\ job' \in [Channels -> Jobs] /\ \A d \in Channels \ {c} : job'[d] = job[d]
      BY <1>1, <1>2, <3>1, <3>2
    <3> QED
      BY <1>1, <1>4, <2>2, <3>1, <3>3
  <2>3. CASE worker[w].pc = "throw"
    <3> DEFINE j == [job[c] EXCEPT !.made = job[c].made + 1, !.by = None,
                                   !.state = IF MayRetry(c) THEN "ready" ELSE "failed"]
    <3>1. job[c].made + 1 \in 0..Attempts
      BY <2>1
    <3>2. /\ j \in Jobs /\ j.made = job[c].made + 1
          /\ j.state = IF MayRetry(c) THEN "ready" ELSE "failed"
      BY <1>2, <3>1 DEF Jobs
    <3>3. job' = [job EXCEPT ![c] = j]
      BY <1>4, <2>3 DEF Finish, Holds
    <3>4. job'[c] = j /\ job' \in [Channels -> Jobs] /\ \A d \in Channels \ {c} : job'[d] = job[d]
      BY <1>1, <1>2, <3>2, <3>3
    <3> QED
      BY <1>1, <1>4, <2>3, <3>2, <3>4 DEF MayRetry
  <2> QED
    BY <1>1, <2>2, <2>3
<1> QED
  BY <1>3, <1>4

\* Where no fault has hit, the attempt holds its job and ends it as it found.
LEMMA StepFinish ==
  ASSUME IInv, NEW w \in Workers, Finish(w), NEW c, c = worker[w].ch PROVE IInv'
<1> USE DEF IInv
<1>1. /\ UNCHANGED <<kind, live, saga, post, log, thread, tweet, skipped, closed, excuse>>
      /\ UNCHANGED <<faults, edits>>
  BY DEF Finish, world, rows, ghosts, bounds
<1>2. /\ c \in Channels /\ worker[w].pc \in {"done", "throw"}
      /\ job' \in [Channels -> Jobs] /\ \A d \in Channels \ {c} : job'[d] = job[d]
      /\ ~Holds(w) => job' = job
      /\ Holds(w) => /\ job'[c].state # "active" /\ job'[c].state # "none"
                     /\ job'[c].state = "ready" => job'[c].made < Attempts
                     /\ worker[w].pc = "done" => job'[c].state = "completed"
                     /\ worker[w].pc = "throw" => job'[c].state \in {"ready", "failed"}
  BY FinishJob
<1>3. /\ worker' \in [Workers -> Runs] /\ worker'[w].pc = "idle" /\ worker'[w].ch = None
      /\ \A v \in Workers \ {w} : worker'[v] = worker[v]
  BY IdleTyped DEF Finish, TypeOK
<1>4. TypeOK'
  BY <1>1, <1>2, <1>3 DEF TypeOK
<1>5. SlotsOK' /\ JobsOK'
  <2>1. SlotsOK'
    BY <1>3 DEF SlotsOK
  <2>2. JobsOK'
    BY <1>2 DEF JobsOK
  <2> QED
    BY <2>1, <2>2
<1>6. \A d \in Channels : Settled(d) => Settled(d)'
  BY <1>1 DEF Settled
<1>7. RecordsOK'
  <2>1. \A d \in Channels : log'[d] = "OK" => live'[d] > 0
    BY <1>1 DEF RecordsOK
  <2>2. \A v \in Workers : worker'[v].pc \in {"mark", "ok"} => live'[worker'[v].ch] > 0
    BY <1>1, <1>3 DEF RecordsOK
  <2>3. ASSUME NEW d \in Channels, job'[d].state = "completed" PROVE Settled(d)'
    <3>1. CASE d = c /\ Holds(w)
      <4>1. worker[w].pc = "done"
        BY <1>2, <2>3, <3>1
      <4> QED
        BY <1>6, <3>1, <4>1 DEF RecordsOK
    <3>2. CASE ~(d = c /\ Holds(w))
      BY <1>2, <1>6, <2>3, <3>2 DEF RecordsOK
    <3> QED
      BY <3>1, <3>2
  <2>4. ASSUME NEW v \in Workers, worker'[v].pc = "done", Holds(v)'
        PROVE  Settled(worker[v].ch)' /\ worker'[v].ch = worker[v].ch
    <3>1. v # w /\ worker'[v] = worker[v]
      BY <1>3, <2>4
    <3>2. worker[v].ch \in Channels
      BY <2>4, <3>1 DEF SlotsOK
    <3>3. Holds(v)
      BY <1>2, <2>4, <3>1, <3>2 DEF Holds
    <3> QED
      BY <1>6, <2>4, <3>1, <3>2, <3>3 DEF RecordsOK
  <2> QED
    BY <2>1, <2>2, <2>3, <2>4 DEF RecordsOK, Settled
<1>8. SagasOK'
  BY <1>1, <1>6, SagasKept
<1>9. ChannelsOK'
  <2>1. \A d \in Channels \ {c} : Untouched(d)
    BY <1>1, <1>2, <1>3 DEF Untouched
  <2>2. ASSUME c \notin excuse' PROVE Alone(c)' /\ Fresh(c)' /\ Recorded(c)' /\ Dropped(c)'
    <3>1. /\ Holds(w) /\ \A v \in Workers \ {w} : worker[v].ch # c
          /\ live[c] # 2 /\ (live[c] = 1 => log[c] = "OK")
          /\ worker[w].pc = "throw" => live[c] = 0 /\ c \notin skipped
      BY <1>1, <1>2, <2>2, Hand
    <3>2. \A v \in Workers : worker'[v].ch # c
      BY <1>2, <1>3, <3>1
    <3>3. Alone(c)' /\ Fresh(c)'
      BY <3>2 DEF Alone, Fresh
    <3>4. Recorded(c)' /\ Dropped(c)'
      BY <1>1, <1>2, <3>1 DEF Recorded, Dropped
    <3> QED
      BY <3>3, <3>4
  <2> QED
    BY <1>1, <1>2, <2>1, <2>2, ChannelsKept
<1>10. CalmOK'
  <2> SUFFICES ASSUME Calm' PROVE Sound'
    BY DEF CalmOK
  <2>1. Calm /\ Sound
    BY <1>1 DEF Calm, CalmOK
  <2>2. ASSUME NEW d \in Channels, job'[d].state = "active" PROVE worker'[job'[d].by].ch = d
    <3>1. job'[d] = job[d] /\ worker[job[d].by].ch = d /\ job[d].by \in Workers
      BY <1>2, <2>1, <2>2 DEF Sound, JobsOK
    <3>2. CASE job[d].by = w
      BY <1>2, <2>2, <3>1, <3>2 DEF Holds
    <3>3. CASE job[d].by # w
      BY <1>3, <3>1, <3>3
    <3> QED
      BY <3>2, <3>3
  <2>3. \A d \in Channels : /\ job[d].state # "none" => job'[d].state # "none"
                            /\ job[d].state = "failed" => job'[d].state = "failed"
    BY <1>2 DEF Holds
  <2>4. excuse' = {}
    BY <1>1, <2>1 DEF Sound
  <2> QED
    BY <1>1, <2>1, <2>2, <2>3, <2>4, CalmKept
<1> QED
  BY <1>4, <1>5, <1>7, <1>8, <1>9, <1>10

\* A stalled job waits again or has failed.
LEMMA RecoveredIs ==
  ASSUME NEW j \in Jobs
  PROVE  /\ Recovered(j) \in Jobs /\ Recovered(j).state \in {"ready", "failed"}
         /\ Recovered(j).made = j.made
         /\ j.stalls # 1 => Recovered(j).state = "ready"
<1>1. CASE j.stalls = 1
  BY <1>1 DEF Recovered, Jobs
<1>2. CASE j.stalls # 1
  <2> DEFINE r == [j EXCEPT !.state = "ready", !.stalls = 1, !.by = None]
  <2>1. Recovered(j) = r
    BY <1>2 DEF Recovered
  <2>2. ASSUME NEW n \in 0..1, NEW x \in {"ready", "failed"}
        PROVE  LET q == [j EXCEPT !.state = x, !.stalls = n, !.by = None]
               IN  q \in Jobs /\ q.state = x /\ q.made = j.made
    BY DEF Jobs
  <2>3. r \in Jobs /\ r.state = "ready" /\ r.made = j.made
    BY <2>2
  <2> QED
    BY <2>1, <2>3
<1> QED
  BY <1>1, <1>2

\* With a holder that is gone nobody is left at the channel; otherwise it is an excuse.
LEMMA StepStall ==
  ASSUME IInv, NEW c \in Channels, Stall(c) PROVE IInv'
<1> USE DEF IInv
<1>1. /\ UNCHANGED <<kind, live, saga, post, log, thread, tweet, worker, skipped, closed>>
      /\ job[c].state = "active" /\ (Fault \/ UNCHANGED bounds)
      /\ excuse' = excuse \/ excuse' = excuse \cup {c}
      /\ worker[job[c].by].ch = c => Fault
  BY DEF Stall, world, rows
<1>2. job[c] \in Jobs /\ job \in [Channels -> Jobs]
  BY DEF TypeOK
<1>3. /\ Recovered(job[c]) \in Jobs /\ Recovered(job[c]).state \in {"ready", "failed"}
      /\ Recovered(job[c]).made = job[c].made
      /\ job[c].stalls # 1 => Recovered(job[c]).state = "ready"
  BY <1>2, RecoveredIs
<1>4. /\ job' \in [Channels -> Jobs] /\ job'[c] = Recovered(job[c])
      /\ \A d \in Channels \ {c} : job'[d] = job[d]
  BY <1>2, <1>3 DEF Stall
<1>5. /\ faults' \in 0..MaxFaults /\ edits' \in 0..MaxEdits
      /\ Calm' => Calm /\ UNCHANGED bounds
  BY <1>1, Spending
<1>6. TypeOK'
  BY <1>1, <1>4, <1>5 DEF TypeOK
<1>7. SlotsOK' /\ JobsOK'
  <2>1. SlotsOK'
    BY <1>1 DEF SlotsOK
  <2>2. JobsOK'
    BY <1>1, <1>3, <1>4 DEF JobsOK
  <2> QED
    BY <2>1, <2>2
<1>8. \A d \in Channels : Settled(d) => Settled(d)'
  BY <1>1 DEF Settled
<1>9. RecordsOK'
  <2>1. \A v \in Workers : worker[v].pc = "done" /\ Holds(v)' => Holds(v)
    BY <1>1, <1>3, <1>4 DEF Holds, SlotsOK
  <2>2. \A d \in Channels : job'[d].state = "completed" => Settled(d)'
    BY <1>3, <1>4, <1>8 DEF RecordsOK
  <2> QED
    BY <1>1, <2>1, <2>2 DEF RecordsOK, Settled
<1>10. SagasOK'
  BY <1>1, <1>8, SagasKept
<1>11. ChannelsOK'
  <2>1. \A d \in Channels \ {c} : Untouched(d)
    BY <1>1, <1>4 DEF Untouched
  <2>2. ASSUME c \notin excuse' PROVE Alone(c)' /\ Fresh(c)' /\ Recorded(c)' /\ Dropped(c)'
    <3>1. worker[job[c].by].ch # c /\ job[c].stalls # 1 /\ c \notin excuse
      BY <1>1, <2>2 DEF Stall
    <3>2. \A v \in Workers : worker[v].ch # c
      BY <3>1 DEF ChannelsOK, Alone
    <3>3. live[c] # 2 /\ (live[c] = 1 => log[c] = "OK") /\ c \notin skipped
      BY <1>1, <3>1, <3>2 DEF ChannelsOK, Recorded, Dropped
    <3>4. Alone(c)' /\ Fresh(c)'
      BY <1>1, <3>2 DEF Alone, Fresh
    <3>5. Recorded(c)' /\ Dropped(c)'
      BY <1>1, <1>3, <1>4, <3>1, <3>3 DEF Recorded, Dropped
    <3> QED
      BY <3>4, <3>5
  <2> QED
    BY <1>1, <2>1, <2>2, ChannelsKept
<1>12. CalmOK'
  <2> SUFFICES ASSUME Calm' PROVE FALSE
    BY DEF CalmOK
  <2>1. Calm /\ Sound /\ UNCHANGED bounds
    BY <1>5 DEF CalmOK
  <2>2. Fault
    BY <1>1, <2>1 DEF Sound
  <2> QED
    BY <2>1, <2>2 DEF Fault, bounds, TypeOK
<1> QED
  BY <1>6, <1>7, <1>9, <1>10, <1>11, <1>12

\* A finished job has no attempt, and its channel stays settled.
LEMMA StepEvict ==
  ASSUME IInv, NEW c \in Channels, Evict(c) PROVE IInv'
<1> USE DEF IInv
<1>1. /\ UNCHANGED <<kind, live, saga, post, log, thread, tweet, worker, skipped, closed, excuse>>
      /\ job[c].state \in {"completed", "failed"} /\ Fault
  BY DEF Evict, world, rows, ghosts
<1>2. NoJob \in Jobs /\ NoJob.state = "none"
  BY DEF NoJob, Jobs
<1>3. /\ job' \in [Channels -> Jobs] /\ job'[c] = NoJob
      /\ \A d \in Channels \ {c} : job'[d] = job[d]
  BY <1>2 DEF Evict, TypeOK
<1>4. /\ faults' \in 0..MaxFaults /\ edits' \in 0..MaxEdits /\ ~Calm'
  BY <1>1 DEF Fault, TypeOK, Calm
<1>5. TypeOK'
  BY <1>1, <1>3, <1>4 DEF TypeOK
<1>6. SlotsOK' /\ JobsOK'
  <2>1. SlotsOK'
    BY <1>1 DEF SlotsOK
  <2>2. JobsOK'
    BY <1>2, <1>3 DEF JobsOK
  <2> QED
    BY <2>1, <2>2
<1>7. \A d \in Channels : Settled(d) => Settled(d)'
  BY <1>1 DEF Settled
<1>8. RecordsOK'
  <2>1. \A v \in Workers : worker[v].pc = "done" /\ Holds(v)' => Holds(v)
    BY <1>1, <1>2, <1>3 DEF Holds, SlotsOK
  <2>2. \A d \in Channels : job'[d].state = "completed" => Settled(d)'
    BY <1>2, <1>3, <1>7 DEF RecordsOK
  <2> QED
    BY <1>1, <2>1, <2>2 DEF RecordsOK, Settled
<1>9. SagasOK'
  BY <1>1, <1>7, SagasKept
<1>10. ChannelsOK'
  <2>1. \A d \in Channels \ {c} : Untouched(d)
    BY <1>1, <1>3 DEF Untouched
  <2>2. ASSUME c \notin excuse' PROVE Alone(c)' /\ Fresh(c)' /\ Recorded(c)' /\ Dropped(c)'
    <3>1. Alone(c) /\ Recorded(c)
      BY <1>1, <2>2 DEF ChannelsOK
    <3>2. \A v \in Workers : worker[v].ch # c
      BY <1>1, <3>1 DEF Alone
    <3>3. Alone(c)' /\ Fresh(c)'
      BY <1>1, <3>2 DEF Alone, Fresh
    <3>4. Recorded(c)' /\ Dropped(c)'
      BY <1>1, <1>2, <1>3, <3>1, <3>2 DEF Recorded, Dropped
    <3> QED
      BY <3>3, <3>4
  <2> QED
    BY <1>1, <2>1, <2>2, ChannelsKept
<1> QED
  BY <1>4, <1>5, <1>6, <1>8, <1>9, <1>10 DEF CalmOK

\* What a dead attempt had not recorded is an excuse.
LEMMA StepCrash ==
  ASSUME IInv, NEW ws \in SUBSET Workers, Crash(ws) PROVE IInv'
<1> USE DEF IInv
<1>1. /\ UNCHANGED <<kind, live, saga, post, log, thread, tweet, job, skipped, closed>> /\ Fault
  BY DEF Crash, world, rows
<1>2. /\ worker' \in [Workers -> Runs]
      /\ \A w \in Workers \ ws : worker'[w] = worker[w]
      /\ \A w \in ws : worker'[w].pc = "idle" /\ worker'[w].ch = None
  BY IdleTyped DEF Crash, TypeOK
<1>3. \A w \in ws : Unrecorded(w) => worker[w].ch \in excuse'
  BY DEF Crash
<1>4. excuse \subseteq excuse' /\ excuse' \subseteq Channels
  BY DEF Crash, Unrecorded, At, SlotsOK, TypeOK
<1>5. /\ faults' \in 0..MaxFaults /\ edits' \in 0..MaxEdits /\ ~Calm'
  BY <1>1 DEF Fault, TypeOK, Calm
<1>6. TypeOK'
  BY <1>1, <1>2, <1>4, <1>5 DEF TypeOK
<1>7. SlotsOK' /\ JobsOK'
  BY <1>1, <1>2 DEF SlotsOK, JobsOK
<1>8. \A d \in Channels : Settled(d) => Settled(d)'
  BY <1>1 DEF Settled
<1>9. RecordsOK'
  BY <1>1, <1>2 DEF RecordsOK, Settled, Holds
<1>10. SagasOK'
  BY <1>1, <1>8, SagasKept
<1>11. ASSUME NEW d \in Channels \ excuse' PROVE Alone(d)' /\ Fresh(d)' /\ Recorded(d)' /\ Dropped(d)'
  <2>1. Alone(d) /\ Fresh(d) /\ Recorded(d) /\ Dropped(d)
    BY <1>4, <1>11 DEF ChannelsOK
  <2>2. Alone(d)' /\ Fresh(d)'
    BY <1>1, <1>2, <2>1 DEF Alone, Fresh
  <2>3. ASSUME NEW w \in Workers, worker[w].ch = d, Unrecorded(w) PROVE worker'[w] = worker[w]
    BY <1>2, <1>3, <1>11, <2>3
  <2>4. Recorded(d)'
    BY <1>1, <2>1, <2>3 DEF Recorded, Unrecorded, At
  <2>5. Dropped(d)'
    BY <1>1, <2>1, <2>3 DEF Dropped, Unrecorded, At
  <2> QED
    BY <2>2, <2>4, <2>5
<1> QED
  BY <1>5, <1>6, <1>7, <1>9, <1>10, <1>11 DEF ChannelsOK, CalmOK

\* What users do changes the post alone, and ends the calm.
LEMMA StepUser ==
  ASSUME IInv, Reschedule \/ Delete PROVE IInv'
<1> USE DEF IInv
<1>1. /\ UNCHANGED <<kind, live, saga, log, thread, tweet, job, worker, skipped, closed, excuse>>
      /\ Edit
  BY DEF Reschedule, Delete, world, ghosts
<1>2. /\ post' \in [status : {"DRAFT", "SCHEDULED", "PUBLISHED"}, deleted : BOOLEAN]
      /\ post'.status = "PUBLISHED" => post.status = "PUBLISHED"
  <2>1. post \in [status : {"DRAFT", "SCHEDULED", "PUBLISHED"}, deleted : BOOLEAN]
    BY DEF TypeOK
  <2> QED
    BY <2>1 DEF Reschedule, Delete
<1>3. /\ faults' \in 0..MaxFaults /\ edits' \in 0..MaxEdits /\ ~Calm'
  BY <1>1 DEF Edit, TypeOK, Calm
<1>4. TypeOK'
  BY <1>1, <1>2, <1>3 DEF TypeOK
<1>5. SlotsOK' /\ JobsOK' /\ RecordsOK'
  BY <1>1 DEF SlotsOK, JobsOK, RecordsOK, Settled, Holds
<1>6. ChannelsOK'
  BY <1>1 DEF ChannelsOK, Alone, Fresh, Recorded, Dropped
<1>7. SagasOK'
  BY <1>1, <1>2, SagasKept DEF Settled
<1> QED
  BY <1>3, <1>4, <1>5, <1>6, <1>7 DEF CalmOK

-----------------------------------------------------------------------------
(* The saga. *)

\* What a saga's step leaves of queue and channels.
Intact ==
  /\ job' \in [Channels -> Jobs] /\ skipped' \subseteq Channels /\ closed' \subseteq Channels
  /\ JobsOK' /\ RecordsOK' /\ ChannelsOK'
  /\ \A c \in Channels :
       /\ job'[c].state = "active" => job'[c] = job[c]
       /\ job[c].state # "none" => job'[c] = job[c]

\* What other sagas have counted stays settled.
Steady == Counted => \A c \in Channels : Settled(c) => Settled(c)'

\* What a saga's step leaves alone.
Aside ==
  UNCHANGED <<kind, log, thread, tweet, live, worker, excuse>> /\ (Fault \/ UNCHANGED bounds)

\* A step of a saga that queues nothing leaves the channels as they are.
LEMMA NothingQueued ==
  ASSUME IInv, UNCHANGED <<job, skipped, closed>>, Aside
  PROVE  Intact /\ Steady /\ \A c \in Channels : Settled(c) => Settled(c)'
<1> USE DEF IInv, Aside
<1>1. JobsOK' /\ RecordsOK'
  BY DEF JobsOK, RecordsOK, Settled, Holds
<1>2. ChannelsOK'
  BY DEF ChannelsOK, Alone, Fresh, Recorded, Dropped
<1> QED
  BY <1>1, <1>2 DEF Intact, Steady, TypeOK, Settled

\* A job queued afresh has no attempt; one that exists is left alone.
LEMMA OneQueued ==
  ASSUME IInv, NEW c \in Channels, Queued(c), Aside
  PROVE  Intact /\ Steady /\ job'[c].state # "none"
<1> USE DEF IInv, Aside
<1>1. CASE job[c].state # "none"
  <2>1. UNCHANGED <<job, skipped, closed>>
    BY <1>1 DEF Queued, Added, TypeOK
  <2> QED
    BY <1>1, <2>1, NothingQueued
<1>2. CASE job[c].state = "none"
  <2> DEFINE j == [NoJob EXCEPT !.state = "ready"]
  <2>1. j \in Jobs /\ j.state = "ready" /\ j.made = 0
    BY DEF NoJob, Jobs
  <2>2. /\ job' = [job EXCEPT ![c] = j]
        /\ skipped' = skipped \ {c} /\ closed' = IF Counted THEN closed ELSE closed \ {c}
    BY <1>2 DEF Queued, Added
  <2> HIDE DEF j
  <2>3. /\ job' \in [Channels -> Jobs] /\ job'[c] = j
        /\ \A d \in Channels \ {c} : job'[d] = job[d]
    BY <2>1, <2>2 DEF TypeOK
  <2>4. JobsOK'
    BY <2>1, <2>3 DEF JobsOK
  <2>5. \A v \in Workers : worker[v].pc = "done" /\ Holds(v)' => Holds(v) /\ worker[v].ch # c
    BY <2>1, <2>3 DEF Holds, SlotsOK
  <2>6. \A d \in Channels \ {c} : Settled(d) => Settled(d)'
    BY <2>2 DEF Settled
  <2>7. RecordsOK'
    <3>1. \A d \in Channels : job'[d].state = "completed" => Settled(d)'
      BY <2>1, <2>3, <2>6 DEF RecordsOK
    <3>2. \A v \in Workers : worker[v].pc = "done" /\ Holds(v)' => Settled(worker[v].ch)'
      <4> SUFFICES ASSUME NEW v \in Workers, worker[v].pc = "done", Holds(v)'
                   PROVE  Settled(worker[v].ch)'
        OBVIOUS
      <4>1. worker[v].ch \in Channels \ {c} /\ Settled(worker[v].ch)
        BY <2>5 DEF RecordsOK, SlotsOK
      <4> QED
        BY <2>2, <4>1 DEF Settled
    <3> QED
      BY <3>1, <3>2 DEF RecordsOK
  <2>8. ChannelsOK'
    <3>1. \A d \in Channels \ {c} : Untouched(d)
      BY <2>2, <2>3 DEF Untouched
    <3>2. ASSUME c \notin excuse' PROVE Alone(c)' /\ Fresh(c)' /\ Recorded(c)' /\ Dropped(c)'
      <4>1. Alone(c) /\ Recorded(c)
        BY <3>2 DEF ChannelsOK
      <4>2. \A v \in Workers : worker[v].ch # c
        BY <1>2, <4>1 DEF Alone
      <4>3. Alone(c)' /\ Fresh(c)'
        BY <4>2 DEF Alone, Fresh
      <4>4. Recorded(c)' /\ Dropped(c)'
        BY <2>1, <2>2, <2>3, <4>1, <4>2 DEF Recorded, Dropped
      <4> QED
        BY <4>3, <4>4
    <3> QED
      BY <3>1, <3>2, ChannelsKept
  <2> QED
    BY <1>2, <2>1, <2>2, <2>3, <2>4, <2>7, <2>8 DEF Intact, Steady, Settled, TypeOK
<1> QED
  BY <1>1, <1>2

\* A pass that is over.
LEMMA OverIs ==
  ASSUME NEW g \in Passes, NEW row \in {"running", "completed", "failed", "compensated"}
  PROVE  /\ Over(g, row) \in Passes /\ Over(g, row).pc = "over" /\ Over(g, row).row = row
         /\ ~Over(g, row).bad
<1> DEFINE Q(r) == [g EXCEPT !.pc = "over", !.row = r, !.todo = {}, !.bad = FALSE, !.open = FALSE]
<1>1. ASSUME NEW r \in {"running", "completed", "failed", "compensated"}
      PROVE  Q(r) \in Passes /\ Q(r).pc = "over" /\ Q(r).row = r /\ ~Q(r).bad
  BY DEF Passes
<1> HIDE DEF Q
<1>2. Over(g, row) = Q(row)
  BY DEF Over, Q
<1> QED
  BY <1>1, <1>2

\* What the new state g of saga s relies on while the calm lasts.
Fares(s, g) ==
  /\ ~post'.deleted /\ post'.status # "SCHEDULED"
  /\ post.status = "PUBLISHED" => post'.status = "PUBLISHED"
  /\ post'.status = "PUBLISHED" => post.status = "PUBLISHED" \/ g.row = "completed"
  /\ saga[s].pc \notin {"idle", "lock"} => g.pc \notin {"idle", "lock"} /\ g.row # "compensated"
  /\ g.pc = "enqueue" => \A c \in Channels \ g.todo : job'[c].state # "none"
  /\ g.pc = "wait" => \A c \in Channels : job'[c].state # "none"
  /\ g.bad => FailedJob'
  /\ g.pc = "over" <=> g.row # "running"
  /\ g.row = "failed" => FailedJob' \/ post.status = "PUBLISHED"
  /\ g.row = "compensated" => OtherPast(s)

\* A step of saga s that leaves it as g.  What is left: what g claims of the channels.
LEMMA PassStep ==
  ASSUME IInv, NEW s \in Sagas, NEW g \in Passes, saga' = [saga EXCEPT ![s] = g],
         Aside, Intact, Steady,
         post' \in [status : {"DRAFT", "SCHEDULED", "PUBLISHED"}, deleted : BOOLEAN],
         post'.status = "PUBLISHED" => post.status = "PUBLISHED" \/ \A c \in Channels : Settled(c)',
         g.pc = "wait" /\ ~g.bad /\ ~g.open => \A c \in Channels \ g.todo : Settled(c)',
         g.pc = "promote" => \A c \in Channels : Settled(c)',
         Calm' => saga[s].row = "running" /\ Fares(s, g)
  PROVE  IInv'
<1> USE DEF IInv, Aside
<1>1. /\ faults' \in 0..MaxFaults /\ edits' \in 0..MaxEdits
      /\ Calm' => Calm /\ UNCHANGED bounds
  BY Spending
<1>2. /\ saga' \in [Sagas -> Passes] /\ saga'[s] = g
      /\ \A o \in Sagas \ {s} : saga'[o] = saga[o]
  BY DEF TypeOK
<1>3. TypeOK'
  BY <1>1, <1>2 DEF TypeOK, Intact
<1>4. SlotsOK'
  BY DEF SlotsOK
<1>5. ASSUME NEW o \in Sagas \ {s}, saga[o].pc \in {"wait", "promote"}
      PROVE  \A c \in Channels : Settled(c) => Settled(c)'
  BY <1>5 DEF Steady, Counted
<1>6. SagasOK'
  <2>1. \A o \in Sagas : saga'[o].pc = "wait" /\ ~saga'[o].bad /\ ~saga'[o].open =>
          \A c \in Channels \ saga'[o].todo : Settled(c)'
    BY <1>2, <1>5 DEF SagasOK
  <2>2. \A o \in Sagas : saga'[o].pc = "promote" => \A c \in Channels : Settled(c)'
    BY <1>2, <1>5 DEF SagasOK
  <2>3. PromotedHasACause'
    <3>1. CASE post.status = "PUBLISHED"
      BY <3>1 DEF SagasOK, PromotedHasACause, Settled, Steady, Counted
    <3>2. CASE post.status # "PUBLISHED"
      BY <3>2 DEF PromotedHasACause, Settled
    <3> QED
      BY <3>1, <3>2
  <2> QED
    BY <2>1, <2>2, <2>3 DEF SagasOK
<1>7. CalmOK'
  <2> SUFFICES ASSUME Calm' PROVE Sound'
    BY DEF CalmOK
  <2>1. Calm /\ Sound
    BY <1>1 DEF CalmOK
  <2>2. \A c \in Channels : job'[c].state = "active" => worker'[job'[c].by].ch = c
    BY <2>1 DEF Sound, Intact
  <2>3. /\ FailedJob => FailedJob'
        /\ \A c \in Channels : job[c].state # "none" => job'[c].state # "none"
    BY DEF Intact, FailedJob
  <2>4. \A o \in Sagas : Reliable(o)'
    <3>1. \A o \in Sagas \ {s} : Reliable(o)'
      BY <1>2, <2>1, <2>3 DEF Sound, Reliable
    <3>2. Reliable(s)'
      BY <1>2 DEF Reliable, Fares
    <3> QED
      BY <3>1, <3>2
  <2>5. /\ excuse' = {} /\ ~post'.deleted /\ post'.status # "SCHEDULED"
        /\ post'.status = "PUBLISHED" => \E o \in Sagas : saga'[o].row = "completed"
    BY <1>2, <2>1 DEF Sound, Fares
  <2>6. ASSUME NEW o \in Sagas PROVE Caused(o)'
    <3>1. OtherPast(o) => OtherPast(o)'
      BY <1>2 DEF OtherPast, Fares
    <3>2. OtherPublished(o) => OtherPublished(o)'
      BY <1>2 DEF OtherPublished, Fares
    <3>3. CASE o # s
      BY <1>2, <2>1, <2>3, <3>1, <3>2, <3>3 DEF Sound, Caused
    <3>4. CASE o = s
      <4>1. post.status = "PUBLISHED" => OtherPublished(s)
        BY <2>1 DEF Sound, OtherPublished
      <4> QED
        BY <1>2, <3>1, <3>2, <3>4, <4>1 DEF Caused, Fares
    <3> QED
      BY <3>3, <3>4
  <2> QED
    BY <2>2, <2>4, <2>5, <2>6 DEF Sound
<1> QED
  BY <1>3, <1>4, <1>6, <1>7 DEF Intact

\* The same of a step whose result is written, or refused because the saga has ended.
LEMMA GoesStep ==
  ASSUME IInv, NEW s \in Sagas, NEW g \in Passes, Goes(s, g), saga[s].pc # "over",
         Aside, Intact, Steady,
         post' \in [status : {"DRAFT", "SCHEDULED", "PUBLISHED"}, deleted : BOOLEAN],
         post'.status = "PUBLISHED" => post.status = "PUBLISHED" \/ \A c \in Channels : Settled(c)',
         g.pc = "wait" /\ ~g.bad /\ ~g.open => \A c \in Channels \ g.todo : Settled(c)',
         g.pc = "promote" => \A c \in Channels : Settled(c)',
         Calm' => Fares(s, g)
  PROVE  IInv'
<1>1. Calm' => saga[s].row = "running"
  BY Spending DEF IInv, CalmOK, Sound, Reliable, Aside
<1>2. CASE Ended(s)
  <2> DEFINE h == Over(saga[s], saga[s].row)
  <2>1. saga[s] \in Passes /\ saga[s].row \in {"running", "completed", "failed", "compensated"}
    BY DEF IInv, TypeOK, Passes
  <2>2. h \in Passes /\ h.pc = "over"
    BY <2>1, OverIs
  <2>3. saga' = [saga EXCEPT ![s] = h]
    BY <1>2 DEF Goes
  <2> HIDE DEF h
  <2>4. ~Calm'
    BY <1>1, <1>2 DEF Ended
  <2> QED
    BY <2>2, <2>3, <2>4, PassStep
<1>3. CASE ~Ended(s)
  <2>1. saga' = [saga EXCEPT ![s] = g]
    BY <1>3 DEF Goes
  <2> QED
    BY <1>1, <2>1, PassStep
<1> QED
  BY <1>2, <1>3

\* The places of a pass that is at work.
AtWork == {"lock", "pivot", "enqueue", "wait", "promote"}

\* A step that is tried again relies on nothing it has counted.
LEMMA AgainIs ==
  ASSUME NEW g \in Passes, g.pc \in AtWork, g.row = "running"
  PROVE  /\ Again(g) \in Passes
         /\ Again(g).pc \in {"over", "lock", "pivot", "wait", "promote"}
         /\ Again(g).pc = "lock" => g.pc = "lock"
         /\ Again(g).pc = "wait" => g.pc = "wait" /\ Again(g).todo = Channels
         /\ Again(g).pc = "promote" => g.pc = "promote"
         /\ ~Again(g).bad
         /\ Again(g).pc = "over" <=> Again(g).row # "running"
         /\ Again(g).row # "completed"
         /\ Again(g).row = "failed" => g.pc # "lock"
         /\ Again(g).row = "compensated" => g.pc = "lock"
<1>1. CASE g.left = 0
  <2> DEFINE row == IF g.pc = "lock" THEN "compensated" ELSE "failed"
  <2>1. Again(g) = Over(g, row)
    BY <1>1 DEF Again
  <2> QED
    BY <2>1, OverIs
<1>2. CASE g.left # 0
  <2> DEFINE pc == IF g.pc = "enqueue" THEN "pivot" ELSE g.pc
             todo == IF g.pc = "wait" THEN Channels ELSE {}
             Q(l, p, t) == [g EXCEPT !.left = l, !.pc = p, !.todo = t,
                                     !.bad = FALSE, !.open = FALSE]
  <2>1. g.left - 1 \in 0..Retries
    BY <1>2 DEF Passes
  <2>2. ASSUME NEW p \in {"lock", "pivot", "wait", "promote"}, NEW t \in SUBSET Channels,
               NEW l \in 0..Retries
        PROVE  /\ Q(l, p, t) \in Passes /\ Q(l, p, t).pc = p /\ Q(l, p, t).row = g.row
               /\ Q(l, p, t).todo = t /\ ~Q(l, p, t).bad
    BY DEF Passes
  <2>3. pc \in {"lock", "pivot", "wait", "promote"} /\ todo \in SUBSET Channels
    BY DEF AtWork
  <2>4. Again(g) = Q(g.left - 1, pc, todo)
    BY <1>2 DEF Again
  <2> HIDE DEF pc, todo, Q
  <2>5. /\ Again(g) \in Passes /\ Again(g).pc = pc /\ Again(g).row = g.row
        /\ Again(g).todo = todo /\ ~Again(g).bad
    <3> DEFINE l == g.left - 1
    <3>1. l \in 0..Retries /\ Again(g) = Q(l, pc, todo)
      BY <2>1, <2>4
    <3> HIDE DEF l
    <3> QED
      BY <2>2, <2>3, <3>1
  <2> QED
    BY <2>3, <2>5 DEF pc, todo
<1> QED
  BY <1>1, <1>2

\* So a failed step keeps the invariant, if a fault hit, or a job failed, or another
\* saga is in the way.
LEMMA FailedStep ==
  ASSUME IInv, NEW s \in Sagas, saga[s].pc \in AtWork, StepFails(s), Aside, Intact, Steady,
         UNCHANGED post, \A c \in Channels : saga[s].pc = "promote" => Settled(c)',
         Calm' => IF saga[s].pc = "lock" THEN OtherPast(s)
                  ELSE FailedJob' \/ post.status = "PUBLISHED"
  PROVE  IInv'
<1> DEFINE g == Again(saga[s])
<1>1. /\ saga[s] \in Passes /\ Goes(s, g) /\ saga[s].pc # "over"
      /\ post' \in [status : {"DRAFT", "SCHEDULED", "PUBLISHED"}, deleted : BOOLEAN]
  BY DEF IInv, TypeOK, StepFails, AtWork
<1>2. Calm' => Calm /\ Sound /\ saga[s].row = "running"
  BY <1>1, Spending DEF IInv, CalmOK, Sound, Reliable, Aside
<1>3. CASE saga[s].row = "running"
  <2>1. /\ g \in Passes /\ g.pc \in {"over", "lock", "pivot", "wait", "promote"}
        /\ g.pc = "lock" => saga[s].pc = "lock"
        /\ g.pc = "wait" => saga[s].pc = "wait" /\ g.todo = Channels
        /\ g.pc = "promote" => saga[s].pc = "promote"
        /\ ~g.bad /\ (g.pc = "over" <=> g.row # "running") /\ g.row # "completed"
        /\ g.row = "failed" => saga[s].pc # "lock"
        /\ g.row = "compensated" => saga[s].pc = "lock"
    BY <1>1, <1>3, AgainIs
  <2> HIDE DEF g
  <2>2. Calm' => (g.pc = "wait" => \A c \in Channels : job'[c].state # "none")
    BY <1>2, <2>1 DEF Sound, Reliable, Intact
  <2>3. Calm' => Fares(s, g)
    BY <1>2, <2>1, <2>2 DEF Fares, Sound
  <2> QED
    BY <1>1, <2>1, <2>3, GoesStep
<1>4. CASE saga[s].row # "running"
  <2>1. saga[s].row \in {"running", "completed", "failed", "compensated"}
    BY <1>1 DEF Passes
  <2> DEFINE h == Over(saga[s], saga[s].row)
  <2>2. h \in Passes /\ h.pc = "over" /\ Goes(s, h)
    BY <1>1, <1>4, <2>1, OverIs DEF Goes, Ended
  <2> HIDE DEF h
  <2> QED
    BY <1>1, <1>2, <1>4, <2>2, GoesStep
<1> QED
  BY <1>3, <1>4

\* The request, and the lock that lets the saga through.
LEMMA StepStart ==
  ASSUME IInv, NEW s \in Sagas, Start(s) PROVE IInv'
<1> DEFINE g == [saga[s] EXCEPT !.pc = "lock"]
<1>1. /\ Aside /\ UNCHANGED <<job, skipped, closed, post, faults, edits>>
      /\ saga[s].pc = "idle" /\ saga' = [saga EXCEPT ![s] = g]
  BY DEF Start, Aside, world, rows, ghosts, bounds
<1>2. saga[s] \in Passes /\ TypeOK
  BY DEF IInv, TypeOK
<1>3. g \in Passes /\ g.pc = "lock" /\ g.bad = saga[s].bad /\ g.row = saga[s].row
  BY <1>2 DEF Passes
<1> HIDE DEF g
<1>4. Intact /\ Steady
  BY <1>1, NothingQueued
<1>5. Calm' => Sound /\ FailedJob' = FailedJob
  BY <1>1 DEF IInv, CalmOK, Calm, FailedJob
<1>6. Calm' => saga[s].row = "running" /\ Fares(s, g)
  BY <1>1, <1>3, <1>5 DEF Sound, Reliable, Fares
<1>7. post' \in [status : {"DRAFT", "SCHEDULED", "PUBLISHED"}, deleted : BOOLEAN]
  BY <1>1, <1>2 DEF TypeOK
<1> QED
  BY <1>1, <1>3, <1>4, <1>6, <1>7, PassStep

\* The lock's own failures are faults.
LEMMA StepLock ==
  ASSUME IInv, NEW s \in Sagas, Lock(s) \/ LockError(s) PROVE IInv'
<1> DEFINE g == [saga[s] EXCEPT !.pc = "pivot", !.left = Retries]
           h == Over(saga[s], "compensated")
<1>1. /\ Aside /\ UNCHANGED <<job, skipped, closed, post>> /\ saga[s].pc = "lock"
  BY DEF Lock, LockError, Aside, world, rows, ghosts
<1>2. saga[s] \in Passes /\ TypeOK
  BY DEF IInv, TypeOK
<1>3. /\ g \in Passes /\ g.pc = "pivot" /\ g.bad = saga[s].bad /\ g.row = saga[s].row
      /\ h \in Passes /\ h.pc = "over"
  <2>1. Retries \in 0..Retries
    OBVIOUS
  <2>2. g \in Passes /\ g.pc = "pivot" /\ g.bad = saga[s].bad /\ g.row = saga[s].row
    BY <1>2, <2>1 DEF Passes
  <2> QED
    BY <1>2, <2>2, OverIs
<1> HIDE DEF g, h
<1>4. Intact /\ Steady
  BY <1>1, NothingQueued
<1>5. Calm' => Sound /\ (FailedJob => FailedJob') /\ saga[s].row = "running"
  BY <1>1, Spending DEF IInv, CalmOK, Aside, FailedJob, Sound, Reliable
<1>6. Calm' => Fares(s, g)
  BY <1>1, <1>3, <1>5 DEF Sound, Reliable, Fares
<1>7. post' \in [status : {"DRAFT", "SCHEDULED", "PUBLISHED"}, deleted : BOOLEAN]
  BY <1>1, <1>2 DEF TypeOK
<1>8. CASE Goes(s, g)
  BY <1>1, <1>3, <1>4, <1>6, <1>7, <1>8, GoesStep
<1>9. CASE Goes(s, h) /\ Fault
  <2>1. ~Calm'
    BY <1>2, <1>9 DEF Fault, Calm, TypeOK
  <2> QED
    BY <1>1, <1>3, <1>4, <1>7, <1>9, <2>1, GoesStep
<1>10. CASE StepFails(s) /\ (Fault \/ \E o \in Sagas \ {s} : PastLock(o))
  <2>1. Calm' => OtherPast(s)
    BY <1>1, <1>2, <1>10 DEF Fault, Calm, TypeOK, PastLock, OtherPast, Ended
  <2> QED
    BY <1>1, <1>4, <1>10, <2>1, FailedStep DEF AtWork
<1> QED
  BY <1>8, <1>9, <1>10 DEF Lock, LockError, g, h

\* In the calm the row reads DRAFT, unless another saga has published the post.
LEMMA StepReread ==
  ASSUME IInv, NEW s \in Sagas, Reread(s) PROVE IInv'
<1> DEFINE g == [saga[s] EXCEPT !.pc = "enqueue", !.todo = Channels]
<1>1. /\ Aside /\ UNCHANGED <<job, skipped, closed, post, faults, edits>> /\ saga[s].pc = "pivot"
  BY DEF Reread, Aside, world, rows, ghosts, bounds
<1>2. /\ saga[s] \in Passes /\ TypeOK
      /\ post \in [status : {"DRAFT", "SCHEDULED", "PUBLISHED"}, deleted : BOOLEAN]
  BY DEF IInv, TypeOK
<1>3. Intact /\ Steady
  BY <1>1, NothingQueued
<1>4. Calm' => Sound /\ (FailedJob => FailedJob') /\ saga[s].row = "running"
  BY <1>1, Spending DEF IInv, CalmOK, Aside, FailedJob, Sound, Reliable
<1>5. CASE post.status = "DRAFT" /\ ~post.deleted
  <2>1. /\ g \in Passes /\ g.pc = "enqueue" /\ g.todo = Channels /\ g.bad = saga[s].bad
        /\ g.row = saga[s].row
    BY <1>2 DEF Passes
  <2>2. saga' = [saga EXCEPT ![s] = g]
    BY <1>2, <1>5 DEF Reread, TypeOK
  <2> HIDE DEF g
  <2>3. Calm' => Fares(s, g)
    BY <1>1, <1>4, <2>1 DEF Sound, Reliable, Fares
  <2> QED
    BY <1>1, <1>2, <1>3, <1>4, <2>1, <2>2, <2>3, PassStep
<1>6. CASE ~(post.status = "DRAFT" /\ ~post.deleted)
  <2>1. Calm' => post.status = "PUBLISHED"
    BY <1>2, <1>4, <1>6 DEF Sound
  <2> QED
    BY <1>1, <1>3, <1>6, <2>1, FailedStep DEF Reread, AtWork
<1> QED
  BY <1>5, <1>6

\* Every job is there when the saga comes to wait.
LEMMA StepEnqueue ==
  ASSUME IInv, NEW s \in Sagas, NEW c \in Channels, Enqueue(s, c) PROVE IInv'
<1>1. /\ Aside /\ UNCHANGED <<post, faults, edits>> /\ saga[s].pc = "enqueue"
      /\ c \in saga[s].todo /\ Queued(c)
  BY DEF Enqueue, Aside, world, rows, bounds
<1>2. /\ saga[s] \in Passes /\ TypeOK
      /\ post' \in [status : {"DRAFT", "SCHEDULED", "PUBLISHED"}, deleted : BOOLEAN]
  BY <1>1 DEF IInv, TypeOK
<1>3. Intact /\ Steady /\ job'[c].state # "none"
  BY <1>1, OneQueued
<1>4. Calm' => /\ Sound /\ (FailedJob => FailedJob') /\ saga[s].row = "running"
               /\ \A d \in Channels \ (saga[s].todo \ {c}) : job'[d].state # "none"
  <2>1. Calm' => Sound
    BY <1>1 DEF IInv, CalmOK, Calm
  <2>2. FailedJob => FailedJob'
    BY <1>3 DEF FailedJob, Intact
  <2>3. Sound => /\ saga[s].row = "running"
                 /\ \A d \in Channels \ saga[s].todo : job[d].state # "none"
    BY <1>1 DEF Sound, Reliable
  <2> QED
    BY <1>3, <2>1, <2>2, <2>3 DEF Intact
<1>5. CASE saga[s].todo # {c}
  <2> DEFINE g == [saga[s] EXCEPT !.todo = saga[s].todo \ {c}]
  <2>1. /\ g \in Passes /\ g.pc = "enqueue" /\ g.todo = saga[s].todo \ {c}
        /\ g.bad = saga[s].bad /\ g.row = saga[s].row
    BY <1>1, <1>2 DEF Passes
  <2>2. saga' = [saga EXCEPT ![s] = g]
    BY <1>2, <1>5 DEF Enqueue, Scheduled, TypeOK
  <2> HIDE DEF g
  <2>3. Calm' => Fares(s, g)
    BY <1>1, <1>4, <2>1 DEF Sound, Reliable, Fares
  <2> QED
    BY <1>1, <1>2, <1>3, <1>4, <2>1, <2>2, <2>3, PassStep
<1>6. CASE saga[s].todo = {c} /\ saga[s].mode = "schedule"
  <2> DEFINE g == Over(saga[s], "completed")
  <2>1. g \in Passes /\ g.pc = "over" /\ g.row = "completed" /\ ~g.bad
    BY <1>2, OverIs
  <2>2. Goes(s, g)
    BY <1>6 DEF Enqueue, Scheduled
  <2> HIDE DEF g
  <2>3. Calm' => Fares(s, g)
    BY <1>1, <1>4, <2>1 DEF Sound, Fares
  <2> QED
    BY <1>1, <1>2, <1>3, <2>1, <2>2, <2>3, GoesStep
<1>7. CASE saga[s].todo = {c} /\ saga[s].mode # "schedule"
  <2> DEFINE g == [saga[s] EXCEPT !.pc = "wait", !.todo = Channels, !.left = Retries]
  <2>1. /\ g \in Passes /\ g.pc = "wait" /\ g.todo = Channels
        /\ g.bad = saga[s].bad /\ g.row = saga[s].row
    <3>1. Retries \in 0..Retries
      OBVIOUS
    <3> QED
      BY <1>2, <3>1 DEF Passes
  <2>2. Goes(s, g)
    BY <1>7 DEF Enqueue, Scheduled
  <2> HIDE DEF g
  <2>3. Calm' => \A d \in Channels : job'[d].state # "none"
    BY <1>4, <1>7
  <2>4. Calm' => Fares(s, g)
    BY <1>1, <1>4, <2>1, <2>3 DEF Sound, Reliable, Fares
  <2> QED
    BY <1>1, <1>2, <1>3, <2>1, <2>2, <2>4, GoesStep
<1> QED
  BY <1>5, <1>6, <1>7

\* The fault may come before or after the queue took the job.
LEMMA StepEnqueueError ==
  ASSUME IInv, NEW s \in Sagas, EnqueueError(s) PROVE IInv'
<1>1. /\ Aside /\ UNCHANGED post /\ Fault /\ saga[s].pc = "enqueue" /\ StepFails(s)
  BY DEF EnqueueError, Aside, world, rows
<1>2. ~Calm'
  BY <1>1 DEF Fault, Calm, IInv, TypeOK
<1>3. Intact /\ Steady
  <2>1. CASE UNCHANGED <<job, skipped, closed>>
    BY <1>1, <2>1, NothingQueued
  <2>2. ASSUME NEW c \in saga[s].todo, Queued(c) PROVE Intact /\ Steady
    <3>1. c \in Channels
      BY DEF IInv, TypeOK, Passes
    <3> QED
      BY <1>1, <2>2, <3>1, OneQueued
  <2> QED
    BY <2>1, <2>2 DEF EnqueueError
<1> QED
  BY <1>1, <1>2, <1>3, FailedStep DEF AtWork

\* A fault at the wait or at the promotion.
LEMMA StepPollError ==
  ASSUME IInv, NEW s \in Sagas, PollError(s) \/ PromoteError(s) PROVE IInv'
<1>1. /\ Aside /\ UNCHANGED <<post, job, skipped, closed>> /\ Fault
      /\ saga[s].pc \in {"wait", "promote"} /\ StepFails(s)
  BY DEF PollError, PromoteError, Aside, world, rows, ghosts
<1>2. ~Calm'
  BY <1>1 DEF Fault, Calm, IInv, TypeOK
<1>3. Intact /\ Steady /\ \A c \in Channels : Settled(c) => Settled(c)'
  BY <1>1, NothingQueued
<1>4. saga[s].pc = "promote" => \A c \in Channels : Settled(c)'
  BY <1>3 DEF IInv, SagasOK
<1> QED
  BY <1>1, <1>2, <1>3, <1>4, FailedStep DEF AtWork

\* Every channel is settled when the saga comes to promote.
LEMMA StepPromote ==
  ASSUME IInv, NEW s \in Sagas, Promote(s) PROVE IInv'
<1> DEFINE g == Over(saga[s], "completed")
<1>1. /\ Aside /\ UNCHANGED <<job, skipped, closed, faults, edits>> /\ saga[s].pc = "promote"
  BY DEF Promote, Aside, world, ghosts, bounds
<1>2. /\ saga[s] \in Passes /\ TypeOK
      /\ post \in [status : {"DRAFT", "SCHEDULED", "PUBLISHED"}, deleted : BOOLEAN]
  BY DEF IInv, TypeOK
<1>3. Intact /\ Steady /\ \A c \in Channels : Settled(c) => Settled(c)'
  BY <1>1, NothingQueued
<1>4. \A c \in Channels : Settled(c)'
  BY <1>1, <1>3 DEF IInv, SagasOK
<1>5. Calm' => Calm /\ Sound
  BY <1>1 DEF IInv, CalmOK, Calm
<1>6. CASE post.deleted
  BY <1>1, <1>3, <1>4, <1>5, <1>6, FailedStep DEF Promote, Sound, AtWork
<1>7. CASE ~post.deleted
  <2>1. g \in Passes /\ g.pc = "over" /\ g.row = "completed" /\ ~g.bad
    BY <1>2, OverIs
  <2>2. Goes(s, g) /\ post' = [post EXCEPT !.status = "PUBLISHED"]
    BY <1>7 DEF Promote
  <2>3. /\ post' \in [status : {"DRAFT", "SCHEDULED", "PUBLISHED"}, deleted : BOOLEAN]
        /\ post'.status = "PUBLISHED" /\ ~post'.deleted
    BY <1>2, <1>7, <2>2
  <2> HIDE DEF g
  <2>4. Calm' => Fares(s, g)
    BY <2>1, <2>3 DEF Fares
  <2> QED
    BY <1>1, <1>3, <1>4, <2>1, <2>2, <2>3, <2>4, GoesStep
<1> QED
  BY <1>6, <1>7

\* The horizon is a fault; a pass that goes on relies on what it relied on.
LEMMA StepHorizon ==
  ASSUME IInv, NEW s \in Sagas, Horizon(s) PROVE IInv'
<1> DEFINE g == Over(saga[s], "failed")
           h == [saga[s] EXCEPT !.row = "failed"]
<1>1. Aside /\ UNCHANGED <<job, skipped, closed, post>> /\ Fault
  BY DEF Horizon, Aside, world, rows, ghosts
<1>2. saga[s] \in Passes /\ TypeOK
  BY DEF IInv, TypeOK
<1>3. /\ g \in Passes /\ g.pc = "over"
      /\ h \in Passes /\ h.pc = saga[s].pc
  BY <1>2, OverIs DEF Passes
<1>4. \/ saga' = [saga EXCEPT ![s] = g]
      \/ saga[s].pc # "wait" /\ saga' = [saga EXCEPT ![s] = h]
  BY <1>2 DEF Horizon, TypeOK
<1> HIDE DEF g, h
<1>5. Intact /\ Steady /\ \A c \in Channels : Settled(c) => Settled(c)'
  BY <1>1, NothingQueued
<1>6. ~Calm'
  BY <1>1 DEF Fault, Calm, IInv, TypeOK
<1>7. post' \in [status : {"DRAFT", "SCHEDULED", "PUBLISHED"}, deleted : BOOLEAN]
  BY <1>1, <1>2 DEF TypeOK
<1>8. saga[s].pc = "promote" => \A c \in Channels : Settled(c)'
  BY <1>5 DEF IInv, SagasOK
<1>9. CASE saga' = [saga EXCEPT ![s] = g]
  BY <1>1, <1>3, <1>5, <1>6, <1>7, <1>9, PassStep
<1>10. CASE saga[s].pc # "wait" /\ saga' = [saga EXCEPT ![s] = h]
  BY <1>1, <1>3, <1>5, <1>6, <1>7, <1>8, <1>10, PassStep
<1> QED
  BY <1>4, <1>9, <1>10

\* What reads as completed is settled; what reads as failed, in the calm, has failed.
LEMMA StepPoll ==
  ASSUME IInv, NEW s \in Sagas, NEW c \in Channels, Poll(s, c) PROVE IInv'
<1> DEFINE bad  == saga[s].bad \/ Reads(c) = "failed"
           open == saga[s].open \/ Reads(c) = "pending"
<1>1. /\ Aside /\ UNCHANGED <<job, skipped, closed, post, faults, edits>>
      /\ saga[s].pc = "wait" /\ c \in saga[s].todo
  BY DEF Poll, Aside, world, rows, ghosts, bounds
<1>2. /\ saga[s] \in Passes /\ TypeOK /\ saga[s].bad \in BOOLEAN /\ saga[s].open \in BOOLEAN
      /\ saga[s].left \in 0..Retries
  BY DEF IInv, TypeOK, Passes
<1>3. Intact /\ Steady /\ \A d \in Channels : Settled(d) => Settled(d)'
  BY <1>1, NothingQueued
<1>4. Calm' => Calm /\ Sound /\ saga[s].row = "running"
  BY <1>1 DEF IInv, CalmOK, Calm, Sound, Reliable
<1>6. ~bad /\ ~open => \A d \in Channels \ (saga[s].todo \ {c}) : Settled(d)'
  <2> SUFFICES ASSUME ~bad, ~open, NEW d \in Channels \ (saga[s].todo \ {c}) PROVE Settled(d)
    BY <1>3
  <2>1. CASE d = c
    BY <2>1 DEF Reads, IInv, RecordsOK
  <2>2. CASE d # c
    BY <1>1, <2>2 DEF IInv, SagasOK
  <2> QED
    BY <2>1, <2>2
<1>7. Calm' => /\ bad => FailedJob'
               /\ \A d \in Channels : job'[d].state # "none"
               /\ ~post'.deleted /\ post'.status # "SCHEDULED"
  BY <1>1, <1>4 DEF Sound, Reliable, Reads, FailedJob
<1>8. post' \in [status : {"DRAFT", "SCHEDULED", "PUBLISHED"}, deleted : BOOLEAN]
  BY <1>1, <1>2 DEF TypeOK
<1>9. /\ bad \in BOOLEAN /\ open \in BOOLEAN
      /\ \/ /\ saga[s].todo # {c}
            /\ saga' = [saga EXCEPT ![s] =
                 [@ EXCEPT !.todo = saga[s].todo \ {c}, !.bad = bad, !.open = open]]
         \/ saga[s].todo = {c} /\ Verdict(bad, open) = "retry" /\ StepFails(s)
         \/ /\ saga[s].todo = {c} /\ Verdict(bad, open) # "retry"
            /\ Goes(s, [saga[s] EXCEPT
                 !.pc = Verdict(bad, open), !.bad = FALSE, !.open = FALSE,
                 !.left = IF open THEN saga[s].left ELSE Retries,
                 !.todo = IF open THEN Channels ELSE {}])
  BY DEF Poll
<1> HIDE DEF bad, open
<1>10. CASE /\ saga[s].todo # {c}
            /\ saga' = [saga EXCEPT ![s] =
                 [@ EXCEPT !.todo = saga[s].todo \ {c}, !.bad = bad, !.open = open]]
  <2> DEFINE g == [saga[s] EXCEPT !.todo = saga[s].todo \ {c}, !.bad = bad, !.open = open]
  <2>1. /\ g \in Passes /\ g.pc = "wait" /\ g.todo = saga[s].todo \ {c}
        /\ g.bad = bad /\ g.open = open /\ g.row = saga[s].row
    BY <1>1, <1>2, <1>9 DEF Passes
  <2>2. saga' = [saga EXCEPT ![s] = g]
    BY <1>10
  <2> HIDE DEF g
  <2>3. Calm' => Fares(s, g)
    BY <1>1, <1>4, <1>7, <2>1 DEF Fares
  <2> QED
    BY <1>1, <1>3, <1>4, <1>6, <1>8, <2>1, <2>2, <2>3, PassStep
<1>11. CASE saga[s].todo = {c} /\ Verdict(bad, open) = "retry" /\ StepFails(s)
  <2>1. bad
    BY <1>11 DEF Verdict
  <2> QED
    BY <1>1, <1>3, <1>7, <1>11, <2>1, FailedStep DEF AtWork
<1>12. CASE /\ saga[s].todo = {c} /\ Verdict(bad, open) # "retry"
            /\ Goes(s, [saga[s] EXCEPT
                 !.pc = Verdict(bad, open), !.bad = FALSE, !.open = FALSE,
                 !.left = IF open THEN saga[s].left ELSE Retries,
                 !.todo = IF open THEN Channels ELSE {}])
  <2> DEFINE Q(p, l, t) ==
        [saga[s] EXCEPT !.pc = p, !.bad = FALSE, !.open = FALSE, !.left = l, !.todo = t]
      g == Q(Verdict(bad, open), IF open THEN saga[s].left ELSE Retries,
             IF open THEN Channels ELSE {})
  <2>1. \A p \in {"wait", "promote"}, l \in 0..Retries, t \in SUBSET Channels :
          /\ Q(p, l, t) \in Passes /\ Q(p, l, t).pc = p /\ Q(p, l, t).todo = t
          /\ ~Q(p, l, t).bad /\ Q(p, l, t).row = saga[s].row
    BY <1>2 DEF Passes
  <2>2. Goes(s, g)
    BY <1>12
  <2>3. /\ Verdict(bad, open) \in {"wait", "promote"}
        /\ Verdict(bad, open) = "wait" => open
        /\ Verdict(bad, open) = "promote" => ~bad /\ ~open
    BY <1>12 DEF Verdict
  <2> HIDE DEF Q
  <2>4. /\ g \in Passes /\ g.pc = Verdict(bad, open) /\ ~g.bad /\ g.row = saga[s].row
        /\ g.pc = "wait" => g.todo = Channels
    <3> DEFINE l == IF open THEN saga[s].left ELSE Retries
               t == IF open THEN Channels ELSE {}
               v == Verdict(bad, open)
    <3>1. l \in 0..Retries /\ t \in SUBSET Channels /\ v \in {"wait", "promote"}
      BY <1>2, <2>3
    <3>2. v = "wait" => t = Channels
      BY <2>3
    <3>3. g = Q(v, l, t)
      OBVIOUS
    <3> HIDE DEF l, t, v, g
    <3>4. g \in Passes /\ g.pc = v /\ g.todo = t /\ ~g.bad /\ g.row = saga[s].row
      <4>1. Q(v, l, t) \in Passes
        BY <2>1, <3>1
      <4>2. Q(v, l, t).pc = v
        BY <2>1, <3>1
      <4>3. Q(v, l, t).todo = t
        BY <2>1, <3>1
      <4>4. ~Q(v, l, t).bad
        BY <2>1, <3>1
      <4>5. Q(v, l, t).row = saga[s].row
        BY <2>1, <3>1
      <4> QED
        BY <3>3, <4>1, <4>2, <4>3, <4>4, <4>5
    <3> QED
      BY <3>2, <3>4 DEF v
  <2> HIDE DEF g
  <2>5. g.pc = "promote" => \A d \in Channels : Settled(d)'
    BY <1>6, <1>12, <2>3, <2>4
  <2>6. Calm' => Fares(s, g)
    BY <1>1, <1>4, <1>7, <2>3, <2>4 DEF Fares
  <2> QED
    BY <1>1, <1>3, <1>8, <2>2, <2>3, <2>4, <2>5, <2>6, GoesStep
<1> QED
  BY <1>9, <1>10, <1>11, <1>12

-----------------------------------------------------------------------------
\* Nothing changes.
LEMMA Stutter == ASSUME IInv, UNCHANGED vars PROVE IInv'
<1> USE DEF IInv, vars
<1>1. TypeOK' /\ SlotsOK' /\ JobsOK'
  BY DEF TypeOK, SlotsOK, JobsOK
<1>2. RecordsOK'
  BY DEF RecordsOK, Holds, Settled
<1>3. SagasOK'
  BY DEF SagasOK, Settled, PromotedHasACause
<1>4. ChannelsOK'
  BY DEF ChannelsOK, Alone, Fresh, Recorded, Dropped
<1>5. CalmOK'
  BY CalmKept DEF CalmOK, Sound, Calm
<1> QED
  BY <1>1, <1>2, <1>3, <1>4, <1>5

\* Every step keeps the invariant.
LEMMA StepIInv == IInv /\ [Next]_vars => IInv'
<1> SUFFICES ASSUME IInv, [Next]_vars PROVE IInv'
  OBVIOUS
<1>1. ASSUME NEW s \in Sagas, SagaStep(s) PROVE IInv'
  BY <1>1, StepStart, StepLock, StepReread, StepEnqueue, StepPoll, StepEnqueueError, StepPollError,
     StepPromote, StepHorizon DEF SagaStep
<1>2. ASSUME NEW w \in Workers, WorkerStep(w) PROVE IInv'
  BY <1>2, StepTake, StepReadLog, StepLoadPost, StepLogRunning, StepFindThread, StepInsertThread,
     StepCreateTweet, StepMarkTweet, StepCallProvider, StepLogOutcome, StepFinish DEF WorkerStep
<1>3. CASE UNCHANGED vars
  BY <1>3, Stutter
<1> QED
  BY <1>1, <1>2, <1>3, StepStall, StepEvict, StepCrash, StepUser DEF Next

\* The inductive invariant.
THEOREM Invariance == Spec => []IInv
  BY InitIInv, StepIInv, PTL DEF Spec

\* Every variable keeps its type.
THEOREM TypeCorrect == Spec => []TypeOK
<1>1. IInv => TypeOK
  BY DEF IInv
<1> QED
  BY <1>1, Invariance, PTL

\* A promoted post is out on every channel, but for a deletion or a thread that
\* was found published.
THEOREM Promoted == Spec => []PromotedHasACause
<1>1. IInv => PromotedHasACause
  BY DEF IInv, SagasOK
<1> QED
  BY <1>1, Invariance, PTL

\* Only a fault between a publish and its record lets content out twice.
THEOREM DuplicatesCaused == Spec => []DuplicatesHaveACause
<1>1. IInv => DuplicatesHaveACause
  BY DEF IInv, ChannelsOK, Recorded, DuplicatesHaveACause
<1> QED
  BY <1>1, Invariance, PTL

\* A job that failed did not publish, unless such a fault hid it.
THEOREM FailuresHonest == Spec => []FailureIsHonest
<1>1. IInv => FailureIsHonest
  BY DEF IInv, ChannelsOK, Recorded, FailureIsHonest
<1> QED
  BY <1>1, Invariance, PTL

\* Left alone, a saga fails for a job that failed or for the saga that published
\* before it, and is compensated for the saga that the lock let through.
THEOREM SagaFailuresHonest == Spec => []SagaFailureIsHonest
<1>1. IInv => SagaFailureIsHonest
  <2> SUFFICES ASSUME IInv, Calm PROVE SagaFailureIsHonest
    BY DEF SagaFailureIsHonest, Calm
  <2>1. Sound /\ excuse = {}
    BY DEF IInv, CalmOK, Sound
  <2>2. FailedJob => \E c \in Channels : job[c].state = "failed" /\ live[c] = 0
    BY <2>1 DEF IInv, ChannelsOK, Recorded, FailedJob
  <2> QED
    BY <2>1, <2>2 DEF Sound, Caused, OtherPast, OtherPublished, SagaFailureIsHonest
<1> QED
  BY <1>1, Invariance, PTL

-----------------------------------------------------------------------------
(* The action properties. *)

\* Only the provider's call brings content out.
LEMMA Outgoing ==
  ASSUME IInv, [Next]_vars, NEW c \in Channels, live'[c] > live[c]
  PROVE  \E w \in Workers : CallProvider(w) /\ worker[w].ch = c
<1>1. live' # live
  BY DEF IInv, TypeOK
<1>2. PICK w \in Workers : CallProvider(w)
  BY <1>1 DEF Next, vars, SagaStep, WorkerStep, Start, Lock, LockError, Reread, Enqueue, Poll, EnqueueError, PollError,
       Promote, PromoteError, Horizon, Take, ReadLog, LoadPost, LogRunning, FindThread,
       InsertThread, CreateTweet, MarkTweet, LogOutcome, Finish, Stall, Evict, Crash,
       Reschedule, Delete, world
<1>3. live' = [live EXCEPT ![worker[w].ch] = IF @ = 2 THEN 2 ELSE @ + 1]
  BY <1>1, <1>2 DEF CallProvider, Published
<1>4. worker[w].ch = c
  BY <1>3 DEF IInv, TypeOK
<1> QED
  BY <1>2, <1>4

\* An ended job's content does not go out again, unless two attempts overlap.
THEOREM DeletionsFinal == Spec => DeletionIsFinal
<1> DEFINE D == \A c \in Channels : live'[c] > live[c] /\ c \in skipped => c \in excuse'
<1>1. IInv /\ [Next]_vars => D
  <2> SUFFICES ASSUME IInv, [Next]_vars, NEW c \in Channels, live'[c] > live[c], c \in skipped
               PROVE  c \in excuse'
    OBVIOUS
  <2>1. PICK w \in Workers : CallProvider(w) /\ worker[w].ch = c
    BY Outgoing
  <2>2. worker[w].pc = "call" /\ excuse \subseteq excuse'
    BY <2>1 DEF CallProvider, At
  <2> QED
    BY <2>1, <2>2, Hand
<1>2. Spec => [][D]_vars
  <2>1. IInv /\ [Next]_vars => [D]_vars
    BY <1>1
  <2> HIDE DEF D
  <2> QED
    BY <2>1, Invariance, PTL DEF Spec
<1> QED
  BY <1>2 DEF DeletionIsFinal

\* Only a read that failed, or a second attempt, takes a success off the record.
THEOREM SuccessKept == Spec => SuccessStaysRecorded
<1> DEFINE D == \A c \in Channels : log[c] = "OK" /\ log'[c] # "OK" => c \in excuse'
<1>1. IInv /\ [Next]_vars => D
  <2> SUFFICES ASSUME IInv, [Next]_vars, NEW c \in Channels, log[c] = "OK", log'[c] # "OK"
               PROVE  c \in excuse'
    OBVIOUS
  <2>1. log' # log
    OBVIOUS
  <2>2. PICK w \in Workers : LogRunning(w) \/ LogOutcome(w)
    BY <2>1 DEF Next, vars, SagaStep, WorkerStep, Start, Lock, LockError, Reread, Enqueue, Poll, EnqueueError,
         PollError, Promote, PromoteError, Horizon, Take, ReadLog, LoadPost, FindThread,
         InsertThread, CreateTweet, MarkTweet, CallProvider, Finish, Stall, Evict, Crash,
         Reschedule, Delete, rows
  <2>3. log' = [log EXCEPT ![worker[w].ch] = log'[worker[w].ch]] /\ excuse \subseteq excuse'
    BY <2>1, <2>2 DEF LogRunning, LogOutcome, ghosts, IInv, TypeOK
  <2>4. worker[w].ch = c /\ worker[w].pc \in {"running", "ok", "err"}
    <3>1. worker[w].ch = c
      BY <2>3 DEF IInv, TypeOK
    <3>2. worker[w].pc \in {"running", "ok", "err"}
      BY <2>2 DEF LogRunning, LogOutcome, At
    <3> QED
      BY <3>1, <3>2
  <2>5. worker[w].pc # "ok"
    BY <2>2, <2>4 DEF LogRunning, LogOutcome, Outcome, At, IInv, TypeOK
  <2>6. live[c] > 0
    BY DEF IInv, RecordsOK
  <2> QED
    BY <2>3, <2>4, <2>5, <2>6, Hand
<1>2. Spec => [][D]_vars
  <2>1. IInv /\ [Next]_vars => [D]_vars
    BY <1>1
  <2> HIDE DEF D
  <2> QED
    BY <2>1, Invariance, PTL DEF Spec
<1> QED
  BY <1>2 DEF SuccessStaysRecorded
=============================================================================
