----------------------------- MODULE SagaEngine -----------------------------
(***************************************************************************)
(* The durable saga engine of apps/api/src/saga: one saga, the one API     *)
(* process that advances it, the PostgreSQL row that is the source of      *)
(* truth, the Redis copy in front of it, and the process's memory.         *)
(*                                                                         *)
(* Five threads of control run in the process and interleave at every      *)
(* await: the advancer that holds the saga's claim (a forward pass or a    *)
(* compensation walk), the timeout checker, an operator or API request,    *)
(* the boot pass's detached re-warm, and the shutdown hand-off.  They      *)
(* share the tracked SagaInstance BY REFERENCE, so the heap is explicit.   *)
(* A write is a transaction of three moments: requested (the instance has  *)
(* been mutated), sent (its columns have been read) and settled.           *)
(*                                                                         *)
(* Time is abstract: a retry marker may be due at any moment, and each     *)
(* horizon is a flag of "late" that the clock may raise.                   *)
(***************************************************************************)
EXTENDS Naturals, FiniteSets

CONSTANTS
  NSteps,        \* how many steps the definition has; they are numbered from 0
  Pivot,         \* index of the pivot: below it compensable, above it retryable
  WaitStep,      \* the step that may answer "waiting" (wait-publishing-completion)
  MaxRetries,    \* the definition's retry budget
  Objs,          \* heap cells for SagaInstance objects
  NoObj,         \* the null reference
  Overtakes,     \* whether a write may be served before one asked for earlier: a
                 \*   pool of connections keeps no order, a single connection does
  Allowed        \* BOUND: how often each Fault may happen in one behaviour, as the
                 \*   set of the counts that may be reached

\* What comes from outside: a crash, a drain, a failed database call, a lost Redis
\* write or key, an operator's request, a worker's event.
Fault == {"crash", "drain", "db", "cache", "op", "event"}
Step == 0 .. NSteps - 1

ASSUME StepsAssumption ==
  /\ NSteps \in Nat \ {0}
  /\ Pivot \in Step
  /\ WaitStep \in Nat
  /\ MaxRetries \in Nat
\* The tracked object and the five threads' never use up the heap.
ASSUME HeapAssumption ==
  /\ NoObj \notin Objs
  /\ \A t, a, b, c, d, e \in Objs \cup {NoObj} :
       \E o \in Objs : o \notin {t, a, b, c, d, e}
ASSUME AllowedAssumption == Allowed \subseteq [Fault -> Nat]
ASSUME OvertakesAssumption == Overtakes \in BOOLEAN

VARIABLES
  row,       \* the SagaInstance row in PostgreSQL
  cache,     \* the copy under saga:<id> in Redis
  audit,     \* the kinds of saga event the event store holds
  up,        \* whether the process runs
  heap,      \* the SagaInstance objects in memory
  tracked,   \* activeInstances: the object tracked for this saga, or NoObj
  parked,    \* whether parkedAt holds this saga
  ref,       \* the object each thread works on
  pc,        \* where each thread is
  tx,        \* each thread's outstanding write
  claim,     \* the inFlight entry of the saga
  queue,     \* dispatches handed to setImmediate and not yet run
  out,       \* what the step or the undo just run answered
  todo,      \* the eligible steps the walk has not visited yet
  late,      \* horizons that have passed
  eff,       \* the world: what each step's effect is now
  recorded,  \* steps the row has ever recorded as succeeded, and as undone, and
             \*   whether a pass has ever written over its failure
  spent      \* how often each fault has happened

durable == <<row, audit, recorded>>
memory  == <<heap, tracked, ref>>
control == <<heap, tracked, ref, parked, pc, tx, claim, queue>>
world   == <<up, out, todo, late, eff, spent>>
vars == <<row, cache, audit, up, heap, tracked, parked, ref, pc, tx,
          claim, queue, out, todo, late, eff, recorded, spent>>

-----------------------------------------------------------------------------
(* Values. *)

Terminal == {"COMPLETED", "FAILED", "COMPENSATED"}
Status   == {"NONE", "PENDING", "RUNNING", "COMPENSATING"} \cup Terminal
Outcome  == {"none", "succeeded", "failed", "waiting"}

\* A SagaInstance: the columns the engine decides on.  armed: nextRetryAt is set.
Copy == [status : Status, cur : 0 .. NSteps, retry : 0 .. MaxRetries,
         armed : BOOLEAN, res : [Step -> Outcome], comp : [Step -> Outcome]]
Blank == [status |-> "NONE", cur |-> 0, retry |-> 0, armed |-> FALSE,
          res |-> [i \in Step |-> "none"], comp |-> [i \in Step |-> "none"]]

Thread == {"adv", "chk", "op", "boot", "stop"}
Label  == {"idle", "load", "status", "liveness", "run", "settle", "write",
           "wstatus", "wload", "wsync", "wundo", "wrecord"}
Kind   == {"none", "start", "open", "advance", "retry", "exhausted", "rearm",
           "rearm2", "repoll", "begin", "failstep", "fail", "timeout", "complete", "wbegin",
           "wprogress", "wdone", "redrive", "reopen", "rewarm", "handoff"}
Phase  == {"none", "begun", "sent", "ok", "refused", "error"}
\* copy: what Redis will be given, serialised when the write is asked for.
\* cols: what the row will be given, read inside the transaction.
\* ahead: the threads whose writes are served before it, when order is kept.
\* was:  the status failSaga puts back when its write does not land.
Tx     == [phase : Phase, kind : Kind, copy : Copy, cols : Copy, was : Status,
           ahead : SUBSET Thread]
NoTx   == [phase |-> "none", kind |-> "none", copy |-> Blank, cols |-> Blank,
           was |-> "NONE", ahead |-> {}]

Direction == {"none", "forward", "compensation"}
NoClaim   == [dir |-> "none", rerun |-> FALSE, pendingWalk |-> FALSE]
Horizon   == {"saga", "parked", "liveness", "absolute"}

Successes(outcomes) == {i \in Step : outcomes[i] = "succeeded"}

\* The durable event each write appends in its own transaction.
Event(kind) ==
  CASE kind \in {"failstep", "fail", "timeout"} -> {"FAILED"}
    [] kind = "complete" -> {"COMPLETED"}
    [] kind = "wdone"    -> {"COMPENSATED"}
    [] kind \in {"begin", "wbegin", "redrive", "reopen"} -> {"STARTED"}
    [] OTHER -> {}

DurableOK ==
  /\ row \in Copy
  /\ audit \subseteq Terminal \cup {"STARTED"}
  /\ recorded \in [done : SUBSET Step, undone : SUBSET Step, reopened : BOOLEAN]
ControlOK ==
  /\ heap \in [Objs -> Copy]
  /\ tracked \in Objs \cup {NoObj}
  /\ parked \in BOOLEAN
  /\ ref \in [Thread -> Objs \cup {NoObj}]
  /\ pc \in [Thread -> Label]
  /\ tx \in [Thread -> Tx]
  /\ claim \in [dir : Direction, rerun : BOOLEAN, pendingWalk : BOOLEAN]
  /\ queue \subseteq {"forward", "event", "walk"}
WorldOK ==
  /\ up \in BOOLEAN
  /\ out \in Outcome
  /\ todo \subseteq Step
  /\ late \subseteq Horizon
  /\ eff \in [Step -> {"absent", "present", "undone"}]
  /\ spent \in [Fault -> Nat]

\* The type invariant.
TypeOK == DurableOK /\ cache \in Copy /\ ControlOK /\ WorldOK

Init ==
  /\ row = Blank /\ cache = Blank /\ audit = {}
  /\ recorded = [done |-> {}, undone |-> {}, reopened |-> FALSE]
  /\ up = TRUE /\ heap = [o \in Objs |-> Blank] /\ tracked = NoObj
  /\ parked = FALSE /\ ref = [a \in Thread |-> NoObj]
  /\ pc = [a \in Thread |-> "idle"] /\ tx = [a \in Thread |-> NoTx]
  /\ claim = NoClaim /\ queue = {}
  /\ out = "none" /\ todo = {} /\ late = {}
  /\ eff = [i \in Step |-> "absent"]
  /\ spent = [what \in Fault |-> 0]

-----------------------------------------------------------------------------
(* Memory, and how a thread's turn ends. *)

Ended(o)  == heap[o].status \in Terminal
Unused(o) == o # tracked /\ \A a \in Thread : ref[a] # o
Fresh     == CHOOSE o \in Objs : Unused(o)

\* Memory becomes h, with t tracked and r held: what nobody holds is collected.
Memory(h, t, r) ==
  /\ heap' = [o \in Objs |->
       IF o = t \/ \E a \in Thread : r[a] = o THEN h[o] ELSE Blank]
  /\ tracked' = t
  /\ ref' = r

\* One more fault of this kind, within the bound.
Spend(what) ==
  /\ spent' = [spent EXCEPT ![what] = @ + 1]
  /\ spent' \in Allowed

\* The writes that come before one that thread a asks for now.
Line(a) == IF Overtakes THEN {}
           ELSE {b \in Thread \ {a} : tx[b].phase \in {"begun", "sent"}}

\* A write of kind k of object o as memory h has it, after those of line.
NewTx(k, h, o, line) ==
  [phase |-> "begun", kind |-> k, copy |-> h[o], cols |-> Blank,
   was |-> heap[o].status, ahead |-> line]

\* Thread a asks for a write of kind k of object o, in memory h.
Request(a, k, h, o) ==
  /\ Memory(h, tracked, [ref EXCEPT ![a] = o])
  /\ tx' = [tx EXCEPT ![a] = NewTx(k, h, o, Line(a))]
  /\ pc' = [pc EXCEPT ![a] = "write"]
  /\ UNCHANGED <<parked, claim, queue>>

\* The advancer's pass ends.  Only a pass that ran to its end honours a
\* coalesced event; the claim goes, and a walk turned away meanwhile is sent.
EndPass(again, h, t, q) ==
  /\ Memory(h, t, [ref EXCEPT !["adv"] = NoObj])
  /\ tx' = [tx EXCEPT !["adv"] = NoTx]
  /\ IF again /\ claim.rerun
       THEN /\ pc' = [pc EXCEPT !["adv"] = "load"]
            /\ claim' = [claim EXCEPT !.rerun = FALSE]
            /\ queue' = q
       ELSE /\ pc' = [pc EXCEPT !["adv"] = "idle"]
            /\ claim' = NoClaim
            /\ queue' = q \cup (IF claim.pendingWalk THEN {"walk"} ELSE {})

\* Thread a is done, memory is h and t is tracked.
Leave(a, h, t) ==
  IF a = "adv" THEN EndPass(FALSE, h, t, queue)
  ELSE /\ Memory(h, t, [ref EXCEPT ![a] = NoObj])
       /\ tx' = [tx EXCEPT ![a] = NoTx]
       /\ pc' = [pc EXCEPT ![a] = "idle"]
       /\ UNCHANGED <<claim, queue>>

Stay(a)         == Leave(a, heap, tracked) /\ UNCHANGED parked
StopTracking(a) == Leave(a, heap, NoObj) /\ parked' = FALSE

\* failSaga: the copy moves first, then the row.
FailSaga(a, k, h, o) == Request(a, k, [h EXCEPT ![o].status = "FAILED"], o)

\* It runs once more over a copy it has just put back: that is the status to restore.
FailAgain(a, k, o) ==
  LET h == [heap EXCEPT ![o].status = "FAILED"] IN
  /\ Memory(h, tracked, [ref EXCEPT ![a] = o])
  /\ tx' = [tx EXCEPT ![a] = [NewTx(k, h, o, Line(a)) EXCEPT !.was = tx[a].was]]
  /\ pc' = [pc EXCEPT ![a] = "write"]
  /\ UNCHANGED <<parked, claim, queue>>

\* getSaga: the tracked object, else a private copy of what Redis holds, else
\* of the row -- which then warms Redis.
Loaded ==
  IF tracked # NoObj THEN [h |-> heap, o |-> tracked]
  ELSE [h |-> [heap EXCEPT ![Fresh] = IF cache.status = "NONE" THEN row ELSE cache],
        o |-> Fresh]
Rewarmed == IF tracked = NoObj /\ cache.status = "NONE" THEN row ELSE cache

-----------------------------------------------------------------------------
(* The durable write: persistSagaInstance and writeSagaState. *)

\* MUTANT of Admits: a write lands over an ending as if it were any other row.
AdmitsAnything(kind, status) == kind \in Kind /\ status \in Status

\* The compare-and-swap refuses every ending but the one the caller reopens: an
\* operator's re-drive and a pass's turning back may both ask to replace FAILED.
Admits(kind, status) == status \notin Terminal \ (IF kind = "reopen" THEN {"FAILED"} ELSE {})

\* The transaction callback reads the columns from the object as it is now.
Capture(a) ==
  /\ up /\ tx[a].phase = "begun"
  /\ tx[a].ahead = {}
  /\ tx' = [tx EXCEPT ![a].phase = "sent", ![a].cols = heap[ref[a]]]
  /\ UNCHANGED <<durable, cache, heap, tracked, ref, parked, pc, claim, queue, world>>

\* a's write ends in this phase, and no other write waits for it any more.
Done(a, phase) == [b \in Thread |-> IF b = a THEN [tx[a] EXCEPT !.phase = phase]
                                   ELSE [tx[b] EXCEPT !.ahead = @ \ {a}]]

\* Row and event in one transaction; the Redis copy follows and may be lost,
\* and the acknowledgement of a commit may be lost too.
Commit(a) ==
  LET new == tx[a].cols IN
  /\ up /\ tx[a].phase = "sent" /\ Admits(tx[a].kind, row.status)
  /\ row' = new
  /\ audit' = audit \cup Event(tx[a].kind)
  /\ recorded' = [done   |-> recorded.done \cup Successes(new.res),
                  undone |-> recorded.undone \cup Successes(new.comp),
                  reopened |-> recorded.reopened \/ (row.status = "FAILED" /\ a = "adv")]
  /\ late' = late \ {"liveness"}
  /\ \/ /\ tx' = Done(a, "ok")
        /\ \/ cache' = tx[a].copy /\ UNCHANGED spent
           \/ UNCHANGED cache /\ Spend("cache")
     \/ /\ tx' = Done(a, "error")
        /\ Spend("db") /\ UNCHANGED cache
  /\ UNCHANGED <<heap, tracked, ref, parked, pc, claim, queue, up, out, todo, eff>>

\* The row already holds an ending: nothing is written.
Refuse(a) ==
  /\ up /\ tx[a].phase = "sent" /\ ~Admits(tx[a].kind, row.status)
  /\ tx' = Done(a, "refused")
  /\ UNCHANGED <<durable, cache, heap, tracked, ref, parked, pc, claim, queue, world>>

\* The transaction fails and rolls back.
DbError(a) ==
  /\ up /\ tx[a].phase \in {"begun", "sent"} /\ Spend("db")
  /\ tx' = Done(a, "error")
  /\ UNCHANGED <<durable, cache, heap, tracked, ref, parked, pc, claim, queue,
                 up, out, todo, late, eff>>

\* Thread a's write of one of these kinds has settled this way.
Settled(a, kinds, phase) == up /\ tx[a].kind \in kinds /\ tx[a].phase = phase

-----------------------------------------------------------------------------
(* Starting, and dispatching to the advancer. *)

\* startSaga: a PENDING row first, tracking and the dispatch only once it holds.
StartSaga ==
  /\ up /\ row.status = "NONE" /\ pc["op"] = "idle"
  /\ LET o == Fresh IN
     Request("op", "start", [heap EXCEPT ![o] = [Blank EXCEPT !.status = "PENDING"]], o)
  /\ UNCHANGED <<durable, cache, world>>

StartSettled ==
  /\ \/ /\ Settled("op", {"start"}, "ok")
        /\ Memory(heap, ref["op"], [ref EXCEPT !["op"] = NoObj])
        /\ queue' = queue \cup {"forward"}
     \/ /\ Settled("op", {"start"}, "error")
        /\ Memory(heap, tracked, [ref EXCEPT !["op"] = NoObj])
        /\ UNCHANGED queue
  /\ tx' = [tx EXCEPT !["op"] = NoTx]
  /\ pc' = [pc EXCEPT !["op"] = "idle"]
  /\ UNCHANGED <<durable, cache, world, parked, claim>>

\* executeSaga: a free saga is claimed; an event that finds a forward holder is
\* coalesced into its trailing pass; anything else that finds a holder is dropped.
DispatchForward(trigger) ==
  /\ up /\ trigger \in queue
  /\ queue' = queue \ {trigger}
  /\ \/ /\ claim.dir = "none"
        /\ claim' = [NoClaim EXCEPT !.dir = "forward"]
        /\ pc' = [pc EXCEPT !["adv"] = "load"]
     \/ /\ claim.dir = "forward" /\ trigger = "event"
        /\ claim' = [claim EXCEPT !.rerun = TRUE]
        /\ UNCHANGED pc
     \/ /\ claim.dir # "none" /\ ~(claim.dir = "forward" /\ trigger = "event")
        /\ UNCHANGED <<claim, pc>>
  /\ UNCHANGED <<durable, cache, memory, parked, tx, world>>

\* loadAndRunCompensationWalk: a forward holder is asked to send the walk when
\* it ends; a second walk is refused.
DispatchWalk ==
  /\ up /\ "walk" \in queue
  /\ queue' = queue \ {"walk"}
  /\ \/ /\ claim.dir = "none"
        /\ claim' = [NoClaim EXCEPT !.dir = "compensation"]
        /\ pc' = [pc EXCEPT !["adv"] = "wstatus"]
     \/ /\ claim.dir = "forward"
        /\ claim' = [claim EXCEPT !.pendingWalk = TRUE]
        /\ UNCHANGED pc
     \/ /\ claim.dir = "compensation"
        /\ UNCHANGED <<claim, pc>>
  /\ UNCHANGED <<durable, cache, memory, parked, tx, world>>

-----------------------------------------------------------------------------
(* Horizons: checkSagaTimeout, asked by the timeout checker and by every pass. *)

\* MUTANT of Expired: a parked saga is exempt from every horizon.
ExpiredUnlessParked == ~parked /\ "saga" \in late

\* The horizon a tracked saga is measured against.
Expired == IF parked THEN "parked" \in late ELSE "saga" \in late
Overdue(o) == Ended(o) \/ heap[o].status = "COMPENSATING" \/ Expired

CheckTimeout(a, o) ==
  \/ Ended(o) /\ StopTracking(a)
  \/ /\ heap[o].status = "COMPENSATING"
     /\ ref' = [ref EXCEPT ![a] = o]
     /\ pc' = [pc EXCEPT ![a] = "liveness"]
     /\ UNCHANGED <<heap, tracked, parked, tx, claim, queue>>
  \/ ~Ended(o) /\ heap[o].status # "COMPENSATING" /\ Expired /\ FailSaga(a, "timeout", heap, o)

\* checkCompensationLiveness: the tracked copy only raises the suspicion; the
\* decision, and the write, are taken on a fresh copy of the row.
Liveness(a) ==
  LET track == [heap EXCEPT ![Fresh] = row] IN
  /\ up /\ pc[a] = "liveness"
  /\ \/ late \cap {"liveness", "absolute"} = {} /\ Stay(a) /\ UNCHANGED spent
     \/ row.status \in Terminal /\ StopTracking(a) /\ UNCHANGED spent
     \/ /\ row.status \notin Terminal
        /\ row.status # "COMPENSATING" \/ late \cap {"liveness", "absolute"} = {}
        /\ Leave(a, track, Fresh) /\ UNCHANGED <<parked, spent>>
     \/ /\ row.status = "COMPENSATING" /\ late \cap {"liveness", "absolute"} # {}
        /\ FailSaga(a, "timeout", track, Fresh) /\ UNCHANGED spent
     \/ Stay(a) /\ Spend("db")
  /\ UNCHANGED <<durable, cache, up, out, todo, late, eff>>

\* failSaga settles.  A copy whose write did not land gets its status back; a
\* row that ended otherwise is yielded to; a failed write escapes to the caller,
\* and when the caller is the pass's own step handling its catch fails the saga
\* once more.
FailSettled(a) ==
  LET o == ref[a]
      restored == [heap EXCEPT ![o].status = tx[a].was]
      again == tx[a].kind \in {"failstep", "fail"}
      Close(h) == IF a = "adv" THEN EndPass(again, h, NoObj, queue) ELSE Leave(a, h, NoObj)
  IN
  /\ \/ /\ Settled(a, {"failstep", "fail", "timeout"}, "ok")
        /\ Close(heap) /\ parked' = FALSE
     \/ /\ Settled(a, {"failstep", "fail", "timeout"}, "refused")
        /\ Close(restored) /\ parked' = FALSE
     \/ /\ Settled(a, {"failstep"}, "error")
        /\ FailAgain(a, "fail", o)
     \/ /\ Settled(a, {"fail", "timeout"}, "error")
        /\ Leave(a, restored, tracked) /\ UNCHANGED parked
  /\ UNCHANGED <<durable, cache, world>>

\* The checker's tick, when its visit to the tracked saga would do something.
CheckerTick ==
  /\ up /\ pc["chk"] = "idle" /\ tracked # NoObj
  /\ CheckTimeout("chk", tracked)
  /\ UNCHANGED <<durable, cache, world>>

-----------------------------------------------------------------------------
(* A forward pass: advanceSagaOnce and runSagaSteps. *)

me == ref["adv"]

LoadPass ==
  /\ up /\ pc["adv"] = "load"
  /\ \/ /\ Loaded.h[Loaded.o].status \in Terminal
        /\ Stay("adv") /\ UNCHANGED spent /\ cache' = Rewarmed
     \/ /\ Loaded.h[Loaded.o].status \notin Terminal
        /\ Memory(Loaded.h, tracked, [ref EXCEPT !["adv"] = Loaded.o])
        /\ pc' = [pc EXCEPT !["adv"] = "status"]
        /\ cache' = Rewarmed
        /\ UNCHANGED <<parked, tx, claim, queue, spent>>
     \/ /\ tracked = NoObj /\ cache.status = "NONE" /\ Spend("db")
        /\ Stay("adv") /\ UNCHANGED cache
  /\ UNCHANGED <<durable, up, out, todo, late, eff>>

\* The pass is refused on an unreadable, ended or compensating row; it ends the
\* saga when a horizon has passed; otherwise it opens with a RUNNING write.
ReadStatus ==
  /\ up /\ pc["adv"] = "status"
  /\ \/ Stay("adv") /\ Spend("db")
     \/ row.status \in Terminal /\ StopTracking("adv") /\ UNCHANGED spent
     \/ row.status = "COMPENSATING" /\ Stay("adv") /\ UNCHANGED spent
     \/ /\ row.status \in {"PENDING", "RUNNING"} /\ Overdue(me)
        /\ CheckTimeout("adv", me) /\ UNCHANGED spent
     \/ /\ row.status \in {"PENDING", "RUNNING"} /\ ~Overdue(me)
        /\ Request("adv", "open", [heap EXCEPT ![me].status = "RUNNING"], me)
        /\ UNCHANGED spent
  /\ UNCHANGED <<durable, cache, up, out, todo, late, eff>>

\* Countermeasures and the step itself.  A failed step may have had its effect;
\* a waiting one is the wait step, whose work the queue does.
Execute ==
  LET i == heap[me].cur IN
  /\ up /\ pc["adv"] = "run"
  /\ \/ out' = "succeeded" /\ eff' = [eff EXCEPT ![i] = "present"]
     \/ out' = "failed" /\ (UNCHANGED eff \/ eff' = [eff EXCEPT ![i] = "present"])
     \/ out' = "waiting" /\ i = WaitStep /\ UNCHANGED eff
  /\ pc' = [pc EXCEPT !["adv"] = "settle"]
  /\ UNCHANGED <<durable, cache, memory, parked, tx, claim, queue, up, todo, late, spent>>

\* MUTANT of MayRetry: one retry too many.
MayRetryOnceMore(o) == heap[o].retry <= MaxRetries

\* shouldRetryStep: the budget is the definition's.
MayRetry(o) == heap[o].retry < MaxRetries

\* MUTANT of Spends: a boolean answer, where waiting is read as failure.
SpendsUnlessDone(answer) == answer # "succeeded"

\* MUTANT of Advances: a waiting step is taken for a finished one.
AdvancesUnlessFailed(answer) == answer # "failed"

\* The three answers a step has.  Waiting is not a failure: it spends no retry.
Spends(answer)   == answer = "failed"
Advances(answer) == answer = "succeeded"

\* The answer is recorded in the copy and the write it calls for is requested.
Settle ==
  LET i == heap[me].cur
      h == [heap EXCEPT ![me].res[i] = out]
  IN
  /\ up /\ pc["adv"] = "settle"
  /\ \/ /\ ~Spends(out) /\ ~Advances(out)
        /\ Request("adv", IF heap[me].armed THEN "repoll" ELSE "rearm",
                   [h EXCEPT ![me].armed = TRUE], me)
     \/ /\ Spends(out) /\ MayRetry(me)
        /\ Request("adv", "retry", [h EXCEPT ![me].retry = @ + 1, ![me].armed = TRUE], me)
     \/ /\ Spends(out) /\ ~MayRetry(me)
        /\ Request("adv", "exhausted", h, me)
     \/ /\ Advances(out)
        /\ Request("adv", "advance",
             [h EXCEPT ![me].cur = i + 1, ![me].retry = 0, ![me].armed = FALSE], me)
  /\ out' = "none"
  /\ UNCHANGED <<durable, cache, up, todo, late, eff, spent>>

\* MUTANT of Reversible: the pivot itself is taken to be compensable.
ReversibleAtPivot(o) == heap[o].cur <= Pivot

\* Below the pivot a failure is undone; at it and past it, it is final.
Reversible(o) == heap[o].cur < Pivot

\* MUTANT of Compensating: the retry marker goes, the status does not move.
CompensatingInMemoryOnly(h, o) == [h EXCEPT ![o].armed = FALSE]

\* enterCompensation's change to the copy.
Compensating(h, o) == [h EXCEPT ![o].status = "COMPENSATING", ![o].armed = FALSE]

\* beginCompensation: a copy that says FAILED -- the checker may have marked it while
\* the pass's last write was under way -- makes the turning back a reopening one.
BeginKind(o) == IF heap[o].status = "FAILED" THEN "reopen" ELSE "begin"

\* The pass goes on after a write that landed.
PassWrote ==
  /\ \/ /\ Settled("adv", {"open", "advance"}, "ok") /\ heap[me].cur < NSteps
        /\ pc' = [pc EXCEPT !["adv"] = "run"]
        /\ tx' = [tx EXCEPT !["adv"] = NoTx]
        /\ UNCHANGED <<memory, parked, claim, queue>>
     \/ /\ Settled("adv", {"open", "advance"}, "ok") /\ heap[me].cur = NSteps
        /\ Request("adv", "complete", [heap EXCEPT ![me].status = "COMPLETED"], me)
     \/ /\ Settled("adv", {"retry", "rearm", "rearm2", "repoll"}, "ok")
        /\ EndPass(TRUE, heap, tracked, queue) /\ UNCHANGED parked
     \/ /\ Settled("adv", {"exhausted"}, "ok") /\ Reversible(me)
        /\ Request("adv", BeginKind(me), Compensating(heap, me), me)
     \/ /\ Settled("adv", {"exhausted"}, "ok") /\ ~Reversible(me)
        /\ FailSaga("adv", "failstep", heap, me)
     \/ /\ Settled("adv", {"begin", "reopen"}, "ok")
        /\ EndPass(TRUE, heap, tracked, queue \cup {"walk"}) /\ UNCHANGED parked
     \/ /\ Settled("adv", {"complete"}, "ok")
        /\ EndPass(TRUE, heap, NoObj, queue) /\ parked' = FALSE
  /\ UNCHANGED <<durable, cache, world>>

\* What each write's failure does: the opening write escapes, a re-arm may be
\* tried once more -- and whatever the second try answers is only a re-arm that
\* failed -- a compensation that could not be persisted is walked anyway, and
\* everything else fails the saga.
PassFailed ==
  /\ \/ Settled("adv", {"open"}, "error") /\ Stay("adv")
     \/ /\ Settled("adv", {"advance", "retry", "exhausted", "complete"}, "error")
        /\ FailSaga("adv", "fail", heap, me)
     \/ Settled("adv", {"rearm"}, "error") /\ Request("adv", "rearm2", heap, me)
     \/ /\ Settled("adv", {"rearm2"}, "error") \/ Settled("adv", {"rearm2"}, "refused")
        /\ EndPass(TRUE, [heap EXCEPT ![me].armed = FALSE], tracked, queue) /\ UNCHANGED parked
     \/ /\ Settled("adv", {"repoll"}, "error")
        /\ EndPass(TRUE, heap, tracked, queue) /\ UNCHANGED parked
     \/ /\ Settled("adv", {"begin", "reopen"}, "error")
        /\ EndPass(TRUE, heap, tracked, queue \cup {"walk"}) /\ UNCHANGED parked
  /\ UNCHANGED <<durable, cache, world>>

\* A pass whose write the row refused yields to the row's ending.
PassRefused ==
  /\ Settled("adv", {"open", "advance", "retry", "exhausted", "rearm",
                     "repoll", "begin", "reopen", "complete"}, "refused")
  /\ StopTracking("adv")
  /\ UNCHANGED <<durable, cache, world>>

-----------------------------------------------------------------------------
(* The compensation walk. *)

\* MUTANT of NextUndo: the walk ignores what is already recorded as undone.
NextUndoOfAll(h, o) == IF o \in DOMAIN h THEN todo ELSE {}

Undone(h, o)   == Successes(h[o].comp)
Eligible(h, o) == {i \in Step : i < Pivot /\ i < h[o].cur /\ h[o].res[i] = "succeeded"}
NextUndo(h, o) == todo \ Undone(h, o)
Last(S)        == CHOOSE i \in S : \A j \in S : j <= i

\* mergeCompensationResults: the row's record joins the copy's; success wins.
Merged(h, o) == [h EXCEPT ![o].comp = [i \in Step |->
  IF row.comp[i] # "none" /\ (row.comp[i] = "succeeded" \/ h[o].comp[i] = "none")
    THEN row.comp[i] ELSE h[o].comp[i]]]

\* claimedCompensationWalk: an ended or unreadable row is not walked.
WalkStatus ==
  /\ up /\ pc["adv"] = "wstatus"
  /\ \/ Stay("adv") /\ Spend("db")
     \/ row.status \in Terminal /\ Stay("adv") /\ UNCHANGED spent
     \/ /\ row.status \notin Terminal
        /\ pc' = [pc EXCEPT !["adv"] = "wload"]
        /\ UNCHANGED <<memory, parked, tx, claim, queue, spent>>
  /\ UNCHANGED <<durable, cache, up, out, todo, late, eff>>

WalkLoad ==
  /\ up /\ pc["adv"] = "wload"
  /\ \/ /\ Memory(Loaded.h, tracked, [ref EXCEPT !["adv"] = Loaded.o])
        /\ pc' = [pc EXCEPT !["adv"] = "wsync"]
        /\ cache' = Rewarmed
        /\ UNCHANGED <<parked, tx, claim, queue, spent>>
     \/ /\ tracked = NoObj /\ cache.status = "NONE" /\ Spend("db")
        /\ Stay("adv") /\ UNCHANGED cache
  /\ UNCHANGED <<durable, up, out, todo, late, eff>>

\* runCompensationWalk opens: the durable record is merged in, the defensive
\* transition is taken when the copy is not COMPENSATING, and the eligible steps
\* are listed.
WalkSync ==
  /\ up /\ pc["adv"] = "wsync"
  /\ \/ Stay("adv") /\ Spend("db") /\ UNCHANGED todo
     \/ row.status \in Terminal /\ Stay("adv") /\ UNCHANGED <<spent, todo>>
     \/ /\ row.status \notin Terminal /\ heap[me].status # "COMPENSATING"
        /\ Request("adv", "wbegin", Compensating(Merged(heap, me), me), me)
        /\ UNCHANGED <<spent, todo>>
     \/ /\ row.status \notin Terminal /\ heap[me].status = "COMPENSATING"
        /\ heap' = Merged(heap, me)
        /\ todo' = Eligible(heap, me)
        /\ pc' = [pc EXCEPT !["adv"] = "wundo"]
        /\ UNCHANGED <<tracked, ref, parked, tx, claim, queue, spent>>
  /\ UNCHANGED <<durable, cache, up, out, late, eff>>

\* compensate() of the last unvisited step that holds no recorded success.  A
\* failed undo may have had its effect.
Undo ==
  LET i == Last(NextUndo(heap, me)) IN
  /\ up /\ pc["adv"] = "wundo" /\ NextUndo(heap, me) # {}
  /\ \/ out' = "succeeded" /\ eff' = [eff EXCEPT ![i] = "undone"]
     \/ out' = "failed" /\ (UNCHANGED eff \/ eff' = [eff EXCEPT ![i] = "undone"])
  /\ pc' = [pc EXCEPT !["adv"] = "wrecord"]
  /\ UNCHANGED <<durable, cache, memory, parked, tx, claim, queue, up, todo, late, spent>>

\* The answer is recorded in the copy, the row's record is merged in again
\* (persistWalkProgress) and the row is written; an ended or unreadable row
\* stops the walk.
WalkRecord ==
  LET i == Last(NextUndo(heap, me))
      h == [heap EXCEPT ![me].comp[i] = out]
  IN
  /\ up /\ pc["adv"] = "wrecord"
  /\ \/ Leave("adv", h, tracked) /\ UNCHANGED parked /\ Spend("db")
     \/ row.status \in Terminal /\ Leave("adv", h, tracked) /\ UNCHANGED <<parked, spent>>
     \/ /\ row.status \notin Terminal
        /\ Request("adv", "wprogress", Merged(h, me), me) /\ UNCHANGED spent
  /\ todo' = todo \ {i}
  /\ out' = "none"
  /\ UNCHANGED <<durable, cache, up, late, eff>>

\* MUTANT of AllUndone: the walk reached its end, so the saga is compensated.
AllVisited(o) == o # NoObj

\* COMPENSATED only when every eligible step holds a recorded success.
AllUndone(o) == Eligible(heap, o) \subseteq Undone(heap, o)

WalkFinish ==
  /\ up /\ pc["adv"] = "wundo" /\ NextUndo(heap, me) = {}
  /\ \/ ~AllUndone(me) /\ Stay("adv")
     \/ /\ AllUndone(me)
        /\ Request("adv", "wdone", [heap EXCEPT ![me].status = "COMPENSATED"], me)
  /\ todo' = {}
  /\ UNCHANGED <<durable, cache, up, out, late, eff, spent>>

WalkSettled ==
  /\ \/ /\ Settled("adv", {"wbegin", "wprogress"}, "ok")
        /\ pc' = [pc EXCEPT !["adv"] = "wundo"]
        /\ tx' = [tx EXCEPT !["adv"] = NoTx]
        /\ todo' = IF tx["adv"].kind = "wbegin" THEN Eligible(heap, me) ELSE todo
        /\ UNCHANGED <<memory, parked, claim, queue>>
     \/ /\ \/ Settled("adv", {"wdone"}, "ok")
           \/ Settled("adv", {"wbegin", "wprogress", "wdone"}, "refused")
        /\ StopTracking("adv") /\ todo' = {}
     \/ /\ Settled("adv", {"wbegin", "wprogress", "wdone"}, "error")
        /\ Stay("adv") /\ todo' = {}
  /\ UNCHANGED <<durable, cache, up, out, late, eff, spent>>

-----------------------------------------------------------------------------
(* Operators, worker events, the retry scan. *)

\* continueSaga: a copy that reads RUNNING or PENDING is unparked and dispatched.
ContinueSaga ==
  /\ up /\ pc["op"] = "idle" /\ row.status # "NONE" /\ Spend("op")
  /\ Loaded.h[Loaded.o].status \in {"RUNNING", "PENDING"}
  /\ cache' = Rewarmed
  /\ parked' = FALSE
  /\ queue' = queue \cup {"forward"}
  /\ UNCHANGED <<durable, memory, pc, tx, claim, up, out, todo, late, eff>>

\* compensateSaga: from FAILED (the one ending a write may reopen) or again from
\* COMPENSATING, never while this process advances the saga.
CompensateSaga ==
  LET h == Loaded.h  o == Loaded.o IN
  /\ up /\ pc["op"] = "idle" /\ row.status # "NONE" /\ Spend("op")
  /\ h[o].status \in {"FAILED", "COMPENSATING"}
  /\ claim.dir = "none"
  /\ Request("op", IF h[o].status = "FAILED" THEN "reopen" ELSE "redrive",
             Compensating(h, o), o)
  /\ cache' = Rewarmed
  /\ UNCHANGED <<durable, up, out, todo, late, eff>>

CompensateSettled ==
  /\ \/ /\ Settled("op", {"reopen", "redrive"}, "ok")
        /\ queue' = queue \cup {"walk"}
     \/ /\ \/ Settled("op", {"reopen", "redrive"}, "refused")
           \/ Settled("op", {"reopen", "redrive"}, "error")
        /\ UNCHANGED queue
  /\ Memory(heap, tracked, [ref EXCEPT !["op"] = NoObj])
  /\ tx' = [tx EXCEPT !["op"] = NoTx]
  /\ pc' = [pc EXCEPT !["op"] = "idle"]
  /\ UNCHANGED <<durable, cache, world, parked, claim>>

\* handleEvent: a worker reports a publish job the pivot enqueued; only a RUNNING
\* copy at the wait step is dispatched.
WorkerEvent ==
  /\ up /\ eff[Pivot] = "present" /\ Spend("event")
  /\ Loaded.h[Loaded.o].status = "RUNNING" /\ Loaded.h[Loaded.o].cur = WaitStep
  /\ cache' = Rewarmed
  /\ queue' = queue \cup {"event"}
  /\ UNCHANGED <<durable, memory, parked, pc, tx, claim, up, out, todo, late, eff>>

\* The retry scan's query, on a due row.
RetryScan ==
  /\ up /\ "forward" \notin queue
  /\ row.status \in {"RUNNING", "PENDING"} /\ row.armed
  /\ queue' = queue \cup {"forward"}
  /\ UNCHANGED <<durable, cache, memory, parked, pc, tx, claim, world>>

-----------------------------------------------------------------------------
(* Crash, boot, hand-off; Redis expiry; the clock. *)

\* All a process knows is lost.
ProcessGone ==
  /\ up' = FALSE
  /\ heap' = [o \in Objs |-> Blank] /\ tracked' = NoObj /\ parked' = FALSE
  /\ ref' = [a \in Thread |-> NoObj] /\ pc' = [a \in Thread |-> "idle"]
  /\ tx' = [a \in Thread |-> NoTx] /\ claim' = NoClaim /\ queue' = {}
  /\ out' = "none" /\ todo' = {}

Crash ==
  /\ up /\ Spend("crash") /\ ProcessGone
  /\ UNCHANGED <<durable, cache, late, eff>>

\* MUTANT of BootQueue: the pivot boundary is not asked about.
BootQueueUnparked(owned, park, compensating) ==
  IF owned THEN {} ELSE IF compensating THEN {"walk"} ELSE {"forward"}

\* disposeLoadedSaga: what a loaded row is dispatched into.
BootQueue(owned, park, compensating) ==
  IF owned \/ park THEN {} ELSE IF compensating THEN {"walk"} ELSE {"forward"}

\* initialize: the row is tracked when it has not ended, and disposed of --
\* left to the retry scan, parked at or past the pivot, walked, or resumed.
Boot ==
  /\ ~up /\ up' = TRUE
  /\ \/ /\ row.status \in Terminal \cup {"NONE"}
        /\ UNCHANGED <<heap, tracked, ref, parked, pc, tx, queue, spent>>
     \/ /\ row.status \notin Terminal \cup {"NONE"} /\ Spend("db")
        /\ UNCHANGED <<heap, tracked, ref, parked, pc, tx, queue>>
     \/ LET o == Fresh
            compensating == row.status = "COMPENSATING"
            owned == ~compensating /\ row.armed
            park  == ~owned /\ row.cur >= Pivot
            warm  == ~compensating /\ ~park
        IN
        /\ row.status \notin Terminal \cup {"NONE"}
        /\ tracked' = o
        /\ heap' = [heap EXCEPT ![o] = row]
        /\ parked' = park
        /\ queue' = BootQueue(owned, park, compensating)
        /\ ref' = [ref EXCEPT !["boot"] = IF warm THEN o ELSE NoObj]
        /\ pc' = [pc EXCEPT !["boot"] = IF warm THEN "write" ELSE "idle"]
        /\ tx' = [tx EXCEPT !["boot"] = IF warm THEN NewTx("rewarm", heap', o, {}) ELSE NoTx]
        /\ UNCHANGED spent
  /\ late' = late \ {"parked"}
  /\ UNCHANGED <<durable, cache, claim, out, todo, eff>>

\* The re-warm is detached: whatever it answers is only logged.
RewarmSettled ==
  /\ Settled("boot", {"rewarm"}, "ok") \/ Settled("boot", {"rewarm"}, "refused")
     \/ Settled("boot", {"rewarm"}, "error")
  /\ Stay("boot")
  /\ UNCHANGED <<durable, cache, world>>

\* shutdown: a tracked RUNNING saga is handed back as PENDING, whether or not
\* that write lands, and the process goes.
Shutdown ==
  /\ up /\ tracked # NoObj /\ heap[tracked].status = "RUNNING" /\ pc["stop"] = "idle"
  /\ Spend("drain")
  /\ Request("stop", "handoff", [heap EXCEPT ![tracked].status = "PENDING"], tracked)
  /\ UNCHANGED <<durable, cache, up, out, todo, late, eff>>

ShutdownSettled ==
  /\ Settled("stop", {"handoff"}, "ok") \/ Settled("stop", {"handoff"}, "refused")
     \/ Settled("stop", {"handoff"}, "error")
  /\ ProcessGone
  /\ UNCHANGED <<durable, cache, late, eff, spent>>

CacheExpires ==
  /\ cache.status # "NONE" /\ Spend("cache") /\ cache' = Blank
  /\ UNCHANGED <<durable, control, up, out, todo, late, eff>>

\* Each horizon runs from its own anchor: the saga's start, the boot that parked
\* it, the row's last write, the first compensation-started event.
Tick(horizon) ==
  /\ horizon \notin late
  /\ \/ horizon = "saga" /\ row.status # "NONE"
     \/ horizon = "parked" /\ parked
     \/ horizon = "liveness" /\ row.status = "COMPENSATING"
     \/ horizon = "absolute" /\ "STARTED" \in audit
  /\ late' = late \cup {horizon}
  /\ UNCHANGED <<durable, cache, control, up, out, todo, eff, spent>>

-----------------------------------------------------------------------------
(* The specification. *)

Write(a) == Capture(a) \/ Commit(a) \/ Refuse(a) \/ DbError(a)
Advance ==
  \/ LoadPass \/ ReadStatus \/ Execute \/ Settle \/ PassWrote \/ PassFailed \/ PassRefused
  \/ WalkStatus \/ WalkLoad \/ WalkSync \/ Undo \/ WalkRecord \/ WalkFinish \/ WalkSettled
  \/ Liveness("adv") \/ FailSettled("adv") \/ Write("adv")
Check    == CheckerTick \/ Liveness("chk") \/ FailSettled("chk") \/ Write("chk")
Dispatch == DispatchForward("forward") \/ DispatchForward("event") \/ DispatchWalk
Operate  == StartSettled \/ CompensateSettled \/ Write("op")
Restart  == Boot \/ RewarmSettled \/ Write("boot") \/ ShutdownSettled \/ Write("stop")

Next ==
  \/ StartSaga \/ Advance \/ Check \/ Dispatch \/ Operate \/ Restart
  \/ ContinueSaga \/ CompensateSaga \/ WorkerEvent \/ RetryScan
  \/ Crash \/ Shutdown \/ CacheExpires
  \/ \E horizon \in Horizon : Tick(horizon)

Spec == Init /\ [][Next]_vars

\* The event loop runs every thread that can run, the scheduler keeps ticking,
\* a dead process is restarted, and time passes.
Fairness ==
  /\ WF_vars(Advance) /\ WF_vars(Check) /\ WF_vars(Operate) /\ WF_vars(Restart)
  /\ WF_vars(DispatchForward("forward")) /\ WF_vars(DispatchForward("event"))
  /\ WF_vars(DispatchWalk) /\ WF_vars(RetryScan)
  /\ \A horizon \in Horizon : WF_vars(Tick(horizon))
FairSpec == Spec /\ Fairness

-----------------------------------------------------------------------------
(* Safety. *)

\* An ending is final.  Once the row reads COMPLETED, FAILED or COMPENSATED no
\* write of a stale copy -- a pass, a walk, the checker, a re-warm, a hand-off --
\* changes it: only a turning back that asked to replace FAILED may move a FAILED
\* row, an operator's re-drive or a pass's own (beginCompensation).  This is the
\* compare-and-swap of writeSagaState against everything that runs beside it.
EndingsAreFinal ==
  [][row.status \in Terminal =>
       row' = row \/ (row.status = "FAILED" /\ \E a \in {"op", "adv"} : tx[a].kind = "reopen")]_vars

\* The comment on beginCompensation: only the operator's door leaves FAILED, and the
\* forward path "can never reopen anything".
OnlyTheOperatorReopens ==
  [][row.status = "FAILED" => row' = row \/ tx["op"].kind = "reopen"]_vars

\* Every ending has its event: the durable log holds the event of the ending the
\* row shows (persistSagaInstance: row and event commit together).
EndingsAreAudited == row.status \in Terminal => row.status \in audit

\* The walk is about to call compensate().
Undoing == pc["adv"] = "wundo" /\ NextUndo(heap, me) # {}

\* No compensate() runs while the row still says the saga moves forward
\* (beginCompensation and the defensive transition of runCompensationWalk), up to
\* the day a pass has written over a failure: the checker whose failure that was may
\* take it back in the copy the pass is writing.
UndoNeverOverForwardRow ==
  ~recorded.reopened => (Undoing => row.status \notin {"PENDING", "RUNNING"})

\* A step whose undo the row has ever recorded as done is not undone again, by
\* an automatic resume or by an operator's re-drive (syncWalkRecord,
\* mergeCompensationResults).
RecordedUndoIsNotRepeated == Undoing => Last(NextUndo(heap, me)) \notin recorded.undone

\* The same where no operator has acted: whatever a crash, a drain or a lost
\* write interrupts, the walk that follows starts where the record ends.
ResumeRepeatsNoUndo == spent["op"] = 0 => RecordedUndoIsNotRepeated

\* No step runs forward over a state some undo has already reverted: across
\* crashes, boots and operator requests the direction of travel is never lost
\* (disposeLoadedSaga, advanceSagaOnce).
NoStepOverUndoneState == pc["adv"] = "run" => \A i \in Step : eff[i] # "undone"

\* COMPENSATED means it: without an operator's re-drive, every compensable step
\* the row ever recorded as done has been undone in the world, while few cache writes
\* are lost: a copy in Redis that missed a whole run shows the walk no step to undo
\* (runCompensationWalk's terminal honesty).
CompensatedIsHonest ==
  row.status = "COMPENSATED" /\ spent["op"] = 0 =>
    \A i \in recorded.done : i < Pivot => eff[i] = "undone"

\* COMPLETED means every step's effect is in the world and none was reverted,
\* whatever failed, was retried, waited or was interrupted on the way.
CompletedIsHonest == row.status = "COMPLETED" => \A i \in Step : eff[i] = "present"

\* Without an operator nothing is undone once the pivot's effect may be out
\* (runSagaSteps' pivot branch, the eligibility filter of the walk).
PivotIsFinal == pc["adv"] = "wrecord" => eff[Pivot] = "absent"

\* What a boot has parked is advanced by nobody but an operator, who continues it, or
\* a worker's event, which handleEvent dispatches at the wait step whether the saga is
\* parked or not; until one of them comes only the end of its window moves it
\* (disposeLoadedSaga, the retry scan, checkSagaTimeout).
ParkedIsLeftAlone ==
  parked /\ spent["op"] = 0 /\ spent["event"] = 0 => claim.dir = "none" /\ queue = {}

\* What docs/security/MULTI_TENANT_GUARDS.md promises an operator of a parked saga:
\* "No automatic mechanism advances it. ... not `handleEvent`."
NothingAdvancesParked == parked /\ spent["op"] = 0 => claim.dir = "none" /\ queue = {}

\* FAILED needs a cause: a step recorded as failed, a horizon that passed, or a
\* write that could not be made.  A burst of sibling completion events over a
\* waiting step is none of these (runSagaSteps, handleEvent).
FailureHasACause ==
  row.status = "FAILED" =>
    late # {} \/ spent["db"] > 0 \/ \E i \in Step : row.res[i] = "failed"

\* A saga that has turned back does not turn forward again: no write moves a
\* COMPENSATING row to PENDING or RUNNING, the drain's hand-off included.
NeverTurnsForward ==
  [][row.status = "COMPENSATING" => row'.status \notin {"PENDING", "RUNNING"}]_vars

\* The engine implements the life of a saga that SagaStatus promises, with the
\* abstract status read off the durable row, as long as no pass has written over a
\* failure: SagaStatus knows only an operator who does.
S == INSTANCE SagaStatus WITH status <- row.status
ImplementsSagaStatus == S!Init /\ [][recorded'.reopened \/ S!Next]_(row.status)

-----------------------------------------------------------------------------
(* Liveness. *)

\* Every saga that has a row ends, through crashes, parkings and horizons
\* (startTimeoutChecker and the boot pass: no infinite RUNNING); one whose ending a
\* pass has written over had its ending, and may not find another.
EventuallyEnds == (row.status # "NONE") ~> (row.status \in Terminal \/ recorded.reopened)

=============================================================================
