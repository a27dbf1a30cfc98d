------------------------- MODULE SagaEngine_proofs -------------------------
(***************************************************************************)
(* Theorems about SagaEngine, for every number of steps, every pivot, every *)
(* retry budget and every bound on faults: the types hold, no write of a   *)
(* stale copy moves a saga that has ended, and every thread is where its   *)
(* claim lets it be.                                                       *)
(***************************************************************************)
EXTENDS SagaEngine, TLAPS

(***************************************************************************)
(* The inductive invariant.  TypeOK alone is not inductive: an action      *)
(* reads heap[ref[a]], so a thread that is about to read must hold an      *)
(* object, and the step it runs must be one of the definition's.           *)
(***************************************************************************)

\* A thread with an outstanding write, or at a label that works on its copy,
\* holds a copy.
Holding == {"status", "liveness", "run", "settle", "write", "wsync", "wundo", "wrecord"}
RefOK   == \A a \in Thread : tx[a].phase # "none" \/ pc[a] \in Holding => ref[a] \in Objs

\* A step is run, and settled, only while one is left.
StepOK == pc["adv"] \in {"run", "settle"} => heap[me].cur < NSteps

\* Only the operator's thread and the advancer's ask to reopen a failed saga.
ReopenOK == \A a \in Thread : tx[a].kind = "reopen" => a \in {"op", "adv"}

ThreadsOK == ControlOK /\ RefOK /\ StepOK /\ ReopenOK
IInv == DurableOK /\ cache \in Copy /\ WorldOK /\ ThreadsOK

-----------------------------------------------------------------------------
(* Values. *)

\* A saga that was never persisted is a SagaInstance like any other.
LEMMA BlankType == Blank \in Copy /\ NoTx \in Tx
<1>1. 0 \in 0 .. NSteps /\ 0 \in 0 .. MaxRetries
  BY StepsAssumption
<1>2. Blank \in Copy
  BY <1>1 DEF Blank, Copy, Status, Terminal, Outcome
<1>. QED  BY <1>2 DEF NoTx, Tx, Phase, Kind, Status

\* There is always a cell that nobody holds.
LEMMA FreshType ==
  ASSUME tracked \in Objs \cup {NoObj}, ref \in [Thread -> Objs \cup {NoObj}]
  PROVE  Fresh \in Objs /\ Fresh # tracked /\ \A a \in Thread : ref[a] # Fresh
<1>1. PICK o \in Objs : o \notin {tracked, ref["adv"], ref["chk"], ref["op"],
                                  ref["boot"], ref["stop"]}
  BY HeapAssumption DEF Thread
<1>2. Unused(o)
  BY <1>1 DEF Unused, Thread
<1>3. Fresh \in Objs /\ Unused(Fresh)
  BY <1>2 DEF Fresh
<1>. QED  BY <1>3 DEF Unused

\* The object a read hands out exists.
LEMMA LoadedType ==
  ASSUME ControlOK, row \in Copy, cache \in Copy
  PROVE  /\ Loaded.o \in Objs
         /\ Loaded.h \in [Objs -> Copy]
         /\ \A a \in Thread : ref[a] \in Objs => Loaded.h[ref[a]] = heap[ref[a]]
         /\ Rewarmed \in Copy
<1>1. Fresh \in Objs /\ \A a \in Thread : ref[a] # Fresh
  BY FreshType DEF ControlOK
<1>2. CASE tracked # NoObj
  BY <1>2 DEF Loaded, Rewarmed, ControlOK
<1>3. CASE tracked = NoObj
  BY <1>1, <1>3 DEF Loaded, Rewarmed, ControlOK
<1>. QED  BY <1>2, <1>3

-----------------------------------------------------------------------------
(* How a thread's turn ends, and what it asks for. *)

\* h leaves the step that the advancer's copy is at alone.
SameStep(h) == ref["adv"] \in Objs => h[me].cur = heap[me].cur

\* What a collection leaves behind.
LEMMA MemoryType ==
  ASSUME NEW h \in [Objs -> Copy], NEW t \in Objs \cup {NoObj},
         NEW r \in [Thread -> Objs \cup {NoObj}], Memory(h, t, r)
  PROVE  /\ heap' \in [Objs -> Copy]
         /\ tracked' = t
         /\ ref' = r
         /\ \A a \in Thread : r[a] \in Objs => heap'[r[a]] = h[r[a]]
BY BlankType DEF Memory

\* Asking for a write keeps the threads in order, whatever the write is of.
LEMMA AskThreads ==
  ASSUME ThreadsOK, NEW a \in Thread, NEW w \in Tx,
         w.kind = "reopen" => a \in {"op", "adv"},
         NEW h \in [Objs -> Copy], a # "adv" => SameStep(h), NEW o \in Objs,
         Memory(h, tracked, [ref EXCEPT ![a] = o]),
         tx' = [tx EXCEPT ![a] = w], pc' = [pc EXCEPT ![a] = "write"],
         UNCHANGED <<parked, claim, queue>>
  PROVE  ThreadsOK'
<1>. DEFINE r == [ref EXCEPT ![a] = o]
<1>. USE DEF ThreadsOK
<1>1. /\ heap' \in [Objs -> Copy]
      /\ tracked' = tracked
      /\ ref' = r
      /\ \A b \in Thread : r[b] \in Objs => heap'[r[b]] = h[r[b]]
  <2>1. r \in [Thread -> Objs \cup {NoObj}] /\ tracked \in Objs \cup {NoObj}
    BY DEF ControlOK
  <2>. QED  BY <2>1, MemoryType
<1>2. ControlOK'
  BY <1>1 DEF ControlOK, Label
<1>3. RefOK'
  BY <1>1 DEF RefOK, ControlOK
<1>4. StepOK'
  <2>1. CASE a = "adv"
    BY <2>1 DEF StepOK, ControlOK, Thread
  <2>2. CASE a # "adv"
    <3>1. pc'["adv"] = pc["adv"] /\ ref'["adv"] = ref["adv"] /\ r["adv"] = ref["adv"]
      BY <2>2, <1>1 DEF ControlOK, Thread
    <3>2. pc["adv"] \in {"run", "settle"} => ref["adv"] \in Objs
      BY DEF RefOK, Holding, Thread
    <3>. QED  BY <2>2, <3>1, <3>2, <1>1 DEF StepOK, SameStep, me, Thread
  <2>. QED  BY <2>1, <2>2
<1>5. ReopenOK'
  BY DEF ReopenOK, ControlOK
<1>. QED  BY <1>2, <1>3, <1>4, <1>5

LEMMA NewTxType ==
  ASSUME ControlOK, NEW a \in Thread, NEW k \in Kind, NEW h \in [Objs -> Copy], NEW o \in Objs
  PROVE  NewTx(k, h, o, Line(a)) \in Tx /\ NewTx(k, h, o, Line(a)).kind = k
<1>1. h[o] \in Copy /\ heap[o].status \in Status /\ Line(a) \in SUBSET Thread
  BY DEF ControlOK, Copy, Line
<1>. QED  BY <1>1, BlankType DEF NewTx, Tx, Phase

LEMMA RequestThreads ==
  ASSUME ThreadsOK, NEW a \in Thread, NEW k \in Kind, k = "reopen" => a \in {"op", "adv"},
         NEW h \in [Objs -> Copy], a # "adv" => SameStep(h),
         NEW o \in Objs, Request(a, k, h, o)
  PROVE  ThreadsOK'
<1>. DEFINE w == NewTx(k, h, o, Line(a))
<1>1. w \in Tx /\ w.kind = k
  BY NewTxType DEF ThreadsOK
<1>2. /\ Memory(h, tracked, [ref EXCEPT ![a] = o])
      /\ tx' = [tx EXCEPT ![a] = w] /\ pc' = [pc EXCEPT ![a] = "write"]
      /\ UNCHANGED <<parked, claim, queue>>
  BY DEF Request
<1>. HIDE DEF w
<1>. QED  BY <1>1, <1>2, AskThreads

\* A pass that ends keeps the threads in order: a trailing pass starts at its
\* load, where no copy is held.
LEMMA EndPassThreads ==
  ASSUME ThreadsOK, NEW again \in BOOLEAN, NEW h \in [Objs -> Copy],
         NEW t \in Objs \cup {NoObj}, NEW q \in SUBSET {"forward", "event", "walk"},
         EndPass(again, h, t, q), parked' \in BOOLEAN
  PROVE  ThreadsOK'
<1>. DEFINE r == [ref EXCEPT !["adv"] = NoObj]
<1>. USE DEF ThreadsOK
<1>1. heap' \in [Objs -> Copy] /\ tracked' = t /\ ref' = r
  <2>1. r \in [Thread -> Objs \cup {NoObj}]
    BY DEF ControlOK
  <2>. QED  BY <2>1, MemoryType DEF EndPass
<1>2. tx' = [tx EXCEPT !["adv"] = NoTx]
  BY DEF EndPass
<1>3. /\ pc' = [pc EXCEPT !["adv"] = "load"] \/ pc' = [pc EXCEPT !["adv"] = "idle"]
      /\ claim' \in [dir : Direction, rerun : BOOLEAN, pendingWalk : BOOLEAN]
      /\ queue' \subseteq {"forward", "event", "walk"}
  <2>1. CASE again /\ claim.rerun
    BY <2>1 DEF EndPass, ControlOK
  <2>2. CASE ~(again /\ claim.rerun)
    <3>1. /\ pc' = [pc EXCEPT !["adv"] = "idle"]
          /\ claim' = NoClaim
          /\ queue' = q \cup (IF claim.pendingWalk THEN {"walk"} ELSE {})
      BY <2>2 DEF EndPass
    <3>2. NoClaim \in [dir : Direction, rerun : BOOLEAN, pendingWalk : BOOLEAN]
      BY DEF NoClaim, Direction
    <3>. QED  BY <3>1, <3>2
  <2>. QED  BY <2>1, <2>2
<1>4. ControlOK'
  BY <1>1, <1>2, <1>3, BlankType DEF ControlOK, Label
<1>5. RefOK'
  BY <1>1, <1>2, <1>3 DEF RefOK, ControlOK, Holding, NoTx
<1>6. StepOK'
  BY <1>3 DEF StepOK, ControlOK, Thread
<1>7. ReopenOK'
  BY <1>2 DEF ReopenOK, ControlOK, NoTx
<1>. QED  BY <1>4, <1>5, <1>6, <1>7

\* So does any other thread that is done.
LEMMA ReturnThreads ==
  ASSUME ThreadsOK, NEW a \in Thread, a # "adv",
         NEW h \in [Objs -> Copy], SameStep(h), NEW t \in Objs \cup {NoObj},
         Memory(h, t, [ref EXCEPT ![a] = NoObj]),
         tx' = [tx EXCEPT ![a] = NoTx], pc' = [pc EXCEPT ![a] = "idle"],
         UNCHANGED claim, queue' \subseteq {"forward", "event", "walk"}, parked' \in BOOLEAN
  PROVE  ThreadsOK'
<1>. DEFINE r == [ref EXCEPT ![a] = NoObj]
<1>. USE DEF ThreadsOK
<1>1. /\ heap' \in [Objs -> Copy]
      /\ tracked' = t
      /\ ref' = r
      /\ \A b \in Thread : r[b] \in Objs => heap'[r[b]] = h[r[b]]
  <2>1. r \in [Thread -> Objs \cup {NoObj}]
    BY DEF ControlOK
  <2>. QED  BY <2>1, MemoryType
<1>2. ControlOK'
  BY <1>1, BlankType DEF ControlOK, Label
<1>3. RefOK'
  BY <1>1 DEF RefOK, ControlOK, Holding, NoTx
<1>4. StepOK'
  <2>1. pc'["adv"] = pc["adv"] /\ ref'["adv"] = ref["adv"] /\ r["adv"] = ref["adv"]
    BY <1>1 DEF ControlOK, Thread
  <2>2. pc["adv"] \in {"run", "settle"} => ref["adv"] \in Objs
    BY DEF RefOK, Holding, Thread
  <2>. QED  BY <2>1, <2>2, <1>1 DEF StepOK, SameStep, me, Thread
<1>5. ReopenOK'
  BY DEF ReopenOK, ControlOK, NoTx
<1>. QED  BY <1>2, <1>3, <1>4, <1>5

LEMMA LeaveThreads ==
  ASSUME ThreadsOK, NEW a \in Thread, NEW h \in [Objs -> Copy],
         a # "adv" => SameStep(h), NEW t \in Objs \cup {NoObj},
         Leave(a, h, t), parked' \in BOOLEAN
  PROVE  ThreadsOK'
<1>0. queue \in SUBSET {"forward", "event", "walk"}
  BY DEF ThreadsOK, ControlOK
<1>1. CASE a = "adv"
  BY <1>0, <1>1, EndPassThreads DEF Leave
<1>2. CASE a # "adv"
  BY <1>0, <1>2, ReturnThreads DEF Leave
<1>. QED  BY <1>1, <1>2

LEMMA StayThreads ==
  ASSUME ThreadsOK, NEW a \in Thread, Stay(a)
  PROVE  ThreadsOK'
<1>1. heap \in [Objs -> Copy] /\ tracked \in Objs \cup {NoObj} /\ SameStep(heap)
  BY DEF ThreadsOK, ControlOK, SameStep
<1>2. Leave(a, heap, tracked) /\ parked' \in BOOLEAN
  BY DEF Stay, ThreadsOK, ControlOK
<1>. QED  BY <1>1, <1>2, LeaveThreads

LEMMA StopTrackingThreads ==
  ASSUME ThreadsOK, NEW a \in Thread, StopTracking(a)
  PROVE  ThreadsOK'
<1>1. heap \in [Objs -> Copy] /\ SameStep(heap)
  BY DEF ThreadsOK, ControlOK, SameStep
<1>2. Leave(a, heap, NoObj) /\ parked' \in BOOLEAN
  BY DEF StopTracking
<1>. QED  BY <1>1, <1>2, LeaveThreads

\* failSaga moves the copy's status and nothing else of it.
LEMMA FailSagaThreads ==
  ASSUME ThreadsOK, NEW a \in Thread, NEW k \in {"failstep", "fail", "timeout"},
         NEW h \in [Objs -> Copy], SameStep(h), NEW o \in Objs, FailSaga(a, k, h, o)
  PROVE  ThreadsOK'
<1>. DEFINE g == [h EXCEPT ![o].status = "FAILED"]
<1>1. g \in [Objs -> Copy] /\ SameStep(g)
  BY DEF Copy, Status, Terminal, SameStep
<1>2. Request(a, k, g, o)
  BY DEF FailSaga
<1>3. k \in Kind /\ k # "reopen"
  BY DEF Kind
<1>. QED  BY <1>1, <1>2, <1>3, RequestThreads

LEMMA FailAgainThreads ==
  ASSUME ThreadsOK, NEW a \in Thread, NEW k \in {"failstep", "fail", "timeout"},
         NEW o \in Objs, FailAgain(a, k, o)
  PROVE  ThreadsOK'
<1>. DEFINE g == [heap EXCEPT ![o].status = "FAILED"]
<1>. DEFINE w == [NewTx(k, g, o, Line(a)) EXCEPT !.was = tx[a].was]
<1>1. g \in [Objs -> Copy] /\ SameStep(g)
  BY DEF Copy, Status, Terminal, SameStep, ThreadsOK, ControlOK
<1>2. k \in Kind /\ k # "reopen"
  BY DEF Kind
<1>3. /\ Memory(g, tracked, [ref EXCEPT ![a] = o])
      /\ tx' = [tx EXCEPT ![a] = w] /\ pc' = [pc EXCEPT ![a] = "write"]
      /\ UNCHANGED <<parked, claim, queue>>
  BY DEF FailAgain
<1>. HIDE DEF g
<1>4. w \in Tx /\ w.kind = k
  <2>1. tx[a].was \in Status
    BY DEF ThreadsOK, ControlOK, Tx
  <2>2. NewTx(k, g, o, Line(a)) \in Tx /\ NewTx(k, g, o, Line(a)).kind = k
    BY <1>1, <1>2, NewTxType DEF ThreadsOK
  <2>. QED  BY <2>1, <2>2 DEF Tx
<1>. HIDE DEF w
<1>. QED  BY <1>1, <1>2, <1>3, <1>4, AskThreads

-----------------------------------------------------------------------------
(* The durable write. *)

LEMMA EventType == ASSUME NEW k \in Kind PROVE Event(k) \subseteq Terminal \cup {"STARTED"}
BY DEF Event, Terminal, Kind

\* A write that ends, or is captured, moves no thread.
LEMMA DoneThreads ==
  ASSUME ThreadsOK, NEW a \in Thread, NEW p \in Phase, tx[a].phase # "none",
         tx' = Done(a, p),
         UNCHANGED <<heap, tracked, ref, parked, pc, claim, queue>>
  PROVE  ThreadsOK'
<1>. USE DEF ThreadsOK
<1>1. \A b \in Thread : /\ tx'[b] \in Tx
                        /\ tx'[b].kind = tx[b].kind
                        /\ tx'[b].phase # "none" => tx[b].phase # "none"
  <2>1. SUFFICES ASSUME NEW b \in Thread
                 PROVE  /\ tx'[b] \in Tx
                        /\ tx'[b].kind = tx[b].kind
                        /\ tx'[b].phase # "none" => tx[b].phase # "none"
    OBVIOUS
  <2>2. tx[a] \in Tx /\ tx[b] \in Tx
    BY DEF ControlOK
  <2>3. CASE b = a
    BY <2>2, <2>3 DEF Done, Tx
  <2>4. CASE b # a
    BY <2>2, <2>4 DEF Done, Tx
  <2>. QED  BY <2>3, <2>4
<1>2. tx' \in [Thread -> Tx]
  BY <1>1 DEF Done
<1>3. ControlOK'
  BY <1>2 DEF ControlOK
<1>4. RefOK' /\ StepOK' /\ ReopenOK'
  BY <1>1 DEF RefOK, StepOK, ReopenOK, me
<1>. QED  BY <1>3, <1>4

LEMMA CaptureInv ==
  ASSUME IInv, NEW a \in Thread, Capture(a)
  PROVE  IInv'
<1>. USE DEF IInv, ThreadsOK
<1>. DEFINE cols == heap[ref[a]]
<1>. DEFINE new == [[tx[a] EXCEPT !.phase = "sent"] EXCEPT !.cols = cols]
<1>1. tx[a] \in Tx /\ tx[a].phase = "begun" /\ cols \in Copy
  BY DEF Capture, RefOK, ControlOK
<1>2. new \in Tx /\ new.kind = tx[a].kind
  <2>1. [tx[a] EXCEPT !.phase = "sent"] \in Tx
    BY <1>1 DEF Tx, Phase
  <2>. QED  BY <1>1, <2>1 DEF Tx
<1>3. tx' = [tx EXCEPT ![a] = new]
  BY DEF Capture
<1>. HIDE DEF new
<1>4. /\ DurableOK' /\ cache' \in Copy /\ WorldOK'
      /\ UNCHANGED <<heap, tracked, ref, parked, pc, claim, queue>>
  BY DEF Capture, durable, world, DurableOK, WorldOK
<1>5. ControlOK'
  BY <1>2, <1>3, <1>4 DEF ControlOK
<1>6. RefOK' /\ StepOK' /\ ReopenOK'
  BY <1>1, <1>2, <1>3, <1>4 DEF RefOK, StepOK, ReopenOK, ControlOK, me
<1>. QED  BY <1>4, <1>5, <1>6

LEMMA CommitInv ==
  ASSUME IInv, NEW a \in Thread, Commit(a)
  PROVE  IInv'
<1>. USE DEF IInv
<1>. DEFINE new == tx[a].cols
<1>1. tx[a] \in Tx /\ tx[a].phase = "sent"
  BY DEF Commit, ThreadsOK, ControlOK
<1>2. new \in Copy /\ tx[a].copy \in Copy /\ tx[a].kind \in Kind
  BY <1>1 DEF Tx
<1>3. /\ row' = new
      /\ audit' = audit \cup Event(tx[a].kind)
      /\ recorded' = [done   |-> recorded.done \cup Successes(new.res),
                      undone |-> recorded.undone \cup Successes(new.comp),
                      reopened |-> recorded.reopened \/ (row.status = "FAILED" /\ a = "adv")]
      /\ late' = late \ {"liveness"}
      /\ UNCHANGED <<heap, tracked, ref, parked, pc, claim, queue, up, out, todo, eff>>
  BY DEF Commit
<1>4. DurableOK'
  BY <1>2, <1>3, EventType DEF DurableOK, Successes
<1>5. /\ tx' = Done(a, "ok") \/ tx' = Done(a, "error")
      /\ cache' = tx[a].copy \/ cache' = cache
      /\ spent' = spent \/ (\E what \in {"cache", "db"} : Spend(what))
  BY DEF Commit, Spend, WorldOK
<1>6. cache' \in Copy
  BY <1>2, <1>5
<1>7. ThreadsOK'
  BY <1>1, <1>3, <1>5, DoneThreads DEF Phase
<1>8. WorldOK'
  BY <1>3, <1>5 DEF WorldOK, Spend
<1>. QED  BY <1>4, <1>6, <1>7, <1>8

\* A count of faults stays one.
LEMMA SpendType ==
  ASSUME spent \in [Fault -> Nat], NEW what, Spend(what)
  PROVE  spent' \in [Fault -> Nat]
<1>1. spent' = [spent EXCEPT ![what] = @ + 1]
  BY DEF Spend
<1>2. \A f \in Fault : [spent EXCEPT ![what] = @ + 1][f] \in Nat
  OBVIOUS
<1>. QED  BY <1>1, <1>2

LEMMA WriteInv ==
  ASSUME IInv, NEW a \in Thread, Write(a)
  PROVE  IInv'
<1>1. CASE Capture(a)
  BY <1>1, CaptureInv
<1>2. CASE Commit(a)
  BY <1>2, CommitInv
<1>3. CASE Refuse(a)
  <2>1. /\ tx[a].phase # "none" /\ tx' = Done(a, "refused") /\ "refused" \in Phase
        /\ UNCHANGED <<heap, tracked, ref, parked, pc, claim, queue>>
    BY <1>3 DEF Refuse, Phase
  <2>2. ThreadsOK'
    BY <2>1, DoneThreads DEF IInv
  <2>. QED  BY <1>3, <2>2 DEF Refuse, IInv, durable, world, DurableOK, WorldOK
<1>4. CASE DbError(a)
  <2>1. /\ tx[a].phase # "none" /\ tx' = Done(a, "error") /\ "error" \in Phase
        /\ UNCHANGED <<heap, tracked, ref, parked, pc, claim, queue>>
    BY <1>4 DEF DbError, Phase
  <2>2. ThreadsOK'
    BY <2>1, DoneThreads DEF IInv
  <2>3. spent' \in [Fault -> Nat]
    BY <1>4, SpendType DEF DbError, IInv, WorldOK
  <2>. QED  BY <1>4, <2>2, <2>3 DEF DbError, IInv, durable, DurableOK, WorldOK
<1>. QED  BY <1>1, <1>2, <1>3, <1>4 DEF Write

-----------------------------------------------------------------------------
(* Starting, dispatching, horizons. *)

LEMMA StartInv == ASSUME IInv, StartSaga \/ StartSettled PROVE IInv'
<1>. USE DEF IInv
<1>1. CASE StartSaga
  <2>. DEFINE o == Fresh
  <2>. DEFINE h == [heap EXCEPT ![o] = [Blank EXCEPT !.status = "PENDING"]]
  <2>1. o \in Objs /\ \A a \in Thread : ref[a] # o
    BY FreshType DEF ThreadsOK, ControlOK
  <2>2. [Blank EXCEPT !.status = "PENDING"] \in Copy
    BY BlankType DEF Copy, Status
  <2>3. h \in [Objs -> Copy] /\ SameStep(h)
    BY <2>1, <2>2 DEF ThreadsOK, ControlOK, SameStep, me, Thread
  <2>4. Request("op", "start", h, o) /\ UNCHANGED <<durable, cache, world>>
    BY <1>1 DEF StartSaga
  <2>. HIDE DEF h, o
  <2>5. ThreadsOK'
    BY <2>1, <2>3, <2>4, RequestThreads DEF Kind, Thread
  <2>. QED  BY <2>4, <2>5 DEF durable, world, DurableOK, WorldOK
<1>2. CASE StartSettled
  <2>1. /\ \E t \in Objs \cup {NoObj} : Memory(heap, t, [ref EXCEPT !["op"] = NoObj])
        /\ queue' \subseteq {"forward", "event", "walk"}
        /\ tx' = [tx EXCEPT !["op"] = NoTx] /\ pc' = [pc EXCEPT !["op"] = "idle"]
        /\ UNCHANGED <<claim, parked>> /\ UNCHANGED <<durable, cache, world>>
    BY <1>2 DEF StartSettled, ThreadsOK, ControlOK, Thread
  <2>2. heap \in [Objs -> Copy] /\ SameStep(heap) /\ parked' \in BOOLEAN
    BY <2>1 DEF ThreadsOK, ControlOK, SameStep
  <2>3. ThreadsOK'
    BY <2>1, <2>2, ReturnThreads DEF Thread
  <2>. QED  BY <2>1, <2>3 DEF durable, world, DurableOK, WorldOK
<1>. QED  BY <1>1, <1>2

LEMMA DispatchInv == ASSUME IInv, Dispatch PROVE IInv'
<1>. USE DEF IInv
<1>. DEFINE Moves ==
       /\ pc' = pc \/ (\E l \in {"load", "wstatus"} : pc' = [pc EXCEPT !["adv"] = l])
       /\ claim' \in [dir : Direction, rerun : BOOLEAN, pendingWalk : BOOLEAN]
       /\ queue' \subseteq queue
       /\ UNCHANGED <<durable, cache, memory, parked, tx, world>>
<1>1. Moves
  <2>1. claim \in [dir : Direction, rerun : BOOLEAN, pendingWalk : BOOLEAN]
    BY DEF ThreadsOK, ControlOK
  <2>2. ASSUME NEW trigger \in {"forward", "event"}, DispatchForward(trigger)
        PROVE  Moves
    BY <2>1, <2>2 DEF DispatchForward, NoClaim, Direction
  <2>3. ASSUME DispatchWalk PROVE Moves
    BY <2>1, <2>3 DEF DispatchWalk, NoClaim, Direction
  <2>. QED  BY <2>2, <2>3 DEF Dispatch
<1>2. ThreadsOK'
  BY <1>1 DEF ThreadsOK, ControlOK, RefOK, StepOK, ReopenOK, me, memory, Label, Holding, Thread
<1>. QED  BY <1>1, <1>2 DEF durable, world, DurableOK, WorldOK

\* checkSagaTimeout, whoever asks.
LEMMA CheckTimeoutThreads ==
  ASSUME ThreadsOK, NEW a \in Thread, NEW o \in Objs, CheckTimeout(a, o)
  PROVE  ThreadsOK'
<1>1. CASE StopTracking(a)
  BY <1>1, StopTrackingThreads
<1>2. CASE /\ ref' = [ref EXCEPT ![a] = o]
           /\ pc' = [pc EXCEPT ![a] = "liveness"]
           /\ UNCHANGED <<heap, tracked, parked, tx, claim, queue>>
  BY <1>2 DEF ThreadsOK, ControlOK, RefOK, StepOK, ReopenOK, me, Label, Holding, Thread
<1>3. CASE FailSaga(a, "timeout", heap, o)
  BY <1>3, FailSagaThreads DEF ThreadsOK, ControlOK, SameStep
<1>. QED  BY <1>1, <1>2, <1>3 DEF CheckTimeout

LEMMA CheckerTickInv == ASSUME IInv, CheckerTick PROVE IInv'
<1>1. /\ tracked \in Objs /\ CheckTimeout("chk", tracked)
      /\ UNCHANGED <<durable, cache, world>>
  BY DEF CheckerTick, IInv, ThreadsOK, ControlOK
<1>2. ThreadsOK'
  BY <1>1, CheckTimeoutThreads DEF IInv, Thread
<1>. QED  BY <1>1, <1>2 DEF IInv, durable, world, DurableOK, WorldOK

LEMMA LivenessInv ==
  ASSUME IInv, NEW a \in Thread, Liveness(a)
  PROVE  IInv'
<1>. USE DEF IInv
<1>. DEFINE track == [heap EXCEPT ![Fresh] = row]
<1>1. /\ Fresh \in Objs /\ \A b \in Thread : ref[b] # Fresh
      /\ track \in [Objs -> Copy] /\ SameStep(track)
  BY FreshType DEF ThreadsOK, ControlOK, DurableOK, SameStep, me, Thread
<1>2. /\ \/ Stay(a)
         \/ StopTracking(a)
         \/ Leave(a, track, Fresh) /\ UNCHANGED parked
         \/ FailSaga(a, "timeout", track, Fresh)
      /\ UNCHANGED spent \/ Spend("db")
      /\ UNCHANGED <<durable, cache, up, out, todo, late, eff>>
  BY DEF Liveness
<1>. HIDE DEF track
<1>3. ThreadsOK'
  <2>1. CASE Stay(a)
    BY <2>1, StayThreads
  <2>2. CASE StopTracking(a)
    BY <2>2, StopTrackingThreads
  <2>3. CASE Leave(a, track, Fresh) /\ UNCHANGED parked
    <3>1. parked' \in BOOLEAN
      BY <2>3 DEF ThreadsOK, ControlOK
    <3>. QED  BY <1>1, <2>3, <3>1, LeaveThreads
  <2>4. CASE FailSaga(a, "timeout", track, Fresh)
    BY <1>1, <2>4, FailSagaThreads
  <2>. QED  BY <1>2, <2>1, <2>2, <2>3, <2>4
<1>. QED  BY <1>2, <1>3 DEF durable, DurableOK, WorldOK, Spend

LEMMA FailSettledInv ==
  ASSUME IInv, NEW a \in Thread, FailSettled(a)
  PROVE  IInv'
<1>. USE DEF IInv
<1>. DEFINE o == ref[a]
<1>. DEFINE restored == [heap EXCEPT ![o].status = tx[a].was]
<1>. DEFINE again == tx[a].kind \in {"failstep", "fail"}
<1>1. o \in Objs /\ tx[a] \in Tx
  <2>1. tx[a].phase # "none"
    BY DEF FailSettled, Settled
  <2>. QED  BY <2>1 DEF ThreadsOK, RefOK, ControlOK
<1>2. /\ restored \in [Objs -> Copy] /\ SameStep(restored)
      /\ heap \in [Objs -> Copy] /\ SameStep(heap)
      /\ tracked \in Objs \cup {NoObj} /\ parked \in BOOLEAN
      /\ queue \in SUBSET {"forward", "event", "walk"}
  BY <1>1 DEF ThreadsOK, ControlOK, SameStep, me, Copy, Tx
<1>3. UNCHANGED <<durable, cache, world>>
  BY DEF FailSettled
<1>4. ThreadsOK'
  <2>1. CASE /\ \E h \in {heap, restored} :
                  IF a = "adv" THEN EndPass(again, h, NoObj, queue) ELSE Leave(a, h, NoObj)
             /\ parked' = FALSE
    <3>1. PICK h \in {heap, restored} :
            IF a = "adv" THEN EndPass(again, h, NoObj, queue) ELSE Leave(a, h, NoObj)
      BY <2>1
    <3>2. h \in [Objs -> Copy] /\ SameStep(h)
      BY <1>2, <3>1
    <3>3. CASE a = "adv"
      <4>0. parked' \in BOOLEAN
        BY <2>1
      <4>1. again \in BOOLEAN
        OBVIOUS
      <4>2. EndPass(again, h, NoObj, queue)
        BY <3>1, <3>3
      <4>. HIDE DEF again
      <4>. QED  BY <1>2, <3>2, <4>0, <4>1, <4>2, EndPassThreads
    <3>4. CASE a # "adv"
      BY <1>2, <2>1, <3>1, <3>2, <3>4, LeaveThreads
    <3>. QED  BY <3>3, <3>4
  <2>2. CASE FailAgain(a, "fail", o)
    BY <1>1, <2>2, FailAgainThreads
  <2>3. CASE Leave(a, restored, tracked) /\ UNCHANGED parked
    BY <1>2, <2>3, LeaveThreads
  <2>. QED  BY <2>1, <2>2, <2>3 DEF FailSettled
<1>. QED  BY <1>3, <1>4 DEF durable, world, DurableOK, WorldOK

-----------------------------------------------------------------------------
(* The forward pass. *)

\* A read that goes on: the advancer takes hold of what getSaga found.
LEMMA LoadedThreads ==
  ASSUME IInv, NEW l \in {"status", "wsync"},
         Memory(Loaded.h, tracked, [ref EXCEPT !["adv"] = Loaded.o]),
         pc' = [pc EXCEPT !["adv"] = l], UNCHANGED <<parked, tx, claim, queue>>
  PROVE  ThreadsOK'
<1>. DEFINE r == [ref EXCEPT !["adv"] = Loaded.o]
<1>1. Loaded.o \in Objs /\ Loaded.h \in [Objs -> Copy]
  BY LoadedType DEF IInv, ThreadsOK, DurableOK
<1>2. r \in [Thread -> Objs \cup {NoObj}] /\ tracked \in Objs \cup {NoObj}
  BY <1>1 DEF IInv, ThreadsOK, ControlOK, Thread
<1>3. heap' \in [Objs -> Copy] /\ tracked' = tracked /\ ref' = r
  BY <1>1, <1>2, MemoryType
<1>. QED  BY <1>1, <1>2, <1>3
          DEF IInv, ThreadsOK, ControlOK, RefOK, StepOK, ReopenOK, Label, Holding, Thread

LEMMA LoadPassInv == ASSUME IInv, LoadPass PROVE IInv'
<1>1. Rewarmed \in Copy
  BY LoadedType DEF IInv, ThreadsOK, DurableOK
<1>2. /\ cache' = Rewarmed \/ cache' = cache
      /\ UNCHANGED spent \/ Spend("db")
      /\ UNCHANGED <<durable, up, out, todo, late, eff>>
  BY DEF LoadPass
<1>3. ThreadsOK'
  <2>1. CASE Stay("adv")
    BY <2>1, StayThreads DEF Thread, IInv
  <2>2. CASE /\ Memory(Loaded.h, tracked, [ref EXCEPT !["adv"] = Loaded.o])
             /\ pc' = [pc EXCEPT !["adv"] = "status"]
             /\ UNCHANGED <<parked, tx, claim, queue>>
    BY <2>2, LoadedThreads
  <2>. QED  BY <2>1, <2>2 DEF LoadPass
<1>. QED  BY <1>1, <1>2, <1>3 DEF IInv, durable, DurableOK, WorldOK, Spend

LEMMA ReadStatusInv == ASSUME IInv, ReadStatus PROVE IInv'
<1>1. me \in Objs
  BY DEF ReadStatus, IInv, ThreadsOK, RefOK, Holding, me, Thread
<1>2. /\ UNCHANGED spent \/ Spend("db")
      /\ UNCHANGED <<durable, cache, up, out, todo, late, eff>>
  BY DEF ReadStatus
<1>3. ThreadsOK'
  <2>1. CASE Stay("adv")
    BY <2>1, StayThreads DEF Thread, IInv
  <2>2. CASE StopTracking("adv")
    BY <2>2, StopTrackingThreads DEF Thread, IInv
  <2>3. CASE CheckTimeout("adv", me)
    BY <1>1, <2>3, CheckTimeoutThreads DEF Thread, IInv
  <2>4. CASE Request("adv", "open", [heap EXCEPT ![me].status = "RUNNING"], me)
    <3>1. [heap EXCEPT ![me].status = "RUNNING"] \in [Objs -> Copy]
      BY <1>1 DEF IInv, ThreadsOK, ControlOK, Copy, Status
    <3>. QED  BY <1>1, <2>4, <3>1, RequestThreads DEF IInv, Thread, Kind
  <2>. QED  BY <2>1, <2>2, <2>3, <2>4 DEF ReadStatus
<1>. QED  BY <1>2, <1>3 DEF IInv, durable, DurableOK, WorldOK, Spend

LEMMA ExecuteInv == ASSUME IInv, Execute PROVE IInv'
<1>1. /\ out' \in Outcome
      /\ eff' = eff \/ eff' = [eff EXCEPT ![heap[me].cur] = "present"]
      /\ pc' = [pc EXCEPT !["adv"] = "settle"]
      /\ UNCHANGED <<durable, cache, memory, parked, tx, claim, queue, up, todo, late, spent>>
  BY DEF Execute, Outcome
<1>2. WorldOK'
  BY <1>1 DEF IInv, WorldOK
<1>3. ThreadsOK'
  BY <1>1 DEF Execute, IInv, ThreadsOK, ControlOK, RefOK, StepOK, ReopenOK, memory, me,
              Label, Holding, Thread
<1>. QED  BY <1>1, <1>2, <1>3 DEF IInv, durable, DurableOK

\* The answer moves the copy to the next step only when there is one.
LEMMA SettleInv == ASSUME IInv, Settle PROVE IInv'
<1>. DEFINE i == heap[me].cur
            h == [heap EXCEPT ![me].res[i] = out]
            k == IF heap[me].armed THEN "repoll" ELSE "rearm"
            waits == [h EXCEPT ![me].armed = TRUE]
            retries == [h EXCEPT ![me].retry = @ + 1, ![me].armed = TRUE]
            advances == [h EXCEPT ![me].cur = i + 1, ![me].retry = 0, ![me].armed = FALSE]
<1>1. /\ me \in Objs /\ i < NSteps /\ heap \in [Objs -> Copy] /\ out \in Outcome
      /\ NSteps \in Nat /\ i \in 0 .. NSteps
  BY StepsAssumption
     DEF Settle, IInv, WorldOK, ThreadsOK, ControlOK, RefOK, StepOK, Holding, me, Thread, Copy
<1>2. h \in [Objs -> Copy] /\ h[me].cur = i /\ h[me].retry = heap[me].retry
  <2>1. [heap[me] EXCEPT !.res = [@ EXCEPT ![i] = out]] \in Copy
    BY <1>1 DEF Copy
  <2>. QED  BY <1>1, <2>1
<1>. HIDE DEF h
<1>3. waits \in [Objs -> Copy]
  BY <1>1, <1>2 DEF Copy
<1>4. MayRetry(me) => retries \in [Objs -> Copy]
  <2>. SUFFICES ASSUME MayRetry(me) PROVE retries \in [Objs -> Copy]
    OBVIOUS
  <2>. DEFINE once == [h EXCEPT ![me].retry = @ + 1]
  <2>1. h[me].retry + 1 \in 0 .. MaxRetries
    BY <1>1, <1>2, StepsAssumption DEF MayRetry, Copy
  <2>2. once \in [Objs -> Copy]
    BY <1>1, <1>2, <2>1 DEF Copy
  <2>3. retries = [once EXCEPT ![me].armed = TRUE]
    OBVIOUS
  <2>. HIDE DEF once, retries
  <2>. QED  BY <1>1, <2>2, <2>3 DEF Copy
<1>5. advances \in [Objs -> Copy]
  <2>. DEFINE once == [h EXCEPT ![me].cur = i + 1]
  <2>. DEFINE twice == [once EXCEPT ![me].retry = 0]
  <2>1. i + 1 \in 0 .. NSteps /\ 0 \in 0 .. MaxRetries
    BY <1>1, StepsAssumption
  <2>2. once \in [Objs -> Copy]
    BY <1>1, <1>2, <2>1 DEF Copy
  <2>. HIDE DEF once
  <2>3. twice \in [Objs -> Copy]
    BY <1>1, <2>1, <2>2 DEF Copy
  <2>4. advances = [twice EXCEPT ![me].armed = FALSE]
    BY DEF once
  <2>. HIDE DEF twice, advances
  <2>. QED  BY <1>1, <2>3, <2>4 DEF Copy
<1>6. /\ \/ Request("adv", k, waits, me)
         \/ MayRetry(me) /\ Request("adv", "retry", retries, me)
         \/ Request("adv", "exhausted", h, me)
         \/ Request("adv", "advance", advances, me)
      /\ out' = "none"
      /\ UNCHANGED <<durable, cache, up, todo, late, eff, spent>>
  BY DEF Settle, h
<1>. HIDE DEF waits, retries, advances
<1>7. ThreadsOK'
  <2>1. ThreadsOK /\ "adv" \in Thread /\ k \in Kind /\ k # "reopen"
    BY DEF IInv, Thread, Kind
  <2>. HIDE DEF k
  <2>2. CASE Request("adv", k, waits, me)
    BY <1>1, <1>3, <2>1, <2>2, RequestThreads
  <2>3. CASE MayRetry(me) /\ Request("adv", "retry", retries, me)
    BY <1>1, <1>4, <2>1, <2>3, RequestThreads DEF Kind
  <2>4. CASE Request("adv", "exhausted", h, me)
    BY <1>1, <1>2, <2>1, <2>4, RequestThreads DEF Kind
  <2>5. CASE Request("adv", "advance", advances, me)
    BY <1>1, <1>5, <2>1, <2>5, RequestThreads DEF Kind
  <2>. QED  BY <1>6, <2>2, <2>3, <2>4, <2>5
<1>. QED  BY <1>6, <1>7 DEF IInv, durable, DurableOK, WorldOK, Outcome

\* enterCompensation's change is one of a SagaInstance.
LEMMA CompensatingType ==
  ASSUME NEW h \in [Objs -> Copy], NEW o \in Objs
  PROVE  Compensating(h, o) \in [Objs -> Copy]
<1>. DEFINE once == [h EXCEPT ![o].status = "COMPENSATING"]
<1>1. once \in [Objs -> Copy]
  BY DEF Copy, Status
<1>2. Compensating(h, o) = [once EXCEPT ![o].armed = FALSE]
  BY DEF Compensating
<1>. HIDE DEF once
<1>. QED  BY <1>1, <1>2 DEF Copy

LEMMA PassWroteInv == ASSUME IInv, PassWrote PROVE IInv'
<1>1. me \in Objs /\ heap \in [Objs -> Copy] /\ "adv" \in Thread
  <2>1. tx["adv"].phase # "none"
    BY DEF PassWrote, Settled
  <2>. QED  BY <2>1 DEF IInv, ThreadsOK, ControlOK, RefOK, me, Thread
<1>2. /\ ThreadsOK
      /\ tracked \in Objs \cup {NoObj}
      /\ queue \in SUBSET {"forward", "event", "walk"}
      /\ queue \cup {"walk"} \in SUBSET {"forward", "event", "walk"}
      /\ parked \in BOOLEAN
  BY DEF IInv, ThreadsOK, ControlOK
<1>3. UNCHANGED <<durable, cache, world>>
  BY DEF PassWrote
<1>4. ThreadsOK'
  <2>1. CASE /\ heap[me].cur < NSteps
             /\ pc' = [pc EXCEPT !["adv"] = "run"]
             /\ tx' = [tx EXCEPT !["adv"] = NoTx]
             /\ Settled("adv", {"open", "advance"}, "ok")
             /\ UNCHANGED <<memory, parked, claim, queue>>
    BY <1>1, <1>2, <2>1, BlankType
       DEF ThreadsOK, ControlOK, RefOK, StepOK, ReopenOK, memory, me, Label, Holding, NoTx
  <2>2. CASE Request("adv", "complete", [heap EXCEPT ![me].status = "COMPLETED"], me)
    <3>1. [heap EXCEPT ![me].status = "COMPLETED"] \in [Objs -> Copy]
      BY <1>1 DEF Copy, Status, Terminal
    <3>. QED  BY <1>1, <1>2, <2>2, <3>1, RequestThreads DEF Kind
  <2>3. CASE EndPass(TRUE, heap, tracked, queue) /\ UNCHANGED parked
    BY <1>1, <1>2, <2>3, EndPassThreads
  <2>4. CASE Request("adv", BeginKind(me), Compensating(heap, me), me)
    BY <1>1, <1>2, <2>4, CompensatingType, RequestThreads DEF Kind, BeginKind
  <2>5. CASE FailSaga("adv", "failstep", heap, me)
    BY <1>1, <1>2, <2>5, FailSagaThreads DEF SameStep
  <2>6. CASE EndPass(TRUE, heap, tracked, queue \cup {"walk"}) /\ UNCHANGED parked
    BY <1>1, <1>2, <2>6, EndPassThreads
  <2>7. CASE EndPass(TRUE, heap, NoObj, queue) /\ parked' = FALSE
    BY <1>1, <1>2, <2>7, EndPassThreads
  <2>. QED  BY <2>1, <2>2, <2>3, <2>4, <2>5, <2>6, <2>7 DEF PassWrote
<1>. QED  BY <1>3, <1>4 DEF IInv, durable, world, DurableOK, WorldOK

LEMMA PassFailedInv == ASSUME IInv, PassFailed PROVE IInv'
<1>1. me \in Objs /\ heap \in [Objs -> Copy] /\ "adv" \in Thread
  <2>1. tx["adv"].phase # "none"
    BY DEF PassFailed, Settled
  <2>. QED  BY <2>1 DEF IInv, ThreadsOK, ControlOK, RefOK, me, Thread
<1>2. /\ ThreadsOK
      /\ tracked \in Objs \cup {NoObj}
      /\ queue \in SUBSET {"forward", "event", "walk"}
      /\ queue \cup {"walk"} \in SUBSET {"forward", "event", "walk"}
      /\ parked \in BOOLEAN
  BY DEF IInv, ThreadsOK, ControlOK
<1>3. UNCHANGED <<durable, cache, world>>
  BY DEF PassFailed
<1>4. ThreadsOK'
  <2>1. CASE Stay("adv")
    BY <1>1, <1>2, <2>1, StayThreads
  <2>2. CASE FailSaga("adv", "fail", heap, me)
    BY <1>1, <1>2, <2>2, FailSagaThreads DEF SameStep
  <2>3. CASE Request("adv", "rearm2", heap, me)
    BY <1>1, <1>2, <2>3, RequestThreads DEF Kind
  <2>4. CASE EndPass(TRUE, [heap EXCEPT ![me].armed = FALSE], tracked, queue)
             /\ UNCHANGED parked
    <3>1. [heap EXCEPT ![me].armed = FALSE] \in [Objs -> Copy]
      BY <1>1 DEF Copy
    <3>. QED  BY <1>2, <2>4, <3>1, EndPassThreads
  <2>5. CASE EndPass(TRUE, heap, tracked, queue) /\ UNCHANGED parked
    BY <1>1, <1>2, <2>5, EndPassThreads
  <2>6. CASE EndPass(TRUE, heap, tracked, queue \cup {"walk"}) /\ UNCHANGED parked
    BY <1>1, <1>2, <2>6, EndPassThreads
  <2>. QED  BY <2>1, <2>2, <2>3, <2>4, <2>5, <2>6 DEF PassFailed
<1>. QED  BY <1>3, <1>4 DEF IInv, durable, world, DurableOK, WorldOK

LEMMA PassRefusedInv == ASSUME IInv, PassRefused PROVE IInv'
<1>1. ThreadsOK'
  BY StopTrackingThreads DEF PassRefused, IInv, Thread
<1>. QED  BY <1>1 DEF PassRefused, IInv, durable, world, DurableOK, WorldOK

-----------------------------------------------------------------------------
(* The compensation walk. *)

LEMMA MergedType ==
  ASSUME NEW h \in [Objs -> Copy], NEW o \in Objs, row \in Copy
  PROVE  Merged(h, o) \in [Objs -> Copy] /\ \A x \in Objs : Merged(h, o)[x].cur = h[x].cur
<1>. DEFINE c == [i \in Step |->
       IF row.comp[i] # "none" /\ (row.comp[i] = "succeeded" \/ h[o].comp[i] = "none")
         THEN row.comp[i] ELSE h[o].comp[i]]
<1>1. c \in [Step -> Outcome]
  BY DEF Copy
<1>2. Merged(h, o) = [h EXCEPT ![o].comp = c]
  BY DEF Merged
<1>. HIDE DEF c
<1>3. [h[o] EXCEPT !.comp = c] \in Copy
  BY <1>1 DEF Copy
<1>4. Merged(h, o) = [h EXCEPT ![o] = [h[o] EXCEPT !.comp = c]]
  BY <1>2
<1>5. [h[o] EXCEPT !.comp = c].cur = h[o].cur
  BY DEF Copy
<1>. QED  BY <1>3, <1>4, <1>5

LEMMA WalkStatusInv == ASSUME IInv, WalkStatus PROVE IInv'
<1>1. /\ UNCHANGED spent \/ Spend("db")
      /\ UNCHANGED <<durable, cache, up, out, todo, late, eff>>
  BY DEF WalkStatus
<1>2. ThreadsOK'
  <2>1. CASE Stay("adv")
    BY <2>1, StayThreads DEF IInv, Thread
  <2>2. CASE pc' = [pc EXCEPT !["adv"] = "wload"] /\ UNCHANGED <<memory, parked, tx, claim, queue>>
    BY <2>2 DEF IInv, ThreadsOK, ControlOK, RefOK, StepOK, ReopenOK, memory, me, Label,
                Holding, Thread
  <2>. QED  BY <2>1, <2>2 DEF WalkStatus
<1>. QED  BY <1>1, <1>2 DEF IInv, durable, DurableOK, WorldOK, Spend

LEMMA WalkLoadInv == ASSUME IInv, WalkLoad PROVE IInv'
<1>1. Rewarmed \in Copy
  BY LoadedType DEF IInv, ThreadsOK, DurableOK
<1>2. /\ cache' = Rewarmed \/ cache' = cache
      /\ UNCHANGED spent \/ Spend("db")
      /\ UNCHANGED <<durable, up, out, todo, late, eff>>
  BY DEF WalkLoad
<1>3. ThreadsOK'
  <2>1. CASE Stay("adv")
    BY <2>1, StayThreads DEF Thread, IInv
  <2>2. CASE /\ Memory(Loaded.h, tracked, [ref EXCEPT !["adv"] = Loaded.o])
             /\ pc' = [pc EXCEPT !["adv"] = "wsync"]
             /\ UNCHANGED <<parked, tx, claim, queue>>
    BY <2>2, LoadedThreads
  <2>. QED  BY <2>1, <2>2 DEF WalkLoad
<1>. QED  BY <1>1, <1>2, <1>3 DEF IInv, durable, DurableOK, WorldOK, Spend

LEMMA WalkSyncInv == ASSUME IInv, WalkSync PROVE IInv'
<1>1. me \in Objs /\ heap \in [Objs -> Copy] /\ row \in Copy /\ ThreadsOK /\ "adv" \in Thread
  BY DEF WalkSync, IInv, DurableOK, ThreadsOK, ControlOK, RefOK, Holding, me, Thread
<1>2. Merged(heap, me) \in [Objs -> Copy]
  BY <1>1, MergedType
<1>3. /\ todo' \subseteq Step
      /\ UNCHANGED spent \/ Spend("db")
      /\ UNCHANGED <<durable, cache, up, out, late, eff>>
  BY DEF WalkSync, Eligible, IInv, WorldOK
<1>4. ThreadsOK'
  <2>1. CASE Stay("adv")
    BY <1>1, <2>1, StayThreads
  <2>2. CASE Request("adv", "wbegin", Compensating(Merged(heap, me), me), me)
    BY <1>1, <1>2, <2>2, CompensatingType, RequestThreads DEF Kind
  <2>3. CASE /\ heap' = Merged(heap, me)
             /\ pc' = [pc EXCEPT !["adv"] = "wundo"]
             /\ UNCHANGED <<tracked, ref, parked, tx, claim, queue>>
    BY <1>1, <1>2, <2>3
       DEF ThreadsOK, ControlOK, RefOK, StepOK, ReopenOK, me, Label, Holding
  <2>. QED  BY <2>1, <2>2, <2>3 DEF WalkSync
<1>. QED  BY <1>3, <1>4 DEF IInv, durable, DurableOK, WorldOK, Spend

LEMMA UndoInv == ASSUME IInv, Undo PROVE IInv'
<1>1. /\ out' \in Outcome
      /\ eff' \in [Step -> {"absent", "present", "undone"}]
      /\ pc' = [pc EXCEPT !["adv"] = "wrecord"]
      /\ UNCHANGED <<durable, cache, memory, parked, tx, claim, queue, up, todo, late, spent>>
  BY DEF Undo, Outcome, IInv, WorldOK
<1>2. WorldOK'
  BY <1>1 DEF IInv, WorldOK
<1>3. ThreadsOK'
  BY <1>1 DEF Undo, IInv, ThreadsOK, ControlOK, RefOK, StepOK, ReopenOK, memory, me,
              Label, Holding, Thread
<1>. QED  BY <1>1, <1>2, <1>3 DEF IInv, durable, DurableOK

LEMMA WalkRecordInv == ASSUME IInv, WalkRecord PROVE IInv'
<1>. DEFINE i == Last(NextUndo(heap, me))
            h == [heap EXCEPT ![me].comp[i] = out]
<1>1. /\ me \in Objs /\ heap \in [Objs -> Copy] /\ row \in Copy /\ out \in Outcome
      /\ ThreadsOK /\ "adv" \in Thread /\ tracked \in Objs \cup {NoObj} /\ parked \in BOOLEAN
  BY DEF WalkRecord, IInv, DurableOK, WorldOK, ThreadsOK, ControlOK, RefOK, Holding, me, Thread
<1>. HIDE DEF i
<1>2. h \in [Objs -> Copy]
  <2>1. [heap[me] EXCEPT !.comp = [@ EXCEPT ![i] = out]] \in Copy
    BY <1>1 DEF Copy
  <2>. QED  BY <1>1, <2>1
<1>3. /\ todo' = todo \ {i} /\ out' = "none"
      /\ UNCHANGED spent \/ Spend("db")
      /\ UNCHANGED <<durable, cache, up, late, eff>>
      /\ \/ Leave("adv", h, tracked) /\ UNCHANGED parked
         \/ Request("adv", "wprogress", Merged(h, me), me)
  BY DEF WalkRecord, i
<1>. HIDE DEF h
<1>4. ThreadsOK'
  <2>1. CASE Leave("adv", h, tracked) /\ UNCHANGED parked
    BY <1>1, <1>2, <2>1, LeaveThreads
  <2>2. CASE Request("adv", "wprogress", Merged(h, me), me)
    BY <1>1, <1>2, <2>2, MergedType, RequestThreads DEF Kind
  <2>. QED  BY <1>3, <2>1, <2>2
<1>. QED  BY <1>3, <1>4 DEF IInv, durable, DurableOK, WorldOK, Spend, Outcome

\* At "wundo" the copy is held although the label is reached without a write.
LEMMA WalkFinishInv == ASSUME IInv, WalkFinish PROVE IInv'
<1>1. me \in Objs /\ heap \in [Objs -> Copy] /\ ThreadsOK /\ "adv" \in Thread
  BY DEF WalkFinish, IInv, ThreadsOK, ControlOK, RefOK, Holding, me, Thread
<1>2. todo' = {} /\ UNCHANGED <<durable, cache, up, out, late, eff, spent>>
  BY DEF WalkFinish
<1>3. ThreadsOK'
  <2>1. CASE Stay("adv")
    BY <1>1, <2>1, StayThreads
  <2>2. CASE Request("adv", "wdone", [heap EXCEPT ![me].status = "COMPENSATED"], me)
    <3>1. [heap EXCEPT ![me].status = "COMPENSATED"] \in [Objs -> Copy]
      BY <1>1 DEF Copy, Status, Terminal
    <3>. QED  BY <1>1, <2>2, <3>1, RequestThreads DEF Kind
  <2>. QED  BY <2>1, <2>2 DEF WalkFinish
<1>. QED  BY <1>2, <1>3 DEF IInv, durable, DurableOK, WorldOK

LEMMA WalkSettledInv == ASSUME IInv, WalkSettled PROVE IInv'
<1>1. me \in Objs /\ ThreadsOK /\ "adv" \in Thread
  <2>1. tx["adv"].phase # "none"
    BY DEF WalkSettled, Settled
  <2>. QED  BY <2>1 DEF IInv, ThreadsOK, RefOK, me, Thread
<1>2. todo' \subseteq Step /\ UNCHANGED <<durable, cache, up, out, late, eff, spent>>
  BY DEF WalkSettled, Eligible, IInv, WorldOK
<1>3. ThreadsOK'
  <2>1. CASE /\ pc' = [pc EXCEPT !["adv"] = "wundo"]
             /\ tx' = [tx EXCEPT !["adv"] = NoTx]
             /\ UNCHANGED <<memory, parked, claim, queue>>
    BY <1>1, <2>1, BlankType
       DEF ThreadsOK, ControlOK, RefOK, StepOK, ReopenOK, memory, me, Label, Holding, NoTx
  <2>2. CASE StopTracking("adv")
    BY <1>1, <2>2, StopTrackingThreads
  <2>3. CASE Stay("adv")
    BY <1>1, <2>3, StayThreads
  <2>. QED  BY <2>1, <2>2, <2>3 DEF WalkSettled
<1>. QED  BY <1>2, <1>3 DEF IInv, durable, DurableOK, WorldOK

-----------------------------------------------------------------------------
(* Operators, worker events, restarts, the clock. *)

LEMMA ContinueInv == ASSUME IInv, ContinueSaga \/ WorkerEvent \/ RetryScan PROVE IInv'
<1>1. Rewarmed \in Copy
  BY LoadedType DEF IInv, ThreadsOK, DurableOK
<1>2. /\ cache' = Rewarmed \/ cache' = cache
      /\ parked' = FALSE \/ parked' = parked
      /\ \E trigger \in {"forward", "event"} : queue' = queue \cup {trigger}
      /\ UNCHANGED spent \/ (\E what \in {"op", "event"} : Spend(what))
      /\ UNCHANGED <<durable, memory, pc, tx, claim, up, out, todo, late, eff>>
  BY DEF ContinueSaga, WorkerEvent, RetryScan, world
<1>3. ThreadsOK'
  BY <1>2 DEF IInv, ThreadsOK, ControlOK, RefOK, StepOK, ReopenOK, memory, me
<1>. QED  BY <1>1, <1>2, <1>3 DEF IInv, durable, DurableOK, WorldOK, Spend

LEMMA CompensateInv == ASSUME IInv, CompensateSaga \/ CompensateSettled PROVE IInv'
<1>1. CASE CompensateSaga
  <2>. DEFINE h == Loaded.h
              o == Loaded.o
              k == IF h[o].status = "FAILED" THEN "reopen" ELSE "redrive"
  <2>1. /\ o \in Objs /\ h \in [Objs -> Copy] /\ Rewarmed \in Copy
        /\ ref["adv"] \in Objs => h[me] = heap[me]
    BY LoadedType DEF IInv, ThreadsOK, DurableOK, me, Thread
  <2>2. /\ Request("op", k, Compensating(h, o), o) /\ k \in Kind
        /\ cache' = Rewarmed /\ Spend("op")
        /\ UNCHANGED <<durable, up, out, todo, late, eff>>
    BY <1>1 DEF CompensateSaga, Kind
  <2>. HIDE DEF k, h, o
  <2>3. Compensating(h, o) \in [Objs -> Copy] /\ SameStep(Compensating(h, o))
    <3>1. ref["adv"] \in Objs => Compensating(h, o)[me].cur = h[me].cur
      BY <2>1 DEF Compensating, me
    <3>. QED  BY <2>1, <3>1, CompensatingType DEF SameStep
  <2>4. ThreadsOK'
    BY <2>1, <2>2, <2>3, RequestThreads DEF IInv, Thread
  <2>5. spent' \in [Fault -> Nat]
    BY <2>2, SpendType DEF IInv, WorldOK
  <2>. QED  BY <2>1, <2>2, <2>4, <2>5 DEF IInv, durable, DurableOK, WorldOK
<1>2. CASE CompensateSettled
  <2>1. /\ Memory(heap, tracked, [ref EXCEPT !["op"] = NoObj])
        /\ queue' = queue \cup {"walk"} \/ queue' = queue
        /\ tx' = [tx EXCEPT !["op"] = NoTx] /\ pc' = [pc EXCEPT !["op"] = "idle"]
        /\ UNCHANGED <<claim, parked>> /\ UNCHANGED <<durable, cache, world>>
    BY <1>2 DEF CompensateSettled
  <2>2. /\ heap \in [Objs -> Copy] /\ SameStep(heap) /\ parked' \in BOOLEAN
        /\ queue' \subseteq {"forward", "event", "walk"} /\ tracked \in Objs \cup {NoObj}
    BY <2>1 DEF IInv, ThreadsOK, ControlOK, SameStep
  <2>3. ThreadsOK'
    BY <2>1, <2>2, ReturnThreads DEF IInv, Thread
  <2>. QED  BY <2>1, <2>3 DEF IInv, durable, world, DurableOK, WorldOK
<1>. QED  BY <1>1, <1>2

\* A process that is gone holds nothing.
LEMMA ProcessGoneThreads == ASSUME ThreadsOK, ProcessGone PROVE ThreadsOK'
<1>1. ControlOK'
  BY BlankType DEF ProcessGone, ThreadsOK, ControlOK, NoClaim, Direction, Label
<1>2. RefOK' /\ StepOK' /\ ReopenOK'
  BY DEF ProcessGone, RefOK, StepOK, ReopenOK, Holding, NoTx, Thread
<1>. QED  BY <1>1, <1>2 DEF ThreadsOK

LEMMA CrashInv == ASSUME IInv, Crash \/ ShutdownSettled PROVE IInv'
<1>1. /\ ProcessGone
      /\ UNCHANGED spent \/ Spend("crash")
      /\ UNCHANGED <<durable, cache, late, eff>>
  BY DEF Crash, ShutdownSettled
<1>2. WorldOK'
  <2>1. up' \in BOOLEAN /\ out' \in Outcome /\ todo' \subseteq Step
    BY <1>1 DEF ProcessGone, Outcome
  <2>2. spent' \in [Fault -> Nat]
    BY <1>1 DEF IInv, WorldOK, Spend
  <2>. QED  BY <1>1, <2>1, <2>2 DEF IInv, WorldOK
<1>3. ThreadsOK'
  BY <1>1, ProcessGoneThreads DEF IInv
<1>. QED  BY <1>1, <1>2, <1>3 DEF IInv, durable, DurableOK

LEMMA BootInv == ASSUME IInv, Boot PROVE IInv'
<1>1. /\ up' = TRUE /\ late' = late \ {"parked"}
      /\ UNCHANGED spent \/ Spend("db")
      /\ UNCHANGED <<durable, cache, claim, out, todo, eff>>
  BY DEF Boot
<1>2. ThreadsOK'
  <2>1. CASE UNCHANGED <<heap, tracked, ref, parked, pc, tx, queue>>
    BY <1>1, <2>1 DEF IInv, ThreadsOK, ControlOK, RefOK, StepOK, ReopenOK, me
  <2>2. CASE ~UNCHANGED <<heap, tracked, ref, parked, pc, tx, queue>>
    <3>. DEFINE o == Fresh
                compensating == row.status = "COMPENSATING"
                owned == ~compensating /\ row.armed
                park  == ~owned /\ row.cur >= Pivot
                warm  == ~compensating /\ ~park
                write == NewTx("rewarm", heap', o, {})
    <3>1. /\ tracked' = o
          /\ heap' = [heap EXCEPT ![o] = row]
          /\ parked' \in BOOLEAN
          /\ queue' \subseteq {"forward", "event", "walk"}
          /\ \/ /\ ref' = [ref EXCEPT !["boot"] = o]
                /\ pc' = [pc EXCEPT !["boot"] = "write"]
                /\ tx' = [tx EXCEPT !["boot"] = write]
             \/ /\ ref' = [ref EXCEPT !["boot"] = NoObj]
                /\ pc' = [pc EXCEPT !["boot"] = "idle"]
                /\ tx' = [tx EXCEPT !["boot"] = NoTx]
      BY <2>2 DEF Boot, BootQueue
    <3>2. /\ o \in Objs /\ row \in Copy /\ heap[o].status \in Status
          /\ ref["adv"] \in Objs => heap[me].cur = heap'[me].cur
      BY <3>1, FreshType DEF IInv, DurableOK, ThreadsOK, ControlOK, Copy, me, Thread
    <3>3. heap' \in [Objs -> Copy] /\ write \in Tx /\ write.kind = "rewarm"
      BY <3>1, <3>2, BlankType DEF IInv, ThreadsOK, ControlOK, NewTx, Tx, Phase, Kind
    <3>. HIDE DEF o, write
    <3>4. ControlOK'
      BY <1>1, <3>1, <3>2, <3>3, BlankType DEF IInv, ThreadsOK, ControlOK, Label, Thread
    <3>5. RefOK' /\ ReopenOK'
      BY <3>1, <3>2, <3>3
         DEF IInv, ThreadsOK, ControlOK, RefOK, ReopenOK, Holding, NoTx, Thread
    <3>6. StepOK'
      BY <3>1, <3>2 DEF IInv, ThreadsOK, ControlOK, RefOK, StepOK, Holding, me, Thread
    <3>. QED  BY <3>4, <3>5, <3>6 DEF ThreadsOK
  <2>. QED  BY <2>1, <2>2
<1>. QED  BY <1>1, <1>2 DEF IInv, durable, DurableOK, WorldOK, Spend

LEMMA RewarmInv == ASSUME IInv, RewarmSettled PROVE IInv'
<1>1. ThreadsOK'
  BY StayThreads DEF RewarmSettled, IInv, Thread
<1>. QED  BY <1>1 DEF RewarmSettled, IInv, durable, world, DurableOK, WorldOK

LEMMA ShutdownInv == ASSUME IInv, Shutdown PROVE IInv'
<1>. DEFINE h == [heap EXCEPT ![tracked].status = "PENDING"]
<1>1. h \in [Objs -> Copy] /\ SameStep(h) /\ tracked \in Objs
  BY DEF Shutdown, IInv, ThreadsOK, ControlOK, Copy, Status, SameStep, me
<1>2. ThreadsOK'
  BY <1>1, RequestThreads DEF Shutdown, IInv, Thread, Kind
<1>3. spent' \in [Fault -> Nat]
  BY SpendType DEF Shutdown, IInv, WorldOK
<1>. QED  BY <1>2, <1>3 DEF Shutdown, IInv, durable, DurableOK, WorldOK

LEMMA ClockInv ==
  ASSUME IInv, CacheExpires \/ \E horizon \in Horizon : Tick(horizon)
  PROVE  IInv'
<1>1. /\ cache' \in {cache, Blank}
      /\ UNCHANGED spent \/ Spend("cache")
      /\ late' \subseteq Horizon
      /\ UNCHANGED <<durable, control, up, out, todo, eff>>
  BY DEF CacheExpires, Tick, IInv, WorldOK
<1>2. ThreadsOK'
  BY <1>1 DEF IInv, ThreadsOK, ControlOK, RefOK, StepOK, ReopenOK, control, me
<1>. QED  BY <1>1, <1>2, BlankType DEF IInv, durable, DurableOK, WorldOK, Spend

-----------------------------------------------------------------------------
(* The theorems. *)

LEMMA InitInv == ASSUME Init PROVE IInv
<1>1. DurableOK /\ cache \in Copy
  BY BlankType DEF Init, DurableOK
<1>2. WorldOK
  BY DEF Init, WorldOK, Outcome
<1>3. ControlOK
  BY BlankType DEF Init, ControlOK, NoClaim, Direction, Label
<1>4. RefOK /\ StepOK /\ ReopenOK
  BY DEF Init, RefOK, StepOK, ReopenOK, Holding, NoTx, Thread
<1>. QED  BY <1>1, <1>2, <1>3, <1>4 DEF IInv, ThreadsOK

LEMMA NextInv == ASSUME IInv, [Next]_vars PROVE IInv'
<1>0. {"adv", "chk", "op", "boot", "stop"} = Thread
  BY DEF Thread
<1>1. CASE StartSaga \/ StartSettled
  BY <1>1, StartInv
<1>2. ASSUME NEW a \in Thread, Write(a) \/ Liveness(a) \/ FailSettled(a)
      PROVE  IInv'
  BY <1>2, WriteInv, LivenessInv, FailSettledInv
<1>3. CASE Advance
  BY <1>0, <1>2, <1>3, LoadPassInv, ReadStatusInv, ExecuteInv, SettleInv, PassWroteInv,
     PassFailedInv, PassRefusedInv, WalkStatusInv, WalkLoadInv, WalkSyncInv, UndoInv,
     WalkRecordInv, WalkFinishInv, WalkSettledInv DEF Advance
<1>4. CASE Check
  BY <1>0, <1>2, <1>4, CheckerTickInv DEF Check
<1>5. CASE Dispatch
  BY <1>5, DispatchInv
<1>6. CASE Operate
  BY <1>0, <1>2, <1>6, StartInv, CompensateInv DEF Operate
<1>7. CASE Restart
  BY <1>0, <1>2, <1>7, BootInv, RewarmInv, CrashInv DEF Restart
<1>8. CASE ContinueSaga \/ WorkerEvent \/ RetryScan
  BY <1>8, ContinueInv
<1>9. CASE CompensateSaga
  BY <1>9, CompensateInv
<1>10. CASE Crash
  BY <1>10, CrashInv
<1>11. CASE Shutdown
  BY <1>11, ShutdownInv
<1>12. CASE CacheExpires \/ \E horizon \in Horizon : Tick(horizon)
  BY <1>12, ClockInv
<1>13. CASE UNCHANGED vars
  BY <1>13 DEF vars, IInv, DurableOK, WorldOK, ThreadsOK, ControlOK, RefOK, StepOK, ReopenOK, me
<1>. QED  BY <1>1, <1>3, <1>4, <1>5, <1>6, <1>7, <1>8, <1>9, <1>10, <1>11, <1>12, <1>13 DEF Next

THEOREM Invariance == Spec => []IInv
<1>1. Init => IInv
  BY InitInv
<1>2. IInv /\ [Next]_vars => IInv'
  BY NextInv
<1>. QED  BY <1>1, <1>2, PTL DEF Spec

\* Type correctness: whatever the interleaving, the crash and the loss, every
\* column, copy and outstanding write is one the code can hold, the retry count
\* never passes the definition's budget, and no thread works on an object that
\* has been collected.
THEOREM TypeCorrect == Spec => []TypeOK
<1>1. IInv => TypeOK
  BY DEF IInv, ThreadsOK, TypeOK
<1>. QED  BY <1>1, Invariance, PTL

\* The row, and what is remembered of it, moves in a commit and nowhere else.
LEMMA RowMoves ==
  ASSUME [Next]_vars
  PROVE  UNCHANGED <<row, recorded>> \/ \E a \in Thread : Commit(a)
<1>1. ASSUME NEW a \in Thread, Write(a)
      PROVE  UNCHANGED <<row, recorded>> \/ Commit(a)
  BY <1>1 DEF Write, Capture, Refuse, DbError, durable
<1>2. ASSUME NEW a \in Thread, Liveness(a) \/ FailSettled(a)
      PROVE  UNCHANGED <<row, recorded>>
  BY <1>2 DEF Liveness, FailSettled, durable
<1>3. CASE Advance
  <2>1. CASE Write("adv")
    BY <1>1, <2>1 DEF Thread
  <2>2. CASE Liveness("adv") \/ FailSettled("adv")
    BY <1>2, <2>2 DEF Thread
  <2>3. CASE LoadPass \/ ReadStatus \/ Execute \/ Settle \/ PassWrote \/ PassFailed \/ PassRefused
    BY <2>3 DEF LoadPass, ReadStatus, Execute, Settle, PassWrote, PassFailed, PassRefused, durable
  <2>4. CASE WalkStatus \/ WalkLoad \/ WalkSync \/ Undo \/ WalkRecord \/ WalkFinish \/ WalkSettled
    BY <2>4 DEF WalkStatus, WalkLoad, WalkSync, Undo, WalkRecord, WalkFinish, WalkSettled, durable
  <2>. QED  BY <1>3, <2>1, <2>2, <2>3, <2>4 DEF Advance
<1>4. CASE Check
  BY <1>1, <1>2, <1>4 DEF Check, CheckerTick, durable, Thread
<1>5. CASE Dispatch
  BY <1>5 DEF Dispatch, DispatchForward, DispatchWalk, durable
<1>6. CASE Operate
  BY <1>1, <1>6 DEF Operate, StartSettled, CompensateSettled, durable, Thread
<1>7. CASE Restart
  <2>1. CASE Write("boot") \/ Write("stop")
    BY <1>1, <2>1 DEF Thread
  <2>2. CASE Boot \/ RewarmSettled \/ ShutdownSettled
    BY <2>2 DEF Boot, RewarmSettled, ShutdownSettled, durable
  <2>. QED  BY <1>7, <2>1, <2>2 DEF Restart
<1>8. CASE \/ StartSaga \/ ContinueSaga \/ CompensateSaga \/ WorkerEvent \/ RetryScan
           \/ Crash \/ Shutdown \/ CacheExpires \/ \E horizon \in Horizon : Tick(horizon)
  BY <1>8 DEF StartSaga, ContinueSaga, CompensateSaga, WorkerEvent, RetryScan, Crash,
              Shutdown, CacheExpires, Tick, durable
<1>9. CASE UNCHANGED vars
  BY <1>9 DEF vars
<1>. QED  BY <1>3, <1>4, <1>5, <1>6, <1>7, <1>8, <1>9 DEF Next

\* Endings are final: whichever writes are outstanding when the row ends, and in
\* whatever order they are served, none moves it but a turning back that asked to
\* replace FAILED, an operator's or a pass's.  Every commit asks writeSagaState's
\* compare-and-swap, and only these two threads ever ask it to expect FAILED.
THEOREM EndingsFinal == Spec => EndingsAreFinal
<1>. DEFINE Final == row.status \in Terminal =>
                       row' = row \/ (row.status = "FAILED" /\ \E a \in {"op", "adv"} :
                                                               tx[a].kind = "reopen")
<1>1. ASSUME IInv, [Next]_vars PROVE Final
  <2>1. ASSUME NEW a \in Thread, Commit(a), row.status \in Terminal
        PROVE  row.status = "FAILED" /\ a \in {"op", "adv"} /\ tx[a].kind = "reopen"
    <3>1. Admits(tx[a].kind, row.status)
      BY <2>1 DEF Commit
    <3>2. tx[a].kind = "reopen" /\ row.status = "FAILED"
      BY <2>1, <3>1 DEF Admits
    <3>3. a \in {"op", "adv"}
      BY <1>1, <3>2 DEF IInv, ThreadsOK, ReopenOK
    <3>. QED  BY <3>2, <3>3
  <2>. QED  BY <1>1, <2>1, RowMoves
<1>2. IInv /\ [Next]_vars => [Final]_vars
  BY <1>1
<1>. QED  BY <1>2, Invariance, PTL DEF Spec, EndingsAreFinal

-----------------------------------------------------------------------------
(***************************************************************************)
(* Who may be where in SagaEngine, for every value of the constants and    *)
(* whatever fails: which writes a thread asks for, whose claim covers what *)
(* the advancer does, and what a dead process leaves behind.  The lemmas   *)
(* on Request, Leave and EndPass say what each does to memory, so that the *)
(* later invariants do not look inside.                                    *)
(***************************************************************************)

\* The writes of a forward pass, of a walk, and of each thread.
PassKinds == {"open", "advance", "retry", "exhausted", "rearm", "rearm2", "repoll",
              "begin", "reopen", "failstep", "fail", "complete"}
WalkKinds == {"wbegin", "wprogress", "wdone"}
KindsOf(a) ==
  CASE a = "adv"  -> PassKinds \cup WalkKinds \cup {"timeout"}
    [] a = "chk"  -> {"timeout"}
    [] a = "op"   -> {"start", "reopen", "redrive"}
    [] a = "boot" -> {"rewarm"}
    [] a = "stop" -> {"handoff"}

\* A thread is at "write" exactly while it has one outstanding, of a kind it asks for.
Writing ==
  \A a \in Thread : /\ pc[a] = "write" <=> tx[a].phase # "none"
                    /\ tx[a].phase = "none" => tx[a] = NoTx
                    /\ tx[a].phase # "none" => tx[a].kind \in KindsOf(a)

\* Only the advancer runs a pass or a walk, only it and the checker decide.
Places == /\ \A a \in {"op", "boot", "stop"} : pc[a] \in {"idle", "write"}
          /\ pc["chk"] \in {"idle", "write", "liveness"}

\* The claim's direction covers what the advancer does.
PassLabels == {"load", "status", "run", "settle", "liveness"}
WalkLabels == {"wstatus", "wload", "wsync", "wundo", "wrecord"}
Claims ==
  /\ pc["adv"] = "idle" => claim = NoClaim
  /\ pc["adv"] \in PassLabels => claim.dir = "forward"
  /\ pc["adv"] \in WalkLabels => claim.dir = "compensation"
  /\ tx["adv"].kind \in PassKinds \cup {"timeout"} => claim.dir = "forward"
  /\ tx["adv"].kind \in WalkKinds => claim.dir = "compensation"

\* A thread holds a copy only where it works on one.
Released == \A a \in Thread : pc[a] \notin Holding => ref[a] = NoObj

\* A process that is down holds nothing.
Gone ==
  ~up => /\ tracked = NoObj /\ ~parked /\ claim = NoClaim /\ queue = {}
         /\ \A a \in Thread : pc[a] = "idle"

\* It went down by a crash or a drain; so did the one before the process that
\* parked the saga, or re-warms it, or drains.
Stopping == (~up \/ parked \/ pc["boot"] = "write" \/ pc["stop"] = "write") =>
              (spent["crash"] > 0 \/ spent["drain"] > 0)

\* The walk visits compensable steps only.
BelowPivot == \A i \in todo : i < Pivot

\* What the advancer's transaction has read is the step its copy is at.
SameStepSent == tx["adv"].phase = "sent" => tx["adv"].cols.cur = heap[me].cur

Order == Writing /\ Places /\ Claims /\ Released /\ Gone /\ Stopping /\ BelowPivot
         /\ SameStepSent
CInv == IInv /\ Order

-----------------------------------------------------------------------------
(* What a request, and the end of a turn, do to memory. *)

\* A request's transaction.
LEMMA NewTxFields ==
  ASSUME NEW k, NEW h, NEW o, NEW line
  PROVE  /\ NewTx(k, h, o, line).phase = "begun"
         /\ NewTx(k, h, o, line).kind = k
         /\ NewTx(k, h, o, line).copy = h[o]
         /\ NewTx(k, h, o, line).cols = Blank
         /\ NewTx(k, h, o, line).was = heap[o].status
         /\ NewTx(k, h, o, line).ahead = line
BY DEF NewTx

LEMMA NoTxFields ==
  /\ NoTx.phase = "none" /\ NoTx.kind = "none" /\ NoTx.copy = Blank /\ NoTx.cols = Blank
  /\ NoTx.was = "NONE" /\ NoTx.ahead = {}
BY DEF NoTx

\* Thread a asks for the write w of object o, in memory h.
Asks(a, w, h, o) ==
  /\ Memory(h, tracked, [ref EXCEPT ![a] = o])
  /\ tx' = [tx EXCEPT ![a] = w]
  /\ pc' = [pc EXCEPT ![a] = "write"]
  /\ UNCHANGED <<parked, claim, queue>>

\* Whoever holds a cell finds it as h has it; nobody else's place moves.
LEMMA AskEffect ==
  ASSUME ControlOK, NEW a \in Thread, NEW w, NEW h, NEW o \in Objs, Asks(a, w, h, o)
  PROVE  /\ ref'[a] = o /\ heap'[o] = h[o] /\ pc'[a] = "write"
         /\ tx'[a] = w
         /\ \A b \in Thread \ {a} : ref'[b] = ref[b] /\ tx'[b] = tx[b] /\ pc'[b] = pc[b]
         /\ \A b \in Thread \ {a} : ref[b] \in Objs => heap'[ref[b]] = h[ref[b]]
         /\ tracked' = tracked
         /\ tracked \in Objs => heap'[tracked] = h[tracked]
         /\ \A x \in Objs : heap'[x] \in {h[x], Blank}
         /\ UNCHANGED <<parked, claim, queue>>
<1>. DEFINE r == [ref EXCEPT ![a] = o]
<1>1. /\ heap' = [x \in Objs |-> IF x = tracked \/ \E b \in Thread : r[b] = x THEN h[x] ELSE Blank]
      /\ tracked' = tracked /\ ref' = r /\ UNCHANGED <<parked, claim, queue>>
  BY DEF Asks, Memory
<1>2. r[a] = o /\ \A b \in Thread \ {a} : r[b] = ref[b]
  BY DEF ControlOK
<1>3. /\ tx'[a] = w /\ pc'[a] = "write"
      /\ \A b \in Thread \ {a} : tx'[b] = tx[b] /\ pc'[b] = pc[b]
  BY DEF Asks, ControlOK
<1>4. \A b \in Thread : r[b] \in Objs => heap'[r[b]] = h[r[b]]
  BY <1>1
<1>5. tracked \in Objs => heap'[tracked] = h[tracked]
  BY <1>1
<1>6. \A x \in Objs : heap'[x] \in {h[x], Blank}
  BY <1>1
<1>. HIDE DEF r
<1>. QED  BY <1>1, <1>2, <1>3, <1>4, <1>5, <1>6

LEMMA RequestEffect ==
  ASSUME ControlOK, NEW a \in Thread, NEW k, NEW h, NEW o \in Objs, Request(a, k, h, o)
  PROVE  /\ ref'[a] = o /\ heap'[o] = h[o] /\ pc'[a] = "write"
         /\ tx'[a] = NewTx(k, h, o, Line(a))
         /\ \A b \in Thread \ {a} : ref'[b] = ref[b] /\ tx'[b] = tx[b] /\ pc'[b] = pc[b]
         /\ \A b \in Thread \ {a} : ref[b] \in Objs => heap'[ref[b]] = h[ref[b]]
         /\ tracked' = tracked
         /\ tracked \in Objs => heap'[tracked] = h[tracked]
         /\ \A x \in Objs : heap'[x] \in {h[x], Blank}
         /\ UNCHANGED <<parked, claim, queue>>
<1>1. Asks(a, NewTx(k, h, o, Line(a)), h, o)
  BY DEF Request, Asks
<1>. QED  BY <1>1, AskEffect

\* The failing that runs once more keeps the status the first one found.
FailsAgain(a, w, k, o) ==
  /\ Asks(a, w, [heap EXCEPT ![o].status = "FAILED"], o)
  /\ w.phase = "begun" /\ w.kind = k /\ w.cols = Blank /\ w.was = tx[a].was
  /\ w.copy = [heap EXCEPT ![o].status = "FAILED"][o] /\ w.ahead = Line(a)

LEMMA FailAgainAsks ==
  ASSUME NEW a, NEW k, NEW o, FailAgain(a, k, o)
  PROVE  \E w : FailsAgain(a, w, k, o)
<1>. DEFINE w == [NewTx(k, [heap EXCEPT ![o].status = "FAILED"], o, Line(a))
                    EXCEPT !.was = tx[a].was]
<1>1. Asks(a, w, [heap EXCEPT ![o].status = "FAILED"], o)
  BY DEF FailAgain, Asks
<1>2. /\ w.phase = "begun" /\ w.kind = k /\ w.cols = Blank /\ w.was = tx[a].was
      /\ w.copy = [heap EXCEPT ![o].status = "FAILED"][o] /\ w.ahead = Line(a)
  BY DEF NewTx
<1>. HIDE DEF w
<1>3. FailsAgain(a, w, k, o)
  BY <1>1, <1>2 DEF FailsAgain
<1>. QED  BY <1>3

\* A thread that is done holds nothing; the others find what they held.
Freed(a, h, t) ==
  /\ ref'[a] = NoObj /\ tx'[a] = NoTx
  /\ \A b \in Thread \ {a} : ref'[b] = ref[b] /\ tx'[b] = tx[b] /\ pc'[b] = pc[b]
  /\ \A b \in Thread \ {a} : ref[b] \in Objs => heap'[ref[b]] = h[ref[b]]
  /\ tracked' = t
  /\ t \in Objs => heap'[t] = h[t]
  /\ \A x \in Objs : heap'[x] \in {h[x], Blank}

LEMMA FreedEffect ==
  ASSUME ControlOK, NEW a \in Thread, NEW h, NEW t, NEW l,
         Memory(h, t, [ref EXCEPT ![a] = NoObj]),
         tx' = [tx EXCEPT ![a] = NoTx], pc' = [pc EXCEPT ![a] = l]
  PROVE  Freed(a, h, t) /\ pc'[a] = l
<1>. DEFINE r == [ref EXCEPT ![a] = NoObj]
<1>1. /\ heap' = [x \in Objs |-> IF x = t \/ \E b \in Thread : r[b] = x THEN h[x] ELSE Blank]
      /\ tracked' = t /\ ref' = r
  BY DEF Memory
<1>2. r[a] = NoObj /\ \A b \in Thread \ {a} : r[b] = ref[b]
  BY DEF ControlOK
<1>3. /\ tx'[a] = NoTx /\ pc'[a] = l
      /\ \A b \in Thread \ {a} : tx'[b] = tx[b] /\ pc'[b] = pc[b]
  BY DEF ControlOK
<1>4. \A b \in Thread : r[b] \in Objs => heap'[r[b]] = h[r[b]]
  BY <1>1
<1>5. /\ t \in Objs => heap'[t] = h[t]
      /\ \A x \in Objs : heap'[x] \in {h[x], Blank}
  BY <1>1
<1>. HIDE DEF r
<1>. QED  BY <1>1, <1>2, <1>3, <1>4, <1>5 DEF Freed

\* Where a pass that ends goes.
LEMMA EndPassEffect ==
  ASSUME ControlOK, NEW again, NEW h, NEW t, NEW q, EndPass(again, h, t, q)
  PROVE  /\ Freed("adv", h, t)
         /\ \/ /\ again /\ claim.rerun /\ pc'["adv"] = "load" /\ queue' = q
               /\ claim' = [claim EXCEPT !.rerun = FALSE]
            \/ /\ pc'["adv"] = "idle" /\ claim' = NoClaim
               /\ queue' = q \cup (IF claim.pendingWalk THEN {"walk"} ELSE {})
<1>1. Memory(h, t, [ref EXCEPT !["adv"] = NoObj]) /\ tx' = [tx EXCEPT !["adv"] = NoTx]
  BY DEF EndPass
<1>2. CASE again /\ claim.rerun
  <2>1. pc' = [pc EXCEPT !["adv"] = "load"]
    BY <1>2 DEF EndPass
  <2>. QED  BY <1>1, <1>2, <2>1, FreedEffect DEF EndPass, Thread
<1>3. CASE ~(again /\ claim.rerun)
  <2>1. pc' = [pc EXCEPT !["adv"] = "idle"]
    BY <1>3 DEF EndPass
  <2>. QED  BY <1>1, <1>3, <2>1, FreedEffect DEF EndPass, Thread
<1>. QED  BY <1>2, <1>3

LEMMA LeaveEffect ==
  ASSUME ControlOK, NEW a \in Thread, NEW h, NEW t, Leave(a, h, t)
  PROVE  /\ Freed(a, h, t) /\ pc'[a] = "idle"
         /\ a # "adv" => UNCHANGED <<claim, queue>>
         /\ a = "adv" => /\ claim' = NoClaim
                         /\ queue' = queue \cup (IF claim.pendingWalk THEN {"walk"} ELSE {})
<1>1. CASE a = "adv"
  BY <1>1, EndPassEffect DEF Leave
<1>2. CASE a # "adv"
  <2>1. Memory(h, t, [ref EXCEPT ![a] = NoObj]) /\ tx' = [tx EXCEPT ![a] = NoTx]
        /\ pc' = [pc EXCEPT ![a] = "idle"] /\ UNCHANGED <<claim, queue>>
    BY <1>2 DEF Leave
  <2>. QED  BY <1>2, <2>1, FreedEffect
<1>. QED  BY <1>1, <1>2

-----------------------------------------------------------------------------
(* Order is kept. *)

\* The count of a fault never falls.
Grows == \A f \in Fault : spent'[f] \in Nat /\ spent[f] <= spent'[f]

LEMMA SpendGrows ==
  ASSUME WorldOK, UNCHANGED spent \/ \E what \in Fault : Spend(what)
  PROVE  Grows
<1>1. CASE UNCHANGED spent
  BY <1>1 DEF WorldOK, Grows
<1>2. ASSUME NEW what \in Fault, Spend(what) PROVE Grows
  <2>1. spent' = [spent EXCEPT ![what] = @ + 1]
    BY <1>2 DEF Spend
  <2>. QED  BY <2>1 DEF WorldOK, Grows
<1>. QED  BY <1>1, <1>2

\* The rest of Order, where the process stays up.
LEMMA WorldOrder ==
  ASSUME CInv, up', Grows, parked' => parked, pc'["boot"] = "write" => pc["boot"] = "write",
         pc'["stop"] = "write" => (pc["stop"] = "write" \/ spent'["drain"] > 0)
  PROVE  Gone' /\ Stopping'
<1>1. \A f \in {"crash", "drain"} : spent[f] <= spent'[f] /\ spent[f] \in Nat /\ spent'[f] \in Nat
  <2>1. {"crash", "drain"} \subseteq Fault
    BY DEF Fault
  <2>2. \A f \in Fault : spent[f] \in Nat /\ spent'[f] \in Nat /\ spent[f] <= spent'[f]
    BY DEF CInv, IInv, WorldOK, Grows
  <2>. QED  BY <2>1, <2>2
<1>2. spent["crash"] > 0 \/ spent["drain"] > 0 => spent'["crash"] > 0 \/ spent'["drain"] > 0
  BY <1>1
<1>. QED  BY <1>2, Zenon DEF CInv, Order, Gone, Stopping

LEMMA AskOrder ==
  ASSUME CInv, NEW a \in Thread \ {"boot"}, NEW k \in KindsOf(a), NEW h, NEW o \in Objs,
         NEW w, w.phase = "begun", w.kind = k, Asks(a, w, h, o), a # "adv" => SameStep(h),
         a = "adv" => claim.dir = (IF k \in WalkKinds THEN "compensation" ELSE "forward"),
         a = "stop" => spent'["drain"] > 0, up', BelowPivot', Grows
  PROVE  Order'
<1>. USE DEF CInv, Order
<1>0. ControlOK /\ RefOK
  BY DEF IInv, ThreadsOK
<1>1. /\ ref'[a] = o /\ heap'[o] = h[o] /\ pc'[a] = "write"
      /\ tx'[a] = w
      /\ \A b \in Thread \ {a} : ref'[b] = ref[b] /\ tx'[b] = tx[b] /\ pc'[b] = pc[b]
      /\ \A b \in Thread \ {a} : ref[b] \in Objs => heap'[ref[b]] = h[ref[b]]
      /\ UNCHANGED <<parked, claim, queue>>
  BY <1>0, AskEffect
<1>2. tx'[a].phase = "begun" /\ tx'[a].kind = k
  BY <1>1
<1>3. Writing'
  BY <1>1, <1>2 DEF Writing
<1>4. Places'
  BY <1>1 DEF Places, Thread
<1>5. Claims'
  <2>1. CASE a = "adv"
    <3>1. k \in PassKinds \cup WalkKinds \cup {"timeout"}
      BY <2>1 DEF KindsOf
    <3>2. k \in WalkKinds => k \notin PassKinds \cup {"timeout"}
      BY DEF WalkKinds, PassKinds
    <3>. QED  BY <1>1, <1>2, <2>1, <3>1, <3>2 DEF Claims, PassLabels, WalkLabels
  <2>2. CASE a # "adv"
    BY <1>1, <2>2 DEF Claims, Thread
  <2>. QED  BY <2>1, <2>2
<1>6. Released'
  BY <1>1 DEF Released, Holding
<1>7. Gone' /\ Stopping'
  BY <1>1, WorldOrder DEF Thread
<1>8. SameStepSent'
  <2>1. CASE a = "adv"
    BY <1>2, <2>1 DEF SameStepSent
  <2>2. CASE a # "adv"
    <3>1. ref'["adv"] = ref["adv"] /\ tx'["adv"] = tx["adv"]
          /\ (ref["adv"] \in Objs => heap'[ref["adv"]] = h[ref["adv"]])
      BY <1>1, <2>2 DEF Thread
    <3>2. tx["adv"].phase = "sent" => ref["adv"] \in Objs
      BY <1>0 DEF RefOK, Thread
    <3>. QED  BY <2>2, <3>1, <3>2 DEF SameStepSent, SameStep, me
  <2>. QED  BY <2>1, <2>2
<1>. QED  BY <1>3, <1>4, <1>5, <1>6, <1>7, <1>8

LEMMA RequestOrder ==
  ASSUME CInv, NEW a \in Thread \ {"boot"}, NEW k \in KindsOf(a), NEW h, NEW o \in Objs,
         Request(a, k, h, o), a # "adv" => SameStep(h),
         a = "adv" => claim.dir = (IF k \in WalkKinds THEN "compensation" ELSE "forward"),
         a = "stop" => spent'["drain"] > 0, up', BelowPivot', Grows
  PROVE  Order'
<1>. DEFINE w == NewTx(k, h, o, Line(a))
<1>1. w.phase = "begun" /\ w.kind = k
  BY NewTxFields
<1>2. Asks(a, w, h, o)
  BY DEF Request, Asks
<1>. HIDE DEF w
<1>. QED  BY <1>1, <1>2, AskOrder

LEMMA FreedOrder ==
  ASSUME CInv, NEW a \in Thread, NEW h, NEW t, Freed(a, h, t),
         a # "adv" => SameStep(h) /\ pc'[a] = "idle" /\ UNCHANGED claim,
         a = "adv" => \/ pc'["adv"] = "idle" /\ claim' = NoClaim
                      \/ pc'["adv"] = "load" /\ claim'.dir = "forward",
         up', BelowPivot', Grows, parked' => parked
  PROVE  Order'
<1>. USE DEF CInv, Order
<1>0. ControlOK /\ RefOK
  BY DEF IInv, ThreadsOK
<1>1. /\ ref'[a] = NoObj /\ tx'[a] = NoTx
      /\ \A b \in Thread \ {a} : ref'[b] = ref[b] /\ tx'[b] = tx[b] /\ pc'[b] = pc[b]
      /\ \A b \in Thread \ {a} : ref[b] \in Objs => heap'[ref[b]] = h[ref[b]]
  BY DEF Freed
<1>2. pc'[a] \in {"idle", "load"}
  OBVIOUS
<1>3. Writing'
  BY <1>1, <1>2, NoTxFields DEF Writing
<1>4. Places'
  BY <1>1 DEF Places, Thread
<1>5. Claims'
  <2>1. CASE a = "adv"
    <3>1. "none" \notin PassKinds \cup {"timeout"} \cup WalkKinds
      BY DEF PassKinds, WalkKinds
    <3>. QED  BY <1>1, <2>1, <3>1, NoTxFields DEF Claims, PassLabels, WalkLabels
  <2>2. CASE a # "adv"
    BY <1>1, <2>2 DEF Claims, Thread
  <2>. QED  BY <2>1, <2>2
<1>6. Released'
  BY <1>1 DEF Released
<1>7. Gone' /\ Stopping'
  BY <1>1, <1>2, WorldOrder DEF Thread
<1>8. SameStepSent'
  <2>1. CASE a = "adv"
    BY <1>1, <2>1, NoTxFields DEF SameStepSent
  <2>2. CASE a # "adv"
    <3>1. ref'["adv"] = ref["adv"] /\ tx'["adv"] = tx["adv"]
          /\ (ref["adv"] \in Objs => heap'[ref["adv"]] = h[ref["adv"]])
      BY <1>1, <2>2 DEF Thread
    <3>2. tx["adv"].phase = "sent" => ref["adv"] \in Objs
      BY <1>0 DEF RefOK, Thread
    <3>. QED  BY <2>2, <3>1, <3>2 DEF SameStepSent, SameStep, me
  <2>. QED  BY <2>1, <2>2
<1>. QED  BY <1>3, <1>4, <1>5, <1>6, <1>7, <1>8

LEMMA LeaveOrder ==
  ASSUME CInv, NEW a \in Thread, NEW h, NEW t, Leave(a, h, t), a # "adv" => SameStep(h),
         up', BelowPivot', Grows, parked' => parked
  PROVE  Order'
<1>1. ControlOK
  BY DEF CInv, IInv, ThreadsOK
<1>. QED  BY <1>1, LeaveEffect, FreedOrder

LEMMA StayOrder ==
  ASSUME CInv, NEW a \in Thread, Stay(a) \/ StopTracking(a), up', BelowPivot', Grows
  PROVE  Order'
<1>1. \E t : Leave(a, heap, t) /\ (parked' => parked)
  BY DEF Stay, StopTracking
<1>2. SameStep(heap)
  BY DEF SameStep
<1>. QED  BY <1>1, <1>2, LeaveOrder

LEMMA EndPassOrder ==
  ASSUME CInv, NEW again \in BOOLEAN, NEW h, NEW t, NEW q, EndPass(again, h, t, q),
         claim.dir = "forward", up', BelowPivot', Grows, parked' => parked
  PROVE  Order'
<1>1. ControlOK
  BY DEF CInv, IInv, ThreadsOK
<1>2. [claim EXCEPT !.rerun = FALSE].dir = claim.dir
  BY <1>1 DEF ControlOK
<1>. QED  BY <1>1, <1>2, EndPassEffect, FreedOrder DEF Thread

\* No step forgets a fault.
LEMMA NextGrows == ASSUME IInv, [Next]_vars PROVE Grows
<1>0. Fault = {"crash", "drain", "db", "cache", "op", "event"}
  BY DEF Fault
<1>1. ASSUME NEW a \in Thread, Write(a) \/ Liveness(a) \/ FailSettled(a)
      PROVE  UNCHANGED spent \/ Spend("db") \/ Spend("cache")
  BY <1>1 DEF Write, Capture, Commit, Refuse, DbError, Liveness, FailSettled, world
<1>2. CASE Advance
  <2>1. CASE Write("adv") \/ Liveness("adv") \/ FailSettled("adv")
    BY <1>0, <1>1, <2>1, SpendGrows DEF IInv, Thread
  <2>2. CASE LoadPass \/ ReadStatus \/ WalkStatus \/ WalkLoad \/ WalkSync \/ WalkRecord
    <3>1. UNCHANGED spent \/ Spend("db")
      BY <2>2 DEF LoadPass, ReadStatus, WalkStatus, WalkLoad, WalkSync, WalkRecord
    <3>. QED  BY <1>0, <3>1, SpendGrows DEF IInv
  <2>3. CASE Execute \/ Settle \/ PassWrote \/ PassFailed \/ PassRefused \/ Undo \/ WalkFinish
             \/ WalkSettled
    BY <2>3, SpendGrows DEF Execute, Settle, PassWrote, PassFailed, PassRefused, Undo,
                            WalkFinish, WalkSettled, world, IInv
  <2>. QED  BY <1>2, <2>1, <2>2, <2>3 DEF Advance
<1>3. CASE Check \/ Operate \/ Restart
  <2>1. CASE \E a \in Thread : Write(a) \/ Liveness(a) \/ FailSettled(a)
    BY <1>0, <1>1, <2>1, SpendGrows DEF IInv
  <2>2. CASE CheckerTick \/ StartSettled \/ CompensateSettled \/ RewarmSettled \/ ShutdownSettled
    BY <2>2, SpendGrows DEF CheckerTick, StartSettled, CompensateSettled, RewarmSettled,
                            ShutdownSettled, world, IInv
  <2>3. CASE Boot
    <3>1. UNCHANGED spent \/ Spend("db")
      BY <2>3 DEF Boot
    <3>. QED  BY <1>0, <3>1, SpendGrows DEF IInv
  <2>. QED  BY <1>3, <2>1, <2>2, <2>3 DEF Check, Operate, Restart, Thread
<1>4. CASE StartSaga \/ Dispatch \/ RetryScan \/ \E horizon \in Horizon : Tick(horizon)
  BY <1>4, SpendGrows DEF StartSaga, Dispatch, DispatchForward, DispatchWalk, RetryScan, Tick,
                          world, IInv
<1>5. CASE \/ ContinueSaga \/ CompensateSaga \/ WorkerEvent \/ Crash \/ Shutdown \/ CacheExpires
  <2>1. \E what \in {"op", "event", "crash", "drain", "cache"} : Spend(what)
    BY <1>5 DEF ContinueSaga, CompensateSaga, WorkerEvent, Crash, Shutdown, CacheExpires
  <2>. QED  BY <1>0, <2>1, SpendGrows DEF IInv
<1>6. CASE UNCHANGED vars
  BY <1>6, SpendGrows DEF vars, IInv
<1>. QED  BY <1>2, <1>3, <1>4, <1>5, <1>6 DEF Next

\* What most steps leave as it was.
LEMMA QuietOrder ==
  ASSUME CInv, Grows, UNCHANGED <<up, heap, tracked, ref, tx, pc, claim>>,
         BelowPivot', parked' => parked, up
  PROVE  Order'
<1>. USE DEF CInv, Order
<1>1. Writing' /\ Places' /\ Claims' /\ Released' /\ SameStepSent'
  BY DEF Writing, Places, Claims, Released, SameStepSent, me
<1>2. Gone' /\ Stopping'
  BY WorldOrder
<1>. QED  BY <1>1, <1>2

\* A write that is captured or ends moves no thread.
LEMMA WriteOrder == ASSUME CInv, NEW a \in Thread, Write(a), Grows PROVE Order'
<1>. USE DEF CInv, Order
<1>0. ControlOK /\ RefOK
  BY DEF IInv, ThreadsOK
<1>1. /\ up /\ tx[a].phase # "none" /\ tx[a] \in Tx
      /\ UNCHANGED <<heap, tracked, ref, parked, pc, claim, queue, up, todo>>
  BY <1>0 DEF Write, Capture, Commit, Refuse, DbError, durable, world, ControlOK
<1>2. /\ \A b \in Thread \ {a} : /\ tx'[b].phase = tx[b].phase /\ tx'[b].kind = tx[b].kind
                                 /\ tx'[b].cols = tx[b].cols
                                 /\ tx[b] = NoTx => tx'[b] = NoTx
      /\ tx'[a].kind = tx[a].kind /\ tx'[a].phase # "none"
      /\ tx'[a].phase = "sent" => tx'[a].cols = heap[ref[a]]
  <2>1. CASE Capture(a)
    <3>1. tx' = [tx EXCEPT ![a] = [[tx[a] EXCEPT !.phase = "sent"] EXCEPT !.cols = heap[ref[a]]]]
      BY <2>1 DEF Capture
    <3>2. tx'[a] = [[tx[a] EXCEPT !.phase = "sent"] EXCEPT !.cols = heap[ref[a]]]
          /\ \A b \in Thread \ {a} : tx'[b] = tx[b]
      BY <3>1, <1>0 DEF ControlOK
    <3>3. tx'[a].kind = tx[a].kind /\ tx'[a].phase = "sent" /\ tx'[a].cols = heap[ref[a]]
      BY <1>1, <3>2 DEF Tx
    <3>. QED  BY <3>2, <3>3
  <2>2. CASE \E p \in {"ok", "refused", "error"} : tx' = Done(a, p)
    <3>1. PICK p \in {"ok", "refused", "error"} : tx' = Done(a, p)
      BY <2>2
    <3>2. tx'[a] = [tx[a] EXCEPT !.phase = p]
          /\ \A b \in Thread \ {a} : tx'[b] = [tx[b] EXCEPT !.ahead = tx[b].ahead \ {a}]
      BY <3>1 DEF Done
    <3>3. tx'[a].kind = tx[a].kind /\ tx'[a].phase = p
      BY <1>1, <3>2 DEF Tx
    <3>4. ASSUME NEW b \in Thread \ {a}
          PROVE  /\ tx'[b].phase = tx[b].phase /\ tx'[b].kind = tx[b].kind
                 /\ tx'[b].cols = tx[b].cols /\ (tx[b] = NoTx => tx'[b] = NoTx)
      <4>1. tx[b] \in Tx
        BY <1>0 DEF ControlOK
      <4>2. NoTx.ahead = {} /\ NoTx \in Tx /\ {} \ {a} = {}
        BY BlankType DEF NoTx
      <4>3. ASSUME tx[b] = NoTx PROVE tx'[b] = NoTx
        <5>1. tx'[b] = [NoTx EXCEPT !.ahead = {}]
          BY <3>2, <4>2, <4>3
        <5>. QED  BY <5>1 DEF NoTx
      <4>. QED  BY <3>2, <4>1, <4>3 DEF Tx
    <3>. QED  BY <3>3, <3>4
  <2>. QED  BY <2>1, <2>2 DEF Write, Commit, Refuse, DbError
<1>3. \A b \in Thread : /\ tx'[b].phase # "none" <=> tx[b].phase # "none"
                        /\ tx'[b].kind = tx[b].kind
                        /\ tx[b] = NoTx => tx'[b] = NoTx
  BY <1>1, <1>2, NoTxFields
<1>4. Writing' /\ Places' /\ Claims' /\ Released'
  BY <1>1, <1>3 DEF Writing, Places, Claims, Released, Thread
<1>5. SameStepSent'
  BY <1>1, <1>2 DEF SameStepSent, me, Thread
<1>6. Gone' /\ Stopping' /\ BelowPivot'
  BY <1>1, WorldOrder DEF BelowPivot
<1>. QED  BY <1>4, <1>5, <1>6

LEMMA StartOrder == ASSUME CInv, StartSaga \/ StartSettled, Grows PROVE Order'
<1>. USE DEF CInv, Order
<1>0. ControlOK /\ SameStep(heap)
  BY DEF IInv, ThreadsOK, SameStep
<1>1. CASE StartSaga
  <2>. DEFINE o == Fresh
  <2>. DEFINE h == [heap EXCEPT ![o] = [Blank EXCEPT !.status = "PENDING"]]
  <2>1. o \in Objs /\ \A a \in Thread : ref[a] # o
    BY <1>0, FreshType DEF ControlOK
  <2>2. SameStep(h)
    BY <2>1, <1>0 DEF ControlOK, SameStep, me, Thread
  <2>3. Request("op", "start", h, o) /\ up' /\ todo' = todo
    BY <1>1 DEF StartSaga, world
  <2>. HIDE DEF h, o
  <2>. QED  BY <2>1, <2>2, <2>3, RequestOrder DEF KindsOf, Thread, BelowPivot
<1>2. CASE StartSettled
  <2>1. PICK t : Memory(heap, t, [ref EXCEPT !["op"] = NoObj])
    BY <1>2 DEF StartSettled
  <2>2. /\ tx' = [tx EXCEPT !["op"] = NoTx] /\ pc' = [pc EXCEPT !["op"] = "idle"]
        /\ UNCHANGED <<claim, parked, up, todo>> /\ up
    BY <1>2 DEF StartSettled, Settled, world
  <2>3. Freed("op", heap, t) /\ pc'["op"] = "idle"
    BY <1>0, <2>1, <2>2, FreedEffect DEF Thread
  <2>. QED  BY <1>0, <2>2, <2>3, FreedOrder DEF Thread, BelowPivot
<1>. QED  BY <1>1, <1>2

LEMMA DispatchOrder == ASSUME CInv, Dispatch, Grows PROVE Order'
<1>. USE DEF CInv, Order
<1>0. ControlOK
  BY DEF IInv, ThreadsOK
<1>. DEFINE Kept(l, d) == /\ claim.dir = "none" /\ claim' = [NoClaim EXCEPT !.dir = d]
                          /\ pc' = [pc EXCEPT !["adv"] = l]
<1>1. /\ up /\ UNCHANGED <<heap, tracked, ref, parked, tx, up, todo>>
      /\ \/ Kept("load", "forward")
         \/ Kept("wstatus", "compensation")
         \/ claim'.dir = claim.dir /\ claim.dir # "none" /\ pc' = pc
  <2>1. [claim EXCEPT !.rerun = TRUE].dir = claim.dir
        /\ [claim EXCEPT !.pendingWalk = TRUE].dir = claim.dir
    BY <1>0 DEF ControlOK
  <2>2. ASSUME NEW trigger, DispatchForward(trigger)
        PROVE  /\ up /\ UNCHANGED <<heap, tracked, ref, parked, tx, up, todo>>
               /\ \/ Kept("load", "forward")
                  \/ claim'.dir = claim.dir /\ claim.dir # "none" /\ pc' = pc
    BY <2>1, <2>2 DEF DispatchForward, memory, world
  <2>3. ASSUME DispatchWalk
        PROVE  /\ up /\ UNCHANGED <<heap, tracked, ref, parked, tx, up, todo>>
               /\ \/ Kept("wstatus", "compensation")
                  \/ claim'.dir = claim.dir /\ claim.dir # "none" /\ pc' = pc
    BY <2>1, <2>3 DEF DispatchWalk, memory, world
  <2>. QED  BY <2>2, <2>3 DEF Dispatch
<1>2. CASE Kept("load", "forward") \/ Kept("wstatus", "compensation")
  <2>1. PICK l \in {"load", "wstatus"} : pc' = [pc EXCEPT !["adv"] = l]
    BY <1>2
  <2>2. pc'["adv"] = l /\ \A b \in Thread \ {"adv"} : pc'[b] = pc[b]
    BY <1>0, <2>1 DEF ControlOK, Thread
  <2>3. /\ pc'["adv"] = "load" => claim'.dir = "forward"
        /\ pc'["adv"] = "wstatus" => claim'.dir = "compensation"
    BY <1>2, <2>2, <1>0 DEF NoClaim, ControlOK, Thread
  <2>4. pc["adv"] # "write" /\ pc["adv"] \notin PassLabels \cup WalkLabels
    BY <1>2 DEF Claims, Writing, KindsOf, PassKinds, WalkKinds, Thread
  <2>5. tx["adv"] = NoTx
    BY <2>4 DEF Writing, Thread
  <2>6. Writing' /\ Places'
    BY <1>1, <2>2, <2>4 DEF Writing, Places, Thread
  <2>7. Claims'
    BY <1>1, <2>2, <2>3, <2>5, NoTxFields DEF Claims, PassLabels, WalkLabels, PassKinds, WalkKinds
  <2>8. pc["adv"] \notin Holding
    BY <2>4 DEF Holding, PassLabels, WalkLabels
  <2>9. Released'
    BY <1>1, <2>2, <2>8 DEF Released, Holding, Thread
  <2>10. Gone' /\ Stopping' /\ BelowPivot' /\ SameStepSent'
    BY <1>1, <2>2, WorldOrder DEF BelowPivot, SameStepSent, me, Thread
  <2>. QED  BY <2>6, <2>7, <2>9, <2>10
<1>3. CASE claim'.dir = claim.dir /\ claim.dir # "none" /\ pc' = pc
  <2>1. pc["adv"] # "idle"
    BY <1>3 DEF Claims, NoClaim
  <2>2. Writing' /\ Places' /\ Claims' /\ Released' /\ SameStepSent' /\ BelowPivot'
    BY <1>1, <1>3, <2>1 DEF Writing, Places, Claims, Released, SameStepSent, BelowPivot, me
  <2>. QED  BY <1>1, <1>3, <2>2, WorldOrder
<1>. QED  BY <1>1, <1>2, <1>3

\* checkSagaTimeout for a thread that may ask, whoever it is.
LEMMA CheckTimeoutOrder ==
  ASSUME CInv, NEW a \in {"adv", "chk"}, NEW o \in Objs, CheckTimeout(a, o), Grows,
         up, up', todo' = todo, a = "adv" => claim.dir = "forward", pc[a] # "write",
         a = "chk" => o = tracked
  PROVE  Order'
<1>. USE DEF CInv, Order
<1>0. ControlOK /\ BelowPivot' /\ a \in Thread
  BY DEF IInv, ThreadsOK, BelowPivot, Thread
<1>1. CASE StopTracking(a)
  BY <1>0, <1>1, StayOrder
<1>2. CASE FailSaga(a, "timeout", heap, o)
  <2>. DEFINE g == [heap EXCEPT ![o].status = "FAILED"]
  <2>1. SameStep(g) /\ Request(a, "timeout", g, o)
    BY <1>0, <1>2 DEF FailSaga, SameStep, ControlOK, Copy
  <2>2. "timeout" \in KindsOf(a) /\ "timeout" \notin WalkKinds
    BY DEF KindsOf, WalkKinds
  <2>. HIDE DEF g
  <2>. QED  BY <1>0, <2>1, <2>2, RequestOrder DEF Thread
<1>3. CASE /\ ref' = [ref EXCEPT ![a] = o]
           /\ pc' = [pc EXCEPT ![a] = "liveness"]
           /\ UNCHANGED <<heap, tracked, parked, tx, claim, queue>>
  <2>1. /\ ref'[a] = o /\ pc'[a] = "liveness"
        /\ \A b \in Thread \ {a} : ref'[b] = ref[b] /\ pc'[b] = pc[b]
    BY <1>0, <1>3 DEF ControlOK
  <2>2. tx[a] = NoTx
    BY <1>0 DEF Writing
  <2>3. Writing' /\ Places' /\ Released'
    BY <1>0, <1>3, <2>1 DEF Writing, Places, Released, Holding
  <2>4. Claims'
    <3>1. CASE a = "adv"
      BY <1>3, <2>1, <2>2, <3>1, NoTxFields
         DEF Claims, PassLabels, WalkLabels, PassKinds, WalkKinds
    <3>2. CASE a # "adv"
      BY <1>3, <2>1, <3>2 DEF Claims, Thread
    <3>. QED  BY <3>1, <3>2
  <2>5. Gone' /\ Stopping'
    BY <1>3, <2>1, WorldOrder DEF Thread
  <2>6. SameStepSent'
    <3>1. CASE a = "adv"
      BY <1>3, <2>2, <3>1, NoTxFields DEF SameStepSent
    <3>2. CASE a # "adv"
      BY <1>3, <2>1, <3>2 DEF SameStepSent, me, Thread
    <3>. QED  BY <3>1, <3>2
  <2>. QED  BY <1>0, <2>3, <2>4, <2>5, <2>6
<1>. QED  BY <1>1, <1>2, <1>3 DEF CheckTimeout

LEMMA CheckerTickOrder == ASSUME CInv, CheckerTick, Grows PROVE Order'
<1>1. /\ tracked \in Objs /\ CheckTimeout("chk", tracked) /\ up /\ up' /\ todo' = todo
      /\ pc["chk"] = "idle"
  BY DEF CheckerTick, CInv, IInv, ThreadsOK, ControlOK, world
<1>. QED  BY <1>1, CheckTimeoutOrder

LEMMA LivenessOrder ==
  ASSUME CInv, NEW a \in {"adv", "chk"}, Liveness(a), Grows
  PROVE  Order'
<1>. USE DEF CInv, Order
<1>. DEFINE track == [heap EXCEPT ![Fresh] = row]
<1>0. /\ a \in Thread /\ Fresh \in Objs /\ SameStep(track)
  BY FreshType DEF IInv, ThreadsOK, ControlOK, SameStep, me, Thread
<1>1. /\ up' /\ BelowPivot' /\ pc[a] = "liveness"
      /\ \/ Stay(a)
         \/ StopTracking(a)
         \/ Leave(a, track, Fresh) /\ UNCHANGED parked
         \/ FailSaga(a, "timeout", track, Fresh)
  BY DEF Liveness, BelowPivot
<1>2. CASE Stay(a) \/ StopTracking(a)
  BY <1>0, <1>1, <1>2, StayOrder
<1>3. CASE Leave(a, track, Fresh) /\ UNCHANGED parked
  BY <1>0, <1>1, <1>3, LeaveOrder
<1>4. CASE FailSaga(a, "timeout", track, Fresh)
  <2>. DEFINE g == [track EXCEPT ![Fresh].status = "FAILED"]
  <2>1. track \in [Objs -> Copy]
    BY <1>0 DEF IInv, ThreadsOK, ControlOK, DurableOK
  <2>. HIDE DEF track
  <2>2. SameStep(g) /\ Request(a, "timeout", g, Fresh)
    <3>1. \A x \in Objs : g[x].cur = track[x].cur
      BY <2>1 DEF Copy
    <3>. QED  BY <1>0, <1>4, <3>1 DEF FailSaga, SameStep, me
  <2>3. "timeout" \in KindsOf(a) /\ "timeout" \notin WalkKinds
    BY DEF KindsOf, WalkKinds
  <2>4. a = "adv" => claim.dir = "forward"
    BY <1>1 DEF Claims, PassLabels
  <2>. HIDE DEF g
  <2>. QED  BY <1>0, <1>1, <2>2, <2>3, <2>4, RequestOrder
<1>. HIDE DEF track
<1>. QED  BY <1>1, <1>2, <1>3, <1>4

LEMMA FailSettledOrder ==
  ASSUME CInv, NEW a \in {"adv", "chk"}, FailSettled(a), Grows
  PROVE  Order'
<1>. USE DEF CInv, Order
<1>. DEFINE o == ref[a]
            restored == [heap EXCEPT ![o].status = tx[a].was]
            failed == [heap EXCEPT ![o].status = "FAILED"]
            again == tx[a].kind \in {"failstep", "fail"}
<1>0. a \in Thread /\ tx[a].phase # "none" /\ tx[a].kind \in {"failstep", "fail", "timeout"}
  BY DEF FailSettled, Settled, Thread
<1>1. o \in Objs /\ SameStep(restored) /\ SameStep(heap) /\ SameStep(failed)
  <2>1. o \in Objs /\ heap \in [Objs -> Copy]
    BY <1>0 DEF IInv, ThreadsOK, RefOK, ControlOK
  <2>. QED  BY <2>1 DEF SameStep, me, Copy
<1>2. /\ up /\ up' /\ BelowPivot'
      /\ \/ /\ parked' = FALSE
            /\ \E h \in {heap, restored} :
                 IF a = "adv" THEN EndPass(again, h, NoObj, queue) ELSE Leave(a, h, NoObj)
         \/ /\ tx[a].kind = "failstep" /\ FailAgain(a, "fail", o)
         \/ Leave(a, restored, tracked) /\ UNCHANGED parked
  BY DEF FailSettled, Settled, BelowPivot, world
<1>3. a = "adv" => claim.dir = "forward"
  BY <1>0 DEF Claims, PassKinds
<1>. HIDE DEF restored, failed
<1>4. CASE parked' = FALSE /\ \E h \in {heap, restored} :
             IF a = "adv" THEN EndPass(again, h, NoObj, queue) ELSE Leave(a, h, NoObj)
  <2>1. PICK h \in {heap, restored} :
          IF a = "adv" THEN EndPass(again, h, NoObj, queue) ELSE Leave(a, h, NoObj)
    BY <1>4
  <2>2. CASE a = "adv"
    <3>1. again \in BOOLEAN /\ EndPass(again, h, NoObj, queue)
      BY <2>1, <2>2
    <3>. HIDE DEF again
    <3>. QED  BY <1>2, <1>3, <1>4, <2>2, <3>1, EndPassOrder
  <2>3. CASE a # "adv"
    BY <1>0, <1>1, <1>2, <1>4, <2>1, <2>3, LeaveOrder
  <2>. QED  BY <2>2, <2>3
<1>5. CASE tx[a].kind = "failstep" /\ FailAgain(a, "fail", o)
  <2>1. a = "adv"
    BY <1>0, <1>5 DEF Writing, KindsOf
  <2>2. "fail" \in KindsOf("adv") /\ "fail" \notin WalkKinds
    BY DEF KindsOf, PassKinds, WalkKinds
  <2>3. PICK w : FailsAgain(a, w, "fail", o)
    BY <1>5, FailAgainAsks
  <2>4. Asks(a, w, failed, o) /\ w.phase = "begun" /\ w.kind = "fail"
    BY <2>3 DEF FailsAgain, failed
  <2>. QED  BY <1>1, <1>2, <1>3, <2>1, <2>2, <2>4, AskOrder DEF Thread
<1>6. CASE Leave(a, restored, tracked) /\ UNCHANGED parked
  BY <1>0, <1>1, <1>2, <1>6, LeaveOrder
<1>. QED  BY <1>2, <1>4, <1>5, <1>6

\* The advancer takes hold of what getSaga found.
LEMMA LoadedOrder ==
  ASSUME CInv, Grows, up, up', todo' = todo,
         Memory(Loaded.h, tracked, [ref EXCEPT !["adv"] = Loaded.o]),
         \/ pc["adv"] = "load" /\ pc' = [pc EXCEPT !["adv"] = "status"]
         \/ pc["adv"] = "wload" /\ pc' = [pc EXCEPT !["adv"] = "wsync"],
         UNCHANGED <<parked, tx, claim, queue>>
  PROVE  Order'
<1>. USE DEF CInv, Order
<1>0. ControlOK /\ tx["adv"] = NoTx
  BY DEF IInv, ThreadsOK, Writing, Thread
<1>1. /\ \A b \in Thread \ {"adv"} : pc'[b] = pc[b] /\ ref'[b] = ref[b]
      /\ \/ pc["adv"] = "load" /\ pc'["adv"] = "status"
         \/ pc["adv"] = "wload" /\ pc'["adv"] = "wsync"
  BY <1>0 DEF Memory, ControlOK, Thread
<1>2. Writing' /\ Places' /\ Released'
  BY <1>1 DEF Writing, Places, Released, Holding, Thread
<1>3. Claims'
  BY <1>0, <1>1, NoTxFields DEF Claims, PassLabels, WalkLabels, PassKinds, WalkKinds
<1>4. Gone' /\ Stopping' /\ BelowPivot'
  BY <1>1, WorldOrder DEF BelowPivot, Thread
<1>5. SameStepSent'
  BY <1>0, NoTxFields DEF SameStepSent
<1>. QED  BY <1>2, <1>3, <1>4, <1>5

LEMMA LoadOrder == ASSUME CInv, LoadPass \/ WalkLoad, Grows PROVE Order'
<1>1. up /\ up' /\ todo' = todo /\ BelowPivot'
  BY DEF LoadPass, WalkLoad, CInv, Order, BelowPivot
<1>2. CASE Stay("adv")
  BY <1>1, <1>2, StayOrder DEF Thread
<1>3. CASE ~Stay("adv")
  BY <1>1, <1>3, LoadedOrder DEF LoadPass, WalkLoad
<1>. QED  BY <1>2, <1>3

LEMMA ReadStatusOrder == ASSUME CInv, ReadStatus, Grows PROVE Order'
<1>. USE DEF CInv, Order
<1>1. /\ up /\ up' /\ todo' = todo /\ BelowPivot' /\ pc["adv"] = "status"
      /\ claim.dir = "forward" /\ me \in Objs
  BY DEF ReadStatus, BelowPivot, Claims, PassLabels, IInv, ThreadsOK, RefOK, Holding, me, Thread
<1>2. CASE Stay("adv") \/ StopTracking("adv")
  BY <1>1, <1>2, StayOrder DEF Thread
<1>3. CASE CheckTimeout("adv", me)
  BY <1>1, <1>3, CheckTimeoutOrder
<1>4. CASE Request("adv", "open", [heap EXCEPT ![me].status = "RUNNING"], me)
  <2>1. "open" \in KindsOf("adv") /\ "open" \notin WalkKinds
    BY DEF KindsOf, PassKinds, WalkKinds
  <2>. QED  BY <1>1, <1>4, <2>1, RequestOrder DEF Thread
<1>. QED  BY <1>2, <1>3, <1>4 DEF ReadStatus

\* Between two awaits of a pass or a walk, on the same copy.
LEMMA LabelOrder ==
  ASSUME CInv, Grows, up, up', BelowPivot', NEW l \in Label, l # "write", l # "idle",
         pc["adv"] # "write", pc["adv"] \in Holding \/ l \notin Holding,
         pc["adv"] \in Holding => l \in Holding,
         l \in PassLabels <=> pc["adv"] \in PassLabels,
         l \in WalkLabels <=> pc["adv"] \in WalkLabels,
         pc' = [pc EXCEPT !["adv"] = l], UNCHANGED <<tracked, ref, parked, tx, claim, queue>>
  PROVE  Order'
<1>. USE DEF CInv, Order
<1>0. ControlOK /\ tx["adv"] = NoTx
  BY DEF IInv, ThreadsOK, Writing, Thread
<1>1. pc'["adv"] = l /\ \A b \in Thread \ {"adv"} : pc'[b] = pc[b]
  BY <1>0 DEF ControlOK, Thread
<1>2. Writing' /\ Places' /\ Released' /\ Claims'
  BY <1>0, <1>1 DEF Writing, Places, Released, Claims, Thread
<1>3. Gone' /\ Stopping'
  BY <1>1, WorldOrder DEF Thread
<1>4. SameStepSent'
  BY <1>0, NoTxFields DEF SameStepSent
<1>. QED  BY <1>2, <1>3, <1>4

LEMMA StepOrder ==
  ASSUME CInv, Execute \/ WalkStatus \/ Undo, Grows
  PROVE  Order'
<1>. USE DEF CInv, Order
<1>1. up /\ up' /\ BelowPivot'
  BY DEF Execute, WalkStatus, Undo, BelowPivot
<1>2. CASE Stay("adv")
  BY <1>1, <1>2, StayOrder DEF Thread
<1>3. CASE ~Stay("adv")
  <2>1. /\ UNCHANGED <<tracked, ref, parked, tx, claim, queue>>
        /\ \/ pc["adv"] = "run" /\ pc' = [pc EXCEPT !["adv"] = "settle"]
           \/ pc["adv"] = "wstatus" /\ pc' = [pc EXCEPT !["adv"] = "wload"]
           \/ pc["adv"] = "wundo" /\ pc' = [pc EXCEPT !["adv"] = "wrecord"]
    BY <1>3 DEF Execute, WalkStatus, Undo, memory
  <2>. QED  BY <1>1, <2>1, LabelOrder DEF Label, Holding, PassLabels, WalkLabels
<1>. QED  BY <1>2, <1>3

LEMMA SettleOrder == ASSUME CInv, Settle, Grows PROVE Order'
<1>. USE DEF CInv, Order
<1>1. /\ up' /\ BelowPivot' /\ claim.dir = "forward" /\ me \in Objs
      /\ \E k \in {"repoll", "rearm", "retry", "exhausted", "advance"} : \E h : Request("adv", k, h, me)
  BY DEF Settle, BelowPivot, Claims, PassLabels, IInv, ThreadsOK, RefOK, Holding, me, Thread
<1>2. \A k \in {"repoll", "rearm", "retry", "exhausted", "advance"} :
        k \in KindsOf("adv") /\ k \notin WalkKinds
  BY DEF KindsOf, PassKinds, WalkKinds
<1>. QED  BY <1>1, <1>2, RequestOrder DEF Thread

\* A pass goes on to its next step.
LEMMA NextStepOrder ==
  ASSUME CInv, Grows, up, up', BelowPivot', ref["adv"] \in Objs,
         \/ pc' = [pc EXCEPT !["adv"] = "run"] /\ claim.dir = "forward"
         \/ pc' = [pc EXCEPT !["adv"] = "wundo"] /\ claim.dir = "compensation",
         tx' = [tx EXCEPT !["adv"] = NoTx],
         UNCHANGED <<memory, parked, claim, queue>>
  PROVE  Order'
<1>. USE DEF CInv, Order
<1>0. ControlOK
  BY DEF IInv, ThreadsOK
<1>1. /\ tx'["adv"] = NoTx /\ UNCHANGED <<heap, tracked, ref>>
      /\ \A b \in Thread \ {"adv"} : pc'[b] = pc[b] /\ tx'[b] = tx[b]
      /\ \/ pc'["adv"] = "run" /\ claim.dir = "forward"
         \/ pc'["adv"] = "wundo" /\ claim.dir = "compensation"
  BY <1>0 DEF ControlOK, memory, Thread
<1>2. Writing' /\ Places' /\ Released'
  BY <1>1, NoTxFields DEF Writing, Places, Released, Holding, Thread
<1>3. Claims'
  BY <1>1, NoTxFields DEF Claims, PassLabels, WalkLabels, PassKinds, WalkKinds
<1>4. Gone' /\ Stopping'
  BY <1>1, WorldOrder DEF Thread
<1>5. SameStepSent'
  BY <1>1, NoTxFields DEF SameStepSent
<1>. QED  BY <1>2, <1>3, <1>4, <1>5

LEMMA PassOrder == ASSUME CInv, PassWrote \/ PassFailed \/ PassRefused, Grows PROVE Order'
<1>. USE DEF CInv, Order
<1>1. /\ up /\ up' /\ BelowPivot' /\ tx["adv"].phase # "none"
      /\ tx["adv"].kind \in PassKinds
  <2>1. /\ UNCHANGED world
        /\ \E kinds \in SUBSET PassKinds, phase \in {"ok", "error", "refused"} :
             Settled("adv", kinds, phase)
    <3>1. CASE PassWrote
      <4>1. Settled("adv", PassKinds, "ok") /\ UNCHANGED world
        BY <3>1 DEF PassWrote, Settled, PassKinds
      <4>. QED  BY <4>1
    <3>2. CASE PassFailed
      <4>1. UNCHANGED world
            /\ (Settled("adv", PassKinds, "error") \/ Settled("adv", PassKinds, "refused"))
        BY <3>2 DEF PassFailed, Settled, PassKinds
      <4>. QED  BY <4>1
    <3>3. CASE PassRefused
      <4>1. Settled("adv", PassKinds, "refused") /\ UNCHANGED world
        BY <3>3 DEF PassRefused, Settled, PassKinds
      <4>. QED  BY <4>1
    <3>. QED  BY <3>1, <3>2, <3>3
  <2>. QED  BY <2>1 DEF Settled, BelowPivot, world
<1>2. claim.dir = "forward" /\ me \in Objs
  BY <1>1 DEF Claims, IInv, ThreadsOK, RefOK, me, Thread
<1>3. ASSUME NEW k \in PassKinds, NEW h, Request("adv", k, h, me)
      PROVE  Order'
  <2>1. k \in KindsOf("adv") /\ k \notin WalkKinds
    BY DEF KindsOf, PassKinds, WalkKinds
  <2>. QED  BY <1>1, <1>2, <1>3, <2>1, RequestOrder DEF Thread
<1>4. ASSUME NEW h, NEW t, NEW q, EndPass(TRUE, h, t, q),
             UNCHANGED parked \/ parked' = FALSE
      PROVE  Order'
  <2>1. parked' => parked
    BY <1>4
  <2>. QED  BY <1>1, <1>2, <1>4, <2>1, EndPassOrder
<1>5. CASE PassWrote
  <2>1. \/ /\ pc' = [pc EXCEPT !["adv"] = "run"]
           /\ tx' = [tx EXCEPT !["adv"] = NoTx]
           /\ UNCHANGED <<memory, parked, claim, queue>>
        \/ \E k \in {"complete", "begin", "reopen", "failstep"} : \E h : Request("adv", k, h, me)
        \/ \E h, t, q : EndPass(TRUE, h, t, q) /\ (UNCHANGED parked \/ parked' = FALSE)
    <3>1. BeginKind(me) \in {"complete", "begin", "reopen", "failstep"}
      BY DEF BeginKind
    <3>. QED  BY <1>5, <3>1, Zenon DEF PassWrote, FailSaga
  <2>2. {"complete", "begin", "reopen", "failstep"} \subseteq PassKinds
    BY DEF PassKinds
  <2>. QED  BY <1>1, <1>2, <1>3, <1>4, <2>1, <2>2, NextStepOrder DEF me
<1>6. CASE PassFailed
  <2>1. \/ Stay("adv")
        \/ \E k \in {"fail", "rearm2"} : \E h : Request("adv", k, h, me)
        \/ \E h, t, q : EndPass(TRUE, h, t, q) /\ (UNCHANGED parked \/ parked' = FALSE)
    BY <1>6, Zenon DEF PassFailed, FailSaga
  <2>2. {"fail", "rearm2"} \subseteq PassKinds
    BY DEF PassKinds
  <2>. QED  BY <1>1, <1>3, <1>4, <2>1, <2>2, StayOrder DEF Thread
<1>7. CASE PassRefused
  BY <1>1, <1>7, StayOrder DEF PassRefused, Thread
<1>. QED  BY <1>5, <1>6, <1>7

LEMMA WalkOrder ==
  ASSUME CInv, WalkSync \/ WalkRecord \/ WalkFinish \/ WalkSettled, Grows
  PROVE  Order'
<1>. USE DEF CInv, Order
<1>1. up /\ up'
  BY DEF WalkSync, WalkRecord, WalkFinish, WalkSettled, Settled
<1>2. BelowPivot'
  BY DEF WalkSync, WalkRecord, WalkFinish, WalkSettled, Eligible, BelowPivot
<1>3. claim.dir = "compensation" /\ me \in Objs
  <2>1. \/ pc["adv"] \in {"wsync", "wrecord", "wundo"}
        \/ tx["adv"].phase # "none" /\ tx["adv"].kind \in {"wbegin", "wprogress", "wdone"}
    BY DEF WalkSync, WalkRecord, WalkFinish, WalkSettled, Settled
  <2>. QED  BY <2>1 DEF Claims, WalkLabels, WalkKinds, IInv, ThreadsOK, RefOK, Holding, me, Thread
<1>4. ASSUME NEW k \in WalkKinds, NEW h, Request("adv", k, h, me)
      PROVE  Order'
  <2>1. k \in KindsOf("adv")
    BY DEF KindsOf
  <2>. QED  BY <1>1, <1>2, <1>3, <1>4, <2>1, RequestOrder DEF Thread
<1>5. WalkKinds = {"wbegin", "wprogress", "wdone"} /\ "adv" \in Thread
  BY DEF WalkKinds, Thread
<1>6. CASE WalkSync
  <2>1. \/ Stay("adv")
        \/ \E h : Request("adv", "wbegin", h, me)
        \/ pc' = [pc EXCEPT !["adv"] = "wundo"]
           /\ UNCHANGED <<tracked, ref, parked, tx, claim, queue>>
    BY <1>6 DEF WalkSync
  <2>2. pc["adv"] = "wsync"
    BY <1>6 DEF WalkSync
  <2>3. CASE pc' = [pc EXCEPT !["adv"] = "wundo"]
             /\ UNCHANGED <<tracked, ref, parked, tx, claim, queue>>
    BY <1>1, <1>2, <2>2, <2>3, LabelOrder DEF Label, Holding, PassLabels, WalkLabels
  <2>. QED  BY <1>1, <1>2, <1>4, <1>5, <2>1, <2>3, StayOrder
<1>7. CASE WalkRecord
  <2>1. \/ \E h : Leave("adv", h, tracked) /\ UNCHANGED parked
        \/ \E h : Request("adv", "wprogress", h, me)
    BY <1>7 DEF WalkRecord
  <2>. QED  BY <1>1, <1>2, <1>4, <1>5, <2>1, LeaveOrder
<1>8. CASE WalkFinish
  <2>1. Stay("adv") \/ \E h : Request("adv", "wdone", h, me)
    BY <1>8 DEF WalkFinish
  <2>. QED  BY <1>1, <1>2, <1>4, <1>5, <2>1, StayOrder
<1>9. CASE WalkSettled
  <2>1. \/ Stay("adv") \/ StopTracking("adv")
        \/ /\ pc' = [pc EXCEPT !["adv"] = "wundo"]
           /\ tx' = [tx EXCEPT !["adv"] = NoTx]
           /\ UNCHANGED <<memory, parked, claim, queue>>
    BY <1>9 DEF WalkSettled
  <2>. QED  BY <1>1, <1>2, <1>3, <1>5, <2>1, StayOrder, NextStepOrder DEF me
<1>. QED  BY <1>6, <1>7, <1>8, <1>9

LEMMA OperatorOrder ==
  ASSUME CInv, ContinueSaga \/ WorkerEvent \/ RetryScan \/ CompensateSaga \/ CompensateSettled, Grows
  PROVE  Order'
<1>. USE DEF CInv, Order
<1>1. up /\ up' /\ BelowPivot' /\ ControlOK /\ "op" \in Thread
  BY DEF ContinueSaga, WorkerEvent, RetryScan, CompensateSaga, CompensateSettled, Settled,
         BelowPivot, world, IInv, ThreadsOK, Thread
<1>2. CASE ContinueSaga \/ WorkerEvent \/ RetryScan
  <2>1. /\ UNCHANGED <<up, heap, tracked, ref, tx, pc, claim>>
        /\ UNCHANGED parked \/ parked' = FALSE
    BY <1>2 DEF ContinueSaga, WorkerEvent, RetryScan, memory, world
  <2>2. parked' => parked
    BY <2>1
  <2>. QED  BY <1>1, <2>1, <2>2, QuietOrder
<1>3. CASE CompensateSaga
  <2>. DEFINE h == Loaded.h
              o == Loaded.o
  <2>1. /\ o \in Objs /\ h \in [Objs -> Copy]
        /\ ref["adv"] \in Objs => h[me] = heap[me]
    BY LoadedType DEF IInv, ThreadsOK, DurableOK, me, Thread
  <2>2. \E k \in {"reopen", "redrive"} : Request("op", k, Compensating(h, o), o)
    BY <1>3 DEF CompensateSaga
  <2>. HIDE DEF h, o
  <2>3. SameStep(Compensating(h, o))
    <3>1. \A x \in Objs : Compensating(h, o)[x].cur = h[x].cur
      BY <2>1 DEF Compensating
    <3>. QED  BY <2>1, <3>1 DEF SameStep, me
  <2>4. {"reopen", "redrive"} \subseteq KindsOf("op")
    BY DEF KindsOf
  <2>. QED  BY <1>1, <2>1, <2>2, <2>3, <2>4, RequestOrder
<1>4. CASE CompensateSettled
  <2>1. /\ Memory(heap, tracked, [ref EXCEPT !["op"] = NoObj])
        /\ tx' = [tx EXCEPT !["op"] = NoTx] /\ pc' = [pc EXCEPT !["op"] = "idle"]
        /\ UNCHANGED <<claim, parked>>
    BY <1>4 DEF CompensateSettled
  <2>2. Freed("op", heap, tracked) /\ pc'["op"] = "idle" /\ SameStep(heap)
    BY <1>1, <2>1, FreedEffect DEF SameStep
  <2>. QED  BY <1>1, <2>1, <2>2, FreedOrder
<1>. QED  BY <1>2, <1>3, <1>4

\* A process that goes leaves nothing behind, and it was not its own idea.
LEMMA CrashOrder == ASSUME CInv, Crash \/ ShutdownSettled, Grows PROVE Order'
<1>. USE DEF CInv, Order
<1>1. ProcessGone
  BY DEF Crash, ShutdownSettled
<1>2. /\ ~up' /\ tracked' = NoObj /\ ~parked' /\ claim' = NoClaim /\ queue' = {} /\ todo' = {}
      /\ \A a \in Thread : pc'[a] = "idle" /\ tx'[a] = NoTx /\ ref'[a] = NoObj
  BY <1>1 DEF ProcessGone
<1>3. Writing' /\ Places' /\ Claims' /\ Released' /\ BelowPivot' /\ SameStepSent'
  BY <1>2, NoTxFields DEF Writing, Places, Claims, Released, BelowPivot, SameStepSent,
     PassLabels, WalkLabels, PassKinds, WalkKinds, Thread
<1>4. spent'["crash"] > 0 \/ spent'["drain"] > 0
  <2>0. /\ {"crash", "drain"} \subseteq Fault
        /\ \A f \in Fault : spent[f] \in Nat /\ spent'[f] \in Nat /\ spent[f] <= spent'[f]
    BY DEF Fault, IInv, WorldOK, Grows
  <2>1. CASE Crash
    <3>1. spent'["crash"] = spent["crash"] + 1
      BY <2>0, <2>1 DEF Crash, Spend, IInv, WorldOK
    <3>. QED  BY <2>0, <3>1
  <2>2. CASE ShutdownSettled
    <3>1. tx["stop"].phase # "none"
      BY <2>2 DEF ShutdownSettled, Settled
    <3>2. spent["crash"] > 0 \/ spent["drain"] > 0
      BY <3>1 DEF Writing, Stopping, Thread
    <3>. QED  BY <2>0, <3>2
  <2>. QED  BY <2>1, <2>2
<1>5. Gone' /\ Stopping'
  BY <1>2, <1>4 DEF Gone, Stopping, Thread
<1>. QED  BY <1>3, <1>5

LEMMA BootOrder == ASSUME CInv, Boot, Grows PROVE Order'
<1>. USE DEF CInv, Order
<1>0. /\ ControlOK /\ ~up /\ up' /\ BelowPivot' /\ claim' = NoClaim /\ tracked = NoObj
      /\ \A a \in Thread : pc[a] = "idle" /\ tx[a] = NoTx /\ ref[a] = NoObj
  BY DEF IInv, ThreadsOK, Boot, BelowPivot, Gone, Writing, Released, Holding
<1>1. spent'["crash"] > 0 \/ spent'["drain"] > 0
  <2>1. /\ {"crash", "drain"} \subseteq Fault
        /\ \A f \in Fault : spent[f] \in Nat /\ spent'[f] \in Nat /\ spent[f] <= spent'[f]
    BY DEF Fault, IInv, WorldOK, Grows
  <2>2. spent["crash"] > 0 \/ spent["drain"] > 0
    BY <1>0 DEF Stopping
  <2>. QED  BY <2>1, <2>2
<1>2. CASE UNCHANGED <<heap, tracked, ref, parked, pc, tx, queue>>
  BY <1>0, <1>1, <1>2, NoTxFields
     DEF Writing, Places, Claims, Released, Gone, Stopping, SameStepSent,
         PassLabels, WalkLabels, PassKinds, WalkKinds, Thread
<1>3. CASE ~UNCHANGED <<heap, tracked, ref, parked, pc, tx, queue>>
  <2>1. \/ /\ ref' = [ref EXCEPT !["boot"] = Fresh]
           /\ pc' = [pc EXCEPT !["boot"] = "write"]
           /\ tx' = [tx EXCEPT !["boot"] = NewTx("rewarm", heap', Fresh, {})]
        \/ /\ ref' = [ref EXCEPT !["boot"] = NoObj]
           /\ pc' = [pc EXCEPT !["boot"] = "idle"]
           /\ tx' = [tx EXCEPT !["boot"] = NoTx]
    BY <1>3 DEF Boot
  <2>2. /\ \A a \in Thread \ {"boot"} : pc'[a] = "idle" /\ tx'[a] = NoTx /\ ref'[a] = NoObj
        /\ \/ pc'["boot"] = "write" /\ tx'["boot"].phase = "begun" /\ tx'["boot"].kind = "rewarm"
           \/ pc'["boot"] = "idle" /\ tx'["boot"] = NoTx /\ ref'["boot"] = NoObj
    BY <1>0, <2>1, NewTxFields DEF ControlOK, Thread
  <2>3. Writing' /\ Places' /\ Released' /\ Stopping'
    BY <1>1, <2>2, NoTxFields DEF Writing, KindsOf, Places, Released, Holding, Stopping, Thread
  <2>4. Claims' /\ SameStepSent'
    BY <1>0, <2>2, NoTxFields DEF Claims, SameStepSent, PassLabels, WalkLabels, PassKinds,
       WalkKinds, Thread
  <2>5. Gone'
    BY <1>0 DEF Gone
  <2>. QED  BY <1>0, <2>3, <2>4, <2>5
<1>. QED  BY <1>2, <1>3

LEMMA RestOrder ==
  ASSUME CInv, \/ RewarmSettled \/ Shutdown \/ CacheExpires
               \/ \E horizon \in Horizon : Tick(horizon), Grows
  PROVE  Order'
<1>. USE DEF CInv, Order
<1>1. CASE RewarmSettled
  <2>1. up /\ up' /\ BelowPivot' /\ Stay("boot")
    BY <1>1 DEF RewarmSettled, Settled, world, BelowPivot
  <2>. QED  BY <2>1, StayOrder DEF Thread
<1>2. CASE Shutdown
  <2>. DEFINE h == [heap EXCEPT ![tracked].status = "PENDING"]
  <2>1. tracked \in Objs /\ SameStep(h)
    BY <1>2 DEF Shutdown, IInv, ThreadsOK, ControlOK, Copy, SameStep, me
  <2>2. Request("stop", "handoff", h, tracked) /\ up' /\ BelowPivot'
    BY <1>2 DEF Shutdown, BelowPivot
  <2>3. "handoff" \in KindsOf("stop")
    BY DEF KindsOf
  <2>4. spent'["drain"] > 0
    BY <1>2 DEF Shutdown, Spend, IInv, WorldOK, Fault
  <2>. HIDE DEF h
  <2>. QED  BY <2>1, <2>2, <2>3, <2>4, RequestOrder DEF Thread
<1>3. CASE CacheExpires \/ \E horizon \in Horizon : Tick(horizon)
  <2>1. UNCHANGED <<up, heap, tracked, ref, parked, tx, pc, claim, queue, todo>>
    BY <1>3 DEF CacheExpires, Tick, control
  <2>2. Writing' /\ Places' /\ Claims' /\ Released' /\ BelowPivot' /\ SameStepSent'
    BY <2>1 DEF Writing, Places, Claims, Released, BelowPivot, SameStepSent, me
  <2>3. /\ {"crash", "drain"} \subseteq Fault
        /\ \A f \in Fault : spent[f] \in Nat /\ spent'[f] \in Nat /\ spent[f] <= spent'[f]
    BY DEF Fault, IInv, WorldOK, Grows
  <2>4. spent["crash"] > 0 \/ spent["drain"] > 0 => spent'["crash"] > 0 \/ spent'["drain"] > 0
    BY <2>3
  <2>5. Gone' /\ Stopping'
    BY <2>1, <2>4, Zenon DEF Gone, Stopping
  <2>. QED  BY <2>2, <2>5
<1>. QED  BY <1>1, <1>2, <1>3

LEMMA InitOrder == ASSUME Init PROVE Order
<1>. USE DEF Init
<1>1. Writing /\ Places /\ Claims /\ Released
  BY NoTxFields DEF Writing, Places, Claims, Released, PassLabels, WalkLabels, PassKinds,
     WalkKinds, Thread
<1>2. Gone /\ Stopping /\ BelowPivot /\ SameStepSent
  BY NoTxFields DEF Gone, Stopping, BelowPivot, SameStepSent, Thread
<1>. QED  BY <1>1, <1>2 DEF Order

LEMMA NextOrder == ASSUME CInv, [Next]_vars PROVE CInv'
<1>0. /\ {"adv", "chk", "op", "boot", "stop"} = Thread
      /\ Grows /\ IInv'
  BY NextGrows, NextInv DEF Thread, CInv
<1>. SUFFICES Order'
  BY <1>0 DEF CInv
<1>1. ASSUME NEW a \in Thread, Write(a) PROVE Order'
  BY <1>0, <1>1, WriteOrder
<1>2. CASE StartSaga \/ StartSettled \/ Dispatch \/ CheckerTick
  BY <1>0, <1>2, StartOrder, DispatchOrder, CheckerTickOrder
<1>3. CASE Advance
  BY <1>0, <1>1, <1>3, LivenessOrder, FailSettledOrder, LoadOrder, ReadStatusOrder, StepOrder,
     SettleOrder, PassOrder, WalkOrder DEF Advance
<1>4. CASE Check
  BY <1>0, <1>1, <1>4, CheckerTickOrder, LivenessOrder, FailSettledOrder DEF Check
<1>5. CASE Operate
  BY <1>0, <1>1, <1>5, StartOrder, OperatorOrder DEF Operate
<1>6. CASE Restart
  BY <1>0, <1>1, <1>6, BootOrder, RestOrder, CrashOrder DEF Restart
<1>7. CASE \/ ContinueSaga \/ CompensateSaga \/ WorkerEvent \/ RetryScan
           \/ Crash \/ Shutdown \/ CacheExpires \/ \E horizon \in Horizon : Tick(horizon)
  BY <1>0, <1>7, OperatorOrder, CrashOrder, RestOrder
<1>8. CASE UNCHANGED vars
  BY <1>8 DEF vars, CInv, Order, Writing, Places, Claims, Released, Gone, Stopping, BelowPivot,
              SameStepSent, me
<1>. QED  BY <1>2, <1>3, <1>4, <1>5, <1>6, <1>7, <1>8 DEF Next

\* Who may be where, whatever fails and in whatever order the writes are served:
\* each thread asks for its own kinds of write only, the claim's direction covers
\* all the advancer does, the walk visits compensable steps only, and a process
\* that is down holds nothing (executeSaga, loadAndRunCompensationWalk, shutdown).
THEOREM ControlKept == Spec => []CInv
<1>1. Init => CInv
  BY InitInv, InitOrder DEF CInv
<1>2. CInv /\ [Next]_vars => CInv'
  BY NextOrder
<1>. QED  BY <1>1, <1>2, PTL DEF Spec

=============================================================================
