------------------------- MODULE SagaRecords_proofs -------------------------
(***************************************************************************)
(* What every copy of a saga in SagaEngine says of its steps, for every    *)
(* value of the constants and whatever fails: the row, the Redis copy, the *)
(* objects in memory and the outstanding writes.                           *)
(***************************************************************************)
EXTENDS SagaEngine_proofs

(***************************************************************************)
(* Every copy is in G.  A step keeps that when each change the code makes  *)
(* to a copy stays in G, at the point where it is made: Keeps lists those  *)
(* points, and NextCopies is the argument that there are no others.        *)
(***************************************************************************)
CopiesIn(G) ==
  /\ row \in G /\ cache \in G
  /\ \A o \in Objs : heap[o] \in G
  /\ \A a \in Thread : tx[a].copy \in G /\ tx[a].cols \in G

Put(x, s) == [x EXCEPT !.status = s]
FailKinds == {"failstep", "fail", "timeout"}

\* startSaga, the retry marker, the opening write and the hand-off.
KeepsPlain(G) ==
  /\ Put(Blank, "PENDING") \in G
  /\ \A x \in G : /\ Put(x, "RUNNING") \in G /\ Put(x, "PENDING") \in G
                  /\ [x EXCEPT !.armed = FALSE] \in G
\* checkSagaTimeout, checkCompensationLiveness, and failSaga's two ends.
KeepsFailures(G) ==
  /\ \A o \in {tracked, me} \cap Objs :
       heap[o].status \notin Terminal \cup {"COMPENSATING"} /\ Expired => Put(heap[o], "FAILED") \in G
  /\ row.status = "COMPENSATING" => Put(row, "FAILED") \in G
  /\ \A a \in Thread : /\ tx[a].phase = "error" => Put(heap[ref[a]], "FAILED") \in G
                       /\ tx[a].phase \in {"refused", "error"} /\ tx[a].kind \in FailKinds
                            => Put(heap[ref[a]], tx[a].was) \in G
\* runSagaSteps.
KeepsPass(G) ==
  /\ pc["adv"] = "settle" =>
       LET i == heap[me].cur
           x == [heap[me] EXCEPT !.res = [heap[me].res EXCEPT ![i] = out]]
       IN /\ ~Spends(out) /\ ~Advances(out) => [x EXCEPT !.armed = TRUE] \in G
          /\ Spends(out) => x \in G
          /\ Spends(out) /\ MayRetry(me)
               => [x EXCEPT !.retry = heap[me].retry + 1, !.armed = TRUE] \in G
          /\ Advances(out) => [x EXCEPT !.cur = i + 1, !.retry = 0, !.armed = FALSE] \in G
  /\ tx["adv"].kind = "exhausted" /\ tx["adv"].phase = "ok" =>
       Put(heap[me], "FAILED") \in G /\ Put(heap[me], "COMPENSATING") \in G
  /\ tx["adv"].phase = "ok" /\ heap[me].cur = NSteps => Put(heap[me], "COMPLETED") \in G
\* runCompensationWalk and compensateSaga: the row's record is merged into a copy's,
\* and the walk records the answer of an undo.
Joined(x) == [i \in Step |->
  IF row.comp[i] # "none" /\ (row.comp[i] = "succeeded" \/ x.comp[i] = "none")
    THEN row.comp[i] ELSE x.comp[i]]
Noted == [heap[me].comp EXCEPT ![Last(NextUndo(heap, me))] = out]
KeepsWalk(G) ==
  /\ \A x \in G : [x EXCEPT !.comp = Joined(x)] \in G
  /\ WalkRecord => [heap[me] EXCEPT !.comp = Noted] \in G
  /\ pc["adv"] = "wsync" /\ row.status \notin Terminal => Put(Merged(heap, me)[me], "COMPENSATING") \in G
  /\ pc["adv"] = "wundo" => Put(heap[me], "COMPENSATED") \in G
  /\ \A x \in G : x.status \in {"FAILED", "COMPENSATING"} => Put(x, "COMPENSATING") \in G
Keeps(G) == KeepsPlain(G) /\ KeepsFailures(G) /\ KeepsPass(G) /\ KeepsWalk(G)

-----------------------------------------------------------------------------
(* The frame. *)

\* In memory h every copy is in G.
HeapIn(G, h) == \A o \in Objs : h[o] \in G

LEMMA RequestCopies ==
  ASSUME CInv, NEW G, Blank \in G, CopiesIn(G), NEW a \in Thread, NEW k, NEW h, HeapIn(G, h),
         NEW o \in Objs, Request(a, k, h, o), row' = row, cache' \in G
  PROVE  CopiesIn(G)'
<1>1. ControlOK
  BY DEF CInv, IInv, ThreadsOK
<1>2. \A x \in Objs : heap'[x] \in {h[x], Blank}
  BY <1>1, RequestEffect
<1>3. tx'[a] = NewTx(k, h, o, Line(a)) /\ \A b \in Thread \ {a} : tx'[b] = tx[b]
  BY <1>1, RequestEffect
<1>4. tx'[a].copy = h[o] /\ tx'[a].cols = Blank
  BY <1>3, NewTxFields
<1>. QED  BY <1>2, <1>3, <1>4 DEF CopiesIn, HeapIn

LEMMA FailAgainCopies ==
  ASSUME CInv, NEW G, Blank \in G, CopiesIn(G), NEW a \in Thread, NEW k,
         NEW o \in Objs, HeapIn(G, [heap EXCEPT ![o].status = "FAILED"]),
         FailAgain(a, k, o), row' = row, cache' \in G
  PROVE  CopiesIn(G)'
<1>. DEFINE h == [heap EXCEPT ![o].status = "FAILED"]
<1>0. ControlOK
  BY DEF CInv, IInv, ThreadsOK
<1>1. PICK w : FailsAgain(a, w, k, o)
  BY FailAgainAsks
<1>2. Asks(a, w, h, o) /\ w.copy = h[o] /\ w.cols = Blank
  BY <1>1 DEF FailsAgain
<1>3. HeapIn(G, h)
  OBVIOUS
<1>. HIDE DEF h
<1>4. \A x \in Objs : heap'[x] \in {h[x], Blank}
  BY <1>0, <1>2, AskEffect
<1>5. tx'[a] = w /\ \A b \in Thread \ {a} : tx'[b] = tx[b]
  BY <1>0, <1>2, AskEffect
<1>. QED  BY <1>2, <1>3, <1>4, <1>5 DEF CopiesIn, HeapIn

LEMMA FreedCopies ==
  ASSUME CInv, NEW G, Blank \in G, CopiesIn(G), NEW a \in Thread, NEW h, HeapIn(G, h),
         NEW t, Freed(a, h, t), row' = row, cache' \in G
  PROVE  CopiesIn(G)'
<1>1. \A x \in Objs : heap'[x] \in {h[x], Blank}
  BY DEF Freed
<1>2. tx'[a] = NoTx /\ \A b \in Thread \ {a} : tx'[b] = tx[b]
  BY DEF Freed
<1>. QED  BY <1>1, <1>2, NoTxFields DEF CopiesIn, HeapIn

LEMMA LeaveCopies ==
  ASSUME CInv, NEW G, Blank \in G, CopiesIn(G), NEW a \in Thread, NEW h, HeapIn(G, h),
         NEW t, Leave(a, h, t), row' = row, cache' \in G
  PROVE  CopiesIn(G)'
BY LeaveEffect, FreedCopies DEF CInv, IInv, ThreadsOK

LEMMA EndPassCopies ==
  ASSUME CInv, NEW G, Blank \in G, CopiesIn(G), NEW h, HeapIn(G, h),
         NEW again, NEW t, NEW q, EndPass(again, h, t, q), row' = row, cache' \in G
  PROVE  CopiesIn(G)'
BY EndPassEffect, FreedCopies DEF CInv, IInv, ThreadsOK, Thread

LEMMA StayCopies ==
  ASSUME CInv, NEW G, Blank \in G, CopiesIn(G), NEW a \in Thread, Stay(a) \/ StopTracking(a),
         row' = row, cache' \in G
  PROVE  CopiesIn(G)'
<1>1. HeapIn(G, heap) /\ \E t : Leave(a, heap, t)
  BY DEF Stay, StopTracking, CopiesIn, HeapIn
<1>. QED  BY <1>1, LeaveCopies

LEMMA LoadedCopies ==
  ASSUME CInv, NEW G, CopiesIn(G)
  PROVE  /\ HeapIn(G, Loaded.h) /\ Rewarmed \in G /\ Loaded.h[Loaded.o] \in G
         /\ Loaded.o \in Objs /\ Loaded.h \in [Objs -> Copy]
<1>1. ControlOK /\ Fresh \in Objs /\ row \in Copy /\ cache \in Copy
  BY FreshType DEF CInv, IInv, ThreadsOK, ControlOK, DurableOK
<1>2. CASE tracked # NoObj
  BY <1>1, <1>2 DEF Loaded, Rewarmed, CopiesIn, HeapIn, ControlOK
<1>3. CASE tracked = NoObj
  <2>. DEFINE x == IF cache.status = "NONE" THEN row ELSE cache
  <2>1. x \in G /\ x \in Copy
    BY <1>1 DEF CopiesIn
  <2>2. Loaded.h = [heap EXCEPT ![Fresh] = x] /\ Loaded.o = Fresh
    BY <1>3 DEF Loaded
  <2>. HIDE DEF x
  <2>3. HeapIn(G, Loaded.h) /\ Loaded.h[Loaded.o] \in G /\ Loaded.h \in [Objs -> Copy]
    BY <1>1, <2>1, <2>2 DEF CopiesIn, HeapIn, ControlOK
  <2>. QED  BY <1>1, <2>2, <2>3 DEF Rewarmed, CopiesIn
<1>. QED  BY <1>2, <1>3

\* One object changed.
LEMMA PutIn ==
  ASSUME CInv, NEW G, NEW h \in [Objs -> Copy], HeapIn(G, h), NEW o \in Objs, NEW x, x \in G
  PROVE  HeapIn(G, [h EXCEPT ![o] = x])
BY DEF HeapIn

\* An object's status alone.
LEMMA PutStatus ==
  ASSUME CInv, NEW G, NEW h \in [Objs -> Copy], HeapIn(G, h), NEW o \in Objs, NEW s,
         Put(h[o], s) \in G
  PROVE  HeapIn(G, [h EXCEPT ![o].status = s])
BY DEF HeapIn, Put

LEMMA WriteCopies ==
  ASSUME CInv, NEW G, CopiesIn(G), NEW a \in Thread, Write(a)
  PROVE  CopiesIn(G)'
<1>0. ControlOK /\ RefOK /\ UNCHANGED heap
  BY DEF CInv, IInv, ThreadsOK, Write, Capture, Commit, Refuse, DbError
<1>1. CASE Capture(a)
  <2>1. ref[a] \in Objs
    BY <1>0, <1>1 DEF Capture, RefOK
  <2>2. tx' = [tx EXCEPT ![a] = [[tx[a] EXCEPT !.phase = "sent"] EXCEPT !.cols = heap[ref[a]]]]
        /\ row' = row /\ cache' = cache
    BY <1>1 DEF Capture, durable
  <2>3. tx'[a] = [[tx[a] EXCEPT !.phase = "sent"] EXCEPT !.cols = heap[ref[a]]]
        /\ \A b \in Thread \ {a} : tx'[b] = tx[b]
    BY <2>2, <1>0 DEF ControlOK
  <2>4. tx'[a].copy = tx[a].copy /\ tx'[a].cols = heap[ref[a]]
    BY <1>0, <2>3 DEF ControlOK, Tx
  <2>. QED  BY <1>0, <2>1, <2>2, <2>3, <2>4 DEF CopiesIn
<1>2. ASSUME NEW p, tx' = Done(a, p), row' \in G, cache' \in G
      PROVE  CopiesIn(G)'
  <2>1. ASSUME NEW b \in Thread PROVE tx'[b].copy \in G /\ tx'[b].cols \in G
    <3>1. tx[b] \in Tx /\ tx[b].copy \in G /\ tx[b].cols \in G
      BY <1>0 DEF ControlOK, CopiesIn
    <3>2. tx'[b] = [tx[b] EXCEPT !.phase = p] \/ tx'[b] = [tx[b] EXCEPT !.ahead = tx[b].ahead \ {a}]
      BY <1>2 DEF Done
    <3>. QED  BY <3>1, <3>2 DEF Tx
  <2>. QED  BY <1>0, <1>2, <2>1 DEF CopiesIn
<1>3. CASE Commit(a)
  <2>1. /\ row' = tx[a].cols /\ cache' \in {cache, tx[a].copy}
        /\ tx' = Done(a, "ok") \/ tx' = Done(a, "error")
    BY <1>3 DEF Commit
  <2>. QED  BY <1>2, <2>1 DEF CopiesIn
<1>4. CASE Refuse(a) \/ DbError(a)
  <2>1. /\ row' = row /\ cache' = cache
        /\ tx' = Done(a, "refused") \/ tx' = Done(a, "error")
    BY <1>4 DEF Refuse, DbError, durable
  <2>. QED  BY <1>2, <2>1 DEF CopiesIn
<1>. QED  BY <1>1, <1>3, <1>4 DEF Write

-----------------------------------------------------------------------------
(* Every step. *)

LEMMA StartCopies ==
  ASSUME CInv, NEW G, Blank \in G, CopiesIn(G), Keeps(G), StartSaga \/ StartSettled
  PROVE  CopiesIn(G)'
<1>0. ControlOK /\ HeapIn(G, heap) /\ "op" \in Thread /\ cache \in G
  BY DEF CInv, IInv, ThreadsOK, CopiesIn, HeapIn, Thread
<1>1. CASE StartSaga
  <2>. DEFINE h == [heap EXCEPT ![Fresh] = [Blank EXCEPT !.status = "PENDING"]]
  <2>1. Fresh \in Objs
    BY <1>0, FreshType DEF ControlOK
  <2>2. HeapIn(G, h)
    <3>1. [Blank EXCEPT !.status = "PENDING"] \in G
      BY DEF Keeps, KeepsPlain, Put
    <3>. QED  BY <1>0, <2>1, <3>1, PutIn DEF ControlOK
  <2>3. Request("op", "start", h, Fresh) /\ row' = row /\ cache' = cache
    BY <1>1 DEF StartSaga, durable
  <2>. HIDE DEF h
  <2>. QED  BY <1>0, <2>1, <2>2, <2>3, RequestCopies
<1>2. CASE StartSettled
  <2>1. PICK t : Memory(heap, t, [ref EXCEPT !["op"] = NoObj])
    BY <1>2 DEF StartSettled
  <2>2. /\ tx' = [tx EXCEPT !["op"] = NoTx] /\ pc' = [pc EXCEPT !["op"] = "idle"]
        /\ row' = row /\ cache' = cache
    BY <1>2 DEF StartSettled, durable
  <2>3. Freed("op", heap, t)
    BY <1>0, <2>1, <2>2, FreedEffect
  <2>. QED  BY <1>0, <2>2, <2>3, FreedCopies
<1>. QED  BY <1>1, <1>2

LEMMA CheckTimeoutCopies ==
  ASSUME CInv, NEW G, Blank \in G, CopiesIn(G), Keeps(G), NEW a \in Thread,
         NEW o \in {tracked, me} \cap Objs, CheckTimeout(a, o), row' = row, cache' = cache
  PROVE  CopiesIn(G)'
<1>0. ControlOK /\ HeapIn(G, heap) /\ cache \in G
  BY DEF CInv, IInv, ThreadsOK, CopiesIn, HeapIn
<1>1. CASE StopTracking(a)
  BY <1>0, <1>1, StayCopies
<1>2. CASE UNCHANGED <<heap, tracked, parked, tx, claim, queue>>
  BY <1>2 DEF CopiesIn
<1>3. CASE ~Ended(o) /\ heap[o].status # "COMPENSATING" /\ Expired
           /\ FailSaga(a, "timeout", heap, o)
  <2>. DEFINE h == [heap EXCEPT ![o].status = "FAILED"]
  <2>1. Put(heap[o], "FAILED") \in G
    <3>1. heap[o].status \notin Terminal \cup {"COMPENSATING"} /\ Expired
      BY <1>3 DEF Ended
    <3>. QED  BY <3>1 DEF Keeps, KeepsFailures
  <2>2. HeapIn(G, h)
    BY <1>0, <2>1, PutStatus DEF ControlOK
  <2>3. Request(a, "timeout", h, o)
    BY <1>3 DEF FailSaga
  <2>. HIDE DEF h
  <2>. QED  BY <1>0, <2>2, <2>3, RequestCopies
<1>. QED  BY <1>1, <1>2, <1>3 DEF CheckTimeout

LEMMA LivenessCopies ==
  ASSUME CInv, NEW G, Blank \in G, CopiesIn(G), Keeps(G), NEW a \in Thread, Liveness(a)
  PROVE  CopiesIn(G)'
<1>. DEFINE track == [heap EXCEPT ![Fresh] = row]
<1>. DEFINE h == [track EXCEPT ![Fresh].status = "FAILED"]
<1>0. /\ ControlOK /\ HeapIn(G, heap) /\ cache \in G /\ row \in G /\ row \in Copy
      /\ row' = row /\ cache' = cache /\ Fresh \in Objs
  BY FreshType DEF CInv, IInv, DurableOK, ThreadsOK, ControlOK, CopiesIn, HeapIn, Liveness, durable
<1>1. track \in [Objs -> Copy] /\ HeapIn(G, track) /\ track[Fresh] = row
  BY <1>0 DEF ControlOK, HeapIn
<1>2. \/ Stay(a) \/ StopTracking(a)
      \/ Leave(a, track, Fresh)
      \/ row.status = "COMPENSATING" /\ Request(a, "timeout", h, Fresh)
  BY DEF Liveness, FailSaga
<1>. HIDE DEF track
<1>3. CASE row.status = "COMPENSATING" /\ Request(a, "timeout", h, Fresh)
  <2>1. Put(track[Fresh], "FAILED") \in G
    BY <1>1, <1>3 DEF Keeps, KeepsFailures
  <2>2. HeapIn(G, h)
    BY <1>0, <1>1, <2>1, PutStatus
  <2>. HIDE DEF h
  <2>. QED  BY <1>0, <1>3, <2>2, RequestCopies
<1>. QED  BY <1>0, <1>1, <1>2, <1>3, StayCopies, LeaveCopies

LEMMA FailSettledCopies ==
  ASSUME CInv, NEW G, Blank \in G, CopiesIn(G), Keeps(G), NEW a \in Thread, FailSettled(a)
  PROVE  CopiesIn(G)'
<1>. DEFINE o == ref[a]
<1>. DEFINE restored == [heap EXCEPT ![o].status = tx[a].was]
<1>. DEFINE failed == [heap EXCEPT ![o].status = "FAILED"]
<1>0. /\ ControlOK /\ HeapIn(G, heap) /\ cache \in G /\ row' = row /\ cache' = cache
      /\ tx[a].phase \in {"ok", "refused", "error"} /\ o \in Objs /\ "adv" \in Thread
  BY DEF CInv, IInv, ThreadsOK, RefOK, CopiesIn, HeapIn, FailSettled, Settled, durable, Thread
<1>1. tx[a].phase = "error" => HeapIn(G, failed)
  <2>1. tx[a].phase = "error" => Put(heap[o], "FAILED") \in G
    BY DEF Keeps, KeepsFailures
  <2>. QED  BY <1>0, <2>1, PutStatus DEF ControlOK
<1>2. tx[a].phase \in {"refused", "error"} /\ tx[a].kind \in FailKinds => HeapIn(G, restored)
  <2>1. tx[a].phase \in {"refused", "error"} /\ tx[a].kind \in FailKinds
          => Put(heap[o], tx[a].was) \in G
    BY DEF Keeps, KeepsFailures
  <2>. QED  BY <1>0, <2>1, PutStatus DEF ControlOK
<1>. DEFINE Closed(h) == \/ Leave(a, h, NoObj) \/ Leave(a, h, tracked)
                         \/ \E again : EndPass(again, h, NoObj, queue)
<1>3. \/ Closed(heap)
      \/ /\ tx[a].phase \in {"refused", "error"} /\ tx[a].kind \in FailKinds
         /\ Closed(restored)
      \/ tx[a].phase = "error" /\ FailAgain(a, "fail", o)
  BY DEF FailSettled, Settled, FailKinds
<1>. HIDE DEF restored
<1>4. ASSUME NEW h, HeapIn(G, h), Closed(h) PROVE CopiesIn(G)'
  BY <1>0, <1>4, LeaveCopies, EndPassCopies
<1>5. CASE tx[a].phase = "error" /\ FailAgain(a, "fail", o)
  BY <1>0, <1>1, <1>5, FailAgainCopies
<1>. HIDE DEF failed
<1>. QED  BY <1>0, <1>2, <1>3, <1>4, <1>5

LEMMA LoadCopies ==
  ASSUME CInv, NEW G, Blank \in G, CopiesIn(G), Keeps(G), LoadPass \/ ReadStatus
  PROVE  CopiesIn(G)'
<1>0. ControlOK /\ RefOK /\ HeapIn(G, heap) /\ cache \in G /\ row' = row /\ "adv" \in Thread
  BY DEF CInv, IInv, ThreadsOK, CopiesIn, HeapIn, LoadPass, ReadStatus, durable, Thread
<1>1. CASE LoadPass
  <2>1. cache' \in G
    BY <1>0, <1>1, LoadedCopies DEF LoadPass
  <2>2. CASE Stay("adv")
    BY <1>0, <2>1, <2>2, StayCopies
  <2>3. CASE Memory(Loaded.h, tracked, [ref EXCEPT !["adv"] = Loaded.o]) /\ UNCHANGED tx
    <3>1. \A x \in Objs : heap'[x] \in {Loaded.h[x], Blank}
      BY <2>3 DEF Memory
    <3>2. HeapIn(G, Loaded.h)
      BY LoadedCopies
    <3>. QED  BY <1>0, <2>1, <2>3, <3>1, <3>2 DEF CopiesIn, HeapIn
  <2>. QED  BY <1>1, <2>2, <2>3 DEF LoadPass
<1>2. CASE ReadStatus
  <2>. DEFINE h == [heap EXCEPT ![me].status = "RUNNING"]
  <2>1. me \in Objs /\ cache' = cache
    BY <1>0, <1>2 DEF ReadStatus, RefOK, Holding, me
  <2>2. HeapIn(G, h)
    <3>1. Put(heap[me], "RUNNING") \in G
      BY <1>0, <2>1 DEF Keeps, KeepsPlain, HeapIn
    <3>. QED  BY <1>0, <2>1, <3>1, PutStatus DEF ControlOK
  <2>3. \/ Stay("adv") \/ StopTracking("adv") \/ CheckTimeout("adv", me)
        \/ Request("adv", "open", h, me)
    BY <1>2 DEF ReadStatus
  <2>. HIDE DEF h
  <2>. QED  BY <1>0, <2>1, <2>2, <2>3, StayCopies, CheckTimeoutCopies, RequestCopies
<1>. QED  BY <1>1, <1>2

\* The three answers a step has, each with the change to the copy it calls for.
\* The copy with the step's answer in it, and what Settle asks to write of it.
Answered == [heap[me] EXCEPT !.res = [heap[me].res EXCEPT ![heap[me].cur] = out]]

LEMMA SettleAsks ==
  ASSUME CInv, Settle
  PROVE  \/ /\ ~Spends(out) /\ ~Advances(out)
            /\ Request("adv", IF heap[me].armed THEN "repoll" ELSE "rearm",
                       [heap EXCEPT ![me] = [Answered EXCEPT !.armed = TRUE]], me)
         \/ /\ Spends(out) /\ MayRetry(me)
            /\ Request("adv", "retry",
                 [heap EXCEPT ![me] = [Answered EXCEPT !.retry = heap[me].retry + 1, !.armed = TRUE]], me)
         \/ /\ Spends(out) /\ Request("adv", "exhausted", [heap EXCEPT ![me] = Answered], me)
         \/ /\ Advances(out)
            /\ Request("adv", "advance",
                 [heap EXCEPT ![me] = [Answered EXCEPT !.cur = heap[me].cur + 1, !.retry = 0, !.armed = FALSE]], me)
<1>. DEFINE i == heap[me].cur
<1>. DEFINE x == [heap[me] EXCEPT !.res = [heap[me].res EXCEPT ![i] = out]]
<1>. DEFINE waits == [x EXCEPT !.armed = TRUE]
            retries == [x EXCEPT !.retry = heap[me].retry + 1, !.armed = TRUE]
            done == [x EXCEPT !.cur = i + 1, !.retry = 0, !.armed = FALSE]
<1>0. ControlOK /\ me \in Objs /\ heap[me] \in Copy /\ x = Answered
  BY DEF CInv, IInv, ThreadsOK, ControlOK, RefOK, Holding, Settle, Thread, me, Answered
<1>. DEFINE h == [heap EXCEPT ![me].res[i] = out]
<1>2. h = [heap EXCEPT ![me] = x]
  BY <1>0
<1>3. /\ [h EXCEPT ![me].armed = TRUE] = [heap EXCEPT ![me] = waits]
      /\ [h EXCEPT ![me].retry = @ + 1, ![me].armed = TRUE] = [heap EXCEPT ![me] = retries]
      /\ [h EXCEPT ![me].cur = i + 1, ![me].retry = 0, ![me].armed = FALSE]
           = [heap EXCEPT ![me] = done]
  <2>1. heap \in [Objs -> Copy] /\ h[me] = x /\ x.retry = heap[me].retry
    BY <1>0, <1>2 DEF ControlOK
  <2>. HIDE DEF x, h
  <2>2. [h EXCEPT ![me].armed = TRUE] = [heap EXCEPT ![me] = waits]
    BY <1>0, <1>2, <2>1
  <2>3. [h EXCEPT ![me].retry = @ + 1, ![me].armed = TRUE] = [heap EXCEPT ![me] = retries]
    <3>. DEFINE g == [h EXCEPT ![me].retry = @ + 1]
    <3>1. g = [heap EXCEPT ![me] = [x EXCEPT !.retry = heap[me].retry + 1]]
      BY <1>0, <1>2, <2>1
    <3>2. [h EXCEPT ![me].retry = @ + 1, ![me].armed = TRUE] = [g EXCEPT ![me].armed = TRUE]
      OBVIOUS
    <3>. HIDE DEF g
    <3>. QED  BY <1>0, <2>1, <3>1, <3>2
  <2>4. [h EXCEPT ![me].cur = i + 1, ![me].retry = 0, ![me].armed = FALSE]
           = [heap EXCEPT ![me] = done]
    <3>. DEFINE f == [h EXCEPT ![me].cur = i + 1]
                g == [f EXCEPT ![me].retry = 0]
    <3>1. f = [heap EXCEPT ![me] = [x EXCEPT !.cur = i + 1]]
      BY <1>0, <1>2, <2>1
    <3>2. [h EXCEPT ![me].cur = i + 1, ![me].retry = 0, ![me].armed = FALSE]
            = [g EXCEPT ![me].armed = FALSE]
      OBVIOUS
    <3>. HIDE DEF f
    <3>3. g = [heap EXCEPT ![me] = [x EXCEPT !.cur = i + 1, !.retry = 0]]
      BY <1>0, <2>1, <3>1
    <3>. HIDE DEF g
    <3>. QED  BY <1>0, <2>1, <3>2, <3>3
  <2>. QED  BY <2>2, <2>3, <2>4
<1>. HIDE DEF x
<1>4. CASE ~Spends(out) /\ ~Advances(out)
  BY <1>0, <1>3, <1>4, Zenon DEF Settle
<1>5. CASE Spends(out)
  BY <1>0, <1>2, <1>3, <1>5, Zenon DEF Settle, Spends, Advances
<1>6. CASE Advances(out)
  BY <1>0, <1>3, <1>6, Zenon DEF Settle, Spends, Advances
<1>. QED  BY <1>4, <1>5, <1>6

LEMMA SettleCopies ==
  ASSUME CInv, NEW G, Blank \in G, CopiesIn(G), Keeps(G), Settle
  PROVE  CopiesIn(G)'
<1>0. /\ ControlOK /\ HeapIn(G, heap) /\ cache \in G /\ row' = row /\ cache' = cache
      /\ "adv" \in Thread /\ me \in Objs /\ heap[me] \in Copy /\ pc["adv"] = "settle"
  BY DEF CInv, IInv, ThreadsOK, ControlOK, RefOK, Holding, CopiesIn, HeapIn, Settle, durable, Thread, me
<1>1. \E k, y : Request("adv", k, [heap EXCEPT ![me] = y], me) /\ y \in G
  BY <1>0, SettleAsks DEF Keeps, KeepsPass, Answered
<1>2. PICK k, y : Request("adv", k, [heap EXCEPT ![me] = y], me) /\ y \in G
  BY <1>1
<1>3. HeapIn(G, [heap EXCEPT ![me] = y])
  BY <1>0, <1>2, PutIn DEF ControlOK
<1>. QED  BY <1>0, <1>2, <1>3, RequestCopies

LEMMA PassCopies ==
  ASSUME CInv, NEW G, Blank \in G, CopiesIn(G), Keeps(G), PassWrote \/ PassFailed \/ PassRefused
  PROVE  CopiesIn(G)'
<1>0. /\ ControlOK /\ HeapIn(G, heap) /\ cache \in G /\ row' = row /\ cache' = cache
      /\ "adv" \in Thread /\ me \in Objs /\ tx["adv"].phase \in {"ok", "error", "refused"}
  BY DEF CInv, IInv, ThreadsOK, RefOK, CopiesIn, HeapIn, PassWrote, PassFailed, PassRefused,
         Settled, durable, Thread, me
<1>1. ASSUME NEW s, Put(heap[me], s) \in G PROVE HeapIn(G, [heap EXCEPT ![me].status = s])
  BY <1>0, <1>1, PutStatus DEF ControlOK
<1>2. ASSUME NEW k, NEW s, Put(heap[me], s) \in G,
             Request("adv", k, [heap EXCEPT ![me].status = s], me)
      PROVE  CopiesIn(G)'
  BY <1>0, <1>1, <1>2, RequestCopies
<1>3. CASE PassWrote
  <2>1. CASE /\ Settled("adv", {"open", "advance"}, "ok")
             /\ pc' = [pc EXCEPT !["adv"] = "run"]
             /\ tx' = [tx EXCEPT !["adv"] = NoTx] /\ UNCHANGED memory
    BY <1>0, <2>1, NoTxFields DEF CopiesIn, memory, ControlOK
  <2>2. CASE Settled("adv", {"open", "advance"}, "ok") /\ heap[me].cur = NSteps
             /\ Request("adv", "complete", [heap EXCEPT ![me].status = "COMPLETED"], me)
    BY <1>2, <2>2 DEF Keeps, KeepsPass, Settled
  <2>3. CASE \E q, t : EndPass(TRUE, heap, t, q)
    BY <1>0, <2>3, EndPassCopies
  <2>4. CASE Settled("adv", {"exhausted"}, "ok")
             /\ Request("adv", BeginKind(me), Compensating(heap, me), me)
    <3>. DEFINE y == Put(heap[me], "COMPENSATING")
    <3>1. y \in G /\ [y EXCEPT !.armed = FALSE] \in G
      BY <2>4 DEF Keeps, KeepsPass, KeepsPlain, Settled
    <3>2. Compensating(heap, me) = [heap EXCEPT ![me] = [y EXCEPT !.armed = FALSE]]
      BY <1>0 DEF Compensating, Put, ControlOK
    <3>. HIDE DEF y
    <3>3. HeapIn(G, [heap EXCEPT ![me] = [y EXCEPT !.armed = FALSE]])
      BY <1>0, <3>1, PutIn DEF ControlOK
    <3>4. HeapIn(G, Compensating(heap, me))
      BY <3>2, <3>3
    <3>. QED  BY <1>0, <2>4, <3>4, RequestCopies
  <2>5. CASE Settled("adv", {"exhausted"}, "ok")
             /\ Request("adv", "failstep", [heap EXCEPT ![me].status = "FAILED"], me)
    BY <1>2, <2>5 DEF Keeps, KeepsPass, Settled
  <2>. QED  BY <1>3, <2>1, <2>2, <2>3, <2>4, <2>5, Zenon DEF PassWrote, FailSaga
<1>4. CASE PassFailed
  <2>1. CASE Stay("adv")
    BY <1>0, <2>1, StayCopies
  <2>2. CASE tx["adv"].phase = "error"
             /\ Request("adv", "fail", [heap EXCEPT ![me].status = "FAILED"], me)
    BY <1>0, <1>2, <2>2 DEF Keeps, KeepsFailures, me
  <2>3. CASE Request("adv", "rearm2", heap, me)
    BY <1>0, <2>3, RequestCopies
  <2>4. CASE \E q, t : EndPass(TRUE, heap, t, q)
    BY <1>0, <2>4, EndPassCopies
  <2>5. CASE \E q, t : EndPass(TRUE, [heap EXCEPT ![me].armed = FALSE], t, q)
    <3>1. [heap[me] EXCEPT !.armed = FALSE] \in G
      BY <1>0 DEF Keeps, KeepsPlain, HeapIn
    <3>2. [heap EXCEPT ![me].armed = FALSE] = [heap EXCEPT ![me] = [heap[me] EXCEPT !.armed = FALSE]]
      BY <1>0 DEF ControlOK
    <3>3. HeapIn(G, [heap EXCEPT ![me].armed = FALSE])
      BY <1>0, <3>1, <3>2, PutIn DEF ControlOK
    <3>. QED  BY <1>0, <2>5, <3>3, EndPassCopies
  <2>. QED  BY <1>4, <2>1, <2>2, <2>3, <2>4, <2>5, Zenon DEF PassFailed, FailSaga, Settled
<1>5. CASE PassRefused
  BY <1>0, <1>5, StayCopies DEF PassRefused
<1>. QED  BY <1>3, <1>4, <1>5

LEMMA MergedCopies ==
  ASSUME CInv, NEW G, Keeps(G), NEW h \in [Objs -> Copy], HeapIn(G, h), NEW o \in Objs
  PROVE  HeapIn(G, Merged(h, o)) /\ Merged(h, o) \in [Objs -> Copy]
<1>. DEFINE c == Joined(h[o])
<1>1. Merged(h, o) = [h EXCEPT ![o] = [h[o] EXCEPT !.comp = c]]
  BY DEF Merged, Joined
<1>2. h[o] \in Copy /\ h[o] \in G /\ row \in Copy
  BY DEF HeapIn, CInv, IInv, DurableOK
<1>3. c \in [Step -> Outcome]
  BY <1>2 DEF Copy, Joined
<1>4. [h[o] EXCEPT !.comp = c] \in G
  BY <1>2 DEF Keeps, KeepsWalk
<1>. HIDE DEF c
<1>5. [h[o] EXCEPT !.comp = c] \in Copy
  BY <1>2, <1>3 DEF Copy
<1>6. HeapIn(G, [h EXCEPT ![o] = [h[o] EXCEPT !.comp = c]])
  BY <1>4, PutIn
<1>7. Merged(h, o) \in [Objs -> Copy]
  BY <1>1, <1>5
<1>. QED  BY <1>1, <1>6, <1>7

\* enterCompensation, on a copy that is in G once its status has moved.
LEMMA CompensatingCopies ==
  ASSUME CInv, NEW G, Keeps(G), NEW h \in [Objs -> Copy], HeapIn(G, h), NEW o \in Objs,
         Put(h[o], "COMPENSATING") \in G
  PROVE  HeapIn(G, Compensating(h, o))
<1>. DEFINE y == Put(h[o], "COMPENSATING")
<1>1. [y EXCEPT !.armed = FALSE] \in G
  BY DEF Keeps, KeepsPlain
<1>2. Compensating(h, o) = [h EXCEPT ![o] = [y EXCEPT !.armed = FALSE]]
  BY DEF Compensating, Put
<1>. HIDE DEF y
<1>3. HeapIn(G, [h EXCEPT ![o] = [y EXCEPT !.armed = FALSE]])
  BY <1>1, PutIn
<1>. QED  BY <1>2, <1>3

LEMMA WalkCopies ==
  ASSUME CInv, NEW G, Blank \in G, CopiesIn(G), Keeps(G),
         WalkLoad \/ WalkSync \/ WalkRecord \/ WalkFinish \/ WalkSettled
  PROVE  CopiesIn(G)'
<1>0. /\ ControlOK /\ RefOK /\ HeapIn(G, heap) /\ cache \in G /\ row' = row /\ "adv" \in Thread
      /\ heap \in [Objs -> Copy]
  BY DEF CInv, IInv, ThreadsOK, ControlOK, CopiesIn, HeapIn, WalkLoad, WalkSync, WalkRecord,
         WalkFinish, WalkSettled, durable, Thread
<1>1. CASE WalkLoad
  <2>1. cache' \in G
    BY <1>0, <1>1, LoadedCopies DEF WalkLoad
  <2>2. CASE Stay("adv")
    BY <1>0, <2>1, <2>2, StayCopies
  <2>3. CASE Memory(Loaded.h, tracked, [ref EXCEPT !["adv"] = Loaded.o]) /\ UNCHANGED tx
    <3>1. \A x \in Objs : heap'[x] \in {Loaded.h[x], Blank}
      BY <2>3 DEF Memory
    <3>2. HeapIn(G, Loaded.h)
      BY LoadedCopies
    <3>. QED  BY <1>0, <2>1, <2>3, <3>1, <3>2 DEF CopiesIn, HeapIn
  <2>. QED  BY <1>1, <2>2, <2>3 DEF WalkLoad
<1>2. CASE WalkSync
  <2>1. me \in Objs /\ cache' = cache /\ pc["adv"] = "wsync"
    BY <1>0, <1>2 DEF WalkSync, RefOK, Holding, me
  <2>2. HeapIn(G, Merged(heap, me)) /\ Merged(heap, me) \in [Objs -> Copy]
    BY <1>0, <2>1, MergedCopies
  <2>3. row.status \notin Terminal => HeapIn(G, Compensating(Merged(heap, me), me))
    <3>1. row.status \notin Terminal => Put(Merged(heap, me)[me], "COMPENSATING") \in G
      BY <2>1 DEF Keeps, KeepsWalk
    <3>. QED  BY <2>1, <2>2, <3>1, CompensatingCopies
  <2>4. \/ Stay("adv")
        \/ row.status \notin Terminal /\ Request("adv", "wbegin", Compensating(Merged(heap, me), me), me)
        \/ heap' = Merged(heap, me) /\ UNCHANGED tx
    BY <1>2 DEF WalkSync
  <2>5. CASE heap' = Merged(heap, me) /\ UNCHANGED tx
    BY <1>0, <2>1, <2>2, <2>5 DEF CopiesIn, HeapIn
  <2>. QED  BY <1>0, <2>1, <2>3, <2>4, <2>5, StayCopies, RequestCopies
<1>3. CASE WalkRecord
  <2>. DEFINE i == Last(NextUndo(heap, me))
              h == [heap EXCEPT ![me].comp[i] = out]
              c == [heap[me].comp EXCEPT ![i] = out]
  <2>0. [heap[me] EXCEPT !.comp = c] \in G
    BY <1>3 DEF Keeps, KeepsWalk, Noted
  <2>1. me \in Objs /\ cache' = cache
    BY <1>0, <1>3 DEF WalkRecord, RefOK, Holding, me
  <2>2. heap[me].comp \in [Step -> Outcome] /\ out \in Outcome /\ heap[me] \in Copy
        /\ heap[me] \in G
    BY <1>0, <2>1 DEF Copy, CInv, IInv, WorldOK, HeapIn
  <2>. HIDE DEF i
  <2>3. c \in [Step -> Outcome]
    BY <2>2
  <2>4. h = [heap EXCEPT ![me] = [heap[me] EXCEPT !.comp = c]]
    BY <1>0, <2>1
  <2>. HIDE DEF c
  <2>6. [heap[me] EXCEPT !.comp = c] \in Copy
    BY <2>2, <2>3 DEF Copy
  <2>7. HeapIn(G, h) /\ h \in [Objs -> Copy]
    BY <1>0, <2>0, <2>1, <2>4, <2>6, PutIn
  <2>8. \/ Leave("adv", h, tracked) \/ Request("adv", "wprogress", Merged(h, me), me)
    BY <1>3 DEF WalkRecord, i
  <2>. HIDE DEF h
  <2>9. HeapIn(G, Merged(h, me))
    BY <2>1, <2>7, MergedCopies
  <2>. QED  BY <1>0, <2>1, <2>7, <2>8, <2>9, LeaveCopies, RequestCopies
<1>4. CASE WalkFinish
  <2>1. me \in Objs /\ cache' = cache /\ pc["adv"] = "wundo"
    BY <1>0, <1>4 DEF WalkFinish, RefOK, Holding, me
  <2>2. HeapIn(G, [heap EXCEPT ![me].status = "COMPENSATED"])
    <3>1. Put(heap[me], "COMPENSATED") \in G
      BY <2>1 DEF Keeps, KeepsWalk
    <3>. QED  BY <1>0, <2>1, <3>1, PutStatus
  <2>3. \/ Stay("adv")
        \/ Request("adv", "wdone", [heap EXCEPT ![me].status = "COMPENSATED"], me)
    BY <1>4 DEF WalkFinish
  <2>. QED  BY <1>0, <2>1, <2>2, <2>3, StayCopies, RequestCopies
<1>5. CASE WalkSettled
  <2>1. cache' = cache
    BY <1>5 DEF WalkSettled
  <2>2. \/ Stay("adv") \/ StopTracking("adv")
        \/ tx' = [tx EXCEPT !["adv"] = NoTx] /\ UNCHANGED memory
    BY <1>5 DEF WalkSettled
  <2>3. CASE tx' = [tx EXCEPT !["adv"] = NoTx] /\ UNCHANGED memory
    BY <1>0, <2>1, <2>3, NoTxFields DEF CopiesIn, memory, ControlOK
  <2>. QED  BY <1>0, <2>1, <2>2, <2>3, StayCopies
<1>. QED  BY <1>1, <1>2, <1>3, <1>4, <1>5

LEMMA OperatorCopies ==
  ASSUME CInv, NEW G, Blank \in G, CopiesIn(G), Keeps(G),
         ContinueSaga \/ WorkerEvent \/ CompensateSaga \/ CompensateSettled
  PROVE  CopiesIn(G)'
<1>0. /\ ControlOK /\ HeapIn(G, heap) /\ cache \in G /\ row' = row /\ "op" \in Thread
      /\ heap \in [Objs -> Copy]
  BY DEF CInv, IInv, ThreadsOK, ControlOK, CopiesIn, HeapIn, ContinueSaga, WorkerEvent,
         CompensateSaga, CompensateSettled, durable, Thread
<1>1. CASE ContinueSaga \/ WorkerEvent
  <2>1. cache' = Rewarmed /\ UNCHANGED <<heap, tx>>
    BY <1>1 DEF ContinueSaga, WorkerEvent, memory
  <2>. QED  BY <1>0, <2>1, LoadedCopies DEF CopiesIn
<1>2. CASE CompensateSaga
  <2>. DEFINE h == Loaded.h
              o == Loaded.o
  <2>1. /\ HeapIn(G, h) /\ h[o] \in G /\ o \in Objs /\ h \in [Objs -> Copy] /\ cache' \in G
        /\ h[o].status \in {"FAILED", "COMPENSATING"}
    BY <1>2, LoadedCopies DEF CompensateSaga
  <2>2. \E k : Request("op", k, Compensating(h, o), o)
    BY <1>2 DEF CompensateSaga
  <2>. HIDE DEF h, o
  <2>3. HeapIn(G, Compensating(h, o))
    <3>1. Put(h[o], "COMPENSATING") \in G
      BY <2>1 DEF Keeps, KeepsWalk
    <3>. QED  BY <2>1, <3>1, CompensatingCopies
  <2>. QED  BY <1>0, <2>1, <2>2, <2>3, RequestCopies
<1>3. CASE CompensateSettled
  <2>1. /\ Memory(heap, tracked, [ref EXCEPT !["op"] = NoObj])
        /\ tx' = [tx EXCEPT !["op"] = NoTx] /\ pc' = [pc EXCEPT !["op"] = "idle"]
        /\ cache' = cache
    BY <1>3 DEF CompensateSettled
  <2>2. Freed("op", heap, tracked)
    BY <1>0, <2>1, FreedEffect
  <2>. QED  BY <1>0, <2>1, <2>2, FreedCopies
<1>. QED  BY <1>1, <1>2, <1>3

LEMMA RestartCopies ==
  ASSUME CInv, NEW G, Blank \in G, CopiesIn(G), Keeps(G),
         Crash \/ ShutdownSettled \/ Boot \/ RewarmSettled \/ Shutdown \/ CacheExpires
  PROVE  CopiesIn(G)'
<1>0. /\ ControlOK /\ HeapIn(G, heap) /\ cache \in G /\ row' = row /\ row \in G
      /\ heap \in [Objs -> Copy] /\ {"boot", "stop"} \subseteq Thread
  BY DEF CInv, IInv, ThreadsOK, ControlOK, CopiesIn, HeapIn, Crash, ShutdownSettled, Boot,
         RewarmSettled, Shutdown, CacheExpires, durable, Thread
<1>1. CASE Crash \/ ShutdownSettled
  <2>1. ProcessGone /\ cache' = cache
    BY <1>1 DEF Crash, ShutdownSettled
  <2>. QED  BY <1>0, <2>1, NoTxFields DEF ProcessGone, CopiesIn
<1>2. CASE Boot
  <2>1. cache' = cache /\ Fresh \in Objs
    BY <1>0, <1>2, FreshType DEF Boot, ControlOK
  <2>2. CASE UNCHANGED <<heap, tx>>
    BY <1>0, <2>1, <2>2 DEF CopiesIn
  <2>3. CASE /\ heap' = [heap EXCEPT ![Fresh] = row]
             /\ \/ tx' = [tx EXCEPT !["boot"] = NewTx("rewarm", heap', Fresh, {})]
                \/ tx' = [tx EXCEPT !["boot"] = NoTx]
    <3>1. \A o \in Objs : heap'[o] \in G
      BY <1>0, <2>1, <2>3 DEF HeapIn
    <3>2. \A x \in {NoTx, NewTx("rewarm", heap', Fresh, {})} : x.copy \in G /\ x.cols \in G
      BY <2>1, <3>1, NoTxFields, NewTxFields
    <3>3. \A a \in Thread : tx'[a] \in {tx[a], NoTx, NewTx("rewarm", heap', Fresh, {})}
      BY <1>0, <2>3 DEF ControlOK
    <3>. QED  BY <1>0, <2>1, <3>1, <3>2, <3>3 DEF CopiesIn
  <2>. QED  BY <1>2, <2>2, <2>3 DEF Boot
<1>3. CASE RewarmSettled
  BY <1>0, <1>3, StayCopies DEF RewarmSettled
<1>4. CASE Shutdown
  <2>. DEFINE h == [heap EXCEPT ![tracked].status = "PENDING"]
  <2>1. tracked \in Objs /\ cache' = cache
    BY <1>0, <1>4 DEF Shutdown, ControlOK
  <2>2. HeapIn(G, h)
    <3>1. Put(heap[tracked], "PENDING") \in G
      BY <1>0, <2>1 DEF Keeps, KeepsPlain, HeapIn
    <3>. QED  BY <1>0, <2>1, <3>1, PutStatus
  <2>3. Request("stop", "handoff", h, tracked)
    BY <1>4 DEF Shutdown
  <2>. HIDE DEF h
  <2>. QED  BY <1>0, <2>1, <2>2, <2>3, RequestCopies
<1>5. CASE CacheExpires
  <2>1. cache' = Blank /\ UNCHANGED <<heap, tx>>
    BY <1>5 DEF CacheExpires, control
  <2>. QED  BY <1>0, <2>1 DEF CopiesIn
<1>. QED  BY <1>1, <1>2, <1>3, <1>4, <1>5

\* There is no other way for a copy to change.
LEMMA NextCopies ==
  ASSUME CInv, NEW G, Blank \in G, CopiesIn(G), Keeps(G), [Next]_vars
  PROVE  CopiesIn(G)'
<1>0. {"adv", "chk", "op", "boot", "stop"} = Thread
  BY DEF Thread
<1>1. ASSUME NEW a \in Thread, Write(a) \/ Liveness(a) \/ FailSettled(a) PROVE CopiesIn(G)'
  BY <1>1, WriteCopies, LivenessCopies, FailSettledCopies
<1>2. CASE /\ UNCHANGED <<row, cache, heap, tx>>
  BY <1>2 DEF CopiesIn
<1>3. CASE Advance
  <2>1. CASE Execute \/ WalkStatus \/ Undo
    <3>1. Stay("adv") \/ UNCHANGED <<heap, tx>>
      BY <2>1 DEF Execute, WalkStatus, Undo, memory
    <3>2. row' = row /\ cache' = cache /\ cache \in G
      BY <2>1 DEF Execute, WalkStatus, Undo, durable, CopiesIn
    <3>. QED  BY <1>0, <1>2, <3>1, <3>2, StayCopies
  <2>. QED  BY <1>0, <1>1, <1>3, <2>1, LoadCopies, SettleCopies, PassCopies, WalkCopies DEF Advance
<1>4. CASE Check
  <2>1. CASE CheckerTick
    <3>1. /\ tracked \in {tracked, me} \cap Objs /\ row' = row /\ cache' = cache
          /\ CheckTimeout("chk", tracked)
      BY <2>1 DEF CheckerTick, durable, CInv, IInv, ThreadsOK, ControlOK
    <3>. QED  BY <1>0, <3>1, CheckTimeoutCopies
  <2>. QED  BY <1>0, <1>1, <1>4, <2>1 DEF Check
<1>5. CASE Dispatch \/ RetryScan \/ \E horizon \in Horizon : Tick(horizon)
  <2>1. UNCHANGED <<row, cache, heap, tx>>
    BY <1>5 DEF Dispatch, DispatchForward, DispatchWalk, RetryScan, Tick, durable, memory, control
  <2>. QED  BY <1>2, <2>1
<1>6. CASE Operate
  BY <1>0, <1>1, <1>6, StartCopies, OperatorCopies DEF Operate
<1>7. CASE Restart
  BY <1>0, <1>1, <1>7, RestartCopies DEF Restart
<1>8. CASE ContinueSaga \/ CompensateSaga \/ WorkerEvent
  BY <1>8, OperatorCopies
<1>9. CASE StartSaga \/ Crash \/ Shutdown \/ CacheExpires
  BY <1>9, StartCopies, RestartCopies
<1>10. CASE UNCHANGED vars
  BY <1>2, <1>10 DEF vars
<1>. QED  BY <1>3, <1>4, <1>5, <1>6, <1>7, <1>8, <1>9, <1>10 DEF Next

-----------------------------------------------------------------------------
(* What the other threads leave of the advancer's turn. *)

AdvKept ==
  /\ pc'["adv"] = pc["adv"] /\ ref'["adv"] = ref["adv"]
  /\ UNCHANGED <<out, todo>>
  /\ tx'["adv"].phase = tx["adv"].phase /\ tx'["adv"].kind = tx["adv"].kind
  /\ tx'["adv"].copy = tx["adv"].copy /\ tx'["adv"].cols = tx["adv"].cols
  /\ tx'["adv"].was = tx["adv"].was
  /\ ref["adv"] \in Objs => heap'[me].cur = heap[me].cur /\ heap'[me].comp = heap[me].comp
AdvIdle == pc'["adv"] \in {"idle", "load", "wstatus"} /\ tx'["adv"] = NoTx

\* Memory in which the advancer's copy is at the same step, with the same undo record.
SameTurn(h) == SameStep(h) /\ (ref["adv"] \in Objs => h[me].comp = heap[me].comp)

LEMMA RequestAdv ==
  ASSUME ControlOK, NEW a \in Thread \ {"adv"}, NEW k, NEW h, NEW o \in Objs, Request(a, k, h, o),
         SameTurn(h), UNCHANGED <<out, todo>>
  PROVE  AdvKept
<1>1. /\ ref'["adv"] = ref["adv"] /\ tx'["adv"] = tx["adv"] /\ pc'["adv"] = pc["adv"]
      /\ ref["adv"] \in Objs => heap'[ref["adv"]] = h[ref["adv"]]
  BY RequestEffect DEF Thread
<1>. QED  BY <1>1 DEF AdvKept, SameTurn, SameStep, me

LEMMA FreedAdv ==
  ASSUME NEW a \in Thread \ {"adv"}, NEW h, NEW t, Freed(a, h, t), SameTurn(h),
         UNCHANGED <<out, todo>>
  PROVE  AdvKept
<1>1. /\ ref'["adv"] = ref["adv"] /\ tx'["adv"] = tx["adv"] /\ pc'["adv"] = pc["adv"]
      /\ ref["adv"] \in Objs => heap'[ref["adv"]] = h[ref["adv"]]
  BY DEF Freed, Thread
<1>. QED  BY <1>1 DEF AdvKept, SameTurn, SameStep, me

LEMMA StayAdv ==
  ASSUME ControlOK, NEW a \in Thread \ {"adv"}, Stay(a) \/ StopTracking(a), UNCHANGED <<out, todo>>
  PROVE  AdvKept
<1>1. PICK t : Freed(a, heap, t)
  BY LeaveEffect DEF Stay, StopTracking
<1>. QED  BY <1>1, FreedAdv DEF SameTurn, SameStep

LEMMA WriteAdv ==
  ASSUME CInv, NEW a \in Thread, Write(a)
  PROVE  /\ \A b \in Thread \ {a} :
              /\ tx'[b].phase = tx[b].phase /\ tx'[b].kind = tx[b].kind
              /\ tx'[b].copy = tx[b].copy /\ tx'[b].cols = tx[b].cols /\ tx'[b].was = tx[b].was
         /\ tx'[a].kind = tx[a].kind /\ tx'[a].was = tx[a].was /\ tx'[a].copy = tx[a].copy
         /\ UNCHANGED <<heap, tracked, ref, parked, pc, claim, queue, up, out, todo, eff>>
<1>0. ControlOK
  BY DEF CInv, IInv, ThreadsOK
<1>1. UNCHANGED <<heap, tracked, ref, parked, pc, claim, queue, up, out, todo, eff>>
  BY DEF Write, Capture, Commit, Refuse, DbError, durable, world
<1>2. CASE Capture(a)
  <2>1. tx' = [tx EXCEPT ![a] = [[tx[a] EXCEPT !.phase = "sent"] EXCEPT !.cols = heap[ref[a]]]]
    BY <1>2 DEF Capture
  <2>2. tx'[a] = [[tx[a] EXCEPT !.phase = "sent"] EXCEPT !.cols = heap[ref[a]]]
        /\ \A b \in Thread \ {a} : tx'[b] = tx[b]
    BY <1>0, <2>1 DEF ControlOK
  <2>3. tx'[a].kind = tx[a].kind /\ tx'[a].was = tx[a].was /\ tx'[a].copy = tx[a].copy
    BY <1>0, <2>2 DEF ControlOK, Tx
  <2>. QED  BY <1>1, <2>2, <2>3
<1>3. CASE \E p \in {"ok", "refused", "error"} : tx' = Done(a, p)
  <2>1. PICK p \in {"ok", "refused", "error"} : tx' = Done(a, p)
    BY <1>3
  <2>2. tx'[a] = [tx[a] EXCEPT !.phase = p]
        /\ \A b \in Thread \ {a} : tx'[b] = [tx[b] EXCEPT !.ahead = tx[b].ahead \ {a}]
    BY <2>1 DEF Done
  <2>3. /\ tx'[a].kind = tx[a].kind /\ tx'[a].was = tx[a].was /\ tx'[a].copy = tx[a].copy
    BY <1>0, <2>2 DEF ControlOK, Tx
  <2>4. ASSUME NEW b \in Thread \ {a}
        PROVE  /\ tx'[b].phase = tx[b].phase /\ tx'[b].kind = tx[b].kind
               /\ tx'[b].copy = tx[b].copy /\ tx'[b].cols = tx[b].cols /\ tx'[b].was = tx[b].was
    <3>1. tx[b] \in Tx /\ tx'[b] = [tx[b] EXCEPT !.ahead = tx[b].ahead \ {a}]
      BY <1>0, <2>2 DEF ControlOK
    <3>. QED  BY <3>1 DEF Tx
  <2>. QED  BY <1>1, <2>3, <2>4
<1>. QED  BY <1>2, <1>3 DEF Write, Commit, Refuse, DbError

\* The moments of a write, as its own thread and the row see them.
LEMMA WriteEffect ==
  ASSUME CInv, NEW a \in Thread, Write(a)
  PROVE  \/ /\ Capture(a) /\ tx[a].phase = "begun" /\ tx[a].ahead = {}
            /\ tx'[a].phase = "sent" /\ tx'[a].cols = heap[ref[a]] /\ row' = row
         \/ /\ Commit(a) /\ tx[a].phase = "sent" /\ Admits(tx[a].kind, row.status)
            /\ tx'[a].phase \in {"ok", "error"} /\ row' = tx[a].cols
         \/ /\ Refuse(a) /\ tx[a].phase = "sent" /\ ~Admits(tx[a].kind, row.status)
            /\ tx'[a].phase = "refused" /\ row' = row
         \/ /\ DbError(a) /\ tx[a].phase \in {"begun", "sent"}
            /\ tx'[a].phase = "error" /\ row' = row
<1>0. ControlOK /\ tx[a] \in Tx
  BY DEF CInv, IInv, ThreadsOK, ControlOK
<1>1. CASE Capture(a)
  <2>1. /\ tx' = [tx EXCEPT ![a] = [[tx[a] EXCEPT !.phase = "sent"] EXCEPT !.cols = heap[ref[a]]]]
        /\ row' = row /\ tx[a].phase = "begun" /\ tx[a].ahead = {}
    BY <1>1 DEF Capture, durable
  <2>2. tx'[a] = [[tx[a] EXCEPT !.phase = "sent"] EXCEPT !.cols = heap[ref[a]]]
    BY <1>0, <2>1 DEF ControlOK
  <2>3. tx'[a].phase = "sent" /\ tx'[a].cols = heap[ref[a]]
    BY <1>0, <2>2 DEF Tx
  <2>. QED  BY <1>1, <2>1, <2>3
<1>2. ASSUME NEW p \in {"ok", "refused", "error"}, tx' = Done(a, p) PROVE tx'[a].phase = p
  <2>1. tx'[a] = [tx[a] EXCEPT !.phase = p]
    BY <1>2 DEF Done
  <2>. QED  BY <1>0, <2>1 DEF Tx
<1>3. CASE Commit(a)
  <2>1. /\ tx[a].phase = "sent" /\ Admits(tx[a].kind, row.status) /\ row' = tx[a].cols
        /\ tx' = Done(a, "ok") \/ tx' = Done(a, "error")
    BY <1>3 DEF Commit
  <2>. QED  BY <1>2, <1>3, <2>1
<1>4. CASE Refuse(a)
  BY <1>2, <1>4 DEF Refuse, durable
<1>5. CASE DbError(a)
  BY <1>2, <1>5 DEF DbError, durable
<1>. QED  BY <1>1, <1>3, <1>4, <1>5 DEF Write

LEMMA CheckAdv == ASSUME CInv, Check PROVE AdvKept
<1>0. /\ ControlOK /\ "chk" \in Thread \ {"adv"} /\ {"chk", "adv"} \subseteq Thread
      /\ heap \in [Objs -> Copy] /\ row \in Copy /\ RefOK
  BY DEF CInv, IInv, ThreadsOK, ControlOK, DurableOK, Thread
<1>1. CASE Write("chk")
  BY <1>0, <1>1, WriteAdv DEF AdvKept, me
<1>2. ASSUME NEW o \in Objs, NEW h \in [Objs -> Copy], SameTurn(h), FailSaga("chk", "timeout", h, o),
             UNCHANGED <<out, todo>>
      PROVE  AdvKept
  <2>. DEFINE g == [h EXCEPT ![o].status = "FAILED"]
  <2>1. \A x \in Objs : g[x].cur = h[x].cur /\ g[x].comp = h[x].comp
    BY DEF Copy
  <2>2. SameTurn(g)
    BY <1>2, <2>1 DEF SameTurn, SameStep
  <2>3. Request("chk", "timeout", g, o)
    BY <1>2 DEF FailSaga
  <2>. HIDE DEF g
  <2>. QED  BY <1>0, <1>2, <2>2, <2>3, RequestAdv
<1>3. CASE CheckerTick
  <2>1. tracked \in Objs /\ UNCHANGED <<out, todo>> /\ SameTurn(heap)
    BY <1>0, <1>3 DEF CheckerTick, ControlOK, world, SameTurn, SameStep
  <2>2. CASE FailSaga("chk", "timeout", heap, tracked)
    BY <1>0, <1>2, <2>1, <2>2
  <2>3. CASE StopTracking("chk")
    BY <1>0, <2>1, <2>3, StayAdv
  <2>4. CASE /\ ref' = [ref EXCEPT !["chk"] = tracked]
             /\ pc' = [pc EXCEPT !["chk"] = "liveness"]
             /\ UNCHANGED <<heap, tx>>
    BY <1>0, <2>1, <2>4 DEF AdvKept, ControlOK, me
  <2>. QED  BY <1>3, <2>2, <2>3, <2>4 DEF CheckerTick, CheckTimeout
<1>4. CASE Liveness("chk")
  <2>. DEFINE track == [heap EXCEPT ![Fresh] = row]
  <2>1. /\ track \in [Objs -> Copy] /\ SameTurn(track) /\ Fresh \in Objs
        /\ UNCHANGED <<out, todo>>
    BY <1>0, <1>4, FreshType DEF ControlOK, SameTurn, SameStep, me, Liveness
  <2>2. \/ Stay("chk") \/ StopTracking("chk") \/ Leave("chk", track, Fresh)
        \/ FailSaga("chk", "timeout", track, Fresh)
    BY <1>4 DEF Liveness
  <2>. HIDE DEF track
  <2>3. CASE Leave("chk", track, Fresh)
    BY <1>0, <2>1, <2>3, LeaveEffect, FreedAdv
  <2>. QED  BY <1>0, <1>2, <2>1, <2>2, <2>3, StayAdv
<1>5. CASE FailSettled("chk")
  <2>. DEFINE o == ref["chk"]
              restored == [heap EXCEPT ![o].status = tx["chk"].was]
              failed == [heap EXCEPT ![o].status = "FAILED"]
  <2>1. o \in Objs /\ UNCHANGED <<out, todo>>
    BY <1>0, <1>5 DEF FailSettled, Settled, RefOK, world
  <2>2. /\ \A x \in Objs : restored[x].cur = heap[x].cur /\ restored[x].comp = heap[x].comp
        /\ \A x \in Objs : failed[x].cur = heap[x].cur /\ failed[x].comp = heap[x].comp
    BY <1>0 DEF Copy
  <2>3. SameTurn(heap) /\ SameTurn(restored) /\ SameTurn(failed)
    BY <2>2 DEF SameTurn, SameStep
  <2>4. \/ \E t : Leave("chk", heap, t) \/ Leave("chk", restored, t)
    <3>1. tx["chk"].phase # "none" => tx["chk"].kind = "timeout"
      BY <1>0 DEF CInv, Order, Writing, KindsOf
    <3>. QED  BY <1>5, <3>1 DEF FailSettled, Settled
  <2>. HIDE DEF restored, failed
  <2>. QED  BY <1>0, <2>1, <2>3, <2>4, LeaveEffect, FreedAdv, RequestAdv
<1>. QED  BY <1>1, <1>3, <1>4, <1>5 DEF Check

LEMMA OthersAdv ==
  ASSUME CInv,
         \/ Check \/ Dispatch \/ Operate \/ Restart \/ StartSaga \/ ContinueSaga \/ CompensateSaga
         \/ WorkerEvent \/ RetryScan \/ Crash \/ Shutdown \/ CacheExpires
         \/ (\E horizon \in Horizon : Tick(horizon)) \/ UNCHANGED vars
  PROVE  AdvKept \/ AdvIdle
<1>0. /\ ControlOK /\ {"adv", "op", "boot", "stop"} \subseteq Thread
      /\ heap \in [Objs -> Copy] /\ row \in Copy /\ RefOK
  BY DEF CInv, IInv, ThreadsOK, ControlOK, DurableOK, Thread
<1>1. ASSUME NEW a \in Thread \ {"adv"}, Write(a) PROVE AdvKept
  BY <1>0, <1>1, WriteAdv DEF AdvKept, me
<1>2. CASE UNCHANGED <<heap, ref, pc, tx, out, todo>>
  BY <1>2 DEF AdvKept, me
<1>3. CASE Dispatch
  <2>1. /\ UNCHANGED <<heap, ref, tx, out, todo>>
        /\ \/ UNCHANGED pc
           \/ claim.dir = "none" /\ \E l \in {"load", "wstatus"} : pc' = [pc EXCEPT !["adv"] = l]
    BY <1>3 DEF Dispatch, DispatchForward, DispatchWalk, memory, world
  <2>2. CASE claim.dir = "none" /\ \E l \in {"load", "wstatus"} : pc' = [pc EXCEPT !["adv"] = l]
    <3>1. pc'["adv"] \in {"load", "wstatus"}
      BY <1>0, <2>2 DEF ControlOK
    <3>2. pc["adv"] # "write"
      BY <1>0, <2>2 DEF CInv, Order, Claims, Writing, KindsOf
    <3>. QED  BY <1>0, <2>1, <3>1, <3>2 DEF AdvIdle, CInv, Order, Writing
  <2>. QED  BY <1>2, <2>1, <2>2
<1>4. CASE Operate \/ StartSaga \/ CompensateSaga
  <2>1. UNCHANGED <<out, todo>> \/ Write("op")
    BY <1>4 DEF Operate, StartSettled, CompensateSettled, StartSaga, CompensateSaga, world
  <2>2. CASE StartSettled \/ CompensateSettled
    <3>1. /\ \E t : Memory(heap, t, [ref EXCEPT !["op"] = NoObj])
          /\ tx' = [tx EXCEPT !["op"] = NoTx] /\ pc' = [pc EXCEPT !["op"] = "idle"]
          /\ UNCHANGED <<out, todo>>
      BY <2>2 DEF StartSettled, CompensateSettled, world
    <3>2. \E t : Freed("op", heap, t)
      BY <1>0, <3>1, FreedEffect
    <3>. QED  BY <1>0, <3>1, <3>2, FreedAdv DEF SameTurn, SameStep
  <2>3. CASE StartSaga
    <3>. DEFINE h == [heap EXCEPT ![Fresh] = [Blank EXCEPT !.status = "PENDING"]]
    <3>1. Fresh \in Objs /\ SameTurn(h)
      BY <1>0, FreshType DEF ControlOK, SameTurn, SameStep, me
    <3>2. Request("op", "start", h, Fresh) /\ UNCHANGED <<out, todo>>
      BY <2>3 DEF StartSaga, world
    <3>. HIDE DEF h
    <3>. QED  BY <1>0, <3>1, <3>2, RequestAdv
  <2>4. CASE CompensateSaga
    <3>. DEFINE h == Loaded.h
                o == Loaded.o
    <3>1. /\ o \in Objs /\ h \in [Objs -> Copy]
          /\ ref["adv"] \in Objs => h[me] = heap[me]
      BY <1>0, LoadedType DEF CInv, IInv, me
    <3>2. (\E k : Request("op", k, Compensating(h, o), o)) /\ UNCHANGED <<out, todo>>
      BY <2>4 DEF CompensateSaga
    <3>. HIDE DEF h, o
    <3>3. \A x \in Objs : Compensating(h, o)[x].cur = h[x].cur /\ Compensating(h, o)[x].comp = h[x].comp
      BY <3>1 DEF Compensating
    <3>4. SameTurn(Compensating(h, o))
      BY <3>1, <3>3 DEF SameTurn, SameStep, me
    <3>. QED  BY <1>0, <3>1, <3>2, <3>4, RequestAdv
  <2>. QED  BY <1>0, <1>1, <1>4, <2>2, <2>3, <2>4 DEF Operate
<1>5. CASE Crash \/ ShutdownSettled
  BY <1>0, <1>5 DEF Crash, ShutdownSettled, ProcessGone, AdvIdle
<1>6. CASE Restart
  <2>1. CASE Boot
    <3>1. pc["adv"] = "idle" /\ tx["adv"] = NoTx
      BY <1>0, <2>1 DEF CInv, Order, Gone, Writing, Boot
    <3>2. pc'["adv"] = pc["adv"] /\ tx'["adv"] = tx["adv"]
      <4>1. /\ tx' = tx \/ \E x : tx' = [tx EXCEPT !["boot"] = x]
            /\ pc' = pc \/ \E x : pc' = [pc EXCEPT !["boot"] = x]
        BY <2>1 DEF Boot
      <4>. QED  BY <1>0, <4>1 DEF ControlOK
    <3>. QED  BY <3>1, <3>2 DEF AdvIdle
  <2>2. CASE RewarmSettled
    <3>1. Stay("boot") /\ UNCHANGED <<out, todo>>
      BY <2>2 DEF RewarmSettled, world
    <3>. QED  BY <1>0, <3>1, StayAdv
  <2>. QED  BY <1>0, <1>1, <1>5, <1>6, <2>1, <2>2 DEF Restart
<1>7. CASE Shutdown
  <2>. DEFINE h == [heap EXCEPT ![tracked].status = "PENDING"]
  <2>1. tracked \in Objs /\ UNCHANGED <<out, todo>> /\ Request("stop", "handoff", h, tracked)
    BY <1>0, <1>7 DEF Shutdown, ControlOK
  <2>2. \A x \in Objs : h[x].cur = heap[x].cur /\ h[x].comp = heap[x].comp
    BY <1>0 DEF Copy
  <2>3. SameTurn(h)
    BY <2>2 DEF SameTurn, SameStep
  <2>. HIDE DEF h
  <2>. QED  BY <1>0, <2>1, <2>3, RequestAdv
<1>8. CASE \/ ContinueSaga \/ WorkerEvent \/ RetryScan \/ CacheExpires
           \/ (\E horizon \in Horizon : Tick(horizon)) \/ UNCHANGED vars
  BY <1>2, <1>8 DEF ContinueSaga, WorkerEvent, RetryScan, CacheExpires, Tick, memory, world,
     control, vars
<1>. QED  BY <1>3, <1>4, <1>5, <1>6, <1>7, <1>8, CheckAdv

-----------------------------------------------------------------------------
(* What a copy says of its steps. *)

\* The steps behind the cursor are exactly those recorded as succeeded, each has
\* had its effect, and a copy that reads COMPLETED has all of them behind it.
Sound(x) ==
  /\ \A i \in Step : x.res[i] = "succeeded" <=> i < x.cur
  /\ \A i \in Step : i < x.cur => eff[i] # "absent"
  /\ x.status = "COMPLETED" => x.cur = NSteps
SoundCopies == {x \in Copy : Sound(x)}

\* A cell that nobody holds is empty.
Collected == \A o \in Objs : Unused(o) => heap[o] = Blank

\* What failSaga puts back reads COMPLETED only for a pass that had completed.
WasOK ==
  /\ tx["chk"].was # "COMPLETED"
  /\ tx["adv"].kind \in FailKinds /\ tx["adv"].was = "COMPLETED" => heap[me].cur = NSteps

\* A step that has just answered that it is done has had its effect.
Landed == pc["adv"] = "settle" /\ out = "succeeded" => eff[heap[me].cur] # "absent"

Records == CopiesIn(SoundCopies) /\ Collected /\ WasOK /\ Landed

LEMMA SoundKept ==
  ASSUME CInv, Records
  PROVE  Blank \in SoundCopies /\ Keeps(SoundCopies)
<1>. USE DEF Records
<1>0. /\ ControlOK /\ RefOK /\ StepOK /\ {"adv", "chk"} \subseteq Thread /\ NSteps \in Nat
      /\ heap \in [Objs -> Copy] /\ row \in Copy /\ row \in SoundCopies
      /\ \A o \in Objs : heap[o] \in SoundCopies
  BY StepsAssumption DEF CInv, IInv, DurableOK, ThreadsOK, ControlOK, CopiesIn, Thread
<1>1. \A x \in SoundCopies : x \in Copy /\ Sound(x)
  BY DEF SoundCopies
<1>2. Blank \in SoundCopies
  BY BlankType, StepsAssumption DEF SoundCopies, Sound, Blank, Step
<1>3. ASSUME NEW x \in SoundCopies, NEW s \in Status, s = "COMPLETED" => x.cur = NSteps
      PROVE  Put(x, s) \in SoundCopies
  <2>1. /\ Put(x, s) \in Copy /\ Put(x, s).cur = x.cur /\ Put(x, s).res = x.res
        /\ Put(x, s).status = s
    BY <1>1, <1>3 DEF Put, Copy
  <2>. QED  BY <1>1, <1>3, <2>1 DEF SoundCopies, Sound
<1>4. {"PENDING", "RUNNING", "FAILED", "COMPENSATING", "COMPENSATED"} \subseteq Status \ {"COMPLETED"}
  BY DEF Status, Terminal
<1>5. KeepsPlain(SoundCopies)
  <2>1. ASSUME NEW x \in SoundCopies PROVE [x EXCEPT !.armed = FALSE] \in SoundCopies
    <3>. DEFINE y == [x EXCEPT !.armed = FALSE]
    <3>1. y \in Copy /\ y.cur = x.cur /\ y.res = x.res /\ y.status = x.status
      BY <1>1, <2>1 DEF Copy
    <3>. QED  BY <1>1, <2>1, <3>1 DEF SoundCopies, Sound
  <2>. QED  BY <1>2, <1>3, <1>4, <2>1 DEF KeepsPlain
<1>6. KeepsFailures(SoundCopies)
  <2>1. ASSUME NEW a \in Thread, tx[a].phase # "none"
        PROVE  /\ Put(heap[ref[a]], "FAILED") \in SoundCopies
               /\ tx[a].kind \in FailKinds => Put(heap[ref[a]], tx[a].was) \in SoundCopies
    <3>1. ref[a] \in Objs /\ tx[a].was \in Status
      BY <1>0, <2>1 DEF RefOK, ControlOK, Tx
    <3>2. tx[a].kind \in FailKinds /\ tx[a].was = "COMPLETED" => heap[ref[a]].cur = NSteps
      <4>1. tx[a].kind \in FailKinds => a \in {"adv", "chk"}
        BY <2>1 DEF CInv, Order, Writing, KindsOf, FailKinds, Thread
      <4>. QED  BY <4>1 DEF WasOK, me
    <3>. QED  BY <1>0, <1>3, <1>4, <3>1, <3>2
  <2>. QED  BY <1>0, <1>3, <1>4, <2>1 DEF KeepsFailures
<1>7. KeepsPass(SoundCopies)
  <2>. DEFINE i == heap[me].cur
              x == [heap[me] EXCEPT !.res = [heap[me].res EXCEPT ![i] = out]]
  <2>1. ASSUME pc["adv"] = "settle"
        PROVE  /\ ~Spends(out) /\ ~Advances(out) => [x EXCEPT !.armed = TRUE] \in SoundCopies
               /\ Spends(out) => x \in SoundCopies
               /\ Advances(out) => [x EXCEPT !.cur = i + 1, !.retry = 0, !.armed = FALSE] \in SoundCopies
               /\ x \in Copy
    <3>1. /\ me \in Objs /\ heap[me] \in Copy /\ Sound(heap[me]) /\ i < NSteps /\ i \in Nat /\ i \in Step
          /\ out \in Outcome /\ heap[me].status # "COMPLETED"
      BY <1>0, <1>1, <2>1 DEF RefOK, StepOK, Holding, me, CInv, IInv, WorldOK, Copy, Step, Sound
    <3>2. x \in Copy /\ x.cur = i /\ x.status = heap[me].status /\ x.res[i] = out
          /\ \A j \in Step \ {i} : x.res[j] = heap[me].res[j]
      BY <3>1 DEF Copy
    <3>. HIDE DEF x
    <3>3. out # "succeeded" => Sound(x)
      BY <3>1, <3>2 DEF Sound, Step
    <3>4. [x EXCEPT !.armed = TRUE] \in Copy /\ (out # "succeeded" => Sound([x EXCEPT !.armed = TRUE]))
      BY <3>2, <3>3 DEF Copy, Sound
    <3>5. CASE Advances(out)
      <4>. DEFINE y == [x EXCEPT !.cur = i + 1, !.retry = 0, !.armed = FALSE]
      <4>1. i + 1 \in 0 .. NSteps /\ 0 \in 0 .. MaxRetries
        BY <3>1, StepsAssumption
      <4>2. y \in Copy /\ y.cur = i + 1 /\ y.res = x.res /\ y.status = x.status
        BY <3>2, <4>1 DEF Copy
      <4>3. eff[i] # "absent" /\ out = "succeeded"
        BY <2>1, <3>5 DEF Landed, Advances
      <4>. HIDE DEF y
      <4>4. \A j \in Step : y.res[j] = "succeeded" <=> j < y.cur
        BY <3>1, <3>2, <4>2, <4>3 DEF Sound, Step
      <4>5. \A j \in Step : j < y.cur => eff[j] # "absent"
        BY <3>1, <3>2, <4>2, <4>3 DEF Sound, Step
      <4>6. y.status # "COMPLETED"
        BY <3>1, <3>2, <4>2
      <4>7. y \in SoundCopies
        BY <4>2, <4>4, <4>5, <4>6 DEF SoundCopies, Sound
      <4>. QED  BY <3>2, <3>5, <4>7 DEF Spends, Advances, y
    <3>. QED  BY <3>2, <3>3, <3>4, <3>5 DEF SoundCopies, Spends, Advances
  <2>2. ASSUME pc["adv"] = "settle", Spends(out), MayRetry(me)
        PROVE  [x EXCEPT !.retry = heap[me].retry + 1, !.armed = TRUE] \in SoundCopies
    <3>. DEFINE y == [x EXCEPT !.retry = heap[me].retry + 1, !.armed = TRUE]
    <3>1. x \in Copy /\ x \in SoundCopies /\ me \in Objs /\ heap[me] \in Copy
      BY <1>0, <2>1, <2>2 DEF RefOK, Holding, me
    <3>2. heap[me].retry + 1 \in 0 .. MaxRetries
      BY <2>2, <3>1, StepsAssumption DEF MayRetry, Copy
    <3>. HIDE DEF x
    <3>3. y \in Copy /\ y.cur = x.cur /\ y.res = x.res /\ y.status = x.status
      BY <3>1, <3>2 DEF Copy
    <3>. HIDE DEF y
    <3>4. y \in SoundCopies
      BY <3>1, <3>3 DEF SoundCopies, Sound
    <3>. QED  BY <3>4 DEF y
  <2>3. ASSUME tx["adv"].phase = "ok"
        PROVE  /\ Put(heap[me], "FAILED") \in SoundCopies /\ Put(heap[me], "COMPENSATING") \in SoundCopies
               /\ heap[me].cur = NSteps => Put(heap[me], "COMPLETED") \in SoundCopies
    <3>1. me \in Objs
      BY <1>0, <2>3 DEF RefOK, me
    <3>2. "COMPLETED" \in Status
      BY DEF Status, Terminal
    <3>. QED  BY <1>0, <1>3, <1>4, <3>1, <3>2
  <2>. QED  BY <2>1, <2>2, <2>3 DEF KeepsPass
<1>8. ASSUME NEW x \in SoundCopies, NEW c \in [Step -> Outcome]
      PROVE  [x EXCEPT !.comp = c] \in SoundCopies
  <2>. DEFINE y == [x EXCEPT !.comp = c]
  <2>1. y \in Copy /\ y.cur = x.cur /\ y.res = x.res /\ y.status = x.status
    BY <1>1, <1>8 DEF Copy
  <2>. QED  BY <1>1, <1>8, <2>1 DEF SoundCopies, Sound
<1>9. KeepsWalk(SoundCopies)
  <2>1. ASSUME NEW x \in SoundCopies PROVE [x EXCEPT !.comp = Joined(x)] \in SoundCopies
    <3>1. Joined(x) \in [Step -> Outcome]
      BY <1>0, <1>1, <2>1 DEF Joined, Copy
    <3>. QED  BY <1>8, <2>1, <3>1
  <2>2. ASSUME pc["adv"] \in {"wsync", "wundo", "wrecord"} PROVE me \in Objs
    BY <1>0, <2>2 DEF RefOK, Holding, me
  <2>3. ASSUME WalkRecord PROVE [heap[me] EXCEPT !.comp = Noted] \in SoundCopies
    <3>1. me \in Objs /\ heap[me] \in SoundCopies /\ heap[me] \in Copy /\ out \in Outcome
      BY <1>0, <2>2, <2>3 DEF WalkRecord, CInv, IInv, WorldOK
    <3>2. Noted \in [Step -> Outcome]
      BY <3>1 DEF Noted, Copy
    <3>. QED  BY <1>8, <3>1, <3>2
  <2>4. ASSUME pc["adv"] = "wsync" PROVE Put(Merged(heap, me)[me], "COMPENSATING") \in SoundCopies
    <3>1. me \in Objs /\ heap[me] \in SoundCopies
      BY <1>0, <2>2, <2>4
    <3>2. Merged(heap, me)[me] = [heap[me] EXCEPT !.comp = Joined(heap[me])]
      BY <1>0, <3>1 DEF Merged, Joined
    <3>. QED  BY <1>3, <1>4, <2>1, <3>1, <3>2
  <2>. QED  BY <1>0, <1>3, <1>4, <2>1, <2>2, <2>3, <2>4 DEF KeepsWalk
<1>. QED  BY <1>2, <1>5, <1>6, <1>7, <1>9 DEF Keeps

\* Only a step and an undo change the world, and no effect is ever as if it had
\* not been.
LEMMA EffChanges == ASSUME [Next]_vars PROVE eff' = eff \/ Execute \/ Undo
<1>1. ASSUME NEW a \in Thread, Write(a) \/ Liveness(a) \/ FailSettled(a) PROVE eff' = eff
  BY <1>1 DEF Write, Capture, Commit, Refuse, DbError, Liveness, FailSettled, world
<1>2. {"adv", "chk", "op", "boot", "stop"} = Thread
  BY DEF Thread
<1>3. CASE Advance
  BY <1>1, <1>2, <1>3 DEF Advance, LoadPass, ReadStatus, Settle, PassWrote, PassFailed, PassRefused,
     WalkStatus, WalkLoad, WalkSync, WalkRecord, WalkFinish, WalkSettled, world
<1>4. CASE Check \/ Operate \/ Restart
  BY <1>1, <1>2, <1>4 DEF Check, Operate, Restart, CheckerTick, StartSettled, CompensateSettled,
     Boot, RewarmSettled, ShutdownSettled, world
<1>5. CASE StartSaga \/ Dispatch \/ RetryScan \/ ContinueSaga \/ CompensateSaga \/ WorkerEvent
  BY <1>5 DEF StartSaga, Dispatch, DispatchForward, DispatchWalk, RetryScan, ContinueSaga,
     CompensateSaga, WorkerEvent, world
<1>6. CASE Crash \/ Shutdown \/ CacheExpires \/ (\E horizon \in Horizon : Tick(horizon))
           \/ UNCHANGED vars
  BY <1>6 DEF Crash, Shutdown, CacheExpires, Tick, vars
<1>. QED  BY <1>3, <1>4, <1>5, <1>6 DEF Next

LEMMA EffStays ==
  ASSUME CInv, [Next]_vars
  PROVE  \A i \in Step : eff[i] # "absent" => eff'[i] # "absent"
<1>1. eff \in [Step -> {"absent", "present", "undone"}]
  BY DEF CInv, IInv, WorldOK
<1>2. \/ eff' = eff
      \/ \E i, e : eff' = [eff EXCEPT ![i] = e] /\ e # "absent"
  BY EffChanges DEF Execute, Undo
<1>. QED  BY <1>1, <1>2

\* Memory that has just been collected.
LEMMA MemoryCollects == ASSUME NEW h, NEW t, NEW r, Memory(h, t, r) PROVE Collected'
<1>1. /\ heap' = [o \in Objs |-> IF o = t \/ \E a \in Thread : r[a] = o THEN h[o] ELSE Blank]
      /\ tracked' = t /\ ref' = r
  BY DEF Memory
<1>. QED  BY <1>1 DEF Collected, Unused

LEMMA NextCollects == ASSUME CInv, Collected, [Next]_vars PROVE Collected'
<1>0. ControlOK /\ RefOK /\ {"adv", "chk", "op", "boot", "stop"} = Thread
  BY DEF CInv, IInv, ThreadsOK, Thread
<1>1. CASE UNCHANGED <<heap, tracked, ref>>
  BY <1>1 DEF Collected, Unused
<1>2. ASSUME NEW h, NEW t, NEW r, Memory(h, t, r) PROVE Collected'
  BY <1>2, MemoryCollects
<1>3. ASSUME NEW a, NEW h, NEW t, Leave(a, h, t) PROVE Collected'
  BY <1>2, <1>3 DEF Leave, EndPass
<1>4. ASSUME NEW a, Stay(a) \/ StopTracking(a) PROVE Collected'
  BY <1>3, <1>4 DEF Stay, StopTracking
<1>5. ASSUME NEW a, NEW k, NEW h, NEW o, Request(a, k, h, o) PROVE Collected'
  BY <1>2, <1>5 DEF Request
<1>6. ASSUME NEW q, NEW h, NEW t, NEW again, EndPass(again, h, t, q) PROVE Collected'
  BY <1>2, <1>6 DEF EndPass
<1>15. ASSUME NEW a, NEW k, NEW o, FailAgain(a, k, o) PROVE Collected'
  BY <1>2, <1>15 DEF FailAgain
<1>7. ASSUME NEW a \in Thread, NEW o \in Objs, CheckTimeout(a, o), ref[a] \in {o, NoObj}
      PROVE  Collected'
  <2>1. CASE StopTracking(a) \/ FailSaga(a, "timeout", heap, o)
    BY <1>4, <1>5, <2>1 DEF FailSaga
  <2>2. CASE ref' = [ref EXCEPT ![a] = o] /\ UNCHANGED <<heap, tracked>>
    <3>1. \A b \in Thread : ref[b] \in Objs => \E c \in Thread : ref'[c] = ref[b]
      BY <1>0, <1>7, <2>2, HeapAssumption DEF ControlOK
    <3>. QED  BY <2>2, <3>1 DEF Collected, Unused
  <2>. QED  BY <1>7, <2>1, <2>2 DEF CheckTimeout
<1>8. ASSUME NEW a \in Thread, Write(a) \/ Liveness(a) \/ FailSettled(a) PROVE Collected'
  <2>1. CASE Write(a)
    BY <1>1, <2>1 DEF Write, Capture, Commit, Refuse, DbError
  <2>2. CASE Liveness(a)
    BY <1>3, <1>4, <1>5, <2>2 DEF Liveness, FailSaga
  <2>3. CASE FailSettled(a)
    <3>1. \/ \E h, t : Leave(a, h, t) \/ \E again : EndPass(again, h, t, queue)
          \/ FailAgain(a, "fail", ref[a])
      BY <2>3 DEF FailSettled
    <3>. QED  BY <1>3, <1>6, <1>15, <3>1
  <2>. QED  BY <1>8, <2>1, <2>2, <2>3
<1>9. CASE Advance
  <2>1. CASE LoadPass \/ WalkLoad
    BY <1>2, <1>4, <2>1 DEF LoadPass, WalkLoad
  <2>2. CASE ReadStatus
    <3>1. me \in Objs
      BY <1>0, <2>2 DEF ReadStatus, RefOK, Holding, me
    <3>2. Stay("adv") \/ StopTracking("adv") \/ CheckTimeout("adv", me)
          \/ \E h : Request("adv", "open", h, me)
      BY <2>2 DEF ReadStatus
    <3>. QED  BY <1>0, <1>4, <1>5, <1>7, <3>1, <3>2 DEF me
  <2>3. CASE Execute \/ Undo
    BY <1>1, <2>3 DEF Execute, Undo, memory
  <2>4. CASE Settle
    <3>1. \E k, h : Request("adv", k, h, me)
      BY <2>4, Zenon DEF Settle
    <3>. QED  BY <1>5, <3>1
  <2>5. CASE PassWrote
    <3>1. \/ UNCHANGED memory \/ \E k, h : Request("adv", k, h, me)
          \/ \E h, t, q : EndPass(TRUE, h, t, q)
      BY <2>5, Zenon DEF PassWrote, FailSaga
    <3>. QED  BY <1>1, <1>5, <1>6, <3>1 DEF memory
  <2>6. CASE PassFailed \/ PassRefused
    <3>1. \/ Stay("adv") \/ StopTracking("adv") \/ \E k, h : Request("adv", k, h, me)
          \/ \E h, t, q : EndPass(TRUE, h, t, q)
      BY <2>6, Zenon DEF PassFailed, PassRefused, FailSaga
    <3>. QED  BY <1>4, <1>5, <1>6, <3>1
  <2>7. CASE WalkStatus \/ WalkFinish \/ WalkSettled
    <3>1. \/ Stay("adv") \/ StopTracking("adv") \/ UNCHANGED memory
          \/ \E k, h : Request("adv", k, h, me)
      BY <2>7, Zenon DEF WalkStatus, WalkFinish, WalkSettled
    <3>. QED  BY <1>1, <1>4, <1>5, <3>1 DEF memory
  <2>8. CASE WalkSync
    <3>1. CASE heap' = Merged(heap, me) /\ UNCHANGED <<tracked, ref>>
      <4>1. \A o \in Objs : Unused(o) => heap'[o] = heap[o]
        BY <1>0, <3>1 DEF Merged, Unused, me, ControlOK
      <4>. QED  BY <3>1, <4>1 DEF Collected, Unused
    <3>2. CASE Stay("adv") \/ \E k, h : Request("adv", k, h, me)
      BY <1>4, <1>5, <3>2
    <3>. QED  BY <2>8, <3>1, <3>2, Zenon DEF WalkSync
  <2>9. CASE WalkRecord
    <3>1. \E h : Leave("adv", h, tracked) \/ Request("adv", "wprogress", Merged(h, me), me)
      BY <2>9, Zenon DEF WalkRecord
    <3>. QED  BY <1>3, <1>5, <3>1
  <2>. QED  BY <1>0, <1>8, <1>9, <2>1, <2>2, <2>3, <2>4, <2>5, <2>6, <2>7, <2>8, <2>9 DEF Advance
<1>10. CASE Check
  <2>1. CASE CheckerTick
    <3>1. tracked \in Objs /\ ref["chk"] = NoObj /\ CheckTimeout("chk", tracked)
      BY <1>0, <2>1 DEF CheckerTick, ControlOK, CInv, Order, Released, Holding
    <3>. QED  BY <1>0, <1>7, <3>1
  <2>. QED  BY <1>0, <1>8, <1>10, <2>1 DEF Check
<1>11. CASE Dispatch \/ RetryScan \/ ContinueSaga \/ WorkerEvent
            \/ (\E horizon \in Horizon : Tick(horizon)) \/ CacheExpires \/ UNCHANGED vars
  BY <1>1, <1>11 DEF Dispatch, DispatchForward, DispatchWalk, RetryScan, ContinueSaga, WorkerEvent,
     Tick, CacheExpires, memory, control, vars
<1>12. CASE Operate \/ StartSaga \/ CompensateSaga \/ Shutdown
  <2>1. \/ Write("op") \/ \E h, t, r : Memory(h, t, r) \/ \E a, k, o : Request(a, k, h, o)
    BY <1>12, Zenon DEF Operate, StartSettled, CompensateSettled, StartSaga, CompensateSaga, Shutdown
  <2>. QED  BY <1>0, <1>2, <1>5, <1>8, <2>1
<1>13. CASE Crash \/ ShutdownSettled
  BY <1>13 DEF Crash, ShutdownSettled, ProcessGone, Collected
<1>14. CASE Restart
  <2>1. CASE Boot
    <3>1. \A o \in Objs : heap[o] = Blank
      <4>1. tracked = NoObj /\ \A a \in Thread : ref[a] = NoObj
        BY <2>1 DEF Boot, CInv, Order, Gone, Released, Holding
      <4>. QED  BY <4>1, HeapAssumption DEF Collected, Unused
    <3>2. \/ UNCHANGED <<heap, tracked>>
          \/ heap' = [heap EXCEPT ![Fresh] = row] /\ tracked' = Fresh
      BY <2>1 DEF Boot
    <3>. QED  BY <1>0, <3>1, <3>2 DEF Collected, Unused, ControlOK
  <2>2. CASE RewarmSettled
    BY <1>4, <2>2 DEF RewarmSettled
  <2>. QED  BY <1>0, <1>8, <1>13, <1>14, <2>1, <2>2 DEF Restart
<1>. QED  BY <1>9, <1>10, <1>11, <1>12, <1>13, <1>14 DEF Next

\* The advancer's own steps: only a step that has run leaves it at "settle", and
\* failSaga is entered with COMPLETED only over a copy with every step behind it.
LEMMA AdvanceWas ==
  ASSUME CInv, Records, Advance
  PROVE  \/ Execute
         \/ /\ pc'["adv"] # "settle"
            /\ tx'["adv"].kind \in FailKinds /\ tx'["adv"].was = "COMPLETED"
                 => heap'[ref'["adv"]].cur = NSteps
<1>. DEFINE Goal == /\ pc'["adv"] # "settle"
                    /\ tx'["adv"].kind \in FailKinds /\ tx'["adv"].was = "COMPLETED"
                         => heap'[ref'["adv"]].cur = NSteps
<1>0. /\ ControlOK /\ RefOK /\ "adv" \in Thread /\ heap \in [Objs -> Copy]
      /\ \A o \in Objs : Sound(heap[o])
  BY DEF CInv, IInv, ThreadsOK, ControlOK, Thread, Records, CopiesIn, SoundCopies
<1>1. ASSUME NEW k, NEW h, NEW o \in Objs, Request("adv", k, h, o),
             k \in FailKinds => h[o].cur = heap[o].cur \/ heap[o].status # "COMPLETED"
      PROVE  Goal
  <2>1. /\ ref'["adv"] = o /\ heap'[o] = h[o] /\ pc'["adv"] = "write"
        /\ tx'["adv"] = NewTx(k, h, o, Line("adv"))
    BY <1>0, <1>1, RequestEffect
  <2>2. tx'["adv"].kind = k /\ tx'["adv"].was = heap[o].status
    BY <2>1, NewTxFields
  <2>. QED  BY <1>0, <1>1, <2>1, <2>2 DEF Sound
<1>2. ASSUME NEW h, NEW t, Leave("adv", h, t) PROVE Goal
  BY <1>0, <1>2, LeaveEffect, NoTxFields DEF Freed, FailKinds
<1>3. ASSUME Stay("adv") \/ StopTracking("adv") PROVE Goal
  BY <1>2, <1>3 DEF Stay, StopTracking
<1>4. ASSUME NEW q, NEW h, NEW t, NEW again, EndPass(again, h, t, q) PROVE Goal
  BY <1>0, <1>4, EndPassEffect, NoTxFields DEF Freed, FailKinds
<1>5. ASSUME NEW l \in Label \ {"settle"}, pc' = [pc EXCEPT !["adv"] = l],
             (tx' = tx /\ pc["adv"] # "write") \/ tx' = [tx EXCEPT !["adv"] = NoTx]
      PROVE  Goal
  <2>1. tx'["adv"] = NoTx
    BY <1>0, <1>5 DEF ControlOK, CInv, Order, Writing
  <2>. QED  BY <1>0, <1>5, <2>1, NoTxFields DEF ControlOK, FailKinds
<1>6. CASE Write("adv")
  <2>1. pc["adv"] = "write"
    BY <1>0, <1>6 DEF Write, Capture, Commit, Refuse, DbError, CInv, Order, Writing
  <2>. QED  BY <1>0, <1>6, <2>1, WriteAdv DEF Records, WasOK, me
<1>7. CASE Liveness("adv")
  <2>. DEFINE track == [heap EXCEPT ![Fresh] = row]
              h == [track EXCEPT ![Fresh].status = "FAILED"]
  <2>1. Fresh \in Objs /\ Unused(Fresh)
    BY <1>0, FreshType DEF ControlOK, Unused
  <2>2. heap[Fresh].status = "NONE"
    BY <2>1 DEF Records, Collected, Blank
  <2>3. \/ Stay("adv") \/ StopTracking("adv") \/ Leave("adv", track, Fresh)
        \/ Request("adv", "timeout", h, Fresh)
    BY <1>7 DEF Liveness, FailSaga
  <2>. HIDE DEF track, h
  <2>. QED  BY <1>1, <1>2, <1>3, <2>1, <2>2, <2>3
<1>8. CASE FailSettled("adv")
  <2>1. me \in Objs
    BY <1>0, <1>8 DEF FailSettled, Settled, RefOK, me
  <2>. DEFINE h == [heap EXCEPT ![me].status = "FAILED"]
  <2>2. h[me].cur = heap[me].cur
    BY <1>0, <2>1 DEF Copy
  <2>3. \/ \E again, g : EndPass(again, g, NoObj, queue)
        \/ FailAgain("adv", "fail", me)
        \/ \E g : Leave("adv", g, tracked)
    BY <1>8, Zenon DEF FailSettled, me
  <2>4. CASE FailAgain("adv", "fail", me)
    <3>1. PICK w : FailsAgain("adv", w, "fail", me)
      BY <2>4, FailAgainAsks
    <3>2. Asks("adv", w, h, me) /\ w.kind = "fail" /\ w.was = tx["adv"].was
      BY <3>1 DEF FailsAgain
    <3>. HIDE DEF h
    <3>3. ref'["adv"] = me /\ heap'[me] = h[me] /\ pc'["adv"] = "write" /\ tx'["adv"] = w
      BY <1>0, <2>1, <3>2, AskEffect
    <3>4. tx["adv"].kind \in FailKinds
      BY <1>8 DEF FailSettled, Settled, FailKinds
    <3>. QED  BY <2>2, <3>2, <3>3, <3>4 DEF Records, WasOK, me
  <2>. HIDE DEF h
  <2>. QED  BY <1>2, <1>4, <2>1, <2>2, <2>3, <2>4
<1>9. CASE LoadPass \/ WalkLoad \/ WalkStatus \/ Undo
  <2>1. \/ Stay("adv")
        \/ /\ \E l \in {"status", "wsync", "wload", "wrecord"} : pc' = [pc EXCEPT !["adv"] = l]
           /\ tx' = tx /\ pc["adv"] # "write"
    BY <1>9 DEF LoadPass, WalkLoad, WalkStatus, Undo
  <2>2. {"status", "wsync", "wload", "wrecord"} \subseteq Label \ {"settle"}
    BY DEF Label
  <2>. QED  BY <1>3, <1>5, <2>1, <2>2
<1>10. CASE ReadStatus
  <2>1. me \in Objs
    BY <1>0, <1>10 DEF ReadStatus, RefOK, Holding, me
  <2>. DEFINE h == [heap EXCEPT ![me].status = "FAILED"]
  <2>2. h[me].cur = heap[me].cur
    BY <1>0, <2>1 DEF Copy
  <2>3. \/ Stay("adv") \/ StopTracking("adv")
        \/ pc' = [pc EXCEPT !["adv"] = "liveness"] /\ tx' = tx /\ pc["adv"] # "write"
        \/ Request("adv", "timeout", h, me)
        \/ \E g : Request("adv", "open", g, me)
    BY <1>10, Zenon DEF ReadStatus, CheckTimeout, FailSaga
  <2>4. "liveness" \in Label \ {"settle"} /\ "open" \notin FailKinds
    BY DEF Label, FailKinds
  <2>. HIDE DEF h
  <2>. QED  BY <1>1, <1>3, <1>5, <2>1, <2>2, <2>3, <2>4
<1>11. CASE Settle
  <2>1. me \in Objs
    BY <1>0, <1>11 DEF Settle, RefOK, Holding, me
  <2>2. \E k \in {"repoll", "rearm", "retry", "exhausted", "advance"} : \E h : Request("adv", k, h, me)
    BY <1>11, Zenon DEF Settle
  <2>3. {"repoll", "rearm", "retry", "exhausted", "advance"} \cap FailKinds = {}
    BY DEF FailKinds
  <2>. QED  BY <1>1, <2>1, <2>2, <2>3
<1>12. CASE PassWrote \/ PassFailed \/ PassRefused
  <2>1. me \in Objs
    BY <1>0, <1>12 DEF PassWrote, PassFailed, PassRefused, Settled, RefOK, me
  <2>. DEFINE h == [heap EXCEPT ![me].status = "FAILED"]
  <2>2. h[me].cur = heap[me].cur
    BY <1>0, <2>1 DEF Copy
  <2>3. \/ Stay("adv") \/ StopTracking("adv") \/ \E g, t, q : EndPass(TRUE, g, t, q)
        \/ pc' = [pc EXCEPT !["adv"] = "run"] /\ tx' = [tx EXCEPT !["adv"] = NoTx]
        \/ \E k \in {"complete", "begin", "reopen", "rearm2"} : \E g : Request("adv", k, g, me)
        \/ \E k : Request("adv", k, h, me)
    <3>1. CASE PassWrote
      <4>1. BeginKind(me) \in {"complete", "begin", "reopen", "rearm2"}
        BY DEF BeginKind
      <4>. QED  BY <3>1, <4>1, Zenon DEF PassWrote, FailSaga
    <3>2. CASE PassFailed
      BY <3>2, Zenon DEF PassFailed, FailSaga
    <3>3. CASE PassRefused
      BY <3>3 DEF PassRefused
    <3>. QED  BY <1>12, <3>1, <3>2, <3>3
  <2>4. "run" \in Label \ {"settle"} /\ {"complete", "begin", "reopen", "rearm2"} \cap FailKinds = {}
    BY DEF Label, FailKinds
  <2>. HIDE DEF h
  <2>. QED  BY <1>1, <1>3, <1>4, <1>5, <2>1, <2>2, <2>3, <2>4
<1>13. CASE WalkSync \/ WalkRecord \/ WalkFinish \/ WalkSettled
  <2>1. me \in Objs
    BY <1>0, <1>13 DEF WalkSync, WalkRecord, WalkFinish, WalkSettled, Settled, RefOK, Holding, me
  <2>2. \/ Stay("adv") \/ StopTracking("adv") \/ \E h : Leave("adv", h, tracked)
        \/ \E k \in WalkKinds : \E g : Request("adv", k, g, me)
        \/ /\ pc' = [pc EXCEPT !["adv"] = "wundo"]
           /\ (tx' = tx /\ pc["adv"] # "write") \/ tx' = [tx EXCEPT !["adv"] = NoTx]
    <3>1. {"wbegin", "wprogress", "wdone"} = WalkKinds
      BY DEF WalkKinds
    <3>2. CASE WalkSync
      BY <3>1, <3>2, Zenon DEF WalkSync
    <3>3. CASE WalkRecord
      BY <3>1, <3>3, Zenon DEF WalkRecord
    <3>4. CASE WalkFinish
      BY <3>1, <3>4, Zenon DEF WalkFinish
    <3>5. CASE WalkSettled
      BY <3>5, Zenon DEF WalkSettled
    <3>. QED  BY <1>13, <3>2, <3>3, <3>4, <3>5
  <2>3. "wundo" \in Label \ {"settle"} /\ WalkKinds \cap FailKinds = {}
    BY DEF Label, FailKinds, WalkKinds
  <2>. QED  BY <1>1, <1>2, <1>3, <1>5, <2>1, <2>2, <2>3
<1>. QED  BY <1>6, <1>7, <1>8, <1>9, <1>10, <1>11, <1>12, <1>13 DEF Advance

\* Every other thread's write is its own.
TxKept(c) ==
  /\ tx'[c].phase = tx[c].phase /\ tx'[c].kind = tx[c].kind
  /\ tx'[c].copy = tx[c].copy /\ tx'[c].cols = tx[c].cols /\ tx'[c].was = tx[c].was

LEMMA ActsKeep ==
  ASSUME CInv, NEW a \in Thread,
         \/ Write(a)
         \/ (\E k, h : \E o \in Objs : Request(a, k, h, o))
         \/ (\E h, t : Leave(a, h, t))
         \/ Stay(a) \/ StopTracking(a)
         \/ (a = "adv" /\ \E again, h, t, q : EndPass(again, h, t, q))
         \/ (\E x : tx' = [tx EXCEPT ![a] = x])
         \/ tx' = tx
  PROVE  \A c \in Thread \ {a} : TxKept(c)
<1>0. ControlOK
  BY DEF CInv, IInv, ThreadsOK
<1>1. CASE Write(a)
  BY <1>1, WriteAdv DEF TxKept
<1>2. CASE \E k, h : \E o \in Objs : Request(a, k, h, o)
  BY <1>0, <1>2, RequestEffect DEF TxKept
<1>3. CASE (\E h, t : Leave(a, h, t)) \/ Stay(a) \/ StopTracking(a)
  BY <1>0, <1>3, LeaveEffect DEF Stay, StopTracking, Freed, TxKept
<1>4. CASE a = "adv" /\ \E again, h, t, q : EndPass(again, h, t, q)
  BY <1>0, <1>4, EndPassEffect DEF Freed, TxKept
<1>5. CASE (\E x : tx' = [tx EXCEPT ![a] = x]) \/ tx' = tx
  BY <1>0, <1>5 DEF ControlOK, TxKept
<1>. QED  BY <1>1, <1>2, <1>3, <1>4, <1>5

\* The steps of each thread, as to the writes of the others.
LEMMA AdvanceKeeps == ASSUME CInv, Advance PROVE \A c \in Thread \ {"adv"} : TxKept(c)
<1>0. ControlOK /\ RefOK /\ "adv" \in Thread
  BY DEF CInv, IInv, ThreadsOK, Thread
<1>. DEFINE Act == \/ Write("adv")
                   \/ (\E k, h : \E o \in Objs : Request("adv", k, h, o))
                   \/ (\E h, t : Leave("adv", h, t))
                   \/ Stay("adv") \/ StopTracking("adv")
                   \/ (\E again, h, t, q : EndPass(again, h, t, q))
                   \/ (\E x : tx' = [tx EXCEPT !["adv"] = x])
                   \/ tx' = tx
<1>. SUFFICES Act
  BY <1>0, ActsKeep
<1>1. CASE LoadPass \/ WalkLoad \/ WalkStatus \/ Undo \/ Execute
  BY <1>1 DEF LoadPass, WalkLoad, WalkStatus, Undo, Execute
<1>2. CASE Liveness("adv")
  <2>1. Fresh \in Objs
    BY <1>0, FreshType DEF ControlOK
  <2>. QED  BY <1>2, <2>1, Zenon DEF Liveness, FailSaga
<1>3. ASSUME NEW k, NEW h, Request("adv", k, h, me),
             \/ tx["adv"].phase # "none" \/ pc["adv"] \in Holding
      PROVE  Act
  <2>1. me \in Objs
    BY <1>0, <1>3 DEF RefOK, me
  <2>. QED  BY <1>3, <2>1
<1>4. CASE ReadStatus \/ Settle \/ WalkSync \/ WalkRecord \/ WalkFinish
  <2>1. pc["adv"] \in Holding
    BY <1>4 DEF ReadStatus, Settle, WalkSync, WalkRecord, WalkFinish, Holding
  <2>2. \/ Stay("adv") \/ StopTracking("adv") \/ (\E h, t : Leave("adv", h, t)) \/ tx' = tx
        \/ (\E k, h : Request("adv", k, h, me))
    <3>1. CASE ReadStatus
      BY <3>1, Zenon DEF ReadStatus, CheckTimeout, FailSaga
    <3>2. CASE Settle
      BY <3>2, Zenon DEF Settle
    <3>3. CASE WalkSync \/ WalkRecord \/ WalkFinish
      BY <3>3, Zenon DEF WalkSync, WalkRecord, WalkFinish
    <3>. QED  BY <1>4, <3>1, <3>2, <3>3
  <2>. QED  BY <1>3, <2>1, <2>2
<1>5. CASE FailSettled("adv") \/ PassWrote \/ PassFailed \/ PassRefused \/ WalkSettled
  <2>1. tx["adv"].phase # "none"
    BY <1>5 DEF FailSettled, PassWrote, PassFailed, PassRefused, WalkSettled, Settled
  <2>2. \/ Stay("adv") \/ StopTracking("adv") \/ (\E h, t : Leave("adv", h, t))
        \/ (\E again, h, t, q : EndPass(again, h, t, q))
        \/ (\E x : tx' = [tx EXCEPT !["adv"] = x])
        \/ (\E k, h : Request("adv", k, h, me))
    <3>1. CASE FailSettled("adv")
      BY <3>1, Zenon DEF FailSettled, FailAgain, me
    <3>2. CASE PassWrote
      BY <3>2, Zenon DEF PassWrote, FailSaga
    <3>3. CASE PassFailed
      BY <3>3, Zenon DEF PassFailed, FailSaga
    <3>4. CASE PassRefused \/ WalkSettled
      BY <3>4, Zenon DEF PassRefused, WalkSettled
    <3>. QED  BY <1>5, <3>1, <3>2, <3>3, <3>4
  <2>. QED  BY <1>3, <2>1, <2>2
<1>6. CASE Write("adv")
  BY <1>6
<1>. QED  BY <1>1, <1>2, <1>4, <1>5, <1>6 DEF Advance

LEMMA CheckKeeps == ASSUME CInv, Check PROVE \A c \in Thread \ {"chk"} : TxKept(c)
<1>0. ControlOK /\ RefOK /\ "chk" \in Thread /\ Fresh \in Objs
  BY FreshType DEF CInv, IInv, ThreadsOK, ControlOK, Thread
<1>1. CASE Write("chk")
  BY <1>0, <1>1, ActsKeep
<1>2. CASE Liveness("chk")
  <2>1. \/ Stay("chk") \/ StopTracking("chk") \/ (\E h, t : Leave("chk", h, t))
        \/ (\E k, h : Request("chk", k, h, Fresh))
    BY <1>2, Zenon DEF Liveness, FailSaga
  <2>. QED  BY <1>0, <2>1, ActsKeep
<1>3. CASE FailSettled("chk")
  <2>1. ref["chk"] \in Objs
    BY <1>0, <1>3 DEF FailSettled, Settled, RefOK
  <2>2. (\E h, t : Leave("chk", h, t)) \/ (\E x : tx' = [tx EXCEPT !["chk"] = x])
    BY <1>3, Zenon DEF FailSettled, FailAgain
  <2>. QED  BY <1>0, <2>1, <2>2, ActsKeep
<1>4. CASE CheckerTick
  <2>1. tracked \in Objs
    BY <1>0, <1>4 DEF CheckerTick, ControlOK
  <2>2. StopTracking("chk") \/ tx' = tx \/ (\E k, h : Request("chk", k, h, tracked))
    BY <1>4, Zenon DEF CheckerTick, CheckTimeout, FailSaga
  <2>. QED  BY <1>0, <2>1, <2>2, ActsKeep
<1>. QED  BY <1>1, <1>2, <1>3, <1>4 DEF Check

\* No step but their own touches the advancer's or the checker's write, except to
\* end the process.
LEMMA OthersKeep ==
  ASSUME CInv,
         \/ Dispatch \/ Operate \/ Restart \/ StartSaga \/ ContinueSaga \/ CompensateSaga
         \/ WorkerEvent \/ RetryScan \/ Crash \/ Shutdown \/ CacheExpires
         \/ (\E horizon \in Horizon : Tick(horizon)) \/ UNCHANGED vars
  PROVE  \A c \in {"adv", "chk"} : TxKept(c) \/ tx'[c] = NoTx
<1>0. /\ ControlOK /\ {"op", "boot", "stop"} \subseteq Thread \ {"adv", "chk"} /\ Fresh \in Objs
      /\ {"adv", "chk"} \subseteq Thread
  BY FreshType DEF CInv, IInv, ThreadsOK, ControlOK, Thread
<1>1. CASE \/ Dispatch \/ ContinueSaga \/ WorkerEvent \/ RetryScan \/ CacheExpires
           \/ (\E horizon \in Horizon : Tick(horizon)) \/ UNCHANGED vars
  <2>1. tx' = tx
    BY <1>1 DEF Dispatch, DispatchForward, DispatchWalk, ContinueSaga, WorkerEvent, RetryScan,
       CacheExpires, Tick, memory, control, vars
  <2>. QED  BY <1>0, <2>1 DEF TxKept
<1>2. CASE Operate \/ StartSaga \/ CompensateSaga
  <2>1. \/ Write("op") \/ (\E x : tx' = [tx EXCEPT !["op"] = x])
        \/ \E k, h : Request("op", k, h, Fresh) \/ Request("op", k, h, Loaded.o)
    BY <1>2, Zenon DEF Operate, StartSettled, CompensateSettled, StartSaga, CompensateSaga
  <2>2. Loaded.o \in Objs
    BY <1>0, LoadedType DEF CInv, IInv, DurableOK
  <2>3. \A c \in Thread \ {"op"} : TxKept(c)
    BY <1>0, <2>1, <2>2, ActsKeep
  <2>. QED  BY <1>0, <2>3
<1>3. CASE Crash \/ ShutdownSettled
  BY <1>0, <1>3 DEF Crash, ShutdownSettled, ProcessGone
<1>4. CASE Shutdown
  <2>1. tracked \in Objs /\ \E k, h : Request("stop", k, h, tracked)
    BY <1>0, <1>4 DEF Shutdown, ControlOK
  <2>2. \A c \in Thread \ {"stop"} : TxKept(c)
    BY <1>0, <2>1, ActsKeep
  <2>. QED  BY <1>0, <2>2
<1>5. ASSUME NEW a \in {"boot", "stop"}, Write(a) PROVE \A c \in {"adv", "chk"} : TxKept(c)
  BY <1>0, <1>5, ActsKeep
<1>6. CASE Boot \/ RewarmSettled
  <2>1. Stay("boot") \/ (\E x : tx' = [tx EXCEPT !["boot"] = x]) \/ tx' = tx
    BY <1>6 DEF Boot, RewarmSettled
  <2>2. \A c \in Thread \ {"boot"} : TxKept(c)
    BY <1>0, <2>1, ActsKeep
  <2>. QED  BY <1>0, <2>2
<1>. QED  BY <1>1, <1>2, <1>3, <1>4, <1>5, <1>6 DEF Restart

\* The checker enters failSaga only over a copy that has not ended.
LEMMA CheckWas == ASSUME CInv, Records, Check PROVE tx'["chk"].was # "COMPLETED"
<1>0. ControlOK /\ "chk" \in Thread /\ tx["chk"].was # "COMPLETED"
  BY DEF CInv, IInv, ThreadsOK, Records, WasOK, Thread
<1>1. ASSUME NEW k, NEW h, NEW o \in Objs, Request("chk", k, h, o), heap[o].status # "COMPLETED"
      PROVE  tx'["chk"].was # "COMPLETED"
  <2>1. tx'["chk"] = NewTx(k, h, o, Line("chk"))
    BY <1>0, <1>1, RequestEffect
  <2>. QED  BY <1>1, <2>1, NewTxFields
<1>2. ASSUME (\E h, t : Leave("chk", h, t)) \/ Stay("chk") \/ StopTracking("chk")
      PROVE  tx'["chk"].was # "COMPLETED"
  <2>1. \E h, t : Leave("chk", h, t)
    BY <1>2 DEF Stay, StopTracking
  <2>. QED  BY <1>0, <2>1, LeaveEffect, NoTxFields DEF Freed
<1>3. CASE Write("chk")
  BY <1>0, <1>3, WriteAdv
<1>4. CASE Liveness("chk")
  <2>1. Fresh \in Objs /\ Unused(Fresh)
    BY <1>0, FreshType DEF ControlOK, Unused
  <2>2. heap[Fresh].status = "NONE"
    BY <2>1 DEF Records, Collected, Blank
  <2>3. \/ Stay("chk") \/ StopTracking("chk") \/ (\E h, t : Leave("chk", h, t))
        \/ (\E k, h : Request("chk", k, h, Fresh))
    BY <1>4, Zenon DEF Liveness, FailSaga
  <2>. QED  BY <1>1, <1>2, <2>1, <2>2, <2>3
<1>5. CASE FailSettled("chk")
  <2>1. tx["chk"].kind # "failstep"
    BY <1>0, <1>5 DEF FailSettled, Settled, CInv, Order, Writing, KindsOf
  <2>2. \E h, t : Leave("chk", h, t)
    BY <1>5, <2>1, Zenon DEF FailSettled, Settled
  <2>. QED  BY <1>2, <2>2
<1>6. CASE CheckerTick
  <2>1. tracked \in Objs
    BY <1>0, <1>6 DEF CheckerTick, ControlOK
  <2>2. \/ StopTracking("chk") \/ UNCHANGED tx
        \/ ~Ended(tracked) /\ (\E h : Request("chk", "timeout", h, tracked))
    BY <1>6, Zenon DEF CheckerTick, CheckTimeout, FailSaga
  <2>. QED  BY <1>0, <1>1, <1>2, <2>1, <2>2 DEF Ended, Terminal
<1>. QED  BY <1>3, <1>4, <1>5, <1>6 DEF Check

LEMMA NextRecords == ASSUME CInv, Records, [Next]_vars PROVE Records'
<1>0. /\ ControlOK /\ RefOK /\ StepOK /\ "adv" \in Thread /\ "chk" \in Thread
      /\ \A o \in Objs : heap[o] \in Copy
      /\ \A i \in Step : eff[i] # "absent" => eff'[i] # "absent"
  BY EffStays DEF CInv, IInv, ThreadsOK, ControlOK, Thread
<1>1. Collected'
  BY NextCollects DEF Records
<1>2. CopiesIn(SoundCopies)'
  <2>1. PICK G : G = SoundCopies
    OBVIOUS
  <2>2. Blank \in G /\ Keeps(G) /\ CopiesIn(G)
    BY <2>1, SoundKept DEF Records
  <2>3. CopiesIn(G)'
    BY <2>2, NextCopies
  <2>4. \A x \in G : x \in SoundCopies'
    BY <1>0, <2>1 DEF SoundCopies, Sound
  <2>. QED  BY <2>3, <2>4 DEF CopiesIn
<1>3. CASE Execute
  <2>1. /\ UNCHANGED <<heap, tx, ref>> /\ pc["adv"] = "run" /\ me \in Objs
        /\ heap[me].cur < NSteps
    BY <1>0, <1>3 DEF Execute, memory, RefOK, StepOK, Holding, me
  <2>2. heap[me].cur \in Step
    BY <1>0, <2>1, StepsAssumption DEF Copy, Step
  <2>3. out' = "succeeded" => eff'[heap[me].cur] = "present"
    BY <1>3, <2>2 DEF Execute, CInv, IInv, WorldOK
  <2>4. Landed' /\ WasOK'
    BY <2>1, <2>3 DEF Landed, WasOK, Records, me
  <2>. QED  BY <1>1, <1>2, <2>4 DEF Records
<1>4. CASE Advance /\ ~Execute
  <2>1. /\ pc'["adv"] # "settle"
        /\ tx'["adv"].kind \in FailKinds /\ tx'["adv"].was = "COMPLETED"
             => heap'[ref'["adv"]].cur = NSteps
    BY <1>4, AdvanceWas
  <2>2. TxKept("chk")
    BY <1>0, <1>4, AdvanceKeeps
  <2>3. Landed' /\ WasOK'
    BY <2>1, <2>2 DEF Landed, WasOK, Records, TxKept, me
  <2>. QED  BY <1>1, <1>2, <2>3 DEF Records
<1>5. CASE ~Advance
  <2>1. \/ Check
        \/ Dispatch \/ Operate \/ Restart \/ StartSaga \/ ContinueSaga \/ CompensateSaga
        \/ WorkerEvent \/ RetryScan \/ Crash \/ Shutdown \/ CacheExpires
        \/ (\E horizon \in Horizon : Tick(horizon)) \/ UNCHANGED vars
    BY <1>5 DEF Next
  <2>2. AdvKept \/ AdvIdle
    BY <2>1, OthersAdv
  <2>3. tx'["chk"].was # "COMPLETED"
    BY <2>1, OthersKeep, CheckWas, NoTxFields DEF TxKept, Records, WasOK
  <2>4. CASE AdvIdle
    BY <2>3, <2>4, <1>1, <1>2, NoTxFields DEF AdvIdle, Records, WasOK, Landed, FailKinds
  <2>5. CASE AdvKept
    <3>1. tx["adv"].kind \in FailKinds => me \in Objs
      BY <1>0, NoTxFields DEF CInv, Order, Writing, RefOK, FailKinds, me
    <3>2. WasOK'
      BY <2>3, <2>5, <3>1 DEF AdvKept, Records, WasOK, me
    <3>3. pc["adv"] = "settle" => me \in Objs /\ heap[me].cur \in Step
      <4>1. pc["adv"] = "settle" => me \in Objs /\ heap[me].cur < NSteps
        BY <1>0 DEF RefOK, StepOK, Holding, me
      <4>. QED  BY <1>0, <4>1, StepsAssumption DEF Copy, Step
    <3>4. Landed'
      BY <1>0, <2>5, <3>3 DEF AdvKept, Records, Landed, me
    <3>. QED  BY <1>1, <1>2, <3>2, <3>4 DEF Records
  <2>. QED  BY <2>2, <2>4, <2>5
<1>. QED  BY <1>3, <1>4, <1>5

LEMMA InitRecords == ASSUME Init PROVE Records
<1>1. Blank \in SoundCopies
  BY BlankType, StepsAssumption DEF SoundCopies, Sound, Blank, Step
<1>2. /\ row = Blank /\ cache = Blank /\ heap = [o \in Objs |-> Blank]
      /\ tx = [a \in Thread |-> NoTx] /\ pc = [a \in Thread |-> "idle"]
  BY DEF Init
<1>3. CopiesIn(SoundCopies) /\ Collected
  BY <1>1, <1>2, NoTxFields DEF CopiesIn, Collected
<1>4. WasOK /\ Landed
  BY <1>2, NoTxFields DEF WasOK, Landed, FailKinds, Thread
<1>. QED  BY <1>3, <1>4 DEF Records

\* The inductive invariant of what follows.
RInv == CInv /\ Records

LEMMA NextRInv == ASSUME RInv, [Next]_vars PROVE RInv'
BY NextOrder, NextRecords DEF RInv

LEMMA InitRInv == ASSUME Init PROVE RInv
BY InitInv, InitOrder, InitRecords DEF RInv, CInv

\* The record is honest: in the row, and in the Redis copy, the steps behind the
\* cursor are exactly those recorded as succeeded, each of them has had its effect
\* in the world, and COMPLETED means all of them have.  No crash, lost write,
\* failed step, failSaga's put-back or operator's request leaves a copy that
\* claims a step which never ran (runSagaSteps, persistSagaInstance, failSaga).
RecordIsHonest == Sound(row) /\ Sound(cache)
THEOREM RecordsHonest == Spec => []RecordIsHonest
<1>1. Init => RInv
  BY InitRInv
<1>2. RInv /\ [Next]_vars => RInv'
  BY NextRInv
<1>3. RInv => RecordIsHonest
  BY DEF RInv, Records, CopiesIn, SoundCopies, RecordIsHonest
<1>. QED  BY <1>1, <1>2, <1>3, PTL DEF Spec

-----------------------------------------------------------------------------
(***************************************************************************)
(* A parked saga.  ParkedIsLeftAlone is not inductive: that nothing is     *)
(* dispatched rests on the retry scan's query, which reads the row, and    *)
(* the row is still written, by the checker that ends the park and by the  *)
(* drain.  Nothing either of them may write is a row the scan would take.  *)
(***************************************************************************)

\* A copy the retry scan and startSaga pass by.
Still(x) == x.status # "NONE" /\ (x.armed => x.status \in {"COMPENSATING", "FAILED"})

Unattended == spent["op"] = 0 /\ spent["event"] = 0
Parking ==
  parked /\ Unattended =>
    /\ claim = NoClaim /\ queue = {} /\ \A a \in {"adv", "op", "boot"} : pc[a] = "idle"
    /\ tracked \in Objs /\ Still(row) /\ Still(heap[tracked])
    /\ \A a \in {"chk", "stop"} : /\ tx[a].phase = "begun" => Still(heap[ref[a]])
                                  /\ tx[a].phase = "sent" => Still(tx[a].cols)
    /\ tx["chk"].phase # "none" =>
         \/ ref["chk"] = tracked /\ ~heap[tracked].armed /\ tx["chk"].was # "NONE"
         \/ ref["chk"] # tracked /\ ref["stop"] # ref["chk"]

LEMMA ParkingStill ==
  ASSUME CInv, Parking, parked, Unattended, Advance \/ Dispatch \/ Operate \/ StartSaga \/ RetryScan
         \/ RewarmSettled \/ Write("boot") \/ Boot
  PROVE  FALSE
<1>1. /\ \A a \in {"adv", "op", "boot"} : pc[a] = "idle" /\ tx[a].phase = "none"
      /\ queue = {} /\ Still(row) /\ up
  <2>1. {"adv", "op", "boot"} \subseteq Thread
    BY DEF Thread
  <2>. QED  BY <2>1 DEF Parking, CInv, Order, Writing, Gone
<1>2. CASE Advance
  BY <1>1, <1>2 DEF Advance, LoadPass, ReadStatus, Execute, Settle, PassWrote, PassFailed,
     PassRefused, WalkStatus, WalkLoad, WalkSync, Undo, WalkRecord, WalkFinish, WalkSettled,
     Liveness, FailSettled, Write, Capture, Commit, Refuse, DbError, Settled
<1>3. CASE Dispatch \/ Operate \/ RewarmSettled \/ Write("boot") \/ Boot
  BY <1>1, <1>3 DEF Dispatch, DispatchForward, DispatchWalk, Operate, StartSettled,
     CompensateSettled, RewarmSettled, Write, Capture, Commit, Refuse, DbError, Settled, Boot
<1>4. CASE StartSaga \/ RetryScan
  BY <1>1, <1>4 DEF StartSaga, RetryScan, Still
<1>. QED  BY <1>2, <1>3, <1>4

LEMMA CheckParking == ASSUME CInv, Parking, parked', Unattended, parked, Check PROVE Parking'
<1>0. /\ ControlOK /\ RefOK /\ {"adv", "chk", "op", "boot", "stop"} = Thread /\ row \in Copy
      /\ Fresh \in Objs /\ (\A a \in Thread : ref[a] # Fresh) /\ Fresh # tracked
      /\ tx["chk"] \in Tx /\ tracked \in Objs
  BY FreshType DEF CInv, IInv, DurableOK, ThreadsOK, ControlOK, Thread, Parking
<1>1. /\ claim = NoClaim /\ queue = {} /\ \A a \in {"adv", "op", "boot"} : pc[a] = "idle"
      /\ Still(row) /\ Still(heap[tracked])
      /\ \A a \in {"chk", "stop"} : /\ tx[a].phase = "begun" => Still(heap[ref[a]])
                                    /\ tx[a].phase = "sent" => Still(tx[a].cols)
      /\ tx["chk"].phase # "none" =>
           \/ ref["chk"] = tracked /\ ~heap[tracked].armed /\ tx["chk"].was # "NONE"
           \/ ref["chk"] # tracked /\ ref["stop"] # ref["chk"]
  BY DEF Parking
<1>2. ASSUME NEW h \in [Objs -> Copy], NEW t \in Objs, Leave("chk", h, t), row' = row,
             Still(h[t]), tx["stop"].phase = "begun" => Still(h[ref["stop"]])
      PROVE  Parking'
  <2>1. Freed("chk", h, t) /\ pc'["chk"] = "idle" /\ UNCHANGED <<claim, queue>>
    BY <1>0, <1>2, LeaveEffect
  <2>2. tx["stop"].phase = "begun" => ref["stop"] \in Objs
    BY <1>0 DEF RefOK
  <2>. QED  BY <1>0, <1>1, <1>2, <2>1, <2>2, NoTxFields DEF Freed, Parking, Still
<1>3. ASSUME NEW h \in [Objs -> Copy], NEW k, NEW o \in Objs, Request("chk", k, h, o), row' = row,
             Still(h[tracked]), Still(h[o]),
             tx["stop"].phase = "begun" => Still(h[ref["stop"]]),
             \/ o = tracked /\ ~h[tracked].armed /\ heap[tracked].status # "NONE"
             \/ o # tracked /\ ref["stop"] # o
      PROVE  Parking'
  <2>1. /\ ref'["chk"] = o /\ heap'[o] = h[o]
        /\ tx'["chk"] = NewTx(k, h, o, Line("chk"))
        /\ \A b \in Thread \ {"chk"} : ref'[b] = ref[b] /\ tx'[b] = tx[b] /\ pc'[b] = pc[b]
        /\ \A b \in Thread \ {"chk"} : ref[b] \in Objs => heap'[ref[b]] = h[ref[b]]
        /\ tracked' = tracked /\ heap'[tracked] = h[tracked] /\ UNCHANGED <<claim, queue>>
    BY <1>0, <1>3, RequestEffect
  <2>2. tx'["chk"].phase = "begun" /\ tx'["chk"].was = heap[o].status
    BY <2>1, NewTxFields
  <2>3. tx["stop"].phase = "begun" => ref["stop"] \in Objs
    BY <1>0 DEF RefOK
  <2>. QED  BY <1>0, <1>1, <1>3, <2>1, <2>2, <2>3 DEF Parking, Still
<1>4. CASE CheckerTick
  <2>1. CASE StopTracking("chk")
    BY <2>1 DEF StopTracking
  <2>2. CASE ref' = [ref EXCEPT !["chk"] = tracked] /\ pc' = [pc EXCEPT !["chk"] = "liveness"]
             /\ UNCHANGED <<heap, tracked, parked, tx, claim, queue>>
    <3>1. tx["chk"].phase = "none"
      BY <1>0, <1>4 DEF CheckerTick, CInv, Order, Writing
    <3>2. ref'["stop"] = ref["stop"] /\ \A a \in {"adv", "op", "boot"} : pc'[a] = pc[a]
      BY <1>0, <2>2 DEF ControlOK
    <3>. QED  BY <1>1, <1>4, <2>2, <3>1, <3>2, <1>0 DEF CheckerTick, durable, Parking, Still
  <2>3. CASE /\ ~Ended(tracked) /\ heap[tracked].status # "COMPENSATING"
             /\ FailSaga("chk", "timeout", heap, tracked)
    <3>. DEFINE h == [heap EXCEPT ![tracked].status = "FAILED"]
    <3>1. ~heap[tracked].armed /\ heap[tracked].status # "NONE"
      BY <1>1, <2>3 DEF Ended, Still, Terminal
    <3>2. /\ h \in [Objs -> Copy] /\ h[tracked].status = "FAILED"
          /\ h[tracked].armed = heap[tracked].armed
          /\ \A x \in Objs \ {tracked} : h[x] = heap[x]
      BY <1>0 DEF ControlOK, Copy, Status, Terminal
    <3>3. Request("chk", "timeout", h, tracked) /\ row' = row
      BY <1>4, <2>3 DEF FailSaga, CheckerTick, durable
    <3>. HIDE DEF h
    <3>4. tx["stop"].phase = "begun" => ref["stop"] \in Objs
      BY <1>0 DEF RefOK
    <3>5. tx["stop"].phase = "begun" => Still(h[ref["stop"]])
      BY <1>1, <3>2, <3>4 DEF Still
    <3>. QED  BY <1>0, <1>3, <3>1, <3>2, <3>3, <3>5 DEF Still
  <2>. QED  BY <1>4, <2>1, <2>2, <2>3 DEF CheckerTick, CheckTimeout
<1>5. CASE Liveness("chk")
  <2>. DEFINE track == [heap EXCEPT ![Fresh] = row]
              h == [track EXCEPT ![Fresh].status = "FAILED"]
  <2>1. /\ track \in [Objs -> Copy] /\ track[Fresh] = row
        /\ \A x \in Objs \ {Fresh} : track[x] = heap[x]
        /\ row' = row
    BY <1>0, <1>5 DEF ControlOK, Liveness, durable
  <2>2. \/ Leave("chk", heap, tracked) \/ parked' = FALSE \/ Leave("chk", track, Fresh)
        \/ row.status = "COMPENSATING" /\ Request("chk", "timeout", h, Fresh)
    BY <1>5 DEF Liveness, FailSaga, Stay, StopTracking
  <2>3. tx["stop"].phase = "begun" => ref["stop"] \in Objs \ {Fresh}
    BY <1>0 DEF RefOK
  <2>. HIDE DEF track
  <2>4. CASE row.status = "COMPENSATING" /\ Request("chk", "timeout", h, Fresh)
    <3>1. /\ h \in [Objs -> Copy] /\ h[Fresh].status = "FAILED"
          /\ \A x \in Objs \ {Fresh} : h[x] = track[x]
      BY <1>0, <2>1 DEF Copy, Status, Terminal
    <3>. HIDE DEF h
    <3>. QED  BY <1>0, <1>1, <1>3, <2>1, <2>3, <2>4, <3>1 DEF Still
  <2>5. heap \in [Objs -> Copy]
    BY <1>0 DEF ControlOK
  <2>. QED  BY <1>0, <1>1, <1>2, <2>1, <2>2, <2>3, <2>4, <2>5
<1>6. CASE FailSettled("chk")
  <2>. DEFINE o == ref["chk"]
              h == [heap EXCEPT ![o].status = tx["chk"].was]
  <2>1. /\ tx["chk"].phase # "none" /\ tx["chk"].kind # "failstep" /\ row' = row /\ o \in Objs
    BY <1>0, <1>6 DEF FailSettled, Settled, CInv, Order, Writing, KindsOf, durable, RefOK
  <2>2. parked' = FALSE \/ Leave("chk", h, tracked)
    BY <1>6, <2>1 DEF FailSettled, Settled
  <2>3. /\ h \in [Objs -> Copy] /\ h[o].status = tx["chk"].was /\ h[o].armed = heap[o].armed
        /\ \A x \in Objs \ {o} : h[x] = heap[x]
    BY <1>0, <2>1 DEF ControlOK, Copy, Tx
  <2>. HIDE DEF h
  <2>4. tx["stop"].phase = "begun" => ref["stop"] \in Objs
    BY <1>0 DEF RefOK
  <2>5. Still(h[tracked]) /\ (tx["stop"].phase = "begun" => Still(h[ref["stop"]]))
    BY <1>0, <1>1, <2>1, <2>3, <2>4 DEF Still
  <2>. QED  BY <1>0, <1>2, <2>1, <2>2, <2>3, <2>5
<1>7. CASE Write("chk")
  <2>1. /\ TxKept("stop") /\ tx'["chk"].was = tx["chk"].was
        /\ UNCHANGED <<heap, tracked, ref, pc, claim, queue>> /\ tx["chk"].phase # "none"
    BY <1>0, <1>7, WriteAdv DEF TxKept, Write, Capture, Commit, Refuse, DbError
  <2>2. /\ row' = row \/ (row' = tx["chk"].cols /\ tx["chk"].phase = "sent")
        /\ tx'["chk"].phase = "sent" => tx'["chk"].cols = heap[ref["chk"]] /\ tx["chk"].phase = "begun"
        /\ tx'["chk"].phase # "begun"
    BY <1>0, <1>7, WriteEffect
  <2>. QED  BY <1>0, <1>1, <2>1, <2>2 DEF Parking, TxKept
<1>. QED  BY <1>4, <1>5, <1>6, <1>7 DEF Check

LEMMA DrainParking ==
  ASSUME CInv, Parking, parked', Unattended, parked, Shutdown \/ Write("stop")
  PROVE  Parking'
<1>0. /\ ControlOK /\ RefOK /\ {"adv", "chk", "op", "boot", "stop"} = Thread
      /\ tx["stop"] \in Tx /\ tracked \in Objs
  BY DEF CInv, IInv, ThreadsOK, ControlOK, Thread, Parking
<1>1. /\ claim = NoClaim /\ queue = {} /\ \A a \in {"adv", "op", "boot"} : pc[a] = "idle"
      /\ Still(row) /\ Still(heap[tracked])
      /\ \A a \in {"chk", "stop"} : /\ tx[a].phase = "begun" => Still(heap[ref[a]])
                                    /\ tx[a].phase = "sent" => Still(tx[a].cols)
      /\ tx["chk"].phase # "none" =>
           \/ ref["chk"] = tracked /\ ~heap[tracked].armed /\ tx["chk"].was # "NONE"
           \/ ref["chk"] # tracked /\ ref["stop"] # ref["chk"]
  BY DEF Parking
<1>2. CASE Shutdown
  <2>. DEFINE h == [heap EXCEPT ![tracked].status = "PENDING"]
  <2>1. Request("stop", "handoff", h, tracked) /\ row' = row /\ heap[tracked].status = "RUNNING"
    BY <1>2 DEF Shutdown, durable
  <2>2. /\ h[tracked].status = "PENDING" /\ h[tracked].armed = heap[tracked].armed
        /\ \A x \in Objs \ {tracked} : h[x] = heap[x]
    BY <1>0 DEF ControlOK, Copy
  <2>. HIDE DEF h
  <2>3. Still(h[tracked]) /\ ~heap[tracked].armed
    BY <1>1, <2>1, <2>2 DEF Still
  <2>4. /\ ref'["stop"] = tracked
        /\ tx'["stop"].phase = "begun"
        /\ \A b \in Thread \ {"stop"} : ref'[b] = ref[b] /\ tx'[b] = tx[b] /\ pc'[b] = pc[b]
        /\ \A b \in Thread \ {"stop"} : ref[b] \in Objs => heap'[ref[b]] = h[ref[b]]
        /\ tracked' = tracked /\ heap'[tracked] = h[tracked] /\ UNCHANGED <<claim, queue>>
    BY <1>0, <2>1, RequestEffect, NewTxFields
  <2>5. tx["chk"].phase # "none" => ref["chk"] \in Objs
    BY <1>0 DEF RefOK
  <2>6. tx["chk"].phase = "begun" => Still(heap'[ref["chk"]])
    BY <1>0, <1>1, <2>2, <2>3, <2>4, <2>5
  <2>. QED  BY <1>0, <1>1, <2>1, <2>2, <2>3, <2>4, <2>5, <2>6 DEF Parking
<1>3. CASE Write("stop")
  <2>1. /\ TxKept("chk")
        /\ UNCHANGED <<heap, tracked, ref, pc, claim, queue>>
    BY <1>0, <1>3, WriteAdv DEF TxKept
  <2>2. /\ row' = row \/ (row' = tx["stop"].cols /\ tx["stop"].phase = "sent")
        /\ tx'["stop"].phase = "sent" => tx'["stop"].cols = heap[ref["stop"]] /\ tx["stop"].phase = "begun"
        /\ tx'["stop"].phase # "begun"
    BY <1>0, <1>3, WriteEffect
  <2>. QED  BY <1>0, <1>1, <2>1, <2>2 DEF Parking, TxKept
<1>. QED  BY <1>2, <1>3

\* Only a boot parks.
LEMMA NextParked == ASSUME [Next]_vars, ~Boot PROVE parked' => parked
<1>0. {"adv", "chk", "op", "boot", "stop"} = Thread
  BY DEF Thread
<1>. SUFFICES parked' = parked \/ parked' = FALSE
  OBVIOUS
<1>1. ASSUME NEW a, NEW k, NEW h, NEW o, Request(a, k, h, o) PROVE parked' = parked
  BY <1>1 DEF Request
<1>2. ASSUME NEW a, Write(a) \/ Liveness(a) \/ FailSettled(a) PROVE parked' = parked \/ parked' = FALSE
  BY <1>2, Zenon DEF Write, Capture, Commit, Refuse, DbError, Liveness, FailSettled, FailSaga, FailAgain,
     Stay, StopTracking, Request
<1>3. ASSUME NEW a, NEW o, CheckTimeout(a, o) PROVE parked' = parked \/ parked' = FALSE
  BY <1>3, Zenon DEF CheckTimeout, FailSaga, StopTracking, Request
<1>4. CASE Advance
  <2>1. CASE LoadPass \/ ReadStatus \/ Execute \/ Settle
    BY <1>3, <2>1, Zenon DEF LoadPass, ReadStatus, Execute, Settle, Stay, StopTracking, Request
  <2>2. CASE PassWrote \/ PassFailed \/ PassRefused
    BY <2>2, Zenon DEF PassWrote, PassFailed, PassRefused, FailSaga, Stay, StopTracking, Request
  <2>3. CASE WalkStatus \/ WalkLoad \/ WalkSync \/ Undo \/ WalkRecord \/ WalkFinish \/ WalkSettled
    BY <2>3, Zenon DEF WalkStatus, WalkLoad, WalkSync, Undo, WalkRecord, WalkFinish, WalkSettled, Stay,
       StopTracking, Request
  <2>. QED  BY <1>2, <1>4, <2>1, <2>2, <2>3, Zenon DEF Advance
<1>5. CASE Check
  BY <1>2, <1>3, <1>5, Zenon DEF Check, CheckerTick
<1>6. CASE Dispatch \/ Operate \/ StartSaga \/ RetryScan
  BY <1>1, <1>2, <1>6, Zenon DEF Dispatch, DispatchForward, DispatchWalk, Operate, StartSettled,
     CompensateSettled, StartSaga, RetryScan
<1>7. CASE Restart \/ Crash
  <2>1. CASE RewarmSettled \/ ShutdownSettled \/ Crash
    BY <2>1 DEF RewarmSettled, ShutdownSettled, Crash, Stay, ProcessGone
  <2>. QED  BY <1>2, <1>7, <2>1, Zenon DEF Restart
<1>8. CASE ContinueSaga \/ CompensateSaga \/ WorkerEvent \/ Shutdown
  BY <1>1, <1>8, Zenon DEF ContinueSaga, CompensateSaga, WorkerEvent, Shutdown
<1>9. CASE CacheExpires \/ (\E horizon \in Horizon : Tick(horizon)) \/ UNCHANGED vars
  BY <1>9 DEF CacheExpires, Tick, control, vars
<1>. QED  BY <1>4, <1>5, <1>6, <1>7, <1>8, <1>9 DEF Next

LEMMA NextParking == ASSUME CInv, Parking, [Next]_vars PROVE Parking'
<1>0. /\ ControlOK /\ {"adv", "chk", "op", "boot", "stop"} = Thread /\ Grows
      /\ {"op", "event"} \subseteq Fault
  BY NextGrows DEF CInv, IInv, ThreadsOK, Thread, Fault
<1>. SUFFICES ASSUME parked', Unattended' PROVE Parking'
  BY DEF Parking
<1>1. Unattended
  <2>1. \A f \in {"op", "event"} : spent[f] \in Nat /\ spent'[f] \in Nat /\ spent[f] <= spent'[f]
    BY <1>0 DEF CInv, IInv, WorldOK, Grows
  <2>. QED  BY <2>1 DEF Unattended
<1>2. CASE Boot
  <2>1. /\ \A a \in Thread : pc[a] = "idle" /\ ref[a] = NoObj /\ tx[a].phase = "none"
        /\ claim = NoClaim /\ queue = {} /\ ~parked
    BY <1>2, NoTxFields DEF Boot, CInv, Order, Gone, Released, Holding, Writing
  <2>2. Fresh \in Objs /\ row \in Copy
    BY <1>0, FreshType DEF ControlOK, CInv, IInv, DurableOK
  <2>. DEFINE compensating == row.status = "COMPENSATING"
              owned == ~compensating /\ row.armed
              park  == ~owned /\ row.cur >= Pivot
              warm  == ~compensating /\ ~park
  <2>3. /\ row.status \notin Terminal \cup {"NONE"} /\ row' = row /\ claim' = claim
        /\ tracked' = Fresh /\ heap' = [heap EXCEPT ![Fresh] = row] /\ parked' = park
        /\ queue' = BootQueue(owned, park, compensating)
        /\ pc' = [pc EXCEPT !["boot"] = IF warm THEN "write" ELSE "idle"]
        /\ tx' = [tx EXCEPT !["boot"] = IF warm THEN NewTx("rewarm", heap', Fresh, {}) ELSE NoTx]
    BY <1>2, <2>1 DEF Boot, durable
  <2>4. park /\ queue' = {} /\ ~warm /\ Still(row)
    BY <2>3 DEF BootQueue, Still
  <2>. HIDE DEF compensating, owned, park, warm
  <2>5. /\ \A a \in {"adv", "op", "boot"} : pc'[a] = "idle"
        /\ heap'[Fresh] = row /\ \A a \in {"chk", "stop"} : tx'[a].phase = "none"
    BY <1>0, <2>1, <2>2, <2>3, <2>4 DEF ControlOK
  <2>. QED  BY <2>1, <2>2, <2>3, <2>4, <2>5 DEF Parking
<1>3. CASE Crash \/ ShutdownSettled
  BY <1>3 DEF Crash, ShutdownSettled, ProcessGone
<1>4. CASE ContinueSaga \/ CompensateSaga \/ WorkerEvent
  <2>1. spent'["op"] > 0 \/ spent'["event"] > 0
    <3>1. \E what \in {"op", "event"} : Spend(what)
      BY <1>4 DEF ContinueSaga, CompensateSaga, WorkerEvent
    <3>. QED  BY <1>0, <3>1 DEF Spend, CInv, IInv, WorldOK
  <2>. QED  BY <1>0, <2>1 DEF Unattended
<1>5. CASE CacheExpires \/ (\E horizon \in Horizon : Tick(horizon)) \/ UNCHANGED vars
  <2>1. UNCHANGED <<row, heap, tracked, ref, parked, pc, tx, claim, queue>>
    BY <1>5 DEF CacheExpires, Tick, durable, control, vars
  <2>. QED  BY <1>1, <2>1 DEF Parking, Still
<1>6. ASSUME ~Boot, ~(Crash \/ ShutdownSettled), ~(ContinueSaga \/ CompensateSaga \/ WorkerEvent),
             ~(CacheExpires \/ (\E horizon \in Horizon : Tick(horizon)) \/ UNCHANGED vars)
      PROVE  Parking'
  <2>1. \/ Advance \/ Dispatch \/ Operate \/ StartSaga \/ RetryScan \/ RewarmSettled \/ Write("boot")
        \/ Check \/ Shutdown \/ Write("stop")
    BY <1>6 DEF Next, Restart
  <2>2. parked
    BY <1>6, NextParked
  <2>. QED  BY <1>1, <2>1, <2>2, ParkingStill, CheckParking, DrainParking
<1>. QED  BY <1>2, <1>3, <1>4, <1>5, <1>6

\* What a boot has parked is advanced by nobody until an operator continues it or a
\* worker's event arrives: whatever the checker and the drain write, and whatever
\* fails, nothing is queued and nobody holds the claim (disposeLoadedSaga, the
\* retry scan's query, checkSagaTimeout).
THEOREM ParkedLeftAlone == Spec => []ParkedIsLeftAlone
<1>1. Init => CInv /\ Parking
  BY InitInv, InitOrder DEF CInv, Init, Parking
<1>2. (CInv /\ Parking) /\ [Next]_vars => (CInv /\ Parking)'
  BY NextOrder, NextParking
<1>3. CInv /\ Parking => ParkedIsLeftAlone
  BY DEF Parking, ParkedIsLeftAlone, Unattended, NoClaim
<1>. QED  BY <1>1, <1>2, <1>3, PTL DEF Spec
=============================================================================
