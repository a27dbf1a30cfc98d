--------------------------- MODULE SagaUndo_proofs ---------------------------
(***************************************************************************)
(* Two things SagaEngine's records owe a saga that turned back, for every  *)
(* value of the constants, wherever no database call fails, no operator    *)
(* acts and nothing is drained.  What the row has recorded as undone is in *)
(* every walk's copy before it picks its next undo, so no resume repeats   *)
(* one, across crashes, lost cache writes and horizons.  And, where the    *)
(* process runs on, a saga that failed has recorded why.                   *)
(***************************************************************************)
EXTENDS SagaDirection_proofs

\* What the row has recorded as undone, and what a copy says is.
Recorded   == recorded.undone
Reverts(x) == Successes(x.comp)

\* From its joining of the row's record to its end a walk may know more than the row.
InWalk == pc["adv"] \in {"wundo", "wrecord"} \/ tx["adv"].kind \in WalkKinds
Known  == Recorded \cup (IF InWalk THEN Undone(heap, me) ELSE {})

\* A walk is asked for, or has not yet joined the row's record to its copy's.
Coming == "walk" \in queue \/ claim.pendingWalk \/ pc["adv"] \in {"wstatus", "wload", "wsync"}
Live   == row.status \notin Terminal

\* No copy knows of an undo beyond K.
Reverting(K) == {x \in Copy : Reverts(x) \subseteq K}
Within(K)    == CopiesIn(Reverting(K))

\* What a walk writes is its copy's record.
WalkWrites == tx["adv"].kind \in WalkKinds =>
  /\ tx["adv"].copy.comp = heap[me].comp
  /\ tx["adv"].phase = "sent" => tx["adv"].cols.comp = heap[me].comp

\* Nothing outlives a walk that the row does not record: not the copy others track,
\* not what Redis holds, not what the checker is about to write.
Outliving == Live =>
  /\ Reverts(row) \subseteq Recorded /\ Reverts(cache) \subseteq Recorded
  /\ Reverts(tx["chk"].copy) \subseteq Recorded
  /\ tracked # NoObj => Reverts(heap[tracked]) \subseteq Recorded \/ (InWalk /\ tracked = me)

\* Between two writes the walk knows no more than the row; it never knows less.
Persisted == Live /\ (pc["adv"] = "wundo" \/ (tx["adv"].kind \in WalkKinds /\ tx["adv"].phase = "ok"))
               => Undone(heap, me) \subseteq Recorded
Covered   == InWalk => Recorded \subseteq Undone(heap, me)
Visiting  == pc["adv"] = "wrecord" => NextUndo(heap, me) # {}

\* A saga on its way forward has nothing recorded as undone; nor has one whose walk
\* is still to come, where a pool may overtake (and so no crash interrupts a walk).
Clean ==
  /\ row.status \in {"NONE"} \cup Onward => Recorded = {}
  /\ Pass => Recorded = {}
  /\ Overtakes /\ Coming => Recorded = {}
OneWalk == claim.dir = "compensation" => "walk" \notin queue /\ ~claim.pendingWalk

\* In order, no write takes a recorded undo out of a row that is still to be walked:
\* one of the checker's that would is served while the advancer's waits behind it,
\* and then shares its copy.
RowKeeps == ~Overtakes /\ row.status = "COMPENSATING" => Recorded \subseteq Reverts(row)
Overlaid == ~Overtakes /\ Live /\ Out("chk") /\ Will("chk").status = "COMPENSATING" =>
  /\ tx["adv"].phase = "begun" /\ "chk" \in tx["adv"].ahead /\ tx["adv"].kind # "timeout"
  /\ Will("chk").comp = heap[me].comp

Recall == /\ WalkWrites /\ (Live => Within(Known)) /\ Outliving
          /\ Persisted /\ Covered /\ Visiting /\ Clean /\ OneWalk /\ RowKeeps /\ Overlaid

-----------------------------------------------------------------------------
(* Copies within K stay within K. *)

LEMMA WithinKept ==
  ASSUME CInv, NEW K, Within(K), WalkRecord => Successes(Noted) \subseteq K
  PROVE  Blank \in Reverting(K) /\ Keeps(Reverting(K))
<1>. DEFINE G == Reverting(K)
<1>0. /\ ControlOK /\ RefOK /\ StepOK /\ {"adv", "chk"} \subseteq Thread /\ NSteps \in Nat
      /\ heap \in [Objs -> Copy] /\ row \in Copy /\ row \in G
      /\ \A o \in Objs : heap[o] \in G
  BY StepsAssumption DEF CInv, IInv, DurableOK, ThreadsOK, ControlOK, Within, CopiesIn, Thread
<1>1. /\ \A x \in G : x \in Copy /\ Successes(x.comp) \subseteq K
      /\ \A x \in Copy : Successes(x.comp) \subseteq K => x \in G
  BY DEF Reverting, Reverts
<1>. HIDE DEF G
<1>2. Blank \in G
  <2>1. Blank.comp = [i \in Step |-> "none"]
    BY DEF Blank
  <2>2. Successes(Blank.comp) = {}
    BY <2>1 DEF Successes
  <2>. QED  BY <1>1, <2>2, BlankType
<1>3. ASSUME NEW x \in G, NEW s \in Status PROVE Put(x, s) \in G
  BY <1>1, PutFields
<1>4. {"PENDING", "RUNNING", "FAILED", "COMPENSATING", "COMPENSATED", "COMPLETED"} \subseteq Status
  BY DEF Status, Terminal
<1>5. KeepsPlain(G)
  <2>1. ASSUME NEW x \in G PROVE [x EXCEPT !.armed = FALSE] \in G
    <3>. DEFINE y == [x EXCEPT !.armed = FALSE]
    <3>1. y \in Copy /\ y.comp = x.comp
      BY <1>1, <2>1 DEF Copy
    <3>. HIDE DEF y
    <3>2. y \in G
      BY <1>1, <2>1, <3>1
    <3>. QED  BY <3>2 DEF y
  <2>. QED  BY <1>2, <1>3, <1>4, <2>1 DEF KeepsPlain
<1>6. KeepsFailures(G)
  <2>1. ASSUME NEW a \in Thread, tx[a].phase # "none"
        PROVE  Put(heap[ref[a]], "FAILED") \in G /\ Put(heap[ref[a]], tx[a].was) \in G
    <3>1. ref[a] \in Objs /\ tx[a].was \in Status
      BY <1>0, <2>1 DEF RefOK, ControlOK, Tx
    <3>. QED  BY <1>0, <1>3, <1>4, <3>1
  <2>. QED  BY <1>0, <1>3, <1>4, <2>1 DEF KeepsFailures
<1>7. KeepsPass(G)
  <2>. DEFINE i == heap[me].cur
              x == [heap[me] EXCEPT !.res = [heap[me].res EXCEPT ![i] = out]]
  <2>1. ASSUME pc["adv"] = "settle"
        PROVE  /\ [x EXCEPT !.armed = TRUE] \in G /\ x \in G
               /\ [x EXCEPT !.cur = i + 1, !.retry = 0, !.armed = FALSE] \in G
               /\ MayRetry(me) => [x EXCEPT !.retry = heap[me].retry + 1, !.armed = TRUE] \in G
    <3>1. /\ me \in Objs /\ heap[me] \in G /\ heap[me] \in Copy /\ i < NSteps /\ i \in Nat /\ out \in Outcome
      BY <1>0, <1>1, <2>1 DEF RefOK, StepOK, Holding, me, CInv, IInv, WorldOK, Copy
    <3>2. x \in Copy /\ x.comp = heap[me].comp
      BY <3>1 DEF Copy
    <3>. HIDE DEF x
    <3>3. x \in G
      BY <1>1, <3>1, <3>2
    <3>4. [x EXCEPT !.armed = TRUE] \in Copy /\ [x EXCEPT !.armed = TRUE].comp = x.comp
      BY <3>2 DEF Copy
    <3>5. i + 1 \in 0 .. NSteps /\ 0 \in 0 .. MaxRetries
      BY <3>1, StepsAssumption
    <3>6. /\ [x EXCEPT !.cur = i + 1, !.retry = 0, !.armed = FALSE] \in Copy
          /\ [x EXCEPT !.cur = i + 1, !.retry = 0, !.armed = FALSE].comp = x.comp
      BY <3>2, <3>5 DEF Copy
    <3>7. MayRetry(me) => heap[me].retry + 1 \in 0 .. MaxRetries
      BY <3>1, StepsAssumption DEF MayRetry, Copy
    <3>8. MayRetry(me) => /\ [x EXCEPT !.retry = heap[me].retry + 1, !.armed = TRUE] \in Copy
                          /\ [x EXCEPT !.retry = heap[me].retry + 1, !.armed = TRUE].comp = x.comp
      BY <3>2, <3>7 DEF Copy
    <3>. QED  BY <1>1, <3>3, <3>4, <3>6, <3>8
  <2>2. ASSUME tx["adv"].phase = "ok"
        PROVE  /\ Put(heap[me], "FAILED") \in G /\ Put(heap[me], "COMPENSATING") \in G
               /\ Put(heap[me], "COMPLETED") \in G
    <3>1. me \in Objs
      BY <1>0, <2>2 DEF RefOK, me
    <3>. QED  BY <1>0, <1>3, <1>4, <3>1
  <2>. QED  BY <2>1, <2>2 DEF KeepsPass
<1>8. ASSUME NEW x \in G, NEW c \in [Step -> Outcome], Successes(c) \subseteq K
      PROVE  [x EXCEPT !.comp = c] \in G
  <2>. DEFINE y == [x EXCEPT !.comp = c]
  <2>1. y \in Copy /\ y.comp = c
    BY <1>1, <1>8 DEF Copy
  <2>. QED  BY <1>1, <1>8, <2>1
<1>9. KeepsWalk(G)
  <2>1. ASSUME NEW x \in G PROVE [x EXCEPT !.comp = Joined(x)] \in G
    <3>1. Joined(x) \in [Step -> Outcome]
      BY <1>0, <1>1, <2>1 DEF Joined, Copy
    <3>2. Successes(Joined(x)) \subseteq Successes(row.comp) \cup Successes(x.comp)
      BY DEF Successes, Joined
    <3>. QED  BY <1>0, <1>1, <1>8, <2>1, <3>1, <3>2
  <2>2. ASSUME pc["adv"] \in {"wsync", "wundo", "wrecord"} PROVE me \in Objs
    BY <1>0, <2>2 DEF RefOK, Holding, me
  <2>3. ASSUME WalkRecord PROVE [heap[me] EXCEPT !.comp = Noted] \in G
    <3>1. me \in Objs /\ heap[me] \in G /\ heap[me] \in Copy /\ out \in Outcome
      BY <1>0, <2>2, <2>3 DEF WalkRecord, CInv, IInv, WorldOK
    <3>2. Noted \in [Step -> Outcome]
      BY <3>1 DEF Noted, Copy
    <3>. QED  BY <1>8, <2>3, <3>1, <3>2
  <2>4. ASSUME pc["adv"] = "wsync" PROVE Put(Merged(heap, me)[me], "COMPENSATING") \in G
    <3>1. me \in Objs /\ heap[me] \in G
      BY <1>0, <2>2, <2>4
    <3>2. Merged(heap, me)[me] = [heap[me] EXCEPT !.comp = Joined(heap[me])]
      BY <1>0, <3>1 DEF Merged, Joined
    <3>. QED  BY <1>3, <1>4, <2>1, <3>1, <3>2
  <2>. QED  BY <1>0, <1>3, <1>4, <2>1, <2>2, <2>3, <2>4 DEF KeepsWalk
<1>. QED  BY <1>2, <1>5, <1>6, <1>7, <1>9 DEF Keeps, G

\* A step that lets no walk learn of more keeps every copy within what is known.
LEMMA WithinStays ==
  ASSUME CInv, Within(Known), [Next]_vars, Known \subseteq Known',
         WalkRecord => Successes(Noted) \subseteq Known'
  PROVE  Within(Known)'
<1>. SUFFICES ASSUME NEW K, K = Known' PROVE Within(Known)'
  OBVIOUS
<1>1. Reverting(Known) \subseteq Reverting(K)
  BY DEF Reverting
<1>2. Within(K)
  BY <1>1 DEF Within, CopiesIn
<1>3. CopiesIn(Reverting(K))'
  BY <1>2, WithinKept, NextCopies DEF Within
<1>. QED  BY <1>3 DEF Within

\* Where the walk's copy is known to be within what is recorded.
LEMMA WithinMoves ==
  ASSUME CInv, Recall, [Next]_vars, Live' => Live,
         Live => Known \subseteq Known' /\ (WalkRecord => Successes(Noted) \subseteq Known')
  PROVE  (Live => Within(Known))'
  BY WithinStays DEF Recall

\* What the proofs below need of where the advancer is.
Spots ==
  /\ Basics /\ heap \in [Objs -> Copy] /\ row \in Copy /\ todo \subseteq Step /\ recorded.undone \subseteq Step
  /\ InWalk => /\ claim.dir = "compensation" /\ pc["adv"] # "idle" /\ ~Pass /\ ~Coming
               /\ me \in Objs /\ row.status \in Back
               /\ Live => row.status = "COMPENSATING" /\ heap[me].status \in Back
  /\ Pass => pc["adv"] \in {"run", "settle", "write"}
  /\ pc["adv"] \notin {"wundo", "wrecord", "write"} => ~InWalk
  /\ pc["adv"] = "write" /\ tx["adv"].kind \notin WalkKinds => ~InWalk
  /\ ~InWalk => Known = Recorded
  /\ tx["adv"].phase # "none" => tx["adv"].kind \in PassKinds \cup WalkKinds \cup {"timeout"} /\ pc["adv"] = "write"
  /\ tx["adv"].phase = "none" => tx["adv"].kind = "none"
  /\ Live => row.status \in {"NONE", "PENDING", "RUNNING", "COMPENSATING"}

LEMMA SpotsHold == ASSUME CInv, Dir, OneWalk PROVE Spots
<1>1. /\ Basics /\ heap \in [Objs -> Copy] /\ row \in Copy /\ todo \subseteq Step /\ recorded.undone \subseteq Step
      /\ pc["adv"] \in Holding => me \in Objs
  BY BasicsHold DEF CInv, IInv, DurableOK, WorldOK, ThreadsOK, ControlOK, RefOK, me, Thread
<1>2. /\ tx["adv"].phase # "none" => tx["adv"].kind \in PassKinds \cup WalkKinds \cup {"timeout"} /\ pc["adv"] = "write"
      /\ tx["adv"].phase = "none" => tx["adv"].kind = "none" /\ pc["adv"] # "write"
  BY <1>1, NoTxFields DEF Basics, KindsOf
<1>3. Pass => pc["adv"] \in {"run", "settle", "write"} /\ tx["adv"].kind \notin WalkKinds
  BY <1>2 DEF Pass, PassKinds, WalkKinds
<1>4. ASSUME InWalk PROVE claim.dir = "compensation" /\ pc["adv"] # "idle" /\ ~Pass /\ ~Coming /\ me \in Objs
  <2>1. claim.dir = "compensation"
    BY <1>4 DEF InWalk, CInv, Order, Claims, WalkLabels
  <2>2. pc["adv"] \in {"wundo", "wrecord", "write"}
    BY <1>2, <1>4 DEF InWalk, WalkKinds
  <2>. QED  BY <1>1, <1>3, <1>4, <2>1, <2>2 DEF InWalk, OneWalk, Coming, Holding
<1>5. Live => row.status \in {"NONE", "PENDING", "RUNNING", "COMPENSATING"}
  BY <1>1 DEF Live, Copy, Status
<1>6. ASSUME InWalk
      PROVE  row.status \in Back /\ (Live => row.status = "COMPENSATING" /\ heap[me].status \in Back)
  <2>1. row.status \in Back
    BY <1>4, <1>6 DEF Dir, TurnedBack, WalkDue
  <2>. QED  BY <1>5, <1>6, <2>1 DEF Back, Dir, InMemory, InWalk
<1>7. /\ pc["adv"] \notin {"wundo", "wrecord", "write"} => ~InWalk
      /\ pc["adv"] = "write" /\ tx["adv"].kind \notin WalkKinds => ~InWalk
      /\ ~InWalk => Known = Recorded
  BY <1>2 DEF InWalk, Known, WalkKinds
<1>. QED  BY <1>1, <1>2, <1>3, <1>4, <1>5, <1>6, <1>7 DEF Spots

\* What a walk's answer leaves of where it was.
LEMMA RecordPlace == ASSUME CInv, WalkRecord PROVE pc["adv"] = "wrecord" /\ pc'["adv"] \in {"idle", "write"}
<1>0. ControlOK /\ "adv" \in Thread
  BY DEF CInv, IInv, ThreadsOK, Thread
<1>1. ASSUME NEW h, Leave("adv", h, tracked) PROVE pc'["adv"] = "idle"
  BY <1>0, <1>1 DEF Leave, EndPass, ControlOK
<1>2. ASSUME NEW h, Request("adv", "wprogress", h, me) PROVE pc'["adv"] = "write"
  BY <1>0, <1>2 DEF Request, ControlOK
<1>. QED  BY <1>1, <1>2 DEF WalkRecord

\* Where no walk has joined the row's record, only the row's matters.
LEMMA OffWalk ==
  ASSUME CInv, CInv', Recall, [Next]_vars, ~InWalk', UNCHANGED <<row, recorded>>,
         Live => Known \subseteq Recorded /\ ~WalkRecord,
         Pass' \/ (Overtakes /\ Coming') => Recorded = {}, OneWalk', Overlaid'
  PROVE  Recall'
<1>1. /\ Known' = Recorded /\ Recorded' = Recorded
      /\ Live' <=> Live
  BY DEF Known, Recorded, Live
<1>2. (Live => Within(Known))'
  BY <1>1, WithinMoves
<1>3. /\ tx'["adv"].kind \notin WalkKinds /\ pc'["adv"] \notin {"wundo", "wrecord"}
      /\ tracked' # NoObj => tracked' \in Objs
      /\ "chk" \in Thread
  BY DEF InWalk, CInv, IInv, ThreadsOK, ControlOK, Thread
<1>4. Outliving'
  <2>1. ASSUME Live', NEW x, x \in Reverting(Known') PROVE Reverts(x) \subseteq Recorded
    BY <1>1, <2>1 DEF Reverting
  <2>2. Live' => CopiesIn(Reverting(Known))'
    BY <1>2 DEF Within
  <2>3. ASSUME Live'
        PROVE /\ row' \in Reverting(Known') /\ cache' \in Reverting(Known')
              /\ tx'["chk"].copy \in Reverting(Known')
              /\ tracked' # NoObj => heap'[tracked'] \in Reverting(Known')
    BY <1>3, <2>2, <2>3 DEF CopiesIn
  <2>4. ASSUME Live'
        PROVE /\ Reverts(row') \subseteq Recorded /\ Reverts(cache') \subseteq Recorded
              /\ Reverts(tx'["chk"].copy) \subseteq Recorded
              /\ tracked' # NoObj => Reverts(heap'[tracked']) \subseteq Recorded
    BY <2>1, <2>3, <2>4
  <2>. QED  BY <1>1, <2>4 DEF Outliving, Reverts
<1>5. WalkWrites' /\ Persisted' /\ Covered' /\ Visiting'
  BY <1>3 DEF WalkWrites, Persisted, Covered, Visiting, InWalk
<1>6. Clean' /\ RowKeeps'
  BY <1>1 DEF Recall, Clean, RowKeeps, Reverts
<1>. QED  BY <1>2, <1>4, <1>5, <1>6 DEF Recall

\* A write that the checker has out keeps to what the advancer's waits with.
LEMMA AsksOverlaid ==
  ASSUME CInv, Spots, Overlaid, ~Out("adv"), me \in Objs, NEW k, NEW x, AdvAsks(k, x), AskOK(k, x), row' = row
  PROVE  Overlaid'
<1>0. /\ "chk" \in Thread /\ "adv" \in Thread /\ "chk" # "adv"
      /\ Out("chk") => ref["chk"] \in Objs
      /\ me' = me /\ heap'[me] = x
      /\ tx'["chk"] = tx["chk"] /\ ref'["chk"] = ref["chk"]
  BY DEF Spots, Basics, AdvAsks, Shares
<1>. SUFFICES ASSUME ~Overtakes, Live', Out("chk")', Will("chk")'.status = "COMPENSATING"
     PROVE  /\ tx'["adv"].phase = "begun" /\ "chk" \in tx'["adv"].ahead /\ tx'["adv"].kind # "timeout"
            /\ Will("chk")'.comp = heap'[me'].comp
  BY DEF Overlaid
<1>1. Out("chk") /\ Live
  BY <1>0 DEF Out, Live
<1>2. Will("chk").status # "COMPENSATING"
  BY <1>1 DEF Overlaid, Out
<1>3. tx["chk"].phase = "begun" /\ ref["chk"] = me
  <2>1. tx["chk"].phase # "begun" \/ ref["chk"] # me => Will("chk")' = Will("chk")
    BY <1>0, <1>1 DEF Will, AdvAsks, Shares
  <2>. QED  BY <1>2, <2>1
<1>4. Will("chk")' = x
  BY <1>0, <1>3 DEF Will
<1>5. "chk" \in Line("adv")
  BY <1>0, <1>1 DEF Line, Out
<1>6. k # "timeout"
  BY <1>4 DEF AskOK
<1>. QED  BY <1>0, <1>4, <1>5, <1>6 DEF AdvAsks

\* A forward pass asks for a write.
LEMMA PassAsksRecall ==
  ASSUME CInv, CInv', Dir, Recall, [Next]_vars, ~Out("adv"), me \in Objs, NEW k \in Asked \ WalkKinds, NEW x,
         AdvAsks(k, x), AskOK(k, x), UNCHANGED <<row, recorded>>
  PROVE  Recall'
<1>0. Spots
  BY SpotsHold DEF Recall
<1>1. /\ pc'["adv"] = "write" /\ tx'["adv"].kind = k /\ ~InWalk'
      /\ UNCHANGED <<claim, queue>>
  BY DEF AdvAsks, InWalk, WalkKinds
<1>2. CASE k \in {"open", "timeout"}
  <2>1. pc["adv"] = "status" /\ Fwd
    BY <1>2 DEF AskOK
  <2>2. Recorded = {}
    BY <2>1 DEF Recall, Clean, Fwd
  <2>. QED  BY <1>0, <1>1, <2>1, <2>2, OffWalk, AsksOverlaid, RecordPlace DEF Recall, Spots, OneWalk
<1>3. CASE k \notin {"open", "timeout"}
  <2>1. Pass
    BY <1>3 DEF AskOK, Asked
  <2>2. Recorded = {} /\ ~InWalk
    BY <1>0, <2>1 DEF Recall, Clean, Spots
  <2>. QED  BY <1>0, <1>1, <2>1, <2>2, OffWalk, AsksOverlaid, RecordPlace DEF Recall, Spots, OneWalk
<1>. QED  BY <1>2, <1>3

\* A walk asks for a write of what it knows.
LEMMA WalkAsksRecall ==
  ASSUME CInv, Dir, Recall, [Next]_vars, ~Out("adv"), me \in Objs, NEW k \in WalkKinds, NEW x \in Copy,
         AdvAsks(k, x), AskOK(k, x), UNCHANGED <<row, cache, recorded>>, claim.dir = "compensation",
         Recorded \subseteq Reverts(x), InWalk => Undone(heap, me) \subseteq Reverts(x),
         WalkRecord => Successes(Noted) \subseteq Reverts(x)
  PROVE  Recall'
<1>0. Spots
  BY SpotsHold DEF Recall
<1>1. /\ pc'["adv"] = "write" /\ tx'["adv"].kind = k /\ tx'["adv"].phase = "begun" /\ tx'["adv"].copy = x
      /\ me' = me /\ heap'[me] = x /\ InWalk' /\ tx'["chk"] = tx["chk"]
      /\ UNCHANGED <<claim, queue, tracked>>
      /\ tracked \in Objs /\ tracked # me => heap'[tracked] = heap[tracked]
  BY <1>0 DEF AdvAsks, InWalk, WalkKinds, Spots, Basics, Shares
<1>2. /\ Recorded' = Recorded /\ Undone(heap, me)' = Reverts(x) /\ Known' = Recorded \cup Reverts(x)
      /\ Live' <=> Live
  BY <1>1 DEF Recorded, Undone, Reverts, Known, Live
<1>3. Known \subseteq Known'
  BY <1>2 DEF Known
<1>4. (Live => Within(Known))'
  BY <1>2, <1>3, WithinMoves
<1>5. ~Pass' /\ ~Coming' /\ OneWalk'
  BY <1>1 DEF Pass, PassKinds, WalkKinds, Coming, OneWalk, Recall
<1>6. WalkWrites' /\ Persisted' /\ Covered' /\ Visiting'
  BY <1>1, <1>2 DEF WalkWrites, Persisted, Covered, Visiting
<1>7. Outliving'
  <2>. SUFFICES ASSUME Live PROVE Outliving'
    BY <1>2 DEF Outliving
  <2>1. /\ Reverts(row) \subseteq Recorded /\ Reverts(cache) \subseteq Recorded
        /\ Reverts(tx["chk"].copy) \subseteq Recorded
        /\ tracked # NoObj /\ tracked # me => Reverts(heap[tracked]) \subseteq Recorded
    BY DEF Recall, Outliving
  <2>2. tracked # NoObj => tracked \in Objs
    BY <1>0 DEF Spots, Basics
  <2>. QED  BY <1>1, <1>2, <2>1, <2>2 DEF Outliving, Reverts
<1>8. Clean' /\ RowKeeps'
  BY <1>2, <1>5 DEF Recall, Clean, RowKeeps, Reverts
<1>9. Overlaid'
  BY <1>0, AsksOverlaid DEF Recall
<1>. QED  BY <1>4, <1>5, <1>6, <1>7, <1>8, <1>9 DEF Recall

\* What a walk that opens joins to its copy covers the record.
LEMMA JoiningCovers ==
  ASSUME Spots, Recall, Dir, pc["adv"] = "wsync", claim.dir = "compensation", row.status \notin Terminal
  PROVE  Recorded \subseteq Reverts(row)
<1>1. CASE Overtakes
  BY <1>1 DEF Recall, Clean, Coming
<1>2. CASE ~Overtakes
  <2>1. row.status = "COMPENSATING"
    BY DEF Dir, TurnedBack, WalkDue, Back, Terminal
  <2>. QED  BY <1>2, <2>1 DEF Recall, RowKeeps
<1>. QED  BY <1>1, <1>2

LEMMA AsksRecall ==
  ASSUME CInv, CInv', Dir, Recall, [Next]_vars, ~Out("adv"), TurnAsks, UNCHANGED <<row, recorded>>
  PROVE  Recall'
<1>0. Spots
  BY SpotsHold DEF Recall
<1>1. PICK k \in Asked, x \in Copy : AdvAsks(k, x) /\ AskOK(k, x) /\ AskRecords(k, x)
  BY DEF TurnAsks
<1>2. me \in Objs /\ UNCHANGED cache
  BY DEF TurnAsks
<1>3. CASE k \notin WalkKinds
  BY <1>1, <1>2, <1>3, PassAsksRecall
<1>4. ASSUME k \in WalkKinds, Recorded \subseteq Reverts(x), InWalk => Undone(heap, me) \subseteq Reverts(x),
             WalkRecord => Successes(Noted) \subseteq Reverts(x)
      PROVE  Recall'
  BY <1>1, <1>2, <1>4, WalkAsksRecall DEF AskOK
<1>5. CASE k = "wbegin"
  <2>1. /\ pc["adv"] = "wsync" /\ row.status \notin Terminal /\ claim.dir = "compensation"
        /\ Reverts(x) = Reverts(row) \cup Undone(heap, me)
    BY <1>1, <1>5 DEF AskRecords, AskOK, WalkKinds, Reverts, Undone
  <2>2. Recorded \subseteq Reverts(x)
    BY <1>0, <2>1, JoiningCovers
  <2>. QED  BY <1>4, <1>5, <2>1, <2>2, RecordPlace DEF WalkKinds
<1>6. CASE k = "wprogress"
  <2>1. pc["adv"] = "wrecord" /\ Reverts(x) = Reverts(row) \cup Successes(Noted) /\ InWalk
    BY <1>1, <1>6 DEF AskRecords, AskOK, Reverts, InWalk
  <2>2. Last(NextUndo(heap, me)) \notin Undone(heap, me)
    <3>1. NextUndo(heap, me) # {} /\ NextUndo(heap, me) \subseteq Step
      BY <1>0, <2>1 DEF Recall, Visiting, NextUndo, Spots
    <3>2. Last(NextUndo(heap, me)) \in NextUndo(heap, me)
      BY <3>1, LastIn
    <3>. QED  BY <3>2 DEF NextUndo
  <2>3. Undone(heap, me) \subseteq Successes(Noted)
    <3>1. heap[me].comp \in [Step -> Outcome]
      BY <1>0, <1>2 DEF Spots, Copy
    <3>. QED  BY <2>2, <3>1 DEF Undone, Successes, Noted
  <2>4. Recorded \subseteq Undone(heap, me)
    BY <2>1 DEF Recall, Covered
  <2>. QED  BY <1>4, <1>6, <2>1, <2>3, <2>4 DEF WalkKinds
<1>7. CASE k = "wdone"
  <2>1. pc["adv"] = "wundo" /\ Reverts(x) = Undone(heap, me) /\ InWalk
    BY <1>1, <1>7 DEF AskRecords, Reverts, Undone, InWalk
  <2>2. Recorded \subseteq Undone(heap, me)
    BY <2>1 DEF Recall, Covered
  <2>. QED  BY <1>4, <1>7, <2>1, <2>2, RecordPlace DEF WalkKinds
<1>. QED  BY <1>3, <1>5, <1>6, <1>7 DEF WalkKinds

\* Where the advancer asks for nothing, the checker's write stays as it is.
LEMMA StillOverlaid ==
  ASSUME Spots, Overlaid, ~Out("adv"), tx'["chk"] = tx["chk"], ref'["chk"] = ref["chk"], row' = row,
         Live /\ ref["chk"] \in Objs => heap'[ref["chk"]].status = heap[ref["chk"]].status
  PROVE  Overlaid'
<1>1. Out("chk") => ref["chk"] \in Objs
  BY DEF Spots, Basics
<1>. SUFFICES ASSUME ~Overtakes, Live', Out("chk")' PROVE Will("chk")'.status # "COMPENSATING"
  BY DEF Overlaid
<1>2. Out("chk") /\ Live
  BY DEF Out, Live
<1>3. Will("chk")'.status = Will("chk").status
  BY <1>1, <1>2 DEF Will
<1>4. Will("chk").status # "COMPENSATING"
  BY <1>2 DEF Overlaid, Out
<1>. QED  BY <1>3, <1>4

\* What is known when a walk ends is recorded.
LEMMA KnownAtRest ==
  ASSUME CInv, Spots, Dir, Recall, ~Out("adv"), Live, pc["adv"] # "wrecord"
  PROVE  Known \subseteq Recorded
<1>1. CASE tx["adv"].kind \in WalkKinds
  <2>1. tx["adv"].phase \in Phase /\ "adv" \in Thread
    BY DEF CInv, IInv, ThreadsOK, ControlOK, Tx, Thread
  <2>2. tx["adv"].phase = "ok"
    BY <1>1, <2>1 DEF Spots, Out, Phase, Dir, Healthy, Settling, Live, WalkKinds
  <2>. QED  BY <1>1, <2>2 DEF Recall, Persisted, Known
<1>2. CASE tx["adv"].kind \notin WalkKinds
  BY <1>2 DEF Recall, Persisted, Known, InWalk
<1>. QED  BY <1>1, <1>2

\* The advancer's turn ends.
LEMMA RestsRecall ==
  ASSUME CInv, CInv', Dir, Recall, [Next]_vars, ~Out("adv"), TurnRests, UNCHANGED <<row, recorded>>
  PROVE  Recall'
<1>0. Spots
  BY SpotsHold DEF Recall
<1>1. PICK t : AdvRests(t)
  BY DEF TurnRests
<1>2. /\ pc'["adv"] \in {"idle", "load"} /\ tx'["adv"].kind = "none" /\ ~InWalk' /\ ~Pass'
      /\ tx'["chk"] = tx["chk"] /\ ref'["chk"] = ref["chk"]
      /\ Live /\ ref["chk"] \in Objs => heap'[ref["chk"]] = heap[ref["chk"]]
  BY <1>0, <1>1, NoTxFields DEF AdvRests, Spots, Basics, InWalk, Pass, WalkKinds, PassKinds, Live
<1>3. Live => pc["adv"] # "wrecord"
  BY DEF TurnRests, Live
<1>4. Live => Known \subseteq Recorded /\ ~WalkRecord
  BY <1>0, <1>3, KnownAtRest, RecordPlace
<1>5. Overtakes /\ Coming' => Recorded = {}
  BY <1>1, <1>2 DEF AdvRests, Coming, Recall, Clean
<1>6. OneWalk'
  <2>1. claim' = NoClaim \/ claim'.dir = "forward"
    BY <1>2 DEF CInv, Order, Claims, PassLabels
  <2>. QED  BY <2>1 DEF OneWalk, NoClaim
<1>7. Overlaid'
  BY <1>0, <1>2, StillOverlaid DEF Recall
<1>. QED  BY <1>2, <1>4, <1>5, <1>6, <1>7, OffWalk

\* It takes hold of the saga, or a step runs.
LEMMA ForwardRecall ==
  ASSUME CInv, CInv', Dir, Recall, [Next]_vars, ~Out("adv"), TurnLoads \/ GoesOn \/ Execute,
         UNCHANGED <<row, recorded>>
  PROVE  Recall'
<1>0. Spots
  BY SpotsHold DEF Recall
<1>a. pc \in [Thread -> Label] /\ tx \in [Thread -> Tx] /\ {"adv", "chk"} \subseteq Thread
  BY DEF CInv, IInv, ThreadsOK, ControlOK, Thread
<1>1. CASE TurnLoads
  <2>1. pc["adv"] = "load" /\ Holds("status")
    BY <1>1 DEF TurnLoads
  <2>2. /\ pc'["adv"] = "status" /\ tx["adv"].kind = "none" /\ UNCHANGED <<tx, claim, queue>>
        /\ ref'["chk"] = ref["chk"]
        /\ ref["chk"] \in Objs => heap'[ref["chk"]] = heap[ref["chk"]]
    BY <1>0, <2>1 DEF Holds, Spots, Basics
  <2>3. /\ ~InWalk /\ ~InWalk' /\ ~Pass' /\ (Coming' => Coming) /\ OneWalk'
    BY <2>1, <2>2 DEF InWalk, WalkKinds, Pass, PassKinds, Coming, OneWalk, Recall
  <2>4. Overlaid'
    BY <1>0, <2>2, StillOverlaid DEF Recall
  <2>5. Known \subseteq Recorded /\ ~WalkRecord
    BY <1>0, <2>1, <2>3, RecordPlace DEF Spots
  <2>. QED  BY <2>3, <2>4, <2>5, OffWalk DEF Recall, Clean
<1>2. CASE GoesOn \/ Execute
  <2>1. Pass /\ pc["adv"] # "wrecord"
    BY <1>2 DEF GoesOn, Execute, Pass, PassKinds
  <2>2. /\ UNCHANGED <<heap, ref, claim, queue>> /\ tx'["chk"] = tx["chk"]
        /\ pc'["adv"] \in {"run", "settle"} /\ tx'["adv"].kind = "none"
    <3>1. CASE GoesOn
      BY <1>a, <3>1, NoTxFields DEF GoesOn, memory
    <3>2. CASE Execute
      <4>1. tx["adv"].kind = "none"
        BY <1>0, <3>2 DEF Execute, Spots
      <4>. QED  BY <1>a, <3>2, <4>1 DEF Execute, memory
    <3>. QED  BY <1>2, <3>1, <3>2
  <2>3. /\ Recorded = {} /\ ~InWalk' /\ OneWalk' /\ ~InWalk
    BY <1>0, <2>1, <2>2 DEF InWalk, WalkKinds, OneWalk, Recall, Clean, Spots
  <2>4. Overlaid'
    BY <1>0, <2>2, StillOverlaid DEF Recall
  <2>5. Known \subseteq Recorded /\ ~WalkRecord
    BY <1>0, <2>1, <2>3, RecordPlace DEF Spots
  <2>. QED  BY <2>3, <2>4, <2>5, OffWalk
<1>. QED  BY <1>1, <1>2

\* The walk goes on, with what it knows.
LEMMA WalksOnRecall ==
  ASSUME CInv, Spots, Dir, Recall, [Next]_vars, ~Out("adv"), WalkOn, claim.dir = "compensation",
         pc'["adv"] \in {"wundo", "wrecord"}, ~WalkRecord,
         UNCHANGED <<row, cache, tracked, ref, claim, queue, recorded>>,
         \A o \in Objs : o = me \/ heap'[o] = heap[o],
         Known \subseteq Known', Recorded \subseteq Undone(heap, me)', Persisted', Visiting'
  PROVE  Recall'
<1>1. /\ tx'["adv"].kind = "none" /\ me' = me /\ InWalk' /\ "chk" \in Thread \ {"adv"}
      /\ tx'["chk"] = tx["chk"]
      /\ ref["chk"] \in Objs => heap'[ref["chk"]].status = heap[ref["chk"]].status
      /\ tracked # NoObj => tracked \in Objs
  BY NoTxFields DEF WalkOn, InWalk, me, Spots, Basics
<1>2. Recorded' = Recorded /\ (Live' <=> Live)
  BY DEF Recorded, Live
<1>3. (Live => Within(Known))'
  BY <1>2, WithinMoves
<1>4. ~Pass' /\ ~Coming' /\ OneWalk'
  BY <1>1 DEF Pass, PassKinds, Coming, OneWalk, Recall
<1>5. WalkWrites' /\ Covered'
  BY <1>1, <1>2 DEF WalkWrites, WalkKinds, Covered
<1>6. Outliving'
  <2>. SUFFICES ASSUME Live PROVE Outliving'
    BY <1>2 DEF Outliving
  <2>1. /\ Reverts(row) \subseteq Recorded /\ Reverts(cache) \subseteq Recorded
        /\ Reverts(tx["chk"].copy) \subseteq Recorded
        /\ tracked # NoObj /\ tracked # me => Reverts(heap[tracked]) \subseteq Recorded
    BY DEF Recall, Outliving
  <2>. QED  BY <1>1, <1>2, <2>1 DEF Outliving, Reverts
<1>7. Clean' /\ RowKeeps'
  BY <1>2, <1>4 DEF Recall, Clean, RowKeeps, Reverts
<1>8. Overlaid'
  BY <1>1, StillOverlaid DEF Recall
<1>. QED  BY <1>3, <1>4, <1>5, <1>6, <1>7, <1>8 DEF Recall

LEMMA WalksRecall ==
  ASSUME CInv, CInv', Dir, Recall, [Next]_vars, ~Out("adv"), TurnWalks, UNCHANGED <<row, recorded>>
  PROVE  Recall'
<1>0. Spots
  BY SpotsHold DEF Recall
<1>1. /\ WalkOn /\ claim.dir = "compensation" /\ UNCHANGED <<claim, queue>> /\ pc'["adv"] \in WalkLabels
      /\ tx'["adv"].kind = "none" /\ tx'["adv"].phase = "none" /\ "chk" \in Thread \ {"adv"}
  BY <1>0, NoTxFields DEF TurnWalks, WalkOn, Spots, Basics
<1>2. ~WalkRecord
  BY <1>1, RecordPlace DEF WalkLabels
<1>a. Recorded' = Recorded /\ (Live' <=> Live)
  BY DEF Recorded, Live
<1>3. CASE \/ pc["adv"] = "wstatus" /\ pc'["adv"] = "wload" /\ UNCHANGED <<memory, tx>>
           \/ pc["adv"] = "wload" /\ Holds("wsync")
  <2>0. pc["adv"] \in {"wstatus", "wload"} /\ pc'["adv"] \in {"wload", "wsync"}
    BY <1>3 DEF Holds
  <2>1. /\ ~InWalk /\ ~InWalk' /\ ~Pass' /\ Coming
        /\ OneWalk'
    BY <1>0, <1>1, <2>0 DEF InWalk, Pass, WalkKinds, PassKinds, Coming, Spots, OneWalk, Recall
  <2>2. Overlaid'
    BY <1>0, <1>1, StillOverlaid DEF Recall, WalkOn
  <2>3. Known \subseteq Recorded
    BY <1>0, <2>1 DEF Spots
  <2>. QED  BY <1>2, <2>1, <2>2, <2>3, OffWalk DEF Recall, Clean
<1>4. CASE /\ UNCHANGED <<cache, tracked, ref>>
           /\ \A o \in Objs : o = me \/ heap'[o] = heap[o]
           /\ pc["adv"] = "wsync" /\ pc'["adv"] = "wundo" /\ row.status \notin Terminal
           /\ Successes(heap'[me].comp) = Successes(row.comp) \cup Successes(heap[me].comp)
  <2>1. /\ ~InWalk /\ me' = me /\ me \in Objs /\ InWalk'
        /\ Undone(heap, me)' = Reverts(row) \cup Reverts(heap[me])
    BY <1>0, <1>4 DEF Spots, me, Undone, Reverts, InWalk, CInv, IInv, ThreadsOK, RefOK, Holding, Thread
  <2>2. Live /\ Known = Recorded
    BY <1>0, <1>4, <2>1 DEF Live, Spots
  <2>3. Reverts(row) \subseteq Recorded /\ Reverts(heap[me]) \subseteq Recorded
    BY <2>1, <2>2 DEF Recall, Within, CopiesIn, Reverting
  <2>4. Recorded \subseteq Undone(heap, me)'
    BY <1>0, <1>1, <1>4, <2>1, JoiningCovers
  <2>5. Known \subseteq Known'
    BY <1>a, <2>2 DEF Known
  <2>6. Persisted' /\ Visiting'
    BY <1>a, <1>4, <2>1, <2>3 DEF Persisted, Visiting
  <2>. QED  BY <1>0, <1>1, <1>2, <1>4, <2>4, <2>5, <2>6, WalksOnRecall
<1>5. ASSUME InWalk, UNCHANGED <<heap, cache, tracked, ref>>, pc'["adv"] \in {"wundo", "wrecord"},
             Persisted', Visiting'
      PROVE  Recall'
  <2>1. me' = me /\ InWalk' /\ Undone(heap, me)' = Undone(heap, me)
    BY <1>5 DEF me, InWalk, Undone
  <2>2. Recorded \subseteq Undone(heap, me)' /\ Known \subseteq Known'
    BY <1>5, <1>a, <2>1 DEF Recall, Covered, Known
  <2>. QED  BY <1>0, <1>1, <1>2, <1>5, <2>2, WalksOnRecall
<1>6. CASE /\ UNCHANGED <<cache, tracked, ref, heap, todo>>
           /\ pc["adv"] = "wundo" /\ pc'["adv"] = "wrecord" /\ NextUndo(heap, me) # {}
  <2>1. InWalk /\ Visiting'
    BY <1>6 DEF InWalk, Visiting, NextUndo, Undone, me
  <2>2. Persisted'
    BY <1>1, <1>6 DEF Persisted, WalkKinds
  <2>. QED  BY <1>5, <1>6, <2>1, <2>2
<1>7. CASE /\ UNCHANGED <<cache, tracked, ref, heap>>
           /\ tx["adv"].kind \in WalkKinds /\ tx["adv"].phase = "ok" /\ pc'["adv"] = "wundo"
  <2>1. InWalk /\ Visiting'
    BY <1>7 DEF InWalk, Visiting
  <2>2. Persisted'
    BY <1>a, <1>7 DEF Recall, Persisted, Undone, me, Live
  <2>. QED  BY <1>5, <1>7, <2>1, <2>2
<1>. QED  BY <1>3, <1>4, <1>6, <1>7 DEF TurnWalks

LEMMA TurnRecall ==
  ASSUME CInv, CInv', Dir, Recall, [Next]_vars, AdvTurn, recorded' = recorded
  PROVE  Recall'
  BY AsksRecall, RestsRecall, ForwardRecall, WalksRecall DEF AdvTurn

-----------------------------------------------------------------------------
(* The moments of a write. *)

\* What a write adds to the record, and what it leaves of the walk.
LEMMA WriteRecords ==
  ASSUME CInv, Healthy, Steady', NEW a \in Thread, Write(a)
  PROVE  /\ tx'[a].phase \in {"sent", "refused"} => recorded' = recorded
         /\ tx'[a].phase = "ok" => recorded'.undone = recorded.undone \cup Reverts(row')
         /\ UNCHANGED <<out, todo>>
<1>1. UNCHANGED <<out, todo>>
  BY WriteAdv
<1>2. ~Spend("db")
  BY SteadySpends
<1>3. CASE Capture(a) \/ Refuse(a)
  <2>1. recorded' = recorded
    BY <1>3 DEF Capture, Refuse, durable
  <2>2. tx'[a].phase # "ok"
    <3>1. tx \in [Thread -> Tx]
      BY DEF CInv, IInv, ThreadsOK, ControlOK
    <3>2. Capture(a) => tx'[a].phase = "sent"
      BY <3>1 DEF Capture, Tx
    <3>3. Refuse(a) => tx'[a].phase = "refused"
      BY <3>1 DEF Refuse, Done, Tx
    <3>. QED  BY <1>3, <3>2, <3>3
  <2>. QED  BY <1>1, <2>1, <2>2
<1>4. CASE Commit(a)
  <2>1. recorded'.undone = recorded.undone \cup Reverts(row')
    BY <1>4 DEF Commit, Reverts
  <2>2. tx'[a].phase = "ok"
    <3>1. tx \in [Thread -> Tx]
      BY DEF CInv, IInv, ThreadsOK, ControlOK
    <3>2. tx' = Done(a, "ok")
      BY <1>2, <1>4 DEF Commit
    <3>. QED  BY <3>1, <3>2 DEF Done, Tx
  <2>. QED  BY <1>1, <2>1, <2>2
<1>. QED  BY <1>2, <1>3, <1>4 DEF Write, DbError

\* Nothing but the write itself and the record moves.
Unmoved(a) ==
  /\ UNCHANGED <<heap, tracked, ref, pc, claim, queue, out, todo>>
  /\ \A b \in Thread : tx'[b].kind = tx[b].kind /\ tx'[b].copy = tx[b].copy
  /\ \A b \in Thread \ {a} : tx'[b].phase = tx[b].phase /\ tx'[b].cols = tx[b].cols

LEMMA UnmovedPlaces ==
  ASSUME NEW a, Unmoved(a)
  PROVE  /\ me' = me /\ (InWalk' <=> InWalk) /\ (Pass' <=> Pass) /\ (Coming' <=> Coming)
         /\ Undone(heap, me)' = Undone(heap, me)
         /\ OneWalk' <=> OneWalk
         /\ Visiting' <=> Visiting
<1>1. me' = me /\ Undone(heap, me)' = Undone(heap, me) /\ NextUndo(heap, me)' = NextUndo(heap, me)
  BY DEF Unmoved, me, Undone, NextUndo
<1>2. tx'["adv"].kind = tx["adv"].kind
  BY DEF Unmoved, Thread
<1>. QED  BY <1>1, <1>2 DEF Unmoved, InWalk, Pass, Coming, OneWalk, Visiting

LEMMA NoAnswerToWrite == ASSUME CInv, NEW a, Unmoved(a) PROVE ~WalkRecord
  BY RecordPlace DEF Unmoved

\* The transaction reads its columns.
LEMMA CaptureRecall ==
  ASSUME CInv, Spots, Recall, [Next]_vars, NEW a \in Thread, Unmoved(a), tx[a].phase = "begun", tx[a].ahead = {},
         tx'[a].phase = "sent", tx'[a].cols = heap[ref[a]], UNCHANGED <<row, cache, recorded>>,
         \A b \in Thread : tx'[b].ahead = tx[b].ahead
  PROVE  Recall'
<1>1. /\ me' = me /\ (InWalk' <=> InWalk) /\ (Pass' <=> Pass) /\ (Coming' <=> Coming)
      /\ Undone(heap, me)' = Undone(heap, me) /\ OneWalk' /\ Visiting' /\ ~WalkRecord
      /\ Recorded' = Recorded /\ (Live' <=> Live)
  BY UnmovedPlaces, NoAnswerToWrite DEF Recall, Recorded, Live
<1>2. /\ tx'["adv"].kind = tx["adv"].kind /\ tx'["adv"].copy = tx["adv"].copy /\ tx'["chk"].copy = tx["chk"].copy
      /\ tx'["adv"].phase = tx["adv"].phase \/ (a = "adv" /\ tx'["adv"].phase = "sent")
      /\ tx'["adv"].cols = tx["adv"].cols \/ (a = "adv" /\ tx'["adv"].cols = heap[me])
      /\ {"adv", "chk"} \subseteq Thread
  BY DEF Unmoved, Thread, me
<1>3. Known' = Known
  BY <1>1 DEF Known
<1>4. (Live => Within(Known))'
  BY <1>1, <1>3, WithinMoves
<1>5. WalkWrites' /\ Persisted' /\ Covered'
  <2>1. WalkWrites'
    <3>1. heap'[me'] = heap[me]
      BY <1>1 DEF Unmoved
    <3>2. a = "adv" => tx'["adv"].cols = heap[me]
      BY DEF me
    <3>3. a # "adv" => tx'["adv"].cols = tx["adv"].cols /\ tx'["adv"].phase = tx["adv"].phase
      BY <1>2 DEF Unmoved
    <3>. QED  BY <1>2, <3>1, <3>2, <3>3 DEF Recall, WalkWrites
  <2>2. Persisted' /\ Covered'
    BY <1>1, <1>2 DEF Recall, Persisted, Covered, Unmoved
  <2>. QED  BY <2>1, <2>2
<1>6. Outliving'
  BY <1>1, <1>2 DEF Recall, Outliving, Reverts, Unmoved
<1>7. Clean' /\ RowKeeps'
  BY <1>1 DEF Recall, Clean, RowKeeps, Reverts
<1>8. Overlaid'
  <2>. SUFFICES ASSUME ~Overtakes, Live', Out("chk")', Will("chk")'.status = "COMPENSATING" PROVE Overlaid'
    BY DEF Overlaid
  <2>1. Out("chk") /\ Will("chk")' = Will("chk")
    BY <1>2 DEF Out, Will, Unmoved
  <2>2. /\ tx["adv"].phase = "begun" /\ "chk" \in tx["adv"].ahead /\ tx["adv"].kind # "timeout"
        /\ Will("chk").comp = heap[me].comp
    BY <1>1, <2>1 DEF Recall, Overlaid
  <2>3. a # "adv"
    BY <2>2
  <2>4. tx'["adv"].phase = "begun" /\ "chk" \in tx'["adv"].ahead
    BY <1>2, <2>2, <2>3
  <2>5. heap'[me'] = heap[me]
    BY <1>1 DEF Unmoved
  <2>. QED  BY <1>2, <2>1, <2>2, <2>4, <2>5 DEF Overlaid
<1>. QED  BY <1>1, <1>4, <1>5, <1>6, <1>7, <1>8 DEF Recall

\* A row that has ended admits nothing.
LEMMA RefuseRecall ==
  ASSUME CInv, Spots, Recall, NEW a \in Thread, Unmoved(a), row.status \in Terminal,
         tx'[a].phase = "refused", UNCHANGED <<row, recorded>>
  PROVE  Recall'
<1>1. /\ me' = me /\ (InWalk' <=> InWalk) /\ (Pass' <=> Pass) /\ (Coming' <=> Coming)
      /\ Undone(heap, me)' = Undone(heap, me) /\ OneWalk' /\ Visiting'
      /\ Recorded' = Recorded /\ ~Live'
  BY UnmovedPlaces DEF Recall, Recorded, Live
<1>2. /\ tx'["adv"].kind = tx["adv"].kind /\ tx'["adv"].copy = tx["adv"].copy
      /\ tx'["adv"].phase = "sent" => tx["adv"].phase = "sent" /\ tx'["adv"].cols = tx["adv"].cols
  BY DEF Unmoved, Thread
<1>3. heap'[me'] = heap[me]
  BY <1>1 DEF Unmoved
<1>4. WalkWrites' /\ Covered'
  BY <1>1, <1>2, <1>3 DEF Recall, WalkWrites, Covered
<1>5. Outliving' /\ Persisted' /\ Overlaid' /\ (Live => Within(Known))'
  BY <1>1 DEF Outliving, Persisted, Overlaid
<1>6. Clean' /\ RowKeeps'
  BY <1>1 DEF Recall, Clean, RowKeeps, Reverts
<1>. QED  BY <1>1, <1>4, <1>5, <1>6 DEF Recall

\* Whose write it is that lands, and what it may tell.
LEMMA CommitTells ==
  ASSUME CInv, Dir, Spots, Recall, NEW a \in Thread, Live, tx[a].phase = "sent"
  PROVE  /\ Out(a) /\ Will(a) = tx[a].cols
         /\ Reverts(tx[a].cols) \subseteq Known
         /\ a = "adv" /\ tx["adv"].kind \in WalkKinds => Reverts(tx[a].cols) = Undone(heap, me)
         /\ Reverts(tx[a].copy) \subseteq Recorded \cup Reverts(tx[a].cols)
<1>1. Out(a) /\ Will(a) = tx[a].cols /\ pc[a] = "write"
  BY DEF Out, Will, Spots, Basics
<1>2. tx[a].cols \in Reverting(Known) /\ tx[a].copy \in Reverting(Known)
  BY DEF Recall, Within, CopiesIn
<1>3. Reverts(tx[a].cols) \subseteq Known /\ Reverts(tx[a].copy) \subseteq Known
  BY <1>2 DEF Reverting
<1>4. a = "adv" /\ tx["adv"].kind \in WalkKinds
        => Reverts(tx[a].cols) = Undone(heap, me) /\ Reverts(tx[a].copy) = Reverts(tx[a].cols)
  BY DEF Recall, WalkWrites, Reverts, Undone
<1>5. CASE ~InWalk
  BY <1>1, <1>3, <1>4, <1>5 DEF Spots
<1>6. CASE InWalk /\ a = "adv"
  <2>1. tx["adv"].kind \in WalkKinds
    BY <1>1, <1>6 DEF Spots
  <2>. QED  BY <1>1, <1>3, <1>4, <1>6, <2>1
<1>7. CASE InWalk /\ a = "chk"
  BY <1>1, <1>3, <1>7 DEF Recall, Outliving
<1>8. a = "op" => ~InWalk
  <2>1. a = "op" => tx["op"].kind = "start"
    BY DEF Spots, Basics, Dir, Healthy, KindsOf
  <2>2. a = "op" => pc["adv"] = "idle"
    BY <2>1 DEF Dir, Starting, Spots, Basics
  <2>. QED  BY <2>2 DEF Spots
<1>9. a = "boot" => ~InWalk
  BY <1>1 DEF Dir, Rewarming, InWalk, WalkKinds
<1>10. a # "stop"
  BY <1>1 DEF Dir, Healthy
<1>. QED  BY <1>5, <1>6, <1>7, <1>8, <1>9, <1>10 DEF Spots, Basics

\* A write that leaves a row still to be walked leaves it all that is recorded.
LEMMA CommitKeeps ==
  ASSUME CInv, Dir, Spots, Recall, NEW a \in Thread, Live, tx[a].phase = "sent",
         ~Overtakes, tx[a].cols.status = "COMPENSATING"
  PROVE  Recorded \subseteq Reverts(tx[a].cols)
<1>1. Out(a) /\ Will(a) = tx[a].cols
  BY CommitTells
<1>2. CASE row.status # "COMPENSATING"
  <2>1. row.status \in {"NONE"} \cup Onward
    BY <1>2 DEF Spots, Onward
  <2>. QED  BY <2>1 DEF Recall, Clean
<1>3. ASSUME tx["adv"].phase # "none", tx["adv"].kind # "timeout", Reverts(tx[a].cols) = Undone(heap, me)
               \/ tx["adv"].kind \notin WalkKinds
      PROVE  Recorded \subseteq Reverts(tx[a].cols)
  <2>1. CASE tx["adv"].kind \in PassKinds
    BY <2>1 DEF Recall, Clean, Pass
  <2>2. CASE tx["adv"].kind \in WalkKinds
    <3>1. tx["adv"].kind \notin PassKinds
      BY <2>2 DEF PassKinds, WalkKinds
    <3>. QED  BY <1>3, <2>2 DEF Recall, Covered, InWalk
  <2>. QED  BY <1>3, <2>1, <2>2 DEF Spots
<1>4. CASE row.status = "COMPENSATING"
  <2>1. a \in {"adv", "chk"}
    BY <1>1, <1>4 DEF Dir, BackWrites
  <2>2. CASE a = "adv"
    <3>1. tx["adv"].kind # "timeout"
      <4>1. tx["adv"].kind = "timeout" => AdvEnds
        BY <1>1, <2>2 DEF AdvEnds, EndKinds
      <4>2. AdvEnds => Will("adv").status \in {"FAILED", "COMPLETED"}
        BY DEF Dir, EndWrites, Live
      <4>. QED  BY <1>1, <2>2, <4>1, <4>2
    <3>2. Reverts(tx[a].cols) = Undone(heap, me) \/ tx["adv"].kind \notin WalkKinds
      BY <2>2, CommitTells
    <3>. QED  BY <1>3, <2>2, <3>1, <3>2
  <2>3. CASE a = "chk"
    <3>1. /\ tx["adv"].phase = "begun" /\ tx["adv"].kind # "timeout"
          /\ tx[a].cols.comp = heap[me].comp
      BY <1>1, <2>3 DEF Recall, Overlaid
    <3>2. Reverts(tx[a].cols) = Undone(heap, me)
      BY <3>1 DEF Reverts, Undone
    <3>. QED  BY <1>3, <3>1, <3>2
  <2>. QED  BY <2>1, <2>2, <2>3
<1>. QED  BY <1>2, <1>4

\* A write lands.
LEMMA CommitRecall ==
  ASSUME CInv, Dir, Spots, Recall, [Next]_vars, NEW a \in Thread, Unmoved(a), WriteFrame(a),
         row.status \notin Terminal, tx[a].phase = "sent", tx'[a].phase = "ok", tx'[a].cols = tx[a].cols,
         row' = tx[a].cols, cache' \in {cache, tx[a].copy}, recorded'.undone = recorded.undone \cup Reverts(row')
  PROVE  Recall'
<1>0. /\ me' = me /\ (InWalk' <=> InWalk) /\ (Pass' <=> Pass) /\ (Coming' <=> Coming)
      /\ Undone(heap, me)' = Undone(heap, me) /\ OneWalk' /\ Visiting' /\ ~WalkRecord
      /\ Recorded' = Recorded \cup Reverts(row') /\ Live
  BY UnmovedPlaces, NoAnswerToWrite DEF Recall, Recorded, Live
<1>1. /\ Out(a) /\ Will(a) = row' /\ pc[a] = "write"
      /\ Reverts(row') \subseteq Known
      /\ a = "adv" /\ tx["adv"].kind \in WalkKinds => Reverts(row') = Undone(heap, me)
      /\ Reverts(tx[a].copy) \subseteq Recorded'
  BY <1>0, CommitTells DEF Spots, Basics
<1>2. /\ tx'["adv"].kind = tx["adv"].kind /\ tx'["adv"].copy = tx["adv"].copy /\ tx'["chk"].copy = tx["chk"].copy
      /\ a # "adv" => tx'["adv"].phase = tx["adv"].phase
      /\ tx'["adv"].cols = tx["adv"].cols
      /\ {"adv", "chk"} \subseteq Thread
      /\ heap'[me'] = heap[me] /\ UNCHANGED <<tracked, heap, ref, pc>>
  BY <1>0 DEF Unmoved, Thread
<1>3. Known \subseteq Known'
  BY <1>0 DEF Known
<1>4. (Live => Within(Known))'
  BY <1>0, <1>3, WithinMoves
<1>5. WalkWrites' /\ Persisted' /\ Covered'
  <2>1. WalkWrites'
    BY <1>2 DEF Recall, WalkWrites
  <2>2. Persisted'
    <3>1. CASE a = "adv"
      BY <1>0, <1>1, <1>2, <3>1 DEF Persisted
    <3>2. CASE a # "adv"
      BY <1>0, <1>2, <3>2 DEF Recall, Persisted
    <3>. QED  BY <3>1, <3>2
  <2>3. Covered'
    BY <1>0, <1>1 DEF Recall, Covered, Known
  <2>. QED  BY <2>1, <2>2, <2>3
<1>6. Outliving'
  <2>1. /\ Reverts(cache) \subseteq Recorded /\ Reverts(tx["chk"].copy) \subseteq Recorded
        /\ tracked # NoObj => Reverts(heap[tracked]) \subseteq Recorded \/ (InWalk /\ tracked = me)
    BY <1>0 DEF Recall, Outliving
  <2>2. Reverts(cache') \subseteq Recorded'
    BY <1>0, <1>1, <2>1
  <2>. QED  BY <1>0, <1>2, <2>1, <2>2 DEF Outliving, Reverts
<1>7. Recorded = {} /\ ~InWalk => Recorded' = {}
  BY <1>0, <1>1 DEF Spots
<1>8. Clean'
  <2>1. row'.status \in {"NONE"} \cup Onward => row.status \in {"NONE"} \cup Onward
    BY <1>0, <1>1 DEF Spots, Dir, BackWrites, Back, Onward
  <2>2. row.status \in {"NONE"} \cup Onward => ~InWalk
    BY DEF Spots, Back, Onward
  <2>3. Pass \/ Coming => ~InWalk
    BY DEF Spots
  <2>. QED  BY <1>0, <1>7, <2>1, <2>2, <2>3 DEF Recall, Clean
<1>9. RowKeeps'
  BY <1>0, CommitKeeps DEF RowKeeps
<1>10. Overlaid'
  <2>. SUFFICES ASSUME ~Overtakes, Out("chk")', Will("chk")'.status = "COMPENSATING" PROVE Overlaid'
    BY DEF Overlaid
  <2>1. a # "chk"
    BY DEF Out
  <2>2. Out("chk") /\ Will("chk")' = Will("chk")
    BY <1>2, <2>1 DEF Out, Will, Unmoved
  <2>3. /\ tx["adv"].phase = "begun" /\ "chk" \in tx["adv"].ahead /\ tx["adv"].kind # "timeout"
        /\ Will("chk").comp = heap[me].comp
    BY <1>0, <2>2 DEF Recall, Overlaid
  <2>4. a # "adv"
    BY <2>3
  <2>5. "chk" \in tx'["adv"].ahead
    BY <1>2, <2>1, <2>3, <2>4 DEF WriteFrame
  <2>. QED  BY <1>2, <2>2, <2>3, <2>4, <2>5 DEF Overlaid
<1>. QED  BY <1>0, <1>4, <1>5, <1>6, <1>8, <1>9, <1>10 DEF Recall

LEMMA WriteRecall ==
  ASSUME CInv, Dir, Recall, [Next]_vars, Steady', NEW a \in Thread, Write(a)
  PROVE  Recall'
<1>0. Spots /\ Healthy
  BY SpotsHold DEF Recall, Dir
<1>1. WriteFrame(a)
  BY <1>0, WriteSteady
<1>2. Unmoved(a)
  <2>1. UNCHANGED <<out, todo>>
    BY <1>0, WriteRecords
  <2>. QED  BY <1>1, <2>1 DEF Unmoved, WriteFrame
<1>3. CASE tx'[a].phase = "sent"
  <2>1. /\ tx[a].phase = "begun" /\ tx[a].ahead = {}
        /\ tx'[a].cols = heap[ref[a]] /\ UNCHANGED <<row, cache>>
        /\ \A b \in Thread : tx'[b].ahead = tx[b].ahead
    BY <1>0, <1>3, WriteSteady
  <2>2. recorded' = recorded
    BY <1>0, <1>3, WriteRecords
  <2>. QED  BY <1>0, <1>2, <1>3, <2>1, <2>2, CaptureRecall
<1>4. CASE tx'[a].phase = "refused"
  <2>1. row.status \in Terminal /\ UNCHANGED row
    BY <1>0, <1>4, WriteSteady
  <2>2. recorded' = recorded
    BY <1>0, <1>4, WriteRecords
  <2>. QED  BY <1>0, <1>2, <1>4, <2>1, <2>2, RefuseRecall
<1>5. CASE tx'[a].phase = "ok"
  <2>1. /\ tx[a].phase = "sent" /\ row.status \notin Terminal /\ tx'[a].cols = tx[a].cols
        /\ row' = tx[a].cols /\ cache' \in {cache, tx[a].copy}
    BY <1>0, <1>5, WriteSteady
  <2>2. recorded'.undone = recorded.undone \cup Reverts(row')
    BY <1>0, <1>5, WriteRecords
  <2>. QED  BY <1>0, <1>1, <1>2, <1>5, <2>1, <2>2, CommitRecall
<1>. QED  BY <1>0, <1>3, <1>4, <1>5, WriteSteady

-----------------------------------------------------------------------------
(* What the others do beside a walk. *)

\* Blank says nothing is undone.
LEMMA BlankReverts == Reverts(Blank) = {} /\ Reverts(NoTx.copy) = {}
<1>1. Blank.comp = [i \in Step |-> "none"] /\ NoTx.copy = Blank
  BY DEF Blank, NoTx
<1>. QED  BY <1>1 DEF Reverts, Successes

LEMMA AsideRecall ==
  ASSUME CInv, CInv', Spots, Recall, [Next]_vars, UNCHANGED <<row, recorded>>,
         AdvKept \/ (~InWalk /\ ~InWalk'), cache' \in {cache, row, Blank},
         Pass' => Pass, Coming' => Coming, OneWalk', Overlaid',
         Live /\ InWalk => /\ Reverts(tx'["chk"].copy) \subseteq Recorded
                           /\ tracked' # NoObj => tracked' = me \/ Reverts(heap'[tracked']) \subseteq Recorded
  PROVE  Recall'
<1>0. /\ Recorded' = Recorded
      /\ Live' <=> Live
  BY DEF Recorded, Live
<1>1. CASE ~InWalk
  <2>1. ~InWalk'
    BY <1>1 DEF AdvKept, InWalk
  <2>2. Known \subseteq Recorded /\ ~WalkRecord
    BY <1>1, RecordPlace DEF Spots, InWalk
  <2>3. Pass' \/ (Overtakes /\ Coming') => Recorded = {}
    BY DEF Recall, Clean
  <2>. QED  BY <2>1, <2>2, <2>3, OffWalk
<1>2. CASE InWalk
  <2>1. /\ me' = me /\ me \in Objs /\ heap'[me].comp = heap[me].comp /\ todo' = todo /\ InWalk'
        /\ pc'["adv"] = pc["adv"] /\ tx'["adv"].phase = tx["adv"].phase /\ tx'["adv"].kind = tx["adv"].kind
        /\ tx'["adv"].copy = tx["adv"].copy /\ tx'["adv"].cols = tx["adv"].cols
    BY <1>2 DEF AdvKept, Spots, me, InWalk
  <2>2. Undone(heap, me)' = Undone(heap, me) /\ NextUndo(heap, me)' = NextUndo(heap, me)
    BY <2>1 DEF Undone, NextUndo
  <2>3. Known' = Known /\ ~WalkRecord
    BY <1>0, <1>2, <2>1, <2>2, RecordPlace DEF Known
  <2>4. (Live => Within(Known))'
    BY <1>0, <2>3, WithinMoves
  <2>5. WalkWrites' /\ Persisted' /\ Covered' /\ Visiting'
    <3>1. heap'[me'].comp = heap[me].comp
      BY <2>1
    <3>2. WalkWrites'
      BY <2>1, <3>1 DEF Recall, WalkWrites
    <3>3. Persisted'
      BY <1>0, <2>1, <2>2 DEF Recall, Persisted
    <3>4. Covered' /\ Visiting'
      BY <1>0, <1>2, <2>1, <2>2 DEF Recall, Covered, Visiting
    <3>. QED  BY <3>2, <3>3, <3>4
  <2>6. Outliving'
    <3>. SUFFICES ASSUME Live PROVE Outliving'
      BY <1>0 DEF Outliving
    <3>1. Reverts(row) \subseteq Recorded /\ Reverts(cache') \subseteq Recorded
      BY BlankReverts DEF Recall, Outliving
    <3>. QED  BY <1>0, <1>2, <2>1, <3>1 DEF Outliving, Reverts
  <2>7. Clean' /\ RowKeeps'
    BY <1>0 DEF Recall, Clean, RowKeeps, Reverts
  <2>. QED  BY <2>4, <2>5, <2>6, <2>7 DEF Recall
<1>. QED  BY <1>1, <1>2

\* What the checker has out stays what it is while nobody touches its copy or the walk's.
LEMMA SameOverlaid ==
  ASSUME Spots, Overlaid, row' = row, tx'["adv"] = tx["adv"], tx'["chk"] = tx["chk"],
         ref'["adv"] = ref["adv"], ref'["chk"] = ref["chk"],
         \A a \in {"adv", "chk"} : ref[a] \in Objs => heap'[ref[a]] = heap[ref[a]]
  PROVE  Overlaid'
<1>. SUFFICES ASSUME ~Overtakes, Live', Out("chk")', Will("chk")'.status = "COMPENSATING" PROVE Overlaid'
  BY DEF Overlaid
<1>1. Out("chk") /\ Live /\ ref["chk"] \in Objs
  BY DEF Out, Live, Spots, Basics
<1>2. Will("chk")' = Will("chk")
  BY <1>1 DEF Will
<1>3. /\ tx["adv"].phase = "begun" /\ "chk" \in tx["adv"].ahead /\ tx["adv"].kind # "timeout"
      /\ Will("chk").comp = heap[me].comp
  BY <1>1, <1>2 DEF Overlaid
<1>4. me \in Objs /\ me' = me
  BY <1>3 DEF Out, Spots, Basics
<1>5. heap'[me'] = heap[me]
  BY <1>4 DEF me
<1>. QED  BY <1>2, <1>3, <1>5 DEF Overlaid

\* The checker tells no more of a walk than the row: where the row has turned back, it
\* fails a copy of its own.
LEMMA ChkTurnRecall ==
  ASSUME CInv, CInv', Dir, Recall, [Next]_vars, Check, ChkTurn, recorded' = recorded
  PROVE  Recall'
<1>0. Spots /\ AdvKept /\ UNCHANGED <<row, cache>>
  BY SpotsHold, CheckAdv DEF Recall, ChkTurn
<1>1. /\ "chk" \in Thread /\ "adv" \in Thread \ {"chk"}
      /\ tracked # NoObj => tracked \in Objs
      /\ InWalk => me = ref["adv"] /\ me \in Objs
  BY <1>0 DEF Spots, Basics
<1>2. ASSUME /\ tx'["adv"] = tx["adv"] /\ pc'["adv"] = pc["adv"] /\ UNCHANGED <<claim, queue>>,
             Overlaid',
             Live /\ InWalk => /\ Reverts(tx'["chk"].copy) \subseteq Recorded
                               /\ tracked' # NoObj => tracked' = me \/ Reverts(heap'[tracked']) \subseteq Recorded
      PROVE  Recall'
  <2>1. /\ Pass' => Pass
        /\ Coming' => Coming
        /\ OneWalk'
    BY <1>2 DEF Pass, Coming, OneWalk, Recall
  <2>. QED  BY <1>0, <1>2, <2>1, AsideRecall
<1>3. ASSUME NEW t, ChkRests(t) PROVE Recall'
  <2>1. /\ tx'["adv"] = tx["adv"] /\ pc'["adv"] = pc["adv"] /\ UNCHANGED <<claim, queue>>
        /\ tx'["chk"] = NoTx /\ tracked' = t
    BY <1>1, <1>3 DEF ChkRests
  <2>2. Overlaid'
    BY <2>1, NoTxFields DEF Overlaid, Out
  <2>3. ASSUME Live, InWalk, t # NoObj PROVE t = me \/ Reverts(heap'[t]) \subseteq Recorded
    <3>1. (heap'[t] = heap[t] /\ t = tracked) \/ heap'[t] = row
      BY <1>3, <2>3 DEF ChkRests, Live
    <3>. QED  BY <2>3, <3>1 DEF Recall, Outliving
  <2>. QED  BY <1>2, <2>1, <2>2, <2>3, BlankReverts
<1>4. CASE ChkAsks
  <2>1. /\ tx'["adv"] = tx["adv"] /\ pc'["adv"] = pc["adv"] /\ UNCHANGED <<claim, queue, tracked>>
        /\ tracked # NoObj => heap'[tracked].comp = heap[tracked].comp
        /\ Will("chk")'.status = "FAILED"
    BY <1>1, <1>4 DEF ChkAsks, Marked, Will
  <2>2. Overlaid'
    BY <2>1 DEF Overlaid
  <2>3. ASSUME Live, InWalk PROVE Reverts(tx'["chk"].copy) \subseteq Recorded
    <3>1. Reverts(row) \subseteq Recorded
      BY <2>3 DEF Recall, Outliving
    <3>2. ASSUME tracked \in Objs, heap[tracked].status \notin Terminal \cup {"COMPENSATING"}
          PROVE  Reverts(heap[tracked]) \subseteq Recorded
      <4>1. tracked # me
        BY <1>0, <2>3, <3>2 DEF Spots, Back, Terminal
      <4>. QED  BY <1>0, <2>3, <3>2, <4>1 DEF Recall, Outliving, Spots, Basics
    <3>. QED  BY <1>4, <3>1, <3>2 DEF ChkAsks, Reverts
  <2>4. ASSUME Live, InWalk, tracked' # NoObj
        PROVE tracked' = me \/ Reverts(heap'[tracked']) \subseteq Recorded
    BY <2>1, <2>4 DEF Recall, Outliving, Reverts
  <2>. QED  BY <1>2, <2>1, <2>2, <2>3, <2>4
<1>. QED  BY <1>3, <1>4 DEF ChkTurn

\* Dispatches, worker events, the retry scan, Redis, the clock.
LEMMA BesideRecall ==
  ASSUME CInv, CInv', Dir, Recall, [Next]_vars, UNCHANGED <<row, recorded, heap, tracked, ref, tx, out, todo>>,
         pc'["adv"] = pc["adv"] \/ (pc["adv"] = "idle" /\ pc'["adv"] \in {"load", "wstatus"}),
         cache' \in {cache, row, Blank}, Coming' => Coming, OneWalk'
  PROVE  Recall'
<1>0. Spots
  BY SpotsHold DEF Recall
<1>1. Overlaid'
  BY <1>0, SameOverlaid DEF Recall
<1>2. AdvKept \/ (~InWalk /\ ~InWalk')
  <2>1. CASE pc'["adv"] = pc["adv"]
    BY <2>1 DEF AdvKept, me
  <2>2. CASE pc["adv"] = "idle" /\ pc'["adv"] \in {"load", "wstatus"}
    <3>1. ~InWalk
      BY <1>0, <2>2 DEF Spots
    <3>. QED  BY <2>2, <3>1 DEF InWalk
  <2>. QED  BY <2>1, <2>2
<1>3. Pass' => Pass
  BY DEF Pass
<1>4. Live /\ InWalk => /\ Reverts(tx["chk"].copy) \subseteq Recorded
                        /\ tracked # NoObj => tracked = me \/ Reverts(heap[tracked]) \subseteq Recorded
  BY DEF Recall, Outliving
<1>. QED  BY <1>0, <1>1, <1>2, <1>3, <1>4, AsideRecall

LEMMA DispatchRecall ==
  ASSUME CInv, CInv', Dir, Recall, [Next]_vars, Dispatch
  PROVE  Recall'
<1>0. /\ ControlOK /\ "adv" \in Thread
      /\ UNCHANGED <<row, recorded, heap, tracked, ref, tx, out, todo, cache>>
  BY DEF CInv, IInv, ThreadsOK, Thread, Dispatch, DispatchForward, DispatchWalk, durable, memory, world
<1>1. claim.dir = "none" => pc["adv"] = "idle"
  <2>1. pc["adv"] \in Label /\ Basics
    BY <1>0, BasicsHold DEF ControlOK
  <2>. QED  BY <1>0, <2>1 DEF CInv, Order, Claims, Basics, KindsOf, PassLabels, WalkLabels, Label
<1>2. CASE \E trigger \in {"forward", "event"} : DispatchForward(trigger)
  <2>1. PICK trigger \in {"forward", "event"} : DispatchForward(trigger)
    BY <1>2
  <2>2. /\ pc'["adv"] = pc["adv"] \/ (pc["adv"] = "idle" /\ pc'["adv"] = "load")
        /\ "walk" \in queue' => "walk" \in queue
    BY <1>0, <1>1, <2>1 DEF DispatchForward, ControlOK
  <2>3. claim'.dir \in {claim.dir, "forward"} /\ (claim'.pendingWalk => claim.pendingWalk)
    <3>1. /\ [NoClaim EXCEPT !.dir = "forward"].dir = "forward"
          /\ [NoClaim EXCEPT !.dir = "forward"].pendingWalk = FALSE
      BY DEF NoClaim
    <3>2. /\ [claim EXCEPT !.rerun = TRUE].dir = claim.dir
          /\ [claim EXCEPT !.rerun = TRUE].pendingWalk = claim.pendingWalk
      BY <1>0 DEF ControlOK
    <3>. QED  BY <2>1, <3>1, <3>2 DEF DispatchForward
  <2>4. /\ Coming' => Coming
        /\ OneWalk'
    BY <2>2, <2>3 DEF Coming, OneWalk, Recall
  <2>. QED  BY <1>0, <2>2, <2>4, BesideRecall
<1>3. CASE DispatchWalk
  <2>1. /\ pc'["adv"] = pc["adv"] \/ (pc["adv"] = "idle" /\ pc'["adv"] = "wstatus")
        /\ "walk" \in queue /\ "walk" \notin queue'
    BY <1>0, <1>1, <1>3 DEF DispatchWalk, ControlOK
  <2>2. claim'.dir = "compensation" => ~claim'.pendingWalk
    <3>1. [NoClaim EXCEPT !.dir = "compensation"].pendingWalk = FALSE
      BY DEF NoClaim
    <3>2. [claim EXCEPT !.pendingWalk = TRUE].dir = claim.dir
      BY <1>0 DEF ControlOK
    <3>. QED  BY <1>3, <3>1, <3>2 DEF DispatchWalk, Recall, OneWalk
  <2>3. Coming /\ OneWalk'
    BY <2>1, <2>2 DEF Coming, OneWalk
  <2>. QED  BY <1>0, <2>1, <2>3, BesideRecall
<1>. QED  BY <1>2, <1>3 DEF Dispatch

LEMMA OutsideRecall ==
  ASSUME CInv, CInv', Dir, Recall, [Next]_vars,
         \/ WorkerEvent \/ RetryScan \/ CacheExpires \/ (\E horizon \in Horizon : Tick(horizon))
         \/ UNCHANGED vars
  PROVE  Recall'
<1>1. /\ UNCHANGED <<row, recorded, heap, tracked, ref, tx, out, todo, pc, claim>>
      /\ "walk" \in queue' => "walk" \in queue
      /\ cache' \in {cache, row, Blank}
  BY LoadedWhere DEF WorkerEvent, RetryScan, CacheExpires, Tick, durable, memory, control, world, vars
<1>2. /\ Coming' => Coming
      /\ OneWalk'
  BY <1>1 DEF Coming, OneWalk, Recall
<1>. QED  BY <1>1, <1>2, BesideRecall

\* The detached re-warm is done.
LEMMA RewarmRecall ==
  ASSUME CInv, CInv', Dir, Recall, [Next]_vars, RewarmSettled
  PROVE  Recall'
<1>0. /\ Spots /\ Basics /\ ControlOK /\ Stay("boot")
      /\ UNCHANGED <<row, recorded, cache, out, todo>>
  BY SpotsHold, BasicsHold DEF Recall, RewarmSettled, durable, world, CInv, IInv, ThreadsOK
<1>1. Freed("boot", heap, tracked) /\ pc'["boot"] = "idle" /\ UNCHANGED <<claim, queue, parked>>
  BY <1>0, LeaveEffect DEF Stay, Basics
<1>2. /\ \A b \in Thread \ {"boot"} : ref'[b] = ref[b] /\ tx'[b] = tx[b] /\ pc'[b] = pc[b]
      /\ \A b \in Thread \ {"boot"} : ref[b] \in Objs => heap'[ref[b]] = heap[ref[b]]
      /\ tracked' = tracked /\ (tracked \in Objs => heap'[tracked] = heap[tracked])
      /\ {"adv", "chk"} \subseteq Thread \ {"boot"}
  BY <1>0, <1>1 DEF Freed, Basics
<1>3. Overlaid'
  BY <1>0, <1>2, SameOverlaid DEF Recall
<1>4. AdvKept
  BY <1>0, <1>2 DEF AdvKept, me
<1>5. /\ Pass' => Pass
      /\ Coming' => Coming
      /\ OneWalk'
  BY <1>1, <1>2 DEF Pass, Coming, OneWalk, Recall
<1>6. Live /\ InWalk => /\ Reverts(tx'["chk"].copy) \subseteq Recorded
                        /\ tracked' # NoObj => tracked' = me \/ Reverts(heap'[tracked']) \subseteq Recorded
  BY <1>0, <1>2 DEF Recall, Outliving, Basics
<1>. QED  BY <1>0, <1>3, <1>4, <1>5, <1>6, AsideRecall

\* The advancer has nothing to do yet.
LEMMA IdleRecall ==
  ASSUME CInv, CInv', Dir, Recall, [Next]_vars, UNCHANGED <<row, recorded, claim>>,
         pc["adv"] = "idle", pc'["adv"] = "idle", tx'["chk"].phase = "none",
         Overtakes /\ "walk" \in queue' => "walk" \in queue
  PROVE  Recall'
<1>0. Spots
  BY SpotsHold DEF Recall
<1>1. ~InWalk
  BY <1>0 DEF Spots
<1>2. /\ tx'["adv"].kind = "none" /\ claim' = NoClaim
      /\ pc'["adv"] # "write"
  BY NoTxFields DEF CInv, Order, Writing, Claims, Thread
<1>3. ~InWalk' /\ ~Pass'
  BY <1>2 DEF InWalk, Pass, WalkKinds, PassKinds
<1>4. Overlaid' /\ OneWalk'
  BY <1>2 DEF Overlaid, Out, OneWalk, NoClaim
<1>5. Overtakes /\ Coming' => Recorded = {}
  BY <1>2 DEF Recall, Clean, Coming
<1>6. Known \subseteq Recorded /\ ~WalkRecord
  BY <1>0, <1>1, RecordPlace DEF Spots
<1>. QED  BY <1>1, <1>3, <1>4, <1>5, <1>6, OffWalk

LEMMA StartRecall ==
  ASSUME CInv, CInv', Dir, Recall, [Next]_vars, StartSaga \/ StartSettled
  PROVE  Recall'
<1>0. /\ ControlOK /\ Basics /\ {"adv", "chk", "op"} \subseteq Thread
      /\ UNCHANGED <<row, recorded, claim>>
  BY BasicsHold DEF CInv, IInv, ThreadsOK, StartSaga, StartSettled, Request, durable, Thread
<1>1. pc["adv"] = "idle" /\ pc["chk"] = "idle"
  <2>1. CASE StartSaga
    BY <1>0, <2>1 DEF StartSaga, Dir, Unborn
  <2>2. CASE StartSettled
    BY <1>0, <2>2 DEF StartSettled, Settled, Dir, Starting
  <2>. QED  BY <2>1, <2>2
<1>2. tx["chk"] = NoTx
  BY <1>0, <1>1 DEF Basics
<1>3. pc'["adv"] = pc["adv"] /\ tx'["chk"] = tx["chk"] /\ ("walk" \in queue' => "walk" \in queue)
  <2>1. CASE StartSaga
    BY <1>0, <2>1 DEF StartSaga, Request, ControlOK
  <2>2. CASE StartSettled
    BY <1>0, <2>2 DEF StartSettled, ControlOK
  <2>. QED  BY <2>1, <2>2
<1>. QED  BY <1>0, <1>1, <1>2, <1>3, NoTxFields, IdleRecall

\* A boot sends a walk only in order: it comes after a crash.
LEMMA BootRecall ==
  ASSUME CInv, CInv', Dir, Recall, [Next]_vars, Steady', Boot
  PROVE  Recall'
<1>0. /\ ControlOK /\ Basics /\ {"adv", "chk", "boot"} \subseteq Thread
      /\ UNCHANGED <<row, recorded, claim>> /\ ~Spend("db")
  BY BasicsHold, SteadySpends DEF CInv, IInv, ThreadsOK, Boot, durable, Thread
<1>1. pc["adv"] = "idle" /\ pc["chk"] = "idle"
  BY <1>0 DEF Boot, CInv, Order, Gone
<1>2. tx["chk"] = NoTx
  BY <1>0, <1>1 DEF Basics
<1>3. pc'["adv"] = pc["adv"] /\ tx'["chk"] = tx["chk"]
  BY <1>0 DEF Boot, ControlOK
<1>4. ~Overtakes \/ queue' = queue
  <2>1. spent["crash"] > 0 \/ spent["drain"] > 0
    BY DEF CInv, Order, Stopping, Boot
  <2>2. queue' = queue \/ UNCHANGED spent
    BY DEF Boot
  <2>3. UNCHANGED spent => spent["drain"] = 0 /\ (Overtakes => spent["crash"] = 0)
    BY DEF Steady
  <2>. QED  BY <2>1, <2>2, <2>3
<1>. QED  BY <1>0, <1>1, <1>2, <1>3, <1>4, NoTxFields, IdleRecall

\* What outlives a crash is what the row records.
LEMMA CrashRecall ==
  ASSUME CInv, Dir, Recall, Crash
  PROVE  Recall'
<1>0. /\ UNCHANGED <<row, recorded, cache>> /\ tracked' = NoObj /\ queue' = {} /\ claim' = NoClaim
      /\ heap' = [o \in Objs |-> Blank]
      /\ \A a \in Thread : pc'[a] = "idle" /\ tx'[a] = NoTx
      /\ {"adv", "chk"} \subseteq Thread
  BY DEF Crash, ProcessGone, durable, Thread
<1>1. \A a \in Thread : tx'[a].kind = "none" /\ tx'[a].phase = "none" /\ tx'[a].copy = Blank /\ tx'[a].cols = Blank
  BY <1>0 DEF NoTx
<1>2. /\ ~InWalk' /\ ~Pass' /\ ~Coming' /\ OneWalk'
      /\ Recorded' = Recorded
      /\ Live' <=> Live
  BY <1>0, <1>1 DEF InWalk, WalkKinds, Pass, PassKinds, Coming, OneWalk, NoClaim, Recorded, Live
<1>3. Known' = Recorded
  BY <1>2 DEF Known
<1>4. WalkWrites' /\ Persisted' /\ Covered' /\ Visiting' /\ Overlaid'
  BY <1>0, <1>1, <1>2 DEF WalkWrites, WalkKinds, Persisted, Covered, Visiting, Overlaid, Out
<1>5. (Live => Within(Known))'
  <2>. SUFFICES ASSUME Live PROVE CopiesIn(Reverting(Recorded))'
    BY <1>2, <1>3 DEF Within
  <2>1. row \in Reverting(Recorded) /\ cache \in Reverting(Recorded)
    <3>1. row \in Copy /\ cache \in Copy
      BY DEF Recall, Within, CopiesIn, Reverting
    <3>. QED  BY <3>1 DEF Recall, Outliving, Reverting
  <2>2. Blank \in Reverting(Recorded)
    BY BlankReverts, BlankType DEF Reverting
  <2>3. Reverting(Recorded)' = Reverting(Recorded)
    BY <1>2 DEF Reverting, Reverts
  <2>. QED  BY <1>0, <1>1, <2>1, <2>2, <2>3 DEF CopiesIn
<1>6. Outliving'
  <2>1. Reverts(tx["chk"].copy)' = {}
    BY <1>0, <1>1, BlankReverts DEF Reverts
  <2>. QED  BY <1>0, <1>2, <2>1 DEF Recall, Outliving, Reverts
<1>7. Clean' /\ RowKeeps'
  BY <1>0, <1>2 DEF Recall, Clean, RowKeeps, Reverts
<1>. QED  BY <1>2, <1>4, <1>5, <1>6, <1>7 DEF Recall

-----------------------------------------------------------------------------
(* The theorems. *)

\* Only a write that lands adds to the record.
LEMMA AdvanceRecords == ASSUME Advance PROVE Write("adv") \/ recorded' = recorded
  BY DEF Advance, LoadPass, ReadStatus, Execute, Settle, PassWrote, PassFailed, PassRefused, WalkStatus, WalkLoad,
         WalkSync, Undo, WalkRecord, WalkFinish, WalkSettled, Liveness, FailSettled, durable

LEMMA CheckRecords == ASSUME Check PROVE Write("chk") \/ recorded' = recorded
  BY DEF Check, CheckerTick, Liveness, FailSettled, durable

LEMMA NextRecall ==
  ASSUME CInv, CInv', Dir, Recall, [Next]_vars, Steady'
  PROVE  Recall'
<1>0. /\ {"adv", "chk", "op", "boot", "stop"} = Thread
      /\ ~Spend("op") /\ ~Spend("drain")
  BY SteadySpends DEF Thread
<1>1. ASSUME NEW a \in Thread, Write(a) PROVE Recall'
  BY <1>1, WriteRecall
<1>2. CASE Advance
  <2>1. CASE Write("adv")
    BY <1>0, <1>1, <2>1
  <2>2. CASE ~Write("adv")
    BY <1>2, <2>2, AdvanceTurns, AdvanceRecords, TurnRecall
  <2>. QED  BY <2>1, <2>2
<1>3. CASE Check
  <2>1. CASE Write("chk")
    BY <1>0, <1>1, <2>1
  <2>2. CASE ~Write("chk")
    BY <1>3, <2>2, CheckTurns, CheckRecords, ChkTurnRecall
  <2>. QED  BY <2>1, <2>2
<1>4. CASE StartSaga \/ Dispatch \/ Operate
  <2>1. ~CompensateSettled
    BY <1>0 DEF CompensateSettled, Settled, Dir, Healthy
  <2>. QED  BY <1>0, <1>1, <1>4, <2>1, StartRecall, DispatchRecall DEF Operate
<1>5. CASE Restart
  <2>1. ~ShutdownSettled
    BY <1>0 DEF ShutdownSettled, Settled, Dir, Healthy
  <2>. QED  BY <1>0, <1>1, <1>5, <2>1, BootRecall, RewarmRecall DEF Restart
<1>6. CASE ContinueSaga \/ CompensateSaga \/ Shutdown
  BY <1>0, <1>6 DEF ContinueSaga, CompensateSaga, Shutdown
<1>7. CASE \/ WorkerEvent \/ RetryScan \/ CacheExpires \/ (\E horizon \in Horizon : Tick(horizon))
           \/ UNCHANGED vars
  BY <1>7, OutsideRecall
<1>8. CASE Crash
  BY <1>8, CrashRecall
<1>. QED  BY <1>2, <1>3, <1>4, <1>5, <1>6, <1>7, <1>8 DEF Next

LEMMA InitRecall == ASSUME Init PROVE Recall
<1>1. /\ row = Blank /\ cache = Blank /\ heap = [o \in Objs |-> Blank] /\ tracked = NoObj /\ queue = {}
      /\ claim = NoClaim /\ Recorded = {}
      /\ \A a \in Thread : pc[a] = "idle" /\ tx[a] = NoTx
      /\ {"adv", "chk"} \subseteq Thread /\ Blank \in Copy
  BY BlankType DEF Init, Recorded, Thread
<1>2. \A a \in Thread : tx[a].kind = "none" /\ tx[a].phase = "none" /\ tx[a].copy = Blank /\ tx[a].cols = Blank
  BY <1>1 DEF NoTx
<1>3. ~InWalk /\ OneWalk
  BY <1>1, <1>2 DEF InWalk, WalkKinds, OneWalk, NoClaim
<1>4. WalkWrites /\ Persisted /\ Covered /\ Visiting /\ Overlaid
  BY <1>1, <1>2, <1>3 DEF WalkWrites, WalkKinds, Persisted, Covered, Visiting, Overlaid, Out
<1>5. Within(Known)
  <2>1. Blank \in Reverting(Known)
    BY <1>1, BlankReverts DEF Reverting
  <2>. QED  BY <1>1, <1>2, <2>1 DEF Within, CopiesIn
<1>6. Outliving
  BY <1>1, <1>2, BlankReverts DEF Outliving
<1>7. Clean /\ RowKeeps
  BY <1>1 DEF Clean, RowKeeps
<1>. QED  BY <1>3, <1>4, <1>5, <1>6, <1>7 DEF Recall

\* The inductive invariant.
UInv == DInv /\ (Steady => Recall)

LEMMA NextUInv == ASSUME UInv, [Next]_vars PROVE UInv'
<1>1. DInv' /\ CInv /\ CInv'
  BY NextDInv DEF UInv, DInv, RInv
<1>2. ASSUME Steady' PROVE Recall'
  BY <1>1, <1>2, SteadyBefore, NextRecall DEF UInv, DInv
<1>. QED  BY <1>1, <1>2 DEF UInv

\* What the row has recorded as undone is never lost to a walk that is still to come
\* or under way (syncWalkRecord, persistWalkProgress, persistTransition), wherever no
\* database call fails, no operator acts and nothing is drained.
THEOREM UndosRemembered == Spec => []UInv
<1>1. Init => UInv
  BY InitRInv, InitDir, InitRecall DEF UInv, DInv
<1>2. UInv /\ [Next]_vars => UInv'
  BY NextUInv
<1>. QED  BY <1>1, <1>2, PTL DEF Spec

\* No resume undoes a step again whose undo the row has recorded: whatever a crash
\* interrupted and whatever Redis lost, a walk has joined the row's record to its copy
\* before it picks its next undo, and no write since has taken anything out of that
\* record -- not the checker's, whose copy is another (runCompensationWalk,
\* syncWalkRecord, mergeCompensationResults, persistWalkProgress).
THEOREM ResumesRepeatNothing == Spec => [](Steady => ResumeRepeatsNoUndo)
<1>1. ASSUME UInv, Steady, Undoing PROVE Last(NextUndo(heap, me)) \notin recorded.undone
  <2>1. Recorded \subseteq Undone(heap, me)
    BY <1>1 DEF UInv, Recall, Covered, InWalk, Undoing
  <2>2. NextUndo(heap, me) # {} /\ NextUndo(heap, me) \subseteq Step
    BY <1>1 DEF Undoing, NextUndo, UInv, DInv, RInv, CInv, IInv, WorldOK
  <2>3. Last(NextUndo(heap, me)) \in NextUndo(heap, me)
    BY <2>2, LastIn
  <2>. QED  BY <2>1, <2>3 DEF NextUndo, Recorded
<1>2. UInv => (Steady => ResumeRepeatsNoUndo)
  BY <1>1 DEF ResumeRepeatsNoUndo, RecordedUndoIsNotRepeated
<1>. QED  BY <1>2, UndosRemembered, PTL

-----------------------------------------------------------------------------
(***************************************************************************)
(* The cause of a failure.  Where nothing restarts and no saga horizon has *)
(* passed, a copy that says FAILED or COMPENSATING has recorded a failed   *)
(* step, wherever it is.                                                   *)
(***************************************************************************)

\* Nothing restarts either; the horizon that ends a saga on its way forward is ahead.
Calm    == Steady /\ spent["crash"] = 0
Early   == "saga" \notin late
Charged == {x \in Copy : x.status \in {"FAILED", "COMPENSATING"} => Failed(x)}

\* A pass under way past its opening that has not come to its end.
Going == Pass /\ tx["adv"].kind \notin {"begin", "reopen", "complete", "failstep"}

\* The checker fails only a saga that has turned back, on a copy of its own.
ChecksItsOwn == tx["chk"].phase # "none" =>
  /\ row.status \in Back /\ ref["chk"] \notin {me, tracked}
  /\ heap[ref["chk"]].status = "FAILED" /\ Failed(heap[ref["chk"]])
  /\ tx["chk"].phase # "begun" => tx["chk"].cols.status = "FAILED"
  /\ tx["chk"].phase = "ok" => row.status \in Terminal

\* No ending overtakes a pass.
PassOpen == Going => /\ row.status \notin Terminal
                     /\ tx["adv"].phase = "sent" => tx["adv"].cols.status \in Onward

\* A pass turns back, or fails the saga, over a step that failed, and the row says so.
Accused ==
  /\ tx["adv"].kind \in {"exhausted", "begin", "reopen", "failstep"} =>
       Failed(heap[me]) /\ (tx["adv"].phase # "begun" => Failed(tx["adv"].cols))
  /\ Fwd /\ (tx["adv"].kind \in {"begin", "reopen"} \/ (tx["adv"].kind = "exhausted" /\ tx["adv"].phase = "ok"))
       => Failed(row)
  /\ Fwd /\ tx["adv"].kind \in {"begin", "reopen"} /\ tracked # NoObj => Failed(heap[tracked])

\* A saga that has turned back is tracked until its walk writes the end, and the copy
\* a walk loads knows why.
TurnedForCause ==
  /\ row.status = "COMPENSATING" =>
       \/ tx["adv"].kind = "wdone"
       \/ tracked # NoObj /\ Failed(heap[tracked]) /\ ~Ended(tracked)
  /\ pc["adv"] = "wsync" /\ row.status \notin Terminal => Failed(heap[me])
WalkEnds == tx["adv"].kind = "wdone" =>
  /\ heap[me].status = "COMPENSATED"
  /\ tx["adv"].phase # "begun" => tx["adv"].cols.status = "COMPENSATED"
  /\ tx["adv"].phase = "ok" => row.status \in Terminal

Causes == /\ tx["adv"].kind # "timeout" /\ ChecksItsOwn /\ PassOpen /\ Accused
          /\ TurnedForCause /\ WalkEnds
Blame  == CopiesIn(Charged) /\ Causes

\* What every step of the proof needs.
Ground ==
  /\ Basics /\ heap \in [Objs -> Copy] /\ row \in Copy /\ {"adv", "chk"} \subseteq Thread
  /\ up /\ ~Expired
  /\ pc["boot"] # "write" /\ pc["stop"] # "write"
  /\ tx["adv"].phase # "none" \/ pc["adv"] \in {"status", "run", "settle", "wsync", "wundo", "wrecord"} => me \in Objs
  /\ tx["chk"].phase # "none" => ref["chk"] \in Objs
  /\ tx["adv"].phase = "none" => tx["adv"].kind = "none"
  /\ tx["adv"].kind \in PassKinds \cup WalkKinds \cup {"timeout", "none"}

LEMMA GroundHolds == ASSUME CInv, Dir, Calm, Early PROVE Ground
<1>1. /\ Basics /\ heap \in [Objs -> Copy] /\ row \in Copy
      /\ \A a \in Thread : tx[a].phase # "none" \/ pc[a] \in Holding => ref[a] \in Objs
  BY BasicsHold DEF CInv, IInv, DurableOK, ThreadsOK, ControlOK, RefOK
<1>2. up /\ ~parked /\ pc["boot"] # "write" /\ pc["stop"] # "write"
  BY DEF CInv, Order, Stopping, Calm, Steady
<1>3. ~Expired
  BY <1>2 DEF Expired, Early
<1>4. /\ tx["adv"].phase = "none" => tx["adv"].kind = "none"
      /\ tx["adv"].kind \in PassKinds \cup WalkKinds \cup {"timeout", "none"}
  BY <1>1, NoTxFields DEF Basics, KindsOf
<1>. QED  BY <1>1, <1>2, <1>3, <1>4 DEF Ground, Basics, Holding, Thread

\* A pass works on the tracked copy, which has not ended.
LEMMA PassTracked ==
  ASSUME Dir, Ground, Causes, Fwd, pc["adv"] = "status" \/ Going
  PROVE  tracked = me /\ me \in Objs /\ heap[me].status \in Onward
<1>1. ~Out("chk") /\ ~ChkEnds
  BY DEF Causes, ChecksItsOwn, Fwd, Onward, Back, Out, ChkEnds
<1>2. tx["adv"].kind \notin {"begin", "reopen", "complete", "failstep", "timeout"} /\ ~AdvEnds
  BY DEF Going, Causes, AdvEnds, EndKinds, Ground, Basics
<1>3. tx["op"].kind # "start"
  <2>1. tx["op"].kind = "start" => pc["adv"] = "idle" /\ tx["adv"].phase = "none"
    BY DEF Dir, Starting, Ground, Basics
  <2>. QED  BY <2>1 DEF Going, Pass, PassKinds, Ground
<1>4. tracked # NoObj
  BY <1>1, <1>2, <1>3 DEF Dir, TrackedAbreast, Ground
<1>5. tracked = me
  BY <1>2, <1>4 DEF Dir, OneCopy, Going
<1>6. tracked \in Objs /\ heap[tracked].status \in Status
  BY <1>4 DEF Ground, Basics, Copy
<1>. QED  BY <1>1, <1>2, <1>4, <1>5, <1>6 DEF Dir, InMemory, Status, Terminal, Onward

\* A pass that is going finds the row on its way forward.
LEMMA GoingForward == ASSUME Dir, Ground, Causes, Going PROVE Fwd
<1>1. row.status \notin Terminal
  BY DEF Causes, PassOpen
<1>2. row.status # "COMPENSATING"
  BY DEF Dir, Turning, Going
<1>3. row.status # "NONE"
  <2>1. row.status = "NONE" => pc["adv"] = "idle"
    BY DEF Dir, Unborn, Ground, Basics
  <2>2. Going => pc["adv"] # "idle"
    BY DEF Going, Pass, PassKinds, Ground, Basics
  <2>. QED  BY <2>1, <2>2
<1>. QED  BY <1>1, <1>2, <1>3 DEF Ground, Copy, Status, Fwd, Onward

\* While a walk is to come, or under way, nothing has been written that ends the saga.
LEMMA WalkNotOver ==
  ASSUME CInv, Dir, Ground, Causes, ~Out("adv"), row.status = "COMPENSATING"
  PROVE  /\ tracked # NoObj /\ tracked \in Objs /\ Failed(heap[tracked]) /\ ~Ended(tracked)
         /\ tx["adv"].kind # "wdone"
<1>1. tx["adv"].kind # "wdone"
  <2>1. ASSUME tx["adv"].kind = "wdone" PROVE FALSE
    <3>1. tx["adv"].phase \in {"ok", "refused"}
      <4>1. tx["adv"].phase \in Phase
        BY DEF Ground, Basics, CInv, IInv, ThreadsOK, ControlOK, Tx
      <4>. QED  BY <2>1, <4>1 DEF Out, Phase, Dir, Healthy, Ground, Basics
    <3>. QED  BY <2>1, <3>1 DEF Causes, WalkEnds, Dir, Settling, Ground, Terminal
  <2>. QED  BY <2>1
<1>. QED  BY <1>1 DEF Causes, TurnedForCause, Ground, Basics

\* Every change to a copy leaves it charged.
LEMMA ChargedKept ==
  ASSUME CInv, Dir, Ground, Blame
  PROVE  Blank \in Charged /\ Keeps(Charged)
<1>. DEFINE G == Charged
<1>0. /\ heap \in [Objs -> Copy] /\ row \in Copy /\ row \in G
      /\ \A o \in Objs : heap[o] \in G
      /\ NSteps \in Nat /\ {"adv", "chk"} \subseteq Thread
  BY StepsAssumption DEF Ground, Blame, CopiesIn
<1>1. /\ \A x \in G : x \in Copy /\ (x.status \in {"FAILED", "COMPENSATING"} => Failed(x))
      /\ \A x \in Copy : (x.status \in {"FAILED", "COMPENSATING"} => Failed(x)) => x \in G
  BY DEF Charged
<1>. HIDE DEF G
<1>2. {"PENDING", "RUNNING", "FAILED", "COMPENSATING", "COMPENSATED", "COMPLETED"} \subseteq Status
  BY DEF Status, Terminal
<1>3. ASSUME NEW x \in Copy, NEW s \in Status, s \in {"FAILED", "COMPENSATING"} => Failed(x) PROVE Put(x, s) \in G
  <2>1. Put(x, s) \in Copy /\ Put(x, s).status = s /\ Put(x, s).res = x.res
    BY PutFields
  <2>. QED  BY <1>1, <1>3, <2>1 DEF Failed
<1>4. Blank \in G
  BY <1>1, BlankType DEF Blank
<1>5. KeepsPlain(G)
  <2>1. ASSUME NEW x \in G PROVE [x EXCEPT !.armed = FALSE] \in G
    <3>. DEFINE y == [x EXCEPT !.armed = FALSE]
    <3>1. y \in Copy /\ y.status = x.status /\ y.res = x.res
      BY <1>1, <2>1 DEF Copy
    <3>. HIDE DEF y
    <3>2. y \in G
      BY <1>1, <2>1, <3>1 DEF Failed
    <3>. QED  BY <3>2 DEF y
  <2>. QED  BY <1>1, <1>2, <1>3, <1>4, <2>1 DEF KeepsPlain
<1>6. KeepsFailures(G)
  <2>1. ASSUME NEW a \in Thread, tx[a].phase \in {"refused", "error"}, tx[a].kind \in FailKinds
        PROVE  Put(heap[ref[a]], tx[a].was) \in G
    <3>1. ref[a] \in Objs /\ tx[a].was \in Status
      BY <2>1 DEF CInv, IInv, ThreadsOK, RefOK, ControlOK, Tx
    <3>2. a \in {"adv", "chk"} /\ tx[a].kind \in KindsOf(a)
      BY <2>1 DEF Ground, Basics, KindsOf, FailKinds
    <3>3. Failed(heap[ref[a]])
      <4>1. CASE a = "adv"
        BY <2>1, <4>1 DEF Blame, Causes, Accused, FailKinds, Dir, Healthy, Ground, Basics
      <4>2. CASE a = "chk"
        BY <2>1, <4>2 DEF Blame, Causes, ChecksItsOwn
      <4>. QED  BY <3>2, <4>1, <4>2
    <3>. QED  BY <1>0, <1>3, <3>1, <3>3
  <2>2. \A a \in Thread : tx[a].phase # "error"
    BY DEF Dir, Healthy
  <2>3. row.status = "COMPENSATING" => Put(row, "FAILED") \in G
    BY <1>0, <1>1, <1>2, <1>3
  <2>. QED  BY <2>1, <2>2, <2>3 DEF KeepsFailures, Ground
<1>7. KeepsPass(G)
  <2>. DEFINE i == heap[me].cur
              x == [heap[me] EXCEPT !.res = [heap[me].res EXCEPT ![i] = out]]
  <2>1. ASSUME pc["adv"] = "settle"
        PROVE  /\ [x EXCEPT !.armed = TRUE] \in G /\ x \in G
               /\ [x EXCEPT !.cur = i + 1, !.retry = 0, !.armed = FALSE] \in G
               /\ MayRetry(me) => [x EXCEPT !.retry = heap[me].retry + 1, !.armed = TRUE] \in G
    <3>1. /\ me \in Objs /\ heap[me] \in Copy /\ i < NSteps /\ i \in Nat /\ out \in Outcome
      BY <1>0, <2>1 DEF Ground, CInv, IInv, WorldOK, ThreadsOK, StepOK, Copy
    <3>a. heap[me].status \in Onward
      <4>1. Going
        <5>1. tx["adv"].phase = "none"
          BY <2>1 DEF Ground, Basics
        <5>. QED  BY <2>1, <5>1 DEF Going, Pass, Ground
      <4>. QED  BY <4>1, GoingForward, PassTracked DEF Blame
    <3>2. x \in Copy /\ x.status \in Onward
      BY <3>1, <3>a DEF Copy
    <3>. HIDE DEF x
    <3>b. ASSUME NEW y \in Copy, y.status = x.status PROVE y \in G
      BY <1>1, <3>2, <3>b DEF Onward
    <3>4. [x EXCEPT !.armed = TRUE] \in Copy /\ [x EXCEPT !.armed = TRUE].status = x.status
      BY <3>2 DEF Copy
    <3>5. i + 1 \in 0 .. NSteps /\ 0 \in 0 .. MaxRetries
      BY <1>0, <3>1, StepsAssumption
    <3>6. /\ [x EXCEPT !.cur = i + 1, !.retry = 0, !.armed = FALSE] \in Copy
          /\ [x EXCEPT !.cur = i + 1, !.retry = 0, !.armed = FALSE].status = x.status
      BY <3>2, <3>5 DEF Copy
    <3>7. MayRetry(me) => heap[me].retry + 1 \in 0 .. MaxRetries
      BY <3>1, StepsAssumption DEF MayRetry, Copy
    <3>8. MayRetry(me) => /\ [x EXCEPT !.retry = heap[me].retry + 1, !.armed = TRUE] \in Copy
                          /\ [x EXCEPT !.retry = heap[me].retry + 1, !.armed = TRUE].status = x.status
      BY <3>2, <3>7 DEF Copy
    <3>. QED  BY <3>2, <3>b, <3>4, <3>6, <3>8
  <2>2. ASSUME tx["adv"].phase = "ok"
        PROVE  /\ Put(heap[me], "COMPLETED") \in G
               /\ tx["adv"].kind = "exhausted" => Put(heap[me], "FAILED") \in G /\ Put(heap[me], "COMPENSATING") \in G
    <3>1. heap[me] \in Copy
      BY <1>0, <2>2 DEF Ground
    <3>2. tx["adv"].kind = "exhausted" => Failed(heap[me])
      BY DEF Blame, Causes, Accused
    <3>. QED  BY <1>2, <1>3, <3>1, <3>2
  <2>. QED  BY <2>1, <2>2 DEF KeepsPass
<1>8. ASSUME NEW x \in G, NEW c \in [Step -> Outcome] PROVE [x EXCEPT !.comp = c] \in G
  <2>. DEFINE y == [x EXCEPT !.comp = c]
  <2>1. y \in Copy /\ y.status = x.status /\ y.res = x.res
    BY <1>1, <1>8 DEF Copy
  <2>. HIDE DEF y
  <2>2. y \in G
    BY <1>1, <1>8, <2>1 DEF Failed
  <2>. QED  BY <2>2 DEF y
<1>9. KeepsWalk(G)
  <2>1. ASSUME NEW x \in G PROVE [x EXCEPT !.comp = Joined(x)] \in G
    <3>1. Joined(x) \in [Step -> Outcome]
      BY <1>0, <1>1, <2>1 DEF Joined, Copy
    <3>. QED  BY <1>8, <2>1, <3>1
  <2>2. ASSUME pc["adv"] \in {"wsync", "wundo", "wrecord"} PROVE me \in Objs /\ heap[me] \in Copy /\ heap[me] \in G
    BY <1>0, <2>2 DEF Ground
  <2>3. ASSUME WalkRecord PROVE [heap[me] EXCEPT !.comp = Noted] \in G
    <3>1. heap[me] \in G /\ heap[me] \in Copy /\ out \in Outcome
      BY <2>2, <2>3 DEF WalkRecord, CInv, IInv, WorldOK
    <3>2. Noted \in [Step -> Outcome]
      BY <3>1 DEF Noted, Copy
    <3>. QED  BY <1>8, <3>1, <3>2
  <2>4. ASSUME pc["adv"] = "wsync", row.status \notin Terminal PROVE Put(Merged(heap, me)[me], "COMPENSATING") \in G
    <3>1. me \in Objs /\ heap[me] \in G /\ Failed(heap[me])
      BY <2>2, <2>4 DEF Blame, Causes, TurnedForCause
    <3>2. Merged(heap, me)[me] = [heap[me] EXCEPT !.comp = Joined(heap[me])]
      BY <1>0, <3>1 DEF Merged, Joined
    <3>3. Merged(heap, me)[me] \in Copy /\ Merged(heap, me)[me].res = heap[me].res
      <4>1. Merged(heap, me)[me] \in G
        BY <2>1, <3>1, <3>2
      <4>. QED  BY <1>0, <1>1, <3>1, <3>2, <4>1 DEF Copy
    <3>. QED  BY <1>2, <1>3, <3>1, <3>3 DEF Failed
  <2>5. pc["adv"] = "wundo" => Put(heap[me], "COMPENSATED") \in G
    BY <1>2, <1>3, <2>2
  <2>6. \A x \in G : x.status \in {"FAILED", "COMPENSATING"} => Put(x, "COMPENSATING") \in G
    BY <1>1, <1>2, <1>3
  <2>. QED  BY <2>1, <2>3, <2>4, <2>5, <2>6 DEF KeepsWalk
<1>. QED  BY <1>4, <1>5, <1>6, <1>7, <1>9 DEF Keeps, G

-----------------------------------------------------------------------------
(* The advancer's turns. *)

\* The checker's write is what it was, over a copy nobody has touched.
LEMMA CheckStays ==
  ASSUME ChecksItsOwn, tx'["chk"] = tx["chk"], ref'["chk"] = ref["chk"], row' = row,
         tx["chk"].phase # "none" =>
           heap'[ref["chk"]] = heap[ref["chk"]] /\ ref["chk"] \notin {me', tracked'}
  PROVE  ChecksItsOwn'
  BY DEF ChecksItsOwn, Failed

LEMMA AsksBlame ==
  ASSUME CInv, Dir, Ground, Blame, AdvTurn, me \in Objs, NEW k, NEW x,
         AdvAsks(k, x), AskOK(k, x), AskRecords(k, x)
  PROVE  Causes'
<1>0. /\ me' = me /\ heap'[me] = x /\ row' = row /\ tracked' = tracked
      /\ tx'["adv"].kind = k /\ tx'["adv"].phase = "begun" /\ pc'["adv"] = "write"
      /\ tx'["chk"] = tx["chk"] /\ ref'["chk"] = ref["chk"] /\ ref'["adv"] = me
      /\ tracked # NoObj => heap'[tracked] = IF tracked = me THEN x ELSE heap[tracked]
      /\ tx["chk"].phase # "none" /\ ref["chk"] # me => heap'[ref["chk"]] = heap[ref["chk"]]
      /\ ~Out("adv") /\ Causes /\ x.status \in Status
  BY DEF AdvAsks, Shares, Ground, Basics, AdvTurn, Blame, AskOK, Copy, me
<1>1. k # "timeout" /\ k \in Asked
  BY DEF AskRecords, AskOK, Ground
<1>2. ChecksItsOwn'
  BY <1>0, CheckStays DEF Causes, ChecksItsOwn
<1>3. k \in PassKinds \ {"open", "begin", "reopen", "complete", "failstep"} => Going
  BY DEF AskOK, Going
<1>4. PassOpen'
  <2>1. Going' => k \in PassKinds \ {"begin", "reopen", "complete", "failstep"}
    BY <1>0 DEF Going, Pass
  <2>2. k \in PassKinds \ {"begin", "reopen", "complete", "failstep"} => row.status \notin Terminal
    BY <1>0, <1>3 DEF AskOK, Causes, PassOpen, Fwd, Onward, Terminal
  <2>. QED  BY <1>0, <2>1, <2>2 DEF PassOpen
<1>5. k \in {"exhausted", "begin", "reopen", "failstep"} => Failed(x)
  BY <1>0 DEF AskRecords, Causes, Accused, Failed
<1>6. k \in {"begin", "reopen"} => Going
  BY DEF AskRecords, Going, Pass, PassKinds
<1>7. Accused'
  <2>1. Fwd /\ k \in {"begin", "reopen"} => Failed(row)
    BY <1>0 DEF AskRecords, Causes, Accused
  <2>2. Fwd /\ k \in {"begin", "reopen"} => tracked = me
    BY <1>0, <1>6, PassTracked
  <2>. QED  BY <1>0, <1>5, <2>1, <2>2 DEF Accused, Fwd, Failed
<1>8. TurnedForCause'
  <2>. SUFFICES ASSUME row.status = "COMPENSATING", k # "wdone"
                PROVE  tracked # NoObj /\ Failed(heap'[tracked]) /\ heap'[tracked].status \notin Terminal
    BY <1>0 DEF TurnedForCause, Failed, Ended
  <2>1. tracked # NoObj /\ Failed(heap[tracked]) /\ heap[tracked].status \notin Terminal
    BY <1>0, WalkNotOver DEF Ended
  <2>2. k \in {"wbegin", "wprogress"}
    <3>1. ~Fwd /\ (Pass => tx["adv"].kind \in {"begin", "reopen"})
      BY DEF Dir, Turning, Fwd, Onward
    <3>. QED  BY <1>1, <3>1 DEF AskOK, Asked, WalkKinds
  <2>3. x.res = heap[me].res /\ (x.status = "COMPENSATING" \/ x.status = heap[me].status)
    BY <2>2 DEF AskRecords, AskOK
  <2>. QED  BY <1>0, <2>1, <2>3 DEF Failed, Terminal
<1>9. WalkEnds'
  BY <1>0 DEF WalkEnds, AskOK
<1>. QED  BY <1>0, <1>1, <1>2, <1>4, <1>7, <1>8, <1>9 DEF Causes

LEMMA RestsBlame ==
  ASSUME CInv, Dir, Ground, Blame, AdvTurn, NEW t, AdvRests(t),
         row.status = "COMPENSATING" /\ t # tracked => tx["adv"].kind \in {"wdone", "timeout"}
  PROVE  Causes'
<1>0. /\ me' = NoObj /\ row' = row /\ tracked' = t /\ t \in {tracked, NoObj}
      /\ tx'["adv"].kind = "none" /\ tx'["adv"].phase = "none" /\ pc'["adv"] \in {"idle", "load"}
      /\ tx'["chk"] = tx["chk"] /\ ref'["chk"] = ref["chk"]
      /\ ~Out("adv") /\ Causes
  BY NoTxFields DEF AdvRests, Ground, Basics, AdvTurn, Blame, me
<1>1. ChecksItsOwn'
  <2>1. tx["chk"].phase # "none" => ref["chk"] \in Objs /\ ref["chk"] # NoObj /\ ref["chk"] \notin {me, tracked}
    BY <1>0 DEF Ground, Basics, Causes, ChecksItsOwn
  <2>2. tx["chk"].phase # "none" => heap'[ref["chk"]] = heap[ref["chk"]]
    BY <2>1 DEF AdvRests, Ground, Basics
  <2>. QED  BY <1>0, <2>1, <2>2, CheckStays DEF Causes
<1>2. PassOpen' /\ Accused' /\ WalkEnds'
  BY <1>0 DEF PassOpen, Going, Pass, PassKinds, Accused, WalkEnds
<1>3. TurnedForCause'
  <2>. SUFFICES ASSUME row.status = "COMPENSATING"
                PROVE  t # NoObj /\ Failed(heap'[t]) /\ heap'[t].status \notin Terminal
    BY <1>0 DEF TurnedForCause, Failed, Ended
  <2>1. tracked \in Objs /\ Failed(heap[tracked]) /\ ~Ended(tracked) /\ tx["adv"].kind # "wdone"
    BY <1>0, WalkNotOver
  <2>2. t = tracked
    BY <1>0, <2>1 DEF Causes
  <2>3. heap'[t] = heap[t] /\ t # NoObj
    BY <2>1, <2>2 DEF AdvRests, Terminal, Ground, Basics
  <2>. QED  BY <2>1, <2>2, <2>3 DEF Ended
<1>. QED  BY <1>0, <1>1, <1>2, <1>3 DEF Causes

\* Taking hold of the saga touches no other copy.
LEMMA HoldsBlame ==
  ASSUME CInv, Dir, Ground, Blame, AdvTurn, NEW l \in {"status", "wsync"}, Holds(l), tx["adv"].phase = "none",
         l = "wsync" => WalkDue
  PROVE  Causes'
<1>0. /\ row' = row /\ tracked' = tracked /\ tx' = tx /\ tx["adv"].kind = "none" /\ pc'["adv"] = l
      /\ me' = Loaded.o /\ ref'["chk"] = ref["chk"] /\ ~Out("adv") /\ Causes
      /\ tx["chk"].phase # "none" => ref["chk"] \in Objs
      /\ tracked # NoObj => tracked \in Objs /\ heap'[tracked] = heap[tracked]
      /\ ref["chk"] \in Objs => heap'[ref["chk"]] = heap[ref["chk"]]
  BY DEF Holds, Ground, Basics, AdvTurn, Blame, me
<1>1. ChecksItsOwn'
  BY <1>0, CheckStays, LoadedWhere DEF Causes, ChecksItsOwn, Ground, Basics
<1>2. PassOpen' /\ Accused' /\ WalkEnds'
  BY <1>0 DEF PassOpen, Going, Pass, PassKinds, Accused, WalkEnds
<1>3. TurnedForCause'
  <2>1. row.status = "COMPENSATING" => tracked # NoObj /\ Failed(heap[tracked]) /\ ~Ended(tracked)
    BY <1>0, WalkNotOver
  <2>2. l = "wsync" /\ row.status \notin Terminal => row.status = "COMPENSATING"
    BY DEF Dir, TurnedBack, Back, Terminal
  <2>3. tracked # NoObj => me' = tracked /\ heap'[me'] = heap[tracked]
    BY <1>0, LoadedWhere DEF Ground, Basics
  <2>. QED  BY <1>0, <2>1, <2>2, <2>3 DEF TurnedForCause, Failed, Ended
<1>. QED  BY <1>0, <1>1, <1>2, <1>3 DEF Causes

\* A pass goes on to a step, or runs it.
LEMMA StepsBlame ==
  ASSUME CInv, Dir, Ground, Blame, AdvTurn, GoesOn \/ Execute
  PROVE  Causes'
<1>0. /\ UNCHANGED <<row, heap, tracked, ref>> /\ me' = me /\ tx'["chk"] = tx["chk"] /\ ref'["chk"] = ref["chk"]
      /\ tx'["adv"].kind = "none" /\ tx'["adv"].phase = "none" /\ pc'["adv"] \in {"run", "settle"}
      /\ ~Out("adv") /\ Causes
  <2>1. CASE GoesOn
    <3>1. tx' = [tx EXCEPT !["adv"] = NoTx] /\ pc' = [pc EXCEPT !["adv"] = "run"]
          /\ tx \in [Thread -> Tx] /\ pc \in [Thread -> Label]
      BY <2>1 DEF GoesOn, CInv, IInv, ThreadsOK, ControlOK
    <3>. QED  BY <2>1, <3>1, NoTxFields DEF GoesOn, memory, AdvTurn, Blame, me, Ground
  <2>2. CASE Execute
    <3>1. pc' = [pc EXCEPT !["adv"] = "settle"] /\ pc \in [Thread -> Label] /\ pc["adv"] = "run" /\ UNCHANGED tx
      BY <2>2 DEF Execute, CInv, IInv, ThreadsOK, ControlOK
    <3>2. tx["adv"].phase = "none"
      BY <3>1 DEF Ground, Basics
    <3>. QED  BY <2>2, <3>1, <3>2 DEF Execute, memory, durable, AdvTurn, Blame, me, Ground, Basics
  <2>. QED  BY <2>1, <2>2
<1>1. ChecksItsOwn'
  BY <1>0, CheckStays DEF Causes, ChecksItsOwn
<1>2. Going
  BY DEF GoesOn, Execute, Going, Pass, PassKinds, Ground, Basics
<1>3. PassOpen' /\ Accused' /\ WalkEnds'
  BY <1>0, <1>2 DEF PassOpen, Accused, WalkEnds, Causes
<1>4. TurnedForCause'
  <2>1. Fwd
    BY <1>0, <1>2, GoingForward
  <2>. QED  BY <1>0, <2>1 DEF TurnedForCause, Fwd, Onward
<1>. QED  BY <1>0, <1>1, <1>3, <1>4 DEF Causes

\* A walk goes on.
LEMMA WalksBlame ==
  ASSUME CInv, Dir, Ground, Blame, AdvTurn, TurnWalks
  PROVE  Causes'
<1>0. /\ row' = row /\ tx'["chk"] = tx["chk"] /\ ref'["chk"] = ref["chk"]
      /\ tx'["adv"].kind = "none" /\ tx'["adv"].phase = "none" /\ pc'["adv"] \in WalkLabels
      /\ ~Out("adv") /\ Causes /\ WalkDue
  BY NoTxFields DEF TurnWalks, WalkOn, AdvTurn, Blame, WalkDue, Ground, Basics
<1>1. CASE Holds("wsync") /\ pc["adv"] = "wload"
  BY <1>0, <1>1, HoldsBlame DEF Ground, Basics
<1>2. ASSUME UNCHANGED <<tracked, ref>>, pc'["adv"] # "wsync",
             \A o \in Objs : o = me \/ heap'[o] = heap[o],
             me \in Objs => heap'[me].status = heap[me].status /\ heap'[me].res = heap[me].res
      PROVE  Causes'
  <2>0. me' = me
    BY <1>2 DEF me
  <2>1. ChecksItsOwn'
    BY <1>0, <1>2, <2>0, CheckStays DEF Causes, ChecksItsOwn, Ground
  <2>2. PassOpen' /\ Accused' /\ WalkEnds'
    BY <1>0 DEF PassOpen, Going, Pass, PassKinds, WalkLabels, Accused, WalkEnds
  <2>3. TurnedForCause'
    <3>1. row.status = "COMPENSATING" =>
            tracked # NoObj /\ tracked \in Objs /\ Failed(heap[tracked]) /\ ~Ended(tracked)
      BY <1>0, WalkNotOver
    <3>2. tracked \in Objs => heap'[tracked].status = heap[tracked].status /\ heap'[tracked].res = heap[tracked].res
      BY <1>2
    <3>. QED  BY <1>0, <1>2, <3>1, <3>2 DEF TurnedForCause, Failed, Ended
  <2>. QED  BY <1>0, <2>1, <2>2, <2>3 DEF Causes
<1>3. CASE pc["adv"] = "wstatus" /\ pc'["adv"] = "wload" /\ UNCHANGED <<memory, tx>>
  BY <1>2, <1>3 DEF memory
<1>4. CASE /\ UNCHANGED <<tracked, ref>> /\ \A o \in Objs : o = me \/ heap'[o] = heap[o]
           /\ heap'[me].status = heap[me].status /\ heap'[me].res = heap[me].res
           /\ pc'["adv"] \in {"wundo", "wrecord"}
  BY <1>2, <1>4
<1>. QED  BY <1>1, <1>3, <1>4 DEF TurnWalks

LEMMA TurnBlame == ASSUME CInv, Dir, Ground, Blame, AdvTurn PROVE Causes'
<1>1. CASE TurnAsks
  BY <1>1, AsksBlame DEF TurnAsks
<1>2. CASE TurnRests
  BY <1>2, RestsBlame DEF TurnRests
<1>3. CASE TurnLoads
  BY <1>3, HoldsBlame DEF TurnLoads, Ground, Basics
<1>4. CASE GoesOn \/ Execute
  BY <1>4, StepsBlame
<1>5. CASE TurnWalks
  BY <1>5, WalksBlame
<1>. QED  BY <1>1, <1>2, <1>3, <1>4, <1>5 DEF AdvTurn

-----------------------------------------------------------------------------
(* The checker's turns, and the writes. *)

\* Nothing of the advancer's has moved, and what is tracked still knows its cause.
LEMMA AdvStays ==
  ASSUME CInv, Ground, Blame, tx'["adv"] = tx["adv"], pc'["adv"] = pc["adv"], ref'["adv"] = ref["adv"], row' = row,
         me \in Objs => heap'[me] = heap[me],
         Fwd /\ tx["adv"].kind \in {"begin", "reopen"} /\ tracked' # NoObj => Failed(heap'[tracked']),
         row.status = "COMPENSATING" =>
           \/ tx["adv"].kind = "wdone"
           \/ tracked' # NoObj /\ Failed(heap'[tracked']) /\ heap'[tracked'].status \notin Terminal
  PROVE  (tx["adv"].kind # "timeout" /\ PassOpen /\ Accused /\ TurnedForCause /\ WalkEnds)'
<1>0. me' = me /\ Causes
  BY DEF me, Blame
<1>1. /\ pc["adv"] = "wsync" => me \in Objs
      /\ tx["adv"].kind # "none" => me \in Objs
  BY NoTxFields DEF Ground, Basics
<1>2. Going' <=> Going
  BY DEF Going, Pass
<1>3. PassOpen' /\ Accused' /\ WalkEnds'
  BY <1>0, <1>1, <1>2 DEF Causes, PassOpen, Accused, WalkEnds, Failed, Fwd
<1>4. TurnedForCause'
  BY <1>0, <1>1 DEF Causes, TurnedForCause, Failed, Ended
<1>. QED  BY <1>0, <1>3, <1>4 DEF Causes

LEMMA ChkTurnBlame == ASSUME CInv, Dir, Ground, Blame, ChkTurn PROVE Causes'
<1>0. /\ Causes /\ Basics /\ row' = row /\ row \in Copy
      /\ row.status \in {"FAILED", "COMPENSATING"} => Failed(row)
      /\ ref["adv"] = me /\ {"adv", "chk"} \subseteq Thread
  BY DEF Blame, Ground, ChkTurn, CopiesIn, Charged, Basics
<1>1. ASSUME NEW t, ChkRests(t) PROVE Causes'
  <2>0. /\ tx'["adv"] = tx["adv"] /\ pc'["adv"] = pc["adv"] /\ ref'["adv"] = ref["adv"] /\ tracked' = t
        /\ tx'["chk"].phase = "none"
    BY <1>0, <1>1, NoTxFields DEF ChkRests, Basics
  <2>1. ASSUME me \in Objs PROVE heap'[me] = heap[me]
    <3>1. tx["chk"].phase = "refused" => ref["chk"] # me
      BY <1>0 DEF Causes, ChecksItsOwn
    <3>. QED  BY <1>0, <1>1, <2>1, <3>1 DEF ChkRests, Basics
  <2>2. ASSUME row.status \notin Terminal, t # NoObj, t = tracked => Failed(heap[tracked]) /\ ~Ended(tracked),
               Failed(row)
        PROVE  Failed(heap'[t]) /\ heap'[t].status \notin Terminal
    <3>1. CASE t = tracked
      BY <1>1, <2>2, <3>1 DEF ChkRests, Ended
    <3>2. CASE t # tracked
      BY <1>1, <2>2, <3>2 DEF ChkRests
    <3>. QED  BY <3>1, <3>2
  <2>3. Fwd /\ tx["adv"].kind \in {"begin", "reopen"} /\ t # NoObj => Failed(heap'[t])
    <3>. SUFFICES ASSUME Fwd, tx["adv"].kind \in {"begin", "reopen"}, t # NoObj PROVE Failed(heap'[t])
      OBVIOUS
    <3>1. Failed(row) /\ (tracked # NoObj => Failed(heap[tracked])) /\ row.status \notin Terminal
      BY <1>0 DEF Causes, Accused, Fwd, Onward, Terminal
    <3>2. (heap'[t] = heap[tracked] /\ t = tracked) \/ heap'[t] = row
      BY <1>1, <3>1 DEF ChkRests
    <3>. QED  BY <3>1, <3>2
  <2>4. row.status = "COMPENSATING" /\ tx["adv"].kind # "wdone" =>
          t # NoObj /\ Failed(heap'[t]) /\ heap'[t].status \notin Terminal
    <3>. SUFFICES ASSUME row.status = "COMPENSATING", tx["adv"].kind # "wdone"
                  PROVE  t # NoObj /\ Failed(heap'[t]) /\ heap'[t].status \notin Terminal
      OBVIOUS
    <3>1. /\ tracked # NoObj /\ Failed(heap[tracked]) /\ ~Ended(tracked) /\ Failed(row)
          /\ row.status \notin Terminal
      BY <1>0 DEF Causes, TurnedForCause, Terminal
    <3>2. tx["chk"].phase # "ok"
      BY <1>0, <3>1 DEF Causes, ChecksItsOwn
    <3>3. t # NoObj
      BY <1>1, <3>1, <3>2 DEF ChkRests
    <3>. QED  BY <2>2, <3>1, <3>3
  <2>5. ChecksItsOwn'
    BY <2>0 DEF ChecksItsOwn
  <2>6. (tx["adv"].kind # "timeout" /\ PassOpen /\ Accused /\ TurnedForCause /\ WalkEnds)'
    BY <1>0, <2>0, <2>1, <2>3, <2>4, AdvStays
  <2>. QED  BY <2>5, <2>6 DEF Causes
<1>2. CASE ChkAsks
  <2>0. /\ tx'["adv"] = tx["adv"] /\ pc'["adv"] = pc["adv"] /\ ref'["adv"] = ref["adv"] /\ tracked' = tracked
        /\ tx'["chk"].phase = "begun" /\ heap'[ref'["chk"]].status = "FAILED" /\ me' = me
    BY <1>0, <1>2 DEF ChkAsks, Basics
  <2>1. /\ row.status = "COMPENSATING" /\ ref'["chk"] \notin {tracked, me} /\ heap'[ref'["chk"]].res = row.res
        /\ \A b \in Thread \ {"chk"} : ref[b] \in Objs => heap'[ref[b]] = heap[ref[b]]
        /\ tracked \in Objs => heap'[tracked] = heap[tracked]
    BY <1>2 DEF ChkAsks, Ground
  <2>2. ChecksItsOwn'
    BY <1>0, <2>0, <2>1 DEF ChecksItsOwn, Failed, Back
  <2>3. me \in Objs => heap'[me] = heap[me]
    BY <1>0, <2>1 DEF Basics
  <2>4. tracked # NoObj => heap'[tracked] = heap[tracked]
    BY <1>0, <2>1 DEF Basics
  <2>5. (tx["adv"].kind # "timeout" /\ PassOpen /\ Accused /\ TurnedForCause /\ WalkEnds)'
    BY <1>0, <2>0, <2>3, <2>4, AdvStays DEF Causes, Accused, TurnedForCause, Ended
  <2>. QED  BY <2>2, <2>5 DEF Causes
<1>. QED  BY <1>1, <1>2 DEF ChkTurn

\* What a moment of a write leaves as it was.
LEMMA FrameFields ==
  ASSUME NEW a \in Thread, WriteFrame(a), {"adv", "chk"} \subseteq Thread
  PROVE  /\ UNCHANGED <<heap, tracked, pc>> /\ me' = me
         /\ \A b \in Thread : ref'[b] = ref[b] /\ tx'[b].kind = tx[b].kind
         /\ \A b \in Thread \ {a} : tx'[b].phase = tx[b].phase /\ tx'[b].cols = tx[b].cols
         /\ Going' <=> Going
  BY DEF WriteFrame, me, Going, Pass

\* The columns are read.
LEMMA CaptureBlame ==
  ASSUME CInv, Dir, Ground, Blame, NEW a \in Thread, WriteFrame(a), tx[a].phase = "begun",
         tx'[a].phase = "sent", tx'[a].cols = heap[ref[a]], row' = row
  PROVE  Causes'
<1>0. /\ Causes /\ {"adv", "chk"} \subseteq Thread /\ me = ref["adv"]
      /\ UNCHANGED <<heap, tracked, pc>> /\ me' = me
      /\ \A b \in Thread : ref'[b] = ref[b] /\ tx'[b].kind = tx[b].kind
      /\ \A b \in Thread \ {a} : tx'[b].phase = tx[b].phase /\ tx'[b].cols = tx[b].cols
      /\ Going' <=> Going
  BY FrameFields DEF Blame, Ground, Basics
<1>1. ChecksItsOwn'
  <2>1. tx'["chk"].phase # "none" => tx["chk"].phase # "none"
    BY <1>0
  <2>. QED  BY <1>0, <2>1 DEF Causes, ChecksItsOwn, Failed
<1>2. PassOpen'
  <2>1. Going => row.status \notin Terminal /\ heap[me].status \in Onward
    BY <1>0, GoingForward, PassTracked DEF Causes, PassOpen
  <2>. QED  BY <1>0, <2>1 DEF Causes, PassOpen
<1>3. Accused'
  BY <1>0 DEF Causes, Accused, Failed, Fwd
<1>4. TurnedForCause' /\ WalkEnds'
  BY <1>0 DEF Causes, TurnedForCause, WalkEnds, Failed, Ended
<1>. QED  BY <1>0, <1>1, <1>2, <1>3, <1>4 DEF Causes

\* The row's ending refuses the write.
LEMMA RefuseBlame ==
  ASSUME CInv, Dir, Ground, Blame, NEW a \in Thread, WriteFrame(a), tx[a].phase = "sent",
         tx'[a].phase = "refused", tx'[a].cols = tx[a].cols, row' = row, row.status \in Terminal
  PROVE  Causes'
<1>0. /\ Causes /\ {"adv", "chk"} \subseteq Thread
      /\ UNCHANGED <<heap, tracked, pc>> /\ me' = me
      /\ \A b \in Thread : ref'[b] = ref[b] /\ tx'[b].kind = tx[b].kind /\ tx'[b].cols = tx[b].cols
      /\ \A b \in Thread \ {a} : tx'[b].phase = tx[b].phase
      /\ Going' <=> Going
  BY FrameFields DEF Blame, Ground, Basics
<1>1. ChecksItsOwn'
  BY <1>0 DEF Causes, ChecksItsOwn, Failed
<1>2. PassOpen' /\ Accused' /\ WalkEnds'
  BY <1>0 DEF Causes, PassOpen, Accused, WalkEnds, Failed, Fwd, Onward, Terminal
<1>3. TurnedForCause'
  BY <1>0 DEF TurnedForCause, Terminal
<1>. QED  BY <1>0, <1>1, <1>2, <1>3 DEF Causes

\* The checker's write lands: the saga had turned back, and has failed.
LEMMA ChkCommitBlame ==
  ASSUME CInv, Dir, Ground, Blame, WriteFrame("chk"), tx["chk"].phase = "sent", row.status \notin Terminal,
         tx'["chk"].phase = "ok", tx'["chk"].cols = tx["chk"].cols, row' = tx["chk"].cols
  PROVE  Causes'
<1>0. /\ Causes /\ {"adv", "chk"} \subseteq Thread
      /\ UNCHANGED <<heap, tracked, pc>> /\ me' = me
      /\ \A b \in Thread : ref'[b] = ref[b] /\ tx'[b].kind = tx[b].kind /\ tx'[b].cols = tx[b].cols
      /\ \A b \in Thread \ {"chk"} : tx'[b].phase = tx[b].phase
      /\ Going' <=> Going
  BY FrameFields DEF Blame, Ground, Basics
<1>1. row'.status = "FAILED" /\ row.status = "COMPENSATING"
  BY <1>0 DEF Causes, ChecksItsOwn, Back, Terminal
<1>2. ChecksItsOwn'
  BY <1>0, <1>1 DEF Causes, ChecksItsOwn, Failed, Back, Terminal
<1>3. ~Going
  BY <1>1 DEF Dir, Turning, Going
<1>4. PassOpen' /\ Accused' /\ WalkEnds'
  BY <1>0, <1>1, <1>3 DEF Causes, PassOpen, Accused, WalkEnds, Failed, Fwd, Onward, Terminal
<1>5. TurnedForCause'
  BY <1>1 DEF TurnedForCause, Terminal
<1>. QED  BY <1>0, <1>2, <1>4, <1>5 DEF Causes

\* The advancer's write lands.
LEMMA AdvCommitBlame ==
  ASSUME CInv, Dir, Ground, Blame, WriteFrame("adv"), tx["adv"].phase = "sent", row.status \notin Terminal,
         tx'["adv"].phase = "ok", tx'["adv"].cols = tx["adv"].cols, row' = tx["adv"].cols
  PROVE  Causes'
<1>0. /\ Causes /\ Basics /\ {"adv", "chk"} \subseteq Thread
      /\ UNCHANGED <<heap, tracked, pc>> /\ me' = me
      /\ \A b \in Thread : ref'[b] = ref[b] /\ tx'[b].kind = tx[b].kind /\ tx'[b].cols = tx[b].cols
      /\ \A b \in Thread \ {"adv"} : tx'[b].phase = tx[b].phase
      /\ Going' <=> Going
      /\ Out("adv") /\ Will("adv") = row' /\ pc["adv"] = "write"
  BY FrameFields DEF Blame, Ground, Basics, Out, Will
<1>1. ChecksItsOwn'
  <2>. SUFFICES ASSUME tx["chk"].phase # "none" PROVE row'.status \in Back /\ tx["chk"].phase # "ok"
    BY <1>0 DEF Causes, ChecksItsOwn, Failed
  <2>1. row.status = "COMPENSATING" /\ tx["chk"].phase # "ok"
    BY <1>0 DEF Causes, ChecksItsOwn, Back, Terminal
  <2>. QED  BY <1>0, <2>1 DEF Dir, BackWrites
<1>2. PassOpen'
  BY <1>0 DEF Causes, PassOpen, Onward, Terminal
<1>3. Accused'
  <2>1. Fwd' => tx["adv"].kind \notin {"begin", "reopen"}
    BY <1>0 DEF Dir, EndWrites, Fwd, Onward
  <2>. QED  BY <1>0, <2>1 DEF Causes, Accused, Failed
<1>4. TurnedForCause'
  <2>. SUFFICES ASSUME row'.status = "COMPENSATING", tx["adv"].kind # "wdone"
                PROVE  tracked # NoObj /\ Failed(heap[tracked]) /\ ~Ended(tracked)
    BY <1>0 DEF TurnedForCause, Failed, Ended
  <2>1. CASE row.status = "COMPENSATING"
    BY <1>0, <2>1 DEF Causes, TurnedForCause
  <2>2. CASE Fwd
    <3>1. tx["adv"].kind \in {"begin", "reopen"}
      BY <1>0, <2>2 DEF Dir, ForwardWrites
    <3>2. ~Out("chk") /\ ~ChkEnds /\ ~AdvEnds
      BY <1>0, <2>2, <3>1 DEF Causes, ChecksItsOwn, Fwd, Onward, Back, Out, ChkEnds, AdvEnds, EndKinds
    <3>3. tx["op"].kind # "start"
      BY <1>0 DEF Dir, Starting
    <3>4. tracked # NoObj
      BY <2>2, <3>2, <3>3 DEF Dir, TrackedAbreast, Ground
    <3>5. Failed(heap[tracked])
      BY <1>0, <2>2, <3>1, <3>4 DEF Causes, Accused
    <3>6. heap[tracked].status \notin Terminal
      BY <2>2, <3>1, <3>2, <3>4 DEF Dir, InMemory, Terminal
    <3>. QED  BY <3>4, <3>5, <3>6 DEF Ended
  <2>3. row.status # "NONE"
    BY <1>0 DEF Dir, Unborn
  <2>. QED  BY <2>1, <2>2, <2>3 DEF Ground, Copy, Status, Fwd, Onward
<1>5. WalkEnds'
  BY <1>0 DEF Causes, WalkEnds, Terminal
<1>. QED  BY <1>0, <1>1, <1>2, <1>3, <1>4, <1>5 DEF Causes

LEMMA WriteBlame == ASSUME CInv, Dir, Ground, Blame, Steady', NEW a \in Thread, Write(a) PROVE Causes'
<1>0. /\ WriteFrame(a) /\ Basics /\ Causes
      /\ \/ /\ tx[a].phase = "begun" /\ tx'[a].phase = "sent"
            /\ tx'[a].cols = heap[ref[a]] /\ UNCHANGED <<row, cache>>
         \/ /\ tx[a].phase = "sent" /\ row.status \notin Terminal /\ tx'[a].phase = "ok"
            /\ tx'[a].cols = tx[a].cols /\ row' = tx[a].cols
         \/ /\ tx[a].phase = "sent" /\ row.status \in Terminal /\ tx'[a].phase = "refused"
            /\ tx'[a].cols = tx[a].cols /\ UNCHANGED <<row, cache>>
  BY WriteSteady DEF Dir, Ground, Blame
<1>1. CASE tx'[a].phase = "sent" \/ tx'[a].phase = "refused"
  BY <1>0, <1>1, CaptureBlame, RefuseBlame
<1>2. CASE tx[a].phase = "sent" /\ tx'[a].phase = "ok"
  <2>0. /\ row.status \notin Terminal /\ tx'[a].cols = tx[a].cols /\ row' = tx[a].cols
    BY <1>0, <1>2
  <2>1. a \in {"adv", "chk", "op"}
    BY <1>2 DEF Ground, Basics
  <2>2. CASE a = "op"
    <3>1. tx["op"].kind = "start" /\ Out("op") /\ Will("op") = row'
      BY <1>2, <2>0, <2>2 DEF Ground, Basics, KindsOf, Dir, Healthy, Out, Will
    <3>2. row' = StartCopy /\ pc["adv"] = "idle" /\ pc["chk"] = "idle" /\ row.status = "NONE"
      BY <1>0, <3>1 DEF Dir, Starting, Basics
    <3>3. row'.status = "PENDING"
      BY <3>2 DEF StartCopy, Blank
    <3>4. /\ tx["adv"].phase = "none" /\ tx["adv"].kind = "none" /\ tx["chk"].phase = "none"
          /\ {"adv", "chk"} \subseteq Thread
      BY <1>0, <3>2, NoTxFields DEF Basics
    <3>5. /\ tx'["adv"].phase = "none" /\ tx'["adv"].kind = "none" /\ tx'["chk"].phase = "none"
          /\ pc'["adv"] = "idle"
      BY <1>0, <2>2, <3>2, <3>4 DEF WriteFrame
    <3>. QED  BY <3>3, <3>5
              DEF Causes, ChecksItsOwn, PassOpen, Going, Pass, PassKinds, Accused, TurnedForCause, WalkEnds
  <2>. QED  BY <1>0, <1>2, <2>0, <2>1, <2>2, ChkCommitBlame, AdvCommitBlame
<1>. QED  BY <1>0, <1>1, <1>2

-----------------------------------------------------------------------------
(* Everything else. *)

\* A start: nothing else is under way.
LEMMA StartBlame == ASSUME CInv, Dir, Ground, Blame, StartSaga \/ StartSettled PROVE Causes'
<1>0. /\ ControlOK /\ Basics /\ row' = row /\ {"adv", "chk", "op"} \subseteq Thread
  BY DEF Ground, Basics, CInv, IInv, ThreadsOK, StartSaga, StartSettled, durable
<1>1. pc["adv"] = "idle" /\ pc["chk"] = "idle" /\ row.status # "COMPENSATING"
  <2>1. CASE StartSaga
    BY <1>0, <2>1 DEF StartSaga, Dir, Unborn
  <2>2. CASE StartSettled
    <3>1. tx["op"].kind = "start"
      BY <1>0, <2>2 DEF StartSettled, Settled
    <3>. QED  BY <1>0, <3>1 DEF Dir, Starting
  <2>. QED  BY <2>1, <2>2
<1>2. tx["adv"] = NoTx /\ tx["chk"] = NoTx
  BY <1>0, <1>1 DEF Basics
<1>3. pc'["adv"] = "idle" /\ tx'["adv"] = NoTx /\ tx'["chk"] = NoTx
  <2>1. CASE StartSaga
    BY <1>0, <1>1, <1>2, <2>1 DEF StartSaga, Request, ControlOK
  <2>2. CASE StartSettled
    BY <1>0, <1>1, <1>2, <2>2 DEF StartSettled, ControlOK
  <2>. QED  BY <2>1, <2>2
<1>4. tx'["adv"].kind = "none" /\ tx'["adv"].phase = "none" /\ tx'["chk"].phase = "none"
  BY <1>3, NoTxFields
<1>. QED  BY <1>0, <1>1, <1>3, <1>4
          DEF Causes, ChecksItsOwn, PassOpen, Going, Pass, PassKinds, Accused, TurnedForCause, WalkEnds

\* Dispatches, worker events, the retry scan, Redis, the clock.
LEMMA BesideBlame ==
  ASSUME Blame, UNCHANGED <<row, heap, tracked, ref, tx>>,
         pc'["adv"] = pc["adv"] \/ pc'["adv"] \in {"load", "wstatus"}
  PROVE  Causes'
<1>1. me' = me /\ (Going' => Going)
  BY DEF me, Going, Pass
<1>2. ChecksItsOwn' /\ PassOpen' /\ Accused'
  BY <1>1 DEF Blame, Causes, ChecksItsOwn, PassOpen, Accused, Failed, Fwd
<1>3. TurnedForCause' /\ WalkEnds'
  BY <1>1 DEF Blame, Causes, TurnedForCause, WalkEnds, Failed, Ended
<1>. QED  BY <1>2, <1>3 DEF Blame, Causes

LEMMA DispatchBlame ==
  ASSUME CInv, Blame,
         \/ Dispatch \/ WorkerEvent \/ RetryScan \/ CacheExpires \/ (\E horizon \in Horizon : Tick(horizon))
         \/ UNCHANGED vars
  PROVE  Causes'
<1>0. ControlOK /\ "adv" \in Thread
  BY DEF CInv, IInv, ThreadsOK, Thread
<1>1. CASE Dispatch
  <2>1. UNCHANGED <<row, heap, tracked, ref, tx>>
    BY <1>1 DEF Dispatch, DispatchForward, DispatchWalk, durable, memory
  <2>2. pc'["adv"] = pc["adv"] \/ pc'["adv"] \in {"load", "wstatus"}
    BY <1>0, <1>1 DEF Dispatch, DispatchForward, DispatchWalk, ControlOK
  <2>. QED  BY <2>1, <2>2, BesideBlame
<1>2. CASE \/ WorkerEvent \/ RetryScan \/ CacheExpires \/ (\E horizon \in Horizon : Tick(horizon))
           \/ UNCHANGED vars
  <2>1. UNCHANGED <<row, heap, tracked, ref, tx, pc>>
    BY <1>2 DEF WorkerEvent, RetryScan, CacheExpires, Tick, durable, memory, control, vars
  <2>. QED  BY <2>1, BesideBlame
<1>. QED  BY <1>1, <1>2

\* A horizon that has passed stays passed, and so does a crash.
LEMMA SagaStaysLate == ASSUME [Next]_vars PROVE "saga" \in late => "saga" \in late'
<1>1. ASSUME NEW a \in Thread, Write(a) \/ Liveness(a) \/ FailSettled(a) PROVE "saga" \in late => "saga" \in late'
  BY <1>1 DEF Write, Capture, Commit, Refuse, DbError, Liveness, FailSettled, world
<1>2. CASE Advance
  BY <1>1, <1>2 DEF Thread, Advance, LoadPass, ReadStatus, Execute, Settle, PassWrote, PassFailed, PassRefused,
     WalkStatus, WalkLoad, WalkSync, Undo, WalkRecord, WalkFinish, WalkSettled, world
<1>3. CASE Check \/ Dispatch \/ Operate
  BY <1>1, <1>3 DEF Thread, Check, CheckerTick, Dispatch, DispatchForward, DispatchWalk, Operate, StartSettled,
     CompensateSettled, world
<1>4. CASE Restart
  BY <1>1, <1>4 DEF Thread, Restart, Boot, RewarmSettled, ShutdownSettled, world
<1>5. CASE ~(Advance \/ Check \/ Dispatch \/ Operate \/ Restart)
  BY <1>5 DEF Next, StartSaga, ContinueSaga, CompensateSaga, WorkerEvent, RetryScan, Crash, Shutdown, CacheExpires,
     Tick, world, vars
<1>. QED  BY <1>2, <1>3, <1>4, <1>5

LEMMA CalmBefore == ASSUME CInv, [Next]_vars, Calm', Early' PROVE Calm /\ Early /\ Steady' /\ ~Crash
<1>1. spent["crash"] \in Nat /\ spent'["crash"] \in Nat /\ spent["crash"] <= spent'["crash"] /\ Steady
  BY SteadyBefore, NextGrows DEF Calm, CInv, IInv, WorldOK, Grows, Fault
<1>2. ~Crash
  <2>1. Crash => spent'["crash"] = spent["crash"] + 1
    BY DEF Crash, Spend, CInv, IInv, WorldOK, Fault
  <2>. QED  BY <1>1, <2>1 DEF Calm
<1>. QED  BY <1>1, <1>2, SagaStaysLate DEF Calm, Early

LEMMA NextCauses == ASSUME CInv, Dir, Ground, Blame, [Next]_vars, Steady', ~Crash PROVE Causes'
<1>0. /\ {"adv", "chk", "op", "boot", "stop"} = Thread
      /\ ~Spend("op") /\ ~Spend("drain")
  BY SteadySpends DEF Thread
<1>1. ASSUME NEW a \in Thread, Write(a) PROVE Causes'
  BY <1>1, WriteBlame
<1>2. CASE Advance
  BY <1>0, <1>1, <1>2, AdvanceTurns, TurnBlame
<1>3. CASE Check
  BY <1>0, <1>1, <1>3, CheckTurns, ChkTurnBlame
<1>4. CASE StartSaga \/ Operate
  <2>1. ~CompensateSettled
    BY <1>0 DEF CompensateSettled, Settled, Dir, Healthy
  <2>. QED  BY <1>0, <1>1, <1>4, <2>1, StartBlame DEF Operate
<1>5. CASE Restart
  <2>1. ~ShutdownSettled
    BY <1>0 DEF ShutdownSettled, Settled, Dir, Healthy
  <2>2. ~Boot
    BY DEF Boot, Ground
  <2>3. ~RewarmSettled
    BY <1>0 DEF RewarmSettled, Settled, Ground, Basics
  <2>. QED  BY <1>0, <1>1, <1>5, <2>1, <2>2, <2>3 DEF Restart
<1>6. CASE ContinueSaga \/ CompensateSaga \/ Shutdown
  BY <1>0, <1>6 DEF ContinueSaga, CompensateSaga, Shutdown
<1>7. CASE \/ Dispatch \/ WorkerEvent \/ RetryScan \/ CacheExpires \/ (\E horizon \in Horizon : Tick(horizon))
           \/ UNCHANGED vars
  BY <1>7, DispatchBlame
<1>. QED  BY <1>2, <1>3, <1>4, <1>5, <1>6, <1>7 DEF Next

LEMMA InitBlame == ASSUME Init PROVE Blame
<1>1. /\ row = Blank /\ cache = Blank /\ heap = [o \in Objs |-> Blank]
      /\ \A a \in Thread : pc[a] = "idle" /\ tx[a] = NoTx
      /\ {"adv", "chk"} \subseteq Thread /\ Blank \in Copy /\ Blank.status = "NONE"
  BY BlankType DEF Init, Thread, Blank
<1>2. \A a \in Thread : tx[a].kind = "none" /\ tx[a].phase = "none" /\ tx[a].copy = Blank /\ tx[a].cols = Blank
  BY <1>1 DEF NoTx
<1>3. CopiesIn(Charged)
  <2>1. Blank \in Charged
    BY <1>1 DEF Charged
  <2>. QED  BY <1>1, <1>2, <2>1 DEF CopiesIn
<1>4. Causes
  BY <1>1, <1>2 DEF Causes, ChecksItsOwn, PassOpen, Going, Pass, PassKinds, Accused, TurnedForCause, WalkEnds
<1>. QED  BY <1>3, <1>4 DEF Blame

\* The inductive invariant.
FInv == DInv /\ (Calm /\ Early => Blame)

LEMMA NextFInv == ASSUME FInv, [Next]_vars PROVE FInv'
<1>1. DInv' /\ CInv
  BY NextDInv DEF FInv, DInv, RInv
<1>2. ASSUME Calm', Early' PROVE Blame'
  <2>1. Calm /\ Early /\ Steady' /\ ~Crash
    BY <1>1, <1>2, CalmBefore
  <2>2. Dir /\ Blame /\ Ground
    BY <1>1, <2>1, GroundHolds DEF FInv, DInv, Calm
  <2>3. CopiesIn(Charged)'
    BY <1>1, <2>2, ChargedKept, NextCopies DEF Blame
  <2>. QED  BY <1>1, <2>1, <2>2, <2>3, NextCauses DEF Blame
<1>. QED  BY <1>1, <1>2 DEF FInv

\* Every copy of a saga that says FAILED or COMPENSATING has recorded the step that
\* failed, in the row, in Redis and in memory, and every write that turns the saga back
\* or fails it was asked for over such a step (runSagaSteps, beginCompensation, failSaga,
\* checkCompensationLiveness).
THEOREM CausesRecorded == Spec => []FInv
<1>1. Init => FInv
  BY InitRInv, InitDir, InitBlame DEF FInv, DInv
<1>2. FInv /\ [Next]_vars => FInv'
  BY NextFInv
<1>. QED  BY <1>1, <1>2, PTL DEF Spec

\* FAILED has a cause: a step the row has recorded as failed, or a horizon that has
\* passed.  No burst of worker events over a waiting step, no order of the writes and no
\* cache write that is lost fails a saga, wherever the process runs on and no database
\* call fails (runSagaSteps, handleEvent, checkSagaTimeout).
THEOREM FailuresHaveCauses == Spec => [](Calm => FailureHasACause)
<1>1. ASSUME FInv, Calm, row.status = "FAILED", late = {} PROVE \E i \in Step : row.res[i] = "failed"
  BY <1>1 DEF FInv, Early, Blame, CopiesIn, Charged, Failed
<1>2. FInv => (Calm => FailureHasACause)
  BY <1>1 DEF FailureHasACause
<1>. QED  BY <1>2, CausesRecorded, PTL
=============================================================================
