------------------------ MODULE SagaDirection_proofs ------------------------
(***************************************************************************)
(* The direction of travel in SagaEngine: a saga that has turned back does *)
(* not turn forward again, nothing is undone under a forward row or past   *)
(* the pivot, and no step runs over a state that was undone -- for every   *)
(* value of the constants, across crashes, lost cache writes, worker       *)
(* events, horizons and failed steps, wherever no database call fails, no  *)
(* operator acts and nothing is drained.                                   *)
(***************************************************************************)
EXTENDS SagaRecords_proofs, WellFoundedInduction

\* No failed database call, no operator and no drain, and no pass that has written
\* over a failure; and where the pool may serve writes out of order, no crash either.
Steady == /\ spent["db"] = 0 /\ spent["op"] = 0 /\ spent["drain"] = 0 /\ ~recorded.reopened
          /\ Overtakes => spent["crash"] = 0

\* A write that may still land, and what the row would then read.
Out(a)  == tx[a].phase \in {"begun", "sent"}
Will(a) == IF tx[a].phase = "begun" THEN heap[ref[a]] ELSE tx[a].cols

\* The row says forward, or that the saga has turned back.
Onward == {"PENDING", "RUNNING"}
Fwd    == row.status \in Onward
Back   == {"COMPENSATING", "COMPENSATED", "FAILED"}

\* The pivot's effect may be out; a copy that is abreast of that knows.
PivotOut   == eff[Pivot] # "absent"
Abreast(x) == PivotOut => x.cur >= Pivot

\* A forward pass is under way past its opening; a walk is, or is asked for.
Pass     == pc["adv"] \in {"run", "settle"} \/ tx["adv"].kind \in PassKinds
WalkDue  == "walk" \in queue \/ claim.pendingWalk \/ claim.dir = "compensation"
Reverted == \E i \in Step : eff[i] = "undone"

\* A write that ends the saga forward: the pass's own, or the checker's over a copy
\* the pass does not hold.
EndKinds == {"timeout", "failstep", "complete"}
AdvEnds  == Out("adv") /\ tx["adv"].kind \in EndKinds
ChkEnds  == /\ Out("chk") /\ Will("chk").status = "FAILED" /\ ~parked
            /\ tx["chk"].phase = "begun" => ref["chk"] # me
            /\ Overtakes => "saga" \in late

\* The opening write of a pass over a stale copy comes too late.
Doomed == \/ row.status \in Terminal
          \/ tx["adv"].phase = "begun" /\ "chk" \in tx["adv"].ahead /\ ChkEnds

StartCopy == [Blank EXCEPT !.status = "PENDING"]

Healthy ==
  /\ pc["adv"] # "liveness" /\ pc["stop"] = "idle"
  /\ \A a \in Thread : /\ tx[a].phase # "error"
                       /\ tx[a].kind \notin {"fail", "rearm2", "redrive", "handoff"}
                       /\ tx[a].kind = "reopen" => a = "adv"
Unborn ==
  row.status = "NONE" =>
    /\ cache.status = "NONE" /\ tracked = NoObj /\ queue = {}
    /\ \A a \in Thread \ {"op"} : pc[a] = "idle"
    /\ \A i \in Step : eff[i] = "absent"
Starting ==
  tx["op"].kind = "start" =>
    /\ tracked = NoObj /\ queue = {}
    /\ \A a \in Thread \ {"op"} : pc[a] = "idle"
    /\ \A i \in Step : eff[i] = "absent"
    /\ heap[ref["op"]] = StartCopy /\ tx["op"].copy = StartCopy
    /\ Out("op") => row.status = "NONE" /\ Will("op") = StartCopy
    /\ row.status \in {"NONE", "PENDING"} /\ (row.status = "PENDING" => ~row.armed)
    /\ tx["op"].phase = "ok" => row.status = "PENDING"

\* Turning back.
TurnedBack ==
  Reverted \/ WalkDue => row.status \in Back /\ ~PivotOut /\ ~Pass
Turning ==
  /\ tx["adv"].kind \in {"begin", "reopen"} => ~PivotOut /\ (tx["adv"].phase = "ok" => row.status \in Back)
  /\ row.status = "COMPENSATING" => ~PivotOut /\ (Pass => tx["adv"].kind \in {"begin", "reopen"})

\* Keeping abreast.
PassAbreast == Pass => Abreast(heap[me]) \/ (tx["adv"].kind = "open" /\ tx["adv"].phase # "ok" /\ Doomed)
ReadAbreast ==
  pc["adv"] = "status" /\ Fwd =>
    (Abreast(heap[me]) \/ ChkEnds) /\ heap[me].status \in {"PENDING", "RUNNING", "FAILED"}
TrackedAbreast ==
  Fwd /\ up => IF tracked # NoObj THEN Abreast(heap[tracked])
               ELSE tx["op"].kind = "start" \/ AdvEnds \/ ChkEnds
RowAbreast ==
  Fwd => /\ Abreast(row) /\ cache.status \in {"NONE", "PENDING", "RUNNING"}
         /\ pc["adv"] = "run" \/ (tx["adv"].kind \in {"open", "advance"} /\ tx["adv"].phase = "ok")
              => row.cur = heap[me].cur
OneCopy ==
  Fwd /\ (pc["adv"] = "status" \/ (Pass /\ tx["adv"].kind \notin {"begin", "reopen"})) => tracked \in {me, NoObj}

\* Endings on their way.
Settling ==
  /\ \A a \in Thread : tx[a].phase = "refused" => row.status \in Terminal
  /\ \A a \in Thread : tx[a].phase = "ok" /\ tx[a].kind \in EndKinds \cup {"begin", "reopen"}
                         => row.status \notin {"NONE", "PENDING", "RUNNING"}
  /\ Out("chk") /\ Fwd /\ Overtakes => "saga" \in late
  /\ pc["chk"] = "liveness" /\ Fwd => tx["adv"].kind \in {"begin", "reopen"} /\ Out("adv")

\* What the copies in memory read while the row says forward.
InMemory ==
  /\ Fwd /\ tracked # NoObj =>
       /\ heap[tracked].status \notin {"NONE", "COMPENSATED"}
       /\ heap[tracked].status = "FAILED" => Out("chk") \/ AdvEnds
       /\ heap[tracked].status = "COMPENSATING" => tx["adv"].kind \in {"begin", "reopen"} /\ Out("adv")
       /\ heap[tracked].status = "COMPLETED" => tx["adv"].kind = "complete" /\ Out("adv")
  /\ Fwd /\ Pass /\ tx["adv"].kind \notin {"begin", "reopen", "complete", "failstep"} =>
       heap[me].status \in {"PENDING", "RUNNING", "FAILED"}
  /\ row.status = "COMPENSATING" /\ (pc["adv"] \in {"wundo", "wrecord"} \/ tx["adv"].kind \in WalkKinds)
       => heap[me].status \in Back

\* What the outstanding writes may make of the row.
ForwardWrites ==
  Fwd => \A a \in Thread : Out(a) =>
    /\ Will(a).status \in {"PENDING", "RUNNING", "FAILED", "COMPLETED", "COMPENSATING"}
    /\ Will(a).status \in Onward => tx[a].copy.status \in Onward
    /\ Will(a).status = "COMPENSATING" => tx["adv"].kind \in {"begin", "reopen"} /\ Out("adv") /\ a \in {"adv", "chk"}
    /\ Will(a).status = "COMPLETED" => tx["adv"].kind = "complete" /\ Out("adv") /\ a \in {"adv", "chk"}
BackWrites ==
  row.status = "COMPENSATING" =>
    \A a \in Thread : Out(a) => a \in {"adv", "chk"} /\ Will(a).status \in Back
EndWrites ==
  row.status \notin Terminal =>
    /\ tx["adv"].kind \in {"begin", "reopen"} /\ Out("adv") => Will("adv").status = "COMPENSATING"
    /\ AdvEnds => Will("adv").status \in {"FAILED", "COMPLETED"}
    /\ Out("chk") => Will("chk").status \notin {"NONE", "PENDING", "RUNNING"}

\* A boot's re-warm goes first.
Rewarming ==
  Out("boot") =>
    /\ ~Overtakes /\ Fwd /\ tx["boot"].ahead = {} /\ Abreast(Will("boot"))
    /\ \A a \in {"adv", "chk"} : /\ tx[a].phase \in {"none", "begun"}
                                 /\ tx[a].phase = "begun" => "boot" \in tx[a].ahead
    /\ pc["adv"] \in {"idle", "load", "status", "write"} /\ tx["adv"].kind \in {"none", "open", "timeout"}
    /\ pc["chk"] \in {"idle", "write"}

Dir == /\ Healthy /\ Unborn /\ Starting /\ TurnedBack /\ Turning
       /\ PassAbreast /\ ReadAbreast /\ TrackedAbreast /\ RowAbreast /\ OneCopy
       /\ Settling /\ InMemory /\ ForwardWrites /\ BackWrites /\ EndWrites /\ Rewarming

\* What every step of the proof needs of the threads.
Basics ==
  /\ {"adv", "chk", "op", "boot", "stop"} = Thread
  /\ \A a \in Thread : Out(a) => ref[a] \in Objs
  /\ \A a \in Thread : tx[a].phase = "none" => tx[a] = NoTx
  /\ \A a \in Thread : (pc[a] = "write") <=> (tx[a].phase # "none")
  /\ \A a \in Thread : tx[a].phase # "none" => tx[a].kind \in KindsOf(a)
  /\ \A a \in Thread : pc[a] \notin Holding => ref[a] = NoObj
  /\ me \in Objs => heap[me] \in Copy /\ heap[me].cur \in Nat
  /\ Pivot \in Nat /\ NoObj \notin Objs /\ tracked \in Objs \cup {NoObj}
  /\ me = ref["adv"] /\ me' = ref'["adv"]

LEMMA BasicsHold == ASSUME CInv PROVE Basics
<1>1. /\ {"adv", "chk", "op", "boot", "stop"} = Thread
      /\ \A a \in Thread : Out(a) => ref[a] \in Objs
  BY DEF CInv, IInv, ThreadsOK, RefOK, Out, Thread
<1>2. \A a \in Thread : /\ tx[a].phase = "none" => tx[a] = NoTx
                        /\ (pc[a] = "write") <=> (tx[a].phase # "none")
                        /\ tx[a].phase # "none" => tx[a].kind \in KindsOf(a)
                        /\ pc[a] \notin Holding => ref[a] = NoObj
  BY DEF CInv, Order, Writing, Released
<1>3. me \in Objs => heap[me] \in Copy /\ heap[me].cur \in Nat
  BY StepsAssumption DEF CInv, IInv, ThreadsOK, ControlOK, Copy
<1>4. Pivot \in Nat /\ NoObj \notin Objs /\ tracked \in Objs \cup {NoObj}
  BY StepsAssumption, HeapAssumption DEF CInv, IInv, ThreadsOK, ControlOK, Step
<1>5. me = ref["adv"] /\ me' = ref'["adv"]
  BY DEF me
<1>. QED  BY <1>1, <1>2, <1>3, <1>4, <1>5 DEF Basics

-----------------------------------------------------------------------------
(* The advancer asks for a write. *)

\* The object it holds becomes x; whoever shares the object sees that.
Shares(x) ==
  /\ \A b \in Thread : ref[b] \in Objs =>
       heap'[ref[b]] = IF ref[b] = me THEN x ELSE heap[ref[b]]
  /\ tracked \in Objs => heap'[tracked] = IF tracked = me THEN x ELSE heap[tracked]
AdvAsks(k, x) ==
  /\ \A b \in Thread : ref'[b] = ref[b]
  /\ \A b \in Thread \ {"adv"} : tx'[b] = tx[b] /\ pc'[b] = pc[b]
  /\ tx'["adv"].phase = "begun" /\ tx'["adv"].kind = k /\ tx'["adv"].copy = x
  /\ tx'["adv"].ahead = Line("adv") /\ pc'["adv"] = "write"
  /\ Shares(x) /\ UNCHANGED <<tracked, parked, claim, queue>>

LEMMA AsksEffect ==
  ASSUME CInv, me \in Objs, NEW k, NEW h, \A y \in Objs \ {me} : h[y] = heap[y],
         Request("adv", k, h, me)
  PROVE  AdvAsks(k, h[me])
<1>0. ControlOK /\ "adv" \in Thread
  BY DEF CInv, IInv, ThreadsOK, Thread
<1>1. /\ ref'["adv"] = me /\ heap'[me] = h[me] /\ pc'["adv"] = "write"
      /\ tx'["adv"] = NewTx(k, h, me, Line("adv"))
      /\ \A b \in Thread \ {"adv"} : ref'[b] = ref[b] /\ tx'[b] = tx[b] /\ pc'[b] = pc[b]
      /\ \A b \in Thread \ {"adv"} : ref[b] \in Objs => heap'[ref[b]] = h[ref[b]]
      /\ tracked \in Objs => heap'[tracked] = h[tracked]
      /\ UNCHANGED <<tracked, parked, claim, queue>>
  BY <1>0, RequestEffect
<1>2. \A b \in Thread : ref'[b] = ref[b]
  BY <1>1 DEF me
<1>3. Shares(h[me])
  BY <1>1 DEF Shares, me
<1>. QED  BY <1>1, <1>2, <1>3, NewTxFields DEF AdvAsks

\* What it may ask for, and where.
Asked == (PassKinds \ {"fail", "rearm2"}) \cup WalkKinds \cup {"timeout"}
AskOK(k, x) ==
  /\ k \in Asked /\ x \in Copy /\ x.cur >= heap[me].cur
  /\ \/ /\ k \in {"advance", "retry", "exhausted", "rearm", "repoll", "wprogress"}
        /\ x.status = heap[me].status
     \/ k = "open" /\ x.status = "RUNNING"
     \/ k \in {"begin", "reopen", "wbegin"} /\ x.status = "COMPENSATING"
     \/ k \in {"failstep", "timeout"} /\ x.status = "FAILED"
     \/ k = "complete" /\ x.status = "COMPLETED"
     \/ k = "wdone" /\ x.status = "COMPENSATED"
  /\ k = "open" => /\ pc["adv"] = "status" /\ Fwd /\ heap[me].status \in Onward
                   /\ Abreast(x) \/ (~Overtakes /\ ChkEnds)
  /\ k \in PassKinds \ {"open"} =>
       Pass /\ tx["adv"].kind \notin {"begin", "reopen", "complete", "failstep"} /\ Abreast(x)
  /\ k \in {"begin", "reopen"} => ~PivotOut
  /\ k \in WalkKinds => claim.dir = "compensation"
  /\ k = "wprogress" => pc["adv"] = "wrecord"
  /\ k = "timeout" => pc["adv"] = "status" /\ Fwd

\* A copy that has recorded a failed step.
Failed(x) == \E i \in Step : x.res[i] = "failed"

\* What becomes of the copy's record of undos: a walk joins the row's record to it,
\* before and after its own answers; everything else leaves it alone.  Only an answer
\* changes what the copy says of its steps, and only a failed step turns a saga back
\* or ends a pass.
AskRecords(k, x) ==
  /\ k \notin {"advance", "retry", "exhausted", "rearm", "repoll"} => x.res = heap[me].res
  /\ k = "exhausted" => Failed(x)
  /\ k \in {"begin", "reopen", "failstep"} => tx["adv"].kind = "exhausted" /\ tx["adv"].phase = "ok"
  /\ k = "timeout" => Expired
  /\ k \notin {"wbegin", "wprogress"} => x.comp = heap[me].comp
  /\ k = "wbegin" => /\ pc["adv"] = "wsync" /\ row.status \notin Terminal
                     /\ Successes(x.comp) = Successes(row.comp) \cup Successes(heap[me].comp)
  /\ k = "wprogress" => /\ row.status \notin Terminal
                        /\ Successes(x.comp) = Successes(row.comp) \cup Successes(Noted)
  /\ k = "wdone" => pc["adv"] = "wundo"

LEMMA AsksDir ==
  ASSUME CInv, Dir, me \in Objs, NEW k, NEW x, AdvAsks(k, x), AskOK(k, x),
         ~Out("adv"), pc["adv"] # "idle", UNCHANGED <<row, cache, up, late, eff>>
  PROVE  Dir'
<1>0. /\ {"adv", "chk", "op", "boot", "stop"} = Thread
      /\ \A a \in Thread : Out(a) => ref[a] \in Objs
      /\ \A a \in Thread : tx[a].phase = "none" => tx[a] = NoTx
      /\ \A a \in Thread : (pc[a] = "write") <=> (tx[a].phase # "none")
      /\ heap[me].cur \in Nat /\ heap[me] \in Copy
      /\ Pivot \in Nat /\ NoObj \notin Objs /\ tracked \in Objs \cup {NoObj}
      /\ me = ref["adv"] /\ me' = ref'["adv"]
      /\ x.cur \in Nat
  <2>1. x.cur \in Nat
    BY DEF AskOK, Copy
  <2>. QED  BY <2>1, BasicsHold DEF Basics
<1>1. AdvAsks(k, x) /\ me' = me /\ heap'[me] = x
  BY <1>0 DEF AdvAsks, Shares
<1>2. /\ \A a \in Thread \ {"adv"} : Out(a)' <=> Out(a)
      /\ Out("adv")'
      /\ \A a \in Thread \ {"adv"} : Out(a) => Will(a)' = IF tx[a].phase = "begun" /\ ref[a] = me THEN x ELSE Will(a)
      /\ Will("adv")' = x
  BY <1>0, <1>1 DEF AdvAsks, Out, Will, Shares
<1>3. /\ Fwd' <=> Fwd
      /\ WalkDue' <=> WalkDue
      /\ Reverted' <=> Reverted
      /\ PivotOut' <=> PivotOut
      /\ Pass' <=> k \in PassKinds
      /\ AdvEnds' <=> k \in EndKinds
      /\ ~AdvEnds
  BY <1>1, <1>2 DEF AdvAsks, Fwd, WalkDue, Reverted, PivotOut, Pass, AdvEnds
<1>4. ChkEnds => ChkEnds'
  BY <1>0, <1>1, <1>2 DEF ChkEnds, AdvAsks
<1>5. k \in PassKinds => Fwd \/ (Pass /\ tx["adv"].kind \notin {"begin", "reopen"})
  BY DEF AskOK
<1>6. Fwd => k \notin WalkKinds
  BY DEF AskOK, Dir, TurnedBack, WalkDue, Fwd, Onward, Back
<1>7. Abreast(heap[me]) => Abreast(x)'
  BY <1>0, <1>3 DEF Abreast, AskOK
<1>10. Healthy'
  BY <1>0, <1>1 DEF AdvAsks, AskOK, Asked, Dir, Healthy, PassKinds, WalkKinds
<1>11. Unborn' /\ Starting'
  BY <1>0, <1>1 DEF AdvAsks, Dir, Unborn, Starting
<1>12. TurnedBack'
  BY <1>3, <1>5 DEF Dir, TurnedBack, Fwd, Onward, Back
<1>13. Turning'
  BY <1>1, <1>3, <1>5 DEF AdvAsks, AskOK, Dir, Turning, Fwd, Onward
<1>14. PassAbreast'
  <2>1. SUFFICES ASSUME k \in PassKinds PROVE Abreast(x)' \/ (k = "open" /\ Doomed')
    BY <1>1, <1>3 DEF PassAbreast, AdvAsks
  <2>2. CASE k = "open" /\ ~Overtakes /\ ChkEnds
    BY <1>0, <1>1, <1>4, <2>2 DEF AdvAsks, Doomed, Line, ChkEnds, Out
  <2>. QED  BY <1>3, <2>1, <2>2 DEF AskOK, Abreast
<1>15. ReadAbreast' /\ RowAbreast'
  BY <1>1, <1>3 DEF AdvAsks, ReadAbreast, RowAbreast, Dir, Abreast
<1>16. TrackedAbreast'
  BY <1>0, <1>1, <1>3, <1>4, <1>7 DEF TrackedAbreast, Dir, AdvAsks, Shares, Abreast
<1>17. OneCopy'
  BY <1>1, <1>3 DEF OneCopy, Dir, AdvAsks, AskOK
<1>18. Settling'
  BY <1>0, <1>1, <1>2, <1>3 DEF Settling, Dir, AdvAsks
<1>19. InMemory'
  <2>1. Fwd /\ tracked # NoObj =>
          /\ heap'[tracked].status \notin {"NONE", "COMPENSATED"}
          /\ heap'[tracked].status = "FAILED" => Out("chk")' \/ AdvEnds'
          /\ heap'[tracked].status = "COMPENSATING" => k \in {"begin", "reopen"}
          /\ heap'[tracked].status = "COMPLETED" => k = "complete"
    BY <1>0, <1>1, <1>2, <1>3, <1>6 DEF InMemory, Dir, AdvAsks, Shares, AskOK, WalkKinds, EndKinds
  <2>2. Fwd /\ k \in PassKinds \ {"begin", "reopen", "complete", "failstep"} => x.status \in {"PENDING", "RUNNING", "FAILED"}
    BY DEF InMemory, Dir, AskOK, PassKinds
  <2>3. row.status = "COMPENSATING" /\ k \in WalkKinds => x.status \in Back
    BY DEF InMemory, Dir, AskOK, WalkKinds, Back
  <2>. QED  BY <1>1, <1>2, <1>3, <2>1, <2>2, <2>3 DEF InMemory, AdvAsks
<1>20. Out("chk") /\ row.status \notin Terminal /\ tx["chk"].phase = "begun" /\ ref["chk"] = me
         => x.status \notin {"NONE", "PENDING", "RUNNING"}
  BY <1>0 DEF EndWrites, Dir, AskOK, Will, Onward
<1>21. Out("boot") => k \in {"open", "timeout"} /\ ~Overtakes
  BY <1>0, NoTxFields DEF Rewarming, Dir, AskOK, Out, Asked, Pass, PassKinds, WalkKinds, WalkDue, TurnedBack, Fwd,
     Onward, Back
<1>22. ForwardWrites'
  <2>. SUFFICES ASSUME Fwd, NEW a \in Thread, Out(a)'
       PROVE /\ Will(a)'.status \in {"PENDING", "RUNNING", "FAILED", "COMPLETED", "COMPENSATING"}
             /\ Will(a)'.status \in Onward => tx'[a].copy.status \in Onward
             /\ Will(a)'.status = "COMPENSATING" => k \in {"begin", "reopen"} /\ a \in {"adv", "chk"}
             /\ Will(a)'.status = "COMPLETED" => k = "complete" /\ a \in {"adv", "chk"}
    BY <1>1, <1>2, <1>3 DEF ForwardWrites, AdvAsks
  <2>1. k \in PassKinds \ {"open", "begin", "reopen", "complete", "failstep"} => heap[me].status \in {"PENDING", "RUNNING", "FAILED"}
    BY DEF InMemory, Dir, AskOK
  <2>2. CASE a = "adv"
    BY <1>1, <1>2, <1>6, <2>1, <2>2 DEF AdvAsks, AskOK, PassKinds, WalkKinds, Onward
  <2>3. CASE a # "adv" /\ Will(a)' = Will(a)
    BY <1>0, <1>1, <1>2, <2>3 DEF AdvAsks, ForwardWrites, Dir
  <2>4. CASE a # "adv" /\ tx[a].phase = "begun" /\ ref[a] = me /\ Will(a)' = x
    <3>1. a \in {"chk", "boot"}
      BY <1>0, <1>2, <2>4 DEF Dir, Healthy, Starting, Out, CInv, Order, Writing, KindsOf
    <3>2. CASE a = "chk"
      BY <1>0, <1>2, <1>6, <1>20, <2>1, <2>4, <3>2 DEF AskOK, PassKinds, WalkKinds, Onward, Fwd, Terminal
    <3>3. CASE a = "boot"
      BY <1>0, <1>1, <1>2, <1>21, <2>4, <3>3 DEF AdvAsks, AskOK, ForwardWrites, Dir, Will, Onward
    <3>. QED  BY <3>1, <3>2, <3>3
  <2>. QED  BY <1>2, <2>2, <2>3, <2>4
<1>23. BackWrites'
  <2>1. row.status = "COMPENSATING" => x.status \in Back
    BY <1>5 DEF InMemory, Turning, Dir, AskOK, PassKinds, WalkKinds, Back, Asked, Fwd, Onward
  <2>. QED  BY <1>0, <1>1, <1>2, <2>1 DEF BackWrites, Dir
<1>24. EndWrites'
  BY <1>0, <1>1, <1>2, <1>3, <1>20 DEF EndWrites, Dir, AdvAsks, AskOK, EndKinds
<1>25. Rewarming'
  <2>. SUFFICES ASSUME Out("boot") PROVE Rewarming'
    BY <1>0, <1>2 DEF Rewarming
  <2>1. Abreast(Will("boot"))'
    BY <1>0, <1>2, <1>3, <1>7 DEF Rewarming, Dir, Abreast, Will
  <2>2. "boot" \in Line("adv")
    BY <1>0, <1>21 DEF Line, Out
  <2>. QED  BY <1>0, <1>1, <1>2, <1>3, <1>21, <2>1, <2>2 DEF Rewarming, Dir, AdvAsks
<1>. QED  BY <1>10, <1>11, <1>12, <1>13, <1>14, <1>15, <1>16, <1>17, <1>18, <1>19, <1>22, <1>23, <1>24,
             <1>25 DEF Dir

-----------------------------------------------------------------------------
(* The moments of a write. *)

\* Nobody moves, and no thread's write but a's.
WriteFrame(a) ==
  /\ UNCHANGED <<heap, tracked, ref, parked, pc, claim, queue, up, eff>>
  /\ \A b \in Thread \ {a} :
       /\ tx'[b].phase = tx[b].phase /\ tx'[b].kind = tx[b].kind
       /\ tx'[b].copy = tx[b].copy /\ tx'[b].cols = tx[b].cols
       /\ tx[b].ahead \ {a} \subseteq tx'[b].ahead /\ tx'[b].ahead \subseteq tx[b].ahead
  /\ tx'[a].kind = tx[a].kind /\ tx'[a].copy = tx[a].copy /\ tx'[a].ahead = tx[a].ahead
  /\ "saga" \in late => "saga" \in late'

\* Where no database call fails, a write lands or the row's ending refuses it.
LEMMA WriteSteady ==
  ASSUME CInv, Steady', Healthy, NEW a \in Thread, Write(a)
  PROVE  /\ WriteFrame(a)
         /\ \/ /\ tx[a].phase = "begun" /\ tx[a].ahead = {} /\ tx'[a].phase = "sent"
               /\ tx'[a].cols = heap[ref[a]] /\ UNCHANGED <<row, cache>>
               /\ \A b \in Thread : tx'[b].ahead = tx[b].ahead
            \/ /\ tx[a].phase = "sent" /\ row.status \notin Terminal /\ tx'[a].phase = "ok"
               /\ tx'[a].cols = tx[a].cols
               /\ row' = tx[a].cols /\ cache' \in {cache, tx[a].copy}
            \/ /\ tx[a].phase = "sent" /\ row.status \in Terminal /\ tx'[a].phase = "refused"
               /\ tx'[a].cols = tx[a].cols /\ UNCHANGED <<row, cache>>
<1>0. tx \in [Thread -> Tx] /\ spent \in [Fault -> Nat] /\ "db" \in Fault
  BY DEF CInv, IInv, ThreadsOK, ControlOK, WorldOK, Fault
<1>1. ~Spend("db")
  <2>1. Spend("db") => spent'["db"] = spent["db"] + 1 /\ spent["db"] \in Nat
    BY <1>0 DEF Spend
  <2>. QED  BY <2>1 DEF Steady
<1>2. ASSUME NEW p, tx' = Done(a, p)
      PROVE  /\ \A b \in Thread \ {a} :
                   /\ tx'[b].phase = tx[b].phase /\ tx'[b].kind = tx[b].kind
                   /\ tx'[b].copy = tx[b].copy /\ tx'[b].cols = tx[b].cols
                   /\ tx'[b].ahead = tx[b].ahead \ {a}
             /\ tx'[a].kind = tx[a].kind /\ tx'[a].copy = tx[a].copy /\ tx'[a].cols = tx[a].cols
             /\ tx'[a].ahead = tx[a].ahead
             /\ tx'[a].phase = p
  BY <1>0, <1>2 DEF Done, Tx
<1>3. CASE Capture(a)
  <2>1. tx' = [tx EXCEPT ![a] = [tx[a] EXCEPT !.phase = "sent", !.cols = heap[ref[a]]]]
    BY <1>0, <1>3 DEF Capture
  <2>2. /\ \A b \in Thread \ {a} : tx'[b] = tx[b]
        /\ tx'[a].kind = tx[a].kind /\ tx'[a].copy = tx[a].copy /\ tx'[a].ahead = tx[a].ahead
        /\ tx'[a].phase = "sent" /\ tx'[a].cols = heap[ref[a]]
    BY <1>0, <2>1 DEF Tx
  <2>. QED  BY <1>3, <2>2 DEF Capture, WriteFrame, durable, world
<1>4. CASE Commit(a)
  <2>1. /\ tx' = Done(a, "ok") /\ row' = tx[a].cols /\ tx[a].phase = "sent"
        /\ Admits(tx[a].kind, row.status) /\ cache' \in {cache, tx[a].copy}
        /\ UNCHANGED <<heap, tracked, ref, parked, pc, claim, queue, up, eff>>
        /\ late' = late \ {"liveness"}
        /\ row.status = "FAILED" /\ a = "adv" => recorded'.reopened
    BY <1>1, <1>4 DEF Commit
  <2>2. tx[a].kind = "reopen" => a = "adv"
    BY DEF Healthy
  <2>3. row.status # "FAILED" \/ a # "adv"
    BY <2>1 DEF Steady
  <2>4. row.status \notin Terminal
    BY <2>1, <2>2, <2>3 DEF Admits
  <2>. QED  BY <1>2, <2>1, <2>4 DEF WriteFrame
<1>5. CASE Refuse(a)
  <2>1. /\ tx' = Done(a, "refused") /\ tx[a].phase = "sent"
        /\ ~Admits(tx[a].kind, row.status)
        /\ UNCHANGED <<row, cache, late, heap, tracked, ref, parked, pc, claim, queue, up, eff>>
    BY <1>5 DEF Refuse, durable, world
  <2>. QED  BY <1>2, <2>1 DEF WriteFrame, Admits
<1>6. CASE DbError(a)
  BY <1>1, <1>6 DEF DbError
<1>. QED  BY <1>3, <1>4, <1>5, <1>6 DEF Write

\* The transaction reads the columns of the object as it is: what the row would
\* read stays what it was.
LEMMA CaptureDir ==
  ASSUME CInv, Dir, NEW a \in Thread, WriteFrame(a), tx[a].phase = "begun", tx[a].ahead = {},
         tx'[a].phase = "sent", tx'[a].cols = heap[ref[a]], UNCHANGED <<row, cache>>,
         \A b \in Thread : tx'[b].ahead = tx[b].ahead
  PROVE  Dir'
<1>0. Basics
  BY BasicsHold
<1>1. /\ \A b \in Thread : Out(b)' <=> Out(b)
      /\ \A b \in Thread : Out(b) => Will(b)' = Will(b)
      /\ me' = me
      /\ \A b \in Thread : tx'[b].kind = tx[b].kind /\ tx'[b].copy = tx[b].copy
      /\ \A b \in Thread : tx'[b].phase = tx[b].phase \/ (b = a /\ tx[b].phase = "begun" /\ tx'[b].phase = "sent")
  <2>1. \A b \in Thread : tx'[b].phase = tx[b].phase \/ (b = a /\ tx[b].phase = "begun" /\ tx'[b].phase = "sent")
    BY DEF WriteFrame
  <2>2. ASSUME NEW b \in Thread, Out(b) PROVE Will(b)' = Will(b)
    <3>1. CASE b = a
      BY <2>2, <3>1 DEF Will
    <3>2. CASE b # a
      BY <2>2, <3>2 DEF WriteFrame, Will
    <3>. QED  BY <3>1, <3>2
  <2>3. \A b \in Thread : tx'[b].kind = tx[b].kind /\ tx'[b].copy = tx[b].copy
    BY DEF WriteFrame
  <2>4. me' = me
    BY DEF WriteFrame, me
  <2>. QED  BY <2>1, <2>2, <2>3, <2>4 DEF Out
<1>2. /\ Fwd' <=> Fwd
      /\ WalkDue' <=> WalkDue
      /\ Reverted' <=> Reverted
      /\ PivotOut' <=> PivotOut
      /\ Pass' <=> Pass
      /\ AdvEnds' <=> AdvEnds
      /\ ChkEnds => ChkEnds'
  BY <1>0, <1>1 DEF WriteFrame, Fwd, WalkDue, Reverted, PivotOut, Pass, AdvEnds, ChkEnds, Basics
<1>3. /\ Abreast(row)' <=> Abreast(row)
      /\ Abreast(heap[me])' <=> Abreast(heap[me])
      /\ Abreast(heap[tracked])' <=> Abreast(heap[tracked])
      /\ Out("boot") => (Abreast(Will("boot"))' <=> Abreast(Will("boot")))
  BY <1>0, <1>1, <1>2 DEF WriteFrame, Abreast, Basics
<1>4. Doomed => Doomed'
  BY <1>0, <1>1, <1>2 DEF WriteFrame, Doomed, ChkEnds, Basics
<1>10. Healthy'
  BY <1>0, <1>1 DEF Dir, Healthy, WriteFrame
<1>11. Unborn' /\ Starting'
  BY <1>0, <1>1 DEF Dir, Unborn, Starting, WriteFrame, Basics
<1>12. TurnedBack' /\ Turning'
  BY <1>0, <1>1, <1>2 DEF Dir, TurnedBack, Turning, WriteFrame, Basics
<1>13. PassAbreast' /\ ReadAbreast' /\ TrackedAbreast' /\ RowAbreast' /\ OneCopy'
  BY <1>0, <1>1, <1>2, <1>3, <1>4
     DEF Dir, PassAbreast, ReadAbreast, TrackedAbreast, RowAbreast, OneCopy, WriteFrame, Basics
<1>14. Settling' /\ InMemory'
  BY <1>0, <1>1, <1>2 DEF Dir, Settling, InMemory, WriteFrame, Basics
<1>15. ForwardWrites' /\ BackWrites' /\ EndWrites'
  <2>1. ForwardWrites'
    BY <1>0, <1>1, <1>2 DEF Dir, ForwardWrites, Basics
  <2>2. BackWrites' /\ EndWrites'
    BY <1>0, <1>1, <1>2 DEF Dir, BackWrites, EndWrites, AdvEnds, WriteFrame, Basics
  <2>. QED  BY <2>1, <2>2
<1>16. Rewarming'
  BY <1>0, <1>1, <1>2, <1>3 DEF Dir, Rewarming, WriteFrame, Basics
<1>. QED  BY <1>10, <1>11, <1>12, <1>13, <1>14, <1>15, <1>16 DEF Dir

\* A row that has ended admits nothing, and tells the writer.
LEMMA RefuseDir ==
  ASSUME CInv, Dir, NEW a \in Thread, WriteFrame(a), row.status \in Terminal,
         tx[a].phase = "sent", tx'[a].phase = "refused", UNCHANGED <<row, cache>>
  PROVE  Dir'
<1>0. Basics
  BY BasicsHold
<1>1. /\ me' = me /\ row.status \notin {"NONE", "PENDING", "RUNNING", "COMPENSATING"} /\ row.status \in Back \cup {"COMPLETED"}
      /\ \A b \in Thread : tx'[b].kind = tx[b].kind
      /\ \A b \in Thread : tx'[b].phase = "ok" => tx[b].phase = "ok"
      /\ Out("boot")' => Out("boot")
  BY <1>0 DEF WriteFrame, Out, me, Terminal, Back, Basics
<1>2. /\ ~Fwd /\ ~Fwd'
      /\ WalkDue' <=> WalkDue
      /\ Reverted' <=> Reverted
      /\ PivotOut' <=> PivotOut
      /\ Pass' <=> Pass
      /\ Doomed'
      /\ Abreast(heap[me])' <=> Abreast(heap[me])
  BY <1>0, <1>1 DEF WriteFrame, Fwd, Onward, WalkDue, Reverted, PivotOut, Pass, Doomed, Abreast, Basics
<1>10. Healthy' /\ Unborn' /\ Starting'
  BY <1>0, <1>1 DEF Dir, Healthy, Unborn, Starting, WriteFrame, Basics
<1>12. TurnedBack' /\ Turning'
  BY <1>0, <1>1, <1>2 DEF Dir, TurnedBack, Turning, WriteFrame, Basics
<1>13. PassAbreast' /\ ReadAbreast' /\ TrackedAbreast' /\ RowAbreast' /\ OneCopy'
  BY <1>0, <1>1, <1>2
     DEF Dir, PassAbreast, ReadAbreast, TrackedAbreast, RowAbreast, OneCopy, WriteFrame, Basics
<1>14. Settling' /\ InMemory'
  BY <1>0, <1>1, <1>2 DEF Dir, Settling, InMemory, WriteFrame, Basics
<1>15. ForwardWrites' /\ BackWrites' /\ EndWrites' /\ Rewarming'
  BY <1>0, <1>1, <1>2 DEF Dir, ForwardWrites, BackWrites, EndWrites, Rewarming, WriteFrame, Basics
<1>. QED  BY <1>10, <1>12, <1>13, <1>14, <1>15 DEF Dir

\* startSaga's row lands: there is nothing else yet.
LEMMA BirthDir ==
  ASSUME CInv, Dir, NEW a \in Thread, WriteFrame(a), row.status = "NONE",
         tx[a].phase = "sent", tx'[a].phase = "ok", tx'[a].cols = tx[a].cols,
         row' = tx[a].cols, cache' \in {cache, tx[a].copy}
  PROVE  Dir'
<1>0. Basics
  BY BasicsHold
<1>1. /\ a = "op" /\ tx["op"].kind = "start" /\ row' = StartCopy
      /\ tracked = NoObj /\ queue = {} /\ \A b \in Thread \ {"op"} : pc[b] = "idle" /\ tx[b] = NoTx
      /\ \A i \in Step : eff[i] = "absent"
      /\ heap[ref["op"]] = StartCopy /\ tx["op"].copy = StartCopy
      /\ cache.status = "NONE" /\ claim = NoClaim
  <2>1. /\ a = "op" /\ tracked = NoObj /\ queue = {} /\ \A b \in Thread \ {"op"} : pc[b] = "idle"
        /\ \A i \in Step : eff[i] = "absent"
        /\ cache.status = "NONE"
    BY <1>0 DEF Dir, Unborn, Basics
  <2>2. tx["op"].kind = "start"
    BY <1>0, <2>1 DEF Dir, Healthy, Basics, KindsOf
  <2>3. claim = NoClaim
    BY <2>1 DEF CInv, Order, Claims, Thread
  <2>4. \A b \in Thread \ {"op"} : tx[b] = NoTx
    BY <1>0, <2>1 DEF Basics
  <2>5. heap[ref["op"]] = StartCopy /\ tx["op"].copy = StartCopy /\ tx["op"].cols = StartCopy
    BY <2>1, <2>2 DEF Dir, Starting, Out, Will
  <2>. QED  BY <2>1, <2>2, <2>3, <2>4, <2>5
<1>2. /\ StartCopy.status = "PENDING" /\ ~StartCopy.armed
      /\ NoTx.phase = "none" /\ NoTx.kind = "none"
      /\ NoClaim.dir = "none" /\ ~NoClaim.pendingWalk
  BY NoTxFields DEF StartCopy, Blank, NoClaim
<1>3. /\ me' = me /\ tx'["op"].kind = "start" /\ tx'["op"].copy = StartCopy
      /\ \A b \in Thread \ {"op"} : tx'[b].phase = "none" /\ tx'[b].kind = "none" /\ pc'[b] = "idle"
      /\ cache'.status \in {"NONE", "PENDING"} /\ Pivot \in Step
  BY <1>1, <1>2, StepsAssumption DEF WriteFrame, me
<1>4. /\ ~PivotOut' /\ ~WalkDue' /\ ~Reverted' /\ ~Pass' /\ Fwd'
      /\ \A b \in Thread : ~Out(b)'
  BY <1>0, <1>1, <1>2, <1>3
     DEF WriteFrame, PivotOut, WalkDue, Reverted, Pass, PassKinds, Fwd, Onward, Out, Basics
<1>5. Abreast(row)' /\ Abreast(heap[me])' /\ Abreast(heap[tracked])'
  BY <1>4 DEF Abreast
<1>10. Healthy' /\ Unborn' /\ Starting'
  BY <1>0, <1>1, <1>2, <1>3, <1>4 DEF Dir, Healthy, Unborn, Starting, WriteFrame, Basics
<1>12. TurnedBack' /\ Turning' /\ PassAbreast' /\ ReadAbreast' /\ TrackedAbreast' /\ RowAbreast' /\ OneCopy'
  BY <1>0, <1>1, <1>2, <1>3, <1>4, <1>5
     DEF TurnedBack, Turning, PassAbreast, ReadAbreast, TrackedAbreast, RowAbreast, OneCopy, WriteFrame, Basics
<1>14. Settling' /\ InMemory'
  BY <1>0, <1>1, <1>2, <1>3, <1>4 DEF Settling, InMemory, WriteFrame, Basics, EndKinds, WalkKinds
<1>15. ForwardWrites' /\ BackWrites' /\ EndWrites' /\ Rewarming'
  BY <1>0, <1>3, <1>4 DEF ForwardWrites, BackWrites, EndWrites, Rewarming, AdvEnds, Basics
<1>. QED  BY <1>10, <1>12, <1>14, <1>15 DEF Dir

\* A write lands on a row that is under way.
LEMMA CommitDir ==
  ASSUME CInv, Dir, NEW a \in Thread, WriteFrame(a), row.status \notin Terminal \cup {"NONE"},
         tx[a].phase = "sent", tx'[a].phase = "ok", tx'[a].cols = tx[a].cols,
         row' = tx[a].cols, cache' \in {cache, tx[a].copy}
  PROVE  Dir'
<1>0. Basics
  BY BasicsHold
<1>1. /\ a \in {"adv", "chk", "boot"} /\ tx["op"].kind # "start" /\ Out(a) /\ Will(a) = row'
      /\ row.status \in {"PENDING", "RUNNING", "COMPENSATING"}
      /\ a = "boot" => tx["adv"].phase # "sent" /\ tx["chk"].phase # "sent"
      /\ Out("boot") => a = "boot"
  <2>1. Out(a) /\ Will(a) = row'
    BY DEF Out, Will
  <2>2. row.status \in {"PENDING", "RUNNING", "COMPENSATING"}
    BY DEF CInv, IInv, DurableOK, Copy, Status
  <2>3. a # "stop"
    BY <1>0 DEF Dir, Healthy, Basics
  <2>4. tx["op"].kind # "start"
    BY <1>0, <2>1 DEF Dir, Starting, Basics, Out
  <2>5. a # "op"
    BY <1>0, <2>4 DEF Dir, Healthy, Basics, KindsOf
  <2>6. Out("boot") => a = "boot"
    BY <1>0, <2>1, <2>5, <2>3 DEF Dir, Rewarming, Basics
  <2>7. a = "boot" => tx["adv"].phase # "sent" /\ tx["chk"].phase # "sent"
    BY <2>1 DEF Dir, Rewarming
  <2>. QED  BY <1>0, <2>1, <2>2, <2>3, <2>4, <2>5, <2>6, <2>7 DEF Basics
<1>2. /\ me' = me
      /\ \A b \in Thread : tx'[b].kind = tx[b].kind /\ tx'[b].copy = tx[b].copy
      /\ \A b \in Thread \ {a} : tx'[b].phase = tx[b].phase
      /\ \A b \in Thread : Out(b)' <=> Out(b) /\ b # a
      /\ \A b \in Thread \ {a} : Out(b) => Will(b)' = Will(b)
      /\ WalkDue' <=> WalkDue
      /\ Reverted' <=> Reverted
      /\ PivotOut' <=> PivotOut
      /\ Pass' <=> Pass
  BY <1>0 DEF WriteFrame, Out, Will, me, WalkDue, Reverted, PivotOut, Pass, Basics
<1>3. Fwd' => Fwd /\ a \in {"adv", "boot"}
  BY <1>0, <1>1 DEF Dir, BackWrites, EndWrites, Fwd, Onward, Back, Terminal
<1>4. row.status = "COMPENSATING" => row'.status \in Back
  BY <1>1 DEF Dir, BackWrites
<1>5. row'.status = "COMPENSATING" /\ Fwd =>
        a \in {"adv", "chk"} /\ tx["adv"].kind \in {"begin", "reopen"} /\ Out("adv")
  BY <1>1 DEF Dir, ForwardWrites
<1>6. row'.status # "NONE"
  BY <1>1, <1>4 DEF Dir, ForwardWrites, Fwd, Onward, Back
<1>7. a \in {"adv", "chk"} /\ tx[a].kind \in EndKinds \cup {"begin", "reopen"} => row'.status \notin Onward
  BY <1>1 DEF Dir, EndWrites, AdvEnds, Onward, EndKinds
<1>8. WalkDue \/ Reverted => row.status = "COMPENSATING" /\ row'.status \in Back
  BY <1>1, <1>4 DEF Dir, TurnedBack, Back
<1>9. pc["adv"] \in {"wundo", "wrecord"} \/ tx["adv"].kind \in WalkKinds => WalkDue
  BY DEF CInv, Order, Claims, WalkLabels, WalkDue
<1>10. Healthy'
  BY <1>0, <1>2 DEF Dir, Healthy, WriteFrame, Basics
<1>11. Unborn' /\ Starting'
  BY <1>0, <1>1, <1>2, <1>6 DEF Unborn, Starting, Basics
<1>12. TurnedBack'
  BY <1>2, <1>8 DEF Dir, TurnedBack
<1>13. Turning'
  <2>1. tx["adv"].kind \in {"begin", "reopen"} /\ tx'["adv"].phase = "ok" => row'.status \in Back
    BY <1>0, <1>1, <1>2, <1>4 DEF Dir, Turning, EndWrites, Back, Basics
  <2>. QED  BY <1>0, <1>1, <1>2, <1>5, <2>1 DEF Dir, Turning, Fwd, Onward, Basics
<1>14. a = "adv" => ~Doomed
  BY <1>1 DEF Doomed
<1>15. ChkEnds /\ a # "chk" => ChkEnds'
  BY <1>0, <1>2 DEF ChkEnds, WriteFrame, Basics
<1>16. Doomed /\ a # "adv" => Doomed'
  <2>1. CASE a = "chk"
    BY <1>1, <2>1 DEF Doomed, ChkEnds, Terminal
  <2>2. CASE a = "boot"
    BY <1>0, <1>1, <1>2, <1>15, <2>2 DEF Doomed, WriteFrame, Basics
  <2>. QED  BY <1>1, <2>1, <2>2
<1>17. Abreast(heap[me])' <=> Abreast(heap[me])
  BY <1>2 DEF Abreast, WriteFrame
<1>18. PassAbreast'
  BY <1>0, <1>2, <1>14, <1>16, <1>17 DEF Dir, PassAbreast, Basics
<1>19. ReadAbreast'
  BY <1>2, <1>3, <1>15, <1>17 DEF Dir, ReadAbreast, WriteFrame
<1>20. TrackedAbreast'
  <2>1. Abreast(heap[tracked])' <=> Abreast(heap[tracked])
    BY <1>2 DEF Abreast, WriteFrame
  <2>2. Fwd' /\ AdvEnds => AdvEnds'
    BY <1>0, <1>1, <1>2, <1>3, <1>7 DEF AdvEnds, Fwd, Basics
  <2>. QED  BY <1>0, <1>2, <1>3, <1>15, <2>1, <2>2 DEF Dir, TrackedAbreast, WriteFrame, Basics
<1>21. RowAbreast'
  <2>. SUFFICES ASSUME Fwd' PROVE RowAbreast'
    BY DEF RowAbreast
  <2>1. CASE a = "adv"
    <3>1. tx["adv"].kind \in PassKinds
      BY <1>0, <1>1, <1>3, <1>7, <1>8, <1>9, <2>1 DEF Basics, KindsOf, EndKinds, Fwd, Onward, Back
    <3>2. Abreast(heap[me])
      BY <1>14, <2>1, <3>1 DEF Dir, PassAbreast, Pass
    <3>3. row'.cur = heap[me].cur
      BY <2>1 DEF CInv, Order, SameStepSent
    <3>4. Abreast(row)'
      BY <1>2, <3>2, <3>3 DEF Abreast
    <3>5. cache'.status \in {"NONE", "PENDING", "RUNNING"}
      BY <1>0, <1>1, <1>3 DEF Dir, RowAbreast, ForwardWrites, Fwd, Onward
    <3>. QED  BY <1>2, <3>3, <3>4, <3>5 DEF RowAbreast, WriteFrame
  <2>2. CASE a = "boot"
    <3>1. Abreast(row)'
      BY <1>1, <1>2, <2>2 DEF Dir, Rewarming, Abreast
    <3>2. cache'.status \in {"NONE", "PENDING", "RUNNING"}
      BY <1>0, <1>1, <1>3 DEF Dir, RowAbreast, ForwardWrites, Fwd, Onward
    <3>3. pc'["adv"] # "run" /\ tx'["adv"].phase # "ok"
      BY <1>0, <1>1, <1>2, <2>2 DEF Dir, Rewarming, WriteFrame, Basics
    <3>. QED  BY <3>1, <3>2, <3>3 DEF RowAbreast
  <2>. QED  BY <1>3, <2>1, <2>2
<1>22. OneCopy'
  BY <1>0, <1>2, <1>3 DEF Dir, OneCopy, WriteFrame, Basics
<1>23. Settling'
  <2>1. \A b \in Thread : tx'[b].phase # "refused"
    BY <1>1, <1>2 DEF Dir, Settling
  <2>2. \A b \in Thread : tx'[b].phase = "ok" /\ tx'[b].kind \in EndKinds \cup {"begin", "reopen"}
          => row'.status \notin {"NONE", "PENDING", "RUNNING"}
    <3>1. KindsOf("boot") \cap (EndKinds \cup {"begin", "reopen"}) = {}
      BY DEF KindsOf, EndKinds
    <3>. QED  BY <1>0, <1>1, <1>2, <1>4, <1>6, <1>7, <3>1 DEF Dir, Settling, Onward, Back, Basics
  <2>3. pc["chk"] = "liveness" /\ Fwd' => tx["adv"].kind \in {"begin", "reopen"} /\ Out("adv")'
    BY <1>0, <1>1, <1>2, <1>3, <1>7 DEF Dir, Settling, Rewarming, Fwd, Basics
  <2>. QED  BY <1>0, <1>2, <1>3, <2>1, <2>2, <2>3 DEF Dir, Settling, WriteFrame, Basics
<1>24. InMemory'
  <2>1. Fwd' /\ (tx["adv"].kind \in EndKinds \cup {"begin", "reopen"} /\ Out("adv")) => Out("adv")'
    BY <1>0, <1>1, <1>2, <1>3, <1>7 DEF Fwd, Basics
  <2>2. Fwd' /\ AdvEnds => AdvEnds'
    BY <1>0, <1>2, <2>1 DEF AdvEnds, Basics
  <2>. QED  BY <1>0, <1>1, <1>2, <1>3, <1>8, <1>9, <2>1, <2>2 DEF Dir, InMemory, WriteFrame, EndKinds, Basics
<1>25. ForwardWrites'
  <2>1. Fwd' /\ tx["adv"].kind \in {"begin", "reopen", "complete"} /\ Out("adv") => Out("adv")'
    BY <1>0, <1>1, <1>2, <1>3, <1>7 DEF Fwd, EndKinds, Basics
  <2>. QED  BY <1>0, <1>2, <1>3, <2>1 DEF Dir, ForwardWrites, Basics
<1>26. BackWrites'
  <2>. SUFFICES ASSUME row'.status = "COMPENSATING", Fwd, NEW b \in Thread, Out(b)'
       PROVE  b \in {"adv", "chk"} /\ Will(b)'.status \in Back
    BY <1>1, <1>2 DEF Dir, BackWrites, Fwd, Onward
  <2>1. Out(b) /\ b # a /\ Will(b)' = Will(b) /\ tx["adv"].kind \in {"begin", "reopen"} /\ Out("adv") /\ a \in {"adv", "chk"}
    BY <1>2, <1>5
  <2>2. b \in {"adv", "chk"}
    BY <1>0, <1>1, <2>1 DEF Dir, Healthy, Basics, Out, KindsOf
  <2>3. CASE b = "adv"
    BY <2>1, <2>3 DEF Dir, EndWrites, Back
  <2>4. CASE b = "chk"
    BY <1>0, <2>1, <2>4 DEF Dir, EndWrites, ForwardWrites, Back
  <2>. QED  BY <2>1, <2>2, <2>3, <2>4
<1>27. EndWrites'
  BY <1>0, <1>2 DEF Dir, EndWrites, AdvEnds, Basics
<1>28. Rewarming'
  BY <1>0, <1>1, <1>2 DEF Rewarming, Basics
<1>. QED  BY <1>10, <1>11, <1>12, <1>13, <1>18, <1>19, <1>20, <1>21, <1>22, <1>23, <1>24, <1>25,
             <1>26, <1>27, <1>28 DEF Dir

LEMMA WriteDir == ASSUME CInv, Dir, Steady', NEW a \in Thread, Write(a) PROVE Dir'
  BY WriteSteady, CaptureDir, RefuseDir, BirthDir, CommitDir DEF Dir

-----------------------------------------------------------------------------
(* The advancer's turn ends. *)

\* Memory is as it was, unless a refused write is put back; a walk is due only if
\* one was, or the saga has just turned back.
AdvRests(t) ==
  /\ ref'["adv"] = NoObj /\ tx'["adv"] = NoTx /\ pc'["adv"] \in {"idle", "load"}
  /\ \A b \in Thread \ {"adv"} : ref'[b] = ref[b] /\ tx'[b] = tx[b] /\ pc'[b] = pc[b]
  /\ tracked' = t /\ t \in {tracked, NoObj}
  /\ parked' = parked \/ parked' = FALSE
  /\ row.status \notin Terminal =>
       /\ \A b \in Thread \ {"adv"} : ref[b] \in Objs => heap'[ref[b]] = heap[ref[b]]
       /\ t \in Objs => heap'[t] = heap[t]
  /\ \A b \in Thread \ {"adv"} : ref[b] \in Objs /\ ref[b] # me => heap'[ref[b]] = heap[ref[b]]
  /\ WalkDue' => WalkDue \/ (row.status \in Back /\ ~PivotOut)
  /\ "walk" \in queue' \/ claim'.pendingWalk => "walk" \in queue \/ claim.pendingWalk \/ Pass

LEMMA EndPassRests ==
  ASSUME CInv, NEW again, NEW h, NEW t \in {tracked, NoObj}, NEW q \in {queue, queue \cup {"walk"}},
         EndPass(again, h, t, q), parked' = parked \/ parked' = FALSE,
         row.status \in Terminal \/ h = heap, \A y \in Objs \ {me} : h[y] = heap[y],
         q = queue \/ (row.status \in Back /\ ~PivotOut /\ Pass)
  PROVE  AdvRests(t)
<1>0. ControlOK /\ Basics
  BY BasicsHold DEF CInv, IInv, ThreadsOK
<1>1. /\ Freed("adv", h, t)
      /\ \/ /\ again /\ claim.rerun /\ pc'["adv"] = "load" /\ queue' = q
            /\ claim' = [claim EXCEPT !.rerun = FALSE]
         \/ /\ pc'["adv"] = "idle" /\ claim' = NoClaim
            /\ queue' = q \cup (IF claim.pendingWalk THEN {"walk"} ELSE {})
  BY <1>0, EndPassEffect
<1>2. /\ WalkDue' => WalkDue \/ (row.status \in Back /\ ~PivotOut)
      /\ "walk" \in queue' \/ claim'.pendingWalk => "walk" \in queue \/ claim.pendingWalk \/ Pass
  <2>1. CASE /\ queue' = q /\ claim' = [claim EXCEPT !.rerun = FALSE]
    <3>1. claim'.dir = claim.dir
      BY <1>0, <2>1 DEF ControlOK
    <3>2. claim'.pendingWalk <=> claim.pendingWalk
      BY <1>0, <2>1 DEF ControlOK
    <3>. QED  BY <2>1, <3>1, <3>2 DEF WalkDue
  <2>2. CASE /\ claim' = NoClaim /\ queue' = q \cup (IF claim.pendingWalk THEN {"walk"} ELSE {})
    BY <2>2 DEF WalkDue, NoClaim
  <2>. QED  BY <1>1, <2>1, <2>2
<1>. QED  BY <1>1, <1>2 DEF AdvRests, Freed

LEMMA LeaveRests ==
  ASSUME CInv, NEW h, NEW t \in {tracked, NoObj}, Leave("adv", h, t),
         parked' = parked \/ parked' = FALSE, row.status \in Terminal \/ h = heap,
         \A y \in Objs \ {me} : h[y] = heap[y]
  PROVE  AdvRests(t)
  BY EndPassRests DEF Leave

LEMMA RestsDir ==
  ASSUME CInv, Dir, NEW t, AdvRests(t), ~Out("adv"), pc["adv"] # "idle",
         UNCHANGED <<row, up, late, eff>>, cache' = cache \/ (Fwd => cache'.status \in {"NONE", "PENDING", "RUNNING"}),
         Fwd /\ t # tracked => ChkEnds'
  PROVE  Dir'
<1>0. Basics
  BY BasicsHold
<1>1. /\ me' = NoObj /\ tx'["adv"].phase = "none" /\ tx'["adv"].kind = "none"
      /\ \A a \in Thread : Out(a)' <=> Out(a)
      /\ ~Out("adv")' /\ ~Pass'
      /\ row.status \notin Terminal => \A a \in Thread : Out(a) => Will(a)' = Will(a)
  BY <1>0, NoTxFields DEF AdvRests, Out, Will, me, Pass, PassKinds, Basics
<1>2. /\ Fwd' <=> Fwd
      /\ Reverted' <=> Reverted
      /\ PivotOut' <=> PivotOut
      /\ ~AdvEnds /\ ~AdvEnds'
  BY <1>1 DEF Fwd, Reverted, PivotOut, AdvEnds
<1>3. Fwd /\ ChkEnds => ChkEnds'
  <2>. SUFFICES ASSUME Fwd, ChkEnds PROVE ChkEnds'
    OBVIOUS
  <2>1. Out("chk")' /\ Will("chk")'.status = "FAILED" /\ tx'["chk"] = tx["chk"] /\ ref'["chk"] = ref["chk"]
        /\ ref["chk"] \in Objs
    BY <1>0, <1>1 DEF ChkEnds, AdvRests, Basics, Fwd, Onward, Terminal
  <2>2. ~parked'
    BY DEF ChkEnds, AdvRests
  <2>. QED  BY <1>0, <1>1, <2>1, <2>2 DEF ChkEnds, Basics
<1>10. Healthy' /\ Unborn' /\ Starting'
  BY <1>0, <1>1 DEF Dir, Healthy, Unborn, Starting, AdvRests, Basics
<1>11. TurnedBack' /\ Turning'
  BY <1>1, <1>2 DEF Dir, TurnedBack, Turning, AdvRests
<1>12. PassAbreast' /\ ReadAbreast' /\ OneCopy'
  BY <1>1 DEF PassAbreast, ReadAbreast, OneCopy, AdvRests
<1>13. RowAbreast'
  BY <1>1, <1>2 DEF Dir, RowAbreast, AdvRests, Abreast
<1>14. TrackedAbreast'
  BY <1>0, <1>1, <1>2, <1>3 DEF Dir, TrackedAbreast, Starting, AdvRests, Abreast, Basics, Fwd, Onward, Terminal
<1>15. Settling'
  BY <1>0, <1>1, <1>2 DEF Dir, Settling, AdvRests, Basics
<1>16. InMemory'
  BY <1>0, <1>1, <1>2 DEF Dir, InMemory, AdvRests, Basics, Fwd, Onward, Terminal, WalkKinds
<1>17. ForwardWrites'
  BY <1>0, <1>1, <1>2 DEF Dir, ForwardWrites, AdvRests, Basics, Fwd, Onward, Terminal
<1>18. BackWrites' /\ EndWrites'
  BY <1>0, <1>1, <1>2 DEF Dir, BackWrites, EndWrites, Basics, Terminal
<1>19. Rewarming'
  BY <1>0, <1>1, <1>2 DEF Dir, Rewarming, AdvRests, Abreast, Basics, Fwd, Onward, Terminal
<1>. QED  BY <1>10, <1>11, <1>12, <1>13, <1>14, <1>15, <1>16, <1>17, <1>18, <1>19 DEF Dir

-----------------------------------------------------------------------------
(* The walk goes on. *)

\* Under a row that has turned back, whoever shares the copy sees its status stay.
WalkOn ==
  /\ pc'["adv"] \in WalkLabels /\ tx'["adv"] = NoTx
  /\ \A b \in Thread \ {"adv"} : ref'[b] = ref[b] /\ tx'[b] = tx[b] /\ pc'[b] = pc[b]
  /\ \A b \in Thread \ {"adv"} : ref[b] \in Objs => heap'[ref[b]].status = heap[ref[b]].status
  /\ PivotOut' => PivotOut
  /\ pc'["adv"] \in {"wundo", "wrecord"} /\ row.status = "COMPENSATING" => heap'[me'].status \in Back

LEMMA WalkOnDir ==
  ASSUME CInv, Dir, WalkOn, WalkDue, ~Out("adv"), tx["op"].kind # "start", UNCHANGED <<row, up, late>>
  PROVE  Dir'
<1>0. Basics
  BY BasicsHold
<1>1. row.status \in Back /\ ~PivotOut /\ ~PivotOut' /\ ~Fwd /\ ~Fwd' /\ row.status # "NONE"
  BY DEF Dir, TurnedBack, WalkOn, Fwd, Onward, Back
<1>2. /\ tx'["adv"].phase = "none" /\ tx'["adv"].kind = "none"
      /\ \A a \in Thread : Out(a)' <=> Out(a)
      /\ ~Out("adv")' /\ ~Pass' /\ ~AdvEnds'
      /\ \A a \in Thread \ {"adv"} : Out(a) => Will(a)'.status = Will(a).status
  BY <1>0, NoTxFields DEF WalkOn, Out, Will, Pass, PassKinds, WalkLabels, AdvEnds, Basics
<1>10. Healthy' /\ Unborn' /\ Starting'
  BY <1>0, <1>1, <1>2 DEF Dir, Healthy, Unborn, Starting, WalkOn, WalkLabels, Basics
<1>11. TurnedBack' /\ Turning'
  BY <1>1, <1>2 DEF TurnedBack, Turning
<1>12. PassAbreast' /\ ReadAbreast' /\ OneCopy' /\ RowAbreast' /\ TrackedAbreast'
  BY <1>1, <1>2 DEF PassAbreast, ReadAbreast, OneCopy, RowAbreast, TrackedAbreast
<1>15. Settling' /\ InMemory'
  BY <1>0, <1>1, <1>2 DEF Dir, Settling, InMemory, WalkOn, Basics, WalkKinds, EndKinds
<1>17. ForwardWrites' /\ BackWrites' /\ EndWrites'
  BY <1>0, <1>1, <1>2 DEF Dir, ForwardWrites, BackWrites, EndWrites, Basics
<1>19. Rewarming'
  BY <1>0, <1>1, <1>2 DEF Dir, Rewarming, Basics
<1>. QED  BY <1>10, <1>11, <1>12, <1>15, <1>17, <1>19 DEF Dir

-----------------------------------------------------------------------------
(* The forward pass. *)

\* Where nothing fails and nobody acts, no such fault is spent.
LEMMA SteadySpends ==
  ASSUME CInv, Steady'
  PROVE  ~Spend("db") /\ ~Spend("op") /\ ~Spend("drain")
<1>1. \A f \in {"db", "op", "drain"} : f \in Fault /\ spent[f] \in Nat /\ spent \in [Fault -> Nat]
  BY DEF CInv, IInv, WorldOK, Fault
<1>2. ASSUME NEW f \in {"db", "op", "drain"}, Spend(f) PROVE spent'[f] # 0
  BY <1>1, <1>2 DEF Spend
<1>. QED  BY <1>2 DEF Steady

\* getSaga's answer, and whose object it is.
LEMMA LoadedWhere ==
  ASSUME CInv
  PROVE  /\ Loaded.o \in Objs /\ Rewarmed \in {row, cache}
         /\ \/ tracked \in Objs /\ Loaded.o = tracked /\ Loaded.h = heap
            \/ /\ tracked = NoObj /\ \A b \in Thread : ref[b] # Loaded.o
               /\ Loaded.h[Loaded.o] = (IF cache.status = "NONE" THEN row ELSE cache)
               /\ \A x \in Objs \ {Loaded.o} : Loaded.h[x] = heap[x]
<1>0. ControlOK /\ NoObj \notin Objs
  BY HeapAssumption DEF CInv, IInv, ThreadsOK
<1>1. Fresh \in Objs /\ \A b \in Thread : ref[b] # Fresh
  BY <1>0, FreshType DEF ControlOK
<1>2. CASE tracked # NoObj
  BY <1>0, <1>2 DEF Loaded, Rewarmed, ControlOK
<1>3. CASE tracked = NoObj
  <2>1. Loaded.o = Fresh /\ Loaded.h = [heap EXCEPT ![Fresh] = IF cache.status = "NONE" THEN row ELSE cache]
    BY <1>3 DEF Loaded
  <2>2. Rewarmed \in {row, cache}
    BY DEF Rewarmed
  <2>3. /\ Loaded.h[Fresh] = (IF cache.status = "NONE" THEN row ELSE cache)
        /\ \A x \in Objs \ {Fresh} : Loaded.h[x] = heap[x]
    BY <1>0, <1>1, <2>1 DEF ControlOK
  <2>. QED  BY <1>1, <1>3, <2>1, <2>2, <2>3
<1>. QED  BY <1>2, <1>3

\* The advancer takes hold of what getSaga found; the others keep what they hold.
Holds(l) ==
  /\ ref'["adv"] = Loaded.o /\ pc'["adv"] = l
  /\ \A b \in Thread \ {"adv"} : ref'[b] = ref[b] /\ pc'[b] = pc[b]
  /\ \A b \in Thread \ {"adv"} : ref[b] \in Objs => heap'[ref[b]] = heap[ref[b]]
  /\ tracked \in Objs => heap'[tracked] = heap[tracked]
  /\ heap'[Loaded.o] = Loaded.h[Loaded.o]
  /\ UNCHANGED <<tracked, parked, tx, claim, queue>>

LEMMA HoldsEffect ==
  ASSUME CInv, NEW l, Memory(Loaded.h, tracked, [ref EXCEPT !["adv"] = Loaded.o]),
         pc' = [pc EXCEPT !["adv"] = l], UNCHANGED <<parked, tx, claim, queue>>
  PROVE  Holds(l)
<1>0. ControlOK /\ "adv" \in Thread
  BY DEF CInv, IInv, ThreadsOK, Thread
<1>1. /\ Loaded.o \in Objs
      /\ \A x \in Objs : x = tracked \/ (\E b \in Thread \ {"adv"} : ref[b] = x) => Loaded.h[x] = heap[x]
  BY HeapAssumption, LoadedWhere
<1>2. /\ ref' = [ref EXCEPT !["adv"] = Loaded.o] /\ tracked' = tracked
      /\ ref'["adv"] = Loaded.o /\ \A b \in Thread \ {"adv"} : ref'[b] = ref[b]
      /\ pc'["adv"] = l /\ \A b \in Thread \ {"adv"} : pc'[b] = pc[b]
  BY <1>0 DEF Memory, ControlOK
<1>3. \A x \in Objs : x = tracked \/ (\E b \in Thread : ref'[b] = x) => heap'[x] = Loaded.h[x]
  BY <1>2 DEF Memory
<1>. QED  BY <1>0, <1>1, <1>2, <1>3 DEF Holds

\* The turns the advancer may take: it asks for a write, it rests, it takes hold of
\* the saga for a pass, it runs a step or goes on to one, or its walk goes on.
TurnAsks ==
  /\ me \in Objs /\ UNCHANGED <<cache, eff>>
  /\ \E k \in Asked : \E x \in Copy : AdvAsks(k, x) /\ AskOK(k, x) /\ AskRecords(k, x)
TurnRests ==
  /\ UNCHANGED eff
  /\ cache' = cache \/ (pc["adv"] = "load" /\ cache' = Rewarmed)
  /\ pc["adv"] = "wrecord" => row.status \in Terminal
  /\ \E t : /\ AdvRests(t) /\ (Fwd /\ t # tracked => ChkEnds')
            /\ row.status = "COMPENSATING" /\ t # tracked => tx["adv"].kind \in {"wdone", "timeout"}
TurnLoads ==
  /\ pc["adv"] = "load" /\ Loaded.h[Loaded.o].status \notin Terminal
  /\ Holds("status") /\ cache' = Rewarmed /\ UNCHANGED eff
GoesOn ==
  /\ tx["adv"].kind \in {"open", "advance"} /\ tx["adv"].phase = "ok" /\ pc["adv"] = "write"
  /\ pc' = [pc EXCEPT !["adv"] = "run"] /\ tx' = [tx EXCEPT !["adv"] = NoTx]
  /\ UNCHANGED <<memory, parked, claim, queue, cache, eff>>
TurnWalks ==
  /\ WalkOn /\ claim.dir = "compensation" /\ UNCHANGED <<claim, queue>>
  /\ \/ pc["adv"] = "wstatus" /\ pc'["adv"] = "wload" /\ UNCHANGED <<memory, tx>>
     \/ pc["adv"] = "wload" /\ Holds("wsync")
     \/ /\ UNCHANGED <<cache, tracked, ref>>
        /\ \A o \in Objs : o = me \/ heap'[o] = heap[o]
        /\ heap'[me].status = heap[me].status /\ heap'[me].res = heap[me].res
        /\ \/ /\ pc["adv"] = "wsync" /\ pc'["adv"] = "wundo" /\ row.status \notin Terminal
              /\ Successes(heap'[me].comp) = Successes(row.comp) \cup Successes(heap[me].comp)
           \/ /\ pc["adv"] = "wundo" /\ pc'["adv"] = "wrecord" /\ UNCHANGED <<heap, todo>>
              /\ NextUndo(heap, me) # {}
           \/ /\ tx["adv"].kind \in WalkKinds /\ tx["adv"].phase = "ok" /\ pc'["adv"] = "wundo"
              /\ UNCHANGED heap
AdvTurn ==
  /\ up /\ ~Out("adv") /\ pc["adv"] # "idle" /\ UNCHANGED <<row, up, late>>
  /\ TurnAsks \/ TurnRests \/ TurnLoads \/ GoesOn \/ Execute \/ TurnWalks

LEMMA LoadsDir == ASSUME CInv, Dir, AdvTurn, TurnLoads PROVE Dir'
<1>a. Basics /\ tx["adv"] = NoTx /\ ~Out("adv") /\ tx["adv"].kind = "none" /\ ~Pass /\ pc["adv"] = "load" /\ ref["adv"] = NoObj
  BY BasicsHold, NoTxFields DEF Basics, TurnLoads, Out, Pass, PassKinds, Holding
<1>b. Rewarmed \in {row, cache} /\ (Fwd => Rewarmed.status \in {"NONE", "PENDING", "RUNNING"})
  BY LoadedWhere DEF Dir, RowAbreast, Fwd, Onward
<1>1. Holds("status") /\ cache' = Rewarmed /\ UNCHANGED <<row, up, late, eff>>
  BY DEF TurnLoads, AdvTurn
<1>2. /\ me' = Loaded.o /\ Loaded.o \in Objs /\ tracked \in {me', NoObj}
      /\ \A a \in Thread : Out(a)' <=> Out(a)
      /\ \A a \in Thread : Out(a) => Will(a)' = Will(a) /\ ref[a] # NoObj /\ (tracked = NoObj => ref[a] # me')
  BY <1>a, <1>1, LoadedWhere DEF Holds, Out, Will, Basics
<1>3. /\ Fwd' <=> Fwd
      /\ WalkDue' <=> WalkDue
      /\ Reverted' <=> Reverted
      /\ PivotOut' <=> PivotOut
      /\ ~Pass' /\ ~AdvEnds /\ ~AdvEnds'
  BY <1>a, <1>1, <1>2 DEF Holds, Fwd, WalkDue, Reverted, PivotOut, Pass, PassKinds, AdvEnds, Basics
<1>4. Fwd => row.status # "NONE" /\ (tracked = NoObj => ChkEnds)
  BY <1>a, <1>3 DEF Dir, TrackedAbreast, Starting, AdvTurn, Fwd, Onward, Basics
<1>5. ChkEnds /\ tracked = NoObj => ChkEnds'
  BY <1>a, <1>1, <1>2 DEF ChkEnds, Holds, Basics
<1>6. Fwd => (Abreast(heap[me])' \/ ChkEnds') /\ heap'[me'].status \in {"PENDING", "RUNNING", "FAILED"}
  <2>1. CASE tracked = NoObj
    <3>1. heap'[me'] = (IF cache.status = "NONE" THEN row ELSE cache)
      BY <1>a, <1>1, <1>2, <2>1, LoadedWhere DEF Holds, Basics
    <3>. QED  BY <1>4, <1>5, <2>1, <3>1 DEF Dir, RowAbreast, Fwd, Onward
  <2>2. CASE tracked # NoObj
    <3>1. /\ me' = tracked /\ heap'[me'] = heap[tracked] /\ heap[tracked] = Loaded.h[Loaded.o]
          /\ heap[tracked].status \notin Terminal
      BY <1>a, <1>1, <1>2, <2>2, LoadedWhere DEF Holds, Basics, TurnLoads
    <3>2. Fwd => Abreast(heap[tracked])
      BY <2>2 DEF Dir, TrackedAbreast, AdvTurn
    <3>3. Fwd => heap[tracked].status \in {"PENDING", "RUNNING"}
      <4>1. heap[tracked] \in Copy
        BY <1>a, <2>2 DEF Basics, CInv, IInv, ThreadsOK, ControlOK
      <4>2. heap[tracked].status \in Status
        BY <4>1 DEF Copy
      <4>. QED  BY <1>a, <2>2, <3>1, <4>2 DEF Dir, InMemory, Status, Terminal
    <3>. QED  BY <1>3, <3>1, <3>2, <3>3 DEF Abreast
  <2>. QED  BY <2>1, <2>2
<1>10. Healthy' /\ Unborn' /\ Starting'
  BY <1>a, <1>1, <1>2 DEF Dir, Healthy, Unborn, Starting, Holds, Basics
<1>11. TurnedBack' /\ Turning' /\ PassAbreast' /\ OneCopy'
  BY <1>a, <1>1, <1>2, <1>3 DEF Dir, TurnedBack, Turning, PassAbreast, OneCopy, Holds
<1>12. ReadAbreast'
  BY <1>3, <1>6 DEF ReadAbreast
<1>13. RowAbreast'
  BY <1>a, <1>b, <1>1, <1>3 DEF Dir, RowAbreast, Holds, Abreast
<1>14. TrackedAbreast'
  BY <1>a, <1>1, <1>3, <1>4, <1>5 DEF Dir, TrackedAbreast, Holds, Abreast, Basics
<1>15. Settling' /\ InMemory'
  BY <1>a, <1>1, <1>2, <1>3 DEF Dir, Settling, InMemory, Holds, Basics, WalkKinds
<1>17. ForwardWrites'
  BY <1>a, <1>1, <1>2, <1>3 DEF Dir, ForwardWrites, Holds, Basics
<1>18. BackWrites' /\ EndWrites'
  BY <1>a, <1>1, <1>2, <1>3 DEF Dir, BackWrites, EndWrites, Holds, Basics
<1>19. Rewarming'
  BY <1>a, <1>1, <1>2, <1>3 DEF Dir, Rewarming, Holds, Abreast, Basics
<1>. QED  BY <1>10, <1>11, <1>12, <1>13, <1>14, <1>15, <1>17, <1>18, <1>19 DEF Dir

LEMMA LoadPassTurn == ASSUME CInv, Dir, Steady', LoadPass PROVE AdvTurn
<1>0. ~Spend("db") /\ ~Out("adv") /\ pc["adv"] = "load" /\ up /\ UNCHANGED <<row, up, late, eff>>
  BY BasicsHold, SteadySpends DEF Basics, LoadPass, Out, durable
<1>1. CASE Stay("adv") /\ cache' = Rewarmed
  <2>1. AdvRests(tracked)
    BY <1>1, LeaveRests DEF Stay
  <2>. QED  BY <1>0, <1>1, <2>1 DEF AdvTurn, TurnRests
<1>2. CASE /\ Loaded.h[Loaded.o].status \notin Terminal
           /\ Memory(Loaded.h, tracked, [ref EXCEPT !["adv"] = Loaded.o])
           /\ pc' = [pc EXCEPT !["adv"] = "status"] /\ cache' = Rewarmed
           /\ UNCHANGED <<parked, tx, claim, queue>>
  BY <1>0, <1>2, HoldsEffect DEF AdvTurn, TurnLoads
<1>. QED  BY <1>0, <1>1, <1>2 DEF LoadPass

LEMMA AsksTurn ==
  ASSUME me \in Objs, NEW k, NEW x, AdvAsks(k, x), AskOK(k, x), AskRecords(k, x),
         up, ~Out("adv"), pc["adv"] # "idle", UNCHANGED <<row, cache, up, late, eff>>
  PROVE  AdvTurn
<1>1. k \in Asked /\ x \in Copy
  BY DEF AskOK
<1>. QED  BY <1>1 DEF AdvTurn, TurnAsks

LEMMA RestsTurn ==
  ASSUME NEW t, AdvRests(t), up, ~Out("adv"), pc["adv"] # "idle", UNCHANGED <<row, cache, up, late, eff>>,
         Fwd /\ t # tracked => ChkEnds', pc["adv"] = "wrecord" => row.status \in Terminal,
         row.status = "COMPENSATING" /\ t # tracked => tx["adv"].kind \in {"wdone", "timeout"}
  PROVE  AdvTurn
BY DEF AdvTurn, TurnRests

\* The advancer's object with another status.
LEMMA PutFields ==
  ASSUME NEW x \in Copy, NEW s \in Status
  PROVE  Put(x, s) \in Copy /\ Put(x, s).status = s /\ Put(x, s).cur = x.cur /\ Put(x, s).comp = x.comp
         /\ Put(x, s).res = x.res
  BY DEF Put, Copy

LEMMA PutMe ==
  ASSUME CInv, me \in Objs, NEW s
  PROVE  /\ [heap EXCEPT ![me].status = s][me] = Put(heap[me], s)
         /\ \A y \in Objs \ {me} : [heap EXCEPT ![me].status = s][y] = heap[y]
  BY DEF CInv, IInv, ThreadsOK, ControlOK, Put

LEMMA AsksPut ==
  ASSUME CInv, me \in Objs, NEW k, NEW s, Request("adv", k, [heap EXCEPT ![me].status = s], me)
  PROVE  AdvAsks(k, Put(heap[me], s))
<1>. DEFINE h == [heap EXCEPT ![me].status = s]
<1>1. h[me] = Put(heap[me], s) /\ (\A y \in Objs \ {me} : h[y] = heap[y]) /\ Request("adv", k, h, me)
  BY PutMe
<1>. HIDE DEF h
<1>2. AdvAsks(k, h[me])
  BY <1>1, AsksEffect
<1>. QED  BY <1>1, <1>2

\* failSaga, entered by a pass.
LEMMA FailsTurn ==
  ASSUME CInv, Dir, me \in Objs, NEW k \in {"failstep", "timeout"}, FailSaga("adv", k, heap, me),
         up, ~Out("adv"), pc["adv"] # "idle", UNCHANGED <<row, cache, up, late, eff>>,
         k = "timeout" => pc["adv"] = "status" /\ Fwd /\ Expired,
         k = "failstep" => Pass /\ tx["adv"].kind = "exhausted" /\ tx["adv"].phase = "ok" /\ Abreast(heap[me])
  PROVE  AdvTurn
<1>0. heap[me] \in Copy /\ heap[me].cur \in Nat /\ "FAILED" \in Status
  BY BasicsHold DEF Basics, Status, Terminal
<1>1. AdvAsks(k, Put(heap[me], "FAILED"))
  BY AsksPut DEF FailSaga
<1>2. AskOK(k, Put(heap[me], "FAILED")) /\ AskRecords(k, Put(heap[me], "FAILED"))
  BY <1>0, PutFields DEF AskOK, AskRecords, Asked, PassKinds, WalkKinds, Abreast
<1>. QED  BY <1>1, <1>2, AsksTurn

LEMMA ReadStatusTurn == ASSUME CInv, Dir, Steady', ReadStatus PROVE AdvTurn
<1>0. /\ Basics /\ ~Spend("db") /\ ~Out("adv") /\ pc["adv"] = "status" /\ me \in Objs /\ tx["adv"].kind = "none"
      /\ ~Out("adv") /\ ~AdvEnds
      /\ heap[me] \in Copy /\ heap[me].cur \in Nat
      /\ up /\ UNCHANGED <<row, cache, up, late, eff>>
  <2>1. me \in Objs
    BY DEF CInv, IInv, ThreadsOK, RefOK, Holding, ReadStatus, me, Thread
  <2>2. tx["adv"] = NoTx
    BY BasicsHold DEF Basics, ReadStatus
  <2>. QED  BY <2>1, <2>2, BasicsHold, SteadySpends, NoTxFields DEF Basics, ReadStatus, Out, AdvEnds, durable
<1>1. CASE Stay("adv") /\ ~Fwd
  <2>1. AdvRests(tracked)
    BY <1>1, LeaveRests DEF Stay
  <2>. QED  BY <1>0, <1>1, <2>1, RestsTurn
<1>2. CASE StopTracking("adv") /\ row.status \in Terminal
  <2>1. AdvRests(NoObj)
    BY <1>2, LeaveRests DEF StopTracking
  <2>2. ~Fwd /\ row.status # "COMPENSATING"
    BY <1>2 DEF Fwd, Onward, Terminal
  <2>. QED  BY <1>0, <1>2, <2>1, <2>2, RestsTurn
<1>3. CASE Fwd /\ Overdue(me) /\ CheckTimeout("adv", me)
  <2>1. CASE Ended(me) /\ StopTracking("adv")
    <3>1. AdvRests(NoObj)
      BY <2>1, LeaveRests DEF StopTracking
    <3>2. heap[me].status = "FAILED"
      BY <1>0, <1>3, <2>1 DEF Dir, ReadAbreast, Ended, Terminal
    <3>3. tracked # NoObj => tracked = me /\ Out("chk")
      BY <1>0, <1>3, <3>2 DEF Dir, OneCopy, InMemory
    <3>4. tracked # NoObj => /\ Out("chk") /\ Will("chk").status = "FAILED"
                             /\ Overtakes => "saga" \in late
      BY <1>0, <1>3, <3>3 DEF Dir, EndWrites, ForwardWrites, Settling, Fwd, Onward, Terminal, Basics
    <3>5. /\ Out("chk") => Out("chk")' /\ Will("chk")' = Will("chk") /\ ref["chk"] \in Objs
          /\ me' = NoObj /\ ~parked' /\ tx'["chk"] = tx["chk"] /\ ref'["chk"] = ref["chk"]
      BY <1>0, <1>3, <2>1, <3>1 DEF AdvRests, StopTracking, Out, Will, Basics, Fwd, Onward, Terminal
    <3>6. tracked # NoObj => ChkEnds'
      BY <1>0, <3>4, <3>5 DEF ChkEnds, Basics
    <3>7. row.status # "COMPENSATING"
      BY <1>3 DEF Fwd, Onward
    <3>. QED  BY <1>0, <3>1, <3>6, <3>7, RestsTurn
  <2>2. CASE heap[me].status = "COMPENSATING"
    BY <1>0, <1>3, <2>2 DEF Dir, ReadAbreast
  <2>3. CASE Expired /\ FailSaga("adv", "timeout", heap, me)
    BY <1>0, <1>3, <2>3, FailsTurn
  <2>. QED  BY <1>3, <2>1, <2>2, <2>3 DEF CheckTimeout
<1>4. CASE Fwd /\ ~Overdue(me) /\ Request("adv", "open", [heap EXCEPT ![me].status = "RUNNING"], me)
  <2>1. AdvAsks("open", Put(heap[me], "RUNNING"))
    BY <1>0, <1>4, AsksPut
  <2>2. heap[me].status \in Onward
    BY <1>0, <1>4 DEF Dir, ReadAbreast, Overdue, Ended, Terminal, Onward
  <2>3. ChkEnds => ~Overtakes
    BY <1>4 DEF ChkEnds, Overdue, Expired
  <2>4. Put(heap[me], "RUNNING") \in Copy /\ Put(heap[me], "RUNNING").status = "RUNNING"
        /\ Put(heap[me], "RUNNING").cur = heap[me].cur
        /\ Put(heap[me], "RUNNING").comp = heap[me].comp /\ Put(heap[me], "RUNNING").res = heap[me].res
    BY <1>0, PutFields DEF Status
  <2>5. Abreast(Put(heap[me], "RUNNING")) \/ (~Overtakes /\ ChkEnds)
    BY <1>0, <1>4, <2>3, <2>4 DEF Dir, ReadAbreast, Abreast
  <2>6. AskOK("open", Put(heap[me], "RUNNING")) /\ AskRecords("open", Put(heap[me], "RUNNING"))
    BY <1>0, <1>4, <2>2, <2>4, <2>5 DEF AskOK, AskRecords, Asked, PassKinds, WalkKinds
  <2>. QED  BY <1>0, <2>1, <2>6, AsksTurn
<1>5. \/ Stay("adv") /\ row.status = "COMPENSATING"
      \/ StopTracking("adv") /\ row.status \in Terminal
      \/ row.status \in {"PENDING", "RUNNING"} /\ Overdue(me) /\ CheckTimeout("adv", me)
      \/ /\ row.status \in {"PENDING", "RUNNING"} /\ ~Overdue(me)
         /\ Request("adv", "open", [heap EXCEPT ![me].status = "RUNNING"], me)
  BY <1>0, Zenon DEF ReadStatus
<1>. QED  BY <1>1, <1>2, <1>3, <1>4, <1>5 DEF Fwd, Onward, Terminal

\* Countermeasures and the step itself.
LEMMA ExecuteDir == ASSUME CInv, Dir, Execute PROVE Dir'
<1>0. /\ Basics /\ ~Out("adv") /\ pc["adv"] = "run" /\ pc'["adv"] = "settle" /\ me \in Objs
      /\ tx["adv"].kind = "none" /\ tx["adv"].phase = "none"
      /\ ~AdvEnds /\ Pass
      /\ heap[me].cur \in Nat /\ heap[me].cur < NSteps
      /\ \A b \in Thread \ {"adv"} : pc'[b] = pc[b]
      /\ UNCHANGED <<row, cache, heap, tracked, ref, parked, tx, claim, queue, up, late>>
  <2>1. me \in Objs /\ heap[me].cur < NSteps
    BY DEF CInv, IInv, ThreadsOK, RefOK, StepOK, Holding, Execute, me, Thread
  <2>2. tx["adv"] = NoTx
    BY BasicsHold DEF Basics, Execute
  <2>3. pc["adv"] = "run" /\ pc'["adv"] = "settle" /\ \A b \in Thread \ {"adv"} : pc'[b] = pc[b]
    BY DEF Execute, CInv, IInv, ThreadsOK, ControlOK, Thread
  <2>. QED  BY <2>1, <2>2, <2>3, BasicsHold, NoTxFields DEF Basics, Execute, Out, AdvEnds, Pass, durable, memory
<1>1. /\ me' = me /\ Pass'
      /\ \A a \in Thread : (Out(a)' <=> Out(a)) /\ Will(a)' = Will(a)
      /\ Fwd' <=> Fwd
      /\ WalkDue' <=> WalkDue
      /\ ~AdvEnds'
      /\ ChkEnds' <=> ChkEnds
      /\ Doomed' <=> Doomed
  BY <1>0 DEF me, Pass, Out, Will, Fwd, WalkDue, AdvEnds, ChkEnds, Doomed
<1>2. ~Reverted /\ ~WalkDue /\ row.status # "COMPENSATING" /\ Abreast(heap[me])
  BY <1>0 DEF Dir, TurnedBack, Turning, PassAbreast
<1>3. /\ ~Reverted'
      /\ PivotOut' => PivotOut \/ heap[me].cur = Pivot
  <2>1. eff' = eff \/ eff' = [eff EXCEPT ![heap[me].cur] = "present"]
    BY DEF Execute
  <2>2. \A i \in Step : eff'[i] = eff[i] \/ (eff'[i] = "present" /\ i = heap[me].cur)
    BY <2>1 DEF CInv, IInv, WorldOK
  <2>3. Pivot \in Step
    BY StepsAssumption
  <2>. QED  BY <1>2, <2>2, <2>3 DEF Reverted, PivotOut
<1>4. Abreast(heap[me])' /\ (PivotOut' => heap[me].cur >= Pivot)
  BY <1>0, <1>1, <1>2, <1>3 DEF Abreast, Basics
<1>5. Fwd => Abreast(row)' /\ (tracked # NoObj => Abreast(heap[tracked])')
  BY <1>0, <1>4 DEF Dir, RowAbreast, OneCopy, Abreast
<1>6. ~Out("boot")
  BY <1>0 DEF Dir, Rewarming
<1>10. Healthy' /\ Unborn' /\ Starting'
  BY <1>0, <1>1 DEF Dir, Healthy, Unborn, Starting, Basics
<1>11. TurnedBack' /\ Turning' /\ PassAbreast' /\ OneCopy' /\ ReadAbreast'
  BY <1>0, <1>1, <1>2, <1>3, <1>4 DEF Dir, TurnedBack, Turning, PassAbreast, OneCopy, ReadAbreast
<1>13. RowAbreast' /\ TrackedAbreast'
  BY <1>0, <1>1, <1>5 DEF Dir, RowAbreast, TrackedAbreast
<1>15. Settling' /\ InMemory'
  BY <1>0, <1>1 DEF Dir, Settling, InMemory, Basics, WalkKinds
<1>17. ForwardWrites' /\ BackWrites' /\ EndWrites' /\ Rewarming'
  BY <1>0, <1>1, <1>6 DEF Dir, ForwardWrites, BackWrites, EndWrites, Rewarming, Basics
<1>. QED  BY <1>10, <1>11, <1>13, <1>15, <1>17 DEF Dir

LEMMA AsksOne ==
  ASSUME CInv, me \in Objs, NEW k, NEW x, Request("adv", k, [heap EXCEPT ![me] = x], me)
  PROVE  AdvAsks(k, x)
<1>. DEFINE h == [heap EXCEPT ![me] = x]
<1>1. h[me] = x /\ (\A y \in Objs \ {me} : h[y] = heap[y]) /\ Request("adv", k, h, me)
  BY DEF CInv, IInv, ThreadsOK, ControlOK
<1>. HIDE DEF h
<1>2. AdvAsks(k, h[me])
  BY <1>1, AsksEffect
<1>. QED  BY <1>1, <1>2

\* The answer is recorded.
LEMMA SettleTurn == ASSUME CInv, Dir, Settle PROVE AdvTurn
<1>0. /\ Basics /\ ~Out("adv") /\ pc["adv"] = "settle" /\ me \in Objs /\ tx["adv"].kind = "none" /\ Pass
      /\ heap[me] \in Copy /\ heap[me].cur \in Nat /\ heap[me].cur < NSteps /\ out \in Outcome
      /\ up /\ UNCHANGED <<row, cache, up, late, eff>>
  <2>1. me \in Objs /\ heap[me].cur < NSteps /\ out \in Outcome
    BY DEF CInv, IInv, WorldOK, ThreadsOK, RefOK, StepOK, Holding, Settle, me, Thread
  <2>2. tx["adv"] = NoTx
    BY BasicsHold DEF Basics, Settle
  <2>. QED  BY <2>1, <2>2, BasicsHold, NoTxFields DEF Basics, Settle, Out, Pass, durable
<1>1. Abreast(heap[me])
  BY <1>0 DEF Dir, PassAbreast
<1>2. Answered \in Copy /\ Answered.status = heap[me].status /\ Answered.cur = heap[me].cur
      /\ Answered.comp = heap[me].comp
  <2>1. [heap[me].res EXCEPT ![heap[me].cur] = out] \in [Step -> Outcome]
    BY <1>0 DEF Copy
  <2>. QED  BY <1>0, <2>1 DEF Answered, Copy
<1>3. \E k \in {"advance", "retry", "exhausted", "rearm", "repoll"}, x \in Copy :
        /\ AdvAsks(k, x) /\ x.status = heap[me].status /\ x.cur >= heap[me].cur /\ x.comp = heap[me].comp
        /\ k = "exhausted" => Failed(x)
  <2>1. CASE Request("adv", IF heap[me].armed THEN "repoll" ELSE "rearm",
                     [heap EXCEPT ![me] = [Answered EXCEPT !.armed = TRUE]], me)
    <3>. DEFINE x == [Answered EXCEPT !.armed = TRUE]
                k == IF heap[me].armed THEN "repoll" ELSE "rearm"
    <3>1. x \in Copy /\ x.status = heap[me].status /\ x.cur = heap[me].cur /\ x.comp = heap[me].comp
      BY <1>2 DEF Copy
    <3>. HIDE DEF x
    <3>2. AdvAsks(k, x)
      BY <1>0, <2>1, AsksOne DEF x
    <3>. QED  BY <1>0, <3>1, <3>2
  <2>2. CASE /\ MayRetry(me)
             /\ Request("adv", "retry",
                 [heap EXCEPT ![me] = [Answered EXCEPT !.retry = heap[me].retry + 1, !.armed = TRUE]], me)
    <3>. DEFINE x == [Answered EXCEPT !.retry = heap[me].retry + 1, !.armed = TRUE]
    <3>1. heap[me].retry + 1 \in 0 .. MaxRetries
      BY <1>0, <2>2, StepsAssumption DEF MayRetry, Copy
    <3>2. x \in Copy /\ x.status = heap[me].status /\ x.cur = heap[me].cur /\ x.comp = heap[me].comp
      BY <1>2, <3>1 DEF Copy
    <3>. HIDE DEF x
    <3>3. AdvAsks("retry", x)
      BY <1>0, <2>2, AsksOne DEF x
    <3>. QED  BY <1>0, <3>2, <3>3
  <2>3. CASE Spends(out) /\ Request("adv", "exhausted", [heap EXCEPT ![me] = Answered], me)
    <3>1. Failed(Answered)
      <4>1. heap[me].cur \in Step /\ heap[me].res \in [Step -> Outcome]
        BY <1>0, StepsAssumption DEF Step, Copy
      <4>2. Answered.res = [heap[me].res EXCEPT ![heap[me].cur] = out]
        BY <1>0 DEF Answered, Copy
      <4>3. Answered.res[heap[me].cur] = "failed"
        BY <2>3, <4>1, <4>2 DEF Spends
      <4>. QED  BY <4>1, <4>3 DEF Failed
    <3>. QED  BY <1>0, <1>2, <2>3, <3>1, AsksOne
  <2>4. CASE Request("adv", "advance",
               [heap EXCEPT ![me] = [Answered EXCEPT !.cur = heap[me].cur + 1, !.retry = 0, !.armed = FALSE]], me)
    <3>. DEFINE x == [Answered EXCEPT !.cur = heap[me].cur + 1, !.retry = 0, !.armed = FALSE]
    <3>1. heap[me].cur + 1 \in 0 .. NSteps /\ 0 \in 0 .. MaxRetries
      BY <1>0, StepsAssumption
    <3>2. x \in Copy /\ x.status = heap[me].status /\ x.cur = heap[me].cur + 1 /\ x.comp = heap[me].comp
      BY <1>2, <3>1 DEF Copy
    <3>. HIDE DEF x
    <3>3. AdvAsks("advance", x)
      BY <1>0, <2>4, AsksOne DEF x
    <3>. QED  BY <1>0, <3>2, <3>3
  <2>. QED  BY <2>1, <2>2, <2>3, <2>4, SettleAsks
<1>4. PICK k \in {"advance", "retry", "exhausted", "rearm", "repoll"}, x \in Copy :
        /\ AdvAsks(k, x) /\ x.status = heap[me].status /\ x.cur >= heap[me].cur /\ x.comp = heap[me].comp
        /\ k = "exhausted" => Failed(x)
  BY <1>3
<1>5. Abreast(x)
  BY <1>0, <1>1, <1>4 DEF Abreast, Basics, Copy
<1>6. AskOK(k, x) /\ AskRecords(k, x)
  BY <1>0, <1>4, <1>5 DEF AskOK, AskRecords, Asked, PassKinds, WalkKinds
<1>. QED  BY <1>0, <1>4, <1>6, AsksTurn

\* The pass goes on to a step.
LEMMA GoOnDir ==
  ASSUME CInv, Dir, AdvTurn, GoesOn
  PROVE  Dir'
<1>0. /\ Basics /\ ~Out("adv") /\ Pass /\ ~AdvEnds
      /\ tx'["adv"].kind = "none" /\ tx'["adv"].phase = "none" /\ pc'["adv"] = "run"
      /\ \A b \in Thread \ {"adv"} : tx'[b] = tx[b] /\ pc'[b] = pc[b]
      /\ UNCHANGED <<heap, tracked, ref, parked, claim, queue, row, cache, up, late, eff>>
  <2>1. /\ tx'["adv"].kind = "none" /\ tx'["adv"].phase = "none" /\ pc'["adv"] = "run"
        /\ \A b \in Thread \ {"adv"} : tx'[b] = tx[b] /\ pc'[b] = pc[b]
    BY BasicsHold, NoTxFields DEF Basics, CInv, IInv, ThreadsOK, ControlOK, GoesOn
  <2>2. UNCHANGED <<heap, tracked, ref, parked, claim, queue, row, cache, up, late, eff>>
    BY DEF GoesOn, AdvTurn, memory
  <2>. QED  BY <2>1, <2>2, BasicsHold DEF Out, Pass, AdvEnds, PassKinds, GoesOn
<1>1. /\ me' = me /\ Pass'
      /\ \A a \in Thread : Out(a)' <=> Out(a)
      /\ \A a \in Thread : Out(a) => Will(a)' = Will(a)
      /\ Fwd' <=> Fwd
      /\ WalkDue' <=> WalkDue
      /\ Reverted' <=> Reverted
      /\ PivotOut' <=> PivotOut
      /\ ~AdvEnds'
      /\ ChkEnds' <=> ChkEnds
  BY <1>0 DEF me, Pass, Out, Will, Fwd, WalkDue, Reverted, PivotOut, AdvEnds, ChkEnds, Basics
<1>2. Abreast(heap[me])
  BY <1>0 DEF Dir, PassAbreast, GoesOn
<1>3. row.status # "COMPENSATING"
  BY <1>0 DEF Dir, Turning, GoesOn
<1>10. Healthy' /\ Unborn' /\ Starting'
  BY <1>0, <1>1 DEF Dir, Healthy, Unborn, Starting, Basics, GoesOn
<1>11. TurnedBack' /\ Turning'
  BY <1>0, <1>1, <1>3 DEF Dir, TurnedBack, Turning
<1>12. PassAbreast' /\ OneCopy' /\ ReadAbreast'
  BY <1>0, <1>1, <1>2 DEF Dir, PassAbreast, OneCopy, ReadAbreast, Abreast, GoesOn
<1>13. RowAbreast' /\ TrackedAbreast'
  BY <1>0, <1>1 DEF Dir, RowAbreast, TrackedAbreast, Abreast, Basics, GoesOn
<1>15. Settling' /\ InMemory'
  BY <1>0, <1>1 DEF Dir, Settling, InMemory, Basics, WalkKinds, PassKinds, GoesOn
<1>17. ForwardWrites' /\ BackWrites' /\ EndWrites' /\ Rewarming'
  BY <1>0, <1>1 DEF Dir, ForwardWrites, BackWrites, EndWrites, Rewarming, Basics, GoesOn
<1>. QED  BY <1>10, <1>11, <1>12, <1>13, <1>15, <1>17 DEF Dir

LEMMA PassWroteTurn == ASSUME CInv, Dir, PassWrote PROVE AdvTurn
<1>0. /\ Basics /\ ~Out("adv") /\ pc["adv"] = "write" /\ me \in Objs /\ tx["adv"].kind \in PassKinds
      /\ tx["adv"].phase = "ok" /\ Pass
      /\ heap[me] \in Copy /\ heap[me].cur \in Nat /\ "COMPLETED" \in Status /\ "COMPENSATING" \in Status
      /\ up /\ UNCHANGED <<row, cache, up, late, eff>>
  <2>1. tx["adv"].kind \in PassKinds /\ tx["adv"].phase = "ok" /\ up /\ UNCHANGED <<row, cache, up, late, eff>>
    BY DEF PassWrote, Settled, PassKinds, durable, world
  <2>2. me \in Objs /\ pc["adv"] = "write"
    BY <2>1, BasicsHold DEF CInv, IInv, ThreadsOK, RefOK, Basics, me, Thread
  <2>. QED  BY <2>1, <2>2, BasicsHold DEF Basics, Out, Pass, Status, Terminal
<1>1. Abreast(heap[me])
  BY <1>0 DEF Dir, PassAbreast
<1>2. CASE /\ tx["adv"].kind \in {"open", "advance"}
           /\ pc' = [pc EXCEPT !["adv"] = "run"]
           /\ tx' = [tx EXCEPT !["adv"] = NoTx]
           /\ UNCHANGED <<memory, parked, claim, queue>>
  BY <1>0, <1>2 DEF AdvTurn, GoesOn
<1>3. CASE /\ tx["adv"].kind \in {"open", "advance"}
           /\ Request("adv", "complete", [heap EXCEPT ![me].status = "COMPLETED"], me)
  <2>1. AdvAsks("complete", Put(heap[me], "COMPLETED"))
    BY <1>0, <1>3, AsksPut
  <2>2. AskOK("complete", Put(heap[me], "COMPLETED")) /\ AskRecords("complete", Put(heap[me], "COMPLETED"))
    BY <1>0, <1>1, <1>3, PutFields DEF AskOK, AskRecords, Asked, PassKinds, WalkKinds, Abreast
  <2>. QED  BY <1>0, <2>1, <2>2, AsksTurn
<1>4. CASE /\ tx["adv"].kind \notin EndKinds \cup {"begin", "reopen"}
           /\ EndPass(TRUE, heap, tracked, queue) /\ UNCHANGED parked
  <2>1. AdvRests(tracked)
    BY <1>4, EndPassRests
  <2>. QED  BY <1>0, <2>1, RestsTurn
<1>5. CASE /\ tx["adv"].kind = "exhausted" /\ Reversible(me)
           /\ Request("adv", BeginKind(me), Compensating(heap, me), me)
  <2>. DEFINE k == BeginKind(me)
              y == Put(heap[me], "COMPENSATING")
              x == [y EXCEPT !.armed = FALSE]
  <2>1. y \in Copy /\ y.status = "COMPENSATING" /\ y.cur = heap[me].cur /\ y.comp = heap[me].comp
        /\ y.res = heap[me].res
    BY <1>0, PutFields
  <2>2. Compensating(heap, me) = [heap EXCEPT ![me] = x]
    BY <1>0 DEF Compensating, Put, CInv, IInv, ThreadsOK, ControlOK
  <2>. HIDE DEF y
  <2>3. x \in Copy /\ x.status = "COMPENSATING" /\ x.cur = heap[me].cur /\ x.comp = heap[me].comp
        /\ x.res = heap[me].res
    BY <2>1 DEF Copy
  <2>. HIDE DEF x
  <2>0. k \in {"begin", "reopen"}
    BY DEF BeginKind
  <2>4. AdvAsks(k, x)
    BY <1>0, <1>5, <2>2, AsksOne
  <2>. HIDE DEF k
  <2>5. ~PivotOut
    BY <1>0, <1>1, <1>5 DEF Abreast, Reversible, Basics
  <2>6. AskOK(k, x) /\ AskRecords(k, x)
    BY <1>0, <1>1, <1>5, <2>0, <2>3, <2>5 DEF AskOK, AskRecords, Asked, PassKinds, WalkKinds, Abreast
  <2>. QED  BY <1>0, <2>4, <2>6, AsksTurn
<1>6. CASE tx["adv"].kind = "exhausted" /\ FailSaga("adv", "failstep", heap, me)
  BY <1>0, <1>1, <1>6, FailsTurn
<1>7. CASE tx["adv"].kind \in {"begin", "reopen"} /\ EndPass(TRUE, heap, tracked, queue \cup {"walk"}) /\ UNCHANGED parked
  <2>1. row.status \in Back /\ ~PivotOut
    BY <1>0, <1>7 DEF Dir, Turning
  <2>2. AdvRests(tracked)
    BY <1>0, <1>7, <2>1, EndPassRests
  <2>. QED  BY <1>0, <2>2, RestsTurn
<1>8. CASE tx["adv"].kind = "complete" /\ EndPass(TRUE, heap, NoObj, queue) /\ parked' = FALSE
  <2>1. AdvRests(NoObj)
    BY <1>8, EndPassRests
  <2>2. ~Fwd
    BY <1>0, <1>8 DEF Dir, Settling, Fwd, Onward, EndKinds, Basics
  <2>3. row.status # "COMPENSATING"
    BY <1>0, <1>8 DEF Dir, Turning
  <2>. QED  BY <1>0, <2>1, <2>2, <2>3, RestsTurn
<1>. QED  BY <1>2, <1>3, <1>4, <1>5, <1>6, <1>7, <1>8, Zenon DEF PassWrote, Settled, EndKinds

LEMMA PassEndsTurn == ASSUME CInv, Dir, PassFailed \/ PassRefused PROVE AdvTurn
<1>1. Basics /\ tx["adv"].phase \in {"error", "refused"} /\ up /\ UNCHANGED <<row, cache, up, late, eff>>
  BY BasicsHold DEF PassFailed, PassRefused, Settled, durable, world
<1>2. tx["adv"].phase # "error" /\ tx["adv"].kind # "rearm2"
  BY <1>1 DEF Dir, Healthy, Basics
<1>3. PassRefused /\ pc["adv"] = "write" /\ ~Out("adv") /\ row.status \in Terminal
  BY <1>1, <1>2 DEF Dir, Settling, PassFailed, Settled, Out, Basics
<1>4. AdvRests(NoObj)
  BY <1>3, LeaveRests DEF PassRefused, StopTracking
<1>. QED  BY <1>1, <1>3, <1>4, RestsTurn DEF Fwd, Onward, Terminal

-----------------------------------------------------------------------------
(* The walk. *)

\* Of some steps, one is the last.
LEMMA LastIn == ASSUME NEW Q \in SUBSET Step, Q # {} PROVE Last(Q) \in Q
<1>. DEFINE Under == {ss \in Nat \X Nat : ss[1] < ss[2]}
            From(i) == NSteps - 1 - i
            Left == {From(i) : i \in Q}
<1>1. IsWellFoundedOn(Under, Nat)
  BY NatLessThanWellFounded DEF OpToRel
<1>2. \A i \in Q : i \in Nat /\ From(i) \in Nat
  BY StepsAssumption DEF Step
<1>3. \A x, y \in Nat : <<y, x>> \notin Under => x <= y
  OBVIOUS
<1>. HIDE DEF Under
<1>4. \A i, j \in Q : From(i) <= From(j) => j <= i
  BY <1>2, StepsAssumption
<1>. HIDE DEF From
<1>5. Left # {} /\ Left \subseteq Nat
  BY <1>2
<1>6. PICK x \in Left : \A y \in Left : <<y, x>> \notin Under
  <2>. HIDE DEF Left
  <2>. QED  BY <1>1, <1>5, WFMin
<1>7. PICK i \in Q : x = From(i)
  BY <1>6
<1>8. \A j \in Q : j <= i
  BY <1>2, <1>3, <1>4, <1>6, <1>7
<1>. QED  BY <1>8 DEF Last

\* Merging and turning back leave the rest of memory, and of the copy, alone.
LEMMA MergedEffect ==
  ASSUME NEW h \in [Objs -> Copy], NEW o \in Objs, row \in Copy
  PROVE  /\ \A y \in Objs \ {o} : Merged(h, o)[y] = h[y]
         /\ Merged(h, o)[o].status = h[o].status /\ Merged(h, o)[o].res = h[o].res
         /\ Successes(Merged(h, o)[o].comp) = Successes(row.comp) \cup Successes(h[o].comp)
<1>. DEFINE c == [i \in Step |->
       IF row.comp[i] # "none" /\ (row.comp[i] = "succeeded" \/ h[o].comp[i] = "none")
         THEN row.comp[i] ELSE h[o].comp[i]]
<1>1. /\ \A y \in Objs \ {o} : Merged(h, o)[y] = h[y]
      /\ Merged(h, o)[o].status = h[o].status /\ Merged(h, o)[o].comp = c
      /\ Merged(h, o)[o].res = h[o].res
  BY DEF Merged, Copy
<1>2. Successes(c) = Successes(row.comp) \cup Successes(h[o].comp)
  BY DEF Successes
<1>. QED  BY <1>1, <1>2

LEMMA CompensatingEffect ==
  ASSUME NEW h \in [Objs -> Copy], NEW o \in Objs
  PROVE  /\ \A y \in Objs \ {o} : Compensating(h, o)[y] = h[y]
         /\ Compensating(h, o)[o].status = "COMPENSATING" /\ Compensating(h, o)[o].cur = h[o].cur
         /\ Compensating(h, o)[o].comp = h[o].comp /\ Compensating(h, o)[o].res = h[o].res
<1>. DEFINE g == [h EXCEPT ![o].status = "COMPENSATING"]
<1>1. /\ \A y \in Objs \ {o} : g[y] = h[y]
      /\ g[o].status = "COMPENSATING" /\ g[o].cur = h[o].cur /\ g[o].comp = h[o].comp /\ g[o].res = h[o].res
      /\ g \in [Objs -> Copy]
  BY DEF Copy, Status
<1>2. Compensating(h, o) = [g EXCEPT ![o].armed = FALSE]
  BY DEF Compensating
<1>. HIDE DEF g
<1>. QED  BY <1>1, <1>2 DEF Copy

\* Where a walk is: under a row that has turned back, before the pivot's effect.
LEMMA Walking ==
  ASSUME CInv, Dir, claim.dir = "compensation"
  PROVE  /\ Basics /\ WalkDue /\ ~Fwd /\ row.status \in Back /\ ~PivotOut /\ pc["adv"] # "idle"
         /\ tx["op"].kind # "start"
         /\ heap \in [Objs -> Copy] /\ row \in Copy
         /\ pc["adv"] \in Holding => me \in Objs
<1>1. WalkDue /\ row.status \in Back /\ ~PivotOut /\ ~Fwd
  BY DEF Dir, TurnedBack, WalkDue, Fwd, Onward, Back
<1>2. pc["adv"] # "idle"
  BY DEF CInv, Order, Claims, NoClaim
<1>3. tx["op"].kind # "start"
  BY <1>2, BasicsHold DEF Dir, Starting, Basics
<1>4. heap \in [Objs -> Copy] /\ row \in Copy /\ (pc["adv"] \in Holding => me \in Objs)
  BY DEF CInv, IInv, DurableOK, ThreadsOK, ControlOK, RefOK, me, Thread
<1>. QED  BY <1>1, <1>2, <1>3, <1>4, BasicsHold

\* A walk that ends, whatever it leaves in the copy it drops.
LEMMA WalkRestsTurn ==
  ASSUME CInv, Dir, claim.dir = "compensation", up, ~Out("adv"), NEW t, AdvRests(t),
         UNCHANGED <<row, cache, up, late, eff>>, pc["adv"] = "wrecord" => row.status \in Terminal,
         row.status = "COMPENSATING" /\ t # tracked => tx["adv"].kind \in {"wdone", "timeout"}
  PROVE  AdvTurn
  BY Walking, RestsTurn

\* The walk opens.
LEMMA WalkOpensTurn == ASSUME CInv, Dir, Steady', WalkStatus \/ WalkLoad PROVE AdvTurn
<1>0. /\ claim.dir = "compensation" /\ Basics /\ ~Out("adv") /\ tx["adv"] = NoTx /\ ~Spend("db")
      /\ pc \in [Thread -> Label]
      /\ up /\ pc["adv"] \in {"wstatus", "wload"} /\ pc["adv"] # "idle"
      /\ UNCHANGED <<row, up, late, eff>>
  <2>1. up /\ pc["adv"] \in {"wstatus", "wload"} /\ pc["adv"] \in WalkLabels /\ pc["adv"] # "write" /\ UNCHANGED <<row, up, late, eff>>
    BY DEF WalkStatus, WalkLoad, WalkLabels, durable
  <2>2. tx["adv"] = NoTx
    BY <2>1, BasicsHold DEF Basics
  <2>. QED  BY <2>1, <2>2, BasicsHold, SteadySpends, NoTxFields
            DEF CInv, IInv, ThreadsOK, ControlOK, Order, Claims, Out, Basics
<1>1. CASE Stay("adv") /\ UNCHANGED cache
  <2>1. AdvRests(tracked)
    BY <1>1, LeaveRests DEF Stay
  <2>. QED  BY <1>0, <1>1, <2>1, WalkRestsTurn
<1>2. CASE /\ pc["adv"] = "wstatus" /\ pc' = [pc EXCEPT !["adv"] = "wload"]
           /\ UNCHANGED <<memory, tx, claim, queue>>
  <2>1. WalkOn
    BY <1>0, <1>2 DEF WalkOn, WalkLabels, PivotOut, memory, Basics
  <2>2. pc'["adv"] = "wload"
    BY <1>0, <1>2 DEF Basics
  <2>. QED  BY <1>0, <1>2, <2>1, <2>2 DEF AdvTurn, TurnWalks
<1>3. CASE /\ pc["adv"] = "wload" /\ Memory(Loaded.h, tracked, [ref EXCEPT !["adv"] = Loaded.o])
           /\ pc' = [pc EXCEPT !["adv"] = "wsync"] /\ UNCHANGED <<parked, tx, claim, queue>>
  <2>1. Holds("wsync")
    BY <1>3, HoldsEffect
  <2>2. WalkOn
    BY <1>0, <2>1 DEF WalkOn, Holds, WalkLabels, PivotOut, Basics
  <2>3. UNCHANGED <<claim, queue>>
    BY <1>3
  <2>. QED  BY <1>0, <1>3, <2>1, <2>2, <2>3 DEF AdvTurn, TurnWalks
<1>. QED  BY <1>0, <1>1, <1>2, <1>3 DEF WalkStatus, WalkLoad

LEMMA WalkSyncTurn == ASSUME CInv, Dir, Steady', WalkSync PROVE AdvTurn
<1>0. /\ claim.dir = "compensation" /\ Basics /\ ~Out("adv") /\ tx["adv"] = NoTx /\ ~Spend("db")
      /\ pc \in [Thread -> Label] /\ pc["adv"] = "wsync" /\ me \in Objs
      /\ up /\ UNCHANGED <<row, cache, up, late, eff>>
  <2>1. up /\ pc["adv"] = "wsync" /\ UNCHANGED <<row, cache, up, late, eff>>
    BY DEF WalkSync, durable
  <2>2. tx["adv"] = NoTx /\ claim.dir = "compensation"
    BY <2>1, BasicsHold DEF Basics, CInv, Order, Claims, WalkLabels
  <2>. QED  BY <2>1, <2>2, BasicsHold, SteadySpends, Walking, NoTxFields
            DEF CInv, IInv, ThreadsOK, ControlOK, Out, Basics, Holding
<1>1. heap \in [Objs -> Copy] /\ row \in Copy
  BY <1>0, Walking
<1>2. CASE Stay("adv")
  <2>1. AdvRests(tracked)
    BY <1>2, LeaveRests DEF Stay
  <2>. QED  BY <1>0, <2>1, WalkRestsTurn
<1>3. CASE row.status \notin Terminal /\ Request("adv", "wbegin", Compensating(Merged(heap, me), me), me)
  <2>. DEFINE g == Merged(heap, me)
              h == Compensating(g, me)
  <2>1. /\ g \in [Objs -> Copy] /\ g[me].cur = heap[me].cur
        /\ g[me].res = heap[me].res /\ \A y \in Objs \ {me} : g[y] = heap[y]
        /\ Successes(g[me].comp) = Successes(row.comp) \cup Successes(heap[me].comp)
    BY <1>0, <1>1, MergedType, MergedEffect
  <2>. HIDE DEF g
  <2>2. /\ h \in [Objs -> Copy] /\ h[me].cur = heap[me].cur /\ h[me].status = "COMPENSATING"
        /\ h[me].res = heap[me].res /\ \A y \in Objs \ {me} : h[y] = heap[y]
        /\ Successes(h[me].comp) = Successes(row.comp) \cup Successes(heap[me].comp)
    BY <1>0, <2>1, CompensatingType, CompensatingEffect
  <2>3. Request("adv", "wbegin", h, me)
    BY <1>3 DEF g
  <2>. HIDE DEF h
  <2>4. AdvAsks("wbegin", h[me])
    BY <1>0, <2>2, <2>3, AsksEffect
  <2>5. AskOK("wbegin", h[me]) /\ AskRecords("wbegin", h[me])
    BY <1>0, <1>3, <2>2 DEF AskOK, AskRecords, Asked, PassKinds, WalkKinds, Basics
  <2>. QED  BY <1>0, <2>4, <2>5, AsksTurn
<1>4. CASE /\ row.status \notin Terminal /\ heap[me].status = "COMPENSATING" /\ heap' = Merged(heap, me)
           /\ pc' = [pc EXCEPT !["adv"] = "wundo"]
           /\ UNCHANGED <<tracked, ref, parked, tx, claim, queue>>
  <2>1. \A y \in Objs : heap'[y].status = heap[y].status
    BY <1>0, <1>1, <1>4, MergedEffect
  <2>2. me' = me /\ heap'[me'].status \in Back
    BY <1>0, <1>4, <2>1 DEF me, Back
  <2>3. WalkOn
    BY <1>0, <1>4, <2>1, <2>2 DEF WalkOn, WalkLabels, PivotOut, Basics
  <2>4. /\ \A y \in Objs \ {me} : heap'[y] = heap[y]
        /\ heap'[me].status = heap[me].status /\ heap'[me].res = heap[me].res
        /\ Successes(heap'[me].comp) = Successes(row.comp) \cup Successes(heap[me].comp)
    BY <1>0, <1>1, <1>4, MergedEffect
  <2>5. pc'["adv"] = "wundo"
    BY <1>0, <1>4 DEF Basics
  <2>. QED  BY <1>0, <1>4, <2>3, <2>4, <2>5 DEF AdvTurn, TurnWalks
<1>. QED  BY <1>0, <1>2, <1>3, <1>4 DEF WalkSync

\* compensate() is called below the pivot only.
LEMMA UndoTurn == ASSUME CInv, Dir, Undo PROVE AdvTurn
<1>0. /\ claim.dir = "compensation" /\ Basics /\ ~Out("adv") /\ tx["adv"] = NoTx
      /\ pc \in [Thread -> Label] /\ pc["adv"] = "wundo" /\ NextUndo(heap, me) # {}
      /\ up /\ UNCHANGED <<row, cache, up, late, heap, tracked, ref, tx, claim, queue, todo>>
      /\ pc' = [pc EXCEPT !["adv"] = "wrecord"]
  <2>1. pc["adv"] = "wundo" /\ up /\ UNCHANGED <<row, cache, up, late, heap, tracked, ref, tx, claim, queue, todo>>
        /\ NextUndo(heap, me) # {} /\ pc' = [pc EXCEPT !["adv"] = "wrecord"]
    BY DEF Undo, durable, memory
  <2>2. tx["adv"] = NoTx /\ claim.dir = "compensation"
    BY <2>1, BasicsHold DEF Basics, CInv, Order, Claims, WalkLabels
  <2>. QED  BY <2>1, <2>2, BasicsHold, NoTxFields
            DEF CInv, IInv, ThreadsOK, ControlOK, Out, Basics
<1>1. Last(NextUndo(heap, me)) \in todo
  <2>1. NextUndo(heap, me) \subseteq todo /\ NextUndo(heap, me) \in SUBSET Step
    BY DEF NextUndo, CInv, IInv, WorldOK
  <2>. QED  BY <1>0, <2>1, LastIn
<1>2. eff'[Pivot] = eff[Pivot]
  <2>1. Last(NextUndo(heap, me)) # Pivot
    BY <1>0, <1>1 DEF CInv, Order, BelowPivot, Basics
  <2>2. eff' = eff \/ eff' = [eff EXCEPT ![Last(NextUndo(heap, me))] = "undone"]
    BY DEF Undo
  <2>3. Pivot \in Step /\ eff \in [Step -> {"absent", "present", "undone"}]
    BY StepsAssumption DEF CInv, IInv, WorldOK
  <2>. QED  BY <2>1, <2>2, <2>3
<1>3. me' = me /\ (row.status = "COMPENSATING" => heap'[me'].status \in Back)
  BY <1>0 DEF Dir, InMemory, me
<1>4. WalkOn
  BY <1>0, <1>2, <1>3 DEF WalkOn, WalkLabels, PivotOut, Basics
<1>5. pc'["adv"] = "wrecord" /\ pc["adv"] # "idle"
  BY <1>0 DEF Basics
<1>. QED  BY <1>0, <1>4, <1>5 DEF AdvTurn, TurnWalks

LEMMA WalkRecordTurn == ASSUME CInv, Dir, Steady', WalkRecord PROVE AdvTurn
<1>. DEFINE i == Last(NextUndo(heap, me))
            c == [heap[me].comp EXCEPT ![i] = out]
            x == [heap[me] EXCEPT !.comp = c]
            h == [heap EXCEPT ![me].comp[i] = out]
<1>0. /\ claim.dir = "compensation" /\ Basics /\ ~Out("adv") /\ ~Spend("db")
      /\ pc["adv"] = "wrecord" /\ me \in Objs /\ out \in Outcome
      /\ up /\ UNCHANGED <<row, cache, up, late, eff>>
  <2>1. up /\ pc["adv"] = "wrecord" /\ UNCHANGED <<row, cache, up, late, eff>>
    BY DEF WalkRecord, durable
  <2>2. tx["adv"] = NoTx /\ claim.dir = "compensation"
    BY <2>1, BasicsHold DEF Basics, CInv, Order, Claims, WalkLabels
  <2>. QED  BY <2>1, <2>2, BasicsHold, SteadySpends, Walking, NoTxFields
            DEF CInv, IInv, WorldOK, Out, Basics, Holding
<1>1. heap \in [Objs -> Copy] /\ row \in Copy
  BY <1>0, Walking
<1>2. \/ Leave("adv", h, tracked) /\ UNCHANGED parked /\ row.status \in Terminal
      \/ row.status \notin Terminal /\ Request("adv", "wprogress", Merged(h, me), me)
  BY <1>0 DEF WalkRecord
<1>. HIDE DEF i
<1>3. c \in [Step -> Outcome]
  BY <1>0, <1>1 DEF Copy
<1>9. c = Noted
  BY DEF Noted, i
<1>4. h = [heap EXCEPT ![me] = x]
  BY <1>0, <1>1
<1>. HIDE DEF c
<1>5. x \in Copy /\ x.status = heap[me].status /\ x.cur = heap[me].cur /\ x.comp = c /\ x.res = heap[me].res
  BY <1>0, <1>1, <1>3 DEF Copy
<1>. HIDE DEF x
<1>6. h \in [Objs -> Copy] /\ h[me] = x /\ \A y \in Objs \ {me} : h[y] = heap[y]
  BY <1>0, <1>1, <1>4, <1>5
<1>. HIDE DEF h
<1>7. CASE Leave("adv", h, tracked) /\ UNCHANGED parked /\ row.status \in Terminal
  <2>1. AdvRests(tracked)
    BY <1>6, <1>7, LeaveRests
  <2>. QED  BY <1>0, <1>7, <2>1, WalkRestsTurn
<1>8. CASE row.status \notin Terminal /\ Request("adv", "wprogress", Merged(h, me), me)
  <2>. DEFINE g == Merged(h, me)
  <2>1. /\ g \in [Objs -> Copy] /\ g[me].cur = h[me].cur /\ g[me].status = h[me].status
        /\ g[me].res = h[me].res
        /\ \A y \in Objs \ {me} : g[y] = h[y]
        /\ Successes(g[me].comp) = Successes(row.comp) \cup Successes(h[me].comp)
    BY <1>0, <1>1, <1>6, MergedType, MergedEffect
  <2>a. h[me].comp = Noted /\ h[me].cur = heap[me].cur /\ h[me].status = heap[me].status /\ h[me].res = heap[me].res
        /\ \A y \in Objs \ {me} : h[y] = heap[y]
    BY <1>5, <1>6, <1>9
  <2>. HIDE DEF g
  <2>2. AdvAsks("wprogress", g[me])
    BY <1>0, <1>8, <2>1, <2>a, AsksEffect DEF g
  <2>3. AskOK("wprogress", g[me]) /\ AskRecords("wprogress", g[me])
    BY <1>0, <1>8, <2>1, <2>a DEF AskOK, AskRecords, Asked, PassKinds, WalkKinds, Basics
  <2>4. pc["adv"] # "idle"
    BY <1>0
  <2>. QED  BY <1>0, <2>2, <2>3, <2>4, AsksTurn
<1>. QED  BY <1>2, <1>7, <1>8

LEMMA WalkFinishTurn == ASSUME CInv, Dir, WalkFinish PROVE AdvTurn
<1>0. /\ claim.dir = "compensation" /\ Basics /\ ~Out("adv")
      /\ pc["adv"] = "wundo" /\ me \in Objs /\ "COMPENSATED" \in Status
      /\ up /\ UNCHANGED <<row, cache, up, late, eff>>
  <2>1. up /\ pc["adv"] = "wundo" /\ UNCHANGED <<row, cache, up, late, eff>>
    BY DEF WalkFinish, durable
  <2>2. tx["adv"] = NoTx /\ claim.dir = "compensation"
    BY <2>1, BasicsHold DEF Basics, CInv, Order, Claims, WalkLabels
  <2>. QED  BY <2>1, <2>2, BasicsHold, Walking, NoTxFields
            DEF Out, Basics, Holding, Status, Terminal
<1>1. CASE Stay("adv")
  <2>1. AdvRests(tracked)
    BY <1>1, LeaveRests DEF Stay
  <2>. QED  BY <1>0, <2>1, WalkRestsTurn
<1>2. CASE Request("adv", "wdone", [heap EXCEPT ![me].status = "COMPENSATED"], me)
  <2>1. AdvAsks("wdone", Put(heap[me], "COMPENSATED"))
    BY <1>0, <1>2, AsksPut
  <2>2. AskOK("wdone", Put(heap[me], "COMPENSATED")) /\ AskRecords("wdone", Put(heap[me], "COMPENSATED"))
    BY <1>0, PutFields DEF AskOK, AskRecords, Asked, PassKinds, WalkKinds, Basics
  <2>. QED  BY <1>0, <2>1, <2>2, AsksTurn
<1>. QED  BY <1>1, <1>2 DEF WalkFinish

LEMMA WalkSettledTurn == ASSUME CInv, Dir, WalkSettled PROVE AdvTurn
<1>0. /\ claim.dir = "compensation" /\ Basics /\ ~Out("adv") /\ tx["adv"].kind \in WalkKinds
      /\ pc["adv"] = "write" /\ me \in Objs
      /\ pc \in [Thread -> Label] /\ tx \in [Thread -> Tx]
      /\ up /\ UNCHANGED <<row, cache, up, late, eff>>
  <2>1. tx["adv"].kind \in WalkKinds /\ tx["adv"].phase \in {"ok", "refused", "error"}
        /\ up /\ UNCHANGED <<row, cache, up, late, eff>>
    BY DEF WalkSettled, Settled, WalkKinds, durable
  <2>2. pc["adv"] = "write" /\ claim.dir = "compensation"
    BY <2>1, BasicsHold DEF Basics, CInv, Order, Claims
  <2>. QED  BY <2>1, <2>2, BasicsHold, Walking
            DEF CInv, IInv, ThreadsOK, ControlOK, Out, Basics, Holding
<1>1. CASE Stay("adv")
  <2>1. AdvRests(tracked)
    BY <1>1, LeaveRests DEF Stay
  <2>. QED  BY <1>0, <2>1, WalkRestsTurn
<1>2. CASE StopTracking("adv") /\ (tx["adv"].kind = "wdone" \/ tx["adv"].phase = "refused")
  <2>1. AdvRests(NoObj)
    BY <1>2, LeaveRests DEF StopTracking
  <2>2. tx["adv"].phase = "refused" => row.status # "COMPENSATING"
    BY <1>0 DEF Dir, Settling, Basics, Terminal
  <2>. QED  BY <1>0, <1>2, <2>1, <2>2, WalkRestsTurn
<1>3. CASE /\ tx["adv"].phase = "ok" /\ pc' = [pc EXCEPT !["adv"] = "wundo"] /\ tx' = [tx EXCEPT !["adv"] = NoTx]
           /\ UNCHANGED <<memory, parked, claim, queue>>
  <2>1. me' = me /\ (row.status = "COMPENSATING" => heap'[me'].status \in Back)
    BY <1>0, <1>3 DEF Dir, InMemory, me, memory
  <2>2. WalkOn
    BY <1>0, <1>3, <2>1 DEF WalkOn, WalkLabels, PivotOut, memory, Basics
  <2>3. pc'["adv"] = "wundo" /\ pc["adv"] # "idle"
    BY <1>0, <1>3 DEF Basics
  <2>. QED  BY <1>0, <1>3, <2>2, <2>3 DEF AdvTurn, TurnWalks, memory
<1>. QED  BY <1>1, <1>2, <1>3 DEF WalkSettled, Settled

-----------------------------------------------------------------------------
(* Failures settle, and the timeout checker. *)

\* failSaga settles for the pass that called it; a pass is not led to the liveness
\* check.
LEMMA AdvFailsTurn == ASSUME CInv, Dir, FailSettled("adv") PROVE AdvTurn
<1>0. /\ Basics /\ ~Out("adv") /\ pc["adv"] = "write" /\ up /\ UNCHANGED <<row, cache, up, late, eff>>
      /\ tx["adv"].kind \in EndKinds /\ tx["adv"].phase \in {"ok", "refused"} /\ ~Fwd
  <2>1. /\ tx["adv"].kind \in {"failstep", "fail", "timeout"} /\ tx["adv"].phase \in {"ok", "refused", "error"}
        /\ up /\ UNCHANGED <<row, cache, up, late, eff>>
    BY DEF FailSettled, Settled, durable, world
  <2>2. tx["adv"].kind \in EndKinds /\ tx["adv"].phase \in {"ok", "refused"}
    BY <2>1, BasicsHold DEF Dir, Healthy, Basics, EndKinds
  <2>3. ~Fwd
    BY <2>2, BasicsHold DEF Dir, Settling, Basics, Fwd, Onward, Terminal
  <2>. QED  BY <2>1, <2>2, <2>3, BasicsHold DEF Basics, Out
<1>1. \E again, h : /\ EndPass(again, h, NoObj, queue) /\ parked' = FALSE
                    /\ row.status \in Terminal \/ h = heap
                    /\ \A y \in Objs \ {me} : h[y] = heap[y]
  <2>1. tx["adv"].phase = "refused" => row.status \in Terminal
    BY <1>0 DEF Dir, Settling, Basics
  <2>2. \A y \in Objs \ {me} : [heap EXCEPT ![ref["adv"]].status = tx["adv"].was][y] = heap[y]
    BY DEF me, CInv, IInv, ThreadsOK, ControlOK
  <2>. QED  BY <1>0, <2>1, <2>2 DEF FailSettled, Settled
<1>2. AdvRests(NoObj)
  BY <1>1, EndPassRests
<1>3. row.status = "COMPENSATING" => tx["adv"].kind = "timeout"
  BY <1>0 DEF Dir, Turning, Pass, PassKinds, EndKinds
<1>. QED  BY <1>0, <1>2, <1>3, RestsTurn

\* Whatever turn it takes.
LEMMA TurnDir == ASSUME CInv, Dir, AdvTurn PROVE Dir'
<1>0. /\ up /\ ~Out("adv") /\ pc["adv"] # "idle" /\ UNCHANGED <<row, up, late>>
      /\ TurnAsks \/ TurnRests \/ TurnLoads \/ GoesOn \/ Execute \/ TurnWalks
  BY DEF AdvTurn
<1>1. CASE TurnAsks
  BY <1>0, <1>1, AsksDir DEF TurnAsks
<1>2. CASE TurnRests
  <2>1. cache' = cache \/ (Fwd => cache'.status \in {"NONE", "PENDING", "RUNNING"})
    BY <1>2, LoadedWhere DEF TurnRests, Dir, RowAbreast, Fwd, Onward
  <2>2. PICK t : AdvRests(t) /\ (Fwd /\ t # tracked => ChkEnds')
    BY <1>2 DEF TurnRests
  <2>. QED  BY <1>0, <1>2, <2>1, <2>2, RestsDir DEF TurnRests
<1>3. CASE TurnWalks
  BY <1>0, <1>3, Walking, WalkOnDir DEF TurnWalks
<1>. QED  BY <1>0, <1>1, <1>2, <1>3, LoadsDir, GoOnDir, ExecuteDir

LEMMA AdvanceTurns ==
  ASSUME CInv, Dir, Steady', Advance
  PROVE  AdvTurn \/ Write("adv")
<1>1. ~Liveness("adv")
  BY DEF Liveness, Dir, Healthy
<1>2. Execute => AdvTurn
  BY BasicsHold DEF Execute, AdvTurn, Basics, Out, durable, Thread
<1>. QED  BY <1>1, <1>2, LoadPassTurn, ReadStatusTurn, SettleTurn, PassWroteTurn, PassEndsTurn,
             WalkOpensTurn, WalkSyncTurn, UndoTurn, WalkRecordTurn, WalkFinishTurn, WalkSettledTurn,
             AdvFailsTurn DEF Advance

\* The checker's turn ends, or goes on to the liveness check.
ChkRests(t) ==
  /\ tx'["chk"] = NoTx /\ pc'["chk"] \in {"idle", "liveness"}
  /\ \A b \in Thread \ {"chk"} : ref'[b] = ref[b] /\ tx'[b] = tx[b] /\ pc'[b] = pc[b]
  /\ tracked' = t /\ UNCHANGED <<claim, queue>>
  /\ \A b \in Thread \ {"chk"} : ref[b] \in Objs =>
       /\ row.status \notin Terminal => heap'[ref[b]] = heap[ref[b]]
       /\ heap'[ref[b]].cur = heap[ref[b]].cur
       /\ tx["chk"].phase # "refused" \/ ref[b] # ref["chk"] => heap'[ref[b]] = heap[ref[b]]
  /\ t = NoObj /\ tracked # NoObj => row.status \in Terminal \/ Ended(tracked) \/ tx["chk"].phase = "ok"
  /\ row.status \notin Terminal => /\ t = tracked => heap'[t] = heap[t] \/ t = NoObj
                                   /\ t \notin {tracked, NoObj} => heap'[t] = row
  /\ Fwd => /\ t = NoObj => tracked = NoObj \/ AdvEnds
            /\ t \notin {tracked, NoObj} \/ pc'["chk"] = "liveness"
                 => tx["adv"].kind \in {"begin", "reopen"} /\ Out("adv")

LEMMA ChkRestsDir ==
  ASSUME CInv, Dir, NEW t, ChkRests(t), ~Out("chk"), tx["op"].kind # "start", row.status # "NONE",
         UNCHANGED <<row, cache, up, late, eff>>
  PROVE  Dir'
<1>0. Basics
  BY BasicsHold
<1>1. /\ me' = me /\ tx'["chk"].phase = "none" /\ tx'["chk"].kind = "none"
      /\ \A a \in Thread : Out(a)' <=> Out(a)
      /\ ~Out("chk")' /\ ~ChkEnds
      /\ row.status \notin Terminal => \A a \in Thread : Out(a) => Will(a)' = Will(a)
  BY <1>0, NoTxFields DEF ChkRests, Out, Will, ChkEnds, Basics
<1>2. /\ Fwd' <=> Fwd
      /\ WalkDue' <=> WalkDue
      /\ Reverted' <=> Reverted
      /\ PivotOut' <=> PivotOut
      /\ Pass' <=> Pass
      /\ AdvEnds' <=> AdvEnds
      /\ Doomed => Doomed'
      /\ Fwd => row.status \notin Terminal
  BY <1>0, <1>1 DEF ChkRests, Fwd, WalkDue, Reverted, PivotOut, Pass, AdvEnds, Doomed, Basics, Onward, Terminal
<1>3. Pass \/ pc["adv"] = "status" => me \in Objs
  BY <1>0, NoTxFields DEF CInv, IInv, ThreadsOK, RefOK, Holding, Basics, Pass, PassKinds
<1>4. /\ me \in Objs => (Abreast(heap[me])' <=> Abreast(heap[me])) /\ heap'[me].cur = heap[me].cur
      /\ me \in Objs /\ row.status \notin Terminal => heap'[me] = heap[me]
  BY <1>0, <1>1, <1>2 DEF ChkRests, Abreast, Basics
<1>10. Healthy' /\ Unborn' /\ Starting'
  BY <1>0, <1>1 DEF Dir, Healthy, Unborn, Starting, ChkRests, Basics
<1>11. TurnedBack' /\ Turning'
  BY <1>0, <1>1, <1>2 DEF Dir, TurnedBack, Turning, ChkRests, Basics
<1>12. PassAbreast'
  BY <1>0, <1>1, <1>2, <1>3, <1>4 DEF Dir, PassAbreast, ChkRests, Basics
<1>13. ReadAbreast'
  BY <1>0, <1>1, <1>2, <1>3, <1>4 DEF Dir, ReadAbreast, ChkRests, Basics
<1>14. RowAbreast'
  BY <1>0, <1>1, <1>2, <1>3, <1>4 DEF Dir, RowAbreast, ChkRests, Basics, Abreast, Pass, PassKinds
<1>15. TrackedAbreast'
  BY <1>0, <1>1, <1>2 DEF Dir, TrackedAbreast, RowAbreast, ChkRests, Abreast
<1>16. OneCopy'
  BY <1>0, <1>1, <1>2 DEF Dir, OneCopy, ChkRests, Basics, Out
<1>17. Settling'
  BY <1>0, <1>1, <1>2 DEF Dir, Settling, ChkRests, Basics
<1>18. InMemory'
  <2>1. Fwd /\ t # NoObj =>
          /\ heap'[t].status \notin {"NONE", "COMPENSATED"}
          /\ heap'[t].status = "FAILED" => AdvEnds
          /\ heap'[t].status = "COMPENSATING" => tx["adv"].kind \in {"begin", "reopen"} /\ Out("adv")
          /\ heap'[t].status = "COMPLETED" => tx["adv"].kind = "complete" /\ Out("adv")
    BY <1>2 DEF Dir, InMemory, ChkRests, Fwd, Onward
  <2>2. row.status = "COMPENSATING" => row.status \notin Terminal
    BY DEF Terminal
  <2>3. pc["adv"] \in {"wundo", "wrecord"} \/ tx["adv"].kind \in WalkKinds => me \in Objs
    BY <1>0, NoTxFields DEF CInv, IInv, ThreadsOK, RefOK, Holding, Basics, WalkKinds
  <2>. QED  BY <1>0, <1>1, <1>2, <1>3, <1>4, <2>1, <2>2, <2>3 DEF Dir, InMemory, ChkRests, Basics
<1>19. ForwardWrites' /\ BackWrites' /\ EndWrites'
  <2>1. ForwardWrites'
    BY <1>0, <1>1, <1>2 DEF Dir, ForwardWrites, ChkRests, Basics
  <2>2. BackWrites'
    BY <1>0, <1>1, <1>2 DEF Dir, BackWrites, ChkRests, Basics, Terminal
  <2>3. EndWrites'
    <3>1. /\ tx'["adv"] = tx["adv"]
          /\ Out("adv")' <=> Out("adv")
          /\ ~Out("chk")'
          /\ row.status \notin Terminal /\ Out("adv") => Will("adv")' = Will("adv")
      BY <1>0, <1>1 DEF ChkRests, Basics
    <3>2. AdvEnds => Out("adv")
      BY DEF AdvEnds
    <3>. QED  BY <1>2, <3>1, <3>2 DEF Dir, EndWrites
  <2>. QED  BY <2>1, <2>2, <2>3
<1>20. Rewarming'
  <2>. SUFFICES ASSUME Out("boot") PROVE Rewarming'
    BY <1>0, <1>1 DEF Rewarming, Basics
  <2>1. Will("boot")' = Will("boot") /\ Fwd /\ tx["adv"].kind \notin {"begin", "reopen"}
    BY <1>0, <1>1, <1>2 DEF Dir, Rewarming, Basics
  <2>2. pc'["chk"] = "idle"
    BY <2>1 DEF ChkRests
  <2>. QED  BY <1>0, <1>1, <1>2, <2>1, <2>2 DEF Dir, Rewarming, ChkRests, Abreast, Basics
<1>. QED  BY <1>10, <1>11, <1>12, <1>13, <1>14, <1>15, <1>16, <1>17, <1>18, <1>19, <1>20 DEF Dir

\* The checker fails the saga: on the tracked object, which others may hold, or on
\* one of its own.
Marked(y) ==
  \/ heap'[y] = heap[y]
  \/ /\ y = tracked /\ heap[y].status \notin Terminal \cup {"COMPENSATING"}
     /\ heap'[y].status = "FAILED" /\ heap'[y].cur = heap[y].cur /\ heap'[y].comp = heap[y].comp
ChkAsks ==
  /\ tx'["chk"].phase = "begun" /\ tx'["chk"].kind = "timeout" /\ tx'["chk"].ahead = Line("chk")
  /\ pc'["chk"] = "write" /\ heap'[ref'["chk"]].status = "FAILED"
  /\ \/ tracked \in Objs /\ heap[tracked].status \notin Terminal \cup {"COMPENSATING"}
        /\ Expired /\ tx'["chk"].copy.comp = heap[tracked].comp
     \/ /\ row.status = "COMPENSATING" /\ tx'["chk"].copy.comp = row.comp
        /\ ref'["chk"] \notin {tracked, me} /\ heap'[ref'["chk"]].res = row.res
        /\ \A b \in Thread \ {"chk"} : ref[b] \in Objs => heap'[ref[b]] = heap[ref[b]]
        /\ tracked \in Objs => heap'[tracked] = heap[tracked]
  /\ \A b \in Thread \ {"chk"} : ref'[b] = ref[b] /\ tx'[b] = tx[b] /\ pc'[b] = pc[b]
  /\ \A b \in Thread \ {"chk"} : ref[b] \in Objs => Marked(ref[b])
  /\ tracked \in Objs => Marked(tracked)
  /\ UNCHANGED <<tracked, parked, claim, queue>>
  /\ Fwd /\ Overtakes => "saga" \in late

LEMMA ChkAsksDir ==
  ASSUME CInv, Dir, ChkAsks, ~Out("chk"), tx["op"].kind # "start", row.status # "NONE",
         UNCHANGED <<row, cache, up, late, eff>>
  PROVE  Dir'
<1>0. Basics
  BY BasicsHold
<1>1. /\ me' = me /\ ~ChkEnds
      /\ \A a \in Thread \ {"chk"} : Out(a)' <=> Out(a)
      /\ Out("chk")' /\ Will("chk")'.status = "FAILED"
      /\ \A a \in Thread \ {"chk"} : Out(a) =>
           \/ Will(a)' = Will(a)
           \/ /\ Will(a)'.status = "FAILED" /\ Will(a)'.cur = Will(a).cur
              /\ Will(a).status \notin Terminal \cup {"COMPENSATING"}
  BY <1>0 DEF ChkAsks, Marked, Out, Will, ChkEnds, Basics
<1>2. /\ Fwd' <=> Fwd
      /\ WalkDue' <=> WalkDue
      /\ Reverted' <=> Reverted
      /\ PivotOut' <=> PivotOut
      /\ Pass' <=> Pass
      /\ AdvEnds' <=> AdvEnds
      /\ Doomed => Doomed'
      /\ Fwd => row.status \notin Terminal
  BY <1>0, <1>1 DEF ChkAsks, Fwd, WalkDue, Reverted, PivotOut, Pass, AdvEnds, Doomed, Basics, Onward, Terminal
<1>3. Pass \/ pc["adv"] = "status" => me \in Objs
  BY <1>0, NoTxFields DEF CInv, IInv, ThreadsOK, RefOK, Holding, Basics, Pass, PassKinds
<1>4. /\ me \in Objs => heap'[me].cur = heap[me].cur /\ heap'[me].status \in {heap[me].status, "FAILED"}
      /\ tracked \in Objs => heap'[tracked].cur = heap[tracked].cur /\ heap'[tracked].status \in {heap[tracked].status, "FAILED"}
  BY <1>0 DEF ChkAsks, Marked, Basics
<1>10. Healthy' /\ Unborn' /\ Starting'
  BY <1>0, <1>1 DEF Dir, Healthy, Unborn, Starting, ChkAsks, Basics
<1>11. TurnedBack' /\ Turning'
  BY <1>0, <1>1, <1>2 DEF Dir, TurnedBack, Turning, ChkAsks, Basics
<1>12. PassAbreast'
  BY <1>0, <1>1, <1>2, <1>3, <1>4 DEF Dir, PassAbreast, ChkAsks, Basics, Abreast
<1>13. ReadAbreast'
  BY <1>0, <1>1, <1>2, <1>3, <1>4 DEF Dir, ReadAbreast, ChkAsks, Basics, Abreast
<1>14. RowAbreast'
  BY <1>0, <1>1, <1>2, <1>3, <1>4 DEF Dir, RowAbreast, ChkAsks, Basics, Abreast, Pass, PassKinds
<1>15. TrackedAbreast'
  BY <1>0, <1>1, <1>2, <1>4 DEF Dir, TrackedAbreast, ChkAsks, Abreast, Basics
<1>16. OneCopy'
  BY <1>0, <1>1, <1>2 DEF Dir, OneCopy, ChkAsks, Basics
<1>17. Settling'
  BY <1>0, <1>1, <1>2 DEF Dir, Settling, ChkAsks, Basics
<1>18. InMemory'
  <2>1. pc["adv"] \in {"wundo", "wrecord"} \/ tx["adv"].kind \in WalkKinds => me \in Objs
    BY <1>0, NoTxFields DEF CInv, IInv, ThreadsOK, RefOK, Holding, Basics, WalkKinds
  <2>. QED  BY <1>0, <1>1, <1>2, <1>3, <1>4, <2>1 DEF Dir, InMemory, ChkAsks, Basics, Back
<1>19. ForwardWrites' /\ BackWrites' /\ EndWrites'
  <2>1. ForwardWrites'
    BY <1>0, <1>1, <1>2 DEF Dir, ForwardWrites, ChkAsks, Basics, Onward
  <2>2. BackWrites'
    BY <1>0, <1>1, <1>2 DEF Dir, BackWrites, ChkAsks, Basics, Back
  <2>3. EndWrites'
    <3>1. /\ tx'["adv"] = tx["adv"]
          /\ Out("adv")' <=> Out("adv")
          /\ Will("chk")'.status = "FAILED"
          /\ Out("adv") => \/ Will("adv")' = Will("adv")
                           \/ Will("adv")'.status = "FAILED" /\ Will("adv").status # "COMPENSATING"
      BY <1>0, <1>1 DEF ChkAsks, Basics
    <3>2. AdvEnds => Out("adv")
      BY DEF AdvEnds
    <3>. QED  BY <1>2, <3>1, <3>2 DEF Dir, EndWrites
  <2>. QED  BY <2>1, <2>2, <2>3
<1>20. Rewarming'
  <2>. SUFFICES ASSUME Out("boot") PROVE Rewarming'
    BY <1>0, <1>1 DEF Rewarming, Basics
  <2>1. Abreast(Will("boot"))'
    BY <1>0, <1>1, <1>2 DEF Dir, Rewarming, Basics, Abreast
  <2>2. "boot" \in Line("chk")
    BY <1>0 DEF Dir, Rewarming, Line, Out, Basics
  <2>. QED  BY <1>0, <1>1, <1>2, <2>1, <2>2 DEF Dir, Rewarming, ChkAsks, Basics
<1>. QED  BY <1>10, <1>11, <1>12, <1>13, <1>14, <1>15, <1>16, <1>17, <1>18, <1>19, <1>20 DEF Dir

\* The turns the checker may take.
ChkTurn ==
  /\ ~Out("chk") /\ tx["op"].kind # "start" /\ row.status # "NONE"
  /\ UNCHANGED <<row, cache, up, late, eff>>
  /\ (\E t : ChkRests(t)) \/ ChkAsks

LEMMA ChkTurnDir == ASSUME CInv, Dir, ChkTurn PROVE Dir'
  BY ChkRestsDir, ChkAsksDir DEF ChkTurn

LEMMA CheckerTickTurn == ASSUME CInv, Dir, Steady', CheckerTick PROVE ChkTurn
<1>0. /\ Basics /\ ControlOK /\ tracked \in Objs /\ pc["chk"] = "idle" /\ tx["chk"] = NoTx /\ ~Out("chk")
      /\ row.status # "NONE" /\ tx["op"].kind # "start"
      /\ UNCHANGED <<row, cache, up, late, eff, spent>>
  <2>1. tracked # NoObj /\ pc["chk"] = "idle" /\ UNCHANGED <<row, cache, up, late, eff, spent>>
    BY DEF CheckerTick, durable, world
  <2>2. tx["chk"] = NoTx
    BY <2>1, BasicsHold DEF Basics
  <2>. QED  BY <2>1, <2>2, BasicsHold, NoTxFields DEF Basics, Out, CInv, IInv, ThreadsOK, Dir, Unborn, Starting
<1>1. CASE Ended(tracked) /\ StopTracking("chk")
  <2>1. Freed("chk", heap, NoObj) /\ pc'["chk"] = "idle" /\ UNCHANGED <<claim, queue>>
    BY <1>0, <1>1, LeaveEffect DEF StopTracking, Basics
  <2>2. Fwd => AdvEnds
    BY <1>0, <1>1 DEF Dir, InMemory, Ended, Terminal, AdvEnds, EndKinds, Basics
  <2>3. ChkRests(NoObj)
    BY <1>0, <1>1, <2>1, <2>2 DEF ChkRests, Freed, Basics
  <2>. QED  BY <1>0, <2>3 DEF ChkTurn
<1>2. CASE /\ heap[tracked].status = "COMPENSATING"
           /\ ref' = [ref EXCEPT !["chk"] = tracked]
           /\ pc' = [pc EXCEPT !["chk"] = "liveness"]
           /\ UNCHANGED <<heap, tracked, parked, tx, claim, queue>>
  <2>1. Fwd => tx["adv"].kind \in {"begin", "reopen"} /\ Out("adv")
    BY <1>0, <1>2 DEF Dir, InMemory, Basics
  <2>2. ChkRests(tracked)
    BY <1>0, <1>2, <2>1 DEF ChkRests, ControlOK, Basics
  <2>. QED  BY <1>0, <2>2 DEF ChkTurn
<1>3. CASE /\ heap[tracked].status \notin Terminal \cup {"COMPENSATING"} /\ Expired
           /\ FailSaga("chk", "timeout", heap, tracked)
  <2>. DEFINE h == [heap EXCEPT ![tracked].status = "FAILED"]
  <2>1. /\ \A y \in Objs \ {tracked} : h[y] = heap[y]
        /\ h[tracked].status = "FAILED" /\ h[tracked].cur = heap[tracked].cur
        /\ h[tracked].comp = heap[tracked].comp
    BY <1>0 DEF ControlOK, Copy
  <2>2. Request("chk", "timeout", h, tracked)
    BY <1>3 DEF FailSaga
  <2>. HIDE DEF h
  <2>3. /\ ref'["chk"] = tracked /\ heap'[tracked] = h[tracked] /\ pc'["chk"] = "write"
        /\ tx'["chk"] = NewTx("timeout", h, tracked, Line("chk"))
        /\ \A b \in Thread \ {"chk"} : ref'[b] = ref[b] /\ tx'[b] = tx[b] /\ pc'[b] = pc[b]
        /\ \A b \in Thread \ {"chk"} : ref[b] \in Objs => heap'[ref[b]] = h[ref[b]]
        /\ UNCHANGED <<tracked, parked, claim, queue>>
    BY <1>0, <2>2, RequestEffect DEF Basics
  <2>4. Overtakes => "saga" \in late
    <3>1. parked => spent["crash"] > 0 \/ spent["drain"] > 0
      BY DEF CInv, Order, Stopping
    <3>2. spent["drain"] = 0 /\ (Overtakes => spent["crash"] = 0)
      BY <1>0 DEF Steady
    <3>3. parked => ~Overtakes
      BY <3>1, <3>2
    <3>. QED  BY <1>3, <3>3 DEF Expired
  <2>5. ChkAsks
    BY <1>0, <1>3, <2>1, <2>3, <2>4, NewTxFields DEF ChkAsks, Marked, Basics
  <2>. QED  BY <1>0, <2>5 DEF ChkTurn
<1>. QED  BY <1>1, <1>2, <1>3 DEF CheckerTick, CheckTimeout, Ended

\* The decision is taken on a fresh copy of the row.
LEMMA LivenessTurn == ASSUME CInv, Dir, Steady', NEW a \in {"adv", "chk"}, Liveness(a) PROVE ChkTurn
<1>. DEFINE track == [heap EXCEPT ![Fresh] = row]
<1>0. /\ Basics /\ ControlOK /\ a = "chk" /\ pc["chk"] = "liveness" /\ tx["chk"] = NoTx /\ ~Out("chk")
      /\ row.status # "NONE" /\ tx["op"].kind # "start" /\ ~Spend("db") /\ row \in Copy
      /\ UNCHANGED <<row, cache, up, late, eff>>
  <2>1. a = "chk" /\ pc["chk"] = "liveness" /\ UNCHANGED <<row, cache, up, late, eff>>
    BY DEF Liveness, durable, Dir, Healthy
  <2>2. tx["chk"] = NoTx
    BY <2>1, BasicsHold DEF Basics
  <2>. QED  BY <2>1, <2>2, BasicsHold, SteadySpends, NoTxFields
            DEF Basics, Out, CInv, IInv, DurableOK, ThreadsOK, Dir, Unborn, Starting
<1>1. Fresh \in Objs /\ Fresh # tracked /\ \A b \in Thread : ref[b] # Fresh
  BY <1>0, FreshType DEF ControlOK
<1>2. track[Fresh] = row /\ track \in [Objs -> Copy] /\ \A y \in Objs \ {Fresh} : track[y] = heap[y]
  BY <1>0, <1>1 DEF ControlOK
<1>3. \/ Stay("chk")
      \/ row.status \in Terminal /\ StopTracking("chk")
      \/ row.status \notin Terminal /\ Leave("chk", track, Fresh)
      \/ row.status = "COMPENSATING" /\ FailSaga("chk", "timeout", track, Fresh)
  BY <1>0 DEF Liveness
<1>4. Fwd => tx["adv"].kind \in {"begin", "reopen"} /\ Out("adv")
  BY <1>0 DEF Dir, Settling
<1>. HIDE DEF track
<1>5. CASE Stay("chk")
  <2>1. Freed("chk", heap, tracked) /\ pc'["chk"] = "idle" /\ UNCHANGED <<claim, queue>>
    BY <1>0, <1>5, LeaveEffect DEF Stay, Basics
  <2>2. ChkRests(tracked)
    BY <1>0, <2>1 DEF ChkRests, Freed, Basics
  <2>. QED  BY <1>0, <2>2 DEF ChkTurn
<1>6. CASE row.status \in Terminal /\ StopTracking("chk")
  <2>1. Freed("chk", heap, NoObj) /\ pc'["chk"] = "idle" /\ UNCHANGED <<claim, queue>>
    BY <1>0, <1>6, LeaveEffect DEF StopTracking, Basics
  <2>2. ChkRests(NoObj)
    BY <1>0, <1>6, <2>1 DEF ChkRests, Freed, Basics, Fwd, Onward, Terminal
  <2>. QED  BY <1>0, <2>2 DEF ChkTurn
<1>7. CASE row.status \notin Terminal /\ Leave("chk", track, Fresh)
  <2>1. Freed("chk", track, Fresh) /\ pc'["chk"] = "idle" /\ UNCHANGED <<claim, queue>>
    BY <1>0, <1>7, LeaveEffect DEF Basics
  <2>2. ChkRests(Fresh)
    BY <1>0, <1>1, <1>2, <1>4, <2>1 DEF ChkRests, Freed, Basics
  <2>. QED  BY <1>0, <2>2 DEF ChkTurn
<1>8. CASE row.status = "COMPENSATING" /\ FailSaga("chk", "timeout", track, Fresh)
  <2>. DEFINE h == [track EXCEPT ![Fresh].status = "FAILED"]
  <2>1. /\ \A y \in Objs \ {Fresh} : h[y] = heap[y]
        /\ h[Fresh].status = "FAILED" /\ h[Fresh].comp = row.comp /\ h[Fresh].res = row.res
    BY <1>1, <1>2 DEF Copy
  <2>2. Request("chk", "timeout", h, Fresh)
    BY <1>8 DEF FailSaga
  <2>. HIDE DEF h
  <2>3. /\ ref'["chk"] = Fresh /\ heap'[Fresh] = h[Fresh] /\ pc'["chk"] = "write"
        /\ tx'["chk"] = NewTx("timeout", h, Fresh, Line("chk"))
        /\ \A b \in Thread \ {"chk"} : ref'[b] = ref[b] /\ tx'[b] = tx[b] /\ pc'[b] = pc[b]
        /\ \A b \in Thread \ {"chk"} : ref[b] \in Objs => heap'[ref[b]] = h[ref[b]]
        /\ tracked \in Objs => heap'[tracked] = h[tracked]
        /\ UNCHANGED <<tracked, parked, claim, queue>>
    BY <1>0, <1>1, <2>2, RequestEffect DEF Basics
  <2>4. ChkAsks
    BY <1>0, <1>1, <1>8, <2>1, <2>3, NewTxFields DEF ChkAsks, Marked, Basics, Fwd, Onward
  <2>. QED  BY <1>0, <2>4 DEF ChkTurn
<1>. QED  BY <1>3, <1>5, <1>6, <1>7, <1>8

LEMMA ChkFailsTurn == ASSUME CInv, Dir, FailSettled("chk") PROVE ChkTurn
<1>. DEFINE restored == [heap EXCEPT ![ref["chk"]].status = tx["chk"].was]
<1>0. /\ Basics /\ ControlOK /\ ~Out("chk") /\ UNCHANGED <<row, cache, up, late, eff>>
      /\ tx["chk"].kind = "timeout" /\ tx["chk"].phase \in {"ok", "refused"} /\ ~Fwd
      /\ row.status # "NONE" /\ tx["op"].kind # "start" /\ pc["chk"] = "write"
  <2>1. /\ tx["chk"].kind \in {"failstep", "fail", "timeout"} /\ tx["chk"].phase \in {"ok", "refused", "error"}
        /\ UNCHANGED <<row, cache, up, late, eff>>
    BY DEF FailSettled, Settled, durable, world
  <2>2. tx["chk"].kind = "timeout" /\ tx["chk"].phase \in {"ok", "refused"} /\ pc["chk"] = "write"
    BY <2>1, BasicsHold DEF Dir, Healthy, Basics, KindsOf
  <2>3. ~Fwd
    BY <2>2, BasicsHold DEF Dir, Settling, Basics, Fwd, Onward, Terminal, EndKinds
  <2>. QED  BY <2>1, <2>2, <2>3, BasicsHold DEF Basics, Out, CInv, IInv, ThreadsOK, Dir, Unborn, Starting
<1>1. \A y \in Objs : restored[y].cur = heap[y].cur
  BY <1>0 DEF ControlOK, Copy
<1>a. \A y \in Objs \ {ref["chk"]} : restored[y] = heap[y]
  BY <1>0 DEF ControlOK
<1>2. \/ tx["chk"].phase = "ok" /\ Leave("chk", heap, NoObj)
      \/ tx["chk"].phase = "refused" /\ row.status \in Terminal /\ Leave("chk", restored, NoObj)
  <2>1. tx["chk"].phase = "refused" => row.status \in Terminal
    BY <1>0 DEF Dir, Settling, Basics
  <2>. QED  BY <1>0, <2>1 DEF FailSettled, Settled
<1>. HIDE DEF restored
<1>3. CASE tx["chk"].phase = "ok" /\ Leave("chk", heap, NoObj)
  <2>1. Freed("chk", heap, NoObj) /\ pc'["chk"] = "idle" /\ UNCHANGED <<claim, queue>>
    BY <1>0, <1>3, LeaveEffect DEF Basics
  <2>2. ChkRests(NoObj)
    BY <1>0, <1>3, <2>1 DEF ChkRests, Freed, Basics
  <2>. QED  BY <1>0, <2>2 DEF ChkTurn
<1>4. CASE tx["chk"].phase = "refused" /\ row.status \in Terminal /\ Leave("chk", restored, NoObj)
  <2>1. Freed("chk", restored, NoObj) /\ pc'["chk"] = "idle" /\ UNCHANGED <<claim, queue>>
    BY <1>0, <1>4, LeaveEffect DEF Basics
  <2>2. ChkRests(NoObj)
    BY <1>0, <1>1, <1>a, <1>4, <2>1 DEF ChkRests, Freed, Basics
  <2>. QED  BY <1>0, <2>2 DEF ChkTurn
<1>. QED  BY <1>2, <1>3, <1>4

LEMMA CheckTurns == ASSUME CInv, Dir, Steady', Check PROVE ChkTurn \/ Write("chk")
  BY CheckerTickTurn, LivenessTurn, ChkFailsTurn DEF Check

-----------------------------------------------------------------------------
(* Everything else. *)

\* A start: there is nothing else yet, and then there is a tracked saga at its
\* first step.
LEMMA StartDir == ASSUME CInv, Dir, StartSaga PROVE Dir'
<1>. DEFINE h == [heap EXCEPT ![Fresh] = StartCopy]
<1>0. /\ Basics /\ ControlOK /\ row.status = "NONE"
      /\ cache.status = "NONE" /\ tracked = NoObj /\ queue = {} /\ claim = NoClaim
      /\ \A a \in Thread \ {"op"} : pc[a] = "idle" /\ tx[a] = NoTx
      /\ \A i \in Step : eff[i] = "absent"
      /\ UNCHANGED <<row, cache, up, late, eff>>
  <2>1. row.status = "NONE" /\ UNCHANGED <<row, cache, up, late, eff>>
    BY DEF StartSaga, durable, world
  <2>2. /\ cache.status = "NONE" /\ tracked = NoObj /\ queue = {}
        /\ \A a \in Thread \ {"op"} : pc[a] = "idle"
        /\ \A i \in Step : eff[i] = "absent"
    BY <2>1 DEF Dir, Unborn
  <2>3. \A a \in Thread \ {"op"} : tx[a] = NoTx
    BY <2>2, BasicsHold DEF Basics
  <2>4. claim = NoClaim
    BY <2>2 DEF CInv, Order, Claims, Thread
  <2>. QED  BY <2>1, <2>2, <2>3, <2>4, BasicsHold DEF CInv, IInv, ThreadsOK
<1>1. Fresh \in Objs /\ StartCopy.status = "PENDING"
  BY <1>0, FreshType DEF ControlOK, StartCopy, Blank
<1>2. h[Fresh] = StartCopy
  BY <1>0, <1>1 DEF ControlOK
<1>3. Request("op", "start", h, Fresh)
  BY DEF StartSaga, StartCopy
<1>. HIDE DEF h
<1>4. /\ ref'["op"] = Fresh /\ heap'[Fresh] = StartCopy
      /\ tx'["op"].phase = "begun" /\ tx'["op"].kind = "start" /\ tx'["op"].copy = StartCopy
      /\ \A b \in Thread \ {"op"} : ref'[b] = ref[b] /\ tx'[b] = NoTx /\ pc'[b] = "idle"
      /\ UNCHANGED <<tracked, parked, claim, queue>>
  <2>1. /\ ref'["op"] = Fresh /\ heap'[Fresh] = h[Fresh]
        /\ tx'["op"] = NewTx("start", h, Fresh, Line("op"))
        /\ \A b \in Thread \ {"op"} : ref'[b] = ref[b] /\ tx'[b] = tx[b] /\ pc'[b] = pc[b]
        /\ UNCHANGED <<tracked, parked, claim, queue>>
    BY <1>0, <1>1, <1>3, RequestEffect DEF Basics
  <2>. QED  BY <1>0, <1>2, <2>1, NewTxFields
<1>5. \A b \in Thread \ {"op"} : tx'[b].phase = "none" /\ tx'[b].kind = "none"
  BY <1>4, NoTxFields
<1>6. /\ ~Fwd' /\ ~Pass' /\ ~WalkDue' /\ ~Reverted'
      /\ \A b \in Thread \ {"op"} : ~Out(b)'
      /\ Out("op")' /\ Will("op")' = StartCopy
  BY <1>0, <1>4, <1>5 DEF Fwd, Onward, Pass, PassKinds, WalkDue, Reverted, Out, Will, Basics, NoClaim
<1>10. Healthy' /\ Unborn' /\ Starting'
  BY <1>0, <1>4, <1>5, <1>6 DEF Healthy, Unborn, Starting, Basics
<1>11. TurnedBack' /\ Turning' /\ PassAbreast' /\ ReadAbreast' /\ TrackedAbreast' /\ RowAbreast' /\ OneCopy'
  BY <1>0, <1>4, <1>5, <1>6
     DEF TurnedBack, Turning, PassAbreast, ReadAbreast, TrackedAbreast, RowAbreast, OneCopy, Basics
<1>12. Settling' /\ InMemory'
  BY <1>0, <1>4, <1>5, <1>6 DEF Settling, InMemory, Basics, EndKinds
<1>13. ForwardWrites' /\ BackWrites' /\ EndWrites' /\ Rewarming'
  BY <1>0, <1>4, <1>5, <1>6 DEF ForwardWrites, BackWrites, EndWrites, Rewarming, Basics, AdvEnds
<1>. QED  BY <1>10, <1>11, <1>12, <1>13 DEF Dir

LEMMA StartSettledDir == ASSUME CInv, Dir, StartSettled PROVE Dir'
<1>0. /\ Basics /\ ControlOK /\ tx["op"].kind = "start" /\ tx["op"].phase = "ok" /\ row.status = "PENDING"
      /\ tracked = NoObj /\ queue = {} /\ claim = NoClaim
      /\ \A a \in Thread \ {"op"} : pc[a] = "idle" /\ tx[a] = NoTx
      /\ \A i \in Step : eff[i] = "absent"
      /\ heap[ref["op"]] = StartCopy /\ ref["op"] \in Objs
      /\ UNCHANGED <<row, cache, up, late, eff, parked, claim>>
  <2>1. tx["op"].kind = "start" /\ tx["op"].phase = "ok" /\ UNCHANGED <<row, cache, up, late, eff, parked, claim>>
    BY BasicsHold DEF StartSettled, Settled, durable, world, Dir, Healthy, Basics
  <2>2. /\ tracked = NoObj /\ queue = {} /\ heap[ref["op"]] = StartCopy /\ row.status = "PENDING"
        /\ \A a \in Thread \ {"op"} : pc[a] = "idle"
        /\ \A i \in Step : eff[i] = "absent"
    BY <2>1 DEF Dir, Starting
  <2>3. \A a \in Thread \ {"op"} : tx[a] = NoTx
    BY <2>2, BasicsHold DEF Basics
  <2>4. claim = NoClaim
    BY <2>2 DEF CInv, Order, Claims, Thread
  <2>5. ref["op"] \in Objs
    BY <2>1 DEF CInv, IInv, ThreadsOK, RefOK, Thread
  <2>. QED  BY <2>1, <2>2, <2>3, <2>4, <2>5, BasicsHold DEF CInv, IInv, ThreadsOK
<1>1. Memory(heap, ref["op"], [ref EXCEPT !["op"] = NoObj]) /\ queue' = {"forward"}
  BY <1>0 DEF StartSettled, Settled
<1>2. /\ tracked' = ref["op"] /\ heap'[tracked'] = StartCopy /\ StartCopy.status = "PENDING"
      /\ \A b \in Thread : tx'[b] = NoTx /\ pc'[b] = "idle"
  <2>1. tx' = [tx EXCEPT !["op"] = NoTx] /\ pc' = [pc EXCEPT !["op"] = "idle"]
    BY DEF StartSettled
  <2>2. tracked' = ref["op"] /\ heap'[tracked'] = StartCopy
    BY <1>0, <1>1 DEF Memory
  <2>. QED  BY <1>0, <2>1, <2>2 DEF ControlOK, StartCopy, Blank
<1>3. \A b \in Thread : tx'[b].phase = "none" /\ tx'[b].kind = "none"
  BY <1>2, NoTxFields
<1>4. /\ Fwd' /\ ~Pass' /\ ~WalkDue' /\ ~Reverted' /\ ~PivotOut'
      /\ \A b \in Thread : ~Out(b)'
  <2>1. Pivot \in Step
    BY StepsAssumption
  <2>. QED  BY <1>0, <1>1, <1>2, <1>3, <2>1
            DEF Fwd, Onward, Pass, PassKinds, WalkDue, Reverted, PivotOut, Out, Basics, NoClaim
<1>5. Abreast(row)' /\ Abreast(heap[tracked])' /\ cache'.status \in {"NONE", "PENDING", "RUNNING"}
  BY <1>0, <1>4 DEF Abreast, Dir, RowAbreast, Fwd, Onward
<1>10. Healthy' /\ Unborn' /\ Starting'
  BY <1>0, <1>2, <1>3 DEF Healthy, Unborn, Starting, Basics
<1>11. TurnedBack' /\ Turning' /\ PassAbreast' /\ ReadAbreast' /\ TrackedAbreast' /\ RowAbreast' /\ OneCopy'
  BY <1>0, <1>2, <1>3, <1>4, <1>5
     DEF TurnedBack, Turning, PassAbreast, ReadAbreast, TrackedAbreast, RowAbreast, OneCopy, Basics
<1>12. Settling' /\ InMemory'
  BY <1>0, <1>2, <1>3, <1>4 DEF Settling, InMemory, Basics, EndKinds, WalkKinds
<1>13. ForwardWrites' /\ BackWrites' /\ EndWrites' /\ Rewarming'
  BY <1>0, <1>4 DEF ForwardWrites, BackWrites, EndWrites, Rewarming, Basics, AdvEnds
<1>. QED  BY <1>10, <1>11, <1>12, <1>13 DEF Dir

\* Steps that touch neither the row nor memory: a dispatch, an event, the retry scan,
\* the cache and the clock.
Quiet ==
  /\ UNCHANGED <<row, heap, tracked, ref, parked, tx, up, eff>>
  /\ \A b \in Thread \ {"adv"} : pc'[b] = pc[b]
  /\ \/ pc'["adv"] = pc["adv"]
     \/ pc["adv"] = "idle" /\ pc'["adv"] = "load"
     \/ pc["adv"] = "idle" /\ pc'["adv"] = "wstatus" /\ WalkDue
  /\ WalkDue' => WalkDue
  /\ \/ queue' = queue /\ pc'["adv"] = pc["adv"]
     \/ row.status # "NONE" /\ tx["op"].kind # "start"
  /\ cache' = cache \/ cache'.status = "NONE" \/ (row.status # "NONE" /\ cache' = row)
  /\ "saga" \in late => "saga" \in late'

LEMMA QuietDir == ASSUME CInv, Dir, Quiet PROVE Dir'
<1>0. Basics
  BY BasicsHold
<1>1. /\ me' = me
      /\ \A a \in Thread : Out(a)' <=> Out(a)
      /\ \A a \in Thread : Will(a)' = Will(a)
      /\ Fwd' <=> Fwd
      /\ Reverted' <=> Reverted
      /\ PivotOut' <=> PivotOut
      /\ Pass' <=> Pass
      /\ AdvEnds' <=> AdvEnds
      /\ ChkEnds => ChkEnds'
  BY <1>0 DEF Quiet, me, Out, Will, Fwd, Reverted, PivotOut, Pass, AdvEnds, ChkEnds
<1>2. /\ Doomed => Doomed'
      /\ Abreast(row)' <=> Abreast(row)
      /\ Abreast(heap[me])' <=> Abreast(heap[me])
      /\ Abreast(heap[tracked])' <=> Abreast(heap[tracked])
      /\ Abreast(Will("boot"))' <=> Abreast(Will("boot"))
  BY <1>0, <1>1 DEF Quiet, Doomed, Abreast, Basics
<1>3. WalkDue => ~Fwd
  BY DEF Dir, TurnedBack, Fwd, Onward, Back
<1>4. pc["adv"] = "idle" => tx["adv"].phase = "none" /\ tx["adv"].kind = "none"
  BY <1>0, NoTxFields DEF Basics
<1>10. Healthy'
  BY <1>0, <1>1 DEF Dir, Healthy, Quiet, Basics
<1>11. Unborn' /\ Starting'
  BY <1>0, <1>1 DEF Dir, Unborn, Starting, Quiet, Basics
<1>12. TurnedBack' /\ Turning'
  BY <1>0, <1>1 DEF Dir, TurnedBack, Turning, Quiet
<1>13. PassAbreast' /\ ReadAbreast' /\ TrackedAbreast' /\ OneCopy'
  BY <1>0, <1>1, <1>2 DEF Dir, PassAbreast, ReadAbreast, TrackedAbreast, OneCopy, Quiet
<1>14. RowAbreast'
  BY <1>0, <1>1, <1>2 DEF Dir, RowAbreast, Quiet, Fwd, Onward
<1>15. Settling' /\ InMemory'
  BY <1>0, <1>1 DEF Dir, Settling, InMemory, Quiet, Basics
<1>16. ForwardWrites' /\ BackWrites' /\ EndWrites'
  BY <1>0, <1>1 DEF Dir, ForwardWrites, BackWrites, EndWrites, Quiet, Basics
<1>17. Rewarming'
  BY <1>0, <1>1, <1>2, <1>3 DEF Dir, Rewarming, Quiet, Basics
<1>. QED  BY <1>10, <1>11, <1>12, <1>13, <1>14, <1>15, <1>16, <1>17 DEF Dir

LEMMA DispatchDir == ASSUME CInv, Dir, Dispatch PROVE Dir'
<1>0. /\ Basics /\ ControlOK /\ queue # {} /\ queue' \subseteq queue /\ row.status # "NONE" /\ tx["op"].kind # "start"
      /\ UNCHANGED <<row, cache, heap, tracked, ref, parked, tx, up, late, eff>>
  <2>1. /\ queue # {} /\ queue' \subseteq queue
        /\ UNCHANGED <<row, cache, heap, tracked, ref, parked, tx, up, late, eff>>
    BY DEF Dispatch, DispatchForward, DispatchWalk, durable, memory, world
  <2>. QED  BY <2>1, BasicsHold DEF CInv, IInv, ThreadsOK, Dir, Unborn, Starting
<1>1. claim.dir = "none" => pc["adv"] = "idle"
  <2>1. pc["adv"] \in Label
    BY <1>0 DEF ControlOK, Basics
  <2>. QED  BY <1>0, <2>1 DEF CInv, Order, Claims, Basics, KindsOf, PassLabels, WalkLabels, Label
<1>2. CASE \E trigger \in {"forward", "event"} : DispatchForward(trigger)
  <2>1. PICK trigger \in {"forward", "event"} : DispatchForward(trigger)
    BY <1>2
  <2>2. /\ \A b \in Thread \ {"adv"} : pc'[b] = pc[b]
        /\ pc'["adv"] = pc["adv"] \/ (pc["adv"] = "idle" /\ pc'["adv"] = "load")
    BY <1>0, <1>1, <2>1 DEF DispatchForward, ControlOK, Basics
  <2>3. claim'.dir \in {claim.dir, "forward"} /\ (claim'.pendingWalk => claim.pendingWalk)
    <3>1. /\ [NoClaim EXCEPT !.dir = "forward"].dir = "forward"
          /\ [NoClaim EXCEPT !.dir = "forward"].pendingWalk = FALSE
      BY DEF NoClaim
    <3>2. /\ [claim EXCEPT !.rerun = TRUE].dir = claim.dir
          /\ [claim EXCEPT !.rerun = TRUE].pendingWalk = claim.pendingWalk
      BY <1>0 DEF ControlOK
    <3>. QED  BY <2>1, <3>1, <3>2 DEF DispatchForward
  <2>4. WalkDue' => WalkDue
    BY <1>0, <2>3 DEF WalkDue
  <2>. QED  BY <1>0, <2>2, <2>4, QuietDir DEF Quiet
<1>3. CASE DispatchWalk
  <2>1. WalkDue
    BY <1>3 DEF DispatchWalk, WalkDue
  <2>2. /\ \A b \in Thread \ {"adv"} : pc'[b] = pc[b]
        /\ pc'["adv"] = pc["adv"] \/ (pc["adv"] = "idle" /\ pc'["adv"] = "wstatus")
    BY <1>0, <1>1, <1>3 DEF DispatchWalk, ControlOK, Basics
  <2>. QED  BY <1>0, <2>1, <2>2, QuietDir DEF Quiet
<1>. QED  BY <1>2, <1>3 DEF Dispatch

LEMMA OutsideDir ==
  ASSUME CInv, Dir, WorkerEvent \/ RetryScan \/ CacheExpires \/ (\E horizon \in Horizon : Tick(horizon))
  PROVE  Dir'
<1>0. Basics
  BY BasicsHold
<1>1. CASE WorkerEvent
  <2>1. /\ queue' = queue \cup {"event"} /\ eff[Pivot] = "present"
        /\ UNCHANGED <<row, heap, tracked, ref, parked, pc, tx, claim, up, late, eff>>
        /\ cache' \in {row, cache}
    BY <1>1, LoadedWhere DEF WorkerEvent, durable, memory
  <2>2. row.status # "NONE" /\ tx["op"].kind # "start"
    BY <2>1, StepsAssumption DEF Dir, Unborn, Starting
  <2>3. WalkDue' <=> WalkDue
    BY <2>1 DEF WalkDue
  <2>. QED  BY <2>1, <2>2, <2>3, QuietDir DEF Quiet
<1>2. CASE RetryScan
  <2>1. /\ queue' = queue \cup {"forward"} /\ row.status \in {"RUNNING", "PENDING"} /\ row.armed
        /\ UNCHANGED <<row, cache, heap, tracked, ref, parked, pc, tx, claim, up, late, eff>>
    BY <1>2 DEF RetryScan, durable, memory, world
  <2>2. row.status # "NONE" /\ tx["op"].kind # "start"
    BY <2>1 DEF Dir, Starting
  <2>3. WalkDue' <=> WalkDue
    BY <2>1 DEF WalkDue
  <2>. QED  BY <2>1, <2>2, <2>3, QuietDir DEF Quiet
<1>3. CASE CacheExpires
  <2>1. Blank.status = "NONE"
    BY DEF Blank
  <2>. QED  BY <1>3, <2>1, QuietDir DEF Quiet, CacheExpires, durable, control, WalkDue
<1>4. CASE \E horizon \in Horizon : Tick(horizon)
  BY <1>4, QuietDir DEF Quiet, Tick, durable, control, WalkDue
<1>. QED  BY <1>1, <1>2, <1>3, <1>4

\* The detached re-warm is done.
LEMMA RewarmDir == ASSUME CInv, Dir, RewarmSettled PROVE Dir'
<1>0. /\ Basics /\ ControlOK /\ pc["boot"] = "write" /\ ~Out("boot")
      /\ UNCHANGED <<row, cache, up, late, eff>> /\ Stay("boot")
      /\ row.status # "NONE" /\ tx["op"].kind # "start"
  <2>1. /\ tx["boot"].phase \in {"ok", "refused", "error"}
        /\ UNCHANGED <<row, cache, up, late, eff>> /\ Stay("boot")
    BY DEF RewarmSettled, Settled, durable, world
  <2>2. pc["boot"] = "write"
    BY <2>1, BasicsHold DEF Basics
  <2>. QED  BY <2>1, <2>2, BasicsHold DEF CInv, IInv, ThreadsOK, Out, Dir, Unborn, Starting, Basics
<1>1. Freed("boot", heap, tracked) /\ pc'["boot"] = "idle" /\ UNCHANGED <<claim, queue, parked>>
  BY <1>0, LeaveEffect DEF Stay, Basics
<1>2. /\ me' = me /\ tx'["boot"].phase = "none" /\ tx'["boot"].kind = "none"
      /\ \A b \in Thread \ {"boot"} : ref'[b] = ref[b] /\ tx'[b] = tx[b] /\ pc'[b] = pc[b]
      /\ \A b \in Thread \ {"boot"} : ref[b] \in Objs => heap'[ref[b]] = heap[ref[b]]
      /\ tracked' = tracked /\ (tracked \in Objs => heap'[tracked] = heap[tracked])
  BY <1>0, <1>1, NoTxFields DEF Freed, Basics
<1>3. /\ \A a \in Thread : Out(a)' <=> Out(a)
      /\ \A a \in Thread : Out(a) => Will(a)' = Will(a)
      /\ ~Out("boot")'
  BY <1>0, <1>2 DEF Out, Will, Basics
<1>4. /\ Fwd' <=> Fwd
      /\ WalkDue' <=> WalkDue
      /\ Reverted' <=> Reverted
      /\ PivotOut' <=> PivotOut
      /\ Pass' <=> Pass
      /\ AdvEnds' <=> AdvEnds
      /\ ChkEnds => ChkEnds'
  BY <1>0, <1>1, <1>2, <1>3 DEF Fwd, WalkDue, Reverted, PivotOut, Pass, AdvEnds, ChkEnds, Basics
<1>5. /\ Doomed => Doomed'
      /\ me \in Objs => heap'[me] = heap[me] /\ (Abreast(heap[me])' <=> Abreast(heap[me]))
      /\ tracked \in Objs => (Abreast(heap[tracked])' <=> Abreast(heap[tracked]))
      /\ Abreast(row)' <=> Abreast(row)
  BY <1>0, <1>2, <1>4 DEF Doomed, Abreast, Basics
<1>6. Pass \/ pc["adv"] \in {"status", "wundo", "wrecord"} \/ tx["adv"].kind \in WalkKinds => me \in Objs
  BY <1>0, NoTxFields DEF CInv, IInv, ThreadsOK, RefOK, Holding, Basics, Pass, PassKinds, WalkKinds
<1>10. Healthy' /\ Unborn' /\ Starting'
  BY <1>0, <1>1, <1>2 DEF Dir, Healthy, Unborn, Starting, Basics
<1>11. TurnedBack' /\ Turning'
  BY <1>0, <1>2, <1>4 DEF Dir, TurnedBack, Turning, Basics
<1>12. PassAbreast' /\ ReadAbreast' /\ OneCopy'
  BY <1>0, <1>2, <1>4, <1>5, <1>6 DEF Dir, PassAbreast, ReadAbreast, OneCopy, Basics
<1>13. TrackedAbreast'
  BY <1>0, <1>2, <1>4, <1>5 DEF Dir, TrackedAbreast, Basics
<1>14. RowAbreast'
  BY <1>0, <1>2, <1>4, <1>5, <1>6 DEF Dir, RowAbreast, Basics, Pass, PassKinds
<1>15. Settling' /\ InMemory'
  BY <1>0, <1>2, <1>3, <1>4, <1>5, <1>6 DEF Dir, Settling, InMemory, Basics
<1>16. ForwardWrites' /\ BackWrites'
  BY <1>0, <1>2, <1>3, <1>4 DEF Dir, ForwardWrites, BackWrites, Basics
<1>17. /\ tx'["adv"] = tx["adv"] /\ row' = row
       /\ Out("adv")' <=> Out("adv")
       /\ Out("chk")' <=> Out("chk")
       /\ Out("adv") => Will("adv")' = Will("adv")
       /\ Out("chk") => Will("chk")' = Will("chk")
       /\ AdvEnds => Out("adv")
  BY <1>0, <1>2, <1>3 DEF AdvEnds, Basics
<1>18. EndWrites'
  BY <1>4, <1>17 DEF Dir, EndWrites
<1>19. Rewarming'
  BY <1>3 DEF Rewarming
<1>. QED  BY <1>10, <1>11, <1>12, <1>13, <1>14, <1>15, <1>16, <1>18, <1>19 DEF Dir

\* The process goes, and comes back.
LEMMA CrashDir == ASSUME CInv, Dir, Crash PROVE Dir'
<1>0. /\ Basics /\ tracked' = NoObj /\ ~up' /\ queue' = {} /\ claim' = NoClaim
      /\ \A a \in Thread : pc'[a] = "idle" /\ tx'[a] = NoTx /\ ref'[a] = NoObj
      /\ UNCHANGED <<row, cache, late, eff>>
  BY BasicsHold DEF Crash, ProcessGone, durable
<1>1. \A a \in Thread : tx'[a].phase = "none" /\ tx'[a].kind = "none"
  BY <1>0, NoTxFields
<1>2. /\ Fwd' <=> Fwd
      /\ Reverted' <=> Reverted
      /\ PivotOut' <=> PivotOut
      /\ ~WalkDue' /\ ~Pass'
      /\ \A a \in Thread : ~Out(a)'
      /\ Abreast(row)' <=> Abreast(row)
  BY <1>0, <1>1 DEF Fwd, Reverted, PivotOut, WalkDue, Pass, PassKinds, Out, Abreast, Basics, NoClaim
<1>10. Healthy' /\ Unborn' /\ Starting'
  BY <1>0, <1>1 DEF Dir, Healthy, Unborn, Starting, Basics
<1>11. TurnedBack' /\ Turning' /\ PassAbreast' /\ ReadAbreast' /\ TrackedAbreast' /\ RowAbreast' /\ OneCopy'
  BY <1>0, <1>1, <1>2
     DEF Dir, TurnedBack, Turning, PassAbreast, ReadAbreast, TrackedAbreast, RowAbreast, OneCopy, Basics
<1>12. Settling' /\ InMemory'
  BY <1>0, <1>1, <1>2 DEF Settling, InMemory, Basics, EndKinds, WalkKinds
<1>13. ForwardWrites' /\ BackWrites' /\ EndWrites' /\ Rewarming'
  BY <1>0, <1>2 DEF ForwardWrites, BackWrites, EndWrites, Rewarming, Basics, AdvEnds
<1>. QED  BY <1>10, <1>11, <1>12, <1>13 DEF Dir

LEMMA BootDir == ASSUME CInv, Dir, Steady', Boot PROVE Dir'
<1>0. /\ Basics /\ ControlOK /\ tracked = NoObj /\ ~parked /\ claim = NoClaim /\ queue = {} /\ claim' = claim
      /\ \A a \in Thread : pc[a] = "idle" /\ tx[a] = NoTx /\ ref[a] = NoObj
      /\ ~Spend("db") /\ up' /\ late' = late \ {"parked"}
      /\ UNCHANGED <<row, cache, eff>>
  <2>1. ~up /\ up' /\ late' = late \ {"parked"} /\ UNCHANGED <<row, cache, eff, claim>>
    BY DEF Boot, durable
  <2>2. /\ tracked = NoObj /\ ~parked /\ claim = NoClaim /\ queue = {}
        /\ \A a \in Thread : pc[a] = "idle"
    BY <2>1 DEF CInv, Order, Gone
  <2>3. \A a \in Thread : tx[a] = NoTx /\ ref[a] = NoObj
    BY <2>2, BasicsHold DEF Basics, Holding
  <2>. QED  BY <2>1, <2>2, <2>3, BasicsHold, SteadySpends DEF CInv, IInv, ThreadsOK
<1>1. \A a \in Thread : tx[a].phase = "none" /\ tx[a].kind = "none"
  BY <1>0, NoTxFields
<1>2. /\ Fwd' <=> Fwd
      /\ Reverted' <=> Reverted
      /\ PivotOut' <=> PivotOut
      /\ Abreast(row)' <=> Abreast(row)
  BY <1>0 DEF Fwd, Reverted, PivotOut, Abreast
<1>3. CASE row.status \in Terminal \cup {"NONE"} /\ UNCHANGED <<heap, tracked, ref, parked, pc, tx, queue>>
  <2>1. ~Fwd' /\ ~WalkDue' /\ ~Pass' /\ \A a \in Thread : ~Out(a)'
    BY <1>0, <1>1, <1>3 DEF Fwd, Onward, Terminal, WalkDue, Pass, PassKinds, Out, Basics, NoClaim
  <2>10. Healthy' /\ Unborn' /\ Starting'
    BY <1>0, <1>1, <1>3 DEF Dir, Healthy, Unborn, Starting, Basics
  <2>11. TurnedBack' /\ Turning' /\ PassAbreast' /\ ReadAbreast' /\ TrackedAbreast' /\ RowAbreast' /\ OneCopy'
    BY <1>0, <1>1, <1>2, <1>3, <2>1
       DEF Dir, TurnedBack, Turning, PassAbreast, ReadAbreast, TrackedAbreast, RowAbreast, OneCopy, Basics
  <2>12. Settling' /\ InMemory'
    BY <1>0, <1>1, <1>3, <2>1 DEF Settling, InMemory, Basics, EndKinds, WalkKinds
  <2>13. ForwardWrites' /\ BackWrites' /\ EndWrites' /\ Rewarming'
    BY <1>0, <2>1 DEF ForwardWrites, BackWrites, EndWrites, Rewarming, Basics, AdvEnds
  <2>. QED  BY <2>10, <2>11, <2>12, <2>13 DEF Dir
<1>4. CASE row.status \notin Terminal \cup {"NONE"} /\ tracked' # NoObj
  <2>. DEFINE o == Fresh
              compensating == row.status = "COMPENSATING"
              owned == ~compensating /\ row.armed
              park == ~owned /\ row.cur >= Pivot
              warm == ~compensating /\ ~park
  <2>1. /\ tracked' = o /\ heap' = [heap EXCEPT ![o] = row]
        /\ queue' = BootQueue(owned, park, compensating)
        /\ ref' = [ref EXCEPT !["boot"] = IF warm THEN o ELSE NoObj]
        /\ pc' = [pc EXCEPT !["boot"] = IF warm THEN "write" ELSE "idle"]
        /\ tx' = [tx EXCEPT !["boot"] = IF warm THEN NewTx("rewarm", heap', o, {}) ELSE NoTx]
    BY <1>0, <1>4 DEF Boot
  <2>2. o \in Objs
    BY <1>0, FreshType DEF ControlOK
  <2>3. "walk" \in queue' => compensating
    BY <2>1 DEF BootQueue
  <2>4. compensating \/ Fwd
    BY <1>4 DEF Fwd, Onward, CInv, IInv, DurableOK, Copy, Status
  <2>. HIDE DEF o
  <2>5. /\ heap'[tracked'] = row /\ tracked' # NoObj
        /\ \A a \in Thread \ {"boot"} : pc'[a] = "idle" /\ tx'[a] = NoTx
    BY <1>0, <1>4, <2>1, <2>2 DEF ControlOK, Basics
  <2>6. \/ /\ Fwd /\ tx'["boot"] = NewTx("rewarm", heap', o, {}) /\ ref'["boot"] = tracked'
        \/ tx'["boot"] = NoTx
    BY <1>0, <2>1, <2>4 DEF ControlOK, Basics
  <2>. HIDE DEF compensating, owned, park, warm
  <2>7. /\ \A a \in Thread \ {"boot"} : tx'[a].phase = "none" /\ tx'[a].kind = "none"
        /\ \/ /\ Fwd /\ tx'["boot"].phase = "begun" /\ tx'["boot"].kind = "rewarm"
              /\ tx'["boot"].copy = row /\ tx'["boot"].ahead = {}
           \/ tx'["boot"].phase = "none" /\ tx'["boot"].kind = "none"
    <3>1. NewTx("rewarm", heap', o, {}).copy = heap'[o] /\ heap'[o] = row
      BY <1>0, <2>1, <2>2 DEF NewTx, ControlOK
    <3>2. /\ NewTx("rewarm", heap', o, {}).phase = "begun" /\ NewTx("rewarm", heap', o, {}).kind = "rewarm"
          /\ NewTx("rewarm", heap', o, {}).ahead = {}
      BY DEF NewTx
    <3>. QED  BY <2>5, <2>6, <3>1, <3>2, NoTxFields
  <2>8. /\ WalkDue' => compensating
        /\ ~Pass' /\ ~AdvEnds'
        /\ \A a \in Thread \ {"boot"} : ~Out(a)'
        /\ Out("boot")' => Will("boot")' = row /\ Fwd /\ tx'["boot"].copy = row /\ tx'["boot"].ahead = {}
    BY <1>0, <2>3, <2>5, <2>6, <2>7 DEF WalkDue, Pass, PassKinds, AdvEnds, Out, Will, Basics, NoClaim
  <2>9. ~Overtakes
    <3>1. spent["crash"] > 0 \/ spent["drain"] > 0
      BY DEF CInv, Order, Stopping, Boot
    <3>2. spent'["crash"] = spent["crash"] /\ spent'["drain"] = spent["drain"]
      BY <1>0, <1>4 DEF Boot
    <3>3. spent["drain"] = 0 /\ (Overtakes => spent["crash"] = 0)
      BY <3>2 DEF Steady
    <3>. QED  BY <3>1, <3>3
  <2>10. compensating => row.status \in Back /\ ~PivotOut
    BY DEF compensating, Dir, Turning, Back
  <2>11. Healthy' /\ Unborn' /\ Starting'
    BY <1>0, <1>4, <2>5, <2>7 DEF Dir, Healthy, Unborn, Starting, Basics
  <2>12. TurnedBack' /\ Turning'
    BY <1>0, <1>2, <2>5, <2>7, <2>8, <2>10 DEF Dir, TurnedBack, Turning, Basics
  <2>13. PassAbreast' /\ ReadAbreast' /\ TrackedAbreast' /\ RowAbreast' /\ OneCopy'
    BY <1>0, <1>2, <2>5, <2>7, <2>8
       DEF Dir, PassAbreast, ReadAbreast, TrackedAbreast, RowAbreast, OneCopy, Basics, Abreast
  <2>14. Settling' /\ InMemory'
    BY <1>0, <1>2, <2>5, <2>7, <2>8 DEF Settling, InMemory, Basics, EndKinds, WalkKinds, Fwd, Onward
  <2>15. ForwardWrites'
    BY <1>0, <1>2, <2>5, <2>7, <2>8 DEF ForwardWrites, Basics, Fwd, Onward
  <2>16. BackWrites' /\ EndWrites'
    BY <1>0, <1>2, <2>5, <2>7, <2>8 DEF BackWrites, EndWrites, Basics, Fwd, Onward, AdvEnds
  <2>17. Rewarming'
    <3>. SUFFICES ASSUME Out("boot")' PROVE Rewarming'
      BY DEF Rewarming
    <3>1. Abreast(row)
      BY <2>8 DEF Dir, RowAbreast
    <3>. QED  BY <1>0, <1>2, <2>5, <2>7, <2>8, <2>9, <3>1 DEF Rewarming, Basics, Abreast
  <2>. QED  BY <2>11, <2>12, <2>13, <2>14, <2>15, <2>16, <2>17 DEF Dir
<1>5. \/ row.status \in Terminal \cup {"NONE"} /\ UNCHANGED <<heap, tracked, ref, parked, pc, tx, queue>>
      \/ row.status \notin Terminal \cup {"NONE"} /\ tracked' = Fresh
  BY <1>0 DEF Boot
<1>6. Fresh # NoObj
  BY <1>0, FreshType DEF ControlOK, Basics
<1>. QED  BY <1>3, <1>4, <1>5, <1>6

-----------------------------------------------------------------------------
(* The theorems. *)

\* Nothing steady behaviour rules out has happened before.
LEMMA SteadyBefore == ASSUME CInv, [Next]_vars, Steady' PROVE Steady
<1>1. \A f \in {"db", "op", "drain", "crash"} : spent[f] \in Nat /\ spent'[f] \in Nat /\ spent[f] <= spent'[f]
  BY NextGrows DEF CInv, IInv, WorldOK, Grows, Fault
<1>2. UNCHANGED recorded \/ \E a \in Thread : Commit(a)
  BY RowMoves
<1>3. ASSUME recorded.reopened PROVE recorded'.reopened
  <2>1. CASE UNCHANGED recorded
    BY <1>3, <2>1
  <2>2. ASSUME NEW a \in Thread, Commit(a) PROVE recorded'.reopened
    <3>1. recorded'.reopened = (recorded.reopened \/ (row.status = "FAILED" /\ a = "adv"))
      BY <2>2 DEF Commit
    <3>. QED  BY <1>3, <3>1, Zenon
  <2>. QED  BY <1>2, <2>1, <2>2
<1>. QED  BY <1>1, <1>3 DEF Steady

LEMMA NextDir == ASSUME CInv, Dir, [Next]_vars, Steady' PROVE Dir'
<1>0. /\ {"adv", "chk", "op", "boot", "stop"} = Thread
      /\ ~Spend("op") /\ ~Spend("drain")
  BY SteadySpends DEF Thread
<1>1. ASSUME NEW a \in Thread, Write(a) PROVE Dir'
  BY <1>1, WriteDir
<1>2. CASE Advance
  BY <1>0, <1>1, <1>2, AdvanceTurns, TurnDir
<1>3. CASE Check
  BY <1>0, <1>1, <1>3, CheckTurns, ChkTurnDir
<1>4. CASE StartSaga \/ Dispatch \/ Operate
  <2>1. tx["op"].kind \notin {"reopen", "redrive"}
    BY <1>0 DEF Dir, Healthy
  <2>2. ~CompensateSettled
    BY <2>1 DEF CompensateSettled, Settled
  <2>. QED  BY <1>0, <1>1, <1>4, <2>2, StartDir, StartSettledDir, DispatchDir DEF Operate
<1>5. CASE Restart
  <2>1. ~ShutdownSettled
    BY <1>0 DEF ShutdownSettled, Settled, Dir, Healthy
  <2>. QED  BY <1>0, <1>1, <1>5, <2>1, BootDir, RewarmDir DEF Restart
<1>6. CASE ContinueSaga \/ CompensateSaga \/ Shutdown
  BY <1>0, <1>6 DEF ContinueSaga, CompensateSaga, Shutdown
<1>7. CASE WorkerEvent \/ RetryScan \/ CacheExpires \/ \E horizon \in Horizon : Tick(horizon)
  BY <1>7, OutsideDir
<1>8. CASE Crash
  BY <1>8, CrashDir
<1>9. CASE UNCHANGED vars
  <2>1. Quiet /\ (WalkDue' <=> WalkDue)
    BY <1>9 DEF vars, Quiet, WalkDue
  <2>. QED  BY <2>1, QuietDir
<1>. QED  BY <1>2, <1>3, <1>4, <1>5, <1>6, <1>7, <1>8, <1>9 DEF Next

LEMMA InitDir == ASSUME Init PROVE Dir
<1>1. /\ row.status = "NONE" /\ cache.status = "NONE" /\ tracked = NoObj /\ queue = {} /\ claim = NoClaim
      /\ \A a \in Thread : pc[a] = "idle" /\ tx[a].phase = "none" /\ tx[a].kind = "none"
      /\ \A i \in Step : eff[i] = "absent"
      /\ Pivot \in Step /\ {"adv", "chk", "op", "boot", "stop"} = Thread
  BY NoTxFields, StepsAssumption DEF Init, Blank, Thread
<1>2. /\ ~Fwd /\ ~WalkDue /\ ~Reverted /\ ~PivotOut /\ ~Pass /\ ~AdvEnds
      /\ \A a \in Thread : ~Out(a)
  BY <1>1 DEF Fwd, Onward, WalkDue, NoClaim, Reverted, PivotOut, Pass, PassKinds, AdvEnds, Out
<1>3. Healthy /\ Unborn /\ Starting /\ TurnedBack /\ Turning /\ PassAbreast /\ ReadAbreast
  BY <1>1, <1>2 DEF Healthy, Unborn, Starting, TurnedBack, Turning, PassAbreast, ReadAbreast
<1>4. TrackedAbreast /\ RowAbreast /\ OneCopy /\ Settling /\ InMemory
  BY <1>1, <1>2 DEF TrackedAbreast, RowAbreast, OneCopy, Settling, InMemory, EndKinds, WalkKinds
<1>5. ForwardWrites /\ BackWrites /\ EndWrites /\ Rewarming
  BY <1>1, <1>2 DEF ForwardWrites, BackWrites, EndWrites, Rewarming, AdvEnds
<1>. QED  BY <1>3, <1>4, <1>5 DEF Dir

\* The inductive invariant.
DInv == RInv /\ (Steady => Dir)

LEMMA NextDInv == ASSUME DInv, [Next]_vars PROVE DInv'
<1>1. RInv' /\ CInv
  BY NextRInv DEF DInv, RInv
<1>2. ASSUME Steady' PROVE Dir'
  BY <1>1, <1>2, SteadyBefore, NextDir DEF DInv
<1>. QED  BY <1>1, <1>2 DEF DInv

THEOREM DirectionKept == Spec => []DInv
<1>1. Init => DInv
  BY InitRInv, InitDir DEF DInv
<1>2. DInv /\ [Next]_vars => DInv'
  BY NextDInv
<1>. QED  BY <1>1, <1>2, PTL DEF Spec

\* No step runs over an undone state: once any undo has run, no forward pass is
\* past its opening, however often the process crashed in between, whatever Redis
\* lost and whichever worker event or retry came late (disposeLoadedSaga,
\* advanceSagaOnce's reading of the row, the claim).
THEOREM StepsRunOnCleanGround == Spec => [](Steady => NoStepOverUndoneState)
<1>1. DInv => (Steady => NoStepOverUndoneState)
  BY DEF DInv, Dir, TurnedBack, Reverted, Pass, NoStepOverUndoneState
<1>. QED  BY <1>1, DirectionKept, PTL

\* The pivot is final: when the walk has called compensate(), the pivot's effect is
\* not out -- neither in the copy's account nor in the world, where a failed pivot
\* may have had its effect all the same (runSagaSteps' pivot branch).
THEOREM NothingUndonePastPivot == Spec => [](Steady => PivotIsFinal)
<1>1. ASSUME DInv, Steady, pc["adv"] = "wrecord" PROVE ~PivotOut
  <2>1. claim.dir = "compensation"
    BY <1>1 DEF DInv, RInv, CInv, Order, Claims, PassLabels, WalkLabels
  <2>. QED  BY <1>1, <2>1 DEF DInv, Dir, TurnedBack, WalkDue
<1>2. DInv => (Steady => PivotIsFinal)
  BY <1>1 DEF PivotIsFinal, PivotOut
<1>. QED  BY <1>2, DirectionKept, PTL

\* Nothing is undone under a forward row: the durable record says the saga has
\* turned back before the first compensate() runs (beginCompensation before the
\* walk, the defensive transition within it, the boot's dispatch on the row).
THEOREM UndoneOnlyWhenTurnedBack == Spec => [](Steady => UndoNeverOverForwardRow)
<1>1. ASSUME DInv, Steady, pc["adv"] = "wundo" PROVE row.status \in Back
  <2>1. claim.dir = "compensation"
    BY <1>1 DEF DInv, RInv, CInv, Order, Claims, PassLabels, WalkLabels
  <2>. QED  BY <1>1, <2>1 DEF DInv, Dir, TurnedBack, WalkDue
<1>2. DInv => (Steady => UndoNeverOverForwardRow)
  BY <1>1 DEF UndoNeverOverForwardRow, Undoing, Back
<1>. QED  BY <1>2, DirectionKept, PTL

\* COMPLETED is honest: every step's effect is in the world, and no undo has
\* reverted one (runSagaSteps, the walk's refusal of an ended row).
THEOREM CompletedHonest == Spec => [](Steady => CompletedIsHonest)
<1>1. ASSUME DInv, Steady, row.status = "COMPLETED", NEW i \in Step PROVE eff[i] = "present"
  <2>1. Sound(row) /\ row.cur = NSteps
    BY <1>1 DEF DInv, RInv, Records, CopiesIn, SoundCopies, Sound
  <2>2. i < row.cur
    BY <2>1, StepsAssumption DEF Step
  <2>3. eff[i] # "absent"
    BY <2>1, <2>2 DEF Sound
  <2>4. eff[i] # "undone"
    BY <1>1 DEF DInv, Dir, TurnedBack, Reverted, Back
  <2>. QED  BY <1>1, <2>3, <2>4 DEF DInv, RInv, CInv, IInv, WorldOK
<1>2. DInv => (Steady => CompletedIsHonest)
  BY <1>1 DEF CompletedIsHonest
<1>. QED  BY <1>2, DirectionKept, PTL

\* The row moves by a write that was under way, on a row that has not ended, or by a
\* pass's turning back over a failure.
LEMMA RowMovesSteadily ==
  ASSUME DInv, Steady, [Next]_vars
  PROVE  \/ row' = row
         \/ row.status \notin Terminal /\ \E a \in Thread : Out(a) /\ Will(a) = row'
         \/ row.status = "FAILED" /\ recorded'.reopened
<1>. SUFFICES ASSUME NEW a \in Thread, Commit(a), ~(row.status = "FAILED" /\ recorded'.reopened)
     PROVE  row.status \notin Terminal /\ Out(a) /\ Will(a) = row'
  BY RowMoves
<1>1. tx[a].kind = "reopen" => a = "adv"
  BY DEF DInv, Dir, Healthy
<1>2. row.status \notin Terminal
  BY <1>1 DEF Commit, Admits
<1>3. tx[a].phase = "sent" /\ row' = tx[a].cols
  BY DEF Commit
<1>. QED  BY <1>2, <1>3 DEF Out, Will

\* A saga that has turned back does not turn forward again: no outstanding write of
\* a stale copy -- a pass's, the checker's, a boot's re-warm, a walk's -- puts a
\* COMPENSATING row back to PENDING or RUNNING.
THEOREM NoTurningForward == Spec /\ []Steady => NeverTurnsForward
<1>. DEFINE Ahead == row.status = "COMPENSATING" => row'.status \notin {"PENDING", "RUNNING"}
<1>1. ASSUME DInv, Steady, [Next]_vars PROVE Ahead
  <2>1. CASE row' = row
    BY <2>1
  <2>2. ASSUME NEW a \in Thread, Out(a), Will(a) = row' PROVE Ahead
    BY <1>1, <2>2 DEF DInv, Dir, BackWrites, Back
  <2>. QED  BY <1>1, <2>1, <2>2, RowMovesSteadily
<1>2. DInv /\ Steady /\ [Next]_vars => [Ahead]_vars
  BY <1>1
<1>. HIDE DEF Ahead
<1>3. Spec /\ []Steady => [][Ahead]_vars
  BY <1>2, DirectionKept, PTL DEF Spec
<1>. QED  BY <1>3 DEF NeverTurnsForward, Ahead

\* Every step of the engine is, on the row, a step of the life SagaStatus promises.
LEMMA StatusSteps ==
  ASSUME DInv, Steady, [Next]_vars
  PROVE  [recorded'.reopened \/ S!Next]_(row.status)
<1>0. Dir /\ CInv /\ Basics
  BY BasicsHold DEF DInv, RInv
<1>1. CASE row' = row
  BY <1>1
<1>2. ASSUME row.status \notin Terminal, NEW a \in Thread, Out(a), Will(a) = row'
      PROVE  [S!Next]_(row.status)
  <2>1. row.status \in {"NONE", "PENDING", "RUNNING", "COMPENSATING"}
    BY <1>0, <1>2 DEF CInv, IInv, DurableOK, Copy, Status
  <2>2. CASE row.status = "NONE"
    <3>1. a = "op" /\ tx["op"].kind = "start"
      BY <1>0, <1>2, <2>2 DEF Dir, Unborn, Healthy, Out, Basics, KindsOf
    <3>2. row'.status = "PENDING"
      BY <1>0, <1>2, <3>1 DEF Dir, Starting, StartCopy, Blank
    <3>. QED  BY <2>2, <3>2 DEF S!Next, S!Start
  <2>3. CASE row.status \in {"PENDING", "RUNNING"}
    <3>1. row'.status \in {"PENDING", "RUNNING", "FAILED", "COMPLETED", "COMPENSATING"}
      BY <1>0, <1>2, <2>3 DEF Dir, ForwardWrites, Fwd, Onward
    <3>. QED  BY <2>3, <3>1 DEF S!Next, S!Advance, S!Fail, S!Complete, S!TurnBack, S!Forward
  <2>4. CASE row.status = "COMPENSATING"
    <3>1. row'.status \in Back
      BY <1>0, <1>2, <2>4 DEF Dir, BackWrites
    <3>. QED  BY <2>4, <3>1 DEF S!Next, S!Fail, S!Undone, Back
  <2>. QED  BY <2>1, <2>2, <2>3, <2>4
<1>. QED  BY <1>1, <1>2, RowMovesSteadily

\* The engine implements SagaStatus: read off the durable row, every behaviour is a
\* life of a saga as the status type and the compare-and-swap promise it.
THEOREM StatusImplemented == Spec /\ []Steady => ImplementsSagaStatus
<1>1. Init => S!Init
  BY DEF Init, S!Init, Blank
<1>2. DInv /\ Steady /\ [Next]_vars => [recorded'.reopened \/ S!Next]_(row.status)
  BY StatusSteps
<1>. QED  BY <1>1, <1>2, DirectionKept, PTL DEF Spec, ImplementsSagaStatus
=============================================================================
