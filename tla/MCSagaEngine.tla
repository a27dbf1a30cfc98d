---------------------------- MODULE MCSagaEngine ----------------------------
(* SagaEngine on small instances: what may go wrong in one behaviour. *)
EXTENDS SagaEngine

\* At most n faults, each of one of these kinds.
Faults(n, kinds) ==
  {f \in [Fault -> 0 .. n] :
     /\ \A what \in Fault \ kinds : f[what] = 0
     /\ f["crash"] + f["drain"] + f["db"] + f["cache"] + f["op"] + f["event"] <= n}

NoFault     == Faults(0, {})
OneEvent    == Faults(1, {"event"})
OneRestart  == Faults(1, {"crash", "drain"})
\* One fault of any kind, and a worker's event before or after it.
OneAndEvent == {f \in [Fault -> 0 .. 1] : [f EXCEPT !["event"] = 0] \in Faults(1, Fault)}

\* A state up to the names of the heap cells: what each reference leads to, and
\* which references lead to the same cell.  A cell nobody refers to is blank and
\* a write names no cell, so two states with one view differ by a renaming of
\* Objs only, and safety does not tell them apart.
Seen(o) == IF o = NoObj THEN Blank ELSE heap[o]
Shape ==
  [t \in Thread |-> [sees |-> Seen(ref[t]), null |-> ref[t] = NoObj,
                     tracked |-> ref[t] = tracked,
                     shared |-> {u \in Thread : ref[u] = ref[t]}]]
UpToNames ==
  <<durable, cache, world, tracked = NoObj, Seen(tracked), Shape,
    parked, pc, tx, claim, queue>>
=============================================================================
