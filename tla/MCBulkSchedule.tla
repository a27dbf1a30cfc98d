--------------------------- MODULE MCBulkSchedule ---------------------------
(* BulkSchedule on a small instance. *)
EXTENDS BulkSchedule

\* Rows differ in nothing until one is hit by a fault, and the batch is confirmed
\* once: a behaviour whose first fault hits another row only is, with the names
\* exchanged, one whose first fault hits this row.
FirstRow == CHOOSE i \in Items : TRUE

Hit(i) ==
  \/ <<item[i], event[i], letter[i], job[i], created[i], scheduled[i], failing[i]>>' #
       <<item[i], event[i], letter[i], job[i], created[i], scheduled[i], failing[i]>>
  \/ \E rows \in {<<swept, swept'>>, <<excuse, excuse'>>, <<overlap, overlap'>>, <<lost, lost'>>} :
       (i \in rows[1]) # (i \in rows[2])
  \/ \E w \in Workers : worker[w].row = i /\ worker'[w] # worker[w]

FirstHit ==
  faults = MaxFaults /\ faults' < faults => Hit(FirstRow) \/ \A i \in Items : ~Hit(i)
=============================================================================
