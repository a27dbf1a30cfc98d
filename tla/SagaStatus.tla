----------------------------- MODULE SagaStatus -----------------------------
(***************************************************************************)
(* What the saga engine promises about a saga's durable status, with       *)
(* nothing of how: the life of one row as the SagaStatus type, the boot    *)
(* dispositions and the compare-and-swap of the durable write describe it. *)
(* SagaEngine is checked to implement it, with status read off the row.    *)
(***************************************************************************)
EXTENDS Naturals

VARIABLE status

Forward == {"PENDING", "RUNNING"}
Endings == {"COMPLETED", "FAILED", "COMPENSATED"}

Init == status = "NONE"

\* The row is created before the saga is acknowledged.
Start == status = "NONE" /\ status' = "PENDING"

\* A pass takes the saga up, or a drain hands it back.
Advance == status \in Forward /\ status' \in Forward

\* Every step has succeeded.
Complete == status \in Forward /\ status' = "COMPLETED"

\* A failure, or a horizon that passed, in either direction of travel.
Fail == status \in Forward \cup {"COMPENSATING"} /\ status' = "FAILED"

\* The engine turns back, or an operator reopens a failure to roll it back.
TurnBack == status \in Forward \cup {"FAILED"} /\ status' = "COMPENSATING"

\* Every undo is recorded.  There is no way from COMPENSATING back to Forward.
Undone == status = "COMPENSATING" /\ status' = "COMPENSATED"

Next == Start \/ Advance \/ Complete \/ Fail \/ TurnBack \/ Undone

Spec == Init /\ [][Next]_status

=============================================================================
