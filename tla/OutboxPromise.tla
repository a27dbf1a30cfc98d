--------------------------- MODULE OutboxPromise ---------------------------
(* What the transactional outbox promises the writer of an event: it stays   *)
(* pending until a dispatch of it has resolved or an operator has it in the  *)
(* dead-letter table, and once settled it is never pending again.            *)
CONSTANT Ids

VARIABLES pending, settled, handled, parked

vars == <<pending, settled, handled, parked>>

Init == pending = {} /\ settled = {} /\ handled = {} /\ parked = {}

\* The event commits with the state change it tells of.
Accept(e) ==
  /\ e \notin pending \cup settled
  /\ pending' = pending \cup {e}
  /\ UNCHANGED <<settled, handled, parked>>

\* A dispatch resolves, the first or a later one.
Handle(e) ==
  /\ e \in pending \cup settled
  /\ handled' = handled \cup {e}
  /\ UNCHANGED <<pending, settled, parked>>

\* A handled event is published.
Settle(e) ==
  /\ e \in pending \cap handled
  /\ pending' = pending \ {e} /\ settled' = settled \cup {e}
  /\ UNCHANGED <<handled, parked>>

\* An event goes to the dead-letter table.
Park(e) ==
  /\ e \in pending \cup settled
  /\ pending' = pending \ {e} /\ settled' = settled \cup {e}
  /\ parked' = parked \cup {e}
  /\ UNCHANGED handled

Next == \E e \in Ids : Accept(e) \/ Handle(e) \/ Settle(e) \/ Park(e)

Spec == Init /\ [][Next]_vars
=============================================================================
