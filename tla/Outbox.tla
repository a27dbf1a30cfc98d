------------------------------- MODULE Outbox -------------------------------
(***************************************************************************)
(* The transactional outbox: domain events written with the state change   *)
(* they tell of (PrismaOutboxWriter), and the relays -- one per API        *)
(* process -- that claim them under a lease, dispatch them and publish,    *)
(* reschedule or dead-letter them (OutboxRelay, OutboxClaimService), with  *)
(* the cleaner and the operator's dead-letter routes beside them.          *)
(*                                                                         *)
(* Each SQL statement or transaction is a step, and so is each dispatch:   *)
(* other relays, a crash, a lease that runs out or a lost connection fall  *)
(* between them.  Time is abstract: a backoff ends and a lease runs out at *)
(* any moment.  A claim is not checked again by the statements that end    *)
(* it, as in the code, which never reads claimedBy.                        *)
(***************************************************************************)
EXTENDS Naturals, FiniteSets

CONSTANTS
  Ids,         \* event ids
  Relays,      \* the API processes' relays
  None,        \* no event
  MaxRetries,  \* OutboxRelayOptions.maxRetries
  RowRetries,  \* OutboxEvent.maxRetries
  BatchSize,   \* OutboxRelayOptions.batchSize
  MaxDbFailures, MaxCrashes, MaxLapses, MaxRedrives \* BOUNDS on what may go wrong

ASSUME NoneAssumption == None \notin Ids
ASSUME RetryAssumption ==
  MaxRetries \in Nat \ {0} /\ RowRetries \in Nat /\ MaxRetries <= RowRetries
ASSUME BoundsAssumption ==
  {BatchSize, MaxDbFailures, MaxCrashes, MaxLapses, MaxRedrives} \subseteq Nat

VARIABLES
  state,   \* each event's row: none yet, open (publishedAt IS NULL), published, or gone
  retry,   \* OutboxEvent.retryCount
  waiting, \* the rows whose nextRetryAt is still ahead
  claim,   \* claimedAt: none, live, or older than the lease
  dead,    \* the event's OutboxDeadLetter: no, open or resolved
  pc,      \* where each relay's poll is
  batch,   \* rows of its poll a relay has yet to finish
  snap,    \* the retryCount the claim returned for each of them
  cur,     \* the row it is processing
  lapsed,  \* GHOST: events whose lease has run out under a relay at work on them
  seen,    \* GHOST: dispatches of the event that resolved: 0, 1, or more
  excuse,  \* GHOST: events a lease, a crash or a failed terminal write has hit
  budget   \* what remains of each bound

rows   == <<state, retry, waiting, claim, dead>>
poller == <<pc, batch, snap, cur>>
vars   == <<state, retry, waiting, claim, dead, pc, batch, snap, cur, lapsed,
            seen, excuse, budget>>

\* The type invariant.
TypeOK ==
  /\ state \in [Ids -> {"none", "open", "published", "gone"}]
  /\ retry \in [Ids -> 0..(MaxRetries - 1)]
  /\ waiting \subseteq Ids
  /\ claim \in [Ids -> {"none", "live", "expired"}]
  /\ dead \in [Ids -> {"no", "open", "resolved"}]
  /\ pc \in [Relays -> {"idle", "next", "mark", "failed"}]
  /\ batch \in [Relays -> SUBSET Ids]
  /\ snap \in [Relays -> [Ids -> 0..(MaxRetries - 1)]]
  /\ cur \in [Relays -> Ids \cup {None}]
  /\ lapsed \subseteq Ids
  /\ seen \in [Ids -> 0..2]
  /\ excuse \subseteq Ids
  /\ budget \in [db : Nat, crash : Nat, lapse : Nat, redrive : Nat]

Init ==
  /\ state = [e \in Ids |-> "none"] /\ retry = [e \in Ids |-> 0]
  /\ waiting = {} /\ claim = [e \in Ids |-> "none"]
  /\ dead = [e \in Ids |-> "no"]
  /\ pc = [r \in Relays |-> "idle"] /\ batch = [r \in Relays |-> {}]
  /\ snap = [r \in Relays |-> [e \in Ids |-> 0]]
  /\ cur = [r \in Relays |-> None] /\ lapsed = {}
  /\ seen = [e \in Ids |-> 0] /\ excuse = {}
  /\ budget = [db |-> MaxDbFailures, crash |-> MaxCrashes,
               lapse |-> MaxLapses, redrive |-> MaxRedrives]

Spend(what) == budget[what] > 0 /\ budget' = [budget EXCEPT ![what] = @ - 1]

-----------------------------------------------------------------------------
(* Writers, operators, the cleaner. *)

\* The event's row commits with the aggregate's change.
Write(e) ==
  /\ state[e] = "none"
  /\ state' = [state EXCEPT ![e] = "open"]
  /\ UNCHANGED <<retry, waiting, claim, dead, poller, seen, lapsed, excuse, budget>>

\* An operator sends a dead letter through again as a new event -- a resolved
\* one too, which the route does not look at.
Redrive(e, new) ==
  /\ dead[e] # "no" /\ state[new] = "none" /\ Spend("redrive")
  /\ state' = [state EXCEPT ![new] = "open"]
  /\ dead' = [dead EXCEPT ![e] = "resolved"]
  /\ UNCHANGED <<retry, waiting, claim, poller, seen, lapsed, excuse>>

\* An operator closes a dead letter.
Resolve(e) ==
  /\ dead[e] = "open"
  /\ dead' = [dead EXCEPT ![e] = "resolved"]
  /\ UNCHANGED <<state, retry, waiting, claim, poller, seen, lapsed, excuse, budget>>

\* MUTANT of MayDelete: by age alone.
MayDeleteByAge(e) == state[e] # "none"

\* Only published rows are old enough to go.
MayDelete(e) == state[e] = "published"

Clean(e) ==
  /\ MayDelete(e)
  /\ state' = [state EXCEPT ![e] = "gone"]
  /\ UNCHANGED <<retry, waiting, claim, dead, poller, seen, lapsed, excuse, budget>>

-----------------------------------------------------------------------------
(* The claim. *)

\* MUTANT of Unclaimed: without the lease predicate.
UnclaimedEver(e) == claim[e] \in {"none", "live", "expired"}

\* No live claim on the row.
Unclaimed(e) == claim[e] # "live"

Eligible(e) ==
  state[e] = "open" /\ retry[e] < RowRetries /\ e \notin waiting /\ Unclaimed(e)

\* UPDATE .. WHERE id IN (SELECT .. LIMIT .. FOR UPDATE SKIP LOCKED) RETURNING:
\* any of the rows that are ready, up to the batch size.
Poll(r) ==
  /\ pc[r] = "idle"
  /\ \E taken \in SUBSET {e \in Ids : Eligible(e)} :
       /\ taken # {} /\ Cardinality(taken) <= BatchSize
       /\ claim' = [e \in Ids |-> IF e \in taken THEN "live" ELSE claim[e]]
       /\ batch' = [batch EXCEPT ![r] = taken]
       /\ snap' = [snap EXCEPT ![r] = [e \in Ids |-> IF e \in taken THEN retry[e] ELSE 0]]
  /\ pc' = [pc EXCEPT ![r] = "next"]
  /\ UNCHANGED <<state, retry, waiting, dead, cur, seen, lapsed, excuse, budget>>

\* A claim grows older than the lease: of a relay that is still at work on the
\* row, or -- as it does in time -- of one that is not.
LeaseRunsOut(e) ==
  /\ claim[e] = "live"
  /\ claim' = [claim EXCEPT ![e] = "expired"]
  /\ \/ /\ \A r \in Relays : e \notin batch[r]
        /\ UNCHANGED <<lapsed, excuse, budget>>
     \/ /\ \E r \in Relays : e \in batch[r]
        /\ Spend("lapse")
        /\ lapsed' = lapsed \cup {e}
        /\ excuse' = excuse \cup {e}
  /\ UNCHANGED <<state, retry, waiting, dead, pc, batch, snap, cur, seen>>

\* A backoff ends.
Due(e) ==
  /\ e \in waiting
  /\ waiting' = waiting \ {e}
  /\ UNCHANGED <<state, retry, claim, dead, poller, seen, lapsed, excuse, budget>>

-----------------------------------------------------------------------------
(* One claimed row after another. *)

\* The relay is done with its row, or gives up the poll.
Finished(r) ==
  /\ batch' = [batch EXCEPT ![r] = @ \ {cur[r]}]
  /\ pc' = [pc EXCEPT ![r] = IF batch[r] = {cur[r]} THEN "idle" ELSE "next"]
  /\ cur' = [cur EXCEPT ![r] = None]
  /\ UNCHANGED snap

Aborted(r) ==
  /\ batch' = [batch EXCEPT ![r] = {}]
  /\ pc' = [pc EXCEPT ![r] = "idle"]
  /\ cur' = [cur EXCEPT ![r] = None]
  /\ UNCHANGED snap

\* One more dispatch has resolved.
Resolved(e) == IF seen[e] = 0 THEN 1 ELSE 2

\* The event's handlers run, and resolve or throw.
Dispatch(r) ==
  /\ pc[r] = "next"
  /\ \E e \in batch[r] :
       /\ cur' = [cur EXCEPT ![r] = e]
       /\ \/ /\ seen' = [seen EXCEPT ![e] = Resolved(e)]
             /\ pc' = [pc EXCEPT ![r] = "mark"]
          \/ /\ pc' = [pc EXCEPT ![r] = "failed"]
             /\ UNCHANGED seen
  /\ UNCHANGED <<rows, batch, snap, lapsed, excuse, budget>>

\* The row becomes terminal, and its claim is cleared, whoever holds it.
Publish(e) ==
  /\ state' = [state EXCEPT ![e] = "published"]
  /\ claim' = [claim EXCEPT ![e] = "none"]
  /\ UNCHANGED <<retry, waiting>>

\* markPublished; without a row it throws.
Mark(r) ==
  /\ pc[r] = "mark"
  /\ \/ /\ state[cur[r]] # "gone"
        /\ Publish(cur[r]) /\ Finished(r)
     \/ /\ state[cur[r]] = "gone"
        /\ pc' = [pc EXCEPT ![r] = "failed"]
        /\ UNCHANGED <<state, retry, waiting, claim, batch, snap, cur>>
  /\ UNCHANGED <<dead, seen, lapsed, excuse, budget>>

\* markPublished loses its connection, before or after it has committed.
MarkFails(r) ==
  /\ pc[r] = "mark" /\ Spend("db")
  /\ \/ state[cur[r]] # "gone" /\ Publish(cur[r])
     \/ UNCHANGED <<state, retry, waiting, claim>>
  /\ pc' = [pc EXCEPT ![r] = "failed"]
  /\ excuse' = excuse \cup {cur[r]}
  /\ UNCHANGED <<dead, batch, snap, cur, lapsed, seen>>

\* MUTANT of Exhausted: one attempt too many.
ExhaustedLate(r) == snap[r][cur[r]] + 1 > MaxRetries

\* The attempt just failed was the last.
Exhausted(r) == snap[r][cur[r]] + 1 >= MaxRetries

\* releaseForRetry's UPDATE: the claim is cleared, whoever holds it, and the
\* count is the one the claim returned, plus one.
Reschedule(r) ==
  /\ retry' = [retry EXCEPT ![cur[r]] = snap[r][cur[r]] + 1]
  /\ waiting' = waiting \cup {cur[r]}
  /\ claim' = [claim EXCEPT ![cur[r]] = "none"]

\* A throw here leaves the poll, and the rest of the batch claimed.
Release(r) ==
  /\ pc[r] = "failed" /\ ~Exhausted(r)
  /\ \/ state[cur[r]] # "gone" /\ Reschedule(r) /\ Finished(r) /\ UNCHANGED budget
     \/ /\ state[cur[r]] = "gone"
        /\ Aborted(r) /\ UNCHANGED <<retry, waiting, claim, budget>>
     \/ /\ Spend("db") /\ Aborted(r)
        /\ \/ state[cur[r]] # "gone" /\ Reschedule(r)
           \/ UNCHANGED <<retry, waiting, claim>>
  /\ UNCHANGED <<state, dead, seen, lapsed, excuse>>

\* MUTANT of DeadLetter: the two writes outside one transaction, the second lost.
DeadLetterAlone(e) ==
  /\ dead[e] = "no" /\ state[e] # "gone"
  /\ dead' = [dead EXCEPT ![e] = "open"]
  /\ UNCHANGED <<state, retry, waiting, claim>>

\* archiveToDeadLetter's transaction.
DeadLetter(e) ==
  /\ dead[e] = "no" /\ state[e] # "gone"
  /\ dead' = [dead EXCEPT ![e] = "open"]
  /\ Publish(e)

\* A second dead letter of one event is refused, and the refusal swallowed; any
\* other failure leaves the poll.
Archive(r) ==
  /\ pc[r] = "failed" /\ Exhausted(r)
  /\ \/ DeadLetter(cur[r]) /\ Finished(r) /\ UNCHANGED budget
     \/ /\ dead[cur[r]] # "no"
        /\ Finished(r) /\ UNCHANGED <<rows, budget>>
     \/ /\ dead[cur[r]] = "no" /\ state[cur[r]] = "gone"
        /\ Aborted(r) /\ UNCHANGED <<rows, budget>>
     \/ /\ Spend("db") /\ Aborted(r)
        /\ DeadLetter(cur[r]) \/ UNCHANGED rows
  /\ UNCHANGED <<seen, lapsed, excuse>>

\* The process dies, and comes back with nothing in hand.
Crash(r) ==
  /\ pc[r] # "idle" /\ Spend("crash")
  /\ Aborted(r)
  /\ excuse' = IF pc[r] = "mark" THEN excuse \cup {cur[r]} ELSE excuse
  /\ UNCHANGED <<rows, lapsed, seen>>

Next ==
  \/ \E e \in Ids :
       \/ Write(e) \/ Resolve(e) \/ Clean(e) \/ LeaseRunsOut(e) \/ Due(e)
       \/ \E new \in Ids : Redrive(e, new)
  \/ \E r \in Relays :
       \/ Poll(r) \/ Dispatch(r) \/ Mark(r) \/ MarkFails(r)
       \/ Release(r) \/ Archive(r) \/ Crash(r)

Spec == Init /\ [][Next]_vars

\* Every process polls each second and goes on with what it claimed; backoffs
\* end, and so do the leases of relays that have let a row go.
FairSpec ==
  /\ Spec
  /\ \A r \in Relays : WF_vars(Poll(r)) /\ WF_vars(Dispatch(r)) /\ WF_vars(Mark(r))
                       /\ WF_vars(Release(r)) /\ WF_vars(Archive(r))
  /\ \A e \in Ids : WF_vars(Due(e)) /\ WF_vars(LeaseRunsOut(e))

-----------------------------------------------------------------------------
(* Properties. *)

\* The outbox keeps its promise: an event is settled only by a dispatch that
\* resolved or by a dead letter, and never pending again (dispatch first, then
\* markPublished; the archive transaction; the cleaner's publishedAt filter).
Promise == INSTANCE OutboxPromise WITH
  pending <- {e \in Ids : state[e] = "open"},
  settled <- {e \in Ids : state[e] \in {"published", "gone"}},
  handled <- {e \in Ids : seen[e] > 0},
  parked  <- {e \in Ids : dead[e] # "no"}
KeepsItsPromise == Promise!Spec

\* A second dispatch of an event resolves only if a lease ran out under a relay,
\* a crash fell between dispatch and mark, or the mark itself failed -- for that
\* very event (SKIP LOCKED, the lease predicate, publishedAt IS NULL).
DuplicatesHaveACause == \A e \in Ids : seen[e] = 2 => e \in excuse

\* An event that was delivered is in the dead-letter table only by the same causes.
DeadLettersWereNotDelivered ==
  \A e \in Ids : dead[e] # "no" /\ seen[e] > 0 => e \in excuse

\* No open row has used up its retries: it would never be claimed nor archived
\* (the relay's budget against the column's).
NeverStranded == \A e \in Ids : state[e] = "open" => retry[e] < RowRetries

\* A dead letter already there means the row is terminal: swallowing P2002 does
\* not leave one open (processClaimed's catch).
SwallowedIsTerminal == \A e \in Ids : dead[e] # "no" => state[e] \in {"published", "gone"}

\* A row is in the hands of two relays only if its lease has run out under one of
\* them: through crashes, failed statements and aborted polls, whose rows stay
\* claimed (rows already claimed by other workers within the lease are skipped).
ClaimsExclude ==
  \A r, s \in Relays : r # s => batch[r] \cap batch[s] \subseteq lapsed

\* Nor are the retries an event has used given back, but by a relay that has
\* outlived its lease (retryCount < maxRetries).
RetriesOnlyGrow == [][\A e \in Ids \ lapsed' : retry'[e] >= retry[e]]_vars

\* Every event that was written is in the end published or dead-lettered.
EventuallySettled == \A e \in Ids : state[e] = "open" ~> state[e] # "open"

=============================================================================
