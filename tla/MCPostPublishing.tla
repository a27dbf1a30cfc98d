-------------------------- MODULE MCPostPublishing --------------------------
(* PostPublishing with interchangeable channels, attempts, sagas and tweets. *)
EXTENDS PostPublishing, TLC
Symmetry == Permutations(Channels) \cup Permutations(Workers)
            \cup Permutations(Sagas) \cup Permutations(Tweets)

\* How a saga in schedule mode ends does not depend on what the post renders
\* to: one such saga is enough, beside a saga that publishes a single at once.
SafetyInit ==
  /\ Init
  /\ kind = "thread" => \A s \in Sagas : saga[s].mode = "publish-now"
  /\ kind = "single" => Cardinality({s \in Sagas : saga[s].mode = "schedule"}) = 1

\* Nor does what a deletion and a restoration do to a job, beside a fault or alone:
\* with a thread, one edit or one fault is enough.
Edits == kind = "thread" => edits + faults >= MaxEdits + MaxFaults - 1
SafetySpec == SafetyInit /\ [][Next]_vars
=============================================================================
