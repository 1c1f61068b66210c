----------------------------- MODULE JobService -----------------------------
(***************************************************************************)
(* What crates/evreos-shell/src/work.rs promises the UI thread, without    *)
(* queue, lock, workers or channels: a submission is answered at once,     *)
(* either with an id the service now owes a result for or with a refusal;  *)
(* a refusal is given only when Capacity accepted jobs are still owed; and *)
(* each accepted job is reported at most once, with one outcome.  Closing  *)
(* the service forfeits what has not been reported.                        *)
(***************************************************************************)
EXTENDS Naturals, FiniteSets

CONSTANTS
  Capacity,   \* the bound the pool was created with
  Outcomes    \* what a job can come to

VARIABLES
  issued,     \* ids handed to submissions so far, accepted or refused
  pending,    \* accepted, not reported
  reported,   \* function: reported id -> its outcome
  open        \* FALSE once the service is being dropped

vars == <<issued, pending, reported, open>>

Init ==
  /\ issued = 0
  /\ pending = {}
  /\ reported = <<>>
  /\ open = TRUE

Accept ==
  /\ open
  /\ issued' = issued + 1
  /\ pending' = pending \cup {issued + 1}
  /\ UNCHANGED <<reported, open>>

Refuse ==
  /\ open
  /\ Cardinality(pending) >= Capacity
  /\ issued' = issued + 1
  /\ UNCHANGED <<pending, reported, open>>

Report(id, outcome) ==
  /\ open
  /\ id \in pending
  /\ id \notin DOMAIN reported
  /\ pending' = pending \ {id}
  /\ reported' = [j \in DOMAIN reported \cup {id} |->
                    IF j = id THEN outcome ELSE reported[j]]
  /\ UNCHANGED <<issued, open>>

Close ==
  /\ open
  /\ open' = FALSE
  /\ UNCHANGED <<issued, pending, reported>>

Next ==
  \/ Accept
  \/ Refuse
  \/ \E id \in pending, outcome \in Outcomes : Report(id, outcome)
  \/ Close

Spec == Init /\ [][Next]_vars
=============================================================================
