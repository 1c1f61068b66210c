----------------------------- MODULE WorkerPool -----------------------------
(***************************************************************************)
(* The shell's worker pool, crates/evreos-shell/src/work.rs.               *)
(*                                                                         *)
(* The UI thread submits jobs into a bounded channel without ever blocking *)
(* and drains results from an unbounded one.  Worker threads share the     *)
(* receiving end of the job channel behind a mutex: a worker locks it,     *)
(* blocks in recv while holding it, unlocks, runs the job outside the lock *)
(* with its panic caught, and sends the result.  Dropping the pool drops   *)
(* the sender, then joins the workers, then drops the result receiver.     *)
(*                                                                         *)
(* A job is its id; what it computes is only Success or Panicked.  The     *)
(* profile modelled is the one that unwinds, as the tests run it.          *)
(***************************************************************************)
EXTENDS Naturals, Sequences, FiniteSets

CONSTANTS
  Workers,    \* the threads spawned by WorkerPool::new
  Capacity,   \* queue_capacity, the bound of the job channel
  MaxJobs,    \* bound on the submissions of a behaviour
  NoWorker,   \* nobody holds the mutex
  NoJob       \* a worker with no job in hand

ASSUME WorkersAssumption == Workers # {} /\ IsFiniteSet(Workers) /\ NoWorker \notin Workers
ASSUME CapacityAssumption == Capacity \in Nat \ {0}
ASSUME MaxJobsAssumption == MaxJobs \in Nat
ASSUME NoJobAssumption == NoJob \notin Nat

Outcomes == {"Success", "Panicked"}

VARIABLES
  nextId,     \* NEXT_JOB_ID
  queue,      \* the job channel's buffer
  lock,       \* who holds the mutex around the job receiver
  wstate,     \* where each worker's loop is
  wjob,       \* the job a worker has in hand
  woutcome,   \* what that job came to
  results,    \* the result channel
  ui,         \* what the UI thread is doing with the pool
  accepted,   \* ids submit returned Ok for
  delivered   \* the results drain_results returned, in order

vars == <<nextId, queue, lock, wstate, wjob, woutcome, results, ui, accepted, delivered>>
workerVars == <<lock, wstate, wjob, woutcome>>

Ids(s) == {s[i] : i \in 1..Len(s)}
ResultIds(s) == {s[i].id : i \in 1..Len(s)}
Result == [id : Nat, outcome : Outcomes]

\* The sender is alive until Drop takes it; the receivers until Drop returns.
SenderAlive == ui \in {"idle", "draining"}
ReceiverAlive == ui # "gone"

TypeOK ==
  /\ nextId \in Nat
  /\ queue \in Seq(Nat)
  /\ lock \in Workers \cup {NoWorker}
  /\ wstate \in [Workers -> {"loop", "recv", "run", "send", "exited"}]
  /\ wjob \in [Workers -> Nat \cup {NoJob}]
  /\ woutcome \in [Workers -> Outcomes]
  /\ results \in Seq(Result)
  /\ ui \in {"idle", "draining", "joining", "gone"}
  /\ accepted \in SUBSET Nat
  /\ delivered \in Seq(Result)

Init ==
  /\ nextId = 1
  /\ queue = <<>>
  /\ lock = NoWorker
  /\ wstate = [w \in Workers |-> "loop"]
  /\ wjob = [w \in Workers |-> NoJob]
  /\ woutcome = [w \in Workers |-> "Success"]
  /\ results = <<>>
  /\ ui = "idle"
  /\ accepted = {}
  /\ delivered = <<>>

(***************************************************************************)
(* The UI thread                                                           *)
(***************************************************************************)

\* Mutant: full one job early.
TrySendEarlyFull ==
  IF \A w \in Workers : wstate[w] = "exited" THEN "Terminated"
  ELSE IF Len(queue) + 1 >= Capacity THEN "Saturated"
  ELSE "Ok"

\* try_send looks for a disconnected receiver before it looks for room.  The
\* receiver is owned by the workers, so it is gone once all have exited.
TrySend ==
  IF \A w \in Workers : wstate[w] = "exited" THEN "Terminated"
  ELSE IF Len(queue) >= Capacity THEN "Saturated"
  ELSE "Ok"

\* The id is minted before try_send, so a refusal consumes one.
Submit ==
  /\ ui = "idle"
  /\ nextId <= MaxJobs
  /\ nextId' = nextId + 1
  /\ IF TrySend = "Ok"
       THEN queue' = Append(queue, nextId) /\ accepted' = accepted \cup {nextId}
       ELSE UNCHANGED <<queue, accepted>>
  /\ UNCHANGED <<workerVars, results, ui, delivered>>

DrainStart ==
  /\ ui = "idle"
  /\ ui' = "draining"
  /\ UNCHANGED <<nextId, queue, workerVars, results, accepted, delivered>>

\* One try_recv of drain_results; workers may send between two of them.
DrainOne ==
  /\ ui = "draining"
  /\ results # <<>>
  /\ delivered' = Append(delivered, Head(results))
  /\ results' = Tail(results)
  /\ UNCHANGED <<nextId, queue, workerVars, ui, accepted>>

DrainEnd ==
  /\ ui = "draining"
  /\ results = <<>>
  /\ ui' = "idle"
  /\ UNCHANGED <<nextId, queue, workerVars, results, accepted, delivered>>

\* drop(self.job_tx.take())
DropSender ==
  /\ ui = "idle"
  /\ ui' = "joining"
  /\ UNCHANGED <<nextId, queue, workerVars, results, accepted, delivered>>

\* Mutant: the workers are detached instead of joined.
JoinedAtOnce ==
  /\ ui = "joining"
  /\ ui' = "gone"
  /\ UNCHANGED <<nextId, queue, workerVars, results, accepted, delivered>>

\* The joins return, then the fields are dropped, the result receiver with them.
Joined ==
  /\ ui = "joining"
  /\ \A w \in Workers : wstate[w] = "exited"
  /\ ui' = "gone"
  /\ UNCHANGED <<nextId, queue, workerVars, results, accepted, delivered>>

(***************************************************************************)
(* A worker thread                                                         *)
(***************************************************************************)

Lock(w) ==
  /\ wstate[w] = "loop"
  /\ lock = NoWorker
  /\ lock' = w
  /\ wstate' = [wstate EXCEPT ![w] = "recv"]
  /\ UNCHANGED <<nextId, queue, wjob, woutcome, results, ui, accepted, delivered>>

\* Mutant: the job is read and left in the channel.
ReceivePeek(w) ==
  /\ wstate[w] = "recv"
  /\ queue # <<>>
  /\ wjob' = [wjob EXCEPT ![w] = Head(queue)]
  /\ lock' = NoWorker
  /\ wstate' = [wstate EXCEPT ![w] = "run"]
  /\ UNCHANGED <<nextId, queue, woutcome, results, ui, accepted, delivered>>

\* recv returns a job, and the guard is dropped before the job runs.
Receive(w) ==
  /\ wstate[w] = "recv"
  /\ queue # <<>>
  /\ wjob' = [wjob EXCEPT ![w] = Head(queue)]
  /\ queue' = Tail(queue)
  /\ lock' = NoWorker
  /\ wstate' = [wstate EXCEPT ![w] = "run"]
  /\ UNCHANGED <<nextId, woutcome, results, ui, accepted, delivered>>

\* Mutant: the worker leaves with the mutex locked.
DisconnectedLocked(w) ==
  /\ wstate[w] = "recv"
  /\ queue = <<>>
  /\ ~SenderAlive
  /\ wstate' = [wstate EXCEPT ![w] = "exited"]
  /\ UNCHANGED <<nextId, queue, lock, wjob, woutcome, results, ui, accepted, delivered>>

\* recv fails only when the channel is both disconnected and empty.
Disconnected(w) ==
  /\ wstate[w] = "recv"
  /\ queue = <<>>
  /\ ~SenderAlive
  /\ lock' = NoWorker
  /\ wstate' = [wstate EXCEPT ![w] = "exited"]
  /\ UNCHANGED <<nextId, queue, wjob, woutcome, results, ui, accepted, delivered>>

\* Mutant: no catch_unwind, a panic unwinds the worker's thread.
RunUncaught(w) ==
  /\ wstate[w] = "run"
  /\ \E o \in Outcomes :
       /\ woutcome' = [woutcome EXCEPT ![w] = o]
       /\ wstate' = [wstate EXCEPT ![w] = IF o = "Panicked" THEN "exited" ELSE "send"]
  /\ UNCHANGED <<nextId, queue, lock, wjob, results, ui, accepted, delivered>>

\* catch_unwind makes an outcome of a panic as of a return.
Run(w) ==
  /\ wstate[w] = "run"
  /\ \E o \in Outcomes : woutcome' = [woutcome EXCEPT ![w] = o]
  /\ wstate' = [wstate EXCEPT ![w] = "send"]
  /\ UNCHANGED <<nextId, queue, lock, wjob, results, ui, accepted, delivered>>

\* A round of the loop is over, and its locals with it.
Forget(w) ==
  /\ wjob' = [wjob EXCEPT ![w] = NoJob]
  /\ woutcome' = [woutcome EXCEPT ![w] = "Success"]

\* A send into a dropped receiver ends the worker, and its result is lost.
Send(w) ==
  /\ wstate[w] = "send"
  /\ results' = IF ReceiverAlive
                  THEN Append(results, [id |-> wjob[w], outcome |-> woutcome[w]])
                  ELSE results
  /\ wstate' = [wstate EXCEPT ![w] = IF ReceiverAlive THEN "loop" ELSE "exited"]
  /\ Forget(w)
  /\ UNCHANGED <<nextId, queue, lock, ui, accepted, delivered>>

WorkerStep(w) == Lock(w) \/ Receive(w) \/ Disconnected(w) \/ Run(w) \/ Send(w)

\* The pool is gone and nothing is left to do.
Dropped == ui = "gone" /\ UNCHANGED vars

Next ==
  \/ Submit
  \/ DrainStart \/ DrainOne \/ DrainEnd
  \/ DropSender \/ Joined
  \/ \E w \in Workers : WorkerStep(w)
  \/ Dropped

\* Threads are scheduled and jobs return; nothing makes the UI thread submit,
\* drain or drop, but what it has begun it carries on with.
Fairness ==
  /\ \A w \in Workers : WF_vars(WorkerStep(w))
  /\ WF_vars(DrainOne) /\ WF_vars(DrainEnd) /\ WF_vars(Joined)

Spec == Init /\ [][Next]_vars /\ Fairness
(***************************************************************************)
(* Properties                                                              *)
(***************************************************************************)

InHand == {w \in Workers : wstate[w] \in {"run", "send"}}
HeldIds == {wjob[w] : w \in InHand}
SentIds == ResultIds(results) \cup ResultIds(delivered)
NoRepeat(s) == \A i, j \in 1..Len(s) : s[i] = s[j] => i = j
NoRepeatedId(s) == \A i, j \in 1..Len(s) : s[i].id = s[j].id => i = j

(* An accepted job is in exactly one place: waiting in the channel, in one *)
(* worker's hands, in the result channel or delivered, and there once.  So *)
(* no interleaving of submissions, workers, panics, drains and shutdown    *)
(* loses a job or runs it twice, and a refused job never runs.             *)
JobsConserved ==
  /\ accepted = Ids(queue) \cup HeldIds \cup SentIds
  /\ Ids(queue) \cap (HeldIds \cup SentIds) = {}
  /\ HeldIds \cap SentIds = {}
  /\ ResultIds(results) \cap ResultIds(delivered) = {}
  /\ NoRepeat(queue) /\ NoRepeatedId(results) /\ NoRepeatedId(delivered)
  /\ \A v, w \in InHand : wjob[v] = wjob[w] => v = w

(* Jobs leave the queue in the order they were submitted: whatever has     *)
(* been started was submitted before everything still waiting.  (Results   *)
(* need not come back in that order, which is why they carry the id.)      *)
StartedInOrder ==
  /\ \A i, j \in 1..Len(queue) : i < j => queue[i] < queue[j]
  /\ \A i \in 1..Len(queue) : \A id \in HeldIds \cup SentIds : id < queue[i]

(* Every worker serves for as long as the pool accepts work.  A worker     *)
(* that left early (after a panic, say) would shrink the pool silently and *)
(* the last one to leave would turn submit's answer into Terminated.       *)
WorkersServeWhileOpen == SenderAlive => \A w \in Workers : wstate[w] # "exited"

(* Dropping the pool joins the workers before the result receiver goes, so *)
(* no job is abandoned half way: once the pool is gone all accepted jobs   *)
(* have been run and their results sent.                                   *)
NothingAbandoned == ui = "gone" => accepted = SentIds

(* Every accepted job is eventually run and its result sent, panics of     *)
(* other jobs and shutdown included.                                       *)
AcceptedJobsFinish ==
  \A id \in 1..MaxJobs : (id \in accepted) ~> (id \in SentIds)

(* Dropping the pool returns: the workers leave one after the other, each  *)
(* handing on the mutex, once the queue is empty.                          *)
DropReturns == (ui = "joining") ~> (ui = "gone")

\* What was reported of each job delivered.
Reported(s) ==
  [id \in ResultIds(s) |-> s[CHOOSE i \in 1..Len(s) : s[i].id = id].outcome]

(* The pool implements the service: what it owes is what was accepted and  *)
(* not yet delivered, and dropping it closes the service.                  *)
Service == INSTANCE JobService WITH
  issued <- nextId - 1,
  pending <- accepted \ ResultIds(delivered),
  reported <- Reported(delivered),
  open <- SenderAlive

ServiceSpec == Service!Spec
=============================================================================
