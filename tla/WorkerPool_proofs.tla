--------------------------- MODULE WorkerPool_proofs ---------------------------
(***************************************************************************)
(* Proofs about WorkerPool, for every number of workers and every bound of *)
(* the queue.  The argument has three layers: ControlOK, what the worker   *)
(* loops, the mutex and the UI thread's phase have to do with each other;  *)
(* then where each job is (JobsConserved) and in what order jobs leave the *)
(* queue (StartedInOrder), both of which need ControlOK to be inductive.   *)
(***************************************************************************)
EXTENDS WorkerPool, SequenceTheorems, FiniteSetTheorems, TLAPS

(* The mutex is held by the one worker in recv; a worker has a job in hand *)
(* exactly while it runs it or sends its result; a worker leaves only when *)
(* the sender is gone and the channel is empty, both of which are final;   *)
(* the pool is gone only when all have left.                               *)
ControlOK ==
  /\ \A w \in Workers : wstate[w] = "recv" <=> lock = w
  /\ \A w \in Workers : wstate[w] \in {"run", "send"} <=> wjob[w] # NoJob
  /\ \A w \in Workers : wstate[w] = "exited" => ~SenderAlive /\ queue = <<>>
  /\ ui = "gone" => \A w \in Workers : wstate[w] = "exited"

(***************************************************************************)
(* Sequences as the channels they stand for                                *)
(***************************************************************************)

(* A send puts its message at the end; a receive takes the first.          *)
LEMMA AppendIds ==
  ASSUME NEW S, NEW s \in Seq(S), NEW x \in S
  PROVE  Ids(Append(s, x)) = Ids(s) \cup {x}
BY DEF Ids

LEMMA AppendResultIds ==
  ASSUME NEW s \in Seq(Result), NEW r \in Result
  PROVE  ResultIds(Append(s, r)) = ResultIds(s) \cup {r.id}
BY DEF ResultIds

LEMMA TailIds ==
  ASSUME NEW S, NEW s \in Seq(S), s # <<>>
  PROVE  Ids(s) = {Head(s)} \cup Ids(Tail(s))
<1>1. \A i \in 1..Len(Tail(s)) : i + 1 \in 1..Len(s) /\ Tail(s)[i] = s[i + 1]
  BY HeadTailProperties
<1>2. \A i \in 1..Len(s) : i = 1 \/ (i - 1 \in 1..Len(Tail(s)) /\ s[i] = Tail(s)[i - 1])
  BY HeadTailProperties
<1>3. Head(s) = s[1] /\ 1 \in 1..Len(s)
  BY HeadTailProperties
<1>4. QED BY <1>1, <1>2, <1>3 DEF Ids

LEMMA TailResultIds ==
  ASSUME NEW s \in Seq(Result), s # <<>>
  PROVE  ResultIds(s) = {Head(s).id} \cup ResultIds(Tail(s))
<1>1. \A i \in 1..Len(Tail(s)) : i + 1 \in 1..Len(s) /\ Tail(s)[i] = s[i + 1]
  BY HeadTailProperties
<1>2. \A i \in 1..Len(s) : i = 1 \/ (i - 1 \in 1..Len(Tail(s)) /\ s[i] = Tail(s)[i - 1])
  BY HeadTailProperties
<1>3. Head(s) = s[1] /\ 1 \in 1..Len(s)
  BY HeadTailProperties
<1>4. QED BY <1>1, <1>2, <1>3 DEF ResultIds

(***************************************************************************)
(* Types and control                                                       *)
(***************************************************************************)

LEMMA ControlInit == Init => TypeOK /\ ControlOK
BY WorkersAssumption, NoJobAssumption
   DEF Init, TypeOK, ControlOK, Outcomes, Result, SenderAlive

(* What a submission changes, whatever try_send answers.                   *)
LEMMA SubmitCases ==
  ASSUME Submit
  PROVE  \/ /\ queue' = Append(queue, nextId)
            /\ accepted' = accepted \cup {nextId}
         \/ queue' = queue /\ accepted' = accepted
<1>1. CASE TrySend = "Ok" BY <1>1 DEF Submit
<1>2. CASE TrySend # "Ok" BY <1>2 DEF Submit
<1>3. QED BY <1>1, <1>2

LEMMA ControlStep == TypeOK /\ ControlOK /\ [Next]_vars => TypeOK' /\ ControlOK'
<1> SUFFICES ASSUME TypeOK, ControlOK, [Next]_vars PROVE TypeOK' /\ ControlOK'
  OBVIOUS
<1> USE WorkersAssumption, NoJobAssumption
<1>1. CASE Submit
  <2>1. nextId' \in Nat /\ queue' \in Seq(Nat) /\ accepted' \in SUBSET Nat
    <3>1. nextId \in Nat /\ nextId' = nextId + 1
      BY <1>1 DEF TypeOK, Submit
    <3>2. CASE queue' = Append(queue, nextId) /\ accepted' = accepted \cup {nextId}
      BY <3>1, <3>2 DEF TypeOK
    <3>3. CASE queue' = queue /\ accepted' = accepted
      BY <3>1, <3>3 DEF TypeOK
    <3>4. QED BY <1>1, <3>2, <3>3, SubmitCases
  <2>2. UNCHANGED <<lock, wstate, wjob, woutcome, results, ui, delivered>> /\ ui = "idle"
    BY <1>1 DEF Submit, workerVars
  <2>3. TypeOK'
    BY <2>1, <2>2 DEF TypeOK
  <2>4. ControlOK'
    BY <2>2 DEF ControlOK, SenderAlive
  <2>5. QED BY <2>3, <2>4
<1>2. CASE DrainStart \/ DrainEnd \/ DropSender \/ Joined
  BY <1>2 DEF DrainStart, DrainEnd, DropSender, Joined, TypeOK, ControlOK,
              SenderAlive, workerVars
<1>3. CASE DrainOne
  <2>1. Head(results) \in Result /\ Tail(results) \in Seq(Result)
    BY <1>3, HeadTailProperties DEF DrainOne, TypeOK
  <2>2. delivered' \in Seq(Result)
    BY <1>3, <2>1, AppendProperties DEF DrainOne, TypeOK
  <2>3. QED
    BY <1>3, <2>1, <2>2 DEF DrainOne, TypeOK, ControlOK, SenderAlive, workerVars
<1>4. ASSUME NEW w \in Workers, WorkerStep(w) PROVE TypeOK' /\ ControlOK'
  <2>1. CASE Lock(w)
    BY <2>1 DEF Lock, TypeOK, ControlOK, SenderAlive
  <2>2. CASE Receive(w)
    <3>1. Head(queue) \in Nat /\ Tail(queue) \in Seq(Nat)
      BY <2>2, HeadTailProperties DEF Receive, TypeOK
    <3>2. TypeOK'
      BY <2>2, <3>1 DEF Receive, TypeOK
    <3>3. ControlOK'
      BY <2>2, <3>1 DEF Receive, TypeOK, ControlOK, SenderAlive
    <3>4. QED BY <3>2, <3>3
  <2>3. CASE Disconnected(w)
    BY <2>3 DEF Disconnected, TypeOK, ControlOK, SenderAlive
  <2>4. CASE Run(w)
    <3>1. woutcome' \in [Workers -> Outcomes] /\ wstate' = [wstate EXCEPT ![w] = "send"]
      BY <2>4 DEF Run, TypeOK
    <3>2. QED
      BY <2>4, <3>1 DEF Run, TypeOK, ControlOK, SenderAlive
  <2>5. CASE Send(w)
    <3>1. ReceiverAlive
      BY <2>5 DEF Send, Forget, ControlOK, ReceiverAlive
    <3>2. wjob[w] \in Nat /\ woutcome[w] \in Outcomes
      BY <2>5 DEF Send, Forget, ControlOK, TypeOK
    <3>3. results' \in Seq(Result)
      BY <2>5, <3>1, <3>2, AppendProperties DEF Send, Forget, TypeOK, Result
    <3>4. QED
      BY <2>5, <3>1, <3>3 DEF Send, Forget, TypeOK, Outcomes, ControlOK, SenderAlive
  <2>6. QED BY <1>4, <2>1, <2>2, <2>3, <2>4, <2>5 DEF WorkerStep
<1>5. CASE Dropped \/ UNCHANGED vars
  BY <1>5 DEF Dropped, vars, TypeOK, ControlOK, SenderAlive
<1>6. QED BY <1>1, <1>2, <1>3, <1>4, <1>5 DEF Next

(* The pool's variables keep their types, and its threads their protocol:  *)
(* work.rs never runs a job under the lock or leaves with the lock held.   *)
THEOREM TypeCorrect == Spec => [](TypeOK /\ ControlOK)
BY ControlInit, ControlStep, PTL DEF Spec

(* Every worker serves for as long as the pool accepts work, so submit's   *)
(* Terminated answer is never the pool's own doing.                        *)
THEOREM WorkersServe == Spec => []WorkersServeWhileOpen
<1>1. TypeOK /\ ControlOK => WorkersServeWhileOpen
  BY DEF ControlOK, WorkersServeWhileOpen
<1>2. QED BY <1>1, TypeCorrect, PTL

(***************************************************************************)
(* Where each job is                                                       *)
(***************************************************************************)

Fresh == \A id \in accepted : id < nextId

IInv == TypeOK /\ ControlOK /\ JobsConserved /\ StartedInOrder /\ Fresh

(* Sending and receiving keep the messages of a channel distinct.          *)
LEMMA AppendNoRepeat ==
  ASSUME NEW s \in Seq(Nat), NEW x \in Nat, NoRepeat(s), x \notin Ids(s)
  PROVE  NoRepeat(Append(s, x))
BY DEF NoRepeat, Ids

LEMMA AppendNoRepeatedId ==
  ASSUME NEW s \in Seq(Result), NEW r \in Result, NoRepeatedId(s), r.id \notin ResultIds(s)
  PROVE  NoRepeatedId(Append(s, r))
BY DEF NoRepeatedId, ResultIds

LEMMA TailNoRepeat ==
  ASSUME NEW s \in Seq(Nat), s # <<>>, NoRepeat(s)
  PROVE  NoRepeat(Tail(s)) /\ Head(s) \notin Ids(Tail(s))
<1>1. /\ Head(s) = s[1] /\ Len(s) \in Nat \ {0} /\ Len(Tail(s)) = Len(s) - 1
      /\ \A i \in 1..Len(Tail(s)) : Tail(s)[i] = s[i + 1]
  BY HeadTailProperties
<1>2. QED BY <1>1 DEF NoRepeat, Ids

LEMMA TailNoRepeatedId ==
  ASSUME NEW s \in Seq(Result), s # <<>>, NoRepeatedId(s)
  PROVE  NoRepeatedId(Tail(s)) /\ Head(s).id \notin ResultIds(Tail(s))
<1>1. /\ Head(s) = s[1] /\ Len(s) \in Nat \ {0} /\ Len(Tail(s)) = Len(s) - 1
      /\ \A i \in 1..Len(Tail(s)) : Tail(s)[i] = s[i + 1]
  BY HeadTailProperties
<1>2. QED BY <1>1 DEF NoRepeatedId, ResultIds

LEMMA InvInit == Init => IInv
<1> SUFFICES ASSUME Init PROVE JobsConserved /\ StartedInOrder /\ Fresh
  BY ControlInit DEF IInv
<1>1. /\ Ids(queue) = {} /\ ResultIds(results) = {} /\ ResultIds(delivered) = {}
      /\ InHand = {} /\ HeldIds = {} /\ accepted = {}
  BY DEF Init, Ids, ResultIds, InHand, HeldIds
<1>2. NoRepeat(queue) /\ NoRepeatedId(results) /\ NoRepeatedId(delivered)
  BY DEF Init, NoRepeat, NoRepeatedId
<1>3. QED
  BY <1>1, <1>2 DEF Init, JobsConserved, StartedInOrder, Fresh, SentIds

(* A step that leaves the channels, the jobs in hand and the ids alone     *)
(* leaves every job where it was.                                          *)
LEMMA SamePlaces ==
  ASSUME IInv, UNCHANGED <<nextId, queue, results, accepted, delivered, InHand>>,
         \A w \in InHand : wjob'[w] = wjob[w]
  PROVE  JobsConserved' /\ StartedInOrder' /\ Fresh'
<1>1. UNCHANGED <<HeldIds, SentIds>>
  BY DEF HeldIds, SentIds, InHand
<1>2. JobsConserved'
  BY <1>1 DEF IInv, JobsConserved
<1>3. StartedInOrder' /\ Fresh'
  BY <1>1 DEF IInv, StartedInOrder, Fresh
<1>4. QED BY <1>2, <1>3

LEMMA SubmitPlaces == ASSUME IInv, Submit PROVE JobsConserved' /\ StartedInOrder' /\ Fresh'
<1>1. /\ UNCHANGED <<InHand, HeldIds, SentIds, results, delivered, wjob>>
      /\ nextId' = nextId + 1 /\ nextId \in Nat /\ queue \in Seq(Nat)
      /\ nextId \notin accepted /\ accepted \in SUBSET Nat
  BY DEF Submit, workerVars, InHand, HeldIds, SentIds, IInv, TypeOK, Fresh
<1>2. CASE queue' = queue /\ accepted' = accepted
  <2>1. JobsConserved' BY <1>1, <1>2 DEF IInv, JobsConserved
  <2>2. StartedInOrder' BY <1>1, <1>2 DEF IInv, StartedInOrder
  <2>3. Fresh' BY <1>1, <1>2 DEF IInv, Fresh
  <2>4. QED BY <2>1, <2>2, <2>3
<1>3. CASE queue' = Append(queue, nextId) /\ accepted' = accepted \cup {nextId}
  <2>1. Ids(queue') = Ids(queue) \cup {nextId}
    BY <1>1, <1>3, AppendIds
  <2>2. NoRepeat(queue')
    BY <1>1, <1>3, AppendNoRepeat DEF IInv, JobsConserved
  <2>3. JobsConserved'
    BY <1>1, <1>3, <2>1, <2>2 DEF IInv, JobsConserved
  <2>4. StartedInOrder'
    <3>1. \A id \in Ids(queue) \cup HeldIds \cup SentIds : id < nextId
      BY DEF IInv, JobsConserved, Fresh
    <3>2. /\ Len(queue') = Len(queue) + 1
          /\ \A i \in 1..Len(queue) : queue'[i] = queue[i] /\ queue[i] < nextId
          /\ queue'[Len(queue) + 1] = nextId
      BY <1>1, <1>3, <3>1, AppendProperties DEF Ids
    <3>3. QED BY <1>1, <3>1, <3>2 DEF IInv, StartedInOrder
  <2>5. Fresh' BY <1>1, <1>3 DEF IInv, Fresh
  <2>6. QED BY <2>3, <2>4, <2>5
<1>4. QED BY <1>2, <1>3, SubmitCases

LEMMA DrainPlaces == ASSUME IInv, DrainOne PROVE JobsConserved' /\ StartedInOrder' /\ Fresh'
<1>1. /\ UNCHANGED <<InHand, HeldIds, queue, accepted, nextId, wjob>>
      /\ results # <<>> /\ results \in Seq(Result) /\ delivered \in Seq(Result)
      /\ delivered' = Append(delivered, Head(results)) /\ results' = Tail(results)
  BY DEF DrainOne, workerVars, InHand, HeldIds, IInv, TypeOK
<1>2. Head(results) \in Result
  BY <1>1, HeadTailProperties
<1>3. /\ ResultIds(results) = {Head(results).id} \cup ResultIds(results')
      /\ ResultIds(delivered') = ResultIds(delivered) \cup {Head(results).id}
  BY <1>1, <1>2, TailResultIds, AppendResultIds
<1>4. NoRepeatedId(results') /\ Head(results).id \notin ResultIds(results')
  BY <1>1, TailNoRepeatedId DEF IInv, JobsConserved
<1>5. NoRepeatedId(delivered')
  BY <1>1, <1>2, <1>3, AppendNoRepeatedId DEF IInv, JobsConserved
<1>6. SentIds' = SentIds
  BY <1>3 DEF SentIds
<1>7. JobsConserved'
  BY <1>1, <1>3, <1>4, <1>5, <1>6 DEF IInv, JobsConserved
<1>8. StartedInOrder' /\ Fresh'
  BY <1>1, <1>6 DEF IInv, StartedInOrder, Fresh
<1>9. QED BY <1>7, <1>8

LEMMA ReceivePlaces ==
  ASSUME IInv, NEW w \in Workers, Receive(w)
  PROVE  JobsConserved' /\ StartedInOrder' /\ Fresh'
<1>1. /\ UNCHANGED <<nextId, results, accepted, delivered, SentIds>>
      /\ queue # <<>> /\ queue \in Seq(Nat) /\ queue' = Tail(queue)
      /\ w \notin InHand /\ InHand' = InHand \cup {w}
      /\ wjob'[w] = Head(queue) /\ \A v \in InHand : wjob'[v] = wjob[v]
  BY DEF Receive, InHand, SentIds, IInv, TypeOK
<1>2. HeldIds' = HeldIds \cup {Head(queue)}
  BY <1>1 DEF HeldIds
<1>3. Ids(queue) = {Head(queue)} \cup Ids(queue')
  BY <1>1, TailIds
<1>4. NoRepeat(queue') /\ Head(queue) \notin Ids(queue')
  BY <1>1, TailNoRepeat DEF IInv, JobsConserved
<1>5. \A u, v \in InHand' : wjob'[u] = wjob'[v] => u = v
  <2>1. \A u, v \in InHand : wjob[u] = wjob[v] => u = v
    BY DEF IInv, JobsConserved
  <2>2. \A v \in InHand : wjob[v] # Head(queue)
    BY <1>3 DEF IInv, JobsConserved, HeldIds
  <2>3. QED BY <1>1, <2>1, <2>2
<1>6. JobsConserved'
  BY <1>1, <1>2, <1>3, <1>4, <1>5 DEF IInv, JobsConserved
<1>7. StartedInOrder'
  <2>1. /\ Head(queue) = queue[1] /\ Len(queue) \in Nat \ {0} /\ Len(queue') = Len(queue) - 1
        /\ \A i \in 1..Len(queue') : queue'[i] = queue[i + 1]
    BY <1>1, HeadTailProperties
  <2>2. QED BY <1>1, <1>2, <2>1 DEF IInv, StartedInOrder
<1>8. Fresh' BY <1>1 DEF IInv, Fresh
<1>9. QED BY <1>6, <1>7, <1>8

LEMMA SendPlaces ==
  ASSUME IInv, NEW w \in Workers, Send(w)
  PROVE  JobsConserved' /\ StartedInOrder' /\ Fresh'
<1>1. ReceiverAlive
  BY DEF Send, Forget, IInv, ControlOK, ReceiverAlive
<1> DEFINE r == [id |-> wjob[w], outcome |-> woutcome[w]]
<1>2. r \in Result /\ r.id = wjob[w]
  BY DEF Send, Forget, IInv, ControlOK, TypeOK, Result
<1>3. /\ UNCHANGED <<nextId, queue, accepted, delivered>>
      /\ results \in Seq(Result) /\ results' = Append(results, r)
      /\ w \in InHand /\ InHand' = InHand \ {w}
      /\ \A v \in InHand' : wjob'[v] = wjob[v]
  BY <1>1 DEF Send, Forget, InHand, IInv, TypeOK
<1>4. ResultIds(results') = ResultIds(results) \cup {wjob[w]}
  BY <1>2, <1>3, AppendResultIds
<1>5. HeldIds' = HeldIds \ {wjob[w]} /\ wjob[w] \in HeldIds
  BY <1>3 DEF HeldIds, IInv, JobsConserved
<1>6. SentIds' = SentIds \cup {wjob[w]}
  BY <1>3, <1>4 DEF SentIds
<1>7. NoRepeatedId(results')
  <2>1. wjob[w] \notin ResultIds(results)
    BY <1>5 DEF IInv, JobsConserved, SentIds
  <2>2. QED BY <1>2, <1>3, <2>1, AppendNoRepeatedId DEF IInv, JobsConserved
<1>8. \A u, v \in InHand' : wjob'[u] = wjob'[v] => u = v
  <2>1. \A u, v \in InHand : wjob[u] = wjob[v] => u = v
    BY DEF IInv, JobsConserved
  <2>2. QED BY <1>3, <2>1
<1>9. JobsConserved'
  <2>1. ResultIds(results') \cap ResultIds(delivered') = {}
    BY <1>3, <1>4, <1>5 DEF IInv, JobsConserved, SentIds
  <2>2. QED BY <1>3, <1>5, <1>6, <1>7, <1>8, <2>1 DEF IInv, JobsConserved
<1>10. StartedInOrder'
  BY <1>3, <1>5, <1>6 DEF IInv, StartedInOrder
<1>11. Fresh' BY <1>3 DEF IInv, Fresh
<1>12. QED BY <1>9, <1>10, <1>11

LEMMA InvStep == IInv /\ [Next]_vars => IInv'
<1> SUFFICES ASSUME IInv, [Next]_vars PROVE JobsConserved' /\ StartedInOrder' /\ Fresh'
  BY ControlStep DEF IInv
<1>1. CASE Submit BY <1>1, SubmitPlaces
<1>2. CASE DrainOne BY <1>2, DrainPlaces
<1>3. CASE DrainStart \/ DrainEnd \/ DropSender \/ Joined
  BY <1>3, SamePlaces DEF DrainStart, DrainEnd, DropSender, Joined, workerVars, InHand
<1>4. ASSUME NEW w \in Workers, WorkerStep(w) PROVE JobsConserved' /\ StartedInOrder' /\ Fresh'
  <2>1. CASE Receive(w) BY <2>1, ReceivePlaces
  <2>2. CASE Send(w) BY <2>2, SendPlaces
  <2>3. CASE Lock(w)
    <3>1. InHand' = InHand BY <2>3 DEF Lock, InHand, IInv, TypeOK
    <3>2. QED BY <2>3, <3>1, SamePlaces DEF Lock
  <2>4. CASE Disconnected(w)
    <3>1. InHand' = InHand BY <2>4 DEF Disconnected, InHand, IInv, TypeOK
    <3>2. QED BY <2>4, <3>1, SamePlaces DEF Disconnected
  <2>5. CASE Run(w)
    <3>1. InHand' = InHand BY <2>5 DEF Run, InHand, IInv, TypeOK
    <3>2. QED BY <2>5, <3>1, SamePlaces DEF Run
  <2>6. QED BY <1>4, <2>1, <2>2, <2>3, <2>4, <2>5 DEF WorkerStep
<1>5. CASE Dropped \/ UNCHANGED vars
  BY <1>5, SamePlaces DEF Dropped, vars, InHand
<1>6. QED BY <1>1, <1>2, <1>3, <1>4, <1>5 DEF Next

(* No interleaving of submissions, workers, panics, drains and shutdown    *)
(* loses a job or runs it twice.                                           *)
THEOREM JobsAreConserved == Spec => []JobsConserved
<1>1. IInv => JobsConserved BY DEF IInv
<1>2. QED BY <1>1, InvInit, InvStep, PTL DEF Spec

(* Jobs are started in the order they were submitted.                      *)
THEOREM JobsStartInOrder == Spec => []StartedInOrder
<1>1. IInv => StartedInOrder BY DEF IInv
<1>2. QED BY <1>1, InvInit, InvStep, PTL DEF Spec

(* Dropping the pool abandons nothing it accepted.                         *)
THEOREM DropAbandonsNothing == Spec => []NothingAbandoned
<1>1. IInv => NothingAbandoned
  <2> SUFFICES ASSUME IInv, ui = "gone" PROVE accepted = SentIds
    BY DEF NothingAbandoned
  <2>1. InHand = {} /\ queue = <<>>
    BY WorkersAssumption DEF IInv, ControlOK, InHand
  <2>2. HeldIds = {} /\ Ids(queue) = {}
    BY <2>1 DEF HeldIds, Ids
  <2>3. QED BY <2>2 DEF IInv, JobsConserved
<1>2. QED BY <1>1, InvInit, InvStep, PTL DEF Spec

(***************************************************************************)
(* The pool implements JobService                                          *)
(***************************************************************************)

Owed == accepted \ ResultIds(delivered)

(* A channel that is full holds as many jobs the pool owes: the queue has  *)
(* no job twice, and no job in it has been delivered.                      *)
LEMMA QueueIsOwed == ASSUME IInv PROVE IsFiniteSet(Owed) /\ Len(queue) <= Cardinality(Owed)
<1>1. IsFiniteSet(Owed)
  <2>1. nextId \in Nat /\ accepted \in SUBSET Nat
    BY DEF IInv, TypeOK
  <2>2. \A id \in accepted : id <= nextId
    BY <2>1 DEF IInv, Fresh
  <2>3. IsFiniteSet(accepted)
    BY <2>1, <2>2, FS_BoundedSetOfNaturals
  <2>4. Owed \in SUBSET accepted
    BY DEF Owed
  <2>5. QED BY <2>3, <2>4, FS_Subset
<1> DEFINE f == [i \in 1..Len(queue) |-> queue[i]]
<1>2. Len(queue) \in Nat
  BY DEF IInv, TypeOK
<1>3. f \in Injection(1..Len(queue), Owed)
  <2>1. \A i \in 1..Len(queue) : queue[i] \in Owed
    BY DEF Owed, IInv, JobsConserved, Ids, SentIds
  <2>2. \A i, j \in 1..Len(queue) : f[i] = f[j] => i = j
    BY DEF IInv, JobsConserved, NoRepeat
  <2>3. QED BY <2>1, <2>2 DEF Injection, IsInjective
<1>4. Cardinality(1..Len(queue)) = Len(queue)
  <2>1. Cardinality(1..Len(queue)) = IF 1 > Len(queue) THEN 0 ELSE Len(queue) - 1 + 1
    BY <1>2, FS_Interval
  <2>2. QED BY <1>2, <2>1
<1>5. Cardinality(1..Len(queue)) <= Cardinality(Owed)
  BY <1>1, <1>3, FS_Injection
<1>6. QED BY <1>1, <1>4, <1>5

(* The service counts as the pool does.                                    *)
LEMMA ServiceCounts == ASSUME NEW S PROVE Service!Cardinality(S) = Cardinality(S)
BY DEF Cardinality, Service!Cardinality

(* Until it is dropped the pool has workers, so a refusal is of a full     *)
(* channel.                                                                *)
LEMMA RefusedWhenFull == ASSUME IInv, Submit, TrySend # "Ok" PROVE Service!Refuse
<1>1. ui = "idle" /\ SenderAlive
  BY DEF Submit, SenderAlive
<1>2. ~ \A w \in Workers : wstate[w] = "exited"
  BY <1>1, WorkersAssumption DEF IInv, ControlOK
<1>3. Len(queue) >= Capacity
  BY <1>2 DEF TrySend
<1>4. Cardinality(Owed) >= Capacity
  <2>1. Cardinality(Owed) \in Nat /\ Len(queue) \in Nat
    BY QueueIsOwed, FS_CardinalityType DEF IInv, TypeOK
  <2>2. QED BY <1>3, <2>1, QueueIsOwed, CapacityAssumption
<1>5. nextId' - 1 = nextId - 1 + 1
  BY DEF Submit, IInv, TypeOK
<1>6. UNCHANGED <<accepted, delivered, SenderAlive>>
  BY DEF Submit, SenderAlive
<1>7. QED BY <1>1, <1>4, <1>5, <1>6, ServiceCounts DEF Service!Refuse, Owed

LEMMA AcceptedIsOwed == ASSUME IInv, Submit, TrySend = "Ok" PROVE Service!Accept
<1>1. /\ ui = "idle" /\ SenderAlive /\ nextId' = nextId + 1
      /\ accepted' = accepted \cup {nextId}
      /\ UNCHANGED <<delivered, SenderAlive>>
  BY DEF Submit, SenderAlive
<1>2. nextId \in Nat /\ nextId \notin ResultIds(delivered)
  <2>1. ResultIds(delivered) \subseteq accepted
    BY DEF IInv, JobsConserved, SentIds
  <2>2. QED BY <2>1 DEF IInv, TypeOK, Fresh
<1>3. nextId' - 1 = nextId - 1 + 1 /\ nextId - 1 + 1 = nextId
  BY <1>1, <1>2
<1>4. QED BY <1>1, <1>2, <1>3 DEF Service!Accept

(* What was reported of a job stays so when another is delivered.          *)
LEMMA ReportedAppend ==
  ASSUME NEW s \in Seq(Result), NEW r \in Result, NoRepeatedId(s), r.id \notin ResultIds(s)
  PROVE  Reported(Append(s, r)) =
           [j \in DOMAIN Reported(s) \cup {r.id} |->
              IF j = r.id THEN r.outcome ELSE Reported(s)[j]]
<1> DEFINE t == Append(s, r)
           At(d, id) == CHOOSE i \in 1..Len(d) : d[i].id = id
<1>1. /\ Len(t) = Len(s) + 1 /\ t[Len(s) + 1] = r /\ Len(s) \in Nat
      /\ \A i \in 1..Len(s) : t[i] = s[i]
  BY AppendProperties
<1>2. NoRepeatedId(t) /\ ResultIds(t) = ResultIds(s) \cup {r.id}
  BY AppendNoRepeatedId, AppendResultIds
<1>3. ASSUME NEW id \in ResultIds(t)
      PROVE  At(t, id) \in 1..Len(t) /\ t[At(t, id)].id = id
  <2>1. \E i \in 1..Len(t) : t[i].id = id
    BY DEF ResultIds
  <2>2. QED BY <2>1
<1>4. ASSUME NEW id \in ResultIds(s)
      PROVE  At(s, id) \in 1..Len(s) /\ s[At(s, id)].id = id
  <2>1. \E i \in 1..Len(s) : s[i].id = id
    BY DEF ResultIds
  <2>2. QED BY <2>1
<1> HIDE DEF t, At
<1>5. t[At(t, r.id)].outcome = r.outcome
  <2>1. At(t, r.id) = Len(s) + 1
    BY <1>1, <1>2, <1>3 DEF NoRepeatedId
  <2>2. QED BY <1>1, <2>1
<1>6. ASSUME NEW id \in ResultIds(s) PROVE t[At(t, id)].outcome = s[At(s, id)].outcome
  <2>1. At(t, id) = At(s, id)
    BY <1>1, <1>2, <1>3, <1>4 DEF NoRepeatedId
  <2>2. QED BY <1>1, <1>4, <2>1
<1>7. /\ Reported(t) = [id \in ResultIds(t) |-> t[At(t, id)].outcome]
      /\ Reported(s) = [id \in ResultIds(s) |-> s[At(s, id)].outcome]
  BY DEF Reported, At
<1>8. DOMAIN Reported(s) = ResultIds(s) /\ \A id \in ResultIds(s) : Reported(s)[id] = s[At(s, id)].outcome
  BY <1>7
<1>9. Reported(t) = [j \in DOMAIN Reported(s) \cup {r.id} |->
                       IF j = r.id THEN r.outcome ELSE Reported(s)[j]]
  BY <1>2, <1>5, <1>6, <1>7, <1>8
<1>10. QED BY <1>9 DEF t

LEMMA DeliveredIsReported ==
  ASSUME IInv, DrainOne
  PROVE  \E id \in Owed, o \in Outcomes : Service!Report(id, o)
<1> DEFINE r == Head(results)
<1>1. /\ ui = "draining" /\ UNCHANGED <<nextId, accepted, ui>>
      /\ results # <<>> /\ results \in Seq(Result) /\ delivered \in Seq(Result)
      /\ delivered' = Append(delivered, r)
  BY DEF DrainOne, IInv, TypeOK
<1>2. r \in Result
  BY <1>1, HeadTailProperties
<1>3. /\ r.id \in ResultIds(results)
      /\ ResultIds(delivered') = ResultIds(delivered) \cup {r.id}
  BY <1>1, <1>2, TailResultIds, AppendResultIds
<1>4. /\ r.id \in accepted /\ r.id \notin ResultIds(delivered)
      /\ NoRepeatedId(delivered)
  BY <1>3 DEF IInv, JobsConserved, SentIds
<1>5. SenderAlive /\ SenderAlive' /\ r.outcome \in Outcomes
  BY <1>1, <1>2 DEF SenderAlive, Result
<1>6. Reported(delivered') = [j \in DOMAIN Reported(delivered) \cup {r.id} |->
                               IF j = r.id THEN r.outcome ELSE Reported(delivered)[j]]
  BY <1>1, <1>2, <1>4, ReportedAppend
<1>7. r.id \notin DOMAIN Reported(delivered)
  BY <1>4 DEF Reported
<1>8. accepted' \ ResultIds(delivered') = Owed \ {r.id} /\ r.id \in Owed
  BY <1>1, <1>3, <1>4 DEF Owed
<1> HIDE DEF r
<1>9. Service!Report(r.id, r.outcome)
  BY <1>1, <1>5, <1>6, <1>7, <1>8 DEF Service!Report, Owed
<1>10. QED BY <1>5, <1>8, <1>9

LEMMA ServiceStep == IInv /\ [Next]_vars => [Service!Next]_(Service!vars)
<1> SUFFICES ASSUME IInv, [Next]_vars PROVE Service!Next \/ UNCHANGED Service!vars
  OBVIOUS
<1>1. CASE Submit
  BY <1>1, RefusedWhenFull, AcceptedIsOwed DEF Service!Next
<1>2. CASE DrainOne
  BY <1>2, DeliveredIsReported DEF Service!Next, Owed
<1>3. CASE DropSender
  BY <1>3 DEF DropSender, Service!Next, Service!Close, SenderAlive
<1>4. CASE DrainStart \/ DrainEnd \/ Joined
  BY <1>4 DEF DrainStart, DrainEnd, Joined, Service!vars, SenderAlive
<1>5. ASSUME NEW w \in Workers, WorkerStep(w) PROVE UNCHANGED Service!vars
  BY <1>5 DEF WorkerStep, Lock, Receive, Disconnected, Run, Send, Service!vars, SenderAlive
<1>6. CASE Dropped \/ UNCHANGED vars
  BY <1>6 DEF Dropped, vars, Service!vars, SenderAlive
<1>7. QED BY <1>1, <1>2, <1>3, <1>4, <1>5, <1>6 DEF Next

(* What submit and drain_results tell the UI thread is what JobService     *)
(* promises: it is refused only when Capacity jobs are owed, and told of   *)
(* each accepted job once, with one outcome.                               *)
THEOREM ImplementsService == Spec => ServiceSpec
<1>1. Init => Service!Init
  <2> SUFFICES ASSUME Init PROVE Service!Init OBVIOUS
  <2>1. nextId - 1 = 0 /\ accepted = {} /\ ResultIds(delivered) = {} /\ SenderAlive
    BY DEF Init, ResultIds, SenderAlive
  <2>2. Reported(<<>>) = <<>>
    <3>1. ResultIds(<<>>) = {}
      BY DEF ResultIds
    <3>2. <<>> \in [1..0 -> Result]
      OBVIOUS
    <3>3. DOMAIN <<>> = {} /\ <<>> = [i \in {} |-> Reported(<<>>)[i]]
      BY <3>2
    <3>4. Reported(<<>>) = [i \in {} |-> Reported(<<>>)[i]]
      BY <3>1 DEF Reported
    <3>5. QED BY <3>3, <3>4
  <2>3. QED BY <2>1, <2>2 DEF Init, Service!Init
<1>2. QED BY <1>1, InvInit, InvStep, ServiceStep, PTL DEF Spec, ServiceSpec, Service!Spec
=============================================================================
