-------------------------- MODULE UpdateCheck_proofs --------------------------
(***************************************************************************)
(* Proofs about RolloutDraw and UpdateCheck, for any number of processes,  *)
(* any Whole, and any versions and times.                                  *)
(*                                                                         *)
(* Of the draw neither agreement nor permanence is inductive: what makes   *)
(* them so is what a call under way knows of the file, Informed below.  A  *)
(* call that kept a value kept the one at the path; one whose link failed  *)
(* found the name taken; and the name that is on the disk is the file's or *)
(* none.                                                                   *)
(*                                                                         *)
(* The check's processes take RolloutDraw's steps and steps of their own   *)
(* that leave the draw alone, so its invariant holds of them too; with it, *)
(* that all decisions so far are those of one value is inductive.          *)
(***************************************************************************)
EXTENDS UpdateCheck, TLAPS

(***************************************************************************)
(* The draw                                                                *)
(***************************************************************************)

(* Where the call is decides which of its locals are set.                  *)
LocalsOK ==
  \A p \in Procs :
    /\ pc[p] \in {"link", "reread", "rename"} => draw[p] \in Values
    /\ pc[p] \notin {"remove", "sync"} => kept[p] = NoValue
    /\ pc[p] = "sync" => kept[p] # NoValue

(* What holds until a link fails for another reason than a taken name.     *)
Informed ==
  /\ file # Garbage
  /\ durable \in {file, NoFile}
  /\ \A p \in Procs :
       /\ kept[p] # NoValue => kept[p] = file
       /\ pc[p] = "reread" => taken[p] = TRUE
       /\ pc[p] = "reread" => file # NoFile
       /\ pc[p] # "rename"

Linked == mishaps \subseteq {"power"} => Informed

Inv == TypeOK /\ LocalsOK /\ Linked /\ Agreement

USE DEF Values, Files, Steps, Mishaps

(* The initial states, an unreadable file at the path among them.          *)
LEMMA InitInv == Init => Inv
BY TokensAssumption, WholeAssumption
   DEF Init, Inv, TypeOK, LocalsOK, Linked, Informed, Agreement

(* Every operation preserves the types.                                    *)
LEMMA TypeStep == TypeOK /\ LocalsOK /\ [Next]_vars => TypeOK'
<1> SUFFICES ASSUME TypeOK, LocalsOK, [Next]_vars
             PROVE  TypeOK'
  OBVIOUS
<1> USE DEF TypeOK, LocalsOK, Goto, Leave, Keep, PutInPlace, localVars
<1>1. ASSUME NEW p \in Procs, Call(p) PROVE TypeOK'
  BY <1>1 DEF Call
<1>2. ASSUME NEW p \in Procs, ReadValue(p) PROVE TypeOK'
  BY <1>2 DEF ReadValue
<1>3. ASSUME NEW p \in Procs, ReadNoValue(p) PROVE TypeOK'
  BY <1>3 DEF ReadNoValue
<1>4. ASSUME NEW p \in Procs, WritePartial(p) PROVE TypeOK'
  BY <1>4 DEF WritePartial
<1>5. ASSUME NEW p \in Procs, Link(p) PROVE TypeOK'
  BY <1>5 DEF Link
<1>6. ASSUME NEW p \in Procs, LinkFails(p) PROVE TypeOK'
  BY <1>6 DEF LinkFails
<1>7. ASSUME NEW p \in Procs, Reread(p) PROVE TypeOK'
  BY <1>7 DEF Reread
<1>8. ASSUME NEW p \in Procs, Rename(p) PROVE TypeOK'
  BY <1>8 DEF Rename
<1>9. ASSUME NEW p \in Procs, RemovePartial(p) PROVE TypeOK'
  BY <1>9 DEF RemovePartial
<1>10. ASSUME NEW p \in Procs, Sync(p) PROVE TypeOK'
  BY <1>10 DEF Sync
<1>11. ASSUME NEW p \in Procs, Fail(p) PROVE TypeOK'
  BY <1>11 DEF Fail
<1>12. ASSUME NEW p \in Procs, Kill(p) PROVE TypeOK'
  BY <1>12 DEF Kill
<1>13. CASE Flush
  BY <1>13 DEF Flush
<1>14. CASE LosePower
  BY <1>14 DEF LosePower
<1>15. CASE UNCHANGED vars
  BY <1>15 DEF vars
<1> QED
  BY <1>1, <1>2, <1>3, <1>4, <1>5, <1>6, <1>7, <1>8, <1>9, <1>10, <1>11, <1>12,
     <1>13, <1>14, <1>15 DEF Next, Step

(* What a call has set, it has set when it is where it is.               *)
LEMMA LocalsStep == TypeOK /\ LocalsOK /\ [Next]_vars => LocalsOK'
<1> SUFFICES ASSUME TypeOK, LocalsOK, [Next]_vars
             PROVE  LocalsOK'
  OBVIOUS
<1> USE TokensAssumption, WholeAssumption DEF TypeOK, LocalsOK, Goto, Leave, Keep, PutInPlace, localVars
<1>1. ASSUME NEW p \in Procs, Call(p) PROVE LocalsOK'
  BY <1>1 DEF Call
<1>2. ASSUME NEW p \in Procs, ReadValue(p) PROVE LocalsOK'
  BY <1>2 DEF ReadValue
<1>3. ASSUME NEW p \in Procs, ReadNoValue(p) PROVE LocalsOK'
  BY <1>3 DEF ReadNoValue
<1>4. ASSUME NEW p \in Procs, WritePartial(p) PROVE LocalsOK'
  BY <1>4 DEF WritePartial
<1>5. ASSUME NEW p \in Procs, Link(p) PROVE LocalsOK'
  BY <1>5 DEF Link
<1>6. ASSUME NEW p \in Procs, LinkFails(p) PROVE LocalsOK'
  BY <1>6 DEF LinkFails
<1>7. ASSUME NEW p \in Procs, Reread(p) PROVE LocalsOK'
  BY <1>7 DEF Reread
<1>8. ASSUME NEW p \in Procs, Rename(p) PROVE LocalsOK'
  BY <1>8 DEF Rename
<1>9. ASSUME NEW p \in Procs, RemovePartial(p) PROVE LocalsOK'
  BY <1>9 DEF RemovePartial
<1>10. ASSUME NEW p \in Procs, Sync(p) PROVE LocalsOK'
  BY <1>10 DEF Sync
<1>11. ASSUME NEW p \in Procs, Fail(p) PROVE LocalsOK'
  BY <1>11 DEF Fail
<1>12. ASSUME NEW p \in Procs, Kill(p) PROVE LocalsOK'
  BY <1>12 DEF Kill
<1>13. CASE Flush
  BY <1>13 DEF Flush
<1>14. CASE LosePower
  BY <1>14 DEF LosePower
<1>15. CASE UNCHANGED vars
  BY <1>15 DEF vars
<1> QED
  BY <1>1, <1>2, <1>3, <1>4, <1>5, <1>6, <1>7, <1>8, <1>9, <1>10, <1>11, <1>12,
     <1>13, <1>14, <1>15 DEF Next, Step

(* What the calls know of the file stays true under each other's steps.    *)
LEMMA LinkedStep == TypeOK /\ LocalsOK /\ Linked /\ [Next]_vars => Linked'
<1> SUFFICES ASSUME TypeOK, LocalsOK, Linked, [Next]_vars
             PROVE  Linked'
  OBVIOUS
<1> USE TokensAssumption, WholeAssumption
    DEF TypeOK, LocalsOK, Linked, Informed, Goto, Leave, Keep, PutInPlace, localVars
<1>1. ASSUME NEW p \in Procs, Call(p) PROVE Linked'
  BY <1>1 DEF Call
<1>2. ASSUME NEW p \in Procs, ReadValue(p) PROVE Linked'
  BY <1>2 DEF ReadValue
<1>3. ASSUME NEW p \in Procs, ReadNoValue(p) PROVE Linked'
  BY <1>3 DEF ReadNoValue
<1>4. ASSUME NEW p \in Procs, WritePartial(p) PROVE Linked'
  BY <1>4 DEF WritePartial
<1>5. ASSUME NEW p \in Procs, Link(p) PROVE Linked'
  BY <1>5 DEF Link
<1>6. ASSUME NEW p \in Procs, LinkFails(p) PROVE Linked'
  BY <1>6 DEF LinkFails
<1>7. ASSUME NEW p \in Procs, Reread(p) PROVE Linked'
  BY <1>7 DEF Reread
<1>8. ASSUME NEW p \in Procs, Rename(p) PROVE Linked'
  BY <1>8 DEF Rename
<1>9. ASSUME NEW p \in Procs, RemovePartial(p) PROVE Linked'
  BY <1>9 DEF RemovePartial
<1>10. ASSUME NEW p \in Procs, Sync(p) PROVE Linked'
  BY <1>10 DEF Sync
<1>11. ASSUME NEW p \in Procs, Fail(p) PROVE Linked'
  BY <1>11 DEF Fail
<1>12. ASSUME NEW p \in Procs, Kill(p) PROVE Linked'
  BY <1>12 DEF Kill
<1>13. CASE Flush
  BY <1>13 DEF Flush
<1>14. CASE LosePower
  BY <1>14 DEF LosePower
<1>15. CASE UNCHANGED vars
  BY <1>15 DEF vars
<1> QED
  BY <1>1, <1>2, <1>3, <1>4, <1>5, <1>6, <1>7, <1>8, <1>9, <1>10, <1>11, <1>12,
     <1>13, <1>14, <1>15 DEF Next, Step

(* So a call that returns, returns what every other one has returned.      *)
LEMMA AgreementStep == TypeOK /\ LocalsOK /\ Linked /\ Agreement /\ [Next]_vars => Agreement'
<1> SUFFICES ASSUME TypeOK, LocalsOK, Linked, Agreement, [Next]_vars
             PROVE  Agreement'
  OBVIOUS
<1> USE TokensAssumption, WholeAssumption
    DEF TypeOK, LocalsOK, Linked, Informed, Agreement, Goto, Leave, Keep, PutInPlace, localVars
<1>1. ASSUME NEW p \in Procs, Call(p) PROVE Agreement'
  BY <1>1 DEF Call
<1>2. ASSUME NEW p \in Procs, ReadValue(p) PROVE Agreement'
  BY <1>2 DEF ReadValue
<1>3. ASSUME NEW p \in Procs, ReadNoValue(p) PROVE Agreement'
  BY <1>3 DEF ReadNoValue
<1>4. ASSUME NEW p \in Procs, WritePartial(p) PROVE Agreement'
  BY <1>4 DEF WritePartial
<1>5. ASSUME NEW p \in Procs, Link(p) PROVE Agreement'
  BY <1>5 DEF Link
<1>6. ASSUME NEW p \in Procs, LinkFails(p) PROVE Agreement'
  BY <1>6 DEF LinkFails
<1>7. ASSUME NEW p \in Procs, Reread(p) PROVE Agreement'
  BY <1>7 DEF Reread
<1>8. ASSUME NEW p \in Procs, Rename(p) PROVE Agreement'
  BY <1>8 DEF Rename
<1>9. ASSUME NEW p \in Procs, RemovePartial(p) PROVE Agreement'
  BY <1>9 DEF RemovePartial
<1>10. ASSUME NEW p \in Procs, Sync(p) PROVE Agreement'
  BY <1>10 DEF Sync
<1>11. ASSUME NEW p \in Procs, Fail(p) PROVE Agreement'
  BY <1>11 DEF Fail
<1>12. ASSUME NEW p \in Procs, Kill(p) PROVE Agreement'
  BY <1>12 DEF Kill
<1>13. CASE Flush
  BY <1>13 DEF Flush
<1>14. CASE LosePower
  BY <1>14 DEF LosePower
<1>15. CASE UNCHANGED vars
  BY <1>15 DEF vars
<1> QED
  BY <1>1, <1>2, <1>3, <1>4, <1>5, <1>6, <1>7, <1>8, <1>9, <1>10, <1>11, <1>12,
     <1>13, <1>14, <1>15 DEF Next, Step

(* The three together are inductive.                                       *)
LEMMA InvStep == Inv /\ [Next]_vars => Inv'
BY TypeStep, LocalsStep, LinkedStep, AgreementStep DEF Inv

LEMMA InvAlways == Spec => []Inv
BY InitInv, InvStep, PTL DEF Spec

(* What one step may do to the file and to what the disk has of it.        *)
Steady ==
  /\ mishaps \subseteq mishaps'
  /\ file \in Values /\ "power" \notin mishaps' => file' \in Values
  /\ file \in Values /\ mishaps' = {} => file' = file
  /\ durable \in Values /\ mishaps' \subseteq {"power"} => durable' = durable

(* Every step is steady: it is the invariant that tells a Link or a Rename *)
(* over a value apart from one that finds nothing, or only garbage.        *)
LEMMA SteadyStep == Inv /\ [Next]_vars => Steady
<1> SUFFICES ASSUME TypeOK, LocalsOK, Linked, [Next]_vars
             PROVE  Steady
  BY DEF Inv
<1> USE TokensAssumption, WholeAssumption
    DEF TypeOK, LocalsOK, Linked, Informed, Steady, Goto, Leave, Keep, PutInPlace, localVars
<1>1. ASSUME NEW p \in Procs, Call(p) PROVE Steady
  BY <1>1 DEF Call
<1>2. ASSUME NEW p \in Procs, ReadValue(p) PROVE Steady
  BY <1>2 DEF ReadValue
<1>3. ASSUME NEW p \in Procs, ReadNoValue(p) PROVE Steady
  BY <1>3 DEF ReadNoValue
<1>4. ASSUME NEW p \in Procs, WritePartial(p) PROVE Steady
  BY <1>4 DEF WritePartial
<1>5. ASSUME NEW p \in Procs, Link(p) PROVE Steady
  BY <1>5 DEF Link
<1>6. ASSUME NEW p \in Procs, LinkFails(p) PROVE Steady
  BY <1>6 DEF LinkFails
<1>7. ASSUME NEW p \in Procs, Reread(p) PROVE Steady
  BY <1>7 DEF Reread
<1>8. ASSUME NEW p \in Procs, Rename(p) PROVE Steady
  BY <1>8 DEF Rename
<1>9. ASSUME NEW p \in Procs, RemovePartial(p) PROVE Steady
  BY <1>9 DEF RemovePartial
<1>10. ASSUME NEW p \in Procs, Sync(p) PROVE Steady
  BY <1>10 DEF Sync
<1>11. ASSUME NEW p \in Procs, Fail(p) PROVE Steady
  BY <1>11 DEF Fail
<1>12. ASSUME NEW p \in Procs, Kill(p) PROVE Steady
  BY <1>12 DEF Kill
<1>13. CASE Flush
  BY <1>13 DEF Flush
<1>14. CASE LosePower
  BY <1>14 DEF LosePower
<1>15. CASE UNCHANGED vars
  BY <1>15 DEF vars
<1> QED
  BY <1>1, <1>2, <1>3, <1>4, <1>5, <1>6, <1>7, <1>8, <1>9, <1>10, <1>11, <1>12,
     <1>13, <1>14, <1>15 DEF Next, Step

(* Type correctness, for any number of processes.                          *)
THEOREM TypeCorrect == Spec => []TypeOK
BY InvAlways, PTL DEF Inv

(* However many processes call load_or_draw on one file, in whatever       *)
(* interleaving and killed wherever: while every link works and no         *)
(* unreadable file was there, all the values they return are the one value *)
(* the file holds.                                                         *)
THEOREM ProcessesAgree == Spec => []Agreement
BY InvAlways, PTL DEF Inv

(* In the same case keep() never puts a draw over a value.                 *)
THEOREM KeptValueStays == Spec => ValueIsKept
<1>1. Inv /\ [Next]_vars
        => [(file \in Values /\ mishaps' = {}) => file' = file]_<<file, mishaps>>
  BY SteadyStep DEF Steady
<1> QED
  BY <1>1, InvAlways, PTL DEF Spec, ValueIsKept

(* Whatever fails short of the power, readers see whole values only.       *)
THEOREM NoTornValue == Spec => ValueNeverTorn
<1>1. Inv /\ [Next]_vars
        => [(file \in Values /\ "power" \notin mishaps') => file' \in Values]_<<file, mishaps>>
  BY SteadyStep DEF Steady
<1> QED
  BY <1>1, InvAlways, PTL DEF Spec, ValueNeverTorn

(* Where links work, a value that reached the disk outlives every call and *)
(* every power loss.                                                       *)
THEOREM FlushedValueStays == Spec => FlushedValueIsKept
<1>1. Inv /\ [Next]_vars
        => [(durable \in Values /\ mishaps' \subseteq {"power"}) => durable' = durable]_<<durable, mishaps>>
  BY SteadyStep DEF Steady
<1> QED
  BY <1>1, InvAlways, PTL DEF Spec, FlushedValueIsKept

(***************************************************************************)
(* The check                                                               *)
(***************************************************************************)

(* A value a process decides with is one a call returned.                  *)
LoadedOK ==
  /\ loaded \in [Procs -> Values \cup {NoValue}]
  /\ \A p \in Procs : loaded[p] # NoValue => loaded[p] \in returned

(* Every decision so far is the one each returned value would give.        *)
OneValueDecides ==
  mishaps = {} =>
    /\ offeredAt \cup refusedAt # {} => returned # {}
    /\ \A v \in returned :
         /\ \A a \in offeredAt : v < a
         /\ \A b \in refusedAt : b <= v

Bounded ==
  /\ offeredAt \subseteq Rollouts \ {0}
  /\ refusedAt \subseteq Rollouts \ {Whole}

CheckInv == Inv /\ LoadedOK /\ OneValueDecides /\ Bounded

LEMMA CheckInitInv == CheckInit => CheckInv
BY InitInv DEF CheckInit, CheckInv, LoadedOK, OneValueDecides, Bounded, Init

(* A step of a check is one of its process's load_or_draw, or none.        *)
LEMMA CheckRefines == [CheckNext]_allVars => [Next]_vars
<1> SUFFICES ASSUME [CheckNext]_allVars PROVE [Next]_vars
  OBVIOUS
<1>1. ASSUME NEW p \in Procs, Begin(p) PROVE Next
  BY <1>1 DEF Begin, Next
<1>2. ASSUME NEW p \in Procs, Load(p) PROVE Next
  BY <1>2 DEF Load, Next, Step
<1>3. ASSUME NEW p \in Procs, LoadFails(p) PROVE Next
  BY <1>3 DEF LoadFails, Next
<1>4. ASSUME NEW p \in Procs, Die(p) PROVE [Next]_vars
  BY <1>4 DEF Die, Next
<1>5. ASSUME NEW p \in Procs, NEW m \in Manifests, NEW now \in Times, Decide(p, m, now)
      PROVE  UNCHANGED vars
  BY <1>5 DEF Decide
<1>6. ASSUME NEW p \in Procs, NEW artefact \in Artefacts, NEW now \in Times,
             Verify(p, artefact, now)
      PROVE  UNCHANGED vars
  BY <1>6 DEF Verify
<1>7. CASE Flush /\ UNCHANGED checkVars
  BY <1>7 DEF Next
<1>8. CASE PowerCut
  BY <1>8 DEF PowerCut, Next
<1>9. CASE UNCHANGED allVars
  BY <1>9 DEF allVars
<1> QED
  BY <1>1, <1>2, <1>3, <1>4, <1>5, <1>6, <1>7, <1>8, <1>9 DEF CheckNext

(* What load_or_draw returns is a value it has returned; no other step of  *)
(* the draw returns one.                                                   *)
LEMMA LoadReturns ==
  ASSUME Inv, NEW p \in Procs, Load(p), loaded \in [Procs -> Values \cup {NoValue}]
  PROVE  /\ loaded' \in [Procs -> Values \cup {NoValue}]
         /\ \A q \in Procs : loaded'[q] = loaded[q] \/ loaded'[q] \in returned'
         /\ returned \subseteq returned'
<1> USE DEF Inv, TypeOK, LocalsOK
<1>1. CASE ReadValue(p) /\ loaded' = [loaded EXCEPT ![p] = file]
  BY <1>1 DEF ReadValue
<1>2. CASE Sync(p) /\ loaded' = [loaded EXCEPT ![p] = kept[p]]
  BY <1>2 DEF Sync
<1>3. CASE /\ ReadNoValue(p) \/ WritePartial(p) \/ Link(p) \/ LinkFails(p)
              \/ Reread(p) \/ Rename(p) \/ RemovePartial(p)
           /\ UNCHANGED loaded
  BY <1>3 DEF ReadNoValue, WritePartial, Link, LinkFails, Reread, Rename, RemovePartial
<1> QED
  BY <1>1, <1>2, <1>3 DEF Load

(* Steps that decide nothing keep the decisions those of one value: what   *)
(* is returned later is, without mishaps, what was returned before.        *)
LEMMA DecisionsStay ==
  ASSUME CheckInv, Inv', Steady, UNCHANGED <<offeredAt, refusedAt>>, returned \subseteq returned'
  PROVE  OneValueDecides' /\ Bounded'
<1>1. ASSUME mishaps' = {}
      PROVE  /\ offeredAt \cup refusedAt # {} => returned' # {}
             /\ \A v \in returned' :
                  (\A a \in offeredAt : v < a) /\ (\A b \in refusedAt : b <= v)
  <2>1. mishaps = {}
    BY <1>1 DEF Steady
  <2>2. offeredAt \cup refusedAt # {} => returned # {}
    BY <2>1 DEF CheckInv, OneValueDecides
  <2>3. returned' \subseteq {file'}
    BY <1>1 DEF Inv, Agreement
  <2>4. returned # {} => returned' = returned
    BY <2>3
  <2> QED
    BY <2>1, <2>2, <2>4 DEF CheckInv, OneValueDecides
<1> QED
  BY <1>1 DEF OneValueDecides, Bounded, CheckInv

LEMMA CheckInvStep == CheckInv /\ [CheckNext]_allVars => CheckInv'
<1> SUFFICES ASSUME CheckInv, [CheckNext]_allVars
             PROVE  CheckInv'
  OBVIOUS
<1>0. Inv' /\ Steady
  BY CheckRefines, InvStep, SteadyStep DEF CheckInv
<1>1. ASSUME NEW p \in Procs, Begin(p) PROVE LoadedOK' /\ OneValueDecides' /\ Bounded'
  <2>1. LoadedOK'
    BY <1>1 DEF Begin, Call, checkVars, CheckInv, LoadedOK, Values
  <2> QED
    BY <1>0, <1>1, <2>1, DecisionsStay DEF Begin, Call, checkVars
<1>2. ASSUME NEW p \in Procs, Load(p) PROVE LoadedOK' /\ OneValueDecides' /\ Bounded'
  <2>1. /\ loaded' \in [Procs -> Values \cup {NoValue}]
        /\ \A q \in Procs : loaded'[q] = loaded[q] \/ loaded'[q] \in returned'
        /\ returned \subseteq returned'
    BY <1>2, LoadReturns DEF CheckInv, LoadedOK
  <2>2. LoadedOK'
    BY <2>1 DEF CheckInv, LoadedOK, Values
  <2> QED
    BY <1>0, <1>2, <2>1, <2>2, DecisionsStay DEF Load, history
<1>3. ASSUME NEW p \in Procs, LoadFails(p) PROVE LoadedOK' /\ OneValueDecides' /\ Bounded'
  <2>1. LoadedOK'
    BY <1>3 DEF LoadFails, Fail, checkVars, CheckInv, LoadedOK, Values
  <2> QED
    BY <1>0, <1>3, <2>1, DecisionsStay DEF LoadFails, Fail, checkVars
<1>4. ASSUME NEW p \in Procs, Die(p) PROVE LoadedOK' /\ OneValueDecides' /\ Bounded'
  <2>1. returned' = returned
    BY <1>4 DEF Die, Kill, vars
  <2>2. LoadedOK'
    BY <1>4, <2>1 DEF Die, CheckInv, LoadedOK, Values
  <2> QED
    BY <1>0, <1>4, <2>1, <2>2, DecisionsStay DEF Die, history
<1>5. ASSUME NEW p \in Procs, NEW m \in Manifests, NEW now \in Times, Decide(p, m, now)
      PROVE  LoadedOK' /\ OneValueDecides' /\ Bounded'
  <2> DEFINE v == loaded[p]
             d == Decision(m, now, v)
  <2>1. v \in Values /\ v \in returned /\ m.rollout \in Rollouts
    BY <1>5 DEF Decide, CheckInv, LoadedOK, Manifests
  <2>2. /\ offeredAt' = offeredAt \cup (IF d = "Offered" THEN {m.rollout} ELSE {})
        /\ refusedAt' = refusedAt \cup (IF d = "NotIncluded" THEN {m.rollout} ELSE {})
        /\ UNCHANGED <<mishaps, returned, file>>
    BY <1>5 DEF Decide, vars
  <2>3. /\ d = "Offered" => v < m.rollout
        /\ d = "NotIncluded" => m.rollout <= v
    BY <2>1 DEF Decision, Included, Rollouts, Values
  <2>4. Bounded'
    <3>1. d = "Offered" => m.rollout \in Rollouts \ {0}
      BY <2>1, <2>3, WholeAssumption DEF Rollouts, Values
    <3>2. d = "NotIncluded" => m.rollout \in Rollouts \ {Whole}
      BY <2>1, <2>3, WholeAssumption DEF Rollouts, Values
    <3> HIDE DEF d
    <3> QED
      BY <2>2, <3>1, <3>2 DEF CheckInv, Bounded
  <2>5. mishaps = {} => returned = {v}
    BY <2>1 DEF CheckInv, Inv, Agreement
  <2>6. OneValueDecides'
    BY <2>2, <2>3, <2>5 DEF CheckInv, OneValueDecides
  <2>7. LoadedOK'
    BY <1>5, <2>2 DEF Decide, CheckInv, LoadedOK, Values
  <2> QED
    BY <2>4, <2>6, <2>7
<1>6. ASSUME NEW p \in Procs, NEW artefact \in Artefacts, NEW now \in Times,
             Verify(p, artefact, now)
      PROVE  LoadedOK' /\ OneValueDecides' /\ Bounded'
  <2>1. LoadedOK'
    BY <1>6 DEF Verify, vars, CheckInv, LoadedOK, Values
  <2> QED
    BY <1>0, <1>6, <2>1, DecisionsStay DEF Verify, vars
<1>7. CASE Flush /\ UNCHANGED checkVars
  <2>1. LoadedOK'
    BY <1>7 DEF Flush, checkVars, CheckInv, LoadedOK, Values
  <2> QED
    BY <1>0, <1>7, <2>1, DecisionsStay DEF CheckInv, Flush, checkVars
<1>8. CASE PowerCut
  <2>1. LoadedOK'
    BY <1>8 DEF PowerCut, LosePower, CheckInv, LoadedOK, Values
  <2> QED
    BY <1>0, <1>8, <2>1, DecisionsStay DEF CheckInv, PowerCut, LosePower, history
<1>9. CASE UNCHANGED allVars
  <2>1. LoadedOK'
    BY <1>9 DEF allVars, vars, checkVars, CheckInv, LoadedOK, Values
  <2> QED
    BY <1>0, <1>9, <2>1, DecisionsStay DEF CheckInv, allVars, vars, checkVars
<1> QED
  BY <1>0, <1>1, <1>2, <1>3, <1>4, <1>5, <1>6, <1>7, <1>8, <1>9 DEF CheckNext, CheckInv

LEMMA CheckInvAlways == CheckSpec => []CheckInv
BY CheckInitInv, CheckInvStep, PTL DEF CheckSpec

(* For any number of processes and any width: an install offered an update *)
(* is offered it under every wider rollout, whichever process checks and   *)
(* wherever earlier ones were killed, as long as every link worked, no     *)
(* unreadable file was in the way and the power stayed.                    *)
THEOREM OffersWiden == CheckSpec => []WideningKeepsOffers
<1>1. CheckInv => WideningKeepsOffers
  <2> SUFFICES ASSUME CheckInv PROVE WideningKeepsOffers
    OBVIOUS
  <2>1. 0 \notin offeredAt /\ Whole \notin refusedAt
    BY DEF CheckInv, Bounded
  <2>2. ASSUME mishaps = {}, NEW a \in offeredAt, NEW b \in refusedAt
        PROVE  b < a
    <3>1. PICK v \in returned : v < a /\ b <= v
      BY <2>2 DEF CheckInv, OneValueDecides
    <3>2. v \in Nat /\ a \in Nat /\ b \in Nat
      BY WholeAssumption DEF CheckInv, Inv, TypeOK, Values, Bounded, Rollouts
    <3> QED
      BY <3>1, <3>2
  <2> QED
    BY <2>1, <2>2 DEF WideningKeepsOffers
<1> QED
  BY <1>1, CheckInvAlways, PTL

(* A check's processes agree as the callers of load_or_draw do: what they  *)
(* do between its calls changes nothing of the draw.                       *)
THEOREM CheckersAgree == CheckSpec => []Agreement
BY CheckInvAlways, PTL DEF CheckInv, Inv
===============================================================================
