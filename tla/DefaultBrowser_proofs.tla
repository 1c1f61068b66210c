------------------------ MODULE DefaultBrowser_proofs ------------------------
(***************************************************************************)
(* That the system never lists the browser by capabilities that are not    *)
(* all there, and lists it once after a registration that succeeded, for   *)
(* any set of names and any spelling rule.                                 *)
(*                                                                         *)
(* ListedIsWhole is not inductive: a registration is whole when its        *)
(* pointer is written because every value was written before it, and keys  *)
(* are removed only when no pointer is left but those that could not be    *)
(* removed.  OrderOK says both, by the stage of the call.                  *)
(*                                                                         *)
(* ListedOnceByItsName needs besides what a registration has done so far   *)
(* (OnceOK): what it has written is under its name, and the pointers yet   *)
(* to be removed are all but its own, found by the name they were written  *)
(* under, whose folding is their place (Spelled).                          *)
(***************************************************************************)
EXTENDS DefaultBrowser, TLAPS

Keys == {"client", "html", "url"}

\* The calls under way; the keys a call is to remove are of no interest here.
RegisterCalls(keys) ==
  [stage : {"write", "read", "prune", "unpoint"}, name : Names, next : 1..7, first : BOOLEAN,
   keys : {keys}, todo : SUBSET Folded, failed : BOOLEAN]

UnregisterCalls(keys) ==
  [stage : {"unpoint"}, keys : {keys}, todo : SUBSET Folded, failed : BOOLEAN]

TypeInv ==
  /\ values \in [Values -> Names \cup {Nothing}]
  /\ foreign \subseteq Keys
  /\ pointers \in [Folded -> [name : Names, ours : BOOLEAN] \cup {Nothing}]
  /\ stuck \subseteq Folded
  /\ registered \in Names \cup {Nothing}
  /\ \/ call = Idle
     \/ call \in RegisterCalls(call.keys)
     \/ call \in UnregisterCalls(call.keys)

AllWritten == \A i \in Values : values[i] # Nothing

OrderOK ==
  /\ call.stage = "write" => \A i \in Values : i < call.next => values[i] # Nothing
  /\ call.stage \in {"read", "prune"} => AllWritten
  /\ call.stage = "unpoint" => Ours \ stuck \subseteq call.todo

IInv == TypeInv /\ OrderOK /\ ListedIsWhole

\* What a step establishes, apart from the types.
Safe == OrderOK' /\ ListedIsWhole'

LEMMA ValuesAre == Values = 1..6 BY DEF Values, KeyOf

LEMMA Stage ==
  ASSUME TypeInv, call.stage # "idle"
  PROVE  /\ call \in RegisterCalls(call.keys) \/ call \in UnregisterCalls(call.keys)
         /\ call.stage # "unpoint" => call \in RegisterCalls(call.keys)
  BY DEF TypeInv, Idle, RegisterCalls, UnregisterCalls

LEMMA OursIs == ASSUME TypeInv PROVE Ours \subseteq Folded /\ PointersBut(Nothing) = Ours
  BY DEF Ours, PointersBut

\* Undoing begins with the pointers: those to be removed, or those given up.
LEMMA UnpointSafe ==
  ASSUME IInv, NEW c, c \in RegisterCalls(c.keys) \cup UnregisterCalls(c.keys), Unpoint(c),
         UNCHANGED <<values, foreign, pointers>>, registered' \in Names \cup {Nothing}
  PROVE  TypeInv' /\ Safe
<1>1. TypeInv /\ ListedIsWhole /\ Ours \subseteq Folded /\ PointersBut(Nothing) = Ours
  BY OursIs DEF IInv
<1>2. Ours' = Ours BY DEF Ours
<1>3. PICK todo \in SUBSET Folded :
        /\ call' = [c EXCEPT !.stage = "unpoint", !.todo = todo]
        /\ stuck' \in SUBSET Folded
        /\ stuck \subseteq stuck' /\ Ours \ stuck' \subseteq todo
  BY <1>1 DEF Unpoint, TypeInv
<1>4. /\ call' \in RegisterCalls(call'.keys) \cup UnregisterCalls(call'.keys)
      /\ call'.stage = "unpoint" /\ call'.todo = todo
  BY <1>3 DEF RegisterCalls, UnregisterCalls
<1>5. TypeInv' BY <1>1, <1>3, <1>4 DEF TypeInv
<1>6. OrderOK' BY <1>2, <1>3, <1>4 DEF OrderOK
<1>7. ListedIsWhole' BY <1>1, <1>2, <1>3 DEF ListedIsWhole
<1>8. QED BY <1>5, <1>6, <1>7 DEF Safe

-----------------------------------------------------------------------------
(* The steps of a call, one by one *)

LEMMA RegisterSafe == ASSUME IInv, NEW app \in Names, Register(app) PROVE TypeInv' /\ Safe
<1>1. TypeInv /\ ListedIsWhole BY DEF IInv
<1>2. Ours' = Ours BY DEF Register, Ours
<1> DEFINE keys == SelectSeq(OwnedKeys, LAMBDA key : ~KeyExists(key))
           first == ~KeyExists("client")
<1>3. first \in BOOLEAN BY DEF KeyExists
<1>4. call' = [stage |-> "write", name |-> app, next |-> 1, first |-> first,
               keys |-> keys, todo |-> {}, failed |-> FALSE]
  BY DEF Register
<1> HIDE DEF keys, first
<1>5. call' \in RegisterCalls(call'.keys) /\ call'.stage = "write" /\ call'.next = 1
  BY <1>3, <1>4 DEF RegisterCalls
<1>6. TypeInv' BY <1>1, <1>5 DEF TypeInv, Register
<1>7. OrderOK' BY <1>5, ValuesAre DEF OrderOK
<1>8. ListedIsWhole' BY <1>1, <1>2 DEF ListedIsWhole, Register
<1>9. QED BY <1>6, <1>7, <1>8 DEF Safe

LEMMA WriteValueSafe == ASSUME IInv, WriteValue PROVE TypeInv' /\ Safe
<1>1. TypeInv /\ ListedIsWhole /\ OrderOK /\ call \in RegisterCalls(call.keys)
  BY Stage DEF IInv, WriteValue
<1>2. Ours' = Ours BY DEF WriteValue, Ours
<1>3. /\ call.stage = "write" /\ call.next \in 1..6 /\ call.name \in Names
  BY <1>1, ValuesAre DEF WriteValue, RegisterCalls
<1>4. /\ call' \in RegisterCalls(call'.keys) /\ call'.stage = "write" /\ call'.next = call.next + 1
  BY <1>1, <1>3 DEF WriteValue, RegisterCalls
<1>5. values' = [values EXCEPT ![call.next] = call.name] BY DEF WriteValue
<1>6. call.name # Nothing BY <1>3, NothingAssumption
<1>7. \A i \in Values : values'[i] = IF i = call.next THEN call.name ELSE values[i]
  BY <1>1, <1>5 DEF TypeInv
<1>8. values' \in [Values -> Names \cup {Nothing}] BY <1>1, <1>3, <1>5 DEF TypeInv
<1>9. TypeInv' BY <1>1, <1>4, <1>8 DEF TypeInv, WriteValue
<1>10. \A i \in Values : i < call'.next => values'[i] # Nothing
  BY <1>1, <1>3, <1>4, <1>6, <1>7, ValuesAre DEF OrderOK
<1>11. OrderOK' BY <1>4, <1>10 DEF OrderOK
<1>12. ListedIsWhole' BY <1>1, <1>2, <1>6, <1>7 DEF ListedIsWhole, WriteValue
<1>13. QED BY <1>9, <1>11, <1>12 DEF Safe

LEMMA WritePointerSafe == ASSUME IInv, WritePointer PROVE TypeInv' /\ Safe
<1>1. TypeInv /\ OrderOK /\ call \in RegisterCalls(call.keys)
  BY Stage DEF IInv, WritePointer
<1>2. Len(KeyOf) = 6 BY DEF KeyOf
<1>3. call.stage = "write" /\ call.next = 7 /\ call.name \in Names
  BY <1>1, <1>2 DEF WritePointer, RegisterCalls
<1>4. AllWritten BY <1>1, <1>3, ValuesAre DEF OrderOK, AllWritten
<1>5. call' \in RegisterCalls(call'.keys) /\ call'.stage = "read"
  BY <1>1, <1>3 DEF WritePointer, RegisterCalls
<1>6. Fold[call.name] \in Folded BY <1>3 DEF Folded
<1>7. pointers' \in [Folded -> [name : Names, ours : BOOLEAN] \cup {Nothing}]
  <2> DEFINE f == Fold[call.name]
             new == [name |-> IF pointers[f] = Nothing THEN call.name ELSE pointers[f].name,
                     ours |-> TRUE]
  <2>1. pointers[f] = Nothing \/ pointers[f].name \in Names BY <1>1, <1>6 DEF TypeInv
  <2>2. new \in [name : Names, ours : BOOLEAN] BY <1>3, <2>1
  <2>3. pointers' = [pointers EXCEPT ![f] = new] BY DEF WritePointer, Pointed
  <2> HIDE DEF f, new
  <2>4. QED BY <1>1, <2>2, <2>3 DEF TypeInv
<1>8. TypeInv' BY <1>1, <1>5, <1>7 DEF TypeInv, WritePointer
<1>9. AllWritten' BY <1>4 DEF AllWritten, WritePointer
<1>10. OrderOK' /\ ListedIsWhole' BY <1>5, <1>9 DEF OrderOK, ListedIsWhole, AllWritten
<1>11. QED BY <1>8, <1>10 DEF Safe

LEMMA ReadPointersSafe == ASSUME IInv, ReadPointers PROVE TypeInv' /\ Safe
<1>1. TypeInv /\ OrderOK /\ ListedIsWhole /\ call \in RegisterCalls(call.keys)
  BY Stage DEF IInv, ReadPointers
<1>2. PointersBut(call.name) \in SUBSET Folded BY DEF PointersBut, Ours
<1>3. call' \in RegisterCalls(call'.keys) /\ call'.stage = "prune"
  BY <1>1, <1>2 DEF ReadPointers, RegisterCalls
<1>4. TypeInv' BY <1>1, <1>3 DEF TypeInv, ReadPointers
<1>5. AllWritten' BY <1>1 DEF OrderOK, AllWritten, ReadPointers
<1>6. OrderOK' /\ ListedIsWhole' BY <1>3, <1>5 DEF OrderOK, ListedIsWhole, AllWritten
<1>7. QED BY <1>4, <1>6 DEF Safe

LEMMA RemovePointerSafe ==
  ASSUME IInv, NEW f \in Folded, RemovePointer(f) PROVE TypeInv' /\ Safe
<1>1. /\ TypeInv /\ OrderOK /\ ListedIsWhole
      /\ call \in RegisterCalls(call.keys) \cup UnregisterCalls(call.keys)
  BY Stage DEF IInv, RemovePointer
<1>2. /\ call' \in RegisterCalls(call'.keys) \cup UnregisterCalls(call'.keys)
      /\ call'.stage = call.stage /\ call'.todo = call.todo \ {f}
  BY <1>1 DEF RemovePointer, RegisterCalls, UnregisterCalls
<1>3. Ours' \ stuck' \subseteq (Ours \ stuck) \ {f}
  <2>1. CASE /\ pointers' = [pointers EXCEPT ![f] = Nothing]
             /\ stuck' = stuck \ {f}
    BY <1>1, <2>1 DEF Ours, TypeInv
  <2>2. CASE stuck' = stuck \cup {f} /\ UNCHANGED pointers BY <2>2 DEF Ours
  <2>3. QED BY <2>1, <2>2 DEF RemovePointer
<1>4. TypeInv'
  <2>1. pointers' \in [Folded -> [name : Names, ours : BOOLEAN] \cup {Nothing}]
    BY <1>1 DEF TypeInv, RemovePointer
  <2>2. stuck' \subseteq Folded BY <1>1 DEF TypeInv, RemovePointer
  <2>3. QED BY <1>1, <1>2, <2>1, <2>2 DEF TypeInv, RemovePointer
<1>5. AllWritten => AllWritten' BY DEF AllWritten, RemovePointer
<1>6. OrderOK' BY <1>1, <1>2, <1>3, <1>5 DEF OrderOK, RemovePointer
<1>7. ListedIsWhole' BY <1>1, <1>3 DEF ListedIsWhole, RemovePointer
<1>8. QED BY <1>4, <1>6, <1>7 DEF Safe

LEMMA RegisterFailsSafe == ASSUME IInv, RegisterFails PROVE TypeInv' /\ Safe
<1>1. TypeInv /\ ListedIsWhole /\ call \in RegisterCalls(call.keys)
  BY Stage DEF IInv, RegisterFails
<1>2. UNCHANGED <<values, foreign, pointers, registered>> BY DEF RegisterFails
<1>3. CASE Unpoint(call) BY <1>1, <1>2, <1>3, UnpointSafe DEF TypeInv
<1>4. CASE call' = Idle /\ UNCHANGED stuck
  <2>1. Ours' = Ours BY <1>2 DEF Ours
  <2>2. TypeInv' BY <1>1, <1>2, <1>4 DEF TypeInv
  <2>3. OrderOK' /\ ListedIsWhole'
    BY <1>1, <1>2, <1>4, <2>1 DEF OrderOK, ListedIsWhole, Idle
  <2>4. QED BY <2>2, <2>3 DEF Safe
<1>5. QED BY <1>3, <1>4 DEF RegisterFails, GiveUp

LEMMA UnregisterSafe == ASSUME IInv, Unregister PROVE TypeInv' /\ Safe
<1> DEFINE c == [stage |-> "unpoint", keys |-> OwnedKeys, todo |-> {}, failed |-> FALSE]
<1>1. c \in RegisterCalls(c.keys) \cup UnregisterCalls(c.keys) BY DEF UnregisterCalls
<1>2. Unpoint(c) /\ UNCHANGED <<values, foreign, pointers>> /\ registered' = Nothing
  BY DEF Unregister
<1> HIDE DEF c
<1>3. QED BY <1>1, <1>2, UnpointSafe

\* Keys go once no pointer is left that could be removed.
LEMMA RemoveKeySafe == ASSUME IInv, RemoveKey PROVE TypeInv' /\ Safe
<1>1. /\ TypeInv /\ OrderOK
      /\ call \in RegisterCalls(call.keys) \cup UnregisterCalls(call.keys)
  BY Stage DEF IInv, RemoveKey
<1>2. call.stage = "unpoint" /\ call.todo = {} BY DEF RemoveKey
<1>3. Ours \ stuck = {} BY <1>1, <1>2 DEF OrderOK
<1>4. Ours' = Ours /\ stuck' = stuck BY DEF RemoveKey, Ours
<1>5. /\ call' \in RegisterCalls(call'.keys) \cup UnregisterCalls(call'.keys)
      /\ call'.stage = "unpoint"
  <2>1. call' = [call EXCEPT !.keys = Tail(call.keys)] BY DEF RemoveKey
  <2> DEFINE rest == Tail(call.keys)
  <2> HIDE DEF rest
  <2>2. call' = [call EXCEPT !.keys = rest] BY <2>1 DEF rest
  <2>3. QED BY <1>1, <1>2, <2>2 DEF RegisterCalls, UnregisterCalls
<1>6. values' \in [Values -> Names \cup {Nothing}] /\ foreign' \subseteq Keys
  <2> DEFINE key == Head(call.keys)
  <2>1. \/ /\ values' = [i \in Values |-> IF KeyOf[i] = key THEN Nothing ELSE values[i]]
           /\ foreign' = foreign \ {key}
        \/ UNCHANGED <<values, foreign>>
    BY DEF RemoveKey
  <2> HIDE DEF key
  <2>2. QED BY <1>1, <2>1 DEF TypeInv
<1>7. TypeInv' BY <1>1, <1>5, <1>6 DEF TypeInv, RemoveKey
<1>8. OrderOK' /\ ListedIsWhole' BY <1>3, <1>4, <1>5 DEF OrderOK, ListedIsWhole
<1>9. QED BY <1>7, <1>8 DEF Safe

\* A call that returns, is killed, or does nothing.
LEMMA EndSafe ==
  ASSUME IInv, call' = Idle \/ call' = call, registered' \in Names \cup {Nothing},
         UNCHANGED <<values, foreign, pointers, stuck>>
  PROVE  TypeInv' /\ Safe
<1>1. TypeInv /\ OrderOK /\ ListedIsWhole BY DEF IInv
<1>2. Ours' = Ours BY DEF Ours
<1>3. TypeInv' BY <1>1 DEF TypeInv
<1>4. ListedIsWhole' BY <1>1, <1>2 DEF ListedIsWhole
<1>5. OrderOK' BY <1>1, <1>2 DEF OrderOK, Idle, AllWritten
<1>6. QED BY <1>3, <1>4, <1>5 DEF Safe

-----------------------------------------------------------------------------
(* The theorems *)

LEMMA InitInv == ASSUME Init PROVE IInv
<1>1. TypeInv
  <2>1. PICK others \in SUBSET Folded :
          pointers = [f \in Folded |->
            IF f \in others THEN [name |-> CHOOSE n \in Names : Fold[n] = f, ours |-> FALSE]
            ELSE Nothing]
    BY DEF Init
  <2>2. \A f \in Folded : (CHOOSE n \in Names : Fold[n] = f) \in Names BY DEF Folded
  <2>3. pointers \in [Folded -> [name : Names, ours : BOOLEAN] \cup {Nothing}] BY <2>1, <2>2
  <2>4. QED BY <2>3 DEF Init, TypeInv, Keys
<1>2. Ours = {}
  <2>1. \A f \in Folded : pointers[f] = Nothing \/ pointers[f].ours = FALSE
    BY DEF Init
  <2>2. QED BY <2>1 DEF Ours
<1>3. OrderOK /\ ListedIsWhole BY <1>2 DEF Init, OrderOK, ListedIsWhole, Idle
<1>4. QED BY <1>1, <1>3 DEF IInv

LEMMA StepInv == ASSUME IInv, [Next]_vars PROVE IInv'
<1> SUFFICES TypeInv' /\ Safe BY DEF IInv, Safe
<1>1. ASSUME NEW app \in Names, Register(app) PROVE TypeInv' /\ Safe BY <1>1, RegisterSafe
<1>2. CASE WriteValue BY <1>2, WriteValueSafe
<1>3. CASE WritePointer BY <1>3, WritePointerSafe
<1>4. CASE ReadPointers BY <1>4, ReadPointersSafe
<1>5. ASSUME NEW f \in Folded, RemovePointer(f) PROVE TypeInv' /\ Safe BY <1>5, RemovePointerSafe
<1>6. CASE RegisterFails BY <1>6, RegisterFailsSafe
<1>7. CASE RegisterSucceeds
  <2>1. call.name \in Names
    <3>1. call \in RegisterCalls(call.keys) BY <1>7, Stage DEF IInv, RegisterSucceeds
    <3>2. QED BY <3>1 DEF RegisterCalls
  <2>2. QED BY <1>7, <2>1, EndSafe DEF RegisterSucceeds
<1>8. CASE Unregister BY <1>8, UnregisterSafe
<1>9. CASE RemoveKey BY <1>9, RemoveKeySafe
<1>10. CASE Return \/ Kill BY <1>10, EndSafe DEF Return, Kill, IInv, TypeInv
<1>11. CASE UNCHANGED vars BY <1>11, EndSafe DEF vars, IInv, TypeInv
<1>12. QED
  BY <1>1, <1>2, <1>3, <1>4, <1>5, <1>6, <1>7, <1>8, <1>9, <1>10, <1>11 DEF Next

LEMMA Invariant == Spec => []IInv
  BY InitInv, StepInv, PTL DEF Spec

(* The values, the pointers and the call under way have their types.       *)
THEOREM TypeCorrect == Spec => []TypeInv
<1>1. IInv => TypeInv BY DEF IInv
<1>2. QED BY <1>1, Invariant, PTL

(* A pointer that lists the browser, but one whose removal failed, points  *)
(* at capabilities that are all there, whichever calls of the registry     *)
(* fail and wherever register or unregister is killed.                     *)
THEOREM ListingsAreWhole == Spec => []ListedIsWhole
<1>1. IInv => ListedIsWhole BY DEF IInv
<1>2. QED BY <1>1, Invariant, PTL

-----------------------------------------------------------------------------
(* Listed once *)

Spelled == \A f \in Folded : pointers[f] # Nothing => Fold[pointers[f].name] = f

AllUnderItsName == \A i \in Values : values[i] = call.name

OnceOK ==
  /\ registered # Nothing => call = Idle
  /\ call.stage = "write" => \A i \in Values : i < call.next => values[i] = call.name
  /\ call.stage \in {"read", "prune"} => AllUnderItsName /\ Fold[call.name] \in Ours
  /\ call.stage = "prune" =>
       /\ Fold[call.name] \notin call.todo
       /\ ~call.failed => Ours \subseteq call.todo \cup {Fold[call.name]}

OnceInv == Spelled /\ OnceOK /\ ListedOnceByItsName

LEMMA InitOnce == ASSUME Init PROVE OnceInv
<1>1. PICK others \in SUBSET Folded :
        pointers = [f \in Folded |->
          IF f \in others THEN [name |-> CHOOSE n \in Names : Fold[n] = f, ours |-> FALSE]
          ELSE Nothing]
  BY DEF Init
<1>2. \A f \in Folded : Fold[CHOOSE n \in Names : Fold[n] = f] = f BY DEF Folded
<1>3. Spelled BY <1>1, <1>2 DEF Spelled
<1>4. QED BY <1>3 DEF Init, OnceInv, OnceOK, ListedOnceByItsName, Idle

\* A call begins: nothing is claimed of the last registration any more.
LEMMA BeginOnce ==
  ASSUME IInv, OnceInv, Unregister \/ \E app \in Names : Register(app)
  PROVE  OnceInv'
<1>1. registered' = Nothing /\ pointers' = pointers BY DEF Unregister, Register
<1>2. \/ call'.stage = "unpoint"
      \/ call'.stage = "write" /\ call'.next = 1
  <2>1. CASE Unregister BY <2>1 DEF Unregister, Unpoint
  <2>2. ASSUME NEW app \in Names, Register(app) PROVE call'.stage = "write" /\ call'.next = 1
    <3> DEFINE keys == SelectSeq(OwnedKeys, LAMBDA key : ~KeyExists(key))
               first == ~KeyExists("client")
    <3>1. call' = [stage |-> "write", name |-> app, next |-> 1, first |-> first,
                   keys |-> keys, todo |-> {}, failed |-> FALSE]
      BY <2>2 DEF Register
    <3> HIDE DEF keys, first
    <3>2. QED BY <3>1
  <2>3. QED BY <2>1, <2>2
<1>3. Spelled' BY <1>1 DEF OnceInv, Spelled
<1>4. OnceOK' BY <1>1, <1>2, ValuesAre DEF OnceOK
<1>5. ListedOnceByItsName' BY <1>1 DEF ListedOnceByItsName
<1>6. QED BY <1>3, <1>4, <1>5 DEF OnceInv

LEMMA UnderWay ==
  ASSUME IInv, OnceInv, call.stage # "idle"
  PROVE  registered = Nothing
  BY DEF OnceInv, OnceOK, Idle

LEMMA WriteOnce == ASSUME IInv, OnceInv, WriteValue PROVE OnceInv'
<1>1. TypeInv /\ call \in RegisterCalls(call.keys) BY Stage DEF IInv, WriteValue
<1>2. call.next \in 1..6 /\ call.name \in Names
  BY <1>1, ValuesAre DEF WriteValue, RegisterCalls
<1>3. call'.stage = "write" /\ call'.next = call.next + 1 /\ call'.name = call.name
  BY <1>1 DEF WriteValue, RegisterCalls
<1>4. \A i \in Values : values'[i] = IF i = call.next THEN call.name ELSE values[i]
  BY <1>1 DEF WriteValue, TypeInv
<1>5. \A i \in Values : i < call'.next => values'[i] = call'.name
  BY <1>2, <1>3, <1>4, ValuesAre DEF OnceInv, OnceOK, WriteValue
<1>6. registered' = Nothing /\ pointers' = pointers BY UnderWay DEF WriteValue
<1>7. QED BY <1>3, <1>5, <1>6 DEF OnceInv, OnceOK, Spelled, ListedOnceByItsName

LEMMA PointOnce == ASSUME IInv, OnceInv, WritePointer PROVE OnceInv'
<1>1. TypeInv /\ call \in RegisterCalls(call.keys) BY Stage DEF IInv, WritePointer
<1>2. call.next = 7 /\ call.name \in Names /\ call.stage = "write"
  BY <1>1 DEF WritePointer, RegisterCalls, KeyOf
<1>3. call'.stage = "read" /\ call'.name = call.name
  BY <1>1 DEF WritePointer, RegisterCalls
<1>4. AllUnderItsName'
  BY <1>2, <1>3, ValuesAre DEF OnceInv, OnceOK, AllUnderItsName, WritePointer
<1>5. Fold[call.name] \in Folded BY <1>2 DEF Folded
<1> DEFINE g == Fold[call.name]
<1>6. /\ pointers'[g] = [name |-> IF pointers[g] = Nothing THEN call.name ELSE pointers[g].name,
                         ours |-> TRUE]
      /\ \A f \in Folded : f # g => pointers'[f] = pointers[f]
  BY <1>1, <1>5 DEF WritePointer, Pointed, TypeInv
<1>7. Spelled'
  <2>1. Fold[pointers'[g].name] = g BY <1>5, <1>6 DEF OnceInv, Spelled
  <2>2. QED BY <1>6, <2>1 DEF OnceInv, Spelled
<1>8. Fold[call'.name] \in Ours'
  <2>1. pointers'[g] # Nothing
    <3>1. pointers[g] = Nothing \/ pointers[g].name \in Names BY <1>1, <1>5 DEF TypeInv
    <3>2. pointers'[g] \in [name : Names, ours : BOOLEAN] BY <1>2, <1>6, <3>1
    <3>3. QED BY <3>2, NothingAssumption
  <2>2. QED BY <1>3, <1>5, <1>6, <2>1 DEF Ours
<1>9. OnceOK'
  <2>1. registered' = Nothing BY <1>2, UnderWay DEF WritePointer
  <2>2. QED BY <1>3, <1>4, <1>8, <2>1 DEF OnceOK
<1>10. ListedOnceByItsName' BY <1>2, UnderWay DEF WritePointer, ListedOnceByItsName
<1>11. QED BY <1>7, <1>9, <1>10 DEF OnceInv

LEMMA ReadOnce == ASSUME IInv, OnceInv, ReadPointers PROVE OnceInv'
<1>1. TypeInv /\ call \in RegisterCalls(call.keys) BY Stage DEF IInv, ReadPointers
<1>2. call.name \in Names /\ call.stage = "read" BY <1>1 DEF ReadPointers, RegisterCalls
<1>3. /\ call'.stage = "prune" /\ call'.name = call.name /\ call'.todo = PointersBut(call.name)
  BY <1>1 DEF ReadPointers, RegisterCalls
<1>4. UNCHANGED <<values, pointers, registered>> /\ Ours' = Ours BY DEF ReadPointers, Ours
<1>5. call.name # Nothing BY <1>2, NothingAssumption
<1>6. \A f \in Ours : f \in Folded /\ Fold[pointers[f].name] = f
  BY DEF OnceInv, Spelled, Ours
<1>7. PointersBut(call.name) = {f \in Ours : f # Fold[call.name]}
  BY <1>5, <1>6 DEF PointersBut, SameValueName
<1>8. OnceOK'
  <2>1. registered = Nothing BY <1>2, UnderWay
  <2>2. AllUnderItsName /\ Fold[call.name] \in Ours BY <1>2 DEF OnceInv, OnceOK
  <2>3. AllUnderItsName' BY <1>3, <1>4, <2>2 DEF AllUnderItsName
  <2>4. QED BY <1>3, <1>4, <1>7, <2>1, <2>2, <2>3 DEF OnceOK
<1>9. QED BY <1>2, <1>4, <1>8, UnderWay DEF OnceInv, Spelled, ListedOnceByItsName

LEMMA RemoveOnce == ASSUME IInv, OnceInv, NEW f \in Folded, RemovePointer(f) PROVE OnceInv'
<1>1. /\ TypeInv
      /\ call \in RegisterCalls(call.keys) \cup UnregisterCalls(call.keys)
  BY Stage DEF IInv, RemovePointer
<1>2. registered' = Nothing /\ values' = values BY UnderWay DEF RemovePointer
<1>3. Spelled' BY <1>1 DEF OnceInv, Spelled, RemovePointer, TypeInv
<1>4. call'.stage = call.stage /\ call'.todo = call.todo \ {f}
  BY <1>1 DEF RemovePointer, RegisterCalls, UnregisterCalls
<1>5. CASE call.stage = "prune"
  <2>1. call \in RegisterCalls(call.keys) BY <1>5, Stage, <1>1
  <2>2. call'.name = call.name BY <2>1 DEF RemovePointer, RegisterCalls
  <2>3. f # Fold[call.name] BY <1>5 DEF OnceInv, OnceOK, RemovePointer
  <2>4. Fold[call.name] \in Ours /\ AllUnderItsName BY <1>5 DEF OnceInv, OnceOK
  <2>5. Fold[call.name] \in Ours'
    BY <1>1, <2>3, <2>4 DEF Ours, RemovePointer, TypeInv
  <2>6. ~call'.failed => ~call.failed /\ Ours' \subseteq Ours \ {f}
    BY <1>1, <2>1 DEF RemovePointer, RegisterCalls, Ours, TypeInv
  <2>7. ~call.failed => Ours \subseteq call.todo \cup {Fold[call.name]}
    BY <1>5 DEF OnceInv, OnceOK
  <2>8. AllUnderItsName' BY <1>2, <2>2, <2>4 DEF AllUnderItsName
  <2>9. Fold[call.name] \notin call.todo BY <1>5 DEF OnceInv, OnceOK
  <2>10. OnceOK' BY <1>2, <1>4, <1>5, <2>2, <2>5, <2>6, <2>7, <2>8, <2>9 DEF OnceOK
  <2>11. QED BY <1>2, <1>3, <2>10 DEF OnceInv, ListedOnceByItsName
<1>6. CASE call.stage = "unpoint"
  <2>1. OnceOK' BY <1>2, <1>4, <1>6 DEF OnceOK
  <2>2. QED BY <1>2, <1>3, <2>1 DEF OnceInv, ListedOnceByItsName
<1>7. QED BY <1>5, <1>6 DEF RemovePointer

\* The last registration's claim: nothing was left to remove, and nothing failed.
LEMMA SucceedOnce == ASSUME IInv, OnceInv, RegisterSucceeds PROVE OnceInv'
<1>1. /\ call.stage = "prune" /\ call.todo = {} /\ ~call.failed
      /\ registered' = call.name /\ call' = Idle /\ UNCHANGED <<values, pointers>>
  BY DEF RegisterSucceeds
<1>2. Ours' = Ours BY <1>1 DEF Ours
<1>3. AllUnderItsName /\ Ours = {Fold[call.name]} BY <1>1 DEF OnceInv, OnceOK
<1>4. ListedOnceByItsName' BY <1>1, <1>2, <1>3 DEF ListedOnceByItsName, AllUnderItsName
<1>5. OnceOK' BY <1>1 DEF OnceOK, Idle
<1>6. QED BY <1>1, <1>4, <1>5 DEF OnceInv, Spelled

\* What gives a registration up, removes keys, returns or is killed: no
\* registration has succeeded, and none is going to without a new call.
LEMMA GiveUpOnce ==
  ASSUME IInv, OnceInv, RegisterFails \/ RemoveKey \/ Return \/ Kill
  PROVE  OnceInv'
<1>1. TypeInv /\ registered' = Nothing /\ pointers' = pointers
  BY UnderWay DEF RegisterFails, RemoveKey, Return, Kill, IInv, OnceInv, OnceOK
<1>2. call'.stage \in {"idle", "unpoint"}
  <2>1. CASE RegisterFails
    <3>1. call \in RegisterCalls(call.keys) BY <1>1, <2>1, Stage DEF RegisterFails
    <3>2. CASE Unpoint(call) BY <3>1, <3>2 DEF Unpoint, RegisterCalls
    <3>3. CASE call' = Idle BY <3>3 DEF Idle
    <3>4. QED BY <2>1, <3>2, <3>3 DEF RegisterFails, GiveUp
  <2>2. CASE RemoveKey
    <3>1. call \in RegisterCalls(call.keys) \cup UnregisterCalls(call.keys)
      BY <1>1, <2>2, Stage DEF RemoveKey
    <3> DEFINE rest == Tail(call.keys)
    <3>2. call' = [call EXCEPT !.keys = rest] /\ call.stage = "unpoint" BY <2>2 DEF RemoveKey
    <3> HIDE DEF rest
    <3>3. QED BY <3>1, <3>2 DEF RegisterCalls, UnregisterCalls
  <2>3. CASE Return \/ Kill BY <2>3 DEF Return, Kill, Idle
  <2>4. QED BY <2>1, <2>2, <2>3
<1>3. OnceOK' BY <1>1, <1>2 DEF OnceOK
<1>4. QED BY <1>1, <1>3 DEF OnceInv, Spelled, ListedOnceByItsName

LEMMA StepOnce == ASSUME IInv, OnceInv, [Next]_vars PROVE OnceInv'
<1>1. CASE Unregister \/ \E app \in Names : Register(app) BY <1>1, BeginOnce
<1>2. CASE WriteValue BY <1>2, WriteOnce
<1>3. CASE WritePointer BY <1>3, PointOnce
<1>4. CASE ReadPointers BY <1>4, ReadOnce
<1>5. ASSUME NEW f \in Folded, RemovePointer(f) PROVE OnceInv' BY <1>5, RemoveOnce
<1>6. CASE RegisterSucceeds BY <1>6, SucceedOnce
<1>7. CASE RegisterFails \/ RemoveKey \/ Return \/ Kill BY <1>7, GiveUpOnce
<1>8. CASE UNCHANGED vars
  BY <1>8 DEF vars, OnceInv, OnceOK, Spelled, ListedOnceByItsName, Ours, AllUnderItsName
<1>9. QED BY <1>1, <1>2, <1>3, <1>4, <1>5, <1>6, <1>7, <1>8 DEF Next

(* A registration that succeeded leaves one pointer, in the place of its   *)
(* name, and all its values under that name, whatever earlier names and    *)
(* failed calls had left (register, remove_pointers, same_value_name).     *)
THEOREM ListedOnce == Spec => []ListedOnceByItsName
<1>1. Init => OnceInv BY InitOnce
<1>2. IInv /\ OnceInv /\ [Next]_vars => OnceInv' BY StepOnce
<1>3. OnceInv => ListedOnceByItsName BY DEF OnceInv
<1>4. QED BY <1>1, <1>2, <1>3, Invariant, PTL DEF Spec
=============================================================================
