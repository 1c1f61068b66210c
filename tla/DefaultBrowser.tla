--------------------------- MODULE DefaultBrowser ---------------------------
(***************************************************************************)
(* The browser's registration with the system, crates/evreos-platform/src/ *)
(* default_browser.rs: register and unregister, over a registry any call   *)
(* of which may fail, by a program that may be killed between two calls.   *)
(*                                                                         *)
(* The names are those of one product through its renamings, which share   *)
(* one key.  The system lists the browser while a value under              *)
(* RegisteredApplications points at its capabilities.  The reads before    *)
(* the first write change nothing when they fail, and are not steps.       *)
(***************************************************************************)
EXTENDS Naturals, Sequences, SequencesExt

CONSTANTS
  Names,     \* product names, each with the same letters and digits
  Fold,      \* what the registry compares a value's name by
  Nothing    \* no value, no pointer, no name

ASSUME FoldAssumption == DOMAIN Fold = Names
ASSUME NothingAssumption == Nothing \notin Names \cup [name : Names, ours : BOOLEAN]

\* owned_keys, in their order, and the key of each of a registration's values
\* before the last, in the order they are written: two stand for each key's.
OwnedKeys == <<"client", "html", "url">>
KeyOf == <<"client", "client", "html", "html", "url", "url">>
Values == DOMAIN KeyOf

VARIABLES
  values,      \* for each value, the name it was written for, or Nothing
  foreign,     \* the keys that hold something no registration wrote
  pointers,    \* RegisteredApplications: per folded name, its spelling and
               \* whether it points at these capabilities, or Nothing
  call,        \* the call under way
  registered,  \* the name of the last call, when it was a register that succeeded
  stuck        \* pointers that were to be removed and could not be

vars == <<values, foreign, pointers, call, registered, stuck>>

Folded == {Fold[n] : n \in Names}
Ours == {f \in Folded : pointers[f] # Nothing /\ pointers[f].ours}
SameValueName(a, b) == Fold[a] = Fold[b]

KeyExists(key) == key \in foreign \/ \E i \in Values : KeyOf[i] = key /\ values[i] # Nothing

Idle == [stage |-> "idle"]

\* Other applications may have a value of one of the names, and keys of ours.
Init ==
  /\ values = [i \in Values |-> Nothing]
  /\ foreign \in SUBSET {"client", "html"}
  /\ \E others \in SUBSET Folded :
       pointers = [f \in Folded |->
         IF f \in others THEN [name |-> CHOOSE n \in Names : Fold[n] = f, ours |-> FALSE]
         ELSE Nothing]
  /\ call = Idle
  /\ registered = Nothing
  /\ stuck = {}

(***************************************************************************)
(* remove_pointers: the values pointing here are read, then removed one    *)
(* after the other, whichever removals fail.                               *)
(***************************************************************************)

\* Mutant: the name to keep is looked for as it is spelled.
PointersButSpelled(keep) == {f \in Ours : pointers[f].name # keep}

PointersBut(keep) ==
  {f \in Ours : keep = Nothing \/ ~SameValueName(keep, pointers[f].name)}

\* A call's whole undoing, and unregister: its pointers first, then its keys.
Unpoint(c) ==
  \/ /\ call' = [c EXCEPT !.stage = "unpoint", !.todo = PointersBut(Nothing)]
     /\ UNCHANGED stuck
  \/ /\ call' = [c EXCEPT !.stage = "unpoint", !.todo = {}]
     /\ stuck' = stuck \cup Ours

\* What register does once it has failed: only a first registration is undone.
GiveUp == IF call.first THEN Unpoint(call) ELSE call' = Idle /\ UNCHANGED stuck

RemovePointer(f) ==
  /\ call.stage \in {"prune", "unpoint"}
  /\ f \in call.todo
  /\ \/ /\ pointers' = [pointers EXCEPT ![f] = Nothing]
        /\ stuck' = stuck \ {f}
        /\ call' = [call EXCEPT !.todo = @ \ {f}]
     \/ /\ stuck' = stuck \cup {f}
        /\ call' = [call EXCEPT !.todo = @ \ {f}, !.failed = TRUE]
        /\ UNCHANGED pointers
  /\ UNCHANGED <<values, foreign, registered>>

(***************************************************************************)
(* register                                                                *)
(***************************************************************************)

\* A first registration's keys are removed again should it fail, those that
\* existed aside.
Register(app) ==
  /\ call = Idle
  /\ LET first == ~KeyExists("client")
     IN call' = [stage |-> "write", name |-> app, next |-> 1, first |-> first,
                 keys |-> SelectSeq(OwnedKeys, LAMBDA key : ~KeyExists(key)),
                 todo |-> {}, failed |-> FALSE]
  /\ registered' = Nothing
  /\ UNCHANGED <<values, foreign, pointers, stuck>>

WriteValue ==
  /\ call.stage = "write"
  /\ call.next \in Values
  /\ values' = [values EXCEPT ![call.next] = call.name]
  /\ call' = [call EXCEPT !.next = @ + 1]
  /\ UNCHANGED <<foreign, pointers, registered, stuck>>

\* The value's first spelling is kept when it is written again.
Pointed ==
  LET f == Fold[call.name]
  IN [pointers EXCEPT ![f] = [name |-> IF @ = Nothing THEN call.name ELSE @.name,
                              ours |-> TRUE]]

\* The last value written is the pointer.
WritePointer ==
  /\ call.stage = "write"
  /\ call.next = Len(KeyOf) + 1
  /\ pointers' = Pointed
  /\ stuck' = stuck \ {Fold[call.name]}
  /\ call' = [call EXCEPT !.stage = "read"]
  /\ UNCHANGED <<values, foreign, registered>>

\* The pointers are read, for all but the one just written to be removed.
ReadPointers ==
  /\ call.stage = "read"
  /\ call' = [call EXCEPT !.stage = "prune", !.todo = PointersBut(call.name)]
  /\ UNCHANGED <<values, foreign, pointers, registered, stuck>>

RegisterFails ==
  /\ \/ call.stage \in {"write", "read"}
     \/ call.stage = "prune" /\ call.todo = {} /\ call.failed
  /\ GiveUp
  /\ UNCHANGED <<values, foreign, pointers, registered>>

RegisterSucceeds ==
  /\ call.stage = "prune" /\ call.todo = {} /\ ~call.failed
  /\ registered' = call.name
  /\ call' = Idle
  /\ UNCHANGED <<values, foreign, pointers, stuck>>

(***************************************************************************)
(* unregister, whose steps the undoing of a registration shares            *)
(***************************************************************************)

Unregister ==
  /\ call = Idle
  /\ registered' = Nothing
  /\ Unpoint([stage |-> "unpoint", keys |-> OwnedKeys, todo |-> {}, failed |-> FALSE])
  /\ UNCHANGED <<values, foreign, pointers>>

\* Mutant: the keys go before the pointers.
RemoveKeyFirst ==
  /\ call.stage = "unpoint"
  /\ call.keys # <<>>
  /\ values' = [i \in Values |-> IF KeyOf[i] = Head(call.keys) THEN Nothing ELSE values[i]]
  /\ foreign' = foreign \ {Head(call.keys)}
  /\ call' = [call EXCEPT !.keys = Tail(@)]
  /\ UNCHANGED <<pointers, registered, stuck>>

\* A key goes whole, whoever wrote it, or stays as it is.
RemoveKey ==
  /\ call.stage = "unpoint" /\ call.todo = {}
  /\ call.keys # <<>>
  /\ LET key == Head(call.keys)
     IN \/ /\ values' = [i \in Values |-> IF KeyOf[i] = key THEN Nothing ELSE values[i]]
           /\ foreign' = foreign \ {key}
        \/ UNCHANGED <<values, foreign>>
  /\ call' = [call EXCEPT !.keys = Tail(@)]
  /\ UNCHANGED <<pointers, registered, stuck>>

Return ==
  /\ call.stage = "unpoint" /\ call.todo = {} /\ call.keys = <<>>
  /\ call' = Idle
  /\ UNCHANGED <<values, foreign, pointers, registered, stuck>>

\* The program is killed between two calls of the registry.
Kill ==
  /\ call # Idle
  /\ call' = Idle
  /\ UNCHANGED <<values, foreign, pointers, registered, stuck>>

Next ==
  \/ \E app \in Names : Register(app)
  \/ WriteValue \/ WritePointer \/ ReadPointers
  \/ \E f \in Folded : RemovePointer(f)
  \/ RegisterFails \/ RegisterSucceeds
  \/ Unregister \/ RemoveKey \/ Return
  \/ Kill

Spec == Init /\ [][Next]_vars

(***************************************************************************)
(* Properties                                                              *)
(***************************************************************************)

(* The system never lists the browser by capabilities that are not all     *)
(* there, whichever call of the registry fails and wherever the program is *)
(* killed: a pointer whose removal failed is the one that can be left over *)
(* a registration half removed.                                            *)
ListedIsWhole == Ours \ stuck # {} => \A i \in Values : values[i] # Nothing

(* After a registration that succeeded the system lists the browser once,  *)
(* under the name its capabilities have, however often it was renamed, in  *)
(* letters or only in their case, and whatever earlier calls left behind.  *)
ListedOnceByItsName ==
  registered # Nothing =>
    /\ Ours = {Fold[registered]}
    /\ \A i \in Values : values[i] = registered
=============================================================================
