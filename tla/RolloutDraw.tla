----------------------------- MODULE RolloutDraw -----------------------------
(***************************************************************************)
(* The install's rollout value, crates/evreos-platform/src/update/         *)
(* rollout.rs: RolloutDraw::load_or_draw run by several processes at once  *)
(* on one file, with file-system errors, a process killed at any step and  *)
(* a power loss.                                                           *)
(*                                                                         *)
(* Each file-system call is one step.  A draw is written to a file of its  *)
(* own, whose name no other call uses, and flushed; only then is it linked *)
(* or renamed to the shared name, so the shared file's content is always   *)
(* whole, and what a power loss can undo is the name.                      *)
(***************************************************************************)
EXTENDS Naturals

CONSTANTS
  Procs,        \* the processes
  Whole,        \* ROLLOUT_WHOLE, a million in the code
  NoFile,       \* nothing at the path
  Garbage,      \* a file that does not read as a value
  NoValue       \* a call that has not drawn, or has no value to return

Values == 0..(Whole - 1)
Files == Values \cup {NoFile, Garbage}

ASSUME WholeAssumption == Whole \in Nat \ {0}
ASSUME TokensAssumption ==
  NoFile # Garbage /\ {NoFile, Garbage, NoValue} \cap Nat = {}

VARIABLES
  file,      \* what the shared name reads as
  durable,   \* what it would read as after a power loss
  pc,        \* where each process's call is
  draw,      \* the value the call drew
  taken,     \* the link failed because the name was taken
  kept,      \* the value the call is about to return
  returned,  \* every value any call has returned
  mishaps    \* what has happened that the code makes a weaker promise about

localVars == <<pc, draw, taken, kept>>
vars == <<file, durable, localVars, returned, mishaps>>

\* A file that was not a value; a link that failed for another reason than
\* the name being taken, as every one does without hard links; a power loss.
Mishaps == {"unreadable", "unlinkable", "power"}

Steps == {"idle", "read", "write", "link", "reread", "rename", "remove", "sync"}

TypeOK ==
  /\ file \in Files
  /\ durable \in Files
  /\ pc \in [Procs -> Steps]
  /\ draw \in [Procs -> Values \cup {NoValue}]
  /\ taken \in [Procs -> BOOLEAN]
  /\ kept \in [Procs -> Values \cup {NoValue}]
  /\ returned \subseteq Values
  /\ mishaps \subseteq Mishaps

Init ==
  /\ file \in Files
  /\ durable = file
  /\ pc = [p \in Procs |-> "idle"]
  /\ draw = [p \in Procs |-> NoValue]
  /\ taken = [p \in Procs |-> FALSE]
  /\ kept = [p \in Procs |-> NoValue]
  /\ returned = {}
  /\ mishaps = IF file = Garbage THEN {"unreadable"} ELSE {}

Goto(p, step) == pc' = [pc EXCEPT ![p] = step]

\* The call is over, and its locals with it.
Leave(p) ==
  /\ Goto(p, "idle")
  /\ draw' = [draw EXCEPT ![p] = NoValue]
  /\ taken' = [taken EXCEPT ![p] = FALSE]
  /\ kept' = [kept EXCEPT ![p] = NoValue]

Call(p) ==
  /\ pc[p] = "idle"
  /\ Goto(p, "read")
  /\ UNCHANGED <<file, durable, draw, taken, kept, returned, mishaps>>

\* A value found by the first read is returned at once.
ReadValue(p) ==
  /\ pc[p] = "read"
  /\ file \in Values
  /\ Leave(p)
  /\ returned' = returned \cup {file}
  /\ UNCHANGED <<file, durable, mishaps>>

ReadNoValue(p) ==
  /\ pc[p] = "read"
  /\ file \notin Values
  /\ Goto(p, "write")
  /\ UNCHANGED <<file, durable, draw, taken, kept, returned, mishaps>>

\* draw() and write_partial: the value is drawn, written and flushed.
WritePartial(p) ==
  /\ pc[p] = "write"
  /\ \E v \in Values : draw' = [draw EXCEPT ![p] = v]
  /\ Goto(p, "link")
  /\ UNCHANGED <<file, durable, taken, kept, returned, mishaps>>

Keep(p, v) ==
  /\ kept' = [kept EXCEPT ![p] = v]
  /\ Goto(p, "remove")

\* The draw comes to the path, by a link or by a rename.
PutInPlace(p) == file' = draw[p] /\ Keep(p, draw[p])

Link(p) ==
  /\ pc[p] = "link"
  /\ file = NoFile
  /\ PutInPlace(p)
  /\ UNCHANGED <<durable, draw, taken, returned, mishaps>>

LinkFails(p) ==
  /\ pc[p] = "link"
  /\ \/ /\ file # NoFile
        /\ taken' = [taken EXCEPT ![p] = TRUE]
        /\ UNCHANGED mishaps
     \/ mishaps' = mishaps \cup {"unlinkable"} /\ UNCHANGED taken
  /\ Goto(p, "reread")
  /\ UNCHANGED <<file, durable, draw, kept, returned>>

\* Mutant: the call returns what it drew, not what it found.
RereadKeepsDraw(p) ==
  /\ pc[p] = "reread"
  /\ \/ file \in Values /\ Keep(p, draw[p])
     \/ file = Garbage /\ Goto(p, "rename") /\ UNCHANGED kept
     \/ file = NoFile /\ ~taken[p] /\ Goto(p, "rename") /\ UNCHANGED kept
     \/ file = NoFile /\ taken[p] /\ Goto(p, "remove") /\ UNCHANGED kept
  /\ UNCHANGED <<file, durable, draw, taken, returned, mishaps>>

\* Mutant: a file that is not a value is taken for a missing one whose name
\* is taken, and nobody replaces it.
RereadWaits(p) ==
  /\ pc[p] = "reread"
  /\ \/ file \in Values /\ Keep(p, file)
     \/ file = NoFile /\ ~taken[p] /\ Goto(p, "rename") /\ UNCHANGED kept
     \/ file = NoFile /\ taken[p] /\ Goto(p, "remove") /\ UNCHANGED kept
  /\ UNCHANGED <<file, durable, draw, taken, returned, mishaps>>

\* The read after a failed link decides: a value there is the value, a file
\* that is not one is replaced, a missing one only if the name was not taken.
Reread(p) ==
  /\ pc[p] = "reread"
  /\ \/ file \in Values /\ Keep(p, file)
     \/ file = Garbage /\ Goto(p, "rename") /\ UNCHANGED kept
     \/ file = NoFile /\ ~taken[p] /\ Goto(p, "rename") /\ UNCHANGED kept
     \/ file = NoFile /\ taken[p] /\ Goto(p, "remove") /\ UNCHANGED kept
  /\ UNCHANGED <<file, durable, draw, taken, returned, mishaps>>

\* Mutant: the shared file is written in place, and a reader sees it torn.
RenameTorn(p) ==
  /\ pc[p] = "rename"
  /\ \/ file # Garbage /\ file' = Garbage /\ UNCHANGED <<pc, kept>>
     \/ file = Garbage /\ PutInPlace(p)
  /\ UNCHANGED <<durable, draw, taken, returned, mishaps>>

\* Whatever is there by now is replaced.
Rename(p) ==
  /\ pc[p] = "rename"
  /\ PutInPlace(p)
  /\ UNCHANGED <<durable, draw, taken, returned, mishaps>>

\* The partial is removed; only a call that kept a value flushes the name.
RemovePartial(p) ==
  /\ pc[p] = "remove"
  /\ IF kept[p] = NoValue THEN Leave(p)
     ELSE Goto(p, "sync") /\ UNCHANGED <<draw, taken, kept>>
  /\ UNCHANGED <<file, durable, returned, mishaps>>

\* sync_directory, then the return.  The flush's own failure is ignored.
Sync(p) ==
  /\ pc[p] = "sync"
  /\ durable' \in {file, durable}
  /\ returned' = returned \cup {kept[p]}
  /\ Leave(p)
  /\ UNCHANGED <<file, mishaps>>

\* An error of the read or of write_partial (which removes its file) is
\* returned; one of the second read or of the rename removes the partial first.
Fail(p) ==
  /\ \/ pc[p] \in {"read", "write"} /\ Leave(p)
     \/ pc[p] \in {"reread", "rename"} /\ Goto(p, "remove") /\ UNCHANGED <<draw, taken, kept>>
  /\ UNCHANGED <<file, durable, returned, mishaps>>

\* The process ends where it is, and another may start in its place.
Kill(p) ==
  /\ pc[p] # "idle"
  /\ Leave(p)
  /\ UNCHANGED <<file, durable, returned, mishaps>>

\* The file system flushes the name on its own.
Flush ==
  /\ durable # file
  /\ durable' = file
  /\ UNCHANGED <<file, localVars, returned, mishaps>>

LosePower ==
  /\ file' = durable
  /\ pc' = [p \in Procs |-> "idle"]
  /\ draw' = [p \in Procs |-> NoValue]
  /\ taken' = [p \in Procs |-> FALSE]
  /\ kept' = [p \in Procs |-> NoValue]
  /\ mishaps' = mishaps \cup {"power"}
  /\ UNCHANGED <<durable, returned>>

Step(p) ==
  \/ ReadValue(p) \/ ReadNoValue(p) \/ WritePartial(p)
  \/ Link(p) \/ LinkFails(p) \/ Reread(p) \/ Rename(p)
  \/ RemovePartial(p) \/ Sync(p)

Next ==
  \/ \E p \in Procs : Call(p) \/ Step(p) \/ Fail(p) \/ Kill(p)
  \/ Flush
  \/ LosePower

\* A process that is not killed keeps running.
Spec == Init /\ [][Next]_vars /\ \A p \in Procs : WF_vars(Step(p))

(***************************************************************************)
(* Properties                                                              *)
(***************************************************************************)

(* As long as every link works and no unreadable file is in the way, every *)
(* value any call of any process ever returned is the one at the path:     *)
(* processes that draw at once for a new install agree, killed ones and    *)
(* ones started after them included.                                       *)
Agreement == mishaps = {} => returned \subseteq {file}

(* Until then a value, once at the path, is never replaced.                *)
ValueIsKept == [][(file \in Values /\ mishaps' = {}) => file' = file]_<<file, mishaps>>

(* Without links, or over an unreadable file, the last to put its value in *)
(* place wins; but short of a power loss a value is only ever replaced by  *)
(* a value, so no reader sees a file half written.                         *)
ValueNeverTorn ==
  [][(file \in Values /\ "power" \notin mishaps') => file' \in Values]_<<file, mishaps>>

(* No call waits for another process: each one returns.                    *)
CallsReturn == \A p \in Procs : (pc[p] # "idle") ~> (pc[p] = "idle")

(* Where links work, a value whose name reached the disk is permanent:     *)
(* neither later calls nor power losses change it.                         *)
FlushedValueIsKept ==
  [][(durable \in Values /\ mishaps' \subseteq {"power"}) => durable' = durable]_<<durable, mishaps>>
=============================================================================
