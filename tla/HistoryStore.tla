---------------------------- MODULE HistoryStore ----------------------------
(***************************************************************************)
(* The browsing history of a profile (evreos-shell/src/store/history.rs):  *)
(* rows in memory and the file they are written to whole, by a temporary   *)
(* file renamed over it.                                                   *)
(*                                                                         *)
(* A single operation whose save is refused reports the error and keeps    *)
(* its change in memory; a batch takes it back.  A time is counted in half *)
(* milliseconds: memory holds it exactly, the file only its millisecond.   *)
(* Rows are kept by serial, the place of each among the rows ever made: a  *)
(* row is only ever pushed at the end and what is left keeps its order, so *)
(* the order of the serials is that of the entries.  Titles are left out.  *)
(***************************************************************************)
EXTENDS Naturals, Sequences, FiniteSetsExt, Functions

CONSTANTS
  Addresses,     \* addresses visited
  Times,         \* visit times, in half milliseconds
  WindowKinds,   \* "Normal" and "Private"
  MaxRows,       \* bound on the rows held and on the rows ever made
  MaxRefusals    \* bound on the saves refused in a run

ASSUME HistoryAssumption == Times \subseteq Nat

VARIABLES
  history,     \* HistoryStore.entries, by serial
  nextId,      \* HistoryStore.next_id
  file,        \* the rows of history.toml
  refusals,    \* the saves refused so far
  rowsMade,    \* the rows ever made
  erased       \* the serials of the rows whose erasure was acknowledged

historyVars == <<history, nextId, file, refusals, rowsMade, erased>>

NoHistory == [n \in {} |-> {}]

HistoryInit ==
  /\ history = NoHistory /\ nextId = 1 /\ file = NoHistory
  /\ refusals = 0 /\ rowsMade = 0 /\ erased = {}

Millis(at) == at \div 2

\* serialize, and deserialize after it: only the millisecond of a time is left.
Stored(rows) == [n \in DOMAIN rows |-> [rows[n] EXCEPT !.at = 2 * Millis(@)]]

\* save_to_disk: the file is replaced whole, or stays as it was.
SaveSucceeds(rows) == file' = Stored(rows) /\ UNCHANGED refusals
SaveRefused == refusals < MaxRefusals /\ refusals' = refusals + 1 /\ UNCHANGED file

\* Rows of one visit each, in order, from the next identifier on.  run is the
\* import they came with, 0 for a navigation.
Made(visits, run) ==
  [n \in (rowsMade + 1)..(rowsMade + Len(visits)) |->
     [id |-> nextId + (n - rowsMade - 1), address |-> visits[n - rowsMade].address,
      at |-> visits[n - rowsMade].at, run |-> run]]

\* The rows made are pushed after those held.
Pushed(made) ==
  [n \in DOMAIN history \cup DOMAIN made |->
     IF n \in DOMAIN made THEN made[n] ELSE history[n]]

\* record: a private window leaves nothing.
Record(address, at, kind) ==
  /\ kind # "Private"
  /\ rowsMade < MaxRows
  /\ LET now == Pushed(Made(<<[address |-> address, at |-> at]>>, 0))
     IN /\ history' = now
        /\ SaveSucceeds(now) \/ SaveRefused
  /\ nextId' = nextId + 1
  /\ rowsMade' = rowsMade + 1
  /\ UNCHANGED erased

\* record_batch, when its one save succeeds.  No rows, no save.
RecordBatch(visits, run) ==
  /\ rowsMade + Len(visits) <= MaxRows
  /\ LET now == Pushed(Made(visits, run))
     IN /\ history' = now
        /\ IF visits = <<>> THEN UNCHANGED <<file, refusals>> ELSE SaveSucceeds(now)
  /\ nextId' = nextId + Len(visits)
  /\ rowsMade' = rowsMade + Len(visits)
  /\ UNCHANGED erased

\* record_batch, when its save is refused: the rows are truncated away again.
RecordBatchRefused(visits) ==
  /\ visits # <<>>
  /\ rowsMade + Len(visits) <= MaxRows
  /\ SaveRefused
  /\ UNCHANGED <<history, nextId, rowsMade, erased>>

\* Mutant: an erasure is acknowledged before it is on disk.
EraseUnsaved(kept) ==
  /\ kept # DOMAIN history
  /\ history' = Restrict(history, kept)
  /\ SaveSucceeds(history') \/ SaveRefused
  /\ erased' = erased \cup (DOMAIN history \ kept)
  /\ UNCHANGED <<nextId, rowsMade>>

\* All rows but those kept are taken out of memory and, in the same operation,
\* out of the file; a refused save is reported, and they are out of memory all
\* the same.
Erase(kept) ==
  /\ kept # DOMAIN history
  /\ history' = Restrict(history, kept)
  /\ \/ /\ SaveSucceeds(history')
        /\ erased' = erased \cup (DOMAIN history \ kept)
     \/ SaveRefused /\ UNCHANGED erased
  /\ UNCHANGED <<nextId, rowsMade>>

DeleteEntry(id) == Erase({n \in DOMAIN history : history[n].id # id})

\* delete_range: the bounds in either order, both included.
DeleteRange(from, to) ==
  Erase({n \in DOMAIN history :
           history[n].at < Min({from, to}) \/ history[n].at > Max({from, to})})

\* clear saves even when there was nothing.
Clear ==
  \/ Erase({})
  \/ /\ history = NoHistory
     /\ SaveSucceeds(NoHistory) \/ SaveRefused
     /\ UNCHANGED <<history, nextId, rowsMade, erased>>

\* open: identifiers go on from the largest in the file.  A file that cannot
\* be read opens as an empty store, and the next save replaces it.
OpenHistory ==
  /\ \/ history' = file
     \/ file # NoHistory /\ history' = NoHistory
  /\ nextId' = 1 + Max({0} \cup {history'[n].id : n \in DOMAIN history'})
  /\ UNCHANGED <<file, refusals, rowsMade, erased>>

(* A row whose erasure delete_entry, delete_range or clear acknowledged is *)
(* in no list and in no file again, whatever saves are refused and however *)
(* often the program is restarted.                                         *)
ErasedIsGone == erased \cap (DOMAIN history \cup DOMAIN file) = {}
=============================================================================
