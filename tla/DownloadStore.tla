---------------------------- MODULE DownloadStore ----------------------------
(***************************************************************************)
(* The download list, crates/evreos-shell/src/store/downloads.rs: entries  *)
(* in memory, written whole to downloads.toml as a temporary file and a    *)
(* rename after every change, except the entries of private windows, which *)
(* are never written.  The file system may refuse a save, the program may  *)
(* be killed at any step, and a file that cannot be read, or not be        *)
(* understood, opens as an empty list: the next save replaces it.          *)
(*                                                                         *)
(* An operation changes the memory first and then saves: it is one action  *)
(* up to the save, which takes two more.  An entry is its id, its state    *)
(* and whether it is private; addresses, sizes, times and the order of the *)
(* list, which no operation looks at, are left out.                        *)
(***************************************************************************)
EXTENDS Naturals, FiniteSetsExt

CONSTANTS
  MaxId,      \* bound on the ids handed out in a run
  NoFile      \* downloads.toml does not exist, or nothing is being saved

DownloadIds == 1..MaxId
States == {"InProgress", "Completed", "Cancelled", "Failed"}
Entry == [id : DownloadIds, state : States, private : BOOLEAN]
Row == [id : DownloadIds, state : States]

ASSUME MaxIdAssumption == MaxId \in Nat
ASSUME NoFileAssumption == \A rows \in SUBSET Row : NoFile # rows

VARIABLES
  running,   \* whether the program runs
  entries,   \* the downloads of the list in memory
  nextId,    \* next_id
  disk,      \* downloads.toml
  saving,    \* the content of the save under way
  unsaved,   \* the last save of this run failed: some operation returned an error
  unread,    \* the list was opened without the file's entries and not saved since
  issued,    \* ids handed out and not started with
  used       \* the ids handed out or started with in this run

vars == <<running, entries, nextId, disk, saving, unsaved, unread, issued, used>>

TypeOK ==
  /\ running \in BOOLEAN /\ unsaved \in BOOLEAN /\ unread \in BOOLEAN
  /\ entries \subseteq Entry
  /\ nextId \in 1..(MaxId + 1)
  /\ disk = NoFile \/ disk \subseteq Row
  /\ saving = NoFile \/ saving \subseteq Row
  /\ issued \subseteq DownloadIds /\ used \subseteq DownloadIds

Init ==
  /\ running = TRUE
  /\ entries = {}
  /\ nextId = 1
  /\ disk = NoFile
  /\ saving = NoFile
  /\ unsaved = FALSE /\ unread = FALSE
  /\ issued = {}
  /\ used = {}

\* serialize
Serialize(list) ==
  {[id |-> e.id, state |-> e.state] : e \in {f \in list : ~f.private}}

\* deserialize
Deserialize(stored) ==
  {[id |-> row.id, state |-> row.state, private |-> FALSE] : row \in stored}

IdsOf(list) == {e.id : e \in list}
EntryOf(id) == CHOOSE e \in entries : e.id = id

Idle == running /\ saving = NoFile

\* The memory becomes list, and is saved when save holds.
Change(list, save) ==
  /\ entries' = list
  /\ saving' = IF save THEN Serialize(list) ELSE NoFile
  /\ UNCHANGED <<running, disk, unsaved, unread>>

\* start_download_with_window_kind, with an id of allocate_id or a later one.
StartDownload(id, private) ==
  /\ Idle
  /\ id \in issued \/ id >= nextId
  /\ id \notin IdsOf(entries)
  /\ Change(entries \cup {[id |-> id, state |-> "InProgress", private |-> private]}, ~private)
  /\ nextId' = IF id >= nextId THEN id + 1 ELSE nextId
  /\ issued' = issued \ {id}
  /\ used' = used \cup {id}

\* allocate_id: the id is gone whether or not a download is started with it.
AllocateId ==
  /\ Idle
  /\ nextId <= MaxId
  /\ nextId' = nextId + 1
  /\ issued' = issued \cup {nextId}
  /\ used' = used \cup {nextId}
  /\ UNCHANGED <<running, entries, disk, saving, unsaved, unread>>

\* complete_download, cancel_download, fail_download
Finish(id, state) ==
  /\ Idle
  /\ id \in IdsOf(entries)
  /\ EntryOf(id).state = "InProgress"
  /\ Change({e \in entries : e.id # id} \cup {[EntryOf(id) EXCEPT !.state = state]},
            ~EntryOf(id).private)
  /\ UNCHANGED <<nextId, issued, used>>

\* update_progress writes the file again, the entry's state as it was.
UpdateProgress(id) ==
  /\ Idle
  /\ id \in IdsOf(entries)
  /\ EntryOf(id).state = "InProgress"
  /\ Change(entries, ~EntryOf(id).private)
  /\ UNCHANGED <<nextId, issued, used>>

\* remove_from_list
RemoveFromList(id) ==
  /\ Idle
  /\ id \in IdsOf(entries)
  /\ Change({e \in entries : e.id # id}, ~EntryOf(id).private)
  /\ UNCHANGED <<nextId, issued, used>>

\* discard_private saves nothing: no private entry was ever written.
DiscardPrivate ==
  /\ Idle
  /\ Change({e \in entries : ~e.private}, FALSE)
  /\ UNCHANGED <<nextId, issued, used>>

\* Mutant: it saves only if something is left.
ClearFinishedUnsaved ==
  /\ Idle
  /\ LET left == {e \in entries : e.state = "InProgress"}
     IN Change(left, left # entries /\ left # {})
  /\ UNCHANGED <<nextId, issued, used>>

\* clear_finished
ClearFinished ==
  /\ Idle
  /\ LET left == {e \in entries : e.state = "InProgress"}
     IN Change(left, left # entries)
  /\ UNCHANGED <<nextId, issued, used>>

\* The temporary file is renamed over downloads.toml, and the operation returns Ok.
SaveSucceeds ==
  /\ running
  /\ saving # NoFile
  /\ disk' = saving
  /\ saving' = NoFile
  /\ unsaved' = FALSE /\ unread' = FALSE
  /\ UNCHANGED <<running, entries, nextId, issued, used>>

\* The write or the rename is refused: the operation returns the error, the
\* file is as it was and the memory keeps the change.
SaveFails ==
  /\ running
  /\ saving # NoFile
  /\ saving' = NoFile
  /\ unsaved' = TRUE
  /\ UNCHANGED <<running, entries, nextId, disk, unread, issued, used>>

Stop ==
  /\ running
  /\ running' = FALSE
  /\ entries' = {}
  /\ saving' = NoFile
  /\ unsaved' = FALSE /\ unread' = FALSE
  /\ issued' = {}
  /\ used' = {}
  /\ UNCHANGED <<nextId, disk>>

\* Mutant: the ids start again at one.
OpenFromOne ==
  /\ running = FALSE
  /\ running' = TRUE
  /\ \E read \in BOOLEAN :
       /\ entries' = IF disk = NoFile \/ ~read THEN {} ELSE Deserialize(disk)
       /\ unread' = (disk # NoFile /\ ~read)
  /\ nextId' = 1
  /\ UNCHANGED <<disk, saving, unsaved, issued, used>>

\* open: the list is read back, or is empty where the file cannot be read or
\* deserialised, and the ids go on after the largest in it.
Open ==
  /\ running = FALSE
  /\ running' = TRUE
  /\ \E read \in BOOLEAN :
       /\ entries' = IF disk = NoFile \/ ~read THEN {} ELSE Deserialize(disk)
       /\ unread' = (disk # NoFile /\ ~read)
  /\ nextId' = Max(IdsOf(entries') \cup {0}) + 1
  /\ UNCHANGED <<disk, saving, unsaved, issued, used>>

Next ==
  \/ \E id \in DownloadIds :
       \/ \E private \in BOOLEAN : StartDownload(id, private)
       \/ \E state \in States \ {"InProgress"} : Finish(id, state)
       \/ UpdateProgress(id) \/ RemoveFromList(id)
  \/ AllocateId
  \/ DiscardPrivate \/ ClearFinished
  \/ SaveSucceeds \/ SaveFails
  \/ Stop \/ Open

Spec == Init /\ [][Next]_vars

(***************************************************************************)
(* Properties                                                              *)
(***************************************************************************)

(* What the operations that returned Ok did is on the disk: between two    *)
(* operations the file is the list without its private entries, unless the *)
(* last save of this run was refused.  So an entry that was removed,       *)
(* cleared or finished is so after any restart that reads the file.  One   *)
(* that does not (unread) shows none of them and keeps the file until its  *)
(* own first save, from which on this holds again.                         *)
AcknowledgedIsDurable ==
  Idle /\ ~unsaved /\ ~unread =>
    IF disk = NoFile THEN Serialize(entries) = {} ELSE disk = Serialize(entries)

(* The id allocate_id hands out next belongs to no download of the list    *)
(* and, in this run, to none before: late progress of a removed download   *)
(* cannot be taken for another's.                                          *)
NextIdIsFresh ==
  running => \A id \in used \cup IdsOf(entries) : id < nextId

=============================================================================
