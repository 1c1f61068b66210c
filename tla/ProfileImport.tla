--------------------------- MODULE ProfileImport ----------------------------
(***************************************************************************)
(* Importing a profile of another browser (evreos-shell/src/import.rs,     *)
(* ImportJob and write_imported) into the stores of the registry           *)
(* (evreos-shell/src/store/mod.rs).                                        *)
(*                                                                         *)
(* The profile is read on the worker pool while the member goes on; the    *)
(* write is made on the thread that owns the stores, the bookmarks first,  *)
(* then the history, and the program may end between the two.  Of the      *)
(* bookmarks only the folder each import makes is kept, named by the run   *)
(* that made it; BookmarkStore models the batch that writes it.  How a     *)
(* profile is read is Snapshot's subject: here the read gives its rows or  *)
(* a failure.  The suggestions are taken from the same stores.             *)
(***************************************************************************)
EXTENDS HistoryStore, Suggestions

CONSTANTS
  Profiles,   \* what a profile may hold: whether it has bookmarks, and its visits
  MaxRuns,    \* bound on the imports run
  OpenTabs,   \* the addresses of the open tabs, for a query
  Bookmarked  \* the addresses an imported folder's bookmarks have

ASSUME ImportAssumption ==
  /\ MaxRuns \in Nat
  /\ Addresses \subseteq Texts
  /\ Profiles \subseteq [bookmarks : BOOLEAN, visits : Seq([address : Addresses, at : Nat])]
  /\ OpenTabs \cup {Bookmarked} \subseteq Seq(Texts)

VARIABLES
  job,          \* the import: its state, its error, its run and its counts
  doing,        \* where write_imported is, "nothing" outside it
  data,         \* what was read
  folders,      \* the folders of imports, in memory
  foldersFile   \* ... and in bookmarks.toml

importVars == <<job, doing, data, folders, foldersFile>>
profileVars == <<historyVars, importVars>>

NoData == [bookmarks |-> FALSE, visits |-> <<>>]
ReadErrors == {"ProfileMissing", "ReadFailed", "SourceBusy", "SourceInterrupted", "Unreadable"}
NoCounts == [bookmarks |-> 0, history |-> 0]
Pending(run) == [state |-> "Pending", error |-> "none", run |-> run, counts |-> NoCounts]

ImportInit ==
  /\ HistoryInit
  /\ job = Pending(0)
  /\ doing = "nothing"
  /\ data = NoData
  /\ folders = {} /\ foldersFile = {}

Fails(error) ==
  /\ job' = [job EXCEPT !.state = "Failed", !.error = error, !.counts = NoCounts]
  /\ doing' = "nothing" /\ data' = NoData

\* A job may be run again, whatever came of it.
StartReading ==
  /\ job.state # "Reading"
  /\ job.run < MaxRuns
  /\ job' = [Pending(job.run + 1) EXCEPT !.state = "Reading"]
  /\ UNCHANGED <<historyVars, doing, data, folders, foldersFile>>

\* The read comes back to the thread that owns the stores: finish.
ReadReturns(profile) ==
  /\ job.state = "Reading" /\ doing = "nothing"
  /\ data' = profile /\ doing' = "bookmarks"
  /\ UNCHANGED <<historyVars, job, folders, foldersFile>>

ReadFailed(error) ==
  /\ job.state = "Reading" /\ doing = "nothing"
  /\ Fails(error)
  /\ UNCHANGED <<historyVars, folders, foldersFile>>

\* One batch of bookmarks: in memory and on disk, or in neither.  A profile
\* without bookmarks makes no folder.
WriteBookmarks ==
  /\ doing = "bookmarks"
  /\ \/ /\ data.bookmarks
        /\ folders' = folders \cup {job.run} /\ foldersFile' = folders'
        /\ doing' = "history"
        /\ UNCHANGED <<historyVars, job, data>>
     \/ /\ ~data.bookmarks
        /\ doing' = "history"
        /\ UNCHANGED <<historyVars, job, data, folders, foldersFile>>
     \/ /\ data.bookmarks
        /\ SaveRefused
        /\ Fails("Bookmarks")
        /\ UNCHANGED <<history, nextId, rowsMade, erased, folders, foldersFile>>

Earlier(i, j) == i < j

\* The visits at some of their places, in order.
VisitsAt(visits, places) ==
  LET order == Sorted(places, Earlier) IN [k \in DOMAIN order |-> visits[order[k]]]

\* Mutant: rows are told apart by the exact instant.
FreshByInstant(visits) ==
  LET seen == {<<history[n].address, history[n].at>> : n \in DOMAIN history}
  IN VisitsAt(visits, {i \in DOMAIN visits : <<visits[i].address, visits[i].at>> \notin seen})

\* Mutant: an address visited before is not fresh.
FreshByAddress(visits) ==
  VisitsAt(visits, {i \in DOMAIN visits :
                      \A n \in DOMAIN history : history[n].address # visits[i].address})

\* A row as it is told apart from others: by address and millisecond.
RowOf(visit) == <<visit.address, Millis(visit.at)>>

\* The rows not already there, and among the read rows themselves the first
\* of each.
Fresh(visits) ==
  VisitsAt(visits, {i \in DOMAIN visits :
                      /\ \A j \in 1..(i - 1) : RowOf(visits[j]) # RowOf(visits[i])
                      /\ \A n \in DOMAIN history : RowOf(history[n]) # RowOf(visits[i])})

WriteHistory ==
  /\ doing = "history"
  /\ LET fresh == Fresh(data.visits)
     IN \/ /\ RecordBatch(fresh, job.run)
           /\ job' = [job EXCEPT !.state = "Written",
                        !.counts = [bookmarks |-> IF data.bookmarks THEN Len(Bookmarked) ELSE 0,
                                    history |-> Len(fresh)]]
           /\ doing' = "nothing" /\ data' = NoData
        \/ /\ RecordBatchRefused(fresh)
           /\ IF data.bookmarks THEN doing' = "undo" /\ UNCHANGED <<job, data>>
              ELSE Fails("History")
  /\ UNCHANGED <<folders, foldersFile>>

\* Mutant: whether the removal is saved is not looked at.
UndoBookmarksUnchecked ==
  /\ doing = "undo"
  /\ \/ foldersFile' = folders \ {job.run} /\ UNCHANGED refusals
     \/ SaveRefused /\ UNCHANGED foldersFile
  /\ folders' = folders \ {job.run}
  /\ Fails("History")
  /\ UNCHANGED <<history, nextId, file, rowsMade, erased>>

\* The folder is removed in a batch: a removal that cannot be saved leaves it
\* in memory as well, and is reported.
UndoBookmarks ==
  /\ doing = "undo"
  /\ \/ /\ folders' = folders \ {job.run} /\ foldersFile' = folders'
        /\ Fails("History")
        /\ UNCHANGED historyVars
     \/ /\ SaveRefused
        /\ Fails("RollbackFailed")
        /\ UNCHANGED <<history, nextId, rowsMade, erased, folders, foldersFile>>

(***************************************************************************)
(* The member, on the same thread, and the program ending                  *)
(***************************************************************************)

MemberNavigates ==
  \E a \in Addresses, t \in Times, kind \in WindowKinds : Record(a, t, kind)

MemberErases ==
  \/ \E n \in DOMAIN history : DeleteEntry(history[n].id)
  \/ \E from, to \in Times : DeleteRange(from, to)
  \/ Clear

\* A folder an import made, deleted by a single operation.
MemberDeletesFolder ==
  /\ \E run \in folders : folders' = folders \ {run}
  /\ \/ foldersFile' = folders' /\ UNCHANGED refusals
     \/ SaveRefused /\ UNCHANGED foldersFile
  /\ UNCHANGED <<history, nextId, file, rowsMade, erased>>

Member ==
  /\ doing = "nothing"
  /\ \/ (MemberNavigates \/ MemberErases) /\ UNCHANGED <<folders, foldersFile>>
     \/ MemberDeletesFolder
  /\ UNCHANGED <<job, doing, data>>

\* StoreRegistry::open, when the program is started again.
StartAgain ==
  /\ OpenHistory
  /\ folders' = foldersFile
  /\ job' = Pending(job.run)
  /\ doing' = "nothing" /\ data' = NoData
  /\ UNCHANGED foldersFile

ImportNext ==
  \/ StartReading
  \/ \E profile \in Profiles : ReadReturns(profile)
  \/ \E error \in ReadErrors : ReadFailed(error)
  \/ WriteBookmarks \/ WriteHistory \/ UndoBookmarks
  \/ Member
  \/ StartAgain

ImportSpec == ImportInit /\ [][ImportNext]_profileVars

(***************************************************************************)
(* Properties                                                              *)
(***************************************************************************)

ofRun(rows, run) == {n \in DOMAIN rows : rows[n].run = run}

(* An import that failed left nothing of itself in memory or on disk,      *)
(* unless it said that its bookmarks remain (write_imported and its        *)
(* removal of the imported folder).                                        *)
FailureLeavesNothing ==
  job.state = "Failed" /\ job.error # "RollbackFailed" =>
    /\ job.run \notin folders \cup foldersFile
    /\ ofRun(history, job.run) = {} /\ ofRun(file, job.run) = {}

(* No address and instant is imported twice, however often the same        *)
(* profile is imported, across restarts that keep only the millisecond of  *)
(* a time: write_imported compares what the file keeps.                    *)
ImportedOnce ==
  \A m, n \in DOMAIN history :
    m < n /\ history[n].run # 0 => RowOf(history[m]) # RowOf(history[n])

(* When the job says it is written everything that was read is there, its  *)
(* own rows and folder on disk too: also when an earlier import of the     *)
(* same profile was cut short between its two writes.                      *)
WrittenIsWhole ==
  [][job.state = "Reading" /\ job'.state = "Written" =>
       /\ \A k \in DOMAIN data.visits : \E n \in DOMAIN history' :
            RowOf(history'[n]) = RowOf(data.visits[k])
       /\ data.bookmarks => job.run \in folders' \cap foldersFile'
       /\ Cardinality(ofRun(file', job.run)) = job'.counts.history]_profileVars

\* The addresses of the rows, oldest first.
Column(rows) ==
  LET order == Sorted(DOMAIN rows, Earlier) IN [i \in DOMAIN order |-> rows[order[i]].address]

(* Whatever the stores hold, query_with_limit answers with the best        *)
(* suggestions: a page once, from its best source, in order, none left out *)
(* for a worse one.                                                        *)
SuggestionsAreBest ==
  LET bookmarks == IF folders = {} THEN <<>> ELSE Bookmarked
  IN \A q \in DOMAIN Bonus, limit \in 1..2, tabs \in OpenTabs :
       IsAnswer(Query(q, limit, tabs, bookmarks, Column(history)), limit,
                Offers(q, tabs, bookmarks, Column(history)))
=============================================================================
