----------------------------- MODULE SqliteFile -----------------------------
(***************************************************************************)
(* Reading an SQLite store from a copy of its bytes                        *)
(* (evreos-shell/src/import/sqlite.rs): the write-ahead log over the main  *)
(* file up to its last commit, and the walk of a table's b-tree.           *)
(*                                                                         *)
(* A page's bytes are the transaction that wrote them last, a version.     *)
(* What a page of a version holds is the constant Node: an interior page   *)
(* its children, a leaf its rows.  A log is its header's salt and its      *)
(* frames; a frame is valid when its salt is the header's, which stands    *)
(* for the checksum chain as well.  Page sizes, encodings, records and     *)
(* overflow chains are left out.                                           *)
(***************************************************************************)
EXTENDS Naturals, Sequences, SequencesExt, FiniteSetsExt

CONSTANTS
  LastPage,  \* pages are numbered from 1
  RootPage,  \* the root of the table's b-tree
  Node,      \* what page p holds in version v: Node[p][v]
  MaxDepth   \* MAX_TREE_DEPTH

Pages == 1..LastPage

ASSUME SqliteAssumption ==
  /\ LastPage \in Nat
  /\ RootPage \in Pages
  /\ MaxDepth \in Nat

NoLog == [salt |-> 0, frames |-> <<>>]

\* Mutant: every frame of the log is kept.
CommittedAll(log) == Len(log.frames)

\* parse_wal: how many frames are kept, those up to the last commit among the
\* frames that are valid from the first on
Committed(log) ==
  Max({0} \cup {k \in DOMAIN log.frames :
                  /\ log.frames[k].commit
                  /\ \A i \in 1..k : log.frames[i].salt = log.salt})

\* page: the newest committed image in the log, or the main file's
PageOf(main, log, p) ==
  LET images == {k \in 1..Committed(log) : log.frames[k].page = p}
  IN IF images = {} THEN main[p] ELSE log.frames[Max(images)].version

\* The store as of the last commit.
Contents(main, log) == [p \in Pages |-> PageOf(main, log, p)]

(***************************************************************************)
(* scan: a stack of pages to visit, each with its depth, the next on top   *)
(***************************************************************************)

ScanStart == [stack |-> <<[page |-> RootPage, depth |-> 0]>>, seen |-> {}, rows |-> <<>>]

\* A page too deep, reached twice or outside the store ends the scan.
Refused(scan) ==
  LET top == Head(scan.stack)
  IN top.depth > MaxDepth \/ top.page \in scan.seen \/ top.page \notin Pages

\* The page on top: its children take its place, first on top, or its rows
\* are visited.
Visit(scan, contents) ==
  LET top == Head(scan.stack)
      node == Node[top.page][contents[top.page]]
  IN [scan EXCEPT
        !.seen = @ \cup {top.page},
        !.rows = @ \o node.rows,
        !.stack = [i \in DOMAIN node.children |->
                     [page |-> node.children[i], depth |-> top.depth + 1]] \o Tail(@)]
=============================================================================
