---------------------------- MODULE SourceStore -----------------------------
(***************************************************************************)
(* Another browser's SQLite store while that browser runs: what            *)
(* evreos-shell/src/import/snapshot.rs relies on and its unit tests        *)
(* script.  The store is in rollback-journal mode or in write-ahead-log    *)
(* mode.  A transaction writes its pages in ascending order.               *)
(*                                                                         *)
(* Every transaction writes bytes no other did, so a page's version is the *)
(* transaction's number.  No fairness is assumed of the browser: it may    *)
(* stop anywhere, and when it comes back it rolls back what was open.      *)
(***************************************************************************)
EXTENDS SqliteFile

CONSTANTS
  MaxTransactions,  \* bound on the transactions of a run
  MaxRestarts,      \* bound on the times the log is started over
  NoTransaction     \* no transaction is open

ASSUME SourceAssumption == {MaxTransactions, MaxRestarts} \subseteq Nat

VARIABLES
  mode,       \* "rollback", "wal", or "absent" when the store was never written
  main,       \* the main file: the version of each page
  log,        \* the write-ahead log
  open,       \* the open transaction: its number, the pages left, what it
              \* overwrote, and whether it is being rolled back
  begun,      \* the transactions begun
  committed   \* the states of the store that were committed, oldest first

sourceVars == <<mode, main, log, open, begun, committed>>

\* The version of the pages of a file no sound browser wrote.
Malformed == MaxTransactions + 1
Versions == 0..Malformed

\* No transaction open is not a transaction.
ASSUME NoTransactionAssumption ==
  NoTransaction \notin [number : 1..MaxTransactions, left : SUBSET Pages, back : BOOLEAN,
                        undo : SUBSET (Pages \X Versions)]

\* What a page holds: its children's numbers and its rows.
ASSUME NodeAssumption ==
  \A p \in Pages, v \in Versions : /\ Node[p][v].children \in Seq(Nat)
                                   /\ Node[p][v].rows \in Seq(Range(Node[p][v].rows))

\* The store as the import finds it: at rest, or with a transaction open that
\* wrote its pages up to some page; the browser may have stopped there.
SourceInit ==
  /\ mode \in {"rollback", "wal", "absent"}
  /\ log = NoLog
  /\ \E v \in {0, Malformed} :
       /\ committed = <<[p \in Pages |-> v]>>
       /\ \/ /\ open = NoTransaction
             /\ begun = 0
             /\ main = [p \in Pages |-> v]
          \/ \E upto \in 0..LastPage :
               /\ mode = "rollback" /\ MaxTransactions > 0
               /\ begun = 1
               /\ main = [p \in Pages |-> IF p <= upto THEN 1 ELSE v]
               /\ open = [number |-> 1, left |-> Pages \ (1..upto), back |-> FALSE,
                          undo |-> (1..upto) \X {v}]

\* The rollback journal carries its magic while a transaction is open.
JournalHot == mode = "rollback" /\ open # NoTransaction

\* What the journal holds, as far as a comparison of two reads can tell.
Journal == IF JournalHot THEN open.number ELSE 0

Begin(pages) ==
  /\ mode # "absent" /\ open = NoTransaction
  /\ begun < MaxTransactions
  /\ begun' = begun + 1
  /\ open' = [number |-> begun + 1, left |-> pages, undo |-> {}, back |-> FALSE]
  /\ UNCHANGED <<mode, main, log, committed>>

\* The pages the transaction overwrote are in the journal.
WritePage(p) ==
  /\ JournalHot /\ ~open.back /\ open.left # {} /\ p = Min(open.left)
  /\ main' = [main EXCEPT ![p] = open.number]
  /\ open' = [open EXCEPT !.left = @ \ {p}, !.undo = @ \cup {<<p, main[p]>>}]
  /\ UNCHANGED <<mode, log, begun, committed>>

Commit ==
  /\ JournalHot /\ ~open.back /\ open.left = {}
  /\ open' = NoTransaction
  /\ committed' = Append(committed, main)
  /\ UNCHANGED <<mode, main, log, begun>>

\* A page put back from the journal; nothing more is written.
RestorePage(p) ==
  /\ JournalHot
  /\ \E v \in Versions :
       /\ <<p, v>> \in open.undo
       /\ main' = [main EXCEPT ![p] = v]
       /\ open' = [open EXCEPT !.back = TRUE, !.undo = @ \ {<<p, v>>}]
  /\ UNCHANGED <<mode, log, begun, committed>>

\* Everything is as it was before the transaction: in the main file, once its
\* pages are back, or in the log, where the frames stay past the last commit.
Rollback ==
  /\ open # NoTransaction
  /\ mode = "wal" \/ open.undo = {}
  /\ open' = NoTransaction
  /\ UNCHANGED <<mode, main, log, begun, committed>>

\* A frame goes after the last commit, over what a transaction rolled back
\* left there; the frame of the last page commits.
WriteFrame(p) ==
  /\ mode = "wal" /\ open # NoTransaction /\ p = Min(open.left)
  /\ LET frame == [page |-> p, version |-> open.number, salt |-> log.salt,
                   commit |-> open.left = {p}]
         k     == Committed(log) + Cardinality(open.undo) + 1
         now   == [log EXCEPT !.frames = IF k \in DOMAIN @ THEN [@ EXCEPT ![k] = frame]
                                                           ELSE Append(@, frame)]
     IN /\ log' = now
        /\ IF frame.commit
           THEN /\ open' = NoTransaction
                /\ committed' = Append(committed, Contents(main, now))
           ELSE /\ open' = [open EXCEPT !.left = @ \ {p}, !.undo = @ \cup {<<p, 0>>}]
                /\ UNCHANGED committed
  /\ UNCHANGED <<mode, main, begun>>

\* The newest committed image of a page copied into the main file.
Checkpoint(p) ==
  /\ mode = "wal"
  /\ main[p] # PageOf(main, log, p)
  /\ main' = [main EXCEPT ![p] = PageOf(main, log, p)]
  /\ UNCHANGED <<mode, log, open, begun, committed>>

\* Once all of it is in the main file the log starts over with another salt.
RestartLog ==
  /\ mode = "wal" /\ open = NoTransaction
  /\ Committed(log) > 0 /\ main = Contents(main, log)
  /\ log.salt < MaxRestarts
  /\ log' = [log EXCEPT !.salt = @ + 1]
  /\ UNCHANGED <<mode, main, open, begun, committed>>
=============================================================================
