------------------------------ MODULE Snapshot ------------------------------
(***************************************************************************)
(* Copying another browser's store while that browser writes it            *)
(* (evreos-shell/src/import/snapshot.rs, take) and reading the copy        *)
(* (evreos-shell/src/import/sqlite.rs, scan).                              *)
(*                                                                         *)
(* Every file is read a piece at a time, the main file page by page and    *)
(* the log frame by frame, and the browser may take a step between any     *)
(* two pieces.  Only a fingerprint reads a whole file in one step: two     *)
(* fingerprints are only ever compared for being equal, and no version is  *)
(* ever written twice.  The pauses between attempts are left out, since    *)
(* any number of steps of the browser fits between two of the reader.      *)
(***************************************************************************)
EXTENDS SourceStore

CONSTANTS
  Attempts,  \* policy.attempts, at least 1
  Unread,    \* a file not read in this attempt
  None       \* no fingerprint is held

ASSUME SnapshotAssumption == Attempts \in Nat \ {0}

VARIABLES
  pc,          \* where take is, and after it the reading of the copy
  attempt,     \* the attempt under way
  at,          \* the next page or frame of the file being read
  copy,        \* what the first read held
  moved,       \* whether the store was seen changing
  held,        \* the fingerprint of the last attempt refused for an open write
  fingerprint, \* the one being taken
  scan,        \* the walk of the copy's table
  \* history the properties speak of
  since,       \* the last committed state when the attempt began
  ahead,       \* the open transaction wrote a page ahead of both reads
  escape,      \* ... and then one behind both
  written,     \* whether the browser wrote anything since take began
  still,       \* how many states were committed when the first fingerprint ended
  last         \* ... and when the last one began

takeVars == <<pc, attempt, at, copy, moved, held, fingerprint, scan>>
historyVars == <<since, ahead, escape, written, still, last>>
vars == <<sourceVars, takeVars, historyVars>>

Refusals == {"Absent", "Busy", "Interrupted", "Io"}
Ended == Refusals \cup {"Read", "Unreadable"}

Init ==
  /\ SourceInit
  /\ pc = "check1" /\ attempt = 1 /\ at = 1
  /\ copy = [main |-> [p \in Pages |-> 0], log |-> NoLog]
  /\ moved = FALSE
  /\ held = None
  /\ fingerprint = [main |-> Unread, log |-> Unread, journal |-> Unread]
  /\ scan = ScanStart
  /\ since = 1 /\ ahead = FALSE /\ escape = FALSE
  /\ written = FALSE /\ still = 0 /\ last = 0

Goto(step) == pc' = step /\ at' = 1

(***************************************************************************)
(* The attempts                                                            *)
(***************************************************************************)

\* Mutant: the attempts are not counted.
NextAttemptUncounted(seen) ==
  /\ moved' = (moved \/ seen)
  /\ UNCHANGED attempt
  /\ Goto("check1")
  /\ since' = Len(committed) /\ ahead' = FALSE /\ escape' = FALSE

\* The attempt is over without a copy: another one, or the reason for none.
NextAttempt(seen) ==
  /\ moved' = (moved \/ seen)
  /\ IF attempt < Attempts
     THEN attempt' = attempt + 1 /\ Goto("check1")
     ELSE /\ UNCHANGED attempt
          /\ Goto(IF moved' THEN "Busy" ELSE "Interrupted")
  /\ since' = Len(committed) /\ ahead' = FALSE /\ escape' = FALSE

\* The first look at the journal: refused when hot, else the main file.
FirstJournalCheck ==
  /\ pc = "check1"
  /\ Goto(IF JournalHot THEN "fpMain" ELSE "main1")
  /\ UNCHANGED <<sourceVars, attempt, copy, moved, held, fingerprint, scan, historyVars>>

ReadMain ==
  /\ pc = "main1"
  /\ IF mode = "absent"
     THEN Goto("Absent") /\ UNCHANGED copy
     ELSE /\ copy' = [copy EXCEPT !.main[at] = main[at]]
          /\ IF at < LastPage THEN at' = at + 1 /\ UNCHANGED pc ELSE Goto("wal1")
  /\ UNCHANGED <<sourceVars, attempt, moved, held, fingerprint, scan, historyVars>>

\* The log's header first, then its frames up to the end it has by then.
ReadLog ==
  /\ pc = "wal1"
  /\ IF at = 1
     THEN /\ copy' = [copy EXCEPT !.log = [salt |-> log.salt, frames |-> <<>>]]
          /\ at' = 2 /\ UNCHANGED pc
     ELSE IF at - 1 \in DOMAIN log.frames
     THEN /\ copy' = [copy EXCEPT !.log.frames = Append(@, log.frames[at - 1])]
          /\ at' = at + 1 /\ UNCHANGED pc
     ELSE Goto("main2") /\ UNCHANGED copy
  /\ UNCHANGED <<sourceVars, attempt, moved, held, fingerprint, scan, historyVars>>

\* unchanged on the main file: the first page that differs ends the attempt.
CompareMain ==
  /\ pc = "main2"
  /\ IF main[at] # copy.main[at]
     THEN NextAttempt(TRUE) /\ UNCHANGED <<written, still, last>>
     ELSE /\ IF at < LastPage THEN at' = at + 1 /\ UNCHANGED pc ELSE Goto("wal2")
          /\ UNCHANGED <<attempt, moved, historyVars>>
  /\ UNCHANGED <<sourceVars, copy, held, fingerprint, scan>>

\* unchanged on the log: it must end where the copy does.
CompareLog ==
  /\ pc = "wal2"
  /\ LET k    == at - 1
         n    == Len(copy.log.frames)
         same == CASE k = 0      -> log.salt = copy.log.salt
                   [] k \in 1..n -> k \in DOMAIN log.frames /\ log.frames[k] = copy.log.frames[k]
                   [] OTHER      -> Len(log.frames) = n
     IN IF ~same
        THEN NextAttempt(TRUE) /\ UNCHANGED <<written, still, last>>
        ELSE /\ IF k <= n THEN at' = at + 1 /\ UNCHANGED pc ELSE Goto("check2")
             /\ UNCHANGED <<attempt, moved, historyVars>>
  /\ UNCHANGED <<sourceVars, copy, held, fingerprint, scan>>

\* Mutant: the journal is not looked at again.
LastJournalCheckSkipped ==
  /\ pc = "check2"
  /\ Goto("scan")
  /\ UNCHANGED <<sourceVars, attempt, copy, moved, held, fingerprint, scan, historyVars>>

\* The last look at the journal: refused when hot, else the copy is accepted.
LastJournalCheck ==
  /\ pc = "check2"
  /\ Goto(IF JournalHot THEN "fpMain" ELSE "scan")
  /\ UNCHANGED <<sourceVars, attempt, copy, moved, held, fingerprint, scan, historyVars>>

(***************************************************************************)
(* refused_open: a fingerprint of the three files, file after file         *)
(***************************************************************************)

FingerprintMain ==
  /\ pc = "fpMain"
  /\ fingerprint' = [fingerprint EXCEPT !.main = main]
  /\ Goto("fpWal")
  /\ last' = Len(committed)
  /\ UNCHANGED <<sourceVars, attempt, copy, moved, held, scan, since, ahead, escape, written, still>>

FingerprintLog ==
  /\ pc = "fpWal"
  /\ fingerprint' = [fingerprint EXCEPT !.log = log]
  /\ Goto("fpJournal")
  /\ UNCHANGED <<sourceVars, attempt, copy, moved, held, scan, historyVars>>

\* Mutant: the first fingerprint counts as a change.
Differs(now) == held # now

\* held.is_some_and(|before| before != now)
Moved(now) == held # None /\ held # now

\* The last file; the store moved when it is not what the last refused
\* attempt found.
FingerprintJournal ==
  /\ pc = "fpJournal"
  /\ LET now == [fingerprint EXCEPT !.journal = Journal]
     IN held' = now /\ NextAttempt(Moved(now))
  /\ fingerprint' = [main |-> Unread, log |-> Unread, journal |-> Unread]
  /\ still' = IF held = None THEN Len(committed) ELSE still
  /\ UNCHANGED <<sourceVars, copy, scan, written, last>>

\* A read that fails ends take at once, wherever it is.
ReadFails ==
  /\ pc \notin Ended \cup {"scan"}
  /\ Goto("Io")
  /\ UNCHANGED <<sourceVars, attempt, copy, moved, held, fingerprint, scan, historyVars>>

(***************************************************************************)
(* Reading the copy                                                        *)
(***************************************************************************)

ScanPage ==
  /\ pc = "scan"
  /\ CASE scan.stack = <<>> -> Goto("Read") /\ UNCHANGED scan
       [] scan.stack # <<>> /\ Refused(scan) -> Goto("Unreadable") /\ UNCHANGED scan
       [] OTHER -> /\ scan' = Visit(scan, Contents(copy.main, copy.log))
                   /\ UNCHANGED <<pc, at>>
  /\ UNCHANGED <<sourceVars, attempt, copy, moved, held, fingerprint, historyVars>>

(***************************************************************************)
(* The browser, until the copy is accepted or given up: what it does after *)
(* that the reader cannot see                                              *)
(***************************************************************************)

\* Where a page is against the two reads of the main file.
AheadOfBoth(p) == pc = "check1" \/ (pc = "main1" /\ p >= at)
BehindBoth(p) == pc \in {"wal2", "check2"} \/ (pc = "main2" /\ p < at)

Taking == pc \notin Ended \cup {"scan"}

Writes(p) ==
  /\ WritePage(p) \/ RestorePage(p)
  /\ ahead' = (ahead \/ AheadOfBoth(p))
  /\ escape' = (escape \/ (ahead' /\ BehindBoth(p)))

Closes ==
  /\ Commit \/ Rollback
  /\ ahead' = FALSE
  /\ UNCHANGED escape

Elsewhere ==
  /\ \/ \E pages \in (SUBSET Pages) \ {{}} : Begin(pages)
     \/ \E p \in Pages : WriteFrame(p) \/ Checkpoint(p)
     \/ RestartLog
  /\ UNCHANGED <<ahead, escape>>

Browser ==
  /\ Taking
  /\ (\E p \in Pages : Writes(p)) \/ Closes \/ Elsewhere
  /\ written' = (written \/ main' # main \/ log' # log \/ Journal' # Journal)
  /\ UNCHANGED <<takeVars, since, still, last>>

Reader ==
  \/ FirstJournalCheck \/ ReadMain \/ ReadLog \/ CompareMain \/ CompareLog \/ LastJournalCheck
  \/ FingerprintMain \/ FingerprintLog \/ FingerprintJournal
  \/ ReadFails
  \/ ScanPage

Next == Reader \/ Browser

\* take and the scan run in one thread of the program, which nothing holds up;
\* the other browser may do as it likes.
Spec == Init /\ [][Next]_vars /\ WF_vars(Reader)

(***************************************************************************)
(* Properties                                                              *)
(***************************************************************************)

Accepted == pc \in {"scan", "Read", "Unreadable"}

(* A copy that take accepts is a state the browser committed, and one that *)
(* was current at some moment of the attempt, but for the one interleaving *)
(* the documentation of snapshot.rs states: a transaction that wrote a     *)
(* page ahead of both reads and then a page behind both.                   *)
AcceptedIsOfOneMoment ==
  Accepted /\ ~escape =>
    \E i \in since..Len(committed) : committed[i] = Contents(copy.main, copy.log)

(* The reason take gives for refusing a store is true.  Busy (another try  *)
(* later may do) is said only of a store the browser wrote while it was    *)
(* being copied.  Interrupted (close the browser) is said only when        *)
(* nothing was committed from the end of the first look at the refused     *)
(* store on to the last: trying again was no use.                          *)
RefusalIsTrue ==
  /\ pc = "Busy" => written
  /\ pc = "Interrupted" => last <= still

\* The rows of a table's pages, n levels of them: a page's own, then its
\* children's in order.
RowsIn(contents) ==
  LET f[n \in 0..(MaxDepth + 1)] ==
        [p \in Pages |->
           LET node == Node[p][contents[p]]
           IN IF n = 0 THEN <<>>
              ELSE node.rows \o
                     FlattenSeq([i \in DOMAIN node.children |->
                                   IF node.children[i] \in Pages THEN f[n - 1][node.children[i]]
                                   ELSE <<>>])]
  IN f

\* The rows of the table.
RowsBelow(contents) == RowsIn(contents)[MaxDepth + 1][RootPage]

(* What scan reads of the copy is what one committed state holds, no row   *)
(* twice and none left out; a copy the walk cannot finish is refused and   *)
(* never read in part.                                                     *)
RowsOfOneMoment ==
  pc = "Read" /\ ~escape =>
    \E i \in since..Len(committed) :
      committed[i] = Contents(copy.main, copy.log) /\ scan.rows = RowsBelow(committed[i])

(* take and scan end and the import is told something, whatever the        *)
(* browser keeps doing: the attempts are counted and the walk is bounded.  *)
TakeEnds == <>(pc \in Ended)
=============================================================================
