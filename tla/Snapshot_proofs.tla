--------------------------- MODULE Snapshot_proofs ---------------------------
(***************************************************************************)
(* That the reason take gives for refusing a store is true, that what it   *)
(* accepts is of one moment, and that scan reads the rows of that moment,  *)
(* for any number of pages, transactions, restarts of the log, attempts    *)
(* and levels of a table.                                                  *)
(*                                                                         *)
(* Busy: until the browser writes, whatever has been read of the store is  *)
(* what it holds (Steady), so no comparison can fail.  Interrupted: once   *)
(* the first fingerprint is held, a commit leaves a mark that no later     *)
(* fingerprint can miss (Gone).  When the fingerprint found a transaction  *)
(* open, its number is never the open one's again; when it found none, the *)
(* committing one put its number on some page, and what is written over it *)
(* or put back there later is newer still.                                 *)
(***************************************************************************)
EXTENDS Snapshot, SequenceTheorems, FiniteSetTheorems, WellFoundedInduction, TLAPS

Frame == [page : Pages, version : Versions, salt : Nat, commit : BOOLEAN]
Log == [salt : Nat, frames : Seq(Frame)]
Transaction == [number : 1..MaxTransactions, left : SUBSET Pages, back : BOOLEAN,
                undo : SUBSET (Pages \X Versions)]

IsPages(f) == f = [p \in Pages |-> f[p]]

\* The versions a page may have that no transaction to come has written.
Known == (0..begun) \cup {Malformed}

\* The store: in rollback mode every version on it is known, and the open
\* transaction, the last begun, has pages to write or has written one.
StoreInv ==
  /\ begun \in 0..MaxTransactions
  /\ IsPages(main)
  /\ log \in Log
  /\ \E S : committed \in Seq(S)
  /\ open # NoTransaction => open \in Transaction
  /\ mode = "rollback" =>
       /\ \A p \in Pages : main[p] \in Known
       /\ open # NoTransaction =>
            /\ open.number = begun
            /\ \A p \in Pages, v \in Versions : <<p, v>> \in open.undo => v \in Known
            /\ open.back \/ \E p \in Pages : p \in open.left \/ main[p] = open.number

\* What the import holds.
TakeInv ==
  /\ copy = [main |-> copy.main, log |-> copy.log]
  /\ IsPages(copy.main) /\ copy.log \in Log
  /\ fingerprint = [main |-> fingerprint.main, log |-> fingerprint.log,
                    journal |-> fingerprint.journal]
  /\ at \in Nat \ {0}
  /\ pc \in {"main1", "main2"} => at \in Pages
  /\ pc = "wal1" => at = 1 \/ Len(copy.log.frames) = at - 2

\* Until the browser writes, what was read is what the store holds.
Steady ==
  ~written =>
    /\ ~moved
    /\ held # None => held = [main |-> main, log |-> log, journal |-> Journal]
    /\ pc = "main1" => \A p \in Pages : p < at => copy.main[p] = main[p]
    /\ pc \in {"wal1", "main2", "wal2", "check2"} => \A p \in Pages : copy.main[p] = main[p]
    /\ pc = "wal1" /\ at # 1 =>
         /\ copy.log.salt = log.salt
         /\ at - 2 <= Len(log.frames)
         /\ \A i \in 1..(at - 2) : copy.log.frames[i] = log.frames[i]
    /\ pc \in {"main2", "wal2", "check2"} =>
         /\ copy.log.salt = log.salt
         /\ Len(copy.log.frames) = Len(log.frames)
         /\ \A i \in 1..Len(log.frames) : copy.log.frames[i] = log.frames[i]
    /\ pc \in {"fpWal", "fpJournal"} => fingerprint.main = main
    /\ pc = "fpJournal" => fingerprint.log = log

\* The fingerprints, which are only taken of a store in rollback mode.
HeldInv ==
  /\ pc \in {"fpMain", "fpWal", "fpJournal"} => mode = "rollback"
  /\ pc \in {"fpWal", "fpJournal"} => \A p \in Pages : fingerprint.main[p] \in Known
  /\ held # None =>
       /\ mode = "rollback"
       /\ \A p \in Pages : held.main[p] \in Known
       /\ held.journal \in 0..begun
       /\ held.journal = 0 /\ open # NoTransaction =>
            \A p \in Pages : held.main[p] # open.number

\* The transaction the held fingerprint found open is over.
Over == held.journal # 0 /\ (open # NoTransaction => open.number > held.journal)

\* No page had this version when the held fingerprint was taken.
New(v) == \A p \in Pages : held.main[p] # v

Marked ==
  /\ held.journal = 0
  /\ \E p \in Pages :
       /\ New(main[p])
       /\ open # NoTransaction => \A v \in Versions : <<p, v>> \in open.undo => New(v)

Gone == Over \/ Marked

CommitInv ==
  /\ last <= Len(committed) /\ last \in Nat /\ Len(committed) \in Nat
  /\ ~moved /\ held # None =>
       /\ Len(committed) = still \/ Gone
       /\ pc \in {"fpWal", "fpJournal"} =>
            \/ last <= still
            \/ Over
            \/ held.journal = 0 /\ \E p \in Pages : fingerprint.main[p] # held.main[p]

ReasonInv ==
  /\ pc = "Busy" => moved
  /\ pc = "Interrupted" => last <= still

IInv == StoreInv /\ TakeInv /\ Steady /\ HeldInv /\ CommitInv /\ ReasonInv

LEMMA PagesFromOne == 1 \in Pages /\ LastPage \in Nat /\ Pages = 1..LastPage
  BY SqliteAssumption DEF Pages

LEMMA Bounds == MaxTransactions \in Nat /\ Malformed = MaxTransactions + 1 /\ Versions = 0..Malformed
  BY SourceAssumption DEF Malformed, Versions

LEMMA PagesExcept ==
  ASSUME NEW f, IsPages(f), NEW p \in Pages, NEW v
  PROVE  /\ IsPages([f EXCEPT ![p] = v])
         /\ \A q \in Pages : [f EXCEPT ![p] = v][q] = IF q = p THEN v ELSE f[q]
  BY DEF IsPages

LEMMA Longer ==
  ASSUME NEW s, \E S : s \in Seq(S), NEW e
  PROVE  /\ \E S : Append(s, e) \in Seq(S)
         /\ Len(s) \in Nat /\ Len(Append(s, e)) = Len(s) + 1
<1>1. PICK S : s \in Seq(S) OBVIOUS
<1>2. s \in Seq(S \cup {e}) /\ Len(s) \in Nat
  <2>1. Len(s) \in Nat /\ s \in [1..Len(s) -> S] BY <1>1, LenProperties, ElementOfSeq
  <2>2. s \in [1..Len(s) -> S \cup {e}] BY <2>1
  <2>3. QED BY <2>1, <2>2, SeqDef
<1>3. e \in S \cup {e} OBVIOUS
<1>4. Append(s, e) \in Seq(S \cup {e}) /\ Len(Append(s, e)) = Len(s) + 1
  BY <1>2, <1>3, AppendProperties
<1>5. QED BY <1>2, <1>4

-----------------------------------------------------------------------------
(* The browser *)

LEMMA BeginStore ==
  ASSUME StoreInv, NEW pages \in (SUBSET Pages) \ {{}}, Begin(pages) PROVE StoreInv'
<1>1. /\ begun' = begun + 1 /\ begun + 1 \in 1..MaxTransactions
      /\ open' = [number |-> begun + 1, left |-> pages, undo |-> {}, back |-> FALSE]
      /\ UNCHANGED <<mode, main, log, committed>>
  BY Bounds DEF StoreInv, Begin
<1>2. open' \in Transaction BY <1>1 DEF Transaction
<1>3. open'.number = begun' /\ open'.undo = {} /\ open'.left = pages BY <1>1
<1>4. \A v \in Known : v \in Known' BY <1>1, Bounds DEF Known, StoreInv
<1>5. \E p \in Pages : p \in pages OBVIOUS
<1>6. mode' = "rollback" =>
       /\ \A p \in Pages : main'[p] \in Known'
       /\ \A p \in Pages, v \in Versions : <<p, v>> \in open'.undo => v \in Known'
  BY <1>1, <1>3, <1>4 DEF StoreInv
<1>7. QED BY <1>1, <1>2, <1>3, <1>5, <1>6 DEF StoreInv

LEMMA WriteStore == ASSUME StoreInv, NEW p \in Pages, WritePage(p) PROVE StoreInv'
<1>1. /\ mode = "rollback" /\ open \in Transaction /\ open.number = begun /\ begun \in 1..MaxTransactions
      /\ main' = [main EXCEPT ![p] = open.number]
      /\ open' = [open EXCEPT !.left = @ \ {p}, !.undo = @ \cup {<<p, main[p]>>}]
      /\ UNCHANGED <<mode, log, begun, committed>>
      /\ \A q \in Pages : main[q] \in Known
  BY DEF StoreInv, WritePage, JournalHot, Transaction
<1>2. Known \subseteq Versions /\ open.number \in Known BY <1>1, Bounds DEF Known
<1>3. /\ open' \in Transaction /\ open'.number = open.number
      /\ open'.undo = open.undo \cup {<<p, main[p]>>}
  <2>1. <<p, main[p]>> \in Pages \X Versions BY <1>1, <1>2
  <2>2. QED BY <1>1, <2>1 DEF Transaction
<1>4. IsPages(main') /\ \A q \in Pages : main'[q] = IF q = p THEN open.number ELSE main[q]
  BY <1>1 DEF StoreInv, IsPages
<1>5. \A q \in Pages : main'[q] \in Known' BY <1>1, <1>2, <1>4 DEF Known
<1>6. \A q \in Pages, v \in Versions : <<q, v>> \in open'.undo => v \in Known'
  <2>1. \A q \in Pages, v \in Versions : <<q, v>> \in open.undo => v \in Known
    BY <1>1 DEF StoreInv, WritePage, JournalHot
  <2>2. Known' = Known BY <1>1 DEF Known
  <2>3. QED BY <1>1, <1>3, <2>1, <2>2
<1>7. main'[p] = open'.number BY <1>3, <1>4
<1>8. QED BY <1>1, <1>3, <1>4, <1>5, <1>6, <1>7 DEF StoreInv

LEMMA RestoreStore == ASSUME StoreInv, NEW p \in Pages, RestorePage(p) PROVE StoreInv'
<1>1. PICK v \in Versions :
        /\ <<p, v>> \in open.undo
        /\ main' = [main EXCEPT ![p] = v]
        /\ open' = [open EXCEPT !.back = TRUE, !.undo = @ \ {<<p, v>>}]
  BY DEF RestorePage
<1>2. /\ mode = "rollback" /\ open \in Transaction /\ open.number = begun
      /\ UNCHANGED <<mode, log, begun, committed>>
      /\ \A q \in Pages : main[q] \in Known
      /\ \A q \in Pages, u \in Versions : <<q, u>> \in open.undo => u \in Known
  BY DEF StoreInv, RestorePage, JournalHot
<1>3. open' \in Transaction /\ open'.number = open.number /\ open'.back /\ open'.undo \subseteq open.undo
  BY <1>1, <1>2 DEF Transaction
<1>4. IsPages(main') /\ \A q \in Pages : main'[q] = IF q = p THEN v ELSE main[q]
  BY <1>1 DEF StoreInv, IsPages
<1>5. Known' = Known BY <1>2 DEF Known
<1>6. QED BY <1>1, <1>2, <1>3, <1>4, <1>5 DEF StoreInv

LEMMA CloseStore == ASSUME StoreInv, Commit \/ Rollback PROVE StoreInv'
<1>1. /\ open' = NoTransaction /\ UNCHANGED <<mode, main, log, begun>>
      /\ committed' = committed \/ committed' = Append(committed, main)
  BY DEF Commit, Rollback
<1>2. \E S : committed' \in Seq(S) BY <1>1, Longer DEF StoreInv
<1>3. Known' = Known BY <1>1 DEF Known
<1>4. QED BY <1>1, <1>2, <1>3 DEF StoreInv

LEMMA LogStore ==
  ASSUME StoreInv, (\E p \in Pages : WriteFrame(p) \/ Checkpoint(p)) \/ RestartLog
  PROVE  StoreInv'
<1>1. mode = "wal" /\ mode' = mode /\ begun' = begun
  BY DEF WriteFrame, Checkpoint, RestartLog
<1>2. CASE RestartLog
  <2>1. log' = [log EXCEPT !.salt = @ + 1] /\ UNCHANGED <<main, open, committed>>
    BY <1>2 DEF RestartLog
  <2>2. log' \in Log BY <2>1 DEF StoreInv, Log
  <2>3. QED BY <1>1, <2>1, <2>2 DEF StoreInv
<1>3. ASSUME NEW p \in Pages, Checkpoint(p) PROVE StoreInv'
  <2>1. main' = [main EXCEPT ![p] = PageOf(main, log, p)] /\ UNCHANGED <<log, open, committed>>
    BY <1>3 DEF Checkpoint
  <2>2. IsPages(main') BY <2>1, PagesExcept DEF StoreInv
  <2>3. QED BY <1>1, <2>1, <2>2 DEF StoreInv
<1>4. ASSUME NEW p \in Pages, WriteFrame(p) PROVE StoreInv'
  <2> DEFINE frame == [page |-> p, version |-> open.number, salt |-> log.salt,
                       commit |-> open.left = {p}]
             k == Committed(log) + Cardinality(open.undo) + 1
             now == [log EXCEPT !.frames = IF k \in DOMAIN @ THEN [@ EXCEPT ![k] = frame]
                                                             ELSE Append(@, frame)]
  <2>1. /\ open \in Transaction /\ log \in Log /\ log' = now /\ main' = main
        /\ \/ open' = NoTransaction /\ committed' = Append(committed, Contents(main, now))
           \/ /\ open' = [open EXCEPT !.left = @ \ {p}, !.undo = @ \cup {<<p, 0>>}]
              /\ committed' = committed
    BY <1>4 DEF WriteFrame, StoreInv
  <2>2. log' \in Log
    <3>1. frame \in Frame BY <2>1, Bounds DEF Frame, Transaction, Log
    <3> HIDE DEF frame, k
    <3>2. log.frames \in Seq(Frame) BY <2>1 DEF Log
    <3>3. k \in DOMAIN log.frames => [log.frames EXCEPT ![k] = frame] \in Seq(Frame)
      BY <3>1, <3>2, ExceptSeq, LenProperties
    <3>4. Append(log.frames, frame) \in Seq(Frame) BY <3>1, <3>2, AppendProperties
    <3>5. QED BY <2>1, <3>3, <3>4 DEF Log
  <2>3. open' # NoTransaction => open' \in Transaction
    <3>1. <<p, 0>> \in Pages \X Versions BY Bounds
    <3>2. /\ open \in Transaction
          /\ open' # NoTransaction =>
               open' = [open EXCEPT !.left = @ \ {p}, !.undo = @ \cup {<<p, 0>>}]
      BY <2>1
    <3>3. SUFFICES ASSUME open' # NoTransaction PROVE open' \in Transaction
      OBVIOUS
    <3>4. /\ [open EXCEPT !.left = @ \ {p}].left \in SUBSET Pages
          /\ open.undo \cup {<<p, 0>>} \in SUBSET (Pages \X Versions)
      BY <3>1, <3>2 DEF Transaction
    <3>5. QED BY <3>2, <3>3, <3>4 DEF Transaction
  <2> HIDE DEF now
  <2>4. \E S : committed' \in Seq(S) BY <2>1, Longer DEF StoreInv
  <2>5. QED BY <1>1, <2>1, <2>2, <2>3, <2>4 DEF StoreInv
<1>5. QED BY <1>2, <1>3, <1>4

BrowserStep ==
  \/ \E pages \in (SUBSET Pages) \ {{}} : Begin(pages)
  \/ \E p \in Pages : WritePage(p)
  \/ \E p \in Pages : RestorePage(p)
  \/ Commit \/ Rollback
  \/ (\E p \in Pages : WriteFrame(p) \/ Checkpoint(p)) \/ RestartLog

LEMMA StoreStep == ASSUME StoreInv, BrowserStep PROVE StoreInv'
  BY BeginStore, WriteStore, RestoreStore, CloseStore, LogStore DEF BrowserStep

\* What every step of the browser does to the number of the open transaction
\* and to what is committed.
LEMMA NumbersGrow ==
  ASSUME StoreInv, BrowserStep
  PROVE  /\ mode' = mode
         /\ begun \in Nat /\ begun' \in Nat /\ begun' >= begun
         /\ \A v \in Known : v \in Known'
         /\ open' # NoTransaction =>
              \/ open # NoTransaction /\ open'.number = open.number
              \/ open'.number = begun + 1 /\ begun < MaxTransactions
         /\ Len(committed) \in Nat
         /\ committed' = committed \/ Len(committed') = Len(committed) + 1
<1>1. mode' = mode
  BY DEF BrowserStep, Begin, WritePage, RestorePage, Commit, Rollback, WriteFrame, Checkpoint, RestartLog
<1>2. begun \in Nat /\ begun' \in Nat /\ begun' >= begun
  <2>1. begun \in Nat BY Bounds DEF StoreInv
  <2>2. begun' = begun \/ begun' = begun + 1
    BY DEF BrowserStep, Begin, WritePage, RestorePage, Commit, Rollback, WriteFrame, Checkpoint,
           RestartLog
  <2>3. QED BY <2>1, <2>2
<1>3. \A v \in Known : v \in Known' BY <1>2, Bounds DEF Known
<1>4. open' # NoTransaction =>
        \/ open # NoTransaction /\ open'.number = open.number
        \/ open'.number = begun + 1 /\ begun < MaxTransactions
  <2>1. CASE \E pages \in (SUBSET Pages) \ {{}} : Begin(pages) BY <2>1 DEF Begin
  <2>2. CASE \E p \in Pages : WritePage(p)
    BY <2>2 DEF WritePage, JournalHot, StoreInv, Transaction
  <2>3. CASE \E p \in Pages : RestorePage(p)
    BY <2>3 DEF RestorePage, JournalHot, StoreInv, Transaction
  <2>4. CASE Commit \/ Rollback BY <2>4 DEF Commit, Rollback
  <2>5. CASE RestartLog \/ \E p \in Pages : Checkpoint(p) BY <2>5 DEF RestartLog, Checkpoint
  <2>6. ASSUME NEW p \in Pages, WriteFrame(p)
        PROVE  open' # NoTransaction => open # NoTransaction /\ open'.number = open.number
    <3>1. /\ open \in Transaction
          /\ open' # NoTransaction =>
               open' = [open EXCEPT !.left = @ \ {p}, !.undo = @ \cup {<<p, 0>>}]
      BY <2>6 DEF WriteFrame, StoreInv
    <3>2. QED BY <2>6, <3>1 DEF Transaction, WriteFrame
  <2>7. QED BY <2>1, <2>2, <2>3, <2>4, <2>5, <2>6 DEF BrowserStep
<1>5. Len(committed) \in Nat /\ (committed' = committed \/ Len(committed') = Len(committed) + 1)
  <2>1. committed' = committed \/ \E contents : committed' = Append(committed, contents)
    BY DEF BrowserStep, Begin, WritePage, RestorePage, Commit, Rollback, WriteFrame, Checkpoint,
           RestartLog
  <2>2. QED BY <2>1, Longer DEF StoreInv
<1>6. QED BY <1>1, <1>2, <1>3, <1>4, <1>5

LEMMA HeldStep ==
  ASSUME StoreInv, HeldInv, BrowserStep, UNCHANGED <<pc, held, fingerprint>> PROVE HeldInv'
<1>1. /\ mode' = mode /\ begun \in Nat /\ begun' \in Nat /\ begun' >= begun
      /\ \A v \in Known : v \in Known'
      /\ open' # NoTransaction =>
           \/ open # NoTransaction /\ open'.number = open.number
           \/ open'.number = begun + 1 /\ begun < MaxTransactions
  BY NumbersGrow
<1>2. begun < MaxTransactions => begun + 1 \notin Known BY <1>1, Bounds DEF Known
<1>3. held # None => held.journal \in 0..begun' BY <1>1 DEF HeldInv
<1>4. held # None /\ held.journal = 0 /\ open' # NoTransaction =>
        \A p \in Pages : held.main[p] # open'.number
  BY <1>1, <1>2 DEF HeldInv
<1>5. QED BY <1>1, <1>3, <1>4 DEF HeldInv

\* A commit after the first fingerprint is never lost sight of.
LEMMA GoneStays ==
  ASSUME StoreInv, HeldInv, held # None, Gone, BrowserStep, UNCHANGED held PROVE Gone'
<1>1. CASE Over
  <2>1. held.journal \in 0..begun BY DEF HeldInv
  <2>2. begun \in Nat BY NumbersGrow
  <2>3. QED BY <1>1, <2>1, <2>2, NumbersGrow DEF Over, Gone
<1>2. CASE Marked
  <2>1. PICK q \in Pages :
          /\ New(main[q])
          /\ open # NoTransaction => \A v \in Versions : <<q, v>> \in open.undo => New(v)
    BY <1>2 DEF Marked
  <2>2. held.journal = 0 /\ mode = "rollback" BY <1>2 DEF Marked, HeldInv
  <2>3. \A v : New(v)' <=> New(v) BY DEF New
  <2> SUFFICES /\ New(main'[q])
               /\ open' # NoTransaction => \A v \in Versions : <<q, v>> \in open'.undo => New(v)
    BY <2>2, <2>3 DEF Gone, Marked, New
  <2>4. CASE \E pages \in (SUBSET Pages) \ {{}} : Begin(pages) BY <2>1, <2>4 DEF Begin
  <2>5. ASSUME NEW p \in Pages, WritePage(p)
        PROVE  /\ New(main'[q])
               /\ open' # NoTransaction => \A v \in Versions : <<q, v>> \in open'.undo => New(v)
    <3>1. /\ open # NoTransaction /\ open \in Transaction /\ main' = [main EXCEPT ![p] = open.number]
          /\ open' = [open EXCEPT !.left = @ \ {p}, !.undo = @ \cup {<<p, main[p]>>}]
      BY <2>5 DEF WritePage, JournalHot, StoreInv
    <3>2. New(open.number) BY <2>2, <3>1 DEF HeldInv, New
    <3>3. main'[q] = IF q = p THEN open.number ELSE main[q]
      BY <3>1 DEF StoreInv, IsPages
    <3>4. open'.undo = open.undo \cup {<<p, main[p]>>} BY <3>1 DEF Transaction
    <3>5. QED BY <2>1, <3>1, <3>2, <3>3, <3>4
  <2>6. ASSUME NEW p \in Pages, RestorePage(p)
        PROVE  /\ New(main'[q])
               /\ open' # NoTransaction => \A v \in Versions : <<q, v>> \in open'.undo => New(v)
    <3>1. PICK v \in Versions :
            /\ <<p, v>> \in open.undo
            /\ main' = [main EXCEPT ![p] = v]
            /\ open' = [open EXCEPT !.back = TRUE, !.undo = @ \ {<<p, v>>}]
      BY <2>6 DEF RestorePage
    <3>2. open # NoTransaction /\ open \in Transaction
      BY <2>6 DEF RestorePage, JournalHot, StoreInv
    <3>3. main'[q] = IF q = p THEN v ELSE main[q] BY <3>1 DEF StoreInv, IsPages
    <3>4. open'.undo \subseteq open.undo BY <3>1, <3>2 DEF Transaction
    <3>5. QED BY <2>1, <3>1, <3>2, <3>3, <3>4
  <2>7. CASE Commit \/ Rollback BY <2>1, <2>7 DEF Commit, Rollback
  <2>8. QED BY <2>2, <2>4, <2>5, <2>6, <2>7 DEF BrowserStep, WriteFrame, Checkpoint, RestartLog
<1>3. QED BY <1>1, <1>2 DEF Gone

\* A commit leaves the mark.
LEMMA CommitMarks ==
  ASSUME StoreInv, HeldInv, held # None, BrowserStep, UNCHANGED held, committed' # committed
  PROVE  Gone'
<1>1. mode = "rollback" BY DEF HeldInv
<1>2. Commit
  BY <1>1 DEF BrowserStep, Begin, WritePage, RestorePage, Rollback, WriteFrame, Checkpoint, RestartLog
<1>3. /\ open # NoTransaction /\ ~open.back /\ open.left = {}
      /\ open' = NoTransaction /\ main' = main
  BY <1>2 DEF Commit, JournalHot
<1>4. PICK p \in Pages : main[p] = open.number BY <1>1, <1>3 DEF StoreInv
<1>5. held.journal = 0 => \A q \in Pages : held.main[q] # main[p] BY <1>3, <1>4 DEF HeldInv
<1>6. QED BY <1>3, <1>5 DEF Gone, Over, Marked, New

LEMMA CommitStep ==
  ASSUME StoreInv, HeldInv, CommitInv, BrowserStep,
         UNCHANGED <<pc, moved, held, fingerprint, still, last>>
  PROVE  CommitInv'
<1>1. Len(committed) \in Nat /\ (committed' = committed \/ Len(committed') = Len(committed) + 1)
  BY NumbersGrow
<1>2. last' <= Len(committed') /\ last' \in Nat /\ Len(committed') \in Nat
  BY <1>1 DEF CommitInv
<1>3. ASSUME ~moved, held # None PROVE Len(committed') = still' \/ Gone'
  BY <1>3, GoneStays, CommitMarks DEF CommitInv
<1>4. ASSUME Over, held # None PROVE Over'
  <2>1. held.journal \in 0..begun /\ begun \in Nat BY <1>4, NumbersGrow DEF HeldInv
  <2>2. QED BY <1>4, <2>1, NumbersGrow DEF Over
<1>5. QED BY <1>2, <1>3, <1>4 DEF CommitInv

LEMMA BrowserKeeps == ASSUME IInv, Browser PROVE IInv'
<1>1. /\ BrowserStep
      /\ UNCHANGED <<pc, attempt, at, copy, moved, held, fingerprint, scan, still, last>>
      /\ pc \notin {"Busy", "Interrupted"}
  <2>1. BrowserStep BY DEF Browser, Writes, Closes, Elsewhere, BrowserStep
  <2>2. QED BY <2>1 DEF Browser, takeVars, Taking, Ended, Refusals
<1>2. ~written' => ~written /\ main' = main /\ log' = log /\ Journal' = Journal BY DEF Browser
<1>3. StoreInv' BY <1>1, StoreStep DEF IInv
<1>4. TakeInv' BY <1>1 DEF IInv, TakeInv
<1>5. Steady' BY <1>1, <1>2 DEF IInv, Steady
<1>6. HeldInv' BY <1>1, HeldStep DEF IInv
<1>7. CommitInv' BY <1>1, CommitStep DEF IInv
<1>8. ReasonInv' BY <1>1 DEF ReasonInv
<1>9. QED BY <1>3, <1>4, <1>5, <1>6, <1>7, <1>8 DEF IInv


-----------------------------------------------------------------------------
(* The reader, which leaves the store as it is *)

LEMMA StoreKept == ASSUME StoreInv, UNCHANGED sourceVars PROVE StoreInv'
  BY DEF StoreInv, sourceVars, Known

\* A step that takes no fingerprint keeps what is known of them.
LEMMA HeldKept ==
  ASSUME HeldInv, UNCHANGED <<sourceVars, held, fingerprint>>,
         pc' \in {"fpMain", "fpWal", "fpJournal"} =>
           \/ pc' = "fpMain" /\ mode = "rollback"
           \/ pc' = "fpJournal" /\ pc = "fpWal"
  PROVE  HeldInv'
  BY DEF HeldInv, sourceVars, Known

LEMMA CommitKept ==
  ASSUME CommitInv, UNCHANGED <<sourceVars, held, fingerprint, still, last>>, moved => moved',
         pc' \in {"fpWal", "fpJournal"} => pc \in {"fpWal", "fpJournal"}
  PROVE  CommitInv'
  BY DEF CommitInv, sourceVars, Gone, Over, Marked, New

\* An attempt ended by a change: the next one, or Busy.
LEMMA ChangeSeen ==
  ASSUME IInv, written, NextAttempt(TRUE),
         UNCHANGED <<sourceVars, copy, held, fingerprint, written, still, last>>
  PROVE  IInv'
<1>1. moved' /\ at' = 1 /\ pc' \in {"check1", "Busy"} BY DEF NextAttempt, Goto
<1>2. StoreInv' BY StoreKept DEF IInv
<1>3. TakeInv' BY <1>1 DEF IInv, TakeInv
<1>4. Steady' BY DEF Steady
<1>5. HeldInv' BY <1>1, HeldKept DEF IInv
<1>6. CommitInv' BY <1>1, CommitKept DEF IInv
<1>7. ReasonInv' BY <1>1 DEF ReasonInv
<1>8. QED BY <1>2, <1>3, <1>4, <1>5, <1>6, <1>7 DEF IInv

LEMMA JournalCheckKeeps == ASSUME IInv, FirstJournalCheck \/ LastJournalCheck PROVE IInv'
<1>1. /\ at' = 1 /\ UNCHANGED <<sourceVars, copy, moved, held, fingerprint, written, still, last>>
      /\ \/ pc' = "fpMain" /\ mode = "rollback"
         \/ pc' \in {"main1", "scan"}
  BY DEF FirstJournalCheck, LastJournalCheck, Goto, JournalHot, historyVars
<1>2. StoreInv' BY <1>1, StoreKept DEF IInv
<1>3. TakeInv' BY <1>1, PagesFromOne DEF IInv, TakeInv
<1>4. Steady'
  <2>1. ~written => ~moved /\ (held # None => held = [main |-> main, log |-> log, journal |-> Journal])
    BY DEF IInv, Steady
  <2>2. main' = main /\ log' = log /\ Journal' = Journal
    BY <1>1 DEF sourceVars, Journal, JournalHot
  <2>3. \A p \in Pages : ~(p < 1) BY PagesFromOne
  <2>4. QED BY <1>1, <2>1, <2>2, <2>3 DEF Steady
<1>5. HeldInv' BY <1>1, HeldKept DEF IInv
<1>6. CommitInv' BY <1>1, CommitKept DEF IInv
<1>7. ReasonInv' BY <1>1 DEF ReasonInv
<1>8. QED BY <1>2, <1>3, <1>4, <1>5, <1>6, <1>7 DEF IInv

\* What a step that only reads the store must still show of itself.
LEMMA ReadingKeeps ==
  ASSUME IInv, UNCHANGED <<sourceVars, moved, held, fingerprint, written, still, last>>,
         pc' \notin {"fpMain", "fpWal", "fpJournal", "Busy", "Interrupted"},
         TakeInv', Steady'
  PROVE  IInv'
<1>1. StoreInv' BY StoreKept DEF IInv
<1>2. HeldInv' BY HeldKept DEF IInv
<1>3. CommitInv' BY CommitKept DEF IInv
<1>4. ReasonInv' BY DEF ReasonInv
<1>5. QED BY <1>1, <1>2, <1>3, <1>4 DEF IInv

LEMMA StillSteady ==
  ASSUME IInv, UNCHANGED <<sourceVars, moved, held>>, ~written
  PROVE  /\ ~moved'
         /\ held' # None => held' = [main |-> main', log |-> log', journal |-> Journal']
  BY DEF IInv, Steady, sourceVars, Journal, JournalHot

LEMMA ReadMainKeeps == ASSUME IInv, ReadMain PROVE IInv'
<1>1. /\ pc = "main1" /\ at \in Pages
      /\ UNCHANGED <<sourceVars, moved, held, fingerprint, written, still, last>>
  BY DEF ReadMain, IInv, TakeInv, historyVars
<1>2. CASE mode = "absent"
  <2>1. pc' = "Absent" /\ at' = 1 /\ copy' = copy BY <1>2 DEF ReadMain, Goto
  <2>2. TakeInv' BY <1>1, <2>1 DEF IInv, TakeInv
  <2>3. Steady' BY <1>1, <2>1, StillSteady DEF Steady
  <2>4. QED BY <1>1, <2>1, <2>2, <2>3, ReadingKeeps
<1>3. CASE mode # "absent"
  <2>1. /\ copy' = [copy EXCEPT !.main[at] = main[at]]
        /\ \/ at < LastPage /\ at' = at + 1 /\ pc' = pc
           \/ ~(at < LastPage) /\ at' = 1 /\ pc' = "wal1"
    BY <1>3 DEF ReadMain, Goto
  <2>2. copy = [main |-> copy.main, log |-> copy.log] BY DEF IInv, TakeInv
  <2>3. copy' = [main |-> [copy.main EXCEPT ![at] = main[at]], log |-> copy.log]
    BY <2>1, <2>2
  <2>4. /\ IsPages(copy'.main) /\ copy'.log = copy.log
        /\ \A p \in Pages : copy'.main[p] = IF p = at THEN main[at] ELSE copy.main[p]
    BY <1>1, <2>3 DEF IInv, TakeInv, IsPages
  <2>5. at' \in Pages BY <1>1, <2>1, PagesFromOne
  <2>6. TakeInv'
    <3>1. at' \in Nat \ {0} BY <2>5, PagesFromOne
    <3>2. copy' = [main |-> copy'.main, log |-> copy'.log] BY <2>3
    <3>3. QED BY <1>1, <2>1, <2>4, <2>5, <3>1, <3>2 DEF IInv, TakeInv
  <2>7. ~written => \A p \in Pages : p < at => copy.main[p] = main[p]
    BY <1>1 DEF IInv, Steady
  <2>8. ~written => (\A p \in Pages : p < at + 1 => copy'.main[p] = main'[p])
    BY <1>1, <2>4, <2>7, PagesFromOne DEF sourceVars
  <2>9. Steady'
    <3>1. ~written /\ pc' = "wal1" => \A p \in Pages : copy'.main[p] = main'[p]
      BY <1>1, <2>1, <2>8, PagesFromOne
    <3>2. QED BY <1>1, <2>1, <2>8, <3>1, StillSteady DEF Steady
  <2>10. QED BY <1>1, <2>1, <2>6, <2>9, ReadingKeeps
<1>4. QED BY <1>2, <1>3

LEMMA LogFrames ==
  ASSUME IInv
  PROVE  /\ log.frames \in Seq(Frame) /\ log.salt \in Nat /\ Len(log.frames) \in Nat
         /\ DOMAIN log.frames = 1..Len(log.frames)
         /\ copy.log.frames \in Seq(Frame) /\ Len(copy.log.frames) \in Nat
         /\ DOMAIN copy.log.frames = 1..Len(copy.log.frames)
<1>1. log.frames \in Seq(Frame) /\ log.salt \in Nat /\ copy.log.frames \in Seq(Frame)
  BY DEF IInv, StoreInv, TakeInv, Log
<1>2. QED BY <1>1, LenProperties

LEMMA ReadLogKeeps == ASSUME IInv, ReadLog PROVE IInv'
<1>1. /\ pc = "wal1" /\ at \in Nat \ {0}
      /\ UNCHANGED <<sourceVars, moved, held, fingerprint, written, still, last>>
      /\ main' = main /\ log' = log
  BY DEF ReadLog, IInv, TakeInv, historyVars, sourceVars
<1>2. copy = [main |-> copy.main, log |-> copy.log] /\ copy.log = [salt |-> copy.log.salt, frames |-> copy.log.frames]
  BY DEF IInv, TakeInv, Log
<1>3. CASE at = 1
  <2>1. copy' = [main |-> copy.main, log |-> [salt |-> log.salt, frames |-> <<>>]] /\ at' = 2 /\ pc' = pc
    BY <1>2, <1>3 DEF ReadLog
  <2>2. copy'.log \in Log /\ Len(copy'.log.frames) = 0
    BY <2>1, LogFrames, EmptySeq DEF Log
  <2>3. TakeInv' BY <1>1, <2>1, <2>2 DEF IInv, TakeInv
  <2>4. Steady'
    <3>1. ~written => \A p \in Pages : copy'.main[p] = main[p] BY <1>1, <2>1 DEF IInv, Steady
    <3>2. /\ at' - 2 <= Len(log.frames) /\ \A i \in 1..(at' - 2) : FALSE
      BY <2>1, LogFrames
    <3>3. QED BY <1>1, <2>1, <3>1, <3>2, StillSteady DEF Steady
  <2>5. QED BY <1>1, <2>1, <2>3, <2>4, ReadingKeeps
<1>4. CASE at # 1 /\ at - 1 \in DOMAIN log.frames
  <2> DEFINE frame == log.frames[at - 1]
  <2>1. copy' = [copy EXCEPT !.log.frames = Append(@, frame)] /\ at' = at + 1 /\ pc' = pc
    BY <1>4 DEF ReadLog
  <2>2. frame \in Frame BY <1>4, LogFrames
  <2> HIDE DEF frame
  <2>3. copy' = [main |-> copy.main,
                 log |-> [salt |-> copy.log.salt, frames |-> Append(copy.log.frames, frame)]]
    BY <1>2, <2>1
  <2>4. Len(copy.log.frames) = at - 2 BY <1>1, <1>4 DEF IInv, TakeInv
  <2>5. /\ copy'.log.frames \in Seq(Frame) /\ Len(copy'.log.frames) = at - 1
        /\ \A i \in 1..(at - 2) : copy'.log.frames[i] = copy.log.frames[i]
        /\ copy'.log.frames[at - 1] = frame
    <3> DEFINE f == copy.log.frames
    <3>1. f \in Seq(Frame) /\ Len(f) = at - 2 /\ copy'.log.frames = Append(f, frame)
      BY <2>3, <2>4, LogFrames
    <3> HIDE DEF f
    <3>2. /\ Append(f, frame) \in Seq(Frame) /\ Len(Append(f, frame)) = Len(f) + 1
          /\ \A i \in 1..Len(f) : Append(f, frame)[i] = f[i]
          /\ Append(f, frame)[Len(f) + 1] = frame
      BY <2>2, <3>1, AppendProperties
    <3>3. Len(f) + 1 = at - 1 BY <1>1, <3>1
    <3>4. QED BY <3>1, <3>2, <3>3 DEF f
  <2>6. TakeInv'
    <3>1. copy'.log \in Log BY <2>3, <2>5 DEF IInv, TakeInv, Log
    <3>2. Len(copy'.log.frames) = at' - 2 BY <1>1, <2>1, <2>5
    <3>3. at' \in Nat \ {0} /\ pc' = "wal1" BY <1>1, <2>1
    <3>4. copy' = [main |-> copy'.main, log |-> copy'.log] /\ copy'.main = copy.main BY <2>3
    <3>5. fingerprint' = fingerprint BY <1>1
    <3>6. QED BY <3>1, <3>2, <3>3, <3>4, <3>5 DEF IInv, TakeInv
  <2>7. Steady'
    <3>1. ~written => /\ \A p \in Pages : copy'.main[p] = main[p]
                      /\ copy'.log.salt = log.salt
                      /\ \A i \in 1..(at - 2) : copy.log.frames[i] = log.frames[i]
      BY <1>1, <1>4, <2>3 DEF IInv, Steady
    <3>2. ~written => \A i \in 1..(at' - 2) : copy'.log.frames[i] = log.frames[i]
      <4>1. SUFFICES ASSUME ~written, NEW i \in 1..(at' - 2)
                     PROVE  copy'.log.frames[i] = log.frames[i]
        OBVIOUS
      <4>2. i \in 1..(at - 2) \/ i = at - 1 BY <1>1, <2>1
      <4>3. CASE i \in 1..(at - 2) BY <2>5, <3>1, <4>1, <4>3
      <4>4. CASE i = at - 1 BY <2>5, <4>4 DEF frame
      <4>5. QED BY <4>2, <4>3, <4>4
    <3>3. at' - 2 <= Len(log.frames) BY <1>1, <1>4, <2>1, LogFrames
    <3>4. QED BY <1>1, <2>1, <3>1, <3>2, <3>3, StillSteady DEF Steady
  <2>8. QED BY <1>1, <2>1, <2>6, <2>7, ReadingKeeps
<1>5. CASE at # 1 /\ at - 1 \notin DOMAIN log.frames
  <2>1. copy' = copy /\ at' = 1 /\ pc' = "main2" BY <1>5 DEF ReadLog, Goto
  <2>2. TakeInv' BY <1>1, <2>1, PagesFromOne DEF IInv, TakeInv
  <2>3. Steady'
    <3>1. ~written => /\ \A p \in Pages : copy.main[p] = main[p]
                      /\ copy.log.salt = log.salt /\ at - 2 <= Len(log.frames)
                      /\ \A i \in 1..(at - 2) : copy.log.frames[i] = log.frames[i]
      BY <1>1, <1>5 DEF IInv, Steady
    <3>2. Len(copy.log.frames) = at - 2 BY <1>1, <1>5 DEF IInv, TakeInv
    <3>3. ~written => at - 2 = Len(log.frames) BY <1>1, <1>5, <3>1, LogFrames
    <3>4. QED BY <1>1, <2>1, <3>1, <3>2, <3>3, StillSteady DEF Steady
  <2>4. QED BY <1>1, <2>1, <2>2, <2>3, ReadingKeeps
<1>6. QED BY <1>3, <1>4, <1>5

LEMMA CompareKeeps == ASSUME IInv, CompareMain \/ CompareLog PROVE IInv'
<1>1. /\ pc \in {"main2", "wal2"} /\ at \in Nat \ {0}
      /\ UNCHANGED <<sourceVars, copy, held, fingerprint>>
      /\ main' = main /\ log' = log
  BY DEF CompareMain, CompareLog, IInv, TakeInv, sourceVars
<1>2. ~written => /\ \A p \in Pages : copy.main[p] = main[p]
                  /\ copy.log.salt = log.salt
                  /\ Len(copy.log.frames) = Len(log.frames)
                  /\ \A i \in 1..Len(log.frames) : copy.log.frames[i] = log.frames[i]
  BY <1>1 DEF IInv, Steady
<1>3. ASSUME UNCHANGED <<moved, historyVars>>, pc' \in {"main2", "wal2", "check2"},
             at' \in Nat \ {0}, pc' = "main2" => at' \in Pages
      PROVE  IInv'
  <2>1. UNCHANGED <<written, still, last>> BY <1>3 DEF historyVars
  <2>2. TakeInv' BY <1>1, <1>3 DEF IInv, TakeInv
  <2>3. Steady' BY <1>1, <1>2, <1>3, <2>1, StillSteady DEF Steady
  <2>4. QED BY <1>1, <1>3, <2>1, <2>2, <2>3, ReadingKeeps
<1>4. CASE CompareMain
  <2>1. pc = "main2" /\ at \in Pages BY <1>4 DEF CompareMain, IInv, TakeInv
  <2>2. CASE main[at] # copy.main[at]
    <3>1. NextAttempt(TRUE) /\ UNCHANGED <<written, still, last>> BY <1>4, <2>2 DEF CompareMain
    <3>2. written BY <1>2, <2>1, <2>2
    <3>3. QED BY <1>1, <3>1, <3>2, ChangeSeen
  <2>3. CASE main[at] = copy.main[at]
    <3>1. /\ UNCHANGED <<moved, historyVars>>
          /\ \/ at < LastPage /\ at' = at + 1 /\ pc' = pc
             \/ at' = 1 /\ pc' = "wal2"
      BY <1>4, <2>3 DEF CompareMain, Goto
    <3>2. at' \in Pages /\ at' \in Nat \ {0} BY <2>1, <3>1, PagesFromOne
    <3>3. QED BY <1>3, <2>1, <3>1, <3>2
  <2>4. QED BY <2>2, <2>3
<1>5. CASE CompareLog
  <2> DEFINE k == at - 1
             n == Len(copy.log.frames)
             same == CASE k = 0      -> log.salt = copy.log.salt
                       [] k \in 1..n -> k \in DOMAIN log.frames /\ log.frames[k] = copy.log.frames[k]
                       [] OTHER      -> Len(log.frames) = n
  <2>1. CASE ~same
    <3>1. NextAttempt(TRUE) /\ UNCHANGED <<written, still, last>> BY <1>5, <2>1 DEF CompareLog
    <3>2. written
      <4>1. CASE k = 0 BY <1>2, <2>1, <4>1
      <4>2. CASE k \in 1..n
        <5>1. k # 0 BY <4>2, LogFrames
        <5>2. ~(k \in DOMAIN log.frames /\ log.frames[k] = copy.log.frames[k]) BY <2>1, <4>2, <5>1
        <5>3. QED BY <1>2, <4>2, <5>2, LogFrames
      <4>3. CASE k # 0 /\ k \notin 1..n BY <1>2, <2>1, <4>3
      <4>4. QED BY <4>1, <4>2, <4>3
    <3>3. QED BY <1>1, <3>1, <3>2, ChangeSeen
  <2>2. CASE same
    <3>1. /\ UNCHANGED <<moved, historyVars>>
          /\ \/ at' = at + 1 /\ pc' = pc
             \/ at' = 1 /\ pc' = "check2"
      BY <1>5, <2>2 DEF CompareLog, Goto
    <3>2. pc = "wal2" BY <1>5 DEF CompareLog
    <3>3. QED BY <1>1, <1>3, <3>1, <3>2
  <2>3. QED BY <2>1, <2>2
<1>6. QED BY <1>4, <1>5


(***************************************************************************)
(* The fingerprints                                                        *)
(***************************************************************************)

LEMMA FingerprintMainKeeps == ASSUME IInv, FingerprintMain PROVE IInv'
<1>1. /\ pc = "fpMain" /\ pc' = "fpWal" /\ at' = 1
      /\ UNCHANGED <<sourceVars, copy, moved, held, written, still>>
      /\ mode = "rollback" /\ last' = Len(committed)
  BY DEF FingerprintMain, Goto, IInv, HeldInv
<1>2. fingerprint' = [main |-> main, log |-> fingerprint.log, journal |-> fingerprint.journal]
  BY DEF FingerprintMain, IInv, TakeInv
<1>3. StoreInv' BY <1>1, StoreKept DEF IInv
<1>4. TakeInv' BY <1>1, <1>2 DEF IInv, TakeInv
<1>5. Steady' BY <1>1, <1>2, StillSteady DEF Steady, sourceVars
<1>6. HeldInv'
  <2>1. \A p \in Pages : fingerprint'.main[p] \in Known BY <1>1, <1>2 DEF IInv, StoreInv
  <2>2. Known' = Known BY <1>1 DEF Known, sourceVars
  <2>3. QED BY <1>1, <2>1, <2>2 DEF IInv, HeldInv, sourceVars
<1>7. CommitInv'
  <2>1. Len(committed) \in Nat BY DEF IInv, CommitInv
  <2>2. Gone' <=> Gone BY <1>1 DEF Gone, Over, Marked, New, sourceVars
  <2>3. Over' <=> Over BY <1>1 DEF Over, sourceVars
  <2>4. Marked => held.journal = 0 /\ \E p \in Pages : main[p] # held.main[p]
    BY DEF Marked, New
  <2>5. ~moved /\ held # None => Len(committed) = still \/ Gone BY DEF IInv, CommitInv
  <2>6. ~moved /\ held # None =>
          \/ last' <= still
          \/ Over
          \/ held.journal = 0 /\ \E p \in Pages : fingerprint'.main[p] # held.main[p]
    BY <1>1, <1>2, <2>1, <2>4, <2>5 DEF Gone
  <2>7. QED BY <1>1, <2>1, <2>2, <2>3, <2>5, <2>6 DEF CommitInv, sourceVars
<1>8. ReasonInv' BY <1>1 DEF ReasonInv
<1>9. QED BY <1>3, <1>4, <1>5, <1>6, <1>7, <1>8 DEF IInv

LEMMA FingerprintLogKeeps == ASSUME IInv, FingerprintLog PROVE IInv'
<1>1. /\ pc = "fpWal" /\ pc' = "fpJournal" /\ at' = 1
      /\ UNCHANGED <<sourceVars, copy, moved, held, written, still, last>>
  BY DEF FingerprintLog, Goto, historyVars
<1>2. fingerprint' = [main |-> fingerprint.main, log |-> log, journal |-> fingerprint.journal]
  BY DEF FingerprintLog, IInv, TakeInv
<1>3. StoreInv' BY <1>1, StoreKept DEF IInv
<1>4. TakeInv' BY <1>1, <1>2 DEF IInv, TakeInv
<1>5. Steady'
  <2>1. ~written => fingerprint.main = main BY <1>1 DEF IInv, Steady
  <2>2. QED BY <1>1, <1>2, <2>1, StillSteady DEF Steady, sourceVars
<1>6. HeldInv'
  <2>1. Known' = Known BY <1>1 DEF Known, sourceVars
  <2>2. QED BY <1>1, <1>2, <2>1 DEF IInv, HeldInv, sourceVars
<1>7. CommitInv'
  <2>1. (Gone' <=> Gone) /\ (Over' <=> Over) BY <1>1 DEF Gone, Over, Marked, New, sourceVars
  <2>2. fingerprint'.main = fingerprint.main BY <1>2
  <2>3. QED BY <1>1, <2>1, <2>2 DEF IInv, CommitInv, sourceVars
<1>8. ReasonInv' BY <1>1 DEF ReasonInv
<1>9. QED BY <1>3, <1>4, <1>5, <1>6, <1>7, <1>8 DEF IInv

LEMMA FingerprintJournalKeeps == ASSUME IInv, FingerprintJournal PROVE IInv'
<1> DEFINE now == [fingerprint EXCEPT !.journal = Journal]
<1>1. /\ pc = "fpJournal" /\ mode = "rollback"
      /\ UNCHANGED <<sourceVars, copy, written, last>>
      /\ held' = now /\ NextAttempt(Moved(now))
      /\ fingerprint' = [main |-> Unread, log |-> Unread, journal |-> Unread]
      /\ still' = IF held = None THEN Len(committed) ELSE still
  BY DEF FingerprintJournal, IInv, HeldInv
<1>2. now = [main |-> fingerprint.main, log |-> fingerprint.log, journal |-> Journal]
  BY DEF IInv, TakeInv
<1> HIDE DEF now
<1>3. /\ moved' = (moved \/ (held # None /\ held # now)) /\ at' = 1
      /\ pc' \in {"check1", "Busy", "Interrupted"}
      /\ pc' = "Busy" => moved'
      /\ pc' = "Interrupted" => ~moved'
  BY <1>1 DEF NextAttempt, Goto, Moved
<1>4. StoreInv' BY <1>1, StoreKept DEF IInv
<1>5. TakeInv' BY <1>1, <1>3 DEF IInv, TakeInv
<1>6. Steady'
  <2>1. main' = main /\ log' = log /\ Journal' = Journal
    BY <1>1 DEF sourceVars, Journal, JournalHot
  <2>2. ~written => /\ ~moved
                    /\ now = [main |-> main, log |-> log, journal |-> Journal]
                    /\ held # None => held = [main |-> main, log |-> log, journal |-> Journal]
    BY <1>1, <1>2 DEF IInv, Steady
  <2>3. QED BY <1>1, <1>3, <2>1, <2>2 DEF Steady
<1>7. /\ Journal \in 0..begun
      /\ Journal = 0 => open = NoTransaction
      /\ Journal # 0 => open # NoTransaction /\ open.number = Journal
  <2>1. CASE open = NoTransaction
    <3>1. Journal = 0 BY <2>1 DEF Journal, JournalHot
    <3>2. begun \in Nat BY Bounds DEF IInv, StoreInv
    <3>3. QED BY <2>1, <3>1, <3>2
  <2>2. CASE open # NoTransaction
    <3>1. Journal = open.number BY <1>1, <2>2 DEF Journal, JournalHot
    <3>2. open \in Transaction /\ open.number = begun BY <1>1, <2>2 DEF IInv, StoreInv
    <3>3. open.number \in 1..MaxTransactions BY <3>2 DEF Transaction
    <3>4. QED BY <2>2, <3>1, <3>2, <3>3, Bounds
  <2>3. QED BY <2>1, <2>2
<1>8. HeldInv'
  <2>1. \A p \in Pages : now.main[p] \in Known BY <1>1, <1>2 DEF IInv, HeldInv
  <2>2. Known' = Known /\ begun' = begun /\ open' = open /\ mode' = mode
    BY <1>1 DEF Known, sourceVars
  <2>3. now.journal = Journal BY <1>2
  <2>4. QED BY <1>1, <1>3, <1>7, <2>1, <2>2, <2>3 DEF HeldInv
<1>9. ~moved' => last <= still'
  <2>1. CASE held = None BY <1>1, <2>1 DEF IInv, CommitInv
  <2>2. CASE held # None
    <3>1. SUFFICES ASSUME ~moved' PROVE last <= still BY <1>1, <2>2
    <3>2. ~moved /\ held = now BY <1>3, <2>2, <3>1
    <3>3. held.main = fingerprint.main /\ held.journal = Journal BY <1>2, <3>2
    <3>4. ~Over
      <4>1. SUFFICES ASSUME Over PROVE FALSE OBVIOUS
      <4>2. open # NoTransaction /\ open.number = Journal /\ Journal # 0
        BY <1>7, <3>3, <4>1 DEF Over
      <4>3. open.number > Journal BY <3>3, <4>1, <4>2 DEF Over
      <4>4. Journal \in Nat BY <1>7, Bounds DEF IInv, StoreInv
      <4>5. QED BY <4>2, <4>3, <4>4
    <3>5. QED BY <1>1, <2>2, <3>2, <3>3, <3>4 DEF IInv, CommitInv
  <2>3. QED BY <2>1, <2>2
<1>10. CommitInv'
  <2>1. last' <= Len(committed') /\ last' \in Nat /\ Len(committed') \in Nat
    BY <1>1 DEF IInv, CommitInv, sourceVars
  <2>2. ~moved' /\ held' # None => Len(committed') = still' \/ Gone'
    <3>1. CASE held = None BY <1>1, <3>1 DEF sourceVars
    <3>2. ASSUME held # None, ~moved' PROVE Len(committed') = still' \/ Gone'
      <4>1. ~moved /\ held' = held BY <1>1, <1>3, <3>2
      <4>2. Gone => Gone' BY <1>1, <4>1 DEF Gone, Over, Marked, New, sourceVars
      <4>3. QED BY <1>1, <3>2, <4>1, <4>2 DEF IInv, CommitInv, sourceVars
    <3>3. QED BY <3>1, <3>2
  <2>3. QED BY <1>3, <2>1, <2>2 DEF CommitInv
<1>11. ReasonInv' BY <1>1, <1>3, <1>9 DEF ReasonInv
<1>12. QED BY <1>4, <1>5, <1>6, <1>8, <1>10, <1>11 DEF IInv

LEMMA EndKeeps == ASSUME IInv, ReadFails \/ ScanPage PROVE IInv'
<1>1. /\ UNCHANGED <<sourceVars, copy, moved, held, fingerprint, written, still, last>>
      /\ pc' \in {"Io", "scan", "Read", "Unreadable"}
      /\ at' = at \/ at' = 1
  BY DEF ReadFails, ScanPage, Goto, historyVars
<1>2. TakeInv' BY <1>1 DEF IInv, TakeInv
<1>3. Steady' BY <1>1, StillSteady DEF Steady
<1>4. QED BY <1>1, <1>2, <1>3, ReadingKeeps

-----------------------------------------------------------------------------
(* The whole *)

LEMMA Start == ASSUME Init PROVE IInv
<1>1. mode \in {"rollback", "wal", "absent"} /\ log = NoLog /\ NoLog \in Log
  BY EmptySeq DEF Init, SourceInit, NoLog, Log
<1>2. PICK v \in {0, Malformed} :
        /\ committed = <<[p \in Pages |-> v]>>
        /\ \/ /\ open = NoTransaction
              /\ begun = 0
              /\ main = [p \in Pages |-> v]
           \/ \E upto \in 0..LastPage :
                /\ mode = "rollback" /\ MaxTransactions > 0
                /\ begun = 1
                /\ main = [p \in Pages |-> IF p <= upto THEN 1 ELSE v]
                /\ open = [number |-> 1, left |-> Pages \ (1..upto), back |-> FALSE,
                           undo |-> (1..upto) \X {v}]
  BY DEF Init, SourceInit
<1>3. Len(committed) = 1 /\ \E S : committed \in Seq(S)
  <2>1. committed \in Seq({[p \in Pages |-> v]}) BY <1>2
  <2>2. QED BY <1>2, <2>1
<1>4. begun \in 0..MaxTransactions /\ IsPages(main) /\ v \in Known /\ v \in Versions
  BY <1>2, Bounds DEF Known, IsPages
<1>5. ASSUME open = NoTransaction, begun = 0, main = [p \in Pages |-> v] PROVE StoreInv
  BY <1>1, <1>3, <1>4, <1>5 DEF StoreInv
<1>6. ASSUME NEW upto \in 0..LastPage,
             MaxTransactions > 0, begun = 1,
             main = [p \in Pages |-> IF p <= upto THEN 1 ELSE v],
             open = [number |-> 1, left |-> Pages \ (1..upto), back |-> FALSE,
                     undo |-> (1..upto) \X {v}]
      PROVE  StoreInv
  <2>1. 1..upto \subseteq Pages BY PagesFromOne
  <2>2. open \in Transaction BY <1>4, <1>6, <2>1, Bounds DEF Transaction
  <2>3. \A p \in Pages : main[p] \in Known BY <1>4, <1>6 DEF Known
  <2>4. \A p \in Pages, u \in Versions : <<p, u>> \in open.undo => u \in Known BY <1>4, <1>6
  <2>5. 1 \in open.left \/ main[1] = open.number BY <1>6, PagesFromOne
  <2>6. open.number = begun BY <1>6
  <2>7. \E p \in Pages : p \in open.left \/ main[p] = open.number BY <2>5, PagesFromOne
  <2>8. QED BY <1>1, <1>3, <1>4, <2>2, <2>3, <2>4, <2>6, <2>7 DEF StoreInv
<1>7. StoreInv BY <1>2, <1>5, <1>6
<1>8. TakeInv BY <1>1 DEF Init, TakeInv, IsPages
<1>9. Steady BY DEF Init, Steady
<1>10. HeldInv BY DEF Init, HeldInv
<1>11. CommitInv BY <1>3 DEF Init, CommitInv
<1>12. ReasonInv BY DEF Init, ReasonInv
<1>13. QED BY <1>7, <1>8, <1>9, <1>10, <1>11, <1>12 DEF IInv

LEMMA Steps == ASSUME IInv, [Next]_vars PROVE IInv'
<1>1. CASE Reader
  BY <1>1, JournalCheckKeeps, ReadMainKeeps, ReadLogKeeps, CompareKeeps, FingerprintMainKeeps,
     FingerprintLogKeeps, FingerprintJournalKeeps, EndKeeps DEF Reader
<1>2. CASE Browser BY <1>2, BrowserKeeps
<1>3. CASE UNCHANGED vars
  <2>1. UNCHANGED <<sourceVars, pc, at, copy, moved, held, fingerprint, written, still, last>>
    BY <1>3 DEF vars, takeVars, historyVars
  <2>2. StoreInv' BY <2>1, StoreKept DEF IInv
  <2>3. TakeInv' BY <2>1 DEF IInv, TakeInv
  <2>4. Steady' BY <2>1 DEF IInv, Steady, sourceVars, Journal, JournalHot
  <2>5. HeldInv' BY <2>1 DEF IInv, HeldInv, sourceVars, Known
  <2>6. CommitInv' BY <2>1, CommitKept DEF IInv
  <2>7. ReasonInv' BY <2>1 DEF IInv, ReasonInv
  <2>8. QED BY <2>2, <2>3, <2>4, <2>5, <2>6, <2>7 DEF IInv
<1>4. QED BY <1>1, <1>2, <1>3 DEF Next

(* Whatever the other browser does, and however long: Busy is said only of *)
(* a store that was written while it was copied, and Interrupted only of   *)
(* one in which nothing was committed between the first look at it and the *)
(* last (snapshot.rs, refused_open and the end of take).                   *)
THEOREM ReasonsAreTrue == Spec => []RefusalIsTrue
<1>1. IInv => RefusalIsTrue BY DEF IInv, ReasonInv, Steady, RefusalIsTrue
<1>2. QED BY Start, Steps, <1>1, PTL DEF Spec

-----------------------------------------------------------------------------
(***************************************************************************)
(* That an accepted copy is of one moment.                                 *)
(*                                                                         *)
(* In write-ahead-log mode nothing that was overwritten ever comes back:   *)
(* not a page of the main file, which only follows what is committed, nor  *)
(* a frame, which only a transaction writes that has not written its page  *)
(* yet, nor a salt.  So either all that was copied is what the store held  *)
(* when the second read began, which is what was committed then, or some   *)
(* part the second read has yet to compare will be found different.        *)
(*                                                                         *)
(* In rollback mode a page does come back, when the journal puts it there. *)
(* What the first read found is then the committed state, but for pages    *)
(* the open transaction had written ahead of it (ahead); and that          *)
(* transaction either commits just what the copy holds, or leaves a page   *)
(* that the second read finds different, unless it wrote one behind the    *)
(* second read too (escape).                                               *)
(***************************************************************************)

\* The last committed state of the store.
Current == committed[Len(committed)]

\* The copy is a state that was committed since the attempt began.
OneMoment == \E i \in since..Len(committed) : committed[i] = Contents(copy.main, copy.log)

Copied(q) == (pc = "main1" /\ q < at) \/ pc \in {"wal1", "main2", "wal2", "check2"}
Compared(q) == (pc = "main2" /\ q < at) \/ pc \in {"wal2", "check2"}

-----------------------------------------------------------------------------
(* Rollback mode *)

Untouched(p) == main[p] = Current[p] /\ \A v \in Versions : <<p, v>> \notin open.undo
Overwritten(p) ==
  /\ main[p] = open.number /\ p \notin open.left
  /\ <<p, Current[p]>> \in open.undo
  /\ \A v \in Versions : <<p, v>> \in open.undo => v = Current[p]

JournalInv ==
  mode = "rollback" =>
    /\ log = NoLog /\ copy.log = NoLog
    /\ IsPages(Current) /\ \A p \in Pages : Current[p] \in Known
    /\ open = NoTransaction => \A p \in Pages : main[p] = Current[p]
    /\ open # NoTransaction =>
         \A p \in Pages :
           /\ Current[p] # open.number
           /\ Untouched(p) \/ Overwritten(p)
           /\ pc = "main1" /\ p >= at /\ main[p] = open.number => ahead

\* What was copied of page q will never be in the store again.
Lost(q) ==
  /\ copy.main[q] # main[q] /\ copy.main[q] \in Known
  /\ open # NoTransaction =>
       /\ <<q, copy.main[q]>> \notin open.undo
       /\ copy.main[q] = open.number => open.back

\* The first read: what is committed, or what a transaction wrote ahead of it.
FirstRead ==
  \/ \E q \in Pages : q < at /\ Lost(q)
  \/ \A q \in Pages : q < at =>
       \/ copy.main[q] = Current[q]
       \/ open # NoTransaction /\ ahead /\ copy.main[q] = open.number

\* The open transaction may commit what the copy holds.
Pending ==
  /\ open # NoTransaction /\ ahead
  /\ \A q \in Pages : /\ copy.main[q] \in {Current[q], open.number}
                      /\ Compared(q) => copy.main[q] = main[q]

SecondRead ==
  \/ OneMoment
  \/ \E q \in Pages : ~Compared(q) /\ Lost(q)
  \/ Pending

JournalTake ==
  mode = "rollback" /\ ~escape =>
    /\ pc = "main1" => FirstRead
    /\ pc \in {"wal1", "main2", "wal2", "check2"} => SecondRead

-----------------------------------------------------------------------------
(* Write-ahead-log mode *)

\* No transaction will write this frame any more.
Past(f) ==
  /\ f.version \in 1..begun
  /\ open # NoTransaction /\ f.version = open.number => <<f.page, 0>> \in open.undo

\* No transaction will write this version of a page any more.
PastVersion(v) == v \in Known /\ (open # NoTransaction => v # open.number)

LogInv ==
  mode = "wal" =>
    /\ Current = Contents(main, log)
    /\ \A p \in Pages : PastVersion(main[p]) /\ PastVersion(Current[p])
    /\ \A i \in 1..Len(log.frames) :
         /\ log.frames[i].salt <= log.salt
         /\ Past(log.frames[i])
         /\ i > Committed(log) /\ log.frames[i].salt = log.salt => ~log.frames[i].commit
    /\ open # NoTransaction =>
         /\ open.number = begun
         /\ open.left # {}
         /\ \A p \in open.left : <<p, 0>> \notin open.undo
         /\ IsFiniteSet(open.undo)
         /\ Committed(log) + Cardinality(open.undo) <= Len(log.frames)
         /\ \A i \in 1..(Committed(log) + Cardinality(open.undo)) :
              /\ log.frames[i].salt = log.salt
              /\ i > Committed(log) => log.frames[i].version = open.number

\* Something the second read has yet to compare is not what was copied.
WillDiffer ==
  \/ \E q \in Pages : ~Compared(q) /\ copy.main[q] # main[q]
  \/ (pc = "main2" \/ (pc = "wal2" /\ at = 1)) /\ copy.log.salt # log.salt
  \/ \E i \in 1..Len(copy.log.frames) :
       /\ pc = "main2" \/ (pc = "wal2" /\ i >= at - 1)
       /\ copy.log.frames[i] # log.frames[i]

\* What was copied of the main file, and of the log.
MainCopied(q) == /\ PastVersion(copy.main[q])
                 /\ copy.main[q] = main[q] \/ copy.main[q] # Current[q]
LogCopied ==
  /\ copy.log.salt <= log.salt
  /\ Len(copy.log.frames) <= Len(log.frames)
  /\ \A i \in 1..Len(copy.log.frames) : Past(copy.log.frames[i])

LogTake ==
  mode = "wal" =>
    /\ \A q \in Pages : Copied(q) => MainCopied(q)
    /\ (pc = "wal1" /\ at > 1) \/ pc \in {"main2", "wal2", "check2"} => LogCopied
    /\ pc \in {"main2", "wal2", "check2"} => OneMoment \/ WillDiffer

SealedInv ==
  /\ since \in Nat /\ 1 <= since /\ since <= Len(committed)
  /\ mode \in {"rollback", "wal", "absent"}
  /\ pc \in {"wal1", "main2", "wal2", "check2"} \cup {"scan", "Read", "Unreadable"} =>
       mode # "absent"
  /\ Accepted /\ ~escape => OneMoment

MomentInv == JournalInv /\ JournalTake /\ LogInv /\ LogTake /\ SealedInv

-----------------------------------------------------------------------------
(* Numbers and logs *)

LEMMA NatInductionOnSets ==
  ASSUME NEW S, 0 \in S, \A n \in Nat : n \in S => n + 1 \in S
  PROVE  Nat \subseteq S
<1> DEFINE T == Nat \ S
           R == OpToRel(<, Nat)
<1> SUFFICES ASSUME T # {} PROVE FALSE
  OBVIOUS
<1>1. PICK x \in T : \A y \in T : ~ (<<y, x>> \in R)
  BY NatLessThanWellFounded, WFMin
<1>2. x \in Nat /\ x # 0 /\ x - 1 \in Nat
  OBVIOUS
<1>3. <<x - 1, x>> \in R
  BY <1>2 DEF OpToRel
<1>4. x - 1 \in S
  BY <1>1, <1>2, <1>3
<1>5. (x - 1) + 1 = x
  BY <1>2
<1>6. QED
  BY <1>2, <1>4, <1>5

\* The library's Max and Min of bounded sets.
LEMMA MaxOfBounded ==
  ASSUME NEW n \in Nat, NEW S, S \subseteq 0..n, S # {}
  PROVE  Max(S) \in S /\ \A x \in S : x <= Max(S)
<1> DEFINE Top == {m \in Nat : \A U \in SUBSET (0..m) : U # {} =>
                      \E x \in U : \A y \in U : y <= x}
<1>1. 0 \in Top
  <2> SUFFICES ASSUME NEW U \in SUBSET (0..0), U # {}
               PROVE  \E x \in U : \A y \in U : y <= x
    OBVIOUS
  <2>1. \A y \in U : y = 0
    OBVIOUS
  <2>2. PICK x \in U : TRUE
    OBVIOUS
  <2>3. QED
    BY <2>1, <2>2
<1>2. ASSUME NEW m \in Nat, m \in Top PROVE m + 1 \in Top
  <2> SUFFICES ASSUME NEW U \in SUBSET (0..(m + 1)), U # {}
               PROVE  \E x \in U : \A y \in U : y <= x
    BY <1>2
  <2>1. CASE m + 1 \in U
    BY <2>1
  <2>2. CASE m + 1 \notin U
    BY <1>2, <2>2
  <2>3. QED
    BY <2>1, <2>2
<1> HIDE DEF Top
<1>3. n \in Top
  BY <1>1, <1>2, NatInductionOnSets
<1>4. \E x \in S : \A y \in S : x >= y
  BY <1>3 DEF Top
<1>5. QED
  BY <1>4 DEF Max

LEMMA MinOfNumbers ==
  ASSUME NEW S, S \subseteq Nat, S # {}
  PROVE  Min(S) \in S
<1> DEFINE Good(k) == (\E x \in S : x <= k) => \E m \in S : \A x \in S : m <= x
           G == {k \in Nat : Good(k)}
<1>1. Good(0)
  <2> SUFFICES ASSUME NEW x \in S, x <= 0 PROVE \E m \in S : \A y \in S : m <= y
    OBVIOUS
  <2>1. x = 0 OBVIOUS
  <2>2. \A y \in S : x <= y BY <2>1
  <2>3. QED BY <2>2
<1>2. ASSUME NEW k \in Nat, Good(k) PROVE Good(k + 1)
  <2>1. CASE \E x \in S : x <= k BY <1>2, <2>1
  <2>2. CASE ~ \E x \in S : x <= k
    <3> SUFFICES ASSUME NEW x \in S, x <= k + 1 PROVE \E m \in S : \A y \in S : m <= y
      OBVIOUS
    <3>1. x = k + 1 BY <2>2
    <3>2. \A y \in S : x <= y BY <2>2, <3>1
    <3>3. QED BY <3>2
  <2>3. QED BY <2>1, <2>2
<1>3. Nat \subseteq G
  <2> HIDE DEF Good
  <2>1. 0 \in G /\ \A k \in Nat : k \in G => k + 1 \in G BY <1>1, <1>2
  <2> HIDE DEF G
  <2>2. QED BY <2>1, NatInductionOnSets
<1>4. PICK x \in S : TRUE OBVIOUS
<1>5. Good(x) BY <1>3, <1>4
<1>6. \E m \in S : \A y \in S : m <= y BY <1>4, <1>5
<1>7. QED BY <1>6 DEF Min

\* The frames a log is kept up to.
CommitFrames(l) ==
  {k \in 1..Len(l.frames) : l.frames[k].commit /\ \A i \in 1..k : l.frames[i].salt = l.salt}

LEMMA CommittedIs ==
  ASSUME NEW l \in Log
  PROVE  /\ Committed(l) \in 0..Len(l.frames)
         /\ Committed(l) = 0 \/ Committed(l) \in CommitFrames(l)
         /\ \A k \in CommitFrames(l) : k <= Committed(l)
<1> DEFINE S == {0} \cup CommitFrames(l)
<1>1. l.frames \in Seq(Frame) /\ Len(l.frames) \in Nat /\ DOMAIN l.frames = 1..Len(l.frames)
  BY LenProperties DEF Log
<1>2. Committed(l) = Max(S) BY <1>1 DEF Committed, CommitFrames
<1>3. S \subseteq 0..Len(l.frames) /\ S # {} BY <1>1 DEF CommitFrames
<1> HIDE DEF S
<1>4. Max(S) \in S /\ \A x \in S : x <= Max(S) BY <1>1, <1>3, MaxOfBounded
<1> USE DEF S
<1>5. QED BY <1>2, <1>3, <1>4

LEMMA CommittedAt ==
  ASSUME NEW l \in Log, NEW k \in Nat, k = 0 \/ k \in CommitFrames(l),
         \A j \in CommitFrames(l) : j <= k
  PROVE  Committed(l) = k
<1>1. Len(l.frames) \in Nat BY LenProperties DEF Log
<1>2. \A j \in CommitFrames(l) : j \in Nat /\ j >= 1 BY <1>1 DEF CommitFrames
<1>3. /\ Committed(l) \in Nat
      /\ Committed(l) = 0 \/ Committed(l) \in CommitFrames(l)
      /\ \A j \in CommitFrames(l) : j <= Committed(l)
  BY <1>1, CommittedIs
<1> HIDE DEF CommitFrames
<1>4. Committed(l) <= k BY <1>3
<1>5. k <= Committed(l) BY <1>3
<1>6. QED BY <1>3, <1>4, <1>5

\* The image of a page: the newest of the frames that hold it, if any.
LEMMA ImageOf ==
  ASSUME NEW l \in Log, NEW f, NEW p
  PROVE  \/ /\ \A i \in 1..Committed(l) : l.frames[i].page # p
            /\ PageOf(f, l, p) = f[p]
         \/ \E m \in 1..Committed(l) :
              /\ l.frames[m].page = p
              /\ \A i \in 1..Committed(l) : l.frames[i].page = p => i <= m
              /\ PageOf(f, l, p) = l.frames[m].version
<1> DEFINE images == {i \in 1..Committed(l) : l.frames[i].page = p}
<1>1. Committed(l) \in Nat
  <2>1. Len(l.frames) \in Nat BY LenProperties DEF Log
  <2>2. QED BY <2>1, CommittedIs
<1>2. PageOf(f, l, p) = IF images = {} THEN f[p] ELSE l.frames[Max(images)].version
  BY DEF PageOf
<1>3. images \subseteq 0..Committed(l) BY <1>1
<1>4. images # {} => Max(images) \in images /\ \A i \in images : i <= Max(images)
  <2> HIDE DEF images
  <2>1. QED BY <1>1, <1>3, MaxOfBounded
<1>5. CASE images = {} BY <1>2, <1>5
<1>6. CASE images # {}
  <2>1. Max(images) \in images /\ \A i \in images : i <= Max(images) BY <1>4, <1>6
  <2>2. PageOf(f, l, p) = l.frames[Max(images)].version BY <1>2, <1>6
  <2>3. QED BY <2>1, <2>2
<1>7. QED BY <1>5, <1>6

LEMMA SameContents ==
  ASSUME NEW l \in Log, NEW k \in Log, NEW f, Committed(l) = Committed(k),
         \A i \in 1..Committed(l) : l.frames[i] = k.frames[i]
  PROVE  Contents(f, l) = Contents(f, k)
<1>1. ASSUME NEW p PROVE PageOf(f, l, p) = PageOf(f, k, p)
  <2>1. Committed(l) \in Nat
    <3>1. Len(l.frames) \in Nat BY LenProperties DEF Log
    <3>2. QED BY <3>1, CommittedIs
  <2>2. CASE \A i \in 1..Committed(l) : l.frames[i].page # p
    BY <2>2, ImageOf
  <2>3. CASE \E i \in 1..Committed(l) : l.frames[i].page = p
    <3>1. PICK m \in 1..Committed(l) :
              /\ l.frames[m].page = p
              /\ \A i \in 1..Committed(l) : l.frames[i].page = p => i <= m
              /\ PageOf(f, l, p) = l.frames[m].version
      BY <2>3, ImageOf
    <3>2. PICK n \in 1..Committed(l) :
              /\ k.frames[n].page = p
              /\ \A i \in 1..Committed(l) : k.frames[i].page = p => i <= n
              /\ PageOf(f, k, p) = k.frames[n].version
      <4>1. ~ \A i \in 1..Committed(k) : k.frames[i].page # p BY <2>3
      <4>2. \E n \in 1..Committed(k) :
              /\ k.frames[n].page = p
              /\ \A i \in 1..Committed(k) : k.frames[i].page = p => i <= n
              /\ PageOf(f, k, p) = k.frames[n].version
        BY <4>1, ImageOf
      <4>3. QED BY <4>2
    <3>3. m <= n /\ n <= m BY <3>1, <3>2
    <3>4. m = n BY <2>1, <3>3
    <3>5. QED BY <3>1, <3>2, <3>4
  <2>4. QED BY <2>2, <2>3
<1>2. QED BY <1>1 DEF Contents

\* Log k is log l and a transaction that committed frames of version v.
Extended(l, k, v) ==
  /\ Committed(l) <= Committed(k)
  /\ \A i \in 1..Committed(l) : l.frames[i] = k.frames[i]
  /\ \A i \in 1..Committed(k) : i > Committed(l) => k.frames[i].version = v

\* What such a transaction makes of a page.
LEMMA LaterContents ==
  ASSUME NEW l \in Log, NEW k \in Log, NEW v, Extended(l, k, v), NEW f, NEW p
  PROVE  PageOf(f, k, p) = PageOf(f, l, p) \/ PageOf(f, k, p) = v
<1> USE DEF Extended
<1>1. Committed(l) \in Nat /\ Committed(k) \in Nat
  <2>1. Len(l.frames) \in Nat /\ Len(k.frames) \in Nat BY LenProperties DEF Log
  <2>2. QED BY <2>1, CommittedIs
<1>2. CASE \A i \in 1..Committed(k) : k.frames[i].page # p
  <2>1. \A i \in 1..Committed(l) : l.frames[i].page # p
    <3>1. \A i \in 1..Committed(l) : i \in 1..Committed(k) BY <1>1
    <3>2. QED BY <1>2, <3>1
  <2>2. PageOf(f, k, p) = f[p] BY <1>2, ImageOf
  <2>3. PageOf(f, l, p) = f[p] BY <2>1, ImageOf
  <2>4. QED BY <2>2, <2>3
<1>3. CASE \E i \in 1..Committed(k) : k.frames[i].page = p
  <2>1. PICK m \in 1..Committed(k) :
          /\ k.frames[m].page = p
          /\ \A i \in 1..Committed(k) : k.frames[i].page = p => i <= m
          /\ PageOf(f, k, p) = k.frames[m].version
    BY <1>3, ImageOf
  <2>2. CASE m > Committed(l) BY <2>1, <2>2
  <2>3. CASE m <= Committed(l)
    <3>1. m \in 1..Committed(l) /\ l.frames[m].page = p BY <1>1, <2>1, <2>3
    <3>2. PICK n \in 1..Committed(l) :
            /\ l.frames[n].page = p
            /\ \A i \in 1..Committed(l) : l.frames[i].page = p => i <= n
            /\ PageOf(f, l, p) = l.frames[n].version
      <4>1. \/ /\ \A i \in 1..Committed(l) : l.frames[i].page # p
               /\ PageOf(f, l, p) = f[p]
            \/ \E n \in 1..Committed(l) :
                 /\ l.frames[n].page = p
                 /\ \A i \in 1..Committed(l) : l.frames[i].page = p => i <= n
                 /\ PageOf(f, l, p) = l.frames[n].version
        BY ImageOf
      <4>2. QED BY <3>1, <4>1
    <3>3. n \in 1..Committed(k) /\ k.frames[n].page = p BY <1>1, <3>2
    <3>4. m = n BY <1>1, <2>1, <3>1, <3>2, <3>3
    <3>5. QED BY <2>1, <3>1, <3>2, <3>4
  <2>4. QED BY <1>1, <2>2, <2>3
<1>4. QED BY <1>2, <1>3

LEMMA EmptyLog ==
  ASSUME NEW f, IsPages(f)
  PROVE  /\ NoLog \in Log /\ Len(NoLog.frames) = 0 /\ Committed(NoLog) = 0
         /\ Contents(f, NoLog) = f
<1>1. NoLog \in Log /\ Len(NoLog.frames) = 0
  BY EmptySeq DEF NoLog, Log
<1>2. Committed(NoLog) = 0 BY <1>1, CommittedIs
<1>3. \A p : PageOf(f, NoLog, p) = f[p] BY <1>1, <1>2, ImageOf
<1>4. QED BY <1>1, <1>2, <1>3 DEF Contents, IsPages

\* A commit adds to the states committed and takes none away.
LEMMA Appended ==
  ASSUME NEW s, \E S : s \in Seq(S), NEW e
  PROVE  /\ Len(s) \in Nat /\ Len(Append(s, e)) = Len(s) + 1
         /\ Append(s, e)[Len(s) + 1] = e
         /\ \A i \in 1..Len(s) : Append(s, e)[i] = s[i]
<1>1. PICK S : s \in Seq(S) OBVIOUS
<1>2. Len(s) \in Nat /\ s \in [1..Len(s) -> S] BY <1>1, LenProperties
<1>3. s \in Seq(S \cup {e})
  <2>1. s \in [1..Len(s) -> S \cup {e}] BY <1>2
  <2>2. QED BY <1>2, <2>1, SeqDef
<1>4. e \in S \cup {e} OBVIOUS
<1>5. QED BY <1>2, <1>3, <1>4, AppendProperties


-----------------------------------------------------------------------------
(* Rollback mode: the browser *)

\* What a step of a transaction on page p says of the two reads.
WritesAhead(p) ==
  /\ ahead' = (ahead \/ AheadOfBoth(p))
  /\ escape' = (escape \/ (ahead' /\ BehindBoth(p)))

LEMMA LostStays ==
  ASSUME StoreInv, mode = "rollback", BrowserStep, UNCHANGED copy,
         NEW q \in Pages, Lost(q)
  PROVE  Lost(q)'
<1>1. copy.main[q] \in Known' BY NumbersGrow DEF Lost
<1>2. CASE \E pages \in (SUBSET Pages) \ {{}} : Begin(pages)
  <2>1. /\ main' = main /\ open'.undo = {} /\ open'.number = begun + 1 /\ begun < MaxTransactions
    BY <1>2 DEF Begin
  <2>2. begun + 1 \notin Known BY <2>1, Bounds DEF Known, StoreInv
  <2>3. QED BY <1>1, <2>1, <2>2 DEF Lost
<1>3. ASSUME NEW p \in Pages, WritePage(p) PROVE Lost(q)'
  <2>1. /\ open # NoTransaction /\ open \in Transaction /\ ~open.back
        /\ main' = [main EXCEPT ![p] = open.number]
        /\ open' = [open EXCEPT !.left = @ \ {p}, !.undo = @ \cup {<<p, main[p]>>}]
    BY <1>3 DEF WritePage, JournalHot, StoreInv
  <2>2. main'[q] = IF q = p THEN open.number ELSE main[q] BY <2>1 DEF StoreInv, IsPages
  <2>3. /\ open'.undo = open.undo \cup {<<p, main[p]>>} /\ open'.number = open.number
    BY <2>1 DEF Transaction
  <2>4. copy.main[q] # open.number BY <2>1 DEF Lost
  <2>5. QED BY <1>1, <2>1, <2>2, <2>3, <2>4 DEF Lost
<1>4. ASSUME NEW p \in Pages, RestorePage(p) PROVE Lost(q)'
  <2>1. PICK v \in Versions :
          /\ <<p, v>> \in open.undo
          /\ main' = [main EXCEPT ![p] = v]
          /\ open' = [open EXCEPT !.back = TRUE, !.undo = @ \ {<<p, v>>}]
    BY <1>4 DEF RestorePage
  <2>2. open # NoTransaction /\ open \in Transaction
    BY <1>4 DEF RestorePage, JournalHot, StoreInv
  <2>3. main'[q] = IF q = p THEN v ELSE main[q] BY <2>1 DEF StoreInv, IsPages
  <2>4. open'.undo \subseteq open.undo /\ open'.number = open.number /\ open'.back
    BY <2>1, <2>2 DEF Transaction
  <2>5. QED BY <1>1, <2>1, <2>2, <2>3, <2>4 DEF Lost
<1>5. CASE Commit \/ Rollback BY <1>1, <1>5 DEF Commit, Rollback, Lost
<1>6. QED BY <1>2, <1>3, <1>4, <1>5 DEF BrowserStep, WriteFrame, Checkpoint, RestartLog

\* Between the steps of the import nothing the copy is compared with moves.
LEMMA OneMomentStays ==
  ASSUME StoreInv, SealedInv, BrowserStep, UNCHANGED <<copy, since>>, OneMoment
  PROVE  OneMoment'
<1>1. PICK i \in since..Len(committed) : committed[i] = Contents(copy.main, copy.log)
  BY DEF OneMoment
<1>2. since \in Nat /\ 1 <= since BY DEF SealedInv
<1>3. /\ Len(committed) \in Nat
      /\ committed' = committed \/ \E contents : committed' = Append(committed, contents)
  <2>1. \E S : committed \in Seq(S) BY DEF StoreInv
  <2>2. Len(committed) \in Nat BY <2>1, Appended
  <2>3. QED
    BY <2>2 DEF BrowserStep, Begin, WritePage, RestorePage, Commit, Rollback, WriteFrame,
                Checkpoint, RestartLog
<1>4. Len(committed') \in Nat /\ Len(committed') >= Len(committed) /\ committed'[i] = committed[i]
  <2>1. \E S : committed \in Seq(S) BY DEF StoreInv
  <2>2. i \in 1..Len(committed) BY <1>1, <1>2, <1>3
  <2>3. QED BY <1>3, <2>1, <2>2, Appended
<1>5. i \in since'..Len(committed') BY <1>1, <1>2, <1>3, <1>4
<1>6. QED BY <1>1, <1>4, <1>5 DEF OneMoment

LEMMA RollBegin ==
  ASSUME IInv, MomentInv, mode = "rollback", NEW pages \in (SUBSET Pages) \ {{}}, Begin(pages),
         UNCHANGED <<takeVars, since, ahead, escape>>
  PROVE  JournalInv' /\ JournalTake'
<1>1. /\ open = NoTransaction /\ begun < MaxTransactions
      /\ open'.undo = {} /\ open'.number = begun + 1
      /\ UNCHANGED <<mode, main, log, committed, pc, at, copy>>
  BY DEF Begin, takeVars
<1>2. begun + 1 \notin Known /\ \A v \in Known : v \in Known'
  <2>1. begun \in Nat BY Bounds DEF IInv, StoreInv
  <2>2. begun' = begun + 1 BY DEF Begin
  <2>3. QED BY <1>1, <2>1, <2>2, Bounds DEF Known
<1>3. Current' = Current BY <1>1 DEF Current
<1>4. /\ log = NoLog /\ copy.log = NoLog /\ IsPages(Current)
      /\ \A p \in Pages : Current[p] \in Known /\ main[p] = Current[p]
  BY <1>1 DEF MomentInv, JournalInv
<1>5. JournalInv'
  <2>1. ASSUME NEW p \in Pages PROVE Untouched(p)' /\ Current'[p] # open'.number /\ main'[p] # open'.number
    BY <1>1, <1>2, <1>3, <1>4 DEF Untouched
  <2>2. \A p \in Pages : Current'[p] \in Known' BY <1>2, <1>3, <1>4
  <2>3. \A p \in Pages : main'[p] = Current'[p] BY <1>1, <1>3, <1>4
  <2>4. log' = NoLog /\ copy'.log = NoLog /\ IsPages(Current') BY <1>1, <1>3, <1>4
  <2> HIDE DEF Known
  <2>5. QED BY <2>1, <2>2, <2>3, <2>4 DEF JournalInv
<1>6. BrowserStep BY DEF BrowserStep
<1>7. \A q \in Pages : (Compared(q)' <=> Compared(q)) /\ (Lost(q) => Lost(q)')
  BY <1>1, <1>6, LostStays DEF IInv, Compared
<1>8. ASSUME FirstRead PROVE FirstRead'
  BY <1>1, <1>3, <1>7, <1>8 DEF FirstRead
<1>9. ASSUME SecondRead PROVE SecondRead'
  <2>1. OneMoment => OneMoment' BY <1>1, <1>6, OneMomentStays DEF IInv, MomentInv
  <2>2. ~Pending BY <1>1 DEF Pending
  <2>3. QED BY <1>7, <1>9, <2>1, <2>2 DEF SecondRead
<1>10. JournalTake' BY <1>1, <1>8, <1>9 DEF MomentInv, JournalTake
<1>11. QED BY <1>5, <1>10

\* A page written or put back: what both steps do to it and what they leave.
LEMMA RollPage ==
  ASSUME IInv, MomentInv, mode = "rollback", NEW p \in Pages, BrowserStep,
         UNCHANGED <<takeVars, since, mode, log, begun, committed>>, WritesAhead(p),
         open # NoTransaction, open' # NoTransaction, open'.number = open.number,
         main'[p] = open.number => Overwritten(p)',
         main'[p] # open.number => Untouched(p)',
         \A q \in Pages : q # p =>
           /\ main'[q] = main[q] /\ (q \in open'.left => q \in open.left)
           /\ \A v \in Versions : <<q, v>> \in open'.undo <=> <<q, v>> \in open.undo
  PROVE  JournalInv' /\ JournalTake'
<1>1. /\ UNCHANGED <<pc, at, copy>> /\ Current' = Current /\ Known' = Known
      /\ ahead => ahead'
      /\ escape => escape'
  BY DEF takeVars, Current, Known, WritesAhead
<1>2. /\ log = NoLog /\ copy.log = NoLog /\ IsPages(Current)
      /\ \A q \in Pages : /\ Current[q] \in Known /\ Current[q] # open.number
                          /\ Untouched(q) \/ Overwritten(q)
                          /\ pc = "main1" /\ q >= at /\ main[q] = open.number => ahead
  BY DEF MomentInv, JournalInv
<1>3. ASSUME NEW q \in Pages PROVE Untouched(q)' \/ Overwritten(q)'
  <2>1. CASE q = p BY <2>1
  <2>2. CASE q # p
    <3>1. Current[q] \in Versions BY <1>2, Bounds DEF Known, IInv, StoreInv
    <3>2. QED BY <1>1, <1>2, <2>2, <3>1 DEF Untouched, Overwritten
  <2>3. QED BY <2>1, <2>2
<1>4. ASSUME NEW q \in Pages, pc = "main1", q >= at, main'[q] = open.number PROVE ahead'
  <2>1. CASE q = p BY <1>4, <2>1 DEF WritesAhead, AheadOfBoth
  <2>2. CASE q # p BY <1>1, <1>2, <1>4, <2>2
  <2>3. QED BY <2>1, <2>2
<1>5. JournalInv'
  <2>1. log' = NoLog /\ copy'.log = NoLog /\ IsPages(Current') BY <1>1, <1>2
  <2>2. \A q \in Pages : Current'[q] \in Known' /\ Current'[q] # open'.number BY <1>1, <1>2
  <2> HIDE DEF Known
  <2>3. QED BY <1>1, <1>3, <1>4, <2>1, <2>2 DEF JournalInv
<1>6. \A q \in Pages : (Compared(q)' <=> Compared(q)) /\ (Lost(q) => Lost(q)')
  BY <1>1, LostStays DEF IInv, Compared
<1>7. ASSUME FirstRead PROVE FirstRead'
  BY <1>1, <1>6, <1>7 DEF FirstRead
<1>8. ASSUME SecondRead, ~escape' PROVE SecondRead'
  <2>1. OneMoment => OneMoment' BY <1>1, OneMomentStays DEF IInv, MomentInv
  <2>2. ASSUME Pending PROVE Pending'
    <3>1. ~BehindBoth(p) BY <1>1, <1>8, <2>2 DEF WritesAhead, Pending
    <3>2. ~Compared(p) BY <3>1 DEF BehindBoth, Compared
    <3>3. \A q \in Pages : Compared(q)' => copy'.main[q] = main'[q]
      BY <1>1, <1>6, <2>2, <3>2 DEF Pending
    <3>4. QED BY <1>1, <2>2, <3>3 DEF Pending
  <2>3. QED BY <1>6, <1>8, <2>1, <2>2 DEF SecondRead
<1>9. JournalTake' BY <1>1, <1>7, <1>8 DEF MomentInv, JournalTake
<1>10. QED BY <1>5, <1>9

LEMMA RollWrite ==
  ASSUME IInv, MomentInv, mode = "rollback", NEW p \in Pages, WritePage(p), WritesAhead(p),
         UNCHANGED <<takeVars, since>>
  PROVE  JournalInv' /\ JournalTake'
<1>1. /\ open # NoTransaction /\ open \in Transaction /\ open.left # {} /\ p = Min(open.left)
      /\ main' = [main EXCEPT ![p] = open.number]
      /\ open' = [open EXCEPT !.left = @ \ {p}, !.undo = @ \cup {<<p, main[p]>>}]
      /\ UNCHANGED <<mode, log, begun, committed>>
  BY DEF WritePage, JournalHot, IInv, StoreInv
<1>2. p \in open.left
  <2>1. open.left \subseteq Nat BY <1>1, PagesFromOne DEF Transaction
  <2>2. QED BY <1>1, <2>1, MinOfNumbers
<1>3. /\ open' \in Transaction
      /\ open'.number = open.number /\ open'.left = open.left \ {p}
      /\ open'.undo = open.undo \cup {<<p, main[p]>>}
  <2>1. main[p] \in Known BY DEF IInv, StoreInv
  <2>2. Known \subseteq Versions BY Bounds DEF Known, IInv, StoreInv
  <2>3. <<p, main[p]>> \in Pages \X Versions BY <2>1, <2>2
  <2>4. QED BY <1>1, <2>3 DEF Transaction
<1>4. open' # NoTransaction BY <1>3, NoTransactionAssumption DEF Transaction
<1>5. \A q \in Pages : main'[q] = IF q = p THEN open.number ELSE main[q]
  BY <1>1 DEF IInv, StoreInv, IsPages
<1>6. Untouched(p) /\ Current' = Current
  BY <1>1, <1>2 DEF MomentInv, JournalInv, Overwritten, Current
<1>7. Overwritten(p)' BY <1>3, <1>5, <1>6 DEF Overwritten, Untouched
<1>8. BrowserStep BY DEF BrowserStep
<1>9. QED BY <1>1, <1>3, <1>4, <1>5, <1>7, <1>8, RollPage

LEMMA RollRestore ==
  ASSUME IInv, MomentInv, mode = "rollback", NEW p \in Pages, RestorePage(p), WritesAhead(p),
         UNCHANGED <<takeVars, since>>
  PROVE  JournalInv' /\ JournalTake'
<1>1. PICK v \in Versions :
        /\ <<p, v>> \in open.undo
        /\ main' = [main EXCEPT ![p] = v]
        /\ open' = [open EXCEPT !.back = TRUE, !.undo = @ \ {<<p, v>>}]
  BY DEF RestorePage
<1>2. /\ open # NoTransaction /\ open \in Transaction /\ UNCHANGED <<mode, log, begun, committed>>
  BY DEF RestorePage, JournalHot, IInv, StoreInv
<1>3. /\ open' \in Transaction
      /\ open'.number = open.number /\ open'.left = open.left
      /\ open'.undo = open.undo \ {<<p, v>>}
  BY <1>1, <1>2 DEF Transaction
<1>4. open' # NoTransaction BY <1>3, NoTransactionAssumption DEF Transaction
<1>5. \A q \in Pages : main'[q] = IF q = p THEN v ELSE main[q]
  BY <1>1 DEF IInv, StoreInv, IsPages
<1>6. Overwritten(p) /\ Current' = Current /\ Current[p] # open.number
  BY <1>1, <1>2 DEF MomentInv, JournalInv, Untouched, Current
<1>7. v = Current[p] BY <1>1, <1>6 DEF Overwritten
<1>8. Untouched(p)'
  <2>1. main'[p] = Current'[p] BY <1>5, <1>6, <1>7
  <2>2. \A u \in Versions : <<p, u>> \notin open'.undo BY <1>3, <1>6, <1>7 DEF Overwritten
  <2>3. QED BY <2>1, <2>2 DEF Untouched
<1>9. BrowserStep BY DEF BrowserStep
<1>10. main'[p] # open.number BY <1>5, <1>6, <1>7
<1>11. QED BY <1>2, <1>3, <1>4, <1>5, <1>8, <1>9, <1>10, RollPage

LEMMA RollClose ==
  ASSUME IInv, MomentInv, mode = "rollback", Commit \/ Rollback,
         UNCHANGED <<takeVars, since, escape>>
  PROVE  JournalInv' /\ JournalTake'
<1>1. /\ open # NoTransaction /\ open' = NoTransaction
      /\ UNCHANGED <<mode, main, log, begun, pc, at, copy, since, escape>>
  BY DEF Commit, Rollback, JournalHot, takeVars
<1>2. Known' = Known BY <1>1 DEF Known
<1>3. /\ log = NoLog /\ copy.log = NoLog /\ IsPages(Current) /\ open.number = begun
      /\ \A q \in Pages : /\ Current[q] \in Known /\ Current[q] # open.number
                          /\ Untouched(q) \/ Overwritten(q)
  BY <1>1 DEF MomentInv, JournalInv, IInv, StoreInv
<1>4. \E S : committed \in Seq(S) BY DEF IInv, StoreInv
<1>5. /\ IsPages(Current') /\ \A q \in Pages : Current'[q] = main[q]
      /\ Len(committed') \in Nat /\ Len(committed') >= Len(committed)
  <2>1. CASE Commit
    <3>1. committed' = Append(committed, main) BY <2>1 DEF Commit
    <3>2. Current' = main /\ Len(committed) \in Nat /\ Len(committed') = Len(committed) + 1
      BY <1>4, <3>1, Appended DEF Current
    <3>3. QED BY <3>2 DEF IInv, StoreInv
  <2>2. CASE Rollback
    <3>1. committed' = committed /\ open.undo = {} BY <1>1, <2>2 DEF Rollback
    <3>2. \A q \in Pages : Untouched(q) BY <1>3, <3>1 DEF Overwritten
    <3>3. Current' = Current BY <3>1 DEF Current
    <3>4. Len(committed) \in Nat BY <1>4, Appended
    <3>5. QED BY <1>3, <3>1, <3>2, <3>3, <3>4 DEF Untouched
  <2>3. QED BY <2>1, <2>2
<1>6. JournalInv'
  <2>1. \A q \in Pages : Current'[q] \in Known' BY <1>2, <1>5 DEF IInv, StoreInv
  <2>2. log' = NoLog /\ copy'.log = NoLog BY <1>1, <1>3
  <2>3. \A q \in Pages : main'[q] = Current'[q] BY <1>1, <1>5
  <2> HIDE DEF Known
  <2>4. QED BY <1>1, <1>5, <2>1, <2>2, <2>3 DEF JournalInv
<1>7. BrowserStep BY DEF BrowserStep
<1>8. \A q \in Pages : (Compared(q)' <=> Compared(q)) /\ (Lost(q) => Lost(q)')
  BY <1>1, <1>7, LostStays DEF IInv, Compared
\* What the transaction has left in the store now is not what was copied.
<1>9. ASSUME NEW q \in Pages, copy.main[q] \in {Current[q], open.number}, copy.main[q] # main[q]
      PROVE  Lost(q)'
  <2>1. open.number \in Known /\ Current[q] \in Known
    <3>1. begun \in Nat BY Bounds DEF IInv, StoreInv
    <3>2. QED BY <1>3, <3>1 DEF Known
  <2>2. copy'.main[q] \in Known' BY <1>1, <1>2, <1>9, <2>1
  <2>3. QED BY <1>1, <1>9, <2>2 DEF Lost
<1>10. ASSUME FirstRead PROVE FirstRead'
  <2>1. CASE \E q \in Pages : q < at /\ Lost(q) BY <1>1, <1>8, <2>1 DEF FirstRead
  <2>2. CASE \A q \in Pages : q < at => copy.main[q] \in {Current[q], open.number}
    BY <1>1, <1>5, <1>9, <2>2 DEF FirstRead
  <2>3. QED BY <1>10, <2>1, <2>2 DEF FirstRead
<1>11. ASSUME SecondRead PROVE SecondRead'
  <2>1. CASE OneMoment BY <1>1, <1>7, <2>1, OneMomentStays DEF IInv, MomentInv, SecondRead
  <2>2. CASE \E q \in Pages : ~Compared(q) /\ Lost(q) BY <1>8, <2>2 DEF SecondRead
  <2>3. CASE Pending /\ \E q \in Pages : copy.main[q] # main[q]
    <3>1. PICK q \in Pages : copy.main[q] # main[q] BY <2>3
    <3>2. ~Compared(q) /\ copy.main[q] \in {Current[q], open.number} BY <2>3, <3>1 DEF Pending
    <3>3. QED BY <1>8, <1>9, <3>1, <3>2 DEF SecondRead
  <2>4. CASE \A q \in Pages : copy.main[q] = main[q]
    <3>1. IsPages(copy.main) BY DEF IInv, TakeInv
    <3>2. copy.main = Current' BY <1>5, <2>4, <3>1 DEF IsPages
    <3>3. Contents(copy'.main, copy'.log) = Current' BY <1>1, <1>3, <3>1, <3>2, EmptyLog
    <3>4. Len(committed') \in since'..Len(committed')
      <4>1. since \in Nat /\ since <= Len(committed) BY DEF MomentInv, SealedInv
      <4>2. Len(committed) \in Nat BY <1>4, Appended
      <4>3. QED BY <1>1, <1>5, <4>1, <4>2
    <3>5. QED BY <3>3, <3>4 DEF SecondRead, OneMoment, Current
  <2>5. QED BY <1>11, <2>1, <2>2, <2>3, <2>4 DEF SecondRead
<1>12. JournalTake' BY <1>1, <1>10, <1>11 DEF MomentInv, JournalTake
<1>13. QED BY <1>6, <1>12


-----------------------------------------------------------------------------
(* Rollback mode: the import *)

LEMMA JournalRead ==
  ASSUME MomentInv, UNCHANGED sourceVars, mode = "rollback" => copy'.log = NoLog,
         mode = "rollback" /\ pc' = "main1" =>
           open = NoTransaction \/ (pc = "main1" /\ at' \in Pages /\ at' >= at /\ at \in Pages /\ ahead' = ahead)
  PROVE  JournalInv'
<1> SUFFICES ASSUME mode = "rollback" PROVE JournalInv'
  BY DEF JournalInv, sourceVars
<1>1. UNCHANGED <<mode, main, log, open, begun, committed>> BY DEF sourceVars
<1>2. Current' = Current /\ Known' = Known BY <1>1 DEF Current, Known
<1>3. \A p \in Pages : (Untouched(p)' <=> Untouched(p)) /\ (Overwritten(p)' <=> Overwritten(p))
  BY <1>1, <1>2 DEF Untouched, Overwritten
<1>4. ASSUME NEW p \in Pages, open # NoTransaction, pc' = "main1", p >= at', main[p] = open.number
      PROVE  ahead'
  <2>1. p >= at BY <1>4, PagesFromOne
  <2>2. QED BY <1>4, <2>1 DEF MomentInv, JournalInv
<1>5. /\ log = NoLog /\ IsPages(Current) /\ \A p \in Pages : Current[p] \in Known
      /\ open = NoTransaction => \A p \in Pages : main[p] = Current[p]
      /\ open # NoTransaction =>
           \A p \in Pages : Current[p] # open.number /\ (Untouched(p) \/ Overwritten(p))
  BY DEF MomentInv, JournalInv
<1> HIDE DEF Known
<1>6. QED BY <1>1, <1>2, <1>3, <1>4, <1>5 DEF JournalInv

\* Nothing is compared that the store or the copy could have changed.
LEMMA LostSame ==
  ASSUME UNCHANGED sourceVars, NEW q \in Pages, copy'.main[q] = copy.main[q]
  PROVE  Lost(q)' <=> Lost(q)
  BY DEF sourceVars, Lost, Known

LEMMA OneMomentSame ==
  ASSUME UNCHANGED <<sourceVars, since>>, copy'.main = copy.main, copy'.log = copy.log
  PROVE  OneMoment' <=> OneMoment
<1>1. committed' = committed /\ since' = since BY DEF sourceVars
<1>2. Contents(copy'.main, copy'.log) = Contents(copy.main, copy.log) OBVIOUS
<1>3. QED BY <1>1, <1>2 DEF OneMoment

LEMMA CurrentIsOneMoment ==
  ASSUME MomentInv, \E S : committed \in Seq(S), UNCHANGED <<sourceVars, since>>,
         Contents(copy'.main, copy'.log) = Current
  PROVE  OneMoment'
<1>1. Len(committed) \in since..Len(committed)
  <2>1. Len(committed) \in Nat BY Appended
  <2>2. QED BY <2>1 DEF MomentInv, SealedInv
<1>2. committed' = committed /\ since' = since BY DEF sourceVars
<1>3. QED BY <1>1, <1>2 DEF OneMoment, Current

LEMMA JournalReadMain ==
  ASSUME IInv, MomentInv, mode = "rollback", ReadMain PROVE JournalInv' /\ JournalTake'
<1>1. /\ pc = "main1" /\ at \in Pages
      /\ UNCHANGED <<sourceVars, since, ahead, escape>>
      /\ main' = main /\ open' = open
      /\ copy' = [copy EXCEPT !.main[at] = main[at]]
      /\ \/ at < LastPage /\ at' = at + 1 /\ pc' = pc
         \/ ~(at < LastPage) /\ at' = 1 /\ pc' = "wal1"
  BY DEF ReadMain, Goto, IInv, TakeInv, historyVars, sourceVars
<1>2. copy' = [main |-> [copy.main EXCEPT ![at] = main[at]], log |-> copy.log]
  BY <1>1 DEF IInv, TakeInv
<1>3. /\ IsPages(copy'.main) /\ copy'.log = copy.log
      /\ \A p \in Pages : copy'.main[p] = IF p = at THEN main[at] ELSE copy.main[p]
  BY <1>1, <1>2 DEF IInv, TakeInv, IsPages
<1>4. JournalInv'
  <2>1. copy'.log = NoLog BY <1>3 DEF MomentInv, JournalInv
  <2>2. pc' = "main1" => at' \in Pages /\ at' >= at BY <1>1, PagesFromOne
  <2>3. QED BY <1>1, <2>1, <2>2, JournalRead
<1>5. Current' = Current BY <1>1 DEF Current, sourceVars
\* What is read now is committed, or written by a transaction ahead of the read.
<1>6. main[at] = Current[at] \/ (open # NoTransaction /\ ahead /\ main[at] = open.number)
  <2>1. CASE open = NoTransaction BY <1>1, <2>1 DEF MomentInv, JournalInv
  <2>2. CASE open # NoTransaction
    <3>1. at >= at BY <1>1, PagesFromOne
    <3>2. Untouched(at) \/ Overwritten(at) BY <1>1, <2>2 DEF MomentInv, JournalInv
    <3>3. main[at] = open.number => ahead BY <1>1, <2>2, <3>1 DEF MomentInv, JournalInv
    <3>4. QED BY <2>2, <3>2, <3>3 DEF Untouched, Overwritten
  <2>3. QED BY <2>1, <2>2
<1>7. ASSUME ~escape
      PROVE  \/ \E q \in Pages : q < at /\ q # at /\ Lost(q)'
             \/ \A q \in Pages : q <= at =>
                  \/ copy'.main[q] = Current'[q]
                  \/ open' # NoTransaction /\ ahead' /\ copy'.main[q] = open'.number
  <2>1. FirstRead BY <1>1, <1>7 DEF MomentInv, JournalTake
  <2>2. CASE \E q \in Pages : q < at /\ Lost(q)
    <3>1. PICK q \in Pages : q < at /\ Lost(q) BY <2>2
    <3>2. q # at BY <3>1, PagesFromOne
    <3>3. Lost(q)' BY <1>1, <1>3, <3>1, <3>2, LostSame
    <3>4. QED BY <3>1, <3>2, <3>3
  <2>3. CASE \A q \in Pages : q < at =>
               copy.main[q] = Current[q] \/ (open # NoTransaction /\ ahead /\ copy.main[q] = open.number)
    <3>1. \A q \in Pages : q <= at => q < at \/ q = at BY <1>1, PagesFromOne
    <3>2. QED BY <1>1, <1>3, <1>5, <1>6, <2>3, <3>1
  <2>4. QED BY <2>1, <2>2, <2>3 DEF FirstRead
<1>8. JournalTake'
  <2> SUFFICES ASSUME ~escape PROVE (pc' = "main1" => FirstRead') /\ (pc' = "wal1" => SecondRead')
    BY <1>1 DEF JournalTake
  <2>1. CASE pc' = "main1"
    <3>1. at' = at + 1 BY <1>1, <2>1
    <3>2. \A q \in Pages : (q < at => q < at') /\ (q < at' => q <= at) BY <1>1, <3>1, PagesFromOne
    <3>3. QED BY <1>7, <2>1, <3>2 DEF FirstRead
  <2>2. CASE pc' = "wal1"
    <3>1. \A q \in Pages : q <= at BY <1>1, <2>2, PagesFromOne
    <3>2. \A q \in Pages : ~Compared(q)' BY <2>2 DEF Compared
    <3>3. CASE \E q \in Pages : Lost(q)' BY <2>2, <3>2, <3>3 DEF SecondRead
    <3>4. CASE open' # NoTransaction /\ ahead' /\ ~ \E q \in Pages : Lost(q)'
      BY <1>7, <2>2, <3>1, <3>2, <3>4 DEF SecondRead, Pending
    <3>5. CASE ~(open' # NoTransaction /\ ahead') /\ ~ \E q \in Pages : Lost(q)'
      <4>1. \A q \in Pages : copy'.main[q] = Current'[q] BY <1>7, <3>1, <3>5
      <4>2. copy'.main = Current
        <5>1. IsPages(Current) BY DEF MomentInv, JournalInv
        <5>2. QED BY <1>3, <1>5, <4>1, <5>1 DEF IsPages
      <4>3. copy'.log = NoLog BY <1>3 DEF MomentInv, JournalInv
      <4>4. Contents(copy'.main, copy'.log) = Current BY <1>3, <4>2, <4>3, EmptyLog
      <4>5. OneMoment' BY <1>1, <4>4, CurrentIsOneMoment DEF IInv, StoreInv
      <4>6. QED BY <2>2, <4>5 DEF SecondRead
    <3>6. QED BY <3>3, <3>4, <3>5
  <2>3. QED BY <1>1, <2>1, <2>2
<1>9. QED BY <1>4, <1>8

\* A step that goes on to pages that are as they were copied keeps what is
\* known of the second read.
LEMMA SecondReadKept ==
  ASSUME IInv, MomentInv, UNCHANGED <<sourceVars, copy, since, ahead>>,
         \A q \in Pages : Compared(q)' => Compared(q) \/ copy.main[q] = main[q],
         SecondRead
  PROVE  SecondRead'
<1>1. main' = main /\ open' = open BY DEF sourceVars
<1>2. CASE OneMoment BY <1>2, OneMomentSame DEF SecondRead
<1>3. CASE \E q \in Pages : ~Compared(q) /\ Lost(q)
  <2>1. PICK q \in Pages : ~Compared(q) /\ Lost(q) BY <1>3
  <2>2. ~Compared(q)' /\ Lost(q)'
    <3>1. copy.main[q] # main[q] BY <2>1 DEF Lost
    <3>2. QED BY <2>1, <3>1, LostSame
  <2>3. QED BY <2>2 DEF SecondRead
<1>4. CASE Pending
  <2>1. Current' = Current BY DEF Current, sourceVars
  <2>2. Pending' BY <1>1, <1>4, <2>1 DEF Pending
  <2>3. QED BY <2>2 DEF SecondRead
<1>5. QED BY <1>2, <1>3, <1>4 DEF SecondRead

LEMMA JournalReader ==
  ASSUME IInv, MomentInv, mode = "rollback", Reader
  PROVE  JournalInv' /\ JournalTake' /\ (Accepted' /\ ~escape' => OneMoment')
<1>1. copy.log = NoLog /\ log = NoLog /\ Len(NoLog.frames) = 0 /\ DOMAIN NoLog.frames = {}
  BY DEF MomentInv, JournalInv, NoLog
<1>2. ASSUME UNCHANGED sourceVars, copy'.log = NoLog,
             pc' \in {"check1", "fpMain", "fpWal", "fpJournal"} \cup Refusals
      PROVE  JournalInv' /\ JournalTake' /\ (Accepted' /\ ~escape' => OneMoment')
  <2>1. JournalInv' BY <1>2, JournalRead DEF Refusals
  <2>2. JournalTake' /\ ~Accepted' BY <1>2 DEF JournalTake, Accepted, Refusals
  <2>3. QED BY <2>1, <2>2
<1>3. CASE FirstJournalCheck
  <2>1. /\ UNCHANGED <<sourceVars, copy, since, ahead, escape>> /\ at' = 1
        /\ \/ pc' = "fpMain"
           \/ pc' = "main1" /\ open = NoTransaction
    BY <1>3 DEF FirstJournalCheck, Goto, JournalHot, historyVars
  <2>2. CASE pc' = "fpMain" BY <1>1, <1>2, <2>1, <2>2
  <2>3. CASE pc' = "main1" /\ open = NoTransaction
    <3>1. JournalInv' BY <1>1, <2>1, <2>3, JournalRead
    <3>2. \A q \in Pages : ~(q < at') BY <2>1, PagesFromOne
    <3>3. FirstRead' BY <3>2 DEF FirstRead
    <3>4. QED BY <2>3, <3>1, <3>3 DEF JournalTake, Accepted
  <2>4. QED BY <2>1, <2>2, <2>3
<1>4. CASE ReadMain
  <2>1. CASE mode = "absent" BY <2>1
  <2>2. pc' \in {"main1", "wal1"} BY <1>4 DEF ReadMain, Goto
  <2>3. ~Accepted' BY <2>2 DEF Accepted
  <2>4. QED BY <1>4, <2>3, JournalReadMain
<1>5. CASE ReadLog
  <2>1. pc = "wal1" /\ UNCHANGED <<sourceVars, since, ahead, escape>>
    BY <1>5 DEF ReadLog, historyVars
  <2>2. copy'.main = copy.main /\ copy'.log = NoLog /\ pc' \in {"wal1", "main2"} /\ (pc' = "main2" => at' = 1)
    <3>1. CASE at = 1
      <4>1. copy' = [copy EXCEPT !.log = [salt |-> log.salt, frames |-> <<>>]] /\ pc' = pc
        BY <1>5, <3>1 DEF ReadLog
      <4>2. copy' = [main |-> copy.main, log |-> [salt |-> log.salt, frames |-> <<>>]]
        BY <4>1 DEF IInv, TakeInv
      <4>3. QED BY <1>1, <2>1, <4>1, <4>2 DEF NoLog
    <3>2. CASE at # 1
      <4>1. copy' = copy /\ pc' = "main2" /\ at' = 1 BY <1>1, <1>5, <3>2 DEF ReadLog, Goto
      <4>2. QED BY <1>1, <4>1
    <3>3. QED BY <3>1, <3>2
  <2>3. copy' = copy
    <3>1. copy'.log = copy.log BY <1>1, <2>2
    <3>2. copy' = [main |-> copy'.main, log |-> copy'.log]
      BY <1>5, ReadLogKeeps DEF IInv, TakeInv
    <3>3. QED BY <2>2, <3>1, <3>2 DEF IInv, TakeInv
  <2>4. JournalInv' BY <1>1, <2>1, <2>2, JournalRead
  <2>5. \A q \in Pages : ~Compared(q)'
    <3>1. \A q \in Pages : ~(q < 1) BY PagesFromOne
    <3>2. QED BY <2>2, <3>1 DEF Compared
  <2>6. SecondRead => SecondRead' BY <2>1, <2>3, <2>5, SecondReadKept
  <2>7. ~escape => SecondRead BY <2>1 DEF MomentInv, JournalTake
  <2>8. QED BY <2>1, <2>2, <2>4, <2>6, <2>7 DEF JournalTake, Accepted
<1>6. CASE CompareMain
  <2>1. pc = "main2" /\ at \in Pages /\ UNCHANGED <<sourceVars, copy>>
    BY <1>6 DEF CompareMain, IInv, TakeInv
  <2>2. CASE main[at] # copy.main[at]
    <3>1. pc' \in {"check1", "Busy", "Interrupted"} BY <1>6, <2>2 DEF CompareMain, NextAttempt, Goto
    <3>2. QED BY <1>1, <1>2, <2>1, <3>1 DEF Refusals
  <2>3. CASE main[at] = copy.main[at]
    <3>1. /\ UNCHANGED <<since, ahead, escape>>
          /\ \/ at < LastPage /\ at' = at + 1 /\ pc' = pc
             \/ ~(at < LastPage) /\ at' = 1 /\ pc' = "wal2"
      BY <1>6, <2>3 DEF CompareMain, Goto, historyVars
    <3>2. \A q \in Pages : Compared(q)' => Compared(q) \/ copy.main[q] = main[q]
      <4>1. SUFFICES ASSUME NEW q \in Pages, Compared(q)', ~Compared(q) PROVE q = at
        BY <2>3
      <4>2. ~(q < at) BY <2>1, <4>1 DEF Compared
      <4>3. q <= at BY <2>1, <3>1, <4>1, PagesFromOne DEF Compared
      <4>4. QED BY <2>1, <4>2, <4>3, PagesFromOne
    <3>3. SecondRead => SecondRead' BY <2>1, <3>1, <3>2, SecondReadKept
    <3>4. ~escape => SecondRead BY <2>1 DEF MomentInv, JournalTake
    <3>5. JournalInv' BY <1>1, <2>1, <3>1, JournalRead
    <3>6. QED BY <2>1, <3>1, <3>3, <3>4, <3>5 DEF JournalTake, Accepted
  <2>4. QED BY <2>2, <2>3
<1>7. CASE CompareLog
  <2>1. pc = "wal2" /\ UNCHANGED <<sourceVars, copy>> BY <1>7 DEF CompareLog
  <2>2. \/ pc' \in {"check1", "Busy", "Interrupted"}
        \/ UNCHANGED <<since, ahead, escape>> /\ pc' \in {"wal2", "check2"}
    BY <1>7 DEF CompareLog, NextAttempt, Goto, historyVars
  <2>3. CASE pc' \in {"check1", "Busy", "Interrupted"} BY <1>1, <1>2, <2>1, <2>3 DEF Refusals
  <2>4. CASE UNCHANGED <<since, ahead, escape>> /\ pc' \in {"wal2", "check2"}
    <3>1. \A q \in Pages : Compared(q)' => Compared(q) BY <2>1 DEF Compared
    <3>2. SecondRead => SecondRead' BY <2>1, <2>4, <3>1, SecondReadKept
    <3>3. ~escape => SecondRead BY <2>1 DEF MomentInv, JournalTake
    <3>4. JournalInv' BY <1>1, <2>1, <2>4, JournalRead
    <3>5. QED BY <2>4, <3>2, <3>3, <3>4 DEF JournalTake, Accepted
  <2>5. QED BY <2>2, <2>3, <2>4
<1>8. CASE LastJournalCheck
  <2>1. /\ pc = "check2" /\ UNCHANGED <<sourceVars, copy, since, escape>>
        /\ \/ pc' = "fpMain"
           \/ pc' = "scan" /\ open = NoTransaction
    BY <1>8 DEF LastJournalCheck, Goto, JournalHot, historyVars
  <2>2. CASE pc' = "fpMain" BY <1>1, <1>2, <2>1, <2>2
  <2>3. CASE pc' = "scan" /\ open = NoTransaction
    <3>1. JournalInv' BY <1>1, <2>1, <2>3, JournalRead
    <3>2. ~escape => SecondRead BY <2>1 DEF MomentInv, JournalTake
    <3>3. ~escape => OneMoment BY <2>1, <2>3, <3>2 DEF SecondRead, Pending, Compared
    <3>4. OneMoment => OneMoment' BY <2>1, OneMomentSame
    <3>5. QED BY <2>1, <2>3, <3>1, <3>3, <3>4 DEF JournalTake
  <2>4. QED BY <2>1, <2>2, <2>3
<1>9. CASE FingerprintMain \/ FingerprintLog \/ FingerprintJournal \/ ReadFails
  <2>1. /\ UNCHANGED <<sourceVars, copy>>
        /\ pc' \in {"fpWal", "fpJournal", "check1", "Busy", "Interrupted", "Io"}
    BY <1>9 DEF FingerprintMain, FingerprintLog, FingerprintJournal, ReadFails, NextAttempt, Goto
  <2>2. QED BY <1>1, <1>2, <2>1 DEF Refusals
<1>10. CASE ScanPage
  <2>1. /\ pc = "scan" /\ UNCHANGED <<sourceVars, copy, since, escape>>
        /\ pc' \in {"scan", "Read", "Unreadable"}
    BY <1>10 DEF ScanPage, Goto, historyVars
  <2>2. JournalInv' BY <1>1, <2>1, JournalRead
  <2>3. ~escape => OneMoment BY <2>1 DEF MomentInv, SealedInv, Accepted
  <2>4. OneMoment => OneMoment' BY <2>1, OneMomentSame
  <2>5. QED BY <2>1, <2>2, <2>3, <2>4 DEF JournalTake
<1>11. QED BY <1>3, <1>4, <1>5, <1>6, <1>7, <1>8, <1>9, <1>10 DEF Reader


-----------------------------------------------------------------------------
(* Write-ahead-log mode: the browser *)

\* What every step of the browser does to the parts of the store, in the terms
\* of what was copied of them.
LogStep ==
  /\ \A p \in Pages : main'[p] = main[p] \/ main'[p] = Current[p]
  /\ \A p \in Pages : \/ Current'[p] = Current[p]
                      \/ open # NoTransaction /\ Current'[p] = open.number
  /\ log'.salt >= log.salt
  /\ Len(log'.frames) >= Len(log.frames)
  /\ \A i \in 1..Len(log.frames) :
       \/ log'.frames[i] = log.frames[i]
       \/ /\ open # NoTransaction /\ log'.frames[i].version = open.number
          /\ <<log'.frames[i].page, 0>> \notin open.undo
  /\ \A f : Past(f) => Past(f)'
  /\ \A v : PastVersion(v) => PastVersion(v)'

LEMMA LogFacts ==
  ASSUME IInv
  PROVE  /\ log \in Log /\ log.frames \in Seq(Frame) /\ log.salt \in Nat /\ Len(log.frames) \in Nat
         /\ DOMAIN log.frames = 1..Len(log.frames) /\ \A i \in 1..Len(log.frames) : log.frames[i] \in Frame
         /\ Committed(log) \in Nat /\ Committed(log) <= Len(log.frames)
         /\ \A i \in 1..Committed(log) : log.frames[i].salt = log.salt
         /\ \E S : committed \in Seq(S)
         /\ begun \in Nat
<1>1. log \in Log /\ (\E S : committed \in Seq(S)) /\ begun \in Nat BY Bounds DEF IInv, StoreInv
<1>2. log.frames \in Seq(Frame) /\ log.salt \in Nat BY <1>1 DEF Log
<1>3. /\ Len(log.frames) \in Nat /\ DOMAIN log.frames = 1..Len(log.frames)
      /\ \A i \in 1..Len(log.frames) : log.frames[i] \in Frame
  BY <1>2, LenProperties, ElementOfSeq
<1>4. /\ Committed(log) \in 0..Len(log.frames)
      /\ Committed(log) = 0 \/ Committed(log) \in CommitFrames(log)
  BY <1>1, CommittedIs
<1>5. \A i \in 1..Committed(log) : log.frames[i].salt = log.salt BY <1>4 DEF CommitFrames
<1>6. QED BY <1>1, <1>2, <1>3, <1>4, <1>5

LEMMA WalBegin ==
  ASSUME IInv, LogInv, mode = "wal", NEW pages \in (SUBSET Pages) \ {{}}, Begin(pages)
  PROVE  LogInv' /\ LogStep
<1>1. /\ open = NoTransaction /\ begun < MaxTransactions /\ begun' = begun + 1
      /\ open' = [number |-> begun + 1, left |-> pages, undo |-> {}, back |-> FALSE]
      /\ UNCHANGED <<mode, main, log, committed>>
  BY DEF Begin
<1>2. open'.number = begun' /\ open'.left = pages /\ open'.undo = {} BY <1>1
<1>3. begun \in Nat BY LogFacts
<1>4. Current' = Current BY <1>1 DEF Current
<1>5. ASSUME NEW f, Past(f) PROVE Past(f)'
  BY <1>1, <1>2, <1>3, <1>5 DEF Past
<1>6. ASSUME NEW v, PastVersion(v) PROVE PastVersion(v)'
  <2>1. v \in Known /\ v \in Known' /\ v # begun + 1 BY <1>1, <1>3, <1>6, Bounds DEF PastVersion, Known
  <2>2. QED BY <1>1, <1>2, <2>1 DEF PastVersion
<1>7. IsFiniteSet({}) /\ Cardinality({}) = 0 BY FS_EmptySet
<1>8. /\ Committed(log) + 0 <= Len(log.frames)
      /\ \A i \in 1..(Committed(log) + 0) : log.frames[i].salt = log.salt /\ ~(i > Committed(log))
  <2>1. Committed(log) + 0 = Committed(log) BY LogFacts
  <2>2. QED BY <2>1, LogFacts
<1>9. LogStep
  <2>1. log.salt >= log.salt /\ Len(log.frames) >= Len(log.frames) BY LogFacts
  <2> HIDE DEF Past, PastVersion
  <2>2. QED BY <1>1, <1>4, <1>5, <1>6, <2>1 DEF LogStep
<1>10. LogInv'
  <2>1. /\ Current = Contents(main, log)
        /\ \A p \in Pages : PastVersion(main[p]) /\ PastVersion(Current[p])
        /\ \A i \in 1..Len(log.frames) :
             /\ log.frames[i].salt <= log.salt
             /\ Past(log.frames[i])
             /\ i > Committed(log) /\ log.frames[i].salt = log.salt => ~log.frames[i].commit
    BY DEF LogInv
  <2>2. \A p \in Pages : PastVersion(main[p])' /\ PastVersion(Current[p])' BY <1>1, <1>4, <1>6, <2>1
  <2>3. \A i \in 1..Len(log.frames) : Past(log.frames[i])' BY <1>1, <1>5, <2>1
  <2>4. \A p \in open'.left : <<p, 0>> \notin open'.undo BY <1>2
  <2>5. open'.left # {} BY <1>2
  <2> DEFINE card == Cardinality(open'.undo)
  <2>6. card = 0 /\ IsFiniteSet(open'.undo) BY <1>2, <1>7
  <2> HIDE DEF card
  <2>7. /\ Committed(log) + card <= Len(log.frames)
        /\ \A i \in 1..(Committed(log) + card) :
             log.frames[i].salt = log.salt /\ (i > Committed(log) => log.frames[i].version = open'.number)
    BY <1>8, <2>6
  <2> USE DEF card
  <2>8. QED BY <1>1, <1>2, <1>4, <2>1, <2>2, <2>3, <2>4, <2>5, <2>6, <2>7 DEF LogInv
<1>11. QED BY <1>9, <1>10

LEMMA WalRollback ==
  ASSUME IInv, LogInv, mode = "wal", Rollback PROVE LogInv' /\ LogStep
<1>1. open' = NoTransaction /\ UNCHANGED <<mode, main, log, begun, committed>> BY DEF Rollback
<1>2. Current' = Current /\ Known' = Known BY <1>1 DEF Current, Known
<1>3. \A f : Past(f) => Past(f)' BY <1>1 DEF Past
<1>4. \A v : PastVersion(v) => PastVersion(v)' BY <1>1, <1>2 DEF PastVersion
<1>5. log.salt >= log.salt /\ Len(log.frames) >= Len(log.frames) BY LogFacts
<1>6. LogStep BY <1>1, <1>2, <1>3, <1>4, <1>5 DEF LogStep
<1>7. LogInv' BY <1>1, <1>2, <1>3, <1>4 DEF LogInv
<1>8. QED BY <1>6, <1>7

LEMMA WalCheckpoint ==
  ASSUME IInv, LogInv, mode = "wal", NEW p \in Pages, Checkpoint(p) PROVE LogInv' /\ LogStep
<1>1. /\ main' = [main EXCEPT ![p] = PageOf(main, log, p)]
      /\ UNCHANGED <<mode, log, open, begun, committed>>
  BY DEF Checkpoint
<1>2. Current' = Current /\ Known' = Known BY <1>1 DEF Current, Known
<1>3. \A f : Past(f)' <=> Past(f) BY <1>1 DEF Past
<1>4. \A v : PastVersion(v)' <=> PastVersion(v) BY <1>1, <1>2 DEF PastVersion
<1>5. /\ Current = Contents(main, log)
      /\ \A q \in Pages : PastVersion(main[q]) /\ PastVersion(Current[q]) /\ Current[q] = PageOf(main, log, q)
  BY DEF LogInv, Contents
<1>6. \A q \in Pages : main'[q] = IF q = p THEN Current[p] ELSE main[q]
  BY <1>1, <1>5 DEF IInv, StoreInv, IsPages
<1>7. ASSUME NEW q \in Pages PROVE PageOf(main', log, q) = PageOf(main, log, q)
  <2>1. log \in Log BY LogFacts
  <2>2. CASE \A i \in 1..Committed(log) : log.frames[i].page # q
    <3>1. PageOf(main', log, q) = main'[q] BY <2>1, <2>2, ImageOf
    <3>2. PageOf(main, log, q) = main[q] BY <2>1, <2>2, ImageOf
    <3>3. QED BY <1>5, <1>6, <3>1, <3>2
  <2>3. CASE \E i \in 1..Committed(log) : log.frames[i].page = q
    <3> DEFINE images == {i \in 1..Committed(log) : log.frames[i].page = q}
    <3>1. images # {} BY <2>3
    <3>2. /\ PageOf(main, log, q) = IF images = {} THEN main[q] ELSE log.frames[Max(images)].version
          /\ PageOf(main', log, q) = IF images = {} THEN main'[q] ELSE log.frames[Max(images)].version
      BY DEF PageOf
    <3>3. QED BY <3>1, <3>2
  <2>4. QED BY <2>2, <2>3
<1>8. Contents(main', log') = Contents(main, log) BY <1>1, <1>7 DEF Contents
<1>9. log.salt >= log.salt /\ Len(log.frames) >= Len(log.frames) BY LogFacts
<1>10. LogStep BY <1>1, <1>2, <1>3, <1>4, <1>6, <1>9 DEF LogStep
<1>11. LogInv'
  <2>1. \A q \in Pages : PastVersion(main[q])' /\ PastVersion(Current[q])'
    BY <1>2, <1>4, <1>5, <1>6
  <2>2. \A i \in 1..Len(log.frames) : Past(log.frames[i])' BY <1>1, <1>3 DEF LogInv
  <2>3. QED BY <1>1, <1>2, <1>5, <1>8, <2>1, <2>2 DEF LogInv
<1>12. QED BY <1>10, <1>11

LEMMA WalRestart ==
  ASSUME IInv, LogInv, mode = "wal", RestartLog PROVE LogInv' /\ LogStep
<1>1. /\ open = NoTransaction /\ main = Contents(main, log)
      /\ log' = [log EXCEPT !.salt = @ + 1]
      /\ UNCHANGED <<mode, main, open, begun, committed>>
  BY DEF RestartLog
<1>2. log' = [salt |-> log.salt + 1, frames |-> log.frames]
  BY <1>1, LogFacts DEF Log
<1>3. log' \in Log /\ log'.frames = log.frames /\ log'.salt = log.salt + 1
  BY <1>2, LogFacts DEF Log
<1>4. \A i \in 1..Len(log.frames) : log.frames[i].salt <= log.salt /\ log.frames[i].salt \in Nat
  BY LogFacts DEF LogInv, Frame
<1>5. Committed(log') = 0
  <2>1. CommitFrames(log') = {}
    <3>1. SUFFICES ASSUME NEW k \in CommitFrames(log') PROVE FALSE
      OBVIOUS
    <3>2. k \in 1..Len(log.frames) /\ log.frames[k].salt = log.salt + 1
      BY <1>3, <3>1 DEF CommitFrames
    <3>3. QED BY <1>4, <3>2, LogFacts
  <2>2. QED BY <1>3, <2>1, CommittedIs
<1>6. Contents(main', log') = main
  <2>1. \A q \in Pages : PageOf(main', log', q) = main'[q] BY <1>3, <1>5, ImageOf
  <2>2. QED BY <1>1, <2>1 DEF Contents, IInv, StoreInv, IsPages
<1>7. Current' = Current /\ Known' = Known BY <1>1 DEF Current, Known
<1>8. \A f : Past(f)' <=> Past(f) BY <1>1 DEF Past
<1>9. \A v : PastVersion(v)' <=> PastVersion(v) BY <1>1, <1>7 DEF PastVersion
<1>10. log'.salt >= log.salt /\ Len(log'.frames) >= Len(log.frames) BY <1>3, LogFacts
<1>11. LogStep BY <1>1, <1>3, <1>7, <1>8, <1>9, <1>10 DEF LogStep
<1>12. LogInv'
  <2>1. Current' = Contents(main', log') BY <1>1, <1>6, <1>7 DEF LogInv
  <2>2. \A q \in Pages : PastVersion(main[q])' /\ PastVersion(Current[q])'
    BY <1>1, <1>7, <1>9 DEF LogInv
  <2>3. \A i \in 1..Len(log'.frames) :
          log'.frames[i].salt < log'.salt /\ log'.frames[i].salt <= log'.salt /\ log'.frames[i].salt # log'.salt
    BY <1>3, <1>4, LogFacts
  <2>4. \A i \in 1..Len(log'.frames) : Past(log.frames[i])' BY <1>1, <1>3, <1>8 DEF LogInv
  <2>5. QED BY <1>1, <1>3, <2>1, <2>2, <2>3, <2>4 DEF LogInv
<1>13. QED BY <1>11, <1>12


LEMMA WalFrame ==
  ASSUME IInv, LogInv, mode = "wal", NEW p \in Pages, WriteFrame(p) PROVE LogInv' /\ LogStep
<1> DEFINE u == Cardinality(open.undo)
           frame == [page |-> p, version |-> open.number, salt |-> log.salt,
                     commit |-> open.left = {p}]
           k == Committed(log) + u + 1
           now == [log EXCEPT !.frames = IF k \in DOMAIN @ THEN [@ EXCEPT ![k] = frame]
                                                           ELSE Append(@, frame)]
           n == Len(log.frames)
<1>1. /\ open # NoTransaction /\ p = Min(open.left) /\ log' = now
      /\ IF frame.commit
         THEN open' = NoTransaction /\ committed' = Append(committed, Contents(main, now))
         ELSE /\ open' = [open EXCEPT !.left = @ \ {p}, !.undo = @ \cup {<<p, 0>>}]
              /\ UNCHANGED committed
      /\ UNCHANGED <<mode, main, begun>>
  BY DEF WriteFrame
<1>2. open \in Transaction BY <1>1 DEF IInv, StoreInv
<1>3. /\ open.number = begun /\ open.left # {}
      /\ \A q \in open.left : <<q, 0>> \notin open.undo
      /\ IsFiniteSet(open.undo) /\ Committed(log) + u <= n
      /\ \A i \in 1..(Committed(log) + u) :
           log.frames[i].salt = log.salt /\ (i > Committed(log) => log.frames[i].version = open.number)
  BY <1>1 DEF LogInv
<1>4. p \in open.left
  <2>1. open.left \subseteq Nat BY <1>2, PagesFromOne DEF Transaction
  <2>2. QED BY <1>1, <1>3, <2>1, MinOfNumbers
<1>5. u \in Nat /\ n \in Nat /\ Committed(log) \in Nat /\ k \in Nat /\ 1 <= k /\ k <= n + 1
      /\ k > Committed(log) /\ Committed(log) + u = k - 1
  <2>1. u \in Nat BY <1>3, FS_CardinalityType
  <2>2. n \in Nat /\ Committed(log) \in Nat BY LogFacts
  <2> HIDE DEF u, n
  <2>3. QED BY <1>3, <2>1, <2>2
<1>6. /\ frame \in Frame /\ frame.page = p /\ frame.version = open.number /\ frame.salt = log.salt
      /\ frame.commit = (open.left = {p})
  BY <1>2, LogFacts, Bounds DEF Frame, Transaction
<1>7. /\ log' \in Log /\ log'.salt = log.salt
      /\ Len(log'.frames) \in Nat /\ Len(log'.frames) >= n /\ Len(log'.frames) >= k
      /\ \A i \in 1..Len(log'.frames) : log'.frames[i] = IF i = k THEN frame ELSE log.frames[i]
      /\ \A i \in 1..Len(log'.frames) : i # k => i \in 1..n
  <2> DEFINE old == log.frames
  <2>1. old \in Seq(Frame) /\ Len(old) = n /\ DOMAIN old = 1..n BY LogFacts
  <2>2. log = [salt |-> log.salt, frames |-> old] BY LogFacts DEF Log
  <2> DEFINE new == IF k \in DOMAIN old THEN [old EXCEPT ![k] = frame] ELSE Append(old, frame)
  <2>3. log' = [log EXCEPT !.frames = new] BY <1>1
  <2> HIDE DEF old, frame, k, n, now
  <2>4. log' = [salt |-> log.salt, frames |-> new]
    <3> HIDE DEF new
    <3>1. QED BY <2>2, <2>3
  <2>5. CASE k \in 1..n
    <3>1. log' = [salt |-> log.salt, frames |-> [old EXCEPT ![k] = frame]]
      BY <2>1, <2>5, <2>4
    <3>2. /\ [old EXCEPT ![k] = frame] \in Seq(Frame) /\ Len([old EXCEPT ![k] = frame]) = n
          /\ \A i \in 1..n : [old EXCEPT ![k] = frame][i] = IF i = k THEN frame ELSE old[i]
      BY <1>6, <2>1, <2>5, ExceptSeq
    <3>3. log'.frames = [old EXCEPT ![k] = frame] /\ log'.salt = log.salt BY <3>1
    <3>4. log' \in Log BY <3>1, <3>2, LogFacts DEF Log
    <3>5. QED BY <1>5, <2>5, <3>2, <3>3, <3>4 DEF old
  <2>6. CASE k \notin 1..n
    <3>1. log' = [salt |-> log.salt, frames |-> Append(old, frame)]
      BY <2>1, <2>6, <2>4
    <3>2. /\ Append(old, frame) \in Seq(Frame) /\ Len(Append(old, frame)) = n + 1
          /\ \A i \in 1..n : Append(old, frame)[i] = old[i]
          /\ Append(old, frame)[n + 1] = frame
      BY <1>6, <2>1, AppendProperties
    <3>3. log'.frames = Append(old, frame) /\ log'.salt = log.salt BY <3>1
    <3>4. log' \in Log BY <3>1, <3>2, LogFacts DEF Log
    <3>5. k = n + 1 BY <1>5, <2>6
    <3>6. \A i \in 1..(n + 1) : i # n + 1 => i \in 1..n BY <1>5
    <3>7. QED BY <1>5, <3>2, <3>3, <3>4, <3>5, <3>6 DEF old
  <2>7. QED BY <2>5, <2>6
<1> HIDE DEF frame, k, now, u, n
<1>8. /\ \A i \in 1..n : i # k => log'.frames[i] = log.frames[i]
      /\ log'.frames[k] = frame /\ k \in 1..Len(log'.frames)
  <2>1. \A i \in 1..n : i \in 1..Len(log'.frames) BY <1>5, <1>7
  <2>2. k \in 1..Len(log'.frames) BY <1>5, <1>7
  <2>3. QED BY <1>7, <2>1, <2>2
<1>9. /\ \A i \in 1..Committed(log) : i \in 1..n /\ i # k /\ log'.frames[i] = log.frames[i]
      /\ \A i \in 1..k : log'.frames[i].salt = log.salt
      /\ \A i \in 1..k : i > Committed(log) => log'.frames[i].version = open.number
  <2>1. \A i \in 1..Committed(log) : i \in 1..n /\ i # k BY <1>3, <1>5
  <2>2. \A i \in 1..k : i = k \/ (i \in 1..(Committed(log) + u) /\ i \in 1..n /\ i # k)
    BY <1>3, <1>5
  <2>3. QED BY <1>3, <1>6, <1>8, <2>1, <2>2
\* No other frame past the last commit is the frame of a commit.
<1>10. \A j \in CommitFrames(log') : j <= Committed(log) \/ j = k
  <2>1. SUFFICES ASSUME NEW j \in CommitFrames(log'), j > Committed(log), j # k PROVE FALSE
    <3>1. \A j \in CommitFrames(log') : j \in Nat BY <1>7 DEF CommitFrames
    <3>2. QED BY <1>5, <3>1
  <2>2. j \in 1..n /\ log.frames[j].commit /\ log.frames[j].salt = log.salt
    <3>1. j \in 1..Len(log'.frames) /\ log'.frames[j].commit /\ log'.frames[j].salt = log'.salt
      BY <2>1, <1>7 DEF CommitFrames
    <3>2. j \in 1..n BY <1>7, <2>1, <3>1
    <3>3. QED BY <1>7, <1>8, <2>1, <3>1, <3>2
  <2>3. QED BY <2>1, <2>2 DEF LogInv, n
<1>11. \A v : PastVersion(v) => v \in Known' BY <1>1 DEF PastVersion, Known
<1>12. /\ Current = Contents(main, log)
       /\ \A q \in Pages : PastVersion(main[q]) /\ PastVersion(Current[q])
       /\ \A i \in 1..n : /\ log.frames[i].salt <= log.salt
                          /\ Past(log.frames[i])
                          /\ i > Committed(log) /\ log.frames[i].salt = log.salt => ~log.frames[i].commit
  BY DEF LogInv, n
<1>13. begun' = begun /\ frame.version \in 1..begun /\ begun \in Nat
  <2>1. open.number \in 1..MaxTransactions BY <1>2 DEF Transaction
  <2>2. QED BY <1>1, <1>3, <1>6, <2>1, LogFacts, Bounds
<1>14. \A i \in 1..Len(log'.frames) : log'.frames[i].salt <= log'.salt
  <2>1. log.salt <= log.salt BY LogFacts
  <2>2. QED BY <1>6, <1>7, <1>12, <2>1
<1>15. CASE open.left = {p}
  <2>1. open' = NoTransaction /\ committed' = Append(committed, Contents(main, log'))
    BY <1>1, <1>6, <1>15
  <2>2. Committed(log') = k
    <3>1. k \in CommitFrames(log') BY <1>6, <1>7, <1>8, <1>9, <1>15 DEF CommitFrames
    <3>2. \A j \in CommitFrames(log') : j <= k
      <4>1. \A j \in CommitFrames(log') : j \in Nat BY <1>7 DEF CommitFrames
      <4>2. QED BY <1>5, <1>10, <4>1
    <3>3. QED BY <1>5, <1>7, <3>1, <3>2, CommittedAt
  <2>3. Current' = Contents(main, log') BY <2>1, Appended, LogFacts DEF Current
  <2>4. ASSUME NEW q \in Pages PROVE Current'[q] = Current[q] \/ Current'[q] = open.number
    <3>1. Extended(log, log', open.number) /\ log \in Log /\ log' \in Log
      <4>1. Committed(log) <= Committed(log') BY <1>5, <2>2
      <4>2. \A i \in 1..Committed(log) : log.frames[i] = log'.frames[i] BY <1>9
      <4>3. \A i \in 1..Committed(log') : i > Committed(log) => log'.frames[i].version = open.number
        BY <1>9, <2>2
      <4>4. log \in Log /\ log' \in Log BY <1>7, LogFacts
      <4>5. QED BY <4>1, <4>2, <4>3, <4>4 DEF Extended
    <3>2. PageOf(main, log', q) = PageOf(main, log, q) \/ PageOf(main, log', q) = open.number
      BY <3>1, LaterContents
    <3>3. QED BY <1>12, <2>3, <3>2 DEF Contents
  <2>5. \A f : Past(f) => Past(f)' BY <1>1, <2>1 DEF Past
  <2>6. \A v : PastVersion(v) => PastVersion(v)' BY <1>11, <2>1 DEF PastVersion
  <2>7. open.number \in Known' BY <1>3, <1>13 DEF Known
  <2>8. \A q \in Pages : PastVersion(main[q])' /\ PastVersion(Current[q])'
    <3>1. main' = main BY <1>1
    <3>2. \A v : (v = open.number \/ PastVersion(v)) => v \in Known'
      BY <1>11, <2>7
    <3>3. \A q \in Pages : main'[q] \in Known' /\ Current'[q] \in Known' BY <1>12, <2>4, <3>1, <3>2
    <3>4. QED BY <2>1, <3>3 DEF PastVersion
  <2>9. \A i \in 1..Len(log'.frames) : Past(log.frames[i])'
    <3>1. \A i \in 1..Len(log'.frames) : log'.frames[i].version \in 1..begun'
      BY <1>7, <1>12, <1>13 DEF Past
    <3>2. QED BY <2>1, <3>1 DEF Past
  <2>10. \A i \in 1..Len(log'.frames) :
           i > Committed(log') /\ log'.frames[i].salt = log'.salt => ~log'.frames[i].commit
    <3>1. \A i \in 1..Len(log'.frames) : i > k => i \in 1..n /\ i # k /\ i > Committed(log)
      BY <1>5, <1>7
    <3>2. QED BY <1>7, <1>8, <1>12, <2>2, <3>1
  <2>11. LogInv' BY <1>1, <1>14, <2>1, <2>3, <2>8, <2>9, <2>10 DEF LogInv
  <2>12. LogStep
    <3>1. log'.salt >= log.salt /\ Len(log'.frames) >= Len(log.frames) BY <1>7, LogFacts DEF n
    <3>2. \A i \in 1..Len(log.frames) :
            \/ log'.frames[i] = log.frames[i]
            \/ /\ open # NoTransaction /\ log'.frames[i].version = open.number
               /\ <<log'.frames[i].page, 0>> \notin open.undo
      BY <1>1, <1>3, <1>4, <1>6, <1>8 DEF n
    <3>3. QED BY <1>1, <2>4, <2>5, <2>6, <3>1, <3>2 DEF LogStep
  <2>13. QED BY <2>11, <2>12
<1>16. CASE open.left # {p}
  <2>1. /\ open' = [open EXCEPT !.left = @ \ {p}, !.undo = @ \cup {<<p, 0>>}]
        /\ committed' = committed
    BY <1>1, <1>6, <1>16
  <2>2. open'.number = open.number /\ open'.left = open.left \ {p} /\ open'.undo = open.undo \cup {<<p, 0>>}
    BY <1>2, <2>1 DEF Transaction
  <2>3. Committed(log') = Committed(log)
    <3>1. k \notin CommitFrames(log') BY <1>6, <1>8, <1>16 DEF CommitFrames
    <3>2. \A j \in CommitFrames(log') : j <= Committed(log) BY <1>10, <3>1
    <3>3. Committed(log) = 0 \/ Committed(log) \in CommitFrames(log')
      <4>1. Committed(log) = 0 \/ Committed(log) \in CommitFrames(log) BY CommittedIs, LogFacts
      <4>2. ASSUME Committed(log) \in CommitFrames(log) PROVE Committed(log) \in CommitFrames(log')
        <5>1. Committed(log) \in 1..Committed(log) BY <1>5, <4>2 DEF CommitFrames
        <5>2. Committed(log) \in 1..Len(log'.frames) BY <1>5, <1>7, <1>9, <5>1
        <5>3. QED BY <1>7, <1>9, <4>2, <5>1, <5>2 DEF CommitFrames
      <4>3. QED BY <4>1, <4>2
    <3>4. QED BY <1>5, <1>7, <3>2, <3>3, CommittedAt
  <2>4. Current' = Current BY <2>1 DEF Current
  <2>5. Contents(main, log') = Contents(main, log)
    BY <1>7, <1>9, <2>3, SameContents, LogFacts
  <2>6. \A f : Past(f) => Past(f)' BY <1>1, <2>2 DEF Past
  <2>7. \A v : PastVersion(v) => PastVersion(v)' BY <1>1, <1>11, <2>2 DEF PastVersion
  <2>8. \A q \in Pages : PastVersion(main[q])' /\ PastVersion(Current[q])'
    BY <1>1, <1>12, <2>4, <2>7
  <2>9. \A i \in 1..Len(log'.frames) : Past(log.frames[i])'
    <3>1. \A f : f = frame => Past(f)' BY <1>1, <1>6, <1>13, <2>2 DEF Past
    <3>2. \A f : f = frame \/ Past(f) => Past(f)' BY <2>6, <3>1
    <3>3. \A i \in 1..Len(log'.frames) : log'.frames[i] = frame \/ Past(log'.frames[i])
      BY <1>7, <1>12
    <3>4. QED BY <3>2, <3>3
  <2>10. \A i \in 1..Len(log'.frames) :
           i > Committed(log') /\ log'.frames[i].salt = log'.salt => ~log'.frames[i].commit
    <3>1. ~frame.commit BY <1>6, <1>16
    <3>2. QED BY <1>7, <1>12, <2>3, <3>1
  <2>11. /\ open'.left # {} /\ \A q \in open'.left : <<q, 0>> \notin open'.undo
    BY <1>3, <1>4, <1>16, <2>2
  <2>12. IsFiniteSet(open'.undo) /\ Cardinality(open'.undo) = u + 1
    <3>1. <<p, 0>> \notin open.undo /\ IsFiniteSet(open.undo) BY <1>3, <1>4
    <3>2. /\ IsFiniteSet(open.undo \cup {<<p, 0>>})
          /\ Cardinality(open.undo \cup {<<p, 0>>}) = Cardinality(open.undo) + 1
      BY <3>1, FS_AddElement
    <3>3. QED BY <2>2, <3>2 DEF u
  <2>13. /\ Committed(log') + Cardinality(open'.undo) <= Len(log'.frames)
         /\ \A i \in 1..(Committed(log') + Cardinality(open'.undo)) :
              log'.frames[i].salt = log'.salt /\ (i > Committed(log') => log'.frames[i].version = open'.number)
    <3>1. Committed(log') + Cardinality(open'.undo) = k BY <1>5, <2>3, <2>12 DEF k
    <3>2. QED BY <1>7, <1>9, <2>2, <2>3, <3>1
  <2>14. LogInv'
    <3>1. open'.number = begun' BY <1>3, <1>13, <2>2
    <3>2. Current' = Contents(main', log') BY <1>1, <1>12, <2>4, <2>5
    <3>3. QED BY <1>14, <2>8, <2>9, <2>10, <2>11, <2>12, <2>13, <3>1, <3>2 DEF LogInv
  <2>15. LogStep
    <3>1. log'.salt >= log.salt /\ Len(log'.frames) >= Len(log.frames) BY <1>7, LogFacts DEF n
    <3>2. \A i \in 1..Len(log.frames) :
            \/ log'.frames[i] = log.frames[i]
            \/ /\ open # NoTransaction /\ log'.frames[i].version = open.number
               /\ <<log'.frames[i].page, 0>> \notin open.undo
      BY <1>1, <1>3, <1>4, <1>6, <1>8 DEF n
    <3>3. QED BY <1>1, <2>4, <2>6, <2>7, <3>1, <3>2 DEF LogStep
  <2>16. QED BY <2>14, <2>15
<1>17. QED BY <1>15, <1>16


LEMMA LogBrowser ==
  ASSUME IInv, MomentInv, mode = "wal", BrowserStep, UNCHANGED <<takeVars, since>>
  PROVE  LogInv' /\ LogTake'
<1>1. LogInv' /\ LogStep
  BY WalBegin, WalRollback, WalCheckpoint, WalRestart, WalFrame
     DEF MomentInv, BrowserStep, WritePage, RestorePage, Commit, JournalHot
<1>2. UNCHANGED <<pc, at, copy, since>> BY DEF takeVars
<1>3. /\ \A q \in Pages : Copied(q) => MainCopied(q)
      /\ (pc = "wal1" /\ at > 1) \/ pc \in {"main2", "wal2", "check2"} => LogCopied
      /\ pc \in {"main2", "wal2", "check2"} => OneMoment \/ WillDiffer
  BY DEF MomentInv, LogTake
<1>4. /\ \A p \in Pages : main'[p] = main[p] \/ main'[p] = Current[p]
      /\ \A p \in Pages : \/ Current'[p] = Current[p]
                          \/ open # NoTransaction /\ Current'[p] = open.number
      /\ \A f : Past(f) => Past(f)'
      /\ \A v : PastVersion(v) => PastVersion(v)'
  BY <1>1 DEF LogStep
<1>5. ASSUME NEW q \in Pages, MainCopied(q)
      PROVE  MainCopied(q)' /\ (copy.main[q] # main[q] => copy'.main[q] # main'[q])
  <2>1. PastVersion(copy.main[q])' BY <1>2, <1>4, <1>5 DEF MainCopied
  <2>2. open # NoTransaction => copy.main[q] # open.number BY <1>5 DEF MainCopied, PastVersion
  <2>3. copy.main[q] # main[q] => copy.main[q] # Current[q] BY <1>5 DEF MainCopied
  <2>4. copy'.main[q] = main'[q] \/ copy'.main[q] # Current'[q] BY <1>2, <1>4, <2>2, <2>3
  <2>5. QED BY <1>2, <1>4, <2>1, <2>3, <2>4 DEF MainCopied
<1>6. /\ copy.log.salt \in Nat /\ Len(copy.log.frames) \in Nat /\ log.salt \in Nat /\ Len(log.frames) \in Nat
      /\ log'.salt \in Nat /\ Len(log'.frames) \in Nat
      /\ log'.salt >= log.salt /\ Len(log'.frames) >= Len(log.frames)
  <2>1. copy.log \in Log BY DEF IInv, TakeInv
  <2>2. log' \in Log BY StoreStep DEF IInv, StoreInv
  <2>3. \A l \in Log : l.salt \in Nat /\ Len(l.frames) \in Nat BY LenProperties DEF Log
  <2>4. QED BY <1>1, <2>1, <2>2, <2>3, LogFacts DEF LogStep
<1>7. ASSUME LogCopied
      PROVE  /\ LogCopied'
             /\ copy.log.salt # log.salt => copy'.log.salt # log'.salt
             /\ \A i \in 1..Len(copy.log.frames) :
                  copy.log.frames[i] # log.frames[i] => copy'.log.frames[i] # log'.frames[i]
  <2>1. LogCopied'
    <3>1. copy.log.salt <= log'.salt /\ Len(copy.log.frames) <= Len(log'.frames)
      BY <1>6, <1>7 DEF LogCopied
    <3>2. \A i \in 1..Len(copy.log.frames) : Past(copy.log.frames[i])'
      BY <1>2, <1>4, <1>7 DEF LogCopied
    <3>3. QED BY <1>2, <3>1, <3>2 DEF LogCopied
  <2>2. copy.log.salt # log.salt => copy'.log.salt # log'.salt BY <1>2, <1>6, <1>7 DEF LogCopied
  <2>3. ASSUME NEW i \in 1..Len(copy.log.frames), copy.log.frames[i] # log.frames[i]
        PROVE  copy'.log.frames[i] # log'.frames[i]
    <3>1. i \in 1..Len(log.frames) /\ Past(copy.log.frames[i]) BY <1>6, <1>7 DEF LogCopied
    <3>2. CASE log'.frames[i] = log.frames[i] BY <1>2, <2>3, <3>2
    <3>3. CASE /\ open # NoTransaction /\ log'.frames[i].version = open.number
               /\ <<log'.frames[i].page, 0>> \notin open.undo
      BY <1>2, <3>1, <3>3 DEF Past
    <3>4. QED BY <1>1, <3>1, <3>2, <3>3 DEF LogStep
  <2>4. QED BY <2>1, <2>2, <2>3
<1>8. \A q \in Pages : (Copied(q)' <=> Copied(q)) /\ (Compared(q)' <=> Compared(q))
  BY <1>2 DEF Copied, Compared
<1>9. ASSUME pc \in {"main2", "wal2", "check2"} PROVE OneMoment' \/ WillDiffer'
  <2>1. LogCopied /\ \A q \in Pages : MainCopied(q) BY <1>3, <1>9 DEF Copied
  <2>2. CASE OneMoment BY <1>2, <2>2, OneMomentStays DEF IInv, MomentInv
  <2>3. CASE \E q \in Pages : ~Compared(q) /\ copy.main[q] # main[q]
    BY <1>5, <1>8, <2>1, <2>3 DEF WillDiffer
  <2>4. CASE (pc = "main2" \/ (pc = "wal2" /\ at = 1)) /\ copy.log.salt # log.salt
    BY <1>2, <1>7, <2>1, <2>4 DEF WillDiffer
  <2>5. CASE \E i \in 1..Len(copy.log.frames) :
               /\ pc = "main2" \/ (pc = "wal2" /\ i >= at - 1)
               /\ copy.log.frames[i] # log.frames[i]
    BY <1>2, <1>7, <2>1, <2>5 DEF WillDiffer
  <2>6. QED BY <1>3, <1>9, <2>2, <2>3, <2>4, <2>5 DEF WillDiffer
<1>10. LogTake' BY <1>2, <1>3, <1>5, <1>7, <1>8, <1>9 DEF LogTake
<1>11. QED BY <1>1, <1>10

-----------------------------------------------------------------------------
(* Write-ahead-log mode: the import *)

LEMMA LogRead == ASSUME LogInv, UNCHANGED sourceVars PROVE LogInv'
<1>1. UNCHANGED <<mode, main, log, open, begun, committed>> BY DEF sourceVars
<1>2. Current' = Current /\ Known' = Known BY <1>1 DEF Current, Known
<1>3. QED BY <1>1, <1>2 DEF LogInv, Past, PastVersion

\* What is known of what was copied stays known while only the reader steps.
LEMMA CopiedSame ==
  ASSUME UNCHANGED sourceVars
  PROVE  /\ \A q \in Pages : copy'.main[q] = copy.main[q] => (MainCopied(q)' <=> MainCopied(q))
         /\ copy'.log = copy.log => (LogCopied' <=> LogCopied)
         /\ \A f : Past(f)' <=> Past(f)
         /\ \A v : PastVersion(v)' <=> PastVersion(v)
<1>1. UNCHANGED <<mode, main, log, open, begun, committed>> BY DEF sourceVars
<1>2. Current' = Current /\ Known' = Known BY <1>1 DEF Current, Known
<1>3. \A f : Past(f)' <=> Past(f) BY <1>1 DEF Past
<1>4. \A v : PastVersion(v)' <=> PastVersion(v) BY <1>1, <1>2 DEF PastVersion
<1>5. \A q \in Pages : copy'.main[q] = copy.main[q] => (MainCopied(q)' <=> MainCopied(q))
  BY <1>1, <1>2, <1>4 DEF MainCopied
<1>6. copy'.log = copy.log => (LogCopied' <=> LogCopied) BY <1>1, <1>3 DEF LogCopied
<1>7. QED BY <1>3, <1>4, <1>5, <1>6

LEMMA LogReadMain ==
  ASSUME IInv, MomentInv, mode = "wal", ReadMain PROVE LogTake'
<1>1. /\ pc = "main1" /\ at \in Pages
      /\ UNCHANGED sourceVars /\ main' = main
      /\ copy' = [copy EXCEPT !.main[at] = main[at]]
      /\ \/ at < LastPage /\ at' = at + 1 /\ pc' = pc
         \/ ~(at < LastPage) /\ at' = 1 /\ pc' = "wal1"
  BY DEF ReadMain, Goto, IInv, TakeInv, sourceVars
<1>2. copy' = [main |-> [copy.main EXCEPT ![at] = main[at]], log |-> copy.log]
  BY <1>1 DEF IInv, TakeInv
<1>3. \A p \in Pages : copy'.main[p] = IF p = at THEN main[at] ELSE copy.main[p]
  BY <1>1, <1>2 DEF IInv, TakeInv, IsPages
<1>4. ASSUME NEW q \in Pages, q <= at PROVE MainCopied(q)'
  <2>1. CASE q = at
    <3>1. PastVersion(main[q])' BY <1>1, CopiedSame DEF MomentInv, LogInv
    <3>2. QED BY <1>1, <1>3, <2>1, <3>1 DEF MainCopied
  <2>2. CASE q # at
    <3>1. Copied(q) BY <1>1, <1>4, <2>2, PagesFromOne DEF Copied
    <3>2. MainCopied(q) BY <3>1 DEF MomentInv, LogTake
    <3>3. QED BY <1>1, <1>3, <2>2, <3>2, CopiedSame
  <2>3. QED BY <2>1, <2>2
<1>5. \A q \in Pages : Copied(q)' => q <= at
  BY <1>1, PagesFromOne DEF Copied
<1>6. pc' = "wal1" => ~(at' > 1) BY <1>1
<1>7. QED BY <1>1, <1>4, <1>5, <1>6 DEF LogTake

LEMMA LogReadLog ==
  ASSUME IInv, MomentInv, mode = "wal", ReadLog PROVE LogTake'
<1>1. /\ pc = "wal1" /\ at \in Nat \ {0} /\ UNCHANGED <<sourceVars, since>>
      /\ main' = main /\ log' = log
  BY DEF ReadLog, IInv, TakeInv, historyVars, sourceVars
<1>2. copy = [main |-> copy.main, log |-> copy.log] /\ copy.log = [salt |-> copy.log.salt, frames |-> copy.log.frames]
  BY DEF IInv, TakeInv, Log
<1>3. ASSUME copy'.main = copy.main, NEW q \in Pages PROVE MainCopied(q)'
  <2>1. MainCopied(q) BY <1>1 DEF MomentInv, LogTake, Copied
  <2>2. QED BY <1>1, <1>3, <2>1, CopiedSame
<1>4. CASE at = 1
  <2>1. copy' = [main |-> copy.main, log |-> [salt |-> log.salt, frames |-> <<>>]] /\ pc' = pc
    BY <1>2, <1>4 DEF ReadLog
  <2>2. LogCopied'
    <3>1. copy'.log.salt = log.salt /\ Len(copy'.log.frames) = 0 BY <2>1
    <3>2. log.salt <= log.salt /\ 0 <= Len(log.frames) /\ \A i \in 1..0 : FALSE BY LogFacts
    <3>3. QED BY <1>1, <3>1, <3>2 DEF LogCopied
  <2>3. QED BY <1>1, <1>3, <2>1, <2>2 DEF LogTake
<1>5. CASE at # 1 /\ at - 1 \in DOMAIN log.frames
  <2> DEFINE frame == log.frames[at - 1]
             f == copy.log.frames
  <2>1. copy' = [copy EXCEPT !.log.frames = Append(@, frame)] /\ pc' = pc
    BY <1>5 DEF ReadLog
  <2>2. frame \in Frame /\ Past(frame) /\ at - 1 <= Len(log.frames)
    BY <1>5, LogFacts DEF MomentInv, LogInv
  <2>3. f \in Seq(Frame) /\ Len(f) = at - 2 BY <1>1, <1>5, LogFrames DEF IInv, TakeInv
  <2>4. LogCopied BY <1>1, <1>5 DEF MomentInv, LogTake
  <2> HIDE DEF frame
  <2>5. copy' = [main |-> copy.main, log |-> [salt |-> copy.log.salt, frames |-> Append(f, frame)]]
    BY <1>2, <2>1
  <2>6. copy'.log.frames = Append(f, frame) /\ copy'.log.salt = copy.log.salt /\ copy'.main = copy.main
    BY <2>5
  <2>7. \A i \in 1..Len(f) : Past(f[i]) BY <2>4 DEF LogCopied
  <2> HIDE DEF f
  <2>8. /\ Len(Append(f, frame)) = Len(f) + 1
        /\ \A i \in 1..Len(f) : Append(f, frame)[i] = f[i]
        /\ Append(f, frame)[Len(f) + 1] = frame
    BY <2>2, <2>3, AppendProperties
  <2>9. \A i \in 1..(Len(f) + 1) : Past(Append(f, frame)[i])
    <3>1. \A i \in 1..(Len(f) + 1) : i \in 1..Len(f) \/ i = Len(f) + 1 BY <1>1, <2>3
    <3>2. QED BY <2>2, <2>7, <2>8, <3>1
  <2>10. LogCopied'
    <3>1. \A i \in 1..Len(copy'.log.frames) : Past(copy.log.frames[i])'
      BY <1>1, <2>6, <2>8, <2>9, CopiedSame
    <3>2. copy'.log.salt <= log'.salt BY <1>1, <2>4, <2>6 DEF LogCopied
    <3>3. Len(copy'.log.frames) <= Len(log'.frames) BY <1>1, <2>2, <2>3, <2>6, <2>8
    <3>4. QED BY <3>1, <3>2, <3>3 DEF LogCopied
  <2>11. QED BY <1>1, <1>3, <2>1, <2>6, <2>10 DEF LogTake
<1>6. CASE at # 1 /\ at - 1 \notin DOMAIN log.frames
  <2>1. copy' = copy /\ at' = 1 /\ pc' = "main2" BY <1>6 DEF ReadLog, Goto
  <2>2. LogCopied BY <1>1, <1>6 DEF MomentInv, LogTake
  <2>3. LogCopied' BY <1>1, <2>1, <2>2, CopiedSame
  <2>4. Len(copy.log.frames) = Len(log.frames)
    <3>1. Len(copy.log.frames) = at - 2 BY <1>1, <1>6 DEF IInv, TakeInv
    <3>2. QED BY <1>1, <1>6, <2>2, <3>1, LogFacts DEF LogCopied
  <2>5. OneMoment' \/ WillDiffer'
    <3>1. SUFFICES ASSUME ~WillDiffer' PROVE OneMoment'
      OBVIOUS
    <3>2. \A q \in Pages : ~Compared(q)'
      <4>1. \A q \in Pages : ~(q < 1) BY PagesFromOne
      <4>2. QED BY <2>1, <4>1 DEF Compared
    <3>3. /\ \A q \in Pages : copy.main[q] = main[q]
          /\ copy.log.salt = log.salt
          /\ \A i \in 1..Len(copy.log.frames) : copy.log.frames[i] = log.frames[i]
      BY <1>1, <2>1, <3>1, <3>2 DEF WillDiffer
    <3>4. copy.main = main
      <4>1. IsPages(copy.main) /\ IsPages(main) BY DEF IInv, TakeInv, StoreInv
      <4>2. QED BY <3>3, <4>1 DEF IsPages
    <3>5. copy.log = log
      <4>1. copy.log.frames = log.frames BY <2>4, <3>3, LogFrames, SeqEqual
      <4>2. log = [salt |-> log.salt, frames |-> log.frames] BY LogFacts DEF Log
      <4>3. QED BY <1>2, <3>3, <4>1, <4>2
    <3>6. Contents(copy'.main, copy'.log) = Current BY <2>1, <3>4, <3>5 DEF MomentInv, LogInv
    <3>7. QED BY <1>1, <3>6, CurrentIsOneMoment, LogFacts
  <2>6. QED BY <1>1, <1>3, <2>1, <2>3, <2>5 DEF LogTake
<1>7. QED BY <1>4, <1>5, <1>6

\* A comparison that finds what it looks at the same leaves what will differ.
LEMMA LogCompared ==
  ASSUME IInv, MomentInv, mode = "wal", UNCHANGED <<sourceVars, copy, since>>,
         pc \in {"main2", "wal2", "check2"}, pc' \in {"main2", "wal2", "check2"},
         WillDiffer => WillDiffer'
  PROVE  LogTake'
<1>1. \A q \in Pages : MainCopied(q)' BY CopiedSame DEF MomentInv, LogTake, Copied
<1>2. LogCopied' BY CopiedSame DEF MomentInv, LogTake
<1>3. OneMoment \/ WillDiffer BY DEF MomentInv, LogTake
<1>4. OneMoment => OneMoment' BY OneMomentSame
<1>5. QED BY <1>1, <1>2, <1>3, <1>4 DEF LogTake

LEMMA LogReader ==
  ASSUME IInv, MomentInv, mode = "wal", Reader
  PROVE  LogInv' /\ LogTake' /\ (Accepted' /\ ~escape' => OneMoment')
<1>1. ASSUME UNCHANGED sourceVars,
             pc' \in {"check1", "fpMain", "fpWal", "fpJournal"} \cup Refusals
      PROVE  LogInv' /\ LogTake' /\ (Accepted' /\ ~escape' => OneMoment')
  <2>1. LogInv' BY <1>1, LogRead DEF MomentInv
  <2>2. LogTake' /\ ~Accepted' BY <1>1 DEF LogTake, Copied, Accepted, Refusals
  <2>3. QED BY <2>1, <2>2
<1>2. CASE FirstJournalCheck
  <2>1. UNCHANGED sourceVars /\ at' = 1 /\ pc' \in {"fpMain", "main1"}
    BY <1>2 DEF FirstJournalCheck, Goto
  <2>2. LogInv' BY <2>1, LogRead DEF MomentInv
  <2>3. \A q \in Pages : ~Copied(q)'
    <3>1. \A q \in Pages : ~(q < at') BY <2>1, PagesFromOne
    <3>2. QED BY <2>1, <3>1 DEF Copied
  <2>4. QED BY <2>1, <2>2, <2>3 DEF LogTake, Accepted
<1>3. CASE ReadMain
  <2>1. UNCHANGED sourceVars /\ pc' \in {"main1", "wal1"} BY <1>3 DEF ReadMain, Goto
  <2>2. LogInv' BY <2>1, LogRead DEF MomentInv
  <2>3. QED BY <1>3, <2>1, <2>2, LogReadMain DEF Accepted
<1>4. CASE ReadLog
  <2>1. UNCHANGED sourceVars /\ pc' \in {"wal1", "main2"} BY <1>4 DEF ReadLog, Goto
  <2>2. LogInv' BY <2>1, LogRead DEF MomentInv
  <2>3. QED BY <1>4, <2>1, <2>2, LogReadLog DEF Accepted
<1>5. CASE CompareMain
  <2>1. pc = "main2" /\ at \in Pages /\ UNCHANGED <<sourceVars, copy>> /\ main' = main /\ log' = log
    BY <1>5 DEF CompareMain, IInv, TakeInv, sourceVars
  <2>2. CASE main[at] # copy.main[at]
    <3>1. pc' \in {"check1", "Busy", "Interrupted"} BY <1>5, <2>2 DEF CompareMain, NextAttempt, Goto
    <3>2. QED BY <1>1, <2>1, <3>1 DEF Refusals
  <2>3. CASE main[at] = copy.main[at]
    <3>1. /\ UNCHANGED <<since, escape>>
          /\ \/ at < LastPage /\ at' = at + 1 /\ pc' = pc
             \/ ~(at < LastPage) /\ at' = 1 /\ pc' = "wal2"
      BY <1>5, <2>3 DEF CompareMain, Goto, historyVars
    <3>2. ASSUME WillDiffer PROVE WillDiffer'
      <4>1. CASE \E q \in Pages : ~Compared(q) /\ copy.main[q] # main[q]
        <5>1. PICK q \in Pages : ~Compared(q) /\ copy.main[q] # main[q] BY <4>1
        <5>2. q # at /\ ~(q < at) BY <2>1, <2>3, <5>1 DEF Compared
        <5>3. q > at BY <2>1, <5>2, PagesFromOne
        <5>4. ~Compared(q)' BY <2>1, <3>1, <5>3, PagesFromOne DEF Compared
        <5>5. QED BY <2>1, <5>1, <5>4 DEF WillDiffer
      <4>2. CASE copy.log.salt # log.salt BY <2>1, <3>1, <4>2 DEF WillDiffer
      <4>3. CASE \E i \in 1..Len(copy.log.frames) : copy.log.frames[i] # log.frames[i]
        <5>1. PICK i \in 1..Len(copy.log.frames) : copy.log.frames[i] # log.frames[i] BY <4>3
        <5>2. i >= 1 - 1 BY LogFrames
        <5>3. QED BY <2>1, <3>1, <5>1, <5>2 DEF WillDiffer
      <4>4. QED BY <3>2, <4>1, <4>2, <4>3 DEF WillDiffer
    <3>3. LogInv' BY <2>1, LogRead DEF MomentInv
    <3>4. LogTake' BY <2>1, <3>1, <3>2, LogCompared
    <3>5. QED BY <2>1, <3>1, <3>3, <3>4 DEF Accepted
  <2>4. QED BY <2>2, <2>3
<1>6. CASE CompareLog
  <2> DEFINE k == at - 1
             n == Len(copy.log.frames)
             same == CASE k = 0      -> log.salt = copy.log.salt
                       [] k \in 1..n -> k \in DOMAIN log.frames /\ log.frames[k] = copy.log.frames[k]
                       [] OTHER      -> Len(log.frames) = n
  <2>1. /\ pc = "wal2" /\ at \in Nat \ {0} /\ n \in Nat /\ UNCHANGED <<sourceVars, copy>>
        /\ main' = main /\ log' = log
    BY <1>6, LogFrames DEF CompareLog, IInv, TakeInv, sourceVars
  <2>2. CASE ~same
    <3>1. pc' \in {"check1", "Busy", "Interrupted"} BY <1>6, <2>2 DEF CompareLog, NextAttempt, Goto
    <3>2. QED BY <1>1, <2>1, <3>1 DEF Refusals
  <2>3. CASE same
    <3>1. /\ UNCHANGED <<since, escape>>
          /\ \/ k <= n /\ at' = at + 1 /\ pc' = pc
             \/ ~(k <= n) /\ pc' = "check2"
      BY <1>6, <2>3 DEF CompareLog, Goto, historyVars
    <3>2. ASSUME WillDiffer PROVE WillDiffer'
      <4>1. CASE at = 1 /\ copy.log.salt # log.salt
        <5>1. k = 0 BY <4>1
        <5>2. QED BY <2>3, <4>1, <5>1
      <4>2. CASE \E i \in 1..n : i >= k /\ copy.log.frames[i] # log.frames[i]
        <5>1. PICK i \in 1..n : i >= k /\ copy.log.frames[i] # log.frames[i] BY <4>2
        <5>2. k <= n BY <2>1, <5>1
        <5>3. k # i
          <6>1. SUFFICES ASSUME k = i PROVE FALSE
            OBVIOUS
          <6>2. k # 0 /\ k \in 1..n BY <2>1, <5>1, <6>1
          <6>3. QED BY <2>3, <5>1, <6>1, <6>2
        <5>4. i >= at' - 1 BY <2>1, <3>1, <5>1, <5>2, <5>3
        <5>5. QED BY <2>1, <3>1, <5>1, <5>2, <5>4 DEF WillDiffer
      <4>3. QED BY <2>1, <3>2, <4>1, <4>2 DEF WillDiffer, Compared
    <3>3. LogInv' BY <2>1, LogRead DEF MomentInv
    <3>4. LogTake' BY <2>1, <3>1, <3>2, LogCompared
    <3>5. QED BY <2>1, <3>1, <3>3, <3>4 DEF Accepted
  <2>4. QED BY <2>2, <2>3
<1>7. CASE LastJournalCheck
  <2>1. pc = "check2" /\ pc' \in {"fpMain", "scan"} /\ UNCHANGED <<sourceVars, copy, since>>
    BY <1>7 DEF LastJournalCheck, Goto, historyVars
  <2>2. LogInv' BY <2>1, LogRead DEF MomentInv
  <2>3. OneMoment BY <2>1 DEF MomentInv, LogTake, WillDiffer, Compared
  <2>4. OneMoment' BY <2>1, <2>3, OneMomentSame
  <2>5. QED BY <2>1, <2>2, <2>4 DEF LogTake, Copied
<1>8. CASE FingerprintMain \/ FingerprintLog \/ FingerprintJournal \/ ReadFails
  <2>1. /\ UNCHANGED sourceVars
        /\ pc' \in {"fpWal", "fpJournal", "check1", "Busy", "Interrupted", "Io"}
    BY <1>8 DEF FingerprintMain, FingerprintLog, FingerprintJournal, ReadFails, NextAttempt, Goto
  <2>2. QED BY <1>1, <2>1 DEF Refusals
<1>9. CASE ScanPage
  <2>1. /\ pc = "scan" /\ UNCHANGED <<sourceVars, copy, since, escape>>
        /\ pc' \in {"scan", "Read", "Unreadable"}
    BY <1>9 DEF ScanPage, Goto, historyVars
  <2>2. LogInv' BY <2>1, LogRead DEF MomentInv
  <2>3. ~escape => OneMoment BY <2>1 DEF MomentInv, SealedInv, Accepted
  <2>4. OneMoment => OneMoment' BY <2>1, OneMomentSame
  <2>5. QED BY <2>1, <2>2, <2>3, <2>4 DEF LogTake, Copied
<1>10. QED BY <1>2, <1>3, <1>4, <1>5, <1>6, <1>7, <1>8, <1>9 DEF Reader

-----------------------------------------------------------------------------
(* Both modes *)

LEMMA MomentStart == ASSUME Init PROVE MomentInv
<1>1. IInv BY Start
<1>2. /\ mode \in {"rollback", "wal", "absent"} /\ log = NoLog /\ copy.log = NoLog
      /\ pc = "check1" /\ since = 1 /\ ~escape
  BY DEF Init, SourceInit
<1>3. PICK v \in {0, Malformed} :
        /\ committed = <<[p \in Pages |-> v]>>
        /\ \/ /\ open = NoTransaction
              /\ begun = 0
              /\ main = [p \in Pages |-> v]
           \/ \E upto \in 0..LastPage :
                /\ mode = "rollback" /\ MaxTransactions > 0
                /\ begun = 1
                /\ main = [p \in Pages |-> IF p <= upto THEN 1 ELSE v]
                /\ open = [number |-> 1, left |-> Pages \ (1..upto), back |-> FALSE,
                           undo |-> (1..upto) \X {v}]
  BY DEF Init, SourceInit
<1>4. Len(committed) = 1 /\ Current = [p \in Pages |-> v] BY <1>3 DEF Current
<1>5. begun \in Nat /\ v \in Known /\ IsPages(Current) BY <1>3, <1>4, LogFacts, <1>1 DEF Known, IsPages
<1>6. SealedInv BY <1>2, <1>4 DEF SealedInv, Accepted
<1>7. JournalTake /\ LogTake BY <1>2 DEF JournalTake, LogTake, Copied
<1>8. CASE open = NoTransaction
  <2>1. \A p \in Pages : main[p] = v /\ Current[p] = v /\ Current[p] \in Known
    <3>1. main = [p \in Pages |-> v]
      <4>1. SUFFICES ASSUME NEW upto \in 0..LastPage, MaxTransactions > 0,
                            open = [number |-> 1, left |-> Pages \ (1..upto), back |-> FALSE,
                                    undo |-> (1..upto) \X {v}]
                     PROVE  FALSE
        BY <1>3
      <4>2. open \in Transaction
        <5>1. 1..upto \subseteq Pages BY PagesFromOne
        <5>2. v \in Versions BY <1>3, Bounds
        <5>3. QED BY <4>1, <5>1, <5>2, Bounds DEF Transaction
      <4>3. QED BY <1>8, <4>2, NoTransactionAssumption DEF Transaction
    <3>2. QED BY <1>4, <1>5, <3>1
  <2>2. JournalInv BY <1>2, <1>5, <1>8, <2>1 DEF JournalInv
  <2>3. LogInv
    <3>1. main = Current
      <4>1. IsPages(main) BY <1>1 DEF IInv, StoreInv
      <4>2. QED BY <1>5, <2>1, <4>1 DEF IsPages
    <3>2. Contents(main, log) = Current /\ Len(log.frames) = 0 BY <1>2, <1>5, <3>1, EmptyLog
    <3>3. \A i \in 1..Len(log.frames) : FALSE BY <3>2
    <3>4. \A p \in Pages : PastVersion(main[p]) /\ PastVersion(Current[p])
      BY <1>8, <2>1 DEF PastVersion
    <3>5. QED BY <1>8, <3>2, <3>3, <3>4 DEF LogInv
  <2>4. QED BY <1>6, <1>7, <2>2, <2>3 DEF MomentInv
<1>9. CASE open # NoTransaction
  <2>1. PICK upto \in 0..LastPage :
          /\ mode = "rollback" /\ MaxTransactions > 0
          /\ begun = 1
          /\ main = [p \in Pages |-> IF p <= upto THEN 1 ELSE v]
          /\ open = [number |-> 1, left |-> Pages \ (1..upto), back |-> FALSE,
                     undo |-> (1..upto) \X {v}]
    BY <1>3, <1>9
  <2>2. open.number = 1 /\ open.left = Pages \ (1..upto) /\ open.undo = (1..upto) \X {v} BY <2>1
  <2>3. v # 1 BY <1>3, <2>1, Bounds
  <2>4. ASSUME NEW p \in Pages PROVE Untouched(p) \/ Overwritten(p)
    <3>1. main[p] = IF p <= upto THEN 1 ELSE v BY <2>1
    <3>2. p <= upto <=> p \in 1..upto BY PagesFromOne
    <3>3. CASE p <= upto BY <1>4, <2>2, <3>1, <3>2, <3>3 DEF Overwritten
    <3>4. CASE ~(p <= upto) BY <1>4, <2>2, <3>1, <3>2, <3>4 DEF Untouched
    <3>5. QED BY <3>3, <3>4
  <2>5. JournalInv BY <1>2, <1>4, <1>5, <1>9, <2>2, <2>3, <2>4 DEF JournalInv
  <2>6. LogInv BY <2>1 DEF LogInv
  <2>7. QED BY <1>6, <1>7, <2>5, <2>6 DEF MomentInv
<1>10. QED BY <1>8, <1>9

LEMMA MomentBrowser == ASSUME IInv, MomentInv, Browser PROVE MomentInv'
<1>1. UNCHANGED <<takeVars, since>> /\ pc \notin Ended \cup {"scan"}
  BY DEF Browser, Taking
<1>2. BrowserStep BY DEF Browser, Writes, Closes, Elsewhere, BrowserStep
<1>3. mode' = mode BY <1>2, NumbersGrow DEF IInv
<1>4. SealedInv'
  <2>1. Len(committed) \in Nat /\ Len(committed') >= Len(committed) /\ Len(committed') \in Nat
    BY <1>2, NumbersGrow DEF IInv
  <2>2. pc' = pc /\ since' = since BY <1>1 DEF takeVars
  <2>3. ~Accepted' BY <1>1, <2>2 DEF Accepted, Ended
  <2>4. QED BY <1>3, <2>1, <2>2, <2>3 DEF MomentInv, SealedInv
<1>5. CASE mode = "rollback"
  <2>1. LogInv' /\ LogTake' BY <1>3, <1>5 DEF LogInv, LogTake
  <2>2. JournalInv' /\ JournalTake'
    <3>1. ASSUME NEW p \in Pages, Writes(p) PROVE JournalInv' /\ JournalTake'
      BY <1>1, <1>5, <3>1, RollWrite, RollRestore DEF Writes, WritesAhead
    <3>2. CASE Closes BY <1>1, <1>5, <3>2, RollClose DEF Closes
    <3>3. CASE Elsewhere
      <4>1. UNCHANGED <<ahead, escape>> /\ \E pages \in (SUBSET Pages) \ {{}} : Begin(pages)
        BY <1>5, <3>3 DEF Elsewhere, WriteFrame, Checkpoint, RestartLog
      <4>2. QED BY <1>1, <1>5, <4>1, RollBegin
    <3>4. QED BY <3>1, <3>2, <3>3 DEF Browser
  <2>3. QED BY <1>4, <2>1, <2>2 DEF MomentInv
<1>6. CASE mode = "wal"
  <2>1. JournalInv' /\ JournalTake' BY <1>3, <1>6 DEF JournalInv, JournalTake
  <2>2. QED BY <1>1, <1>2, <1>4, <1>6, <2>1, LogBrowser DEF MomentInv
<1>7. CASE mode \notin {"rollback", "wal"}
  BY <1>3, <1>4, <1>7 DEF MomentInv, JournalInv, JournalTake, LogInv, LogTake
<1>8. QED BY <1>5, <1>6, <1>7

LEMMA MomentReader == ASSUME IInv, MomentInv, Reader PROVE MomentInv'
<1>1. UNCHANGED sourceVars
  BY DEF Reader, FirstJournalCheck, ReadMain, ReadLog, CompareMain, CompareLog, LastJournalCheck,
         FingerprintMain, FingerprintLog, FingerprintJournal, ReadFails, ScanPage
<1>2. mode' = mode /\ committed' = committed BY <1>1 DEF sourceVars
<1>3. since' = since \/ since' = Len(committed)
  BY DEF Reader, FirstJournalCheck, ReadMain, ReadLog, CompareMain, CompareLog, LastJournalCheck,
         FingerprintMain, FingerprintLog, FingerprintJournal, ReadFails, ScanPage, historyVars,
         NextAttempt
<1>4. since' \in Nat /\ 1 <= since' /\ since' <= Len(committed')
  <2>1. Len(committed) \in Nat BY LogFacts, Appended
  <2>2. QED BY <1>2, <1>3, <2>1 DEF MomentInv, SealedInv
<1>5. pc' \in {"wal1", "main2", "wal2", "check2"} \cup {"scan", "Read", "Unreadable"} =>
        mode # "absent"
  BY DEF Reader, FirstJournalCheck, ReadMain, ReadLog, CompareMain, CompareLog, LastJournalCheck,
         FingerprintMain, FingerprintLog, FingerprintJournal, ReadFails, ScanPage, NextAttempt,
         Goto, MomentInv, SealedInv
<1>6. ASSUME Accepted' /\ ~escape' => OneMoment' PROVE SealedInv'
  BY <1>2, <1>4, <1>5, <1>6 DEF MomentInv, SealedInv
<1>7. CASE mode = "rollback"
  <2>1. LogInv' /\ LogTake' BY <1>2, <1>7 DEF LogInv, LogTake
  <2>2. QED BY <1>6, <1>7, <2>1, JournalReader DEF MomentInv
<1>8. CASE mode = "wal"
  <2>1. JournalInv' /\ JournalTake' BY <1>2, <1>8 DEF JournalInv, JournalTake
  <2>2. QED BY <1>6, <1>8, <2>1, LogReader DEF MomentInv
<1>9. CASE mode \notin {"rollback", "wal"}
  <2>1. mode = "absent" BY <1>9 DEF MomentInv, SealedInv
  <2>2. ~Accepted' BY <1>5, <2>1 DEF Accepted
  <2>3. QED BY <1>2, <1>6, <1>9, <2>2 DEF MomentInv, JournalInv, JournalTake, LogInv, LogTake
<1>10. QED BY <1>7, <1>8, <1>9

LEMMA MomentSteps == ASSUME IInv, MomentInv, [Next]_vars PROVE MomentInv'
<1>1. CASE UNCHANGED vars
  <2>1. UNCHANGED <<sourceVars, mode, main, log, open, begun, committed, pc, at, copy, since, ahead, escape>>
    BY <1>1 DEF vars, takeVars, historyVars, sourceVars
  <2>2. LogInv' BY <2>1, LogRead DEF MomentInv
  <2>3. Current' = Current /\ Known' = Known BY <2>1 DEF Current, Known
  <2>4. (OneMoment' <=> OneMoment) /\ \A q \in Pages : Lost(q)' <=> Lost(q)
    BY <2>1, OneMomentSame, LostSame
  <2>5. \A q \in Pages : (Compared(q)' <=> Compared(q)) /\ (Copied(q)' <=> Copied(q))
    BY <2>1 DEF Compared, Copied
  <2>6. JournalInv' BY <2>1, <2>3 DEF MomentInv, JournalInv, Untouched, Overwritten
  <2>7. JournalTake'
    BY <2>1, <2>3, <2>4, <2>5 DEF MomentInv, JournalTake, FirstRead, SecondRead, Pending
  <2>8. LogTake' BY <2>1, <2>4, <2>5, CopiedSame DEF MomentInv, LogTake, WillDiffer
  <2>9. SealedInv' BY <2>1, <2>4 DEF MomentInv, SealedInv, Accepted
  <2>10. QED BY <2>2, <2>6, <2>7, <2>8, <2>9 DEF MomentInv
<1>2. QED BY <1>1, MomentBrowser, MomentReader DEF Next

(* Whatever the other browser does while its store is copied: a copy that  *)
(* take accepts is a state the browser committed, current at some moment   *)
(* of the attempt, but for the one interleaving the documentation states   *)
(* (snapshot.rs, the module comment and take).                             *)
THEOREM CopiesAreOfOneMoment == Spec => []AcceptedIsOfOneMoment
<1>1. IInv /\ MomentInv => AcceptedIsOfOneMoment
  BY DEF MomentInv, SealedInv, AcceptedIsOfOneMoment, OneMoment
<1>2. Init => IInv /\ MomentInv BY Start, MomentStart
<1>3. IInv /\ MomentInv /\ [Next]_vars => IInv' /\ MomentInv' BY Steps, MomentSteps
<1>4. QED BY <1>1, <1>2, <1>3, PTL DEF Spec

-----------------------------------------------------------------------------
(* The rows that scan reads *)

Folds(g, n, base, step) ==
  g = [k \in 0..n |-> IF k = 0 THEN base ELSE step[<<g[k - 1], k>>]]

\* There is the function that is base at 0 and goes on by step.
LEMMA FoldExists ==
  ASSUME NEW S, NEW n \in Nat, NEW base \in S, NEW step \in [S \X (1..n) -> S]
  PROVE  \E g \in [0..n -> S] : Folds(g, n, base, step)
<1> DEFINE Upto(m, g) == g[0] = base /\ \A k \in 1..m : g[k] = step[<<g[k - 1], k>>]
           Built == {m \in Nat : m <= n => \E g \in [0..m -> S] : Upto(m, g)}
<1>1. 0 \in Built
  <2> DEFINE g == [k \in 0..0 |-> base]
  <2>1. g \in [0..0 -> S] /\ g[0] = base /\ 1..0 = {} OBVIOUS
  <2>2. QED BY <2>1
<1>2. ASSUME NEW m \in Nat, m \in Built PROVE m + 1 \in Built
  <2> SUFFICES ASSUME m + 1 <= n PROVE \E g \in [0..(m + 1) -> S] : Upto(m + 1, g)
    OBVIOUS
  <2>1. PICK h \in [0..m -> S] : Upto(m, h) BY <1>2
  <2> DEFINE new == step[<<h[m], m + 1>>]
             g == [k \in 0..(m + 1) |-> IF k = m + 1 THEN new ELSE h[k]]
  <2>2. new \in S
    <3>1. h[m] \in S /\ m + 1 \in 1..n OBVIOUS
    <3>2. QED BY <3>1
  <2> HIDE DEF new
  <2>3. g \in [0..(m + 1) -> S] /\ g[m + 1] = new /\ \A k \in 0..m : g[k] = h[k] BY <2>2
  <2> HIDE DEF g
  <2>4. g[0] = base BY <2>1, <2>3
  <2>5. ASSUME NEW k \in 1..(m + 1) PROVE g[k] = step[<<g[k - 1], k>>]
    <3>1. CASE k = m + 1 BY <3>1, <2>3 DEF new
    <3>2. CASE k # m + 1
      <4>1. k \in 1..m /\ k \in 0..m /\ k - 1 \in 0..m BY <3>2
      <4>2. QED BY <4>1, <2>1, <2>3
    <3>3. QED BY <3>1, <3>2
  <2>6. QED BY <2>3, <2>4, <2>5
<1>3. PICK g \in [0..n -> S] : Upto(n, g)
  <2> HIDE DEF Upto
  <2>1. n \in Built
    <3> HIDE DEF Built
    <3>1. QED BY <1>1, <1>2, NatInductionOnSets
  <2>2. QED BY <2>1
<1> DEFINE f == [k \in 0..n |-> IF k = 0 THEN base ELSE step[<<g[k - 1], k>>]]
<1>4. \A k \in 0..n : g[k] = f[k] BY <1>3
<1>5. g = f BY <1>4
<1>6. QED BY <1>5 DEF Folds

\* What FlattenSeq builds its value with.
Flattens(g, s) == g = [i \in 1..Len(s) |-> IF i = 1 THEN s[i] ELSE g[i - 1] \o s[i]]

LEMMA FlattenBuilt ==
  ASSUME NEW R, NEW s \in Seq(Seq(R)), s # <<>>
  PROVE  \E g : /\ Flattens(g, s) /\ FlattenSeq(s) = g[Len(s)]
                /\ g \in [1..Len(s) -> Seq(R)]
<1> DEFINE n == Len(s)
           base == <<>>
           step == [x \in Seq(R) \X (1..n) |-> x[1] \o s[x[2]]]
<1>1. n \in Nat /\ n >= 1 /\ n # 0 /\ \A i \in 1..n : s[i] \in Seq(R) OBVIOUS
<1>2. step \in [Seq(R) \X (1..n) -> Seq(R)]
  <2>1. \A x \in Seq(R) \X (1..n) : x[1] \in Seq(R) /\ s[x[2]] \in Seq(R) BY <1>1
  <2>2. QED BY <2>1, ConcatProperties
<1>3. base \in Seq(R) OBVIOUS
<1>4. \A r \in Seq(R), i \in 1..n : step[<<r, i>>] = r \o s[i] OBVIOUS
<1> HIDE DEF base, step
<1>5. PICK h \in [0..n -> Seq(R)] : Folds(h, n, base, step)
  BY <1>1, <1>2, <1>3, FoldExists
<1>6. h[0] = base /\ \A i \in 1..n : h[i] = h[i - 1] \o s[i]
  <2>1. \A i \in 0..n : h[i] = IF i = 0 THEN base ELSE step[<<h[i - 1], i>>] BY <1>5 DEF Folds
  <2>2. \A i \in 1..n : i \in 0..n /\ i # 0 /\ i - 1 \in 0..n BY <1>1
  <2>3. 0 \in 0..n BY <1>1
  <2>4. QED BY <1>4, <2>1, <2>2, <2>3
<1> DEFINE g == [i \in 1..n |-> h[i]]
<1>7. g \in [1..n -> Seq(R)] BY <1>1
<1>8. \A i \in 1..n : g[i] = IF i = 1 THEN s[i] ELSE g[i - 1] \o s[i]
  <2> SUFFICES ASSUME NEW i \in 1..n PROVE g[i] = IF i = 1 THEN s[i] ELSE g[i - 1] \o s[i]
    OBVIOUS
  <2>1. g[i] = h[i - 1] \o s[i] BY <1>6
  <2>2. CASE i = 1
    <3>1. h[i - 1] = <<>> BY <1>6, <2>2 DEF base
    <3>2. QED BY <1>1, <2>1, <2>2, <3>1, ConcatEmptySeq
  <2>3. CASE i # 1
    <3>1. i - 1 \in 1..n BY <1>1, <2>3
    <3>2. QED BY <2>1, <2>3, <3>1
  <2>4. QED BY <2>2, <2>3
<1> HIDE DEF g
<1>9. Flattens(g, s) BY <1>7, <1>8 DEF Flattens
<1> DEFINE f == CHOOSE f : Flattens(f, s)
<1>10. Flattens(f, s) BY <1>9
<1>11. FlattenSeq(s) = f[n] BY <1>1 DEF FlattenSeq, Flattens
<1> HIDE DEF f
<1>12. \A i \in 1..n : f[i] = g[i]
  <2> DEFINE Same == {k \in Nat : k + 1 <= n => f[k + 1] = g[k + 1]}
  <2>1. 0 \in Same
    <3>1. 1 \in 1..n BY <1>1
    <3>2. f[1] = s[1] /\ g[1] = s[1] BY <1>9, <1>10, <3>1 DEF Flattens
    <3>3. QED BY <3>2
  <2>2. ASSUME NEW k \in Nat, k \in Same PROVE k + 1 \in Same
    <3> SUFFICES ASSUME (k + 1) + 1 <= n PROVE f[(k + 1) + 1] = g[(k + 1) + 1]
      OBVIOUS
    <3> DEFINE i == (k + 1) + 1
    <3>1. i \in 1..n /\ i # 1 /\ i - 1 = k + 1 BY <1>1
    <3>2. f[k + 1] = g[k + 1] BY <1>1, <2>2
    <3> HIDE DEF i
    <3>3. f[i] = f[i - 1] \o s[i] BY <1>10, <3>1 DEF Flattens
    <3>4. g[i] = g[i - 1] \o s[i] BY <1>8, <3>1
    <3>5. QED BY <3>1, <3>2, <3>3, <3>4 DEF i
  <2> HIDE DEF Same
  <2>3. Nat \subseteq Same BY <2>1, <2>2, NatInductionOnSets
  <2>4. ASSUME NEW i \in 1..n PROVE f[i] = g[i]
    <3>1. i - 1 \in Nat /\ (i - 1) + 1 = i /\ i <= n BY <1>1
    <3>2. i - 1 \in Same BY <2>3, <3>1
    <3>3. (i - 1) + 1 <= n => f[(i - 1) + 1] = g[(i - 1) + 1] BY <3>2 DEF Same
    <3>4. QED BY <3>1, <3>3
  <2>5. QED BY <2>4
<1>13. FlattenSeq(s) = g[n] BY <1>1, <1>11, <1>12
<1>14. QED BY <1>7, <1>9, <1>13

LEMMA FlattenType ==
  ASSUME NEW R, NEW s \in Seq(Seq(R))
  PROVE  FlattenSeq(s) \in Seq(R) /\ (s = <<>> => FlattenSeq(s) = <<>>)
<1>1. CASE s = <<>>
  <2>1. Len(s) = 0 /\ <<>> \in Seq(R) BY <1>1
  <2>2. FlattenSeq(s) = s BY <2>1 DEF FlattenSeq
  <2>3. FlattenSeq(s) = <<>> BY <1>1, <2>2
  <2>4. QED BY <2>1, <2>3
<1>2. CASE s # <<>>
  <2>1. Len(s) \in 1..Len(s) BY <1>2
  <2>2. PICK g : FlattenSeq(s) = g[Len(s)] /\ g \in [1..Len(s) -> Seq(R)] BY <1>2, FlattenBuilt
  <2>3. g[Len(s)] \in Seq(R) BY <2>1, <2>2
  <2>4. QED BY <1>2, <2>2, <2>3
<1>3. QED BY <1>1, <1>2

\* One sequence more is put after the others.
LEMMA FlattenAppend ==
  ASSUME NEW R, NEW s \in Seq(Seq(R)), NEW x \in Seq(R)
  PROVE  FlattenSeq(Append(s, x)) = FlattenSeq(s) \o x
<1> DEFINE t == Append(s, x)
           n == Len(s)
<1>1. /\ t \in Seq(Seq(R)) /\ t # <<>> /\ Len(t) = n + 1 /\ n \in Nat
      /\ t[n + 1] = x /\ \A i \in 1..n : t[i] = s[i]
  BY AppendProperties
<1> HIDE DEF t, n
<1>2. PICK g : Flattens(g, t) /\ FlattenSeq(t) = g[n + 1] BY <1>1, FlattenBuilt
<1>3. \A i \in 1..(n + 1) : g[i] = IF i = 1 THEN t[i] ELSE g[i - 1] \o t[i]
  BY <1>1, <1>2 DEF Flattens
<1>4. CASE n = 0
  <2>1. s = <<>> BY <1>4 DEF n
  <2>2. g[n + 1] = x BY <1>1, <1>3, <1>4
  <2>3. FlattenSeq(s) = <<>> BY <2>1, FlattenType
  <2>4. QED BY <1>2, <2>2, <2>3, ConcatEmptySeq DEF t
<1>5. CASE n # 0
  <2>1. s # <<>> BY <1>5 DEF n
  <2>2. PICK h : Flattens(h, s) /\ FlattenSeq(s) = h[n] BY <2>1, FlattenBuilt DEF n
  <2>3. \A i \in 1..n : h[i] = IF i = 1 THEN s[i] ELSE h[i - 1] \o s[i]
    BY <2>2 DEF Flattens, n
  <2> DEFINE Same == {k \in Nat : k + 1 <= n => h[k + 1] = g[k + 1]}
  <2>4. 0 \in Same
    <3>1. 1 \in 1..n /\ 1 \in 1..(n + 1) BY <1>1, <1>5
    <3>2. h[1] = s[1] /\ g[1] = t[1] BY <1>3, <2>3, <3>1
    <3>3. QED BY <1>1, <3>1, <3>2
  <2>5. ASSUME NEW k \in Nat, k \in Same PROVE k + 1 \in Same
    <3> SUFFICES ASSUME (k + 1) + 1 <= n PROVE h[(k + 1) + 1] = g[(k + 1) + 1]
      OBVIOUS
    <3> DEFINE i == (k + 1) + 1
    <3>1. i \in 1..n /\ i \in 1..(n + 1) /\ i # 1 /\ i - 1 = k + 1 BY <1>1
    <3>2. h[k + 1] = g[k + 1] BY <1>1, <2>5
    <3> HIDE DEF i
    <3>3. h[i] = h[i - 1] \o s[i] /\ g[i] = g[i - 1] \o t[i] /\ t[i] = s[i]
      BY <1>1, <1>3, <2>3, <3>1
    <3>4. QED BY <3>1, <3>2, <3>3 DEF i
  <2> HIDE DEF Same
  <2>6. Nat \subseteq Same BY <2>4, <2>5, NatInductionOnSets
  <2>7. n - 1 \in Nat /\ (n - 1) + 1 = n BY <1>1, <1>5
  <2>8. h[n] = g[n] BY <2>6, <2>7 DEF Same
  <2>9. n + 1 \in 1..(n + 1) /\ n + 1 # 1 /\ (n + 1) - 1 = n BY <1>1, <1>5
  <2>10. g[n + 1] = g[n] \o x BY <1>1, <1>3, <2>9
  <2>11. QED BY <1>2, <2>2, <2>8, <2>10 DEF t
<1>6. QED BY <1>4, <1>5

LEMMA FlattenConcat ==
  ASSUME NEW R, NEW a \in Seq(Seq(R)), NEW b \in Seq(Seq(R))
  PROVE  FlattenSeq(a \o b) = FlattenSeq(a) \o FlattenSeq(b)
<1> DEFINE Good == {k \in Nat : \A c \in Seq(Seq(R)) : Len(c) = k =>
                      FlattenSeq(a \o c) = FlattenSeq(a) \o FlattenSeq(c)}
<1>1. 0 \in Good
  <2> SUFFICES ASSUME NEW c \in Seq(Seq(R)), Len(c) = 0
               PROVE  FlattenSeq(a \o c) = FlattenSeq(a) \o FlattenSeq(c)
    OBVIOUS
  <2>1. c = <<>> BY EmptySeq
  <2>2. FlattenSeq(c) = <<>> /\ a \o c = a BY <2>1, FlattenType, ConcatEmptySeq
  <2>3. FlattenSeq(a) \in Seq(R) BY FlattenType
  <2>4. QED BY <2>2, <2>3, ConcatEmptySeq
<1>2. ASSUME NEW k \in Nat, k \in Good PROVE k + 1 \in Good
  <2> SUFFICES ASSUME NEW c \in Seq(Seq(R)), Len(c) = k + 1
               PROVE  FlattenSeq(a \o c) = FlattenSeq(a) \o FlattenSeq(c)
    OBVIOUS
  <2>1. c # <<>> BY EmptySeq
  <2>2. PICK d \in Seq(Seq(R)), x \in Seq(R) : c = Append(d, x)
    BY <2>1, SequenceEmptyOrAppend
  <2>3. Len(d) = k BY <2>2, AppendProperties
  <2>4. FlattenSeq(a \o d) = FlattenSeq(a) \o FlattenSeq(d) BY <1>2, <2>3
  <2>5. FlattenSeq(c) = FlattenSeq(d) \o x BY <2>2, FlattenAppend
  <2>6. a \o c = Append(a \o d, x) /\ a \o d \in Seq(Seq(R)) BY <2>2
  <2>7. FlattenSeq(a \o c) = FlattenSeq(a \o d) \o x BY <2>6, FlattenAppend
  <2>8. FlattenSeq(a) \in Seq(R) /\ FlattenSeq(d) \in Seq(R) BY FlattenType
  <2> DEFINE u == FlattenSeq(a)
             v == FlattenSeq(d)
  <2> HIDE DEF u, v
  <2>9. (u \o v) \o x = u \o (v \o x)
    <3>1. u \in Seq(R) /\ v \in Seq(R) BY <2>8 DEF u, v
    <3>2. QED BY <3>1
  <2>10. QED BY <2>4, <2>5, <2>7, <2>9 DEF u, v
<1> HIDE DEF Good
<1>3. Nat \subseteq Good BY <1>1, <1>2, NatInductionOnSets
<1>4. Len(b) \in Nat BY LenProperties
<1>5. QED BY <1>3, <1>4 DEF Good

LEMMA FlattenOne == ASSUME NEW R, NEW x \in Seq(R) PROVE FlattenSeq(<<x>>) = x
<1>1. <<>> \in Seq(Seq(R)) /\ Append(<<>>, x) = <<x>> OBVIOUS
<1>2. FlattenSeq(<<>>) = <<>> BY <1>1, FlattenType
<1>3. FlattenSeq(<<x>>) = <<>> \o x BY <1>1, <1>2, FlattenAppend
<1>4. QED BY <1>3, ConcatEmptySeq

RowSet == UNION {Range(Node[p][v].rows) : p \in Pages, v \in Versions}

LEMMA NodeIs ==
  ASSUME NEW p \in Pages, NEW v \in Versions
  PROVE  Node[p][v].children \in Seq(Nat) /\ Node[p][v].rows \in Seq(RowSet)
<1> DEFINE rows == Node[p][v].rows
<1>1. rows \in Seq(Range(rows)) /\ Node[p][v].children \in Seq(Nat) BY NodeAssumption
<1>2. Range(rows) \subseteq RowSet BY DEF RowSet
<1> HIDE DEF rows
<1>3. rows \in Seq(RowSet) BY <1>1, <1>2
<1>4. QED BY <1>1, <1>3 DEF rows

\* The rows of a page's children, child by child, when prev has each page's.
Parts(children, prev) ==
  [i \in DOMAIN children |-> IF children[i] \in Pages THEN prev[children[i]] ELSE <<>>]

LEMMA PartsType ==
  ASSUME NEW children \in Seq(Nat), NEW prev \in [Pages -> Seq(RowSet)]
  PROVE  Parts(children, prev) \in Seq(Seq(RowSet))
<1>1. \A i \in 1..Len(children) : Parts(children, prev)[i] \in Seq(RowSet)
  BY DEF Parts
<1>2. DOMAIN Parts(children, prev) = 1..Len(children) /\ Len(children) \in Nat BY DEF Parts
<1>3. Parts(children, prev) = [i \in 1..Len(children) |-> Parts(children, prev)[i]]
  BY <1>2 DEF Parts
<1>4. QED BY <1>1, <1>2, <1>3, IsASeq

\* What RowsIn computes, level by level.
LEMMA RowsInIs ==
  ASSUME NEW c \in [Pages -> Versions]
  PROVE  /\ \A n \in 0..(MaxDepth + 1) : RowsIn(c)[n] \in [Pages -> Seq(RowSet)]
         /\ \A n \in 1..(MaxDepth + 1), p \in Pages :
              RowsIn(c)[n][p] = Node[p][c[p]].rows
                                  \o FlattenSeq(Parts(Node[p][c[p]].children, RowsIn(c)[n - 1]))
<1> DEFINE N == MaxDepth + 1
           S == [Pages -> Seq(RowSet)]
           base == [p \in Pages |-> <<>>]
           Level(prev) == [p \in Pages |-> Node[p][c[p]].rows \o FlattenSeq(Parts(Node[p][c[p]].children, prev))]
           step == [x \in S \X (1..N) |-> Level(x[1])]
           Tables(g) == g = [n \in 0..N |->
             [p \in Pages |->
                IF n = 0 THEN <<>>
                ELSE Node[p][c[p]].rows \o
                       FlattenSeq([i \in DOMAIN Node[p][c[p]].children |->
                                     IF Node[p][c[p]].children[i] \in Pages
                                     THEN g[n - 1][Node[p][c[p]].children[i]]
                                     ELSE <<>>])]]
           f == CHOOSE g : Tables(g)
<1>1. N \in Nat /\ N >= 1 BY SqliteAssumption
<1>2. base \in S OBVIOUS
<1>3. \A prev \in S : Level(prev) \in S
  <2> SUFFICES ASSUME NEW prev \in S, NEW p \in Pages
               PROVE  Node[p][c[p]].rows \o FlattenSeq(Parts(Node[p][c[p]].children, prev)) \in Seq(RowSet)
    OBVIOUS
  <2>1. Node[p][c[p]].children \in Seq(Nat) /\ Node[p][c[p]].rows \in Seq(RowSet) BY NodeIs
  <2>2. FlattenSeq(Parts(Node[p][c[p]].children, prev)) \in Seq(RowSet)
    BY <2>1, PartsType, FlattenType
  <2>3. QED BY <2>1, <2>2, ConcatProperties
<1>4. step \in [S \X (1..N) -> S] /\ \A prev \in S, n \in 1..N : step[<<prev, n>>] = Level(prev)
  <2> HIDE DEF S, Level
  <2>1. \A x \in S \X (1..N) : x[1] \in S OBVIOUS
  <2>2. QED BY <1>3, <2>1
<1>5. \A g, n, p : [i \in DOMAIN Node[p][c[p]].children |->
                      IF Node[p][c[p]].children[i] \in Pages
                      THEN g[n - 1][Node[p][c[p]].children[i]] ELSE <<>>]
                   = Parts(Node[p][c[p]].children, g[n - 1])
  BY DEF Parts
<1> HIDE DEF base, step
<1>6. PICK g \in [0..N -> S] : Folds(g, N, base, step)
  <2> HIDE DEF S, N
  <2>1. QED BY <1>1, <1>2, <1>4, FoldExists
<1>7. g[0] = base /\ \A n \in 1..N : g[n] = Level(g[n - 1])
  <2> HIDE DEF S, Level
  <2>1. \A n \in 0..N : g[n] = IF n = 0 THEN base ELSE step[<<g[n - 1], n>>] BY <1>6 DEF Folds
  <2>2. \A n \in 1..N : n \in 0..N /\ n # 0 /\ n - 1 \in 0..N BY <1>1
  <2>3. 0 \in 0..N BY <1>1
  <2>4. QED BY <1>4, <1>6, <2>1, <2>2, <2>3
<1>8. Tables(g)
  <2> DEFINE Entry(n, p) == IF n = 0 THEN <<>>
                            ELSE Node[p][c[p]].rows \o FlattenSeq(Parts(Node[p][c[p]].children, g[n - 1]))
  <2>1. Tables(g) <=> g = [n \in 0..N |-> [p \in Pages |-> Entry(n, p)]]
    BY Zenon DEF Parts
  <2>2. \A n \in 0..N : g[n] = [p \in Pages |-> Entry(n, p)]
    <3> SUFFICES ASSUME NEW n \in 0..N PROVE g[n] = [p \in Pages |-> Entry(n, p)]
      OBVIOUS
    <3>1. CASE n = 0 BY <1>7, <3>1 DEF base
    <3>2. CASE n # 0
      <4>1. n \in 1..N BY <3>2
      <4>2. g[n] = Level(g[n - 1]) BY <1>7, <4>1
      <4>3. QED BY <3>2, <4>2
    <3>3. QED BY <3>1, <3>2
  <2> HIDE DEF Entry, Tables
  <2>3. QED BY <1>6, <2>1, <2>2
<1>9. Tables(f)
  <2> HIDE DEF Tables
  <2>1. QED BY <1>8
<1>10. RowsIn(c) = f BY DEF RowsIn
<1> HIDE DEF f
<1>11. \A n \in 1..N : f[n] = Level(f[n - 1])
  <2> SUFFICES ASSUME NEW n \in 1..N PROVE f[n] = Level(f[n - 1])
    OBVIOUS
  <2>1. n \in 0..N /\ n # 0 OBVIOUS
  <2>2. QED BY <1>9, <2>1 DEF Parts
<1>12. \A n \in 0..N : f[n] \in [Pages -> Seq(RowSet)]
  <2>1. f[0] = base
    <3>1. 0 \in 0..N BY <1>1
    <3>2. QED BY <1>9, <3>1 DEF base
  <2> DEFINE Good == {n \in Nat : n <= N => f[n] \in S}
  <2>3. 0 \in Good BY <1>2, <2>1
  <2>4. ASSUME NEW n \in Nat, n \in Good PROVE n + 1 \in Good
    <3> SUFFICES ASSUME n + 1 <= N PROVE f[n + 1] \in S
      OBVIOUS
    <3>1. n + 1 \in 1..N /\ (n + 1) - 1 = n BY <1>1
    <3>2. f[n] \in S BY <1>1, <2>4
    <3>3. f[n + 1] = Level(f[n]) BY <1>11, <3>1
    <3>4. QED BY <1>3, <3>2, <3>3
  <2> HIDE DEF Good, S
  <2>5. Nat \subseteq Good BY <2>3, <2>4, NatInductionOnSets
  <2>6. QED BY <2>5 DEF Good, S
<1>13. \A n \in 1..N, p \in Pages :
         f[n][p] = Node[p][c[p]].rows \o FlattenSeq(Parts(Node[p][c[p]].children, f[n - 1]))
  BY <1>11
<1>14. QED BY <1>10, <1>12, <1>13

\* What the walk has still to read of a page on its stack.
Entry == [page : Nat, depth : 0..(MaxDepth + 1)]
Below(c, e) == IF e.page \in Pages THEN RowsIn(c)[MaxDepth + 1 - e.depth][e.page] ELSE <<>>
Left(c, stack) == [i \in DOMAIN stack |-> Below(c, stack[i])]

\* The rows read and those still to read are the table's.
Walks(c, s) ==
  /\ s = [stack |-> s.stack, seen |-> s.seen, rows |-> s.rows]
  /\ s.stack \in Seq(Entry) /\ s.rows \in Seq(RowSet)
  /\ s.rows \o FlattenSeq(Left(c, s.stack)) = RowsBelow(c)

LEMMA BelowType ==
  ASSUME NEW c \in [Pages -> Versions], NEW e \in Entry
  PROVE  Below(c, e) \in Seq(RowSet)
<1>1. CASE e.page \in Pages
  <2>1. MaxDepth + 1 - e.depth \in 0..(MaxDepth + 1) BY SqliteAssumption DEF Entry
  <2>2. RowsIn(c)[MaxDepth + 1 - e.depth] \in [Pages -> Seq(RowSet)] BY <2>1, RowsInIs
  <2>3. QED BY <1>1, <2>2 DEF Below
<1>2. CASE e.page \notin Pages BY <1>2 DEF Below
<1>3. QED BY <1>1, <1>2

LEMMA LeftType ==
  ASSUME NEW c \in [Pages -> Versions], NEW stack \in Seq(Entry)
  PROVE  Left(c, stack) \in Seq(Seq(RowSet)) /\ Len(Left(c, stack)) = Len(stack)
<1>1. \A i \in 1..Len(stack) : stack[i] \in Entry OBVIOUS
<1>2. \A i \in 1..Len(stack) : Left(c, stack)[i] \in Seq(RowSet) BY <1>1, BelowType DEF Left
<1>3. Left(c, stack) = [i \in 1..Len(stack) |-> Left(c, stack)[i]] /\ Len(stack) \in Nat BY DEF Left
<1>4. QED BY <1>2, <1>3, IsASeq

LEMMA LeftConcat ==
  ASSUME NEW c \in [Pages -> Versions], NEW a \in Seq(Entry), NEW b \in Seq(Entry)
  PROVE  Left(c, a \o b) = Left(c, a) \o Left(c, b)
<1> DEFINE x == Left(c, a)
           y == Left(c, b)
           z == Left(c, a \o b)
<1>1. /\ a \o b \in Seq(Entry) /\ Len(a \o b) = Len(a) + Len(b)
      /\ \A i \in 1..(Len(a) + Len(b)) : (a \o b)[i] = IF i <= Len(a) THEN a[i] ELSE b[i - Len(a)]
  BY ConcatProperties
<1>2. /\ x \in Seq(Seq(RowSet)) /\ Len(x) = Len(a) /\ y \in Seq(Seq(RowSet)) /\ Len(y) = Len(b)
      /\ z \in Seq(Seq(RowSet)) /\ Len(z) = Len(a) + Len(b)
  BY <1>1, LeftType
<1>3. /\ \A i \in 1..Len(a) : x[i] = Below(c, a[i])
      /\ \A i \in 1..Len(b) : y[i] = Below(c, b[i])
      /\ \A i \in 1..(Len(a) + Len(b)) : z[i] = Below(c, (a \o b)[i])
  BY <1>1 DEF Left
<1>4. Len(a) \in Nat /\ Len(b) \in Nat BY LenProperties
<1> HIDE DEF x, y, z
<1>5. /\ x \o y \in Seq(Seq(RowSet)) /\ Len(x \o y) = Len(a) + Len(b)
      /\ \A i \in 1..(Len(a) + Len(b)) : (x \o y)[i] = IF i <= Len(a) THEN x[i] ELSE y[i - Len(a)]
  <2>1. /\ x \o y \in Seq(Seq(RowSet)) /\ Len(x \o y) = Len(x) + Len(y)
        /\ \A i \in 1..(Len(x) + Len(y)) : (x \o y)[i] = IF i <= Len(x) THEN x[i] ELSE y[i - Len(x)]
    <3> DEFINE T == Seq(RowSet)
    <3>1. x \in Seq(T) /\ y \in Seq(T) BY <1>2
    <3> HIDE DEF T
    <3>2. /\ x \o y \in Seq(T) /\ Len(x \o y) = Len(x) + Len(y)
          /\ \A i \in 1..(Len(x) + Len(y)) : (x \o y)[i] = IF i <= Len(x) THEN x[i] ELSE y[i - Len(x)]
      BY <3>1, ConcatProperties
    <3>3. QED BY <3>2 DEF T
  <2>2. QED BY <1>2, <2>1
<1>6. ASSUME NEW i \in 1..(Len(a) + Len(b)) PROVE z[i] = (x \o y)[i]
  <2>1. CASE i <= Len(a)
    <3>1. i \in 1..Len(a) BY <1>4, <2>1
    <3>2. QED BY <1>1, <1>3, <1>5, <2>1, <3>1
  <2>2. CASE ~(i <= Len(a))
    <3>1. i - Len(a) \in 1..Len(b) BY <1>4, <2>2
    <3>2. QED BY <1>1, <1>3, <1>5, <2>2, <3>1
  <2>3. QED BY <2>1, <2>2
<1>7. z = x \o y BY <1>2, <1>5, <1>6, SeqEqual
<1>8. QED BY <1>7 DEF x, y, z

LEMMA WalkStart == ASSUME NEW c \in [Pages -> Versions] PROVE Walks(c, ScanStart)
<1> DEFINE e == [page |-> RootPage, depth |-> 0]
<1>1. e \in Entry /\ e.page \in Pages /\ e.depth = 0 BY SqliteAssumption DEF Entry, Pages
<1>2. Below(c, e) = RowsBelow(c)
  <2>1. MaxDepth + 1 - e.depth = MaxDepth + 1 BY <1>1, SqliteAssumption
  <2>2. QED BY <1>1, <2>1 DEF Below, RowsBelow
<1>3. ScanStart = [stack |-> <<e>>, seen |-> {}, rows |-> <<>>] BY DEF ScanStart
<1> HIDE DEF e
<1>4. Left(c, <<e>>) = <<Below(c, e)>> BY DEF Left
<1>5. Below(c, e) \in Seq(RowSet) BY <1>1, BelowType
<1>6. FlattenSeq(Left(c, <<e>>)) = RowsBelow(c) /\ RowsBelow(c) \in Seq(RowSet)
  BY <1>2, <1>4, <1>5, FlattenOne
<1>7. <<>> \o FlattenSeq(Left(c, <<e>>)) = RowsBelow(c) BY <1>6, ConcatEmptySeq
<1>8. <<e>> \in Seq(Entry) /\ <<>> \in Seq(RowSet) BY <1>1
<1>9. QED BY <1>3, <1>7, <1>8 DEF Walks

LEMMA WalkVisit ==
  ASSUME NEW c \in [Pages -> Versions], NEW s, Walks(c, s), s.stack # <<>>, ~Refused(s)
  PROVE  Walks(c, Visit(s, c))
<1> DEFINE top == Head(s.stack)
           rest == Tail(s.stack)
           children == Node[top.page][c[top.page]].children
           own == Node[top.page][c[top.page]].rows
           kids == [i \in DOMAIN children |-> [page |-> children[i], depth |-> top.depth + 1]]
           n == MaxDepth + 1 - top.depth
           v == Visit(s, c)
<1>1. top \in Entry /\ rest \in Seq(Entry) /\ s.stack = <<top>> \o rest
  <2>1. s.stack \in Seq(Entry) BY DEF Walks
  <2>2. QED BY <2>1
<1>2. top.page \in Pages /\ top.depth \in 0..MaxDepth /\ MaxDepth \in Nat
  BY <1>1, SqliteAssumption DEF Refused, Entry
<1>3. /\ v = [stack |-> kids \o rest, seen |-> s.seen \cup {top.page}, rows |-> s.rows \o own]
  <2>1. s = [stack |-> s.stack, seen |-> s.seen, rows |-> s.rows] BY DEF Walks
  <2>2. v = [s EXCEPT !.seen = @ \cup {top.page}, !.rows = @ \o own, !.stack = kids \o Tail(@)]
    BY DEF Visit
  <2> HIDE DEF v, kids, own, children, top
  <2>3. QED BY <2>1, <2>2
<1>4. children \in Seq(Nat) /\ own \in Seq(RowSet)
  <2>1. c[top.page] \in Versions BY <1>2
  <2>2. QED BY <1>2, <2>1, NodeIs
<1> HIDE DEF top, rest, children, own, v
<1>5. n \in 1..(MaxDepth + 1) /\ n \in 0..(MaxDepth + 1) /\ n - 1 \in 0..(MaxDepth + 1)
      /\ MaxDepth + 1 - (top.depth + 1) = n - 1 /\ top.depth + 1 \in 0..(MaxDepth + 1)
  BY <1>2
<1>6. kids \in Seq(Entry)
  <2>1. \A i \in 1..Len(children) : kids[i] \in Entry BY <1>4, <1>5 DEF Entry
  <2>2. kids = [i \in 1..Len(children) |-> kids[i]] /\ Len(children) \in Nat BY <1>4
  <2> HIDE DEF kids
  <2>3. QED BY <2>1, <2>2, IsASeq
<1>7. Left(c, kids) = Parts(children, RowsIn(c)[n - 1])
  <2>1. DOMAIN kids = DOMAIN children OBVIOUS
  <2>2. \A i \in DOMAIN children : Below(c, kids[i]) =
          IF children[i] \in Pages THEN RowsIn(c)[n - 1][children[i]] ELSE <<>>
    BY <1>5 DEF Below
  <2> HIDE DEF kids, n
  <2>3. QED BY <2>1, <2>2 DEF Left, Parts
<1> HIDE DEF kids, n
<1> DEFINE k == FlattenSeq(Left(c, kids))
           r == FlattenSeq(Left(c, rest))
<1>8. Below(c, top) = own \o k
  <2>1. RowsIn(c)[n][top.page] = own \o FlattenSeq(Parts(children, RowsIn(c)[n - 1]))
    BY <1>2, <1>5, RowsInIs DEF own, children
  <2>2. QED BY <1>2, <1>7, <2>1 DEF Below, n
<1>9. k \in Seq(RowSet) /\ r \in Seq(RowSet) /\ Below(c, top) \in Seq(RowSet) /\ s.rows \in Seq(RowSet)
  BY <1>1, <1>6, LeftType, FlattenType, BelowType DEF Walks
<1>10. FlattenSeq(Left(c, s.stack)) = Below(c, top) \o r
  <2>1. <<top>> \in Seq(Entry) /\ Left(c, <<top>>) = <<Below(c, top)>> BY <1>1 DEF Left
  <2>2. Left(c, s.stack) = <<Below(c, top)>> \o Left(c, rest) BY <1>1, <2>1, LeftConcat
  <2>3. <<Below(c, top)>> \in Seq(Seq(RowSet)) /\ Left(c, rest) \in Seq(Seq(RowSet))
    BY <1>1, <1>9, LeftType
  <2>4. FlattenSeq(Left(c, s.stack)) = FlattenSeq(<<Below(c, top)>>) \o r BY <2>2, <2>3, FlattenConcat
  <2>5. FlattenSeq(<<Below(c, top)>>) = Below(c, top) BY <1>9, FlattenOne
  <2>6. QED BY <2>4, <2>5
<1>11. FlattenSeq(Left(c, kids \o rest)) = k \o r
  <2>1. Left(c, kids \o rest) = Left(c, kids) \o Left(c, rest) BY <1>1, <1>6, LeftConcat
  <2>2. Left(c, kids) \in Seq(Seq(RowSet)) /\ Left(c, rest) \in Seq(Seq(RowSet)) BY <1>1, <1>6, LeftType
  <2>3. QED BY <2>1, <2>2, FlattenConcat
<1> HIDE DEF k, r
<1>12. s.rows \o ((own \o k) \o r) = RowsBelow(c) BY <1>8, <1>10 DEF Walks
<1>13. (s.rows \o own) \o (k \o r) = RowsBelow(c)
  <2> DEFINE rows == s.rows
  <2>1. rows \in Seq(RowSet) /\ own \in Seq(RowSet) /\ k \in Seq(RowSet) /\ r \in Seq(RowSet)
    BY <1>4, <1>9
  <2>2. rows \o ((own \o k) \o r) = RowsBelow(c) BY <1>12
  <2> HIDE DEF rows
  <2>3. own \o k \in Seq(RowSet) /\ k \o r \in Seq(RowSet) BY <2>1, ConcatProperties
  <2>4. (rows \o own) \o (k \o r) = rows \o (own \o (k \o r))
    <3> DEFINE after == k \o r
    <3>1. rows \in Seq(RowSet) /\ own \in Seq(RowSet) /\ after \in Seq(RowSet) BY <2>1, <2>3
    <3> HIDE DEF after
    <3>2. (rows \o own) \o after = rows \o (own \o after) BY <3>1, ConcatAssociative
    <3>3. QED BY <3>2 DEF after
  <2>5. (own \o k) \o r = own \o (k \o r) BY <2>1, ConcatAssociative
  <2>6. QED BY <2>2, <2>4, <2>5 DEF rows
<1>14. v.stack = kids \o rest /\ v.rows = s.rows \o own BY <1>3
<1>15. v.stack \in Seq(Entry) /\ v.rows \in Seq(RowSet)
  BY <1>1, <1>4, <1>6, <1>9, <1>14, ConcatProperties
<1>16. Walks(c, v)
  <2>1. v = [stack |-> v.stack, seen |-> v.seen, rows |-> v.rows] BY <1>3
  <2>2. v.rows \o FlattenSeq(Left(c, v.stack)) = RowsBelow(c) BY <1>11, <1>13, <1>14
  <2>3. QED BY <1>15, <2>1, <2>2 DEF Walks
<1>17. QED BY <1>16 DEF v

-----------------------------------------------------------------------------
(* scan *)

\* Every byte of the store and of the copy is of a known version, and until
\* the copy is read to its end the rows read and those still to read are its.
WalkInv ==
  /\ \A p \in Pages : main[p] \in Versions /\ copy.main[p] \in Versions
  /\ ~Accepted => scan = ScanStart
  /\ pc = "Read" => scan.stack = <<>>
  /\ pc \in {"scan", "Read"} => Walks(Contents(copy.main, copy.log), scan)

LEMMA ContentsType ==
  ASSUME NEW f, NEW l \in Log, \A p \in Pages : f[p] \in Versions
  PROVE  /\ Contents(f, l) \in [Pages -> Versions]
         /\ \A p \in Pages : PageOf(f, l, p) \in Versions
<1>1. \A i \in 1..Len(l.frames) : l.frames[i].version \in Versions
  <2>1. \A i \in 1..Len(l.frames) : l.frames[i] \in Frame BY DEF Log
  <2>2. QED BY <2>1 DEF Frame
<1>2. Committed(l) \in 0..Len(l.frames) /\ Len(l.frames) \in Nat
  BY CommittedIs, LenProperties DEF Log
<1>3. \A m \in 1..Committed(l) : m \in 1..Len(l.frames) BY <1>2
<1>4. ASSUME NEW p \in Pages PROVE PageOf(f, l, p) \in Versions
  <2>1. PageOf(f, l, p) = f[p] \/ \E m \in 1..Committed(l) : PageOf(f, l, p) = l.frames[m].version
    BY ImageOf
  <2>2. QED BY <1>1, <1>3, <2>1
<1>5. QED BY <1>4 DEF Contents

LEMMA WalkBrowser == ASSUME IInv, WalkInv, Browser PROVE WalkInv'
<1>1. UNCHANGED <<pc, copy, scan>> BY DEF Browser, takeVars
<1>2. BrowserStep BY DEF Browser, Writes, Closes, Elsewhere, BrowserStep
<1>3. ASSUME NEW q \in Pages, NEW v \in Versions, main' = [main EXCEPT ![q] = v]
      PROVE  \A p \in Pages : main'[p] \in Versions
  <2>1. \A p \in Pages : main'[p] = IF p = q THEN v ELSE main[p]
    <3>1. IsPages(main) BY DEF IInv, StoreInv
    <3>2. \A p \in Pages : [main EXCEPT ![q] = v][p] = IF p = q THEN v ELSE main[p]
      BY <3>1 DEF IsPages
    <3>3. QED BY <1>3, <3>2
  <2>2. QED BY <2>1 DEF WalkInv
<1>4. CASE \E p \in Pages : WritePage(p)
  <2>1. PICK q \in Pages : WritePage(q) BY <1>4
  <2>2. main' = [main EXCEPT ![q] = open.number] /\ open \in Transaction
    BY <2>1 DEF WritePage, JournalHot, IInv, StoreInv
  <2>3. open.number \in Versions BY <2>2, Bounds DEF Transaction
  <2>4. QED BY <1>1, <1>3, <2>2, <2>3 DEF WalkInv, Accepted
<1>5. CASE \E p \in Pages : RestorePage(p)
  BY <1>1, <1>3, <1>5 DEF RestorePage, WalkInv, Accepted
<1>6. CASE \E p \in Pages : Checkpoint(p)
  <2>1. PICK q \in Pages : main' = [main EXCEPT ![q] = PageOf(main, log, q)] BY <1>6 DEF Checkpoint
  <2>2. PageOf(main, log, q) \in Versions BY ContentsType DEF WalkInv, IInv, StoreInv
  <2>3. QED BY <1>1, <1>3, <2>1, <2>2 DEF WalkInv, Accepted
<1>7. CASE main' = main BY <1>1, <1>7 DEF WalkInv, Accepted
<1>8. QED
  BY <1>2, <1>4, <1>5, <1>6, <1>7
  DEF BrowserStep, Begin, Commit, Rollback, WriteFrame, RestartLog

LEMMA WalkReader == ASSUME IInv, WalkInv, Reader PROVE WalkInv'
<1>1. main' = main
  BY DEF Reader, FirstJournalCheck, ReadMain, ReadLog, CompareMain, CompareLog, LastJournalCheck,
         FingerprintMain, FingerprintLog, FingerprintJournal, ReadFails, ScanPage, sourceVars
<1>2. CASE ReadMain
  <2>1. /\ pc = "main1" /\ at \in Pages /\ UNCHANGED scan /\ ~Accepted'
        /\ copy' = copy \/ copy' = [copy EXCEPT !.main[at] = main[at]]
    BY <1>2 DEF ReadMain, Goto, Accepted, IInv, TakeInv
  <2>2. \A p \in Pages : copy'.main[p] \in Versions
    <3>1. CASE copy' = copy BY <3>1 DEF WalkInv
    <3>2. CASE copy' = [copy EXCEPT !.main[at] = main[at]]
      <4>1. copy'.main = [copy.main EXCEPT ![at] = main[at]] BY <3>2 DEF IInv, TakeInv
      <4>2. \A p \in Pages : copy'.main[p] = IF p = at THEN main[at] ELSE copy.main[p]
        BY <2>1, <4>1, PagesExcept DEF IInv, TakeInv
      <4>3. QED BY <2>1, <4>2 DEF WalkInv
    <3>3. QED BY <2>1, <3>1, <3>2
  <2>3. QED BY <1>1, <2>1, <2>2 DEF WalkInv, Accepted
<1>3. CASE ReadLog
  <2>1. UNCHANGED scan /\ ~Accepted' /\ ~Accepted /\ copy'.main = copy.main
    BY <1>3 DEF ReadLog, Goto, Accepted, IInv, TakeInv
  <2>2. QED BY <1>1, <2>1 DEF WalkInv, Accepted
<1>4. CASE LastJournalCheck
  <2>1. pc = "check2" /\ pc' \in {"fpMain", "scan"} /\ UNCHANGED <<copy, scan>>
    BY <1>4 DEF LastJournalCheck, Goto
  <2>2. scan = ScanStart BY <2>1 DEF WalkInv, Accepted
  <2>3. Contents(copy.main, copy.log) \in [Pages -> Versions]
    BY ContentsType DEF WalkInv, IInv, TakeInv
  <2>4. Walks(Contents(copy.main, copy.log), scan) BY <2>2, <2>3, WalkStart
  <2>5. QED BY <1>1, <2>1, <2>2, <2>4 DEF WalkInv, Accepted
<1>5. CASE ScanPage
  <2>1. pc = "scan" /\ UNCHANGED copy BY <1>5 DEF ScanPage
  <2> DEFINE c == Contents(copy.main, copy.log)
  <2>2. c \in [Pages -> Versions] /\ Walks(c, scan)
    BY <2>1, ContentsType DEF WalkInv, IInv, TakeInv
  <2>3. \/ scan.stack = <<>> /\ pc' = "Read" /\ scan' = scan
        \/ pc' = "Unreadable"
        \/ scan.stack # <<>> /\ ~Refused(scan) /\ pc' = "scan" /\ scan' = Visit(scan, c)
    BY <1>5 DEF ScanPage, Goto
  <2>4. CASE scan.stack # <<>> /\ ~Refused(scan) /\ pc' = "scan" /\ scan' = Visit(scan, c)
    <3>1. Walks(c, scan') BY <2>2, <2>4, WalkVisit
    <3>2. QED BY <1>1, <2>1, <2>4, <3>1 DEF WalkInv, Accepted
  <2>5. QED BY <1>1, <2>1, <2>2, <2>3, <2>4 DEF WalkInv, Accepted
<1>6. CASE \/ FirstJournalCheck \/ CompareMain \/ CompareLog
           \/ FingerprintMain \/ FingerprintLog \/ FingerprintJournal \/ ReadFails
  <2>1. UNCHANGED <<copy, scan>> /\ ~Accepted /\ ~Accepted'
    <3>1. CASE ReadFails BY <3>1 DEF ReadFails, Goto, Accepted, Ended
    <3>2. CASE CompareMain \/ CompareLog
      BY <3>2 DEF CompareMain, CompareLog, NextAttempt, Goto, Accepted
    <3>3. QED
      BY <1>6, <3>1, <3>2
      DEF FirstJournalCheck, FingerprintMain, FingerprintLog, FingerprintJournal, NextAttempt, Goto,
          Accepted
  <2>2. QED BY <1>1, <2>1 DEF WalkInv, Accepted
<1>7. QED BY <1>2, <1>3, <1>4, <1>5, <1>6 DEF Reader

LEMMA WalkSteps == ASSUME IInv, WalkInv, [Next]_vars PROVE WalkInv'
<1>1. CASE UNCHANGED vars
  <2>1. UNCHANGED <<main, copy, pc, scan>> BY <1>1 DEF vars, takeVars, sourceVars
  <2>2. QED BY <2>1 DEF WalkInv, Accepted
<1>2. QED BY <1>1, WalkBrowser, WalkReader DEF Next

LEMMA WalkInit == ASSUME Init PROVE WalkInv
<1>1. pc = "check1" /\ scan = ScanStart /\ copy.main = [p \in Pages |-> 0] BY DEF Init
<1>2. \A p \in Pages : main[p] \in Versions
  <2>1. PICK v \in {0, Malformed} :
          \/ main = [p \in Pages |-> v]
          \/ MaxTransactions > 0 /\ \E upto \in 0..LastPage : main = [p \in Pages |-> IF p <= upto THEN 1 ELSE v]
    BY DEF Init, SourceInit
  <2>2. {0, Malformed} \subseteq Versions /\ (MaxTransactions > 0 => 1 \in Versions) BY Bounds
  <2>3. QED BY <2>1, <2>2
<1>3. 0 \in Versions BY Bounds
<1>4. QED BY <1>1, <1>2, <1>3 DEF WalkInv, Accepted

LEMMA WalkEnds ==
  ASSUME IInv, WalkInv, pc = "Read" PROVE scan.rows = RowsBelow(Contents(copy.main, copy.log))
<1> DEFINE c == Contents(copy.main, copy.log)
<1>1. Walks(c, scan) /\ scan.stack = <<>> BY DEF WalkInv
<1>2. Left(c, <<>>) = <<>> BY DEF Left
<1>3. <<>> \in Seq(Seq(RowSet)) OBVIOUS
<1>4. FlattenSeq(Left(c, scan.stack)) = <<>> BY <1>1, <1>2, <1>3, FlattenType
<1>5. QED BY <1>1, <1>4, ConcatEmptySeq DEF Walks

(* What scan reads of an accepted copy, whatever the tables hold and the   *)
(* browser did meanwhile: the rows of one state it committed, each once,   *)
(* in the table's order and none left out (snapshot.rs, take; sqlite.rs,   *)
(* scan).                                                                  *)
THEOREM RowsAreOfOneMoment == Spec => []RowsOfOneMoment
<1>1. IInv /\ MomentInv /\ WalkInv => RowsOfOneMoment
  BY WalkEnds DEF MomentInv, SealedInv, OneMoment, Accepted, RowsOfOneMoment
<1>2. Init => IInv /\ MomentInv /\ WalkInv BY Start, MomentStart, WalkInit
<1>3. IInv /\ MomentInv /\ WalkInv /\ [Next]_vars => IInv' /\ MomentInv' /\ WalkInv'
  BY Steps, MomentSteps, WalkSteps
<1>4. QED BY <1>1, <1>2, <1>3, PTL DEF Spec
=============================================================================
