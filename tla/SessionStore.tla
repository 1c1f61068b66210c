---------------------------- MODULE SessionStore ----------------------------
(***************************************************************************)
(* The session file, crates/evreos-shell/src/session.rs: SessionStore      *)
(* saves the tabs of the normal windows as a temporary file and a rename,  *)
(* and a later run of the program restores them.  The file system may      *)
(* refuse a write or a rename, and the program may be killed at any step,  *)
(* between the two calls of a save included.                               *)
(*                                                                         *)
(* Nobody else writes session.toml.  A load that returns an error changes  *)
(* nothing; what a program that cannot read its session does next is open  *)
(* at this commit, where only the tests call load, and left out.  So is    *)
(* saved_at_epoch_ms: nothing reads it back.                               *)
(***************************************************************************)
EXTENDS TabStrip, SessionCodec

CONSTANTS NoSession, Torn

\* What normal windows show they may show after a restart too, and no text of
\* a private window is written as one of a normal window is.
ASSUME ReadBackAssumption == \A a \in NormalAddresses : RoundTrip(a) \in NormalAddresses
ASSUME ApartAssumption ==
  {Encode(a) : a \in NormalAddresses} \cap {Encode(a) : a \in PrivateAddresses} = {}
ASSUME NoSessionAssumption == NoSession \notin Seq([addresses : Seq(Addresses), active : Nat])

VARIABLES
  running,   \* whether the program runs
  file,      \* session.toml: a stored session or NoSession
  temp,      \* the temporary file of the save under way: Torn while written
  leftover   \* texts in temporary files nothing will remove

vars == <<windows, nextTab, running, file, temp, leftover>>
diskVars == <<file, temp, leftover>>

Init ==
  /\ StripInit
  /\ running = TRUE
  /\ file = NoSession
  /\ temp = NoSession
  /\ leftover = {}

\* SessionWindow::new sorts by position, stably.
SortTabs(tabs) ==
  LET sorted[n \in 0..Len(tabs)] ==
        IF n = 0 THEN <<>> ELSE InsertByPosition(sorted[n - 1], tabs[n])
  IN sorted[Len(tabs)]

\* What save serialises of one window, and of all but the private ones.
StoredWindow(win) ==
  SortTabs([i \in DOMAIN win.tabs |->
    [address |-> Encode(win.tabs[i].address), position |-> win.tabs[i].position,
     active |-> win.active = win.tabs[i].id]])

\* Mutant: every window is written.
SnapshotAll(wins) == [i \in DOMAIN wins |-> StoredWindow(wins[i])]

NormalOnes(wins) ==
  LET normal[n \in 0..Len(wins)] ==
        IF n = 0 THEN <<>>
        ELSE IF wins[n].kind = "Normal" THEN Append(normal[n - 1], wins[n])
        ELSE normal[n - 1]
  IN normal[Len(wins)]

Snapshot(wins) ==
  LET normal == NormalOnes(wins)
  IN [i \in DOMAIN normal |-> StoredWindow(normal[i])]

TextsOf(session) == UNION {{w[i].address : i \in DOMAIN w} : w \in Range(session)}

\* parse_session_file of one window, then the restore_tab calls of restore_into.
RestoreWindow(stored, firstId) ==
  LET parsed == SortTabs([i \in DOMAIN stored |->
                  [stored[i] EXCEPT !.address = Decode(@)]])
      restored[n \in 0..Len(parsed)] ==
        IF n = 0 THEN NewWindow("Normal")
        ELSE RestoreTab(restored[n - 1], firstId + n - 1, parsed[n])
  IN restored[Len(parsed)]

\* The windows are restored in order, and the ids go on from one to the next.
Restored(session) ==
  LET run[n \in 0..Len(session)] ==
        IF n = 0 THEN [wins |-> <<>>, next |-> 1]
        ELSE LET before == run[n - 1]
             IN [wins |-> Append(before.wins, RestoreWindow(session[n], before.next)),
                 next |-> before.next + Len(session[n])]
  IN run[Len(session)]

(***************************************************************************)
(* Actions.  save runs to its end on the UI thread: while it is under way  *)
(* nothing but a crash happens.                                            *)
(***************************************************************************)

Idle == running /\ temp = NoSession

Edit == Idle /\ StripNext /\ UNCHANGED <<running, diskVars>>

\* fs::write of the temporary file has created it, and then has filled it.
SaveOpen ==
  /\ Idle
  /\ temp' = Torn
  /\ UNCHANGED <<windows, nextTab, running, file, leftover>>

SaveWrite ==
  /\ running = TRUE
  /\ temp = Torn
  /\ temp' = Snapshot(windows)
  /\ UNCHANGED <<windows, nextTab, running, file, leftover>>

SaveRename ==
  /\ running = TRUE
  /\ temp \notin {NoSession, Torn}
  /\ file' = temp
  /\ temp' = NoSession
  /\ UNCHANGED <<windows, nextTab, running, leftover>>

\* What a temporary file that is abandoned leaves on the disk: all of it, or
\* as much as had been written.
Abandon ==
  /\ temp' = NoSession
  /\ \/ temp = Torn /\ \E part \in SUBSET TextsOf(Snapshot(windows)) :
                          leftover' = leftover \cup part
     \/ temp = NoSession /\ UNCHANGED leftover
     \/ temp \notin {NoSession, Torn} /\ leftover' = leftover \cup TextsOf(temp)

\* The write or the rename is refused; save returns the error and removes nothing.
SaveFails ==
  /\ running = TRUE
  /\ temp # NoSession
  /\ Abandon
  /\ UNCHANGED <<windows, nextTab, running, file>>

Clear ==
  /\ Idle
  /\ file' = NoSession
  /\ UNCHANGED <<windows, nextTab, running, temp, leftover>>

\* The program is killed or exits.
Stop ==
  /\ running = TRUE
  /\ running' = FALSE
  /\ windows' = <<>>
  /\ nextTab' = 1
  /\ Abandon
  /\ UNCHANGED file

\* load and restore_into.
Start ==
  /\ ~running
  /\ running' = TRUE
  /\ IF file = NoSession
       THEN UNCHANGED <<windows, nextTab>>
       ELSE windows' = Restored(file).wins /\ nextTab' = Restored(file).next
  /\ UNCHANGED diskVars

Next == Edit \/ SaveOpen \/ SaveWrite \/ SaveRename \/ SaveFails \/ Clear \/ Stop \/ Start

Spec == Init /\ [][Next]_vars

(***************************************************************************)
(* Properties                                                              *)
(***************************************************************************)

(* No text of a private window is ever on the disk, in the session file or *)
(* in a temporary one, whatever windows are open and however often the     *)
(* program saves, fails to and is killed (FR-007).                         *)
Written == (IF file = NoSession THEN {} ELSE TextsOf(file))
             \cup (IF temp \in {NoSession, Torn} THEN {} ELSE TextsOf(temp))
             \cup leftover
PrivateNeverWritten == Written \cap {Encode(a) : a \in PrivateAddresses} = {}

(* What the member sees of a session, and what one stored stands for: what *)
(* will be seen of it.                                                     *)
SeenWindow(win) ==
  [addresses |-> [i \in DOMAIN win.tabs |-> win.tabs[i].address],
   active |-> IF win.tabs = <<>> THEN 0 ELSE IndexOf(win.tabs, win.active)]
Seen(wins) ==
  LET normal == NormalOnes(wins)
  IN [i \in DOMAIN normal |-> SeenWindow(normal[i])]

ReadAs == [text \in {Encode(a) : a \in Addresses} |-> Decode(text)]

StoodFor(stored) ==
  [addresses |-> [i \in DOMAIN stored |-> ReadAs[stored[i].address]],
   active |-> IF stored = <<>> THEN 0 ELSE CHOOSE i \in DOMAIN stored : stored[i].active]

(* The store implements SavedSession: a restart shows the windows, their   *)
(* tabs, the order and the active tab of the last save that went through,  *)
(* all of it or nothing, wherever the program was killed; each address is  *)
(* shown as it is read back, which is as it was where it is Faithful.      *)
Regained == [a \in Addresses |-> RoundTrip(a)]

Saved == INSTANCE SavedSession WITH
  shown <- Seen(windows),
  NothingKept <- NoSession,
  ReadBack <- Regained,
  kept <- IF file = NoSession THEN NoSession
          ELSE [i \in DOMAIN file |-> StoodFor(file[i])],
  running <- running

SessionIsRestored == Saved!Spec
=============================================================================
