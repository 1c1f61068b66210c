------------------------------ MODULE TabStrip ------------------------------
(***************************************************************************)
(* The windows and their tabs: WindowTabs of crates/evreos-shell/src/      *)
(* tabs.rs.  Each window keeps its tabs in the member's order, with every  *)
(* tab's position stored in the tab, and the id of its active tab.         *)
(*                                                                         *)
(* What a navigation does to a tab is module TabNavigation; here a tab's   *)
(* address changes and its load ends, no more.  A title is kept and stored *)
(* as an address is, and left out.                                         *)
(***************************************************************************)
EXTENDS Naturals, Sequences, FiniteSets, SequencesExt

CONSTANTS
  NormalAddresses,   \* texts visited in normal windows
  PrivateAddresses,  \* texts visited in private ones
  NoTab,             \* no active tab
  MaxTabs,           \* bound on the tabs a run of the program opens
  MaxWindows         \* bound on the windows open at once

ASSUME NoTabAssumption == NoTab \notin Nat
ASSUME MaxTabsAssumption == MaxTabs \in Nat
ASSUME MaxWindowsAssumption == MaxWindows \in Nat

Addresses == NormalAddresses \cup PrivateAddresses
TabIds == 1..MaxTabs

VARIABLES
  windows,   \* the open windows, oldest first
  nextTab    \* the id mint_tab_id gives next

stripVars == <<windows, nextTab>>

StripInit == windows = <<>> /\ nextTab = 1

AddressesOf(kind) == IF kind = "Private" THEN PrivateAddresses ELSE NormalAddresses
Ids(tabs) == {tabs[i].id : i \in DOMAIN tabs}
IndexOf(tabs, id) == CHOOSE i \in DOMAIN tabs : tabs[i].id = id

(***************************************************************************)
(* Operations on one window                                                *)
(***************************************************************************)

\* WindowTabs::new
NewWindow(kind) == [kind |-> kind, tabs |-> <<>>, active |-> NoTab]

\* reindex_positions
Reindex(tabs) == [i \in DOMAIN tabs |-> [tabs[i] EXCEPT !.position = i - 1]]

\* Where a stable sort by position puts a tab among tabs already sorted.
InsertByPosition(tabs, tab) ==
  LET before == {i \in DOMAIN tabs : tabs[i].position <= tab.position}
  IN InsertAt(tabs, Cardinality(before) + 1, tab)

\* open_tab
OpenTab(win, id, address) ==
  [win EXCEPT !.tabs = Append(@, [id |-> id, position |-> Len(@), address |-> address,
                                  lifecycle |-> "Loading"]),
              !.active = IF @ = NoTab THEN id ELSE @]

\* Mutant: the active flag is not looked at.
RestoreTabFirstActive(win, id, stored) ==
  [win EXCEPT !.tabs = Reindex(InsertByPosition(@,
                         [id |-> id, position |-> stored.position,
                          address |-> stored.address, lifecycle |-> "RestoredNotLoaded"])),
              !.active = IF @ = NoTab THEN id ELSE @]

\* restore_tab: push, sort, reindex, and the active flag wins.
RestoreTab(win, id, stored) ==
  [win EXCEPT !.tabs = Reindex(InsertByPosition(@,
                         [id |-> id, position |-> stored.position,
                          address |-> stored.address, lifecycle |-> "RestoredNotLoaded"])),
              !.active = IF stored.active \/ @ = NoTab THEN id ELSE @]

\* activate_tab
ActivateTab(win, id) ==
  [win EXCEPT !.tabs[IndexOf(win.tabs, id)].lifecycle =
                CASE @ = "RestoredNotLoaded" -> "Loading"
                  [] @ = "Suspended" -> "Live"
                  [] OTHER -> @,
              !.active = id]

\* Mutant: the tabs after the closed one keep the positions they had.
CloseTabGap(win, id) ==
  LET i == IndexOf(win.tabs, id)
      rest == RemoveAt(win.tabs, i)
  IN [win EXCEPT !.tabs = rest,
                 !.active = IF @ # id THEN @
                            ELSE IF rest = <<>> THEN NoTab
                            ELSE IF i <= Len(rest) THEN rest[i].id
                            ELSE rest[Len(rest)].id]

\* close_tab: the active tab's neighbour takes over.
CloseTab(win, id) ==
  LET i == IndexOf(win.tabs, id)
      rest == Reindex(RemoveAt(win.tabs, i))
  IN [win EXCEPT !.tabs = rest,
                 !.active = IF @ # id THEN @
                            ELSE IF rest = <<>> THEN NoTab
                            ELSE IF i <= Len(rest) THEN rest[i].id
                            ELSE rest[Len(rest)].id]

\* Mutant: the tab trades places with the one at the target.
ReorderTabSwap(win, id, target) ==
  LET i == IndexOf(win.tabs, id)
  IN [win EXCEPT !.tabs = Reindex([@ EXCEPT ![i] = win.tabs[target + 1],
                                            ![target + 1] = win.tabs[i]])]

\* reorder_tab, target counted from 0
ReorderTab(win, id, target) ==
  LET i == IndexOf(win.tabs, id)
  IN [win EXCEPT !.tabs = Reindex(InsertAt(RemoveAt(@, i), target + 1, win.tabs[i]))]

(***************************************************************************)
(* Actions, on the w-th window                                             *)
(***************************************************************************)

Update(w, win) == windows' = [windows EXCEPT ![w] = win] /\ UNCHANGED nextTab

OpenWindow(kind) ==
  /\ Len(windows) < MaxWindows
  /\ windows' = Append(windows, NewWindow(kind))
  /\ UNCHANGED nextTab

CloseWindow(w) ==
  /\ windows' = RemoveAt(windows, w)
  /\ UNCHANGED nextTab

Open(w) ==
  /\ nextTab <= MaxTabs
  /\ \E address \in AddressesOf(windows[w].kind) :
       windows' = [windows EXCEPT ![w] = OpenTab(windows[w], nextTab, address)]
  /\ nextTab' = nextTab + 1

Activate(w, id) == Update(w, ActivateTab(windows[w], id))
Close(w, id) == Update(w, CloseTab(windows[w], id))

Reorder(w, id) ==
  \E target \in 0..(Len(windows[w].tabs) - 1) :
    Update(w, ReorderTab(windows[w], id, target))

SetLifecycle(w, id, from, to) ==
  LET i == IndexOf(windows[w].tabs, id)
  IN /\ windows[w].tabs[i].lifecycle = from
     /\ Update(w, [windows[w] EXCEPT !.tabs[i].lifecycle = to])

Suspend(w, id) == SetLifecycle(w, id, "Live", "Suspended")

Resume(w, id) == SetLifecycle(w, id, "Suspended", "Live")

\* The load ends, or the page moves the tab to another address.
Loaded(w, id) == SetLifecycle(w, id, "Loading", "Live")
Navigated(w, id) ==
  LET i == IndexOf(windows[w].tabs, id)
  IN /\ windows[w].tabs[i].lifecycle = "Live"
     /\ \E address \in AddressesOf(windows[w].kind) :
          Update(w, [windows[w] EXCEPT !.tabs[i].address = address])

StripNext ==
  \/ \E kind \in {"Normal", "Private"} : OpenWindow(kind)
  \/ \E w \in DOMAIN windows :
       \/ CloseWindow(w)
       \/ Open(w)
       \/ \E id \in Ids(windows[w].tabs) :
            \/ Activate(w, id) \/ Close(w, id) \/ Reorder(w, id)
            \/ Suspend(w, id) \/ Resume(w, id) \/ Loaded(w, id) \/ Navigated(w, id)

(***************************************************************************)
(* Properties                                                              *)
(***************************************************************************)

(* The position every tab carries is its place in the bar, no two tabs     *)
(* share an id, and a window that has tabs has exactly one active, which   *)
(* is one of them: after any sequence of opening, restoring, reordering,   *)
(* closing and restarting.                                                 *)
StripConsistent ==
  \A w \in DOMAIN windows :
    LET tabs == windows[w].tabs
    IN /\ \A i \in DOMAIN tabs : tabs[i].position = i - 1
       /\ \A i, j \in DOMAIN tabs : tabs[i].id = tabs[j].id => i = j
       /\ IF tabs = <<>> THEN windows[w].active = NoTab
          ELSE windows[w].active \in Ids(tabs)

\* The tabs that are both before and after, but one, keep their order.
InOrder(before, after, moved) ==
  \A x, y \in (Ids(before) \cap Ids(after)) \ {moved} :
    IndexOf(before, x) < IndexOf(before, y) => IndexOf(after, x) < IndexOf(after, y)

(* No operation moves more than one tab: whatever a step does to a window, *)
(* leaving out at most one tab the others that stay keep their order.      *)
OthersKeepTheirOrder ==
  [][Len(windows') = Len(windows) =>
       \A w \in DOMAIN windows :
         \E moved \in Ids(windows[w].tabs) \cup {NoTab} :
           InOrder(windows[w].tabs, windows'[w].tabs, moved)]_windows
=============================================================================
