---------------------------- MODULE TabNavigation ----------------------------
(***************************************************************************)
(* How a navigation reaches the member: crates/evreos-shell/src/tabs.rs    *)
(* (NavigationTracker, Tab, WindowTabs::handle_navigation_observation and  *)
(* the two timeout checks) driven by an engine.  The tab strip itself, its *)
(* order and its active tab, is module TabStrip.                           *)
(*                                                                         *)
(* Each tab owns a surface of the engine and has its name.  The shell      *)
(* starts navigations, the page starts others, the engine queues           *)
(* observations, the shell polls them one at a time into the tracker and   *)
(* the tab, time passes and the shell looks for loads that have taken too  *)
(* long.                                                                   *)
(*                                                                         *)
(* start_time is kept as the age of the navigation, in ticks, capped at    *)
(* TimeoutBound: check_timeouts reads nothing else of it.  Of              *)
(* loading_started_at only whether it is set is ever read.                 *)
(***************************************************************************)
EXTENDS EngineNavigation, FiniteSets

CONSTANTS
  Windows,      \* the tabs of each window: a partition of Surfaces
  TimeoutBound  \* timeout_bound, in ticks

ASSUME WindowsAssumption == UNION Windows = Surfaces
ASSUME TimeoutBoundAssumption == TimeoutBound \in Nat \ {0}

Tabs == Surfaces

VARIABLES
  tab,      \* the Tab of each surface
  tracker   \* NavigationTracker.navigations

navigationVars == <<surface, queue, nextNav, tab, tracker>>

\* TimedOut is Failed with the timeout message.
TrackerStates == {"Absent", "Loading", "Committed", "Succeeded", "Failed",
                  "TimedOut", "NavigatedAway"}

Absent == [state |-> "Absent", age |-> 0]

\* A tab as open_tab or as restore_tab leaves it.
NewTab(address, opened) ==
  [address |-> address, title |-> NoTitle, epoch |-> FirstEpoch,
   lifecycle |-> IF opened THEN "Loading" ELSE "RestoredNotLoaded",
   indicator |-> opened, inFlight |-> NoNav]

NavigationInit ==
  /\ EngineInit
  /\ \E a \in Destinations : \E opened \in [Tabs -> BOOLEAN] :
       tab = [t \in Tabs |-> NewTab(a, opened[t])]
  /\ tracker = [n \in Navs |-> Absent]

(***************************************************************************)
(* NavigationTracker                                                       *)
(***************************************************************************)

Track(n, state) == tracker' = [tracker EXCEPT ![n] = [state |-> state, age |-> 0]]

\* process_event.  Only the events below change the state of a navigation:
\* Started does when the navigation is unknown, and a later event overwrites
\* whatever was decided before, a timeout included.
ProcessEvent(obs) ==
  CASE obs.kind = "Started" /\ tracker[obs.id].state = "Absent" -> Track(obs.id, "Loading")
    [] obs.kind \in {"Committed", "SameDocumentNavigated"} -> Track(obs.id, "Committed")
    [] obs.kind \in {"Succeeded", "Failed", "NavigatedAway"} -> Track(obs.id, obs.kind)
    [] OTHER -> UNCHANGED tracker

\* check_timeouts: every expired navigation is failed and returned, once.
Expired == {n \in Navs : tracker[n].state = "Loading" /\ tracker[n].age >= TimeoutBound}
FailExpired ==
  tracker' = [n \in Navs |-> IF n \in Expired THEN [state |-> "TimedOut", age |-> 0]
                             ELSE tracker[n]]

(***************************************************************************)
(* Tab                                                                     *)
(***************************************************************************)

\* update_address with the observation's epoch.
UpdateAddress(t, obs) == [tab[t] EXCEPT !.address = obs.address, !.epoch = obs.epoch]

Settle(r, lifecycle) ==
  [r EXCEPT !.lifecycle = lifecycle, !.indicator = FALSE, !.inFlight = NoNav]

\* Mutants of Handled: the tab counts for itself, and a same-document
\* navigation not at all; a failure is shown as a page.
HandledOwnEpoch(t, obs) ==
  CASE obs.kind = "Started" -> [tab[t] EXCEPT !.address = obs.address, !.lifecycle = "Loading"]
    [] obs.kind = "Committed" -> [tab[t] EXCEPT !.address = obs.address, !.epoch = @ + 1]
    [] obs.kind = "SameDocumentNavigated" -> [tab[t] EXCEPT !.address = obs.address]
    [] obs.kind = "Succeeded" -> Settle(tab[t], "Live")
    [] obs.kind = "Failed" -> Settle(tab[t], "Failed")
    [] obs.kind = "TitleChanged" -> [tab[t] EXCEPT !.title = obs.id]
    [] obs.kind = "NavigatedAway" -> Settle(tab[t], tab[t].lifecycle)
    [] OTHER -> tab[t]
HandledFailureLive(t, obs) ==
  CASE obs.kind = "Started" -> [tab[t] EXCEPT !.address = obs.address, !.lifecycle = "Loading"]
    [] obs.kind \in {"Committed", "SameDocumentNavigated"} -> UpdateAddress(t, obs)
    [] obs.kind \in {"Succeeded", "Failed"} -> Settle(tab[t], "Live")
    [] obs.kind = "TitleChanged" -> [tab[t] EXCEPT !.title = obs.id]
    [] obs.kind = "NavigatedAway" -> Settle(tab[t], tab[t].lifecycle)
    [] OTHER -> tab[t]

\* handle_navigation_observation.  It does not look at which navigation the
\* observation belongs to, and Redirected changes nothing.
Handled(t, obs) ==
  CASE obs.kind = "Started" -> [tab[t] EXCEPT !.address = obs.address, !.lifecycle = "Loading"]
    [] obs.kind \in {"Committed", "SameDocumentNavigated"} -> UpdateAddress(t, obs)
    [] obs.kind = "Succeeded" -> Settle(tab[t], "Live")
    [] obs.kind = "Failed" -> Settle(tab[t], "Failed")
    [] obs.kind = "TitleChanged" -> [tab[t] EXCEPT !.title = obs.id]
    [] obs.kind = "NavigatedAway" -> Settle(tab[t], tab[t].lifecycle)
    [] OTHER -> tab[t]

(***************************************************************************)
(* Actions                                                                 *)
(***************************************************************************)

\* The member asks for an address: the engine starts, the tracker records
\* the start and the tab starts loading, in the order the tests wire them.
ShellNavigate(t, address, steps) ==
  /\ StartNavigation(t, address, steps)
  /\ Track(nextNav, "Loading")
  /\ tab' = [tab EXCEPT ![t].lifecycle = "Loading", ![t].indicator = TRUE,
                        ![t].inFlight = nextNav]

\* The page follows a link, runs a script or refreshes.
PageNavigate(t, address, steps) ==
  /\ StartNavigation(t, address, steps)
  /\ UNCHANGED <<tab, tracker>>

PageSameDocument(t, address) ==
  /\ NavigateSameDocument(t, address)
  /\ UNCHANGED <<tab, tracker>>

\* The shell polls one observation into the tracker and the surface's tab.
Poll ==
  /\ queue # <<>>
  /\ LET obs == Head(queue)
     IN /\ ProcessEvent(obs)
        /\ tab' = [tab EXCEPT ![obs.surface] = Handled(obs.surface, obs)]
  /\ queue' = Tail(queue)
  /\ UNCHANGED <<surface, nextNav>>

Tick ==
  /\ \E n \in Navs : tracker[n].state = "Loading" /\ tracker[n].age < TimeoutBound
  /\ tracker' = [n \in Navs |->
       IF tracker[n].state = "Loading" /\ tracker[n].age < TimeoutBound
         THEN [tracker[n] EXCEPT !.age = @ + 1] ELSE tracker[n]]
  /\ UNCHANGED <<engineVars, tab>>

\* Mutant: the expired navigations are given up, the indicators left on.
CheckInFlightTimeoutsStillLoading(w) ==
  /\ Expired # {}
  /\ FailExpired
  /\ UNCHANGED <<engineVars, tab>>

\* check_in_flight_timeouts: the tracker gives up every expired navigation,
\* and the window's tabs with one in flight clear their indicators.  The
\* check of a single tab, resolve_in_flight_timeout, is this one with w the
\* set of that tab.
CheckInFlightTimeouts(w) ==
  /\ Expired # {}
  /\ FailExpired
  /\ tab' = [t \in Tabs |->
       IF t \in w /\ tab[t].inFlight \in Expired THEN [tab[t] EXCEPT !.indicator = FALSE]
       ELSE tab[t]]
  /\ UNCHANGED engineVars

\* suspend, resume and activate_tab
ChangeLifecycle(t, from, to, indicator) ==
  /\ tab[t].lifecycle = from
  /\ tab' = [tab EXCEPT ![t].lifecycle = to, ![t].indicator = indicator]
  /\ UNCHANGED <<engineVars, tracker>>

SuspendTab(t) == ChangeLifecycle(t, "Live", "Suspended", tab[t].indicator)
ResumeTab(t) == ChangeLifecycle(t, "Suspended", "Live", tab[t].indicator)
ActivateRestored(t) == ChangeLifecycle(t, "RestoredNotLoaded", "Loading", TRUE)

Navigate(t) ==
  \E address, target \in Destinations, name \in Scripts :
    \/ ShellNavigate(t, address, Script(name, address, target))
    \/ PageNavigate(t, address, Script(name, address, target))

NavigationNext ==
  \/ \E t \in Tabs :
       \/ Navigate(t)
       \/ \E address \in Destinations : PageSameDocument(t, address)
       \/ SuspendTab(t) \/ ResumeTab(t) \/ ActivateRestored(t)
  \/ Poll
  \/ Tick
  \/ \E w \in Windows : CheckInFlightTimeouts(w)

(***************************************************************************)
(* The event loop keeps polling, time passes, and the shell keeps checking *)
(* the clock.                                                              *)
(***************************************************************************)
Fairness ==
  /\ WF_navigationVars(Poll) /\ WF_navigationVars(Tick)
  /\ \A w \in Windows : WF_navigationVars(CheckInFlightTimeouts(w))
NavigationSpec == NavigationInit /\ [][NavigationNext]_navigationVars /\ Fairness

(***************************************************************************)
(* Properties                                                              *)
(***************************************************************************)

Drained(t) == \A i \in 1..Len(queue) : queue[i].surface # t

(* Once the shell has caught up with the engine, a tab that presents a     *)
(* rendered page (live, or suspended to come back) displays the address of *)
(* the page the engine has: a failed, abandoned or redirected load never   *)
(* passes for the page it was meant to be, however the member's and the    *)
(* page's navigations interleave with suspending and resuming the tab.     *)
LiveShowsThePage ==
  \A t \in Tabs :
    Drained(t) /\ tab[t].lifecycle \in {"Live", "Suspended"} =>
      /\ surface[t].current.address # NoAddress
      /\ tab[t].address = surface[t].current.address

(* The tab's navigation epoch trails the engine's and catches up with it,  *)
(* so an occasion bounded by one is bounded by the other.                  *)
EpochFollowsEngine ==
  \A t \in Tabs :
    /\ tab[t].epoch <= surface[t].epoch
    /\ Drained(t) => tab[t].epoch = surface[t].epoch

(* A load the member asked for and the engine never commits does not show  *)
(* as loading for ever, if the window keeps checking all its tabs: the     *)
(* check that finds it past the bound switches its indicator off, another  *)
(* load takes its place, or it commits.  Nothing is said of when, nor of   *)
(* the tab's lifecycle, which stays Loading.                               *)
UncommittedLoadResolves ==
  \A t \in Tabs, n \in Navs :
    (tab[t].inFlight = n /\ tracker[n].state = "Loading") ~>
      (~tab[t].indicator \/ tab[t].inFlight # n \/ tracker[n].state = "Committed")
=============================================================================
