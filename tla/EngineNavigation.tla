-------------------------- MODULE EngineNavigation --------------------------
(***************************************************************************)
(* The navigation half of the engine the shell is driven with in this      *)
(* repository: crates/evreos-engine-headless/src/lib.rs, the               *)
(* implementation of the Engine trait of crates/evreos-engine.             *)
(*                                                                         *)
(* A surface has an epoch, a current page and the navigation that put it   *)
(* there.  Starting a navigation runs its whole script at once: the        *)
(* surface is changed and every observation is queued before the call      *)
(* returns, so the shell, polling one observation at a time, always reads  *)
(* about the past.  One queue serves all surfaces.                         *)
(*                                                                         *)
(* Titles are the id of the navigation that gave them, NoTitle before.     *)
(* Surfaces are open throughout; their lifecycle is modelled elsewhere.    *)
(***************************************************************************)
EXTENDS Naturals, Sequences

CONSTANTS
  Surfaces,     \* the surfaces, one for each tab
  Destinations, \* the addresses that can be asked for
  Scripts,      \* the scripts this instance serves, a subset of ScriptNames
  MaxNav        \* bound on the navigations of a behaviour

ScriptNames == {"page", "failure", "redirect", "delayed_title", "abandoned",
                "hanging", "stalled"}

ASSUME ScriptsAssumption == Scripts \subseteq ScriptNames
ASSUME MaxNavAssumption == MaxNav \in Nat

Navs == 1..MaxNav
NoTitle == 0
NoNav == 0
FirstEpoch == 1

VARIABLES
  surface,  \* each surface's epoch, current page and current_nav
  queue,    \* observations not yet polled
  nextNav   \* the id mint() hands out next

engineVars == <<surface, queue, nextNav>>

\* NoAddress: a surface with no page, or an event that carries no address.
NoAddress == "none"

ASSUME DestinationsAssumption == NoAddress \notin Destinations

EngineInit ==
  /\ surface = [s \in Surfaces |->
       [epoch |-> FirstEpoch, current |-> [address |-> NoAddress, title |-> NoTitle],
        nav |-> NoNav]]
  /\ queue = <<>>
  /\ nextNav = 1

(***************************************************************************)
(* The script a response amounts to: with_page, with_failure,              *)
(* with_redirect, with_delayed_title, with_abandoned_navigation,           *)
(* with_hanging_load; and, by with_sequence, a page that commits and then  *)
(* never finishes.                                                         *)
(***************************************************************************)
Step(kind, address) == [kind |-> kind, address |-> address]
Quiet(kind) == Step(kind, NoAddress)

Script(name, address, target) ==
  CASE name = "page" ->
         <<Step("Committed", address), Quiet("TitleChanged"), Quiet("Succeeded")>>
    [] name = "failure" -> <<Quiet("Failed")>>
    [] name = "redirect" ->
         <<Step("Redirected", target), Step("Committed", target),
           Quiet("TitleChanged"), Quiet("Succeeded")>>
    [] name = "delayed_title" ->
         <<Step("Committed", address), Quiet("Succeeded"), Quiet("TitleChanged")>>
    [] name = "abandoned" -> <<Step("Committed", address), Quiet("NavigatedAway")>>
    [] name = "hanging" -> <<>>
    [] name = "stalled" -> <<Step("Committed", address)>>

\* What one step of process_surface_steps makes of the surface.
RunStep(id, before, step) ==
  CASE step.kind = "Committed" ->
         [epoch |-> before.epoch + 1,
          current |-> [address |-> step.address, title |-> NoTitle], nav |-> id]
    [] step.kind = "TitleChanged" /\ before.nav = id -> [before EXCEPT !.current.title = id]
    [] OTHER -> before

\* The observation of a step, with the epoch after it.
Observation(s, epoch, id, step) ==
  [surface |-> s, epoch |-> epoch, kind |-> step.kind, id |-> id, address |-> step.address]

\* start_surface_navigation: Started with the epoch before the load, then the
\* script.  with_engine_initiated_sequence does the same for a navigation the
\* page began.
StartNavigation(s, address, steps) ==
  LET id == nextNav
      run[k \in 0..Len(steps)] ==
        IF k = 0 THEN surface[s] ELSE RunStep(id, run[k - 1], steps[k])
      started == Observation(s, surface[s].epoch, id, Step("Started", address))
      told == [k \in DOMAIN steps |-> Observation(s, run[k].epoch, id, steps[k])]
  IN /\ nextNav <= MaxNav
     /\ nextNav' = nextNav + 1
     /\ surface' = [surface EXCEPT ![s] = run[Len(steps)]]
     /\ queue' = Append(queue, started) \o told

\* navigate_same_document: no Started; the page keeps its title and its nav.
NavigateSameDocument(s, address) ==
  /\ nextNav <= MaxNav
  /\ nextNav' = nextNav + 1
  /\ surface' = [surface EXCEPT ![s].epoch = @ + 1, ![s].current.address = address]
  /\ queue' = Append(queue, Observation(s, surface[s].epoch + 1, nextNav,
                                        Step("SameDocumentNavigated", address)))
=============================================================================
