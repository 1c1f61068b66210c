------------------------------ MODULE Windows ------------------------------
(***************************************************************************)
(* The windows of the shell over the engine's surfaces and the permission  *)
(* store: the application's (evreos-shell/src/app.rs), normal and private, *)
(* with its event loop, and the private windows of a private session       *)
(* (evreos-shell/src/private.rs).                                          *)
(*                                                                         *)
(* A window's id is its index: the two kinds take theirs from one counter, *)
(* mint_window_id.  A window the platform refuses takes one too.  The      *)
(* surfaces load pages and come to the foreground meanwhile, which is what *)
(* their data need; the engine's other calls are EngineSurfaces' own.  A   *)
(* permission prompt is answered whenever the member does.  Chrome, input  *)
(* and the tabs of a window are left out.                                  *)
(***************************************************************************)
EXTENDS EngineSurfaces, PermissionStore, FiniteSets

VARIABLES
  windows,     \* the windows of this run of the program, by id
  childViews,  \* active_child_views
  exceptions,  \* the blocking exceptions of each private window
  loop         \* the event loop: not yet run, running, told to exit

vars == <<surfaces, active, persistentData, policy, exemptions,
          persistent, private, unavailable, disk, saving, refused, unread, grants,
          windows, childViews, exceptions, loop>>

windowVars == <<windows, childViews, exceptions, loop>>

Owners == {"app", "session"}

\* WindowKind is the store's: Normal is Persistent, Private is NonPersistent.
Window == [owner : Owners, store : Stores, surface : SurfaceIds,
           winit : BOOLEAN, state : {"open", "closed", "purged", "failed"}]

WindowsInit ==
  /\ windows = <<>>
  /\ childViews = 0
  /\ exceptions = [w \in WindowIds |-> {}]
  /\ loop = "starting"

Init == EngineInit /\ PermissionInit /\ WindowsInit

IsOpen(w) == windows[w].state = "open"
OpenAppWindows == {w \in DOMAIN windows : IsOpen(w) /\ windows[w].owner = "app"}
PrivateWindows == {w \in DOMAIN windows : windows[w].owner = "session"}

NewWindow(owner, store, winit, state) ==
  [owner |-> owner, store |-> store, surface |-> Len(surfaces) + 1,
   winit |-> winit, state |-> state]

\* A window id and a surface are taken, one after the other.
TakeWindow(owner, store, winit, state) ==
  /\ Len(windows) + 1 \in WindowIds
  /\ CreateSurface(store, "Page")
  /\ windows' = Append(windows, NewWindow(owner, store, winit, state))
  /\ UNCHANGED <<permissionVars, exceptions>>

\* open_window and open_private_window, which have no platform window
OpenWindow(store) ==
  /\ TakeWindow("app", store, FALSE, "open")
  /\ childViews' = childViews + 1
  /\ UNCHANGED loop

\* create_winit_window: the surface is created and counted first, and stays
\* both when the platform refuses the window.
CreateWinitWindow(created) ==
  /\ TakeWindow("app", "Persistent", created, IF created THEN "open" ELSE "failed")
  /\ childViews' = childViews + 1

\* resumed: the first window; the loop is told to exit when it is refused
Resumed ==
  /\ loop # "exiting"
  /\ IF OpenAppWindows = {}
       THEN \E created \in BOOLEAN :
              /\ CreateWinitWindow(created)
              /\ loop' = IF created THEN "running" ELSE "exiting"
       ELSE /\ loop' = "running"
            /\ UNCHANGED <<surfaces, engineVars, permissionVars, windows, childViews, exceptions>>

\* Mutant: the window goes, and its surface stays in the engine.
CloseAppWindowOnly(w) ==
  /\ windows' = [windows EXCEPT ![w].state = "closed"]
  /\ childViews' = IF childViews > 0 THEN childViews - 1 ELSE 0
  /\ UNCHANGED <<engineVars, permissionVars, exceptions>>

\* close_window: the permissions of a private one are not looked at
CloseAppWindow(w) ==
  /\ CloseSurface(windows[w].surface)
  /\ windows' = [windows EXCEPT ![w].state = "closed"]
  /\ childViews' = IF childViews > 0 THEN childViews - 1 ELSE 0
  /\ UNCHANGED <<permissionVars, exceptions>>

\* close_window as an API, which leaves the event loop alone
CloseWindow(w) == w \in OpenAppWindows /\ CloseAppWindow(w) /\ UNCHANGED loop

\* window_event with CloseRequested, known by its platform window
CloseRequested(w) ==
  /\ loop = "running"
  /\ w \in OpenAppWindows
  /\ windows[w].winit
  /\ CloseAppWindow(w)
  /\ loop' = IF OpenAppWindows = {w} THEN "exiting" ELSE loop

\* about_to_wait
AboutToWait ==
  /\ loop = "running"
  /\ OpenAppWindows = {}
  /\ loop' = "exiting"
  /\ UNCHANGED <<engineVars, permissionVars, windows, childViews, exceptions>>

\* PrivateWindow::open, kept by a session or not
OpenPrivateWindow ==
  /\ TakeWindow("session", "NonPersistent", FALSE, "open")
  /\ UNCHANGED <<childViews, loop>>

\* PrivateWindow::close: a caller that has no store to give purges nothing
ClosePrivateWindow(w, withStore) ==
  /\ w \in PrivateWindows /\ IsOpen(w)
  /\ withStore => ~saving
  /\ CloseSurface(windows[w].surface)
  /\ windows' = [windows EXCEPT ![w].state = IF withStore THEN "purged" ELSE "closed"]
  /\ private' = IF withStore THEN PurgedPrivateWindow(w) ELSE private
  /\ exceptions' = [exceptions EXCEPT ![w] = {}]
  /\ UNCHANGED <<persistent, unavailable, disk, saving, refused, unread, grants,
                 childViews, loop>>

\* allow_blocking_exception, revoke_blocking_exception: whoever holds the
\* window can call them, and closing drops or keeps it as the holder likes
AllowBlockingException(w, site) ==
  /\ w \in PrivateWindows /\ IsOpen(w)
  /\ exceptions' = [exceptions EXCEPT ![w] = @ \cup {site}]
  /\ UNCHANGED <<engineVars, permissionVars, windows, childViews, loop>>

RevokeBlockingException(w, site) ==
  /\ w \in PrivateWindows /\ IsOpen(w)
  /\ exceptions' = [exceptions EXCEPT ![w] = @ \ {site}]
  /\ UNCHANGED <<engineVars, permissionVars, windows, childViews, loop>>

\* The member's answer to a prompt: of a normal window, or of a private one
\* that is open, or of one that has closed since.
AnswerPrompt(scope) ==
  /\ scope = Persistent \/ scope \in PrivateWindows
  /\ \E k \in Keys : \E r \in Responses : \E remember \in BOOLEAN :
       HandlePromptResponse(k, r, remember, scope)
  /\ UNCHANGED <<engineVars, windowVars>>

ChangePrivatePermission(w) ==
  /\ w \in PrivateWindows /\ IsOpen(w)
  /\ \E k \in Keys : Revoke(k, w) \/ \E r \in Responses : RecordDecision(k, r, w)
  /\ UNCHANGED <<engineVars, windowVars>>

\* The program ends and is started again: only the permission file remains.
Restart ==
  /\ Reopened
  /\ surfaces' = <<>>
  /\ active' = None
  /\ persistentData' = [s \in SurfaceIds |-> None]
  /\ exemptions' = {}
  /\ windows' = <<>>
  /\ childViews' = 0
  /\ exceptions' = [w \in WindowIds |-> {}]
  /\ loop' = "starting"
  /\ UNCHANGED policy

\* What is done with the surface of a window while it is open, and after.
SurfaceStep ==
  \E s \in DOMAIN surfaces :
    \/ ActivateSurface(s)
    \/ \E a \in Addresses : NavigateSurface(s, a, a)
    \/ IsClosed(s) /\ CloseSurface(s)

WindowStep ==
  \/ \E store \in Stores : OpenWindow(store)
  \/ Resumed \/ AboutToWait
  \/ OpenPrivateWindow
  \/ \E w \in DOMAIN windows :
       \/ CloseWindow(w) \/ CloseRequested(w)
       \/ \E withStore \in BOOLEAN : ClosePrivateWindow(w, withStore)
       \/ \E site \in SiteKeys : AllowBlockingException(w, site) \/ RevokeBlockingException(w, site)
       \/ ChangePrivatePermission(w)

Next ==
  \/ WindowStep
  \/ \E scope \in Scopes : AnswerPrompt(scope)
  \/ SurfaceStep /\ UNCHANGED <<permissionVars, windowVars>>
  \/ PermissionStep /\ UNCHANGED <<engineVars, windowVars>>
  \/ Restart

Spec == Init /\ [][Next]_vars

(***************************************************************************)
(* Properties                                                              *)
(***************************************************************************)

(* A window that is open has its surface and one that was closed has taken *)
(* its surface and that one's private data with it, and child_views_alive  *)
(* counts the application's surfaces that are alive: those of its windows, *)
(* and of the windows the platform refused.                                *)
WindowsHaveTheirSurfaces ==
  /\ \A w \in DOMAIN windows :
       /\ windows[w].state \in {"closed", "purged"} <=> IsClosed(windows[w].surface)
       /\ windows[w].store = surfaces[windows[w].surface].store
  /\ \A w \in PrivateWindows : ~IsOpen(w) => exceptions[w] = {}
  /\ childViews = Cardinality({w \in DOMAIN windows :
                       windows[w].owner = "app" /\ ~IsClosed(windows[w].surface)})
=============================================================================
