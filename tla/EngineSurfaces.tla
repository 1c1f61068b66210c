--------------------------- MODULE EngineSurfaces ---------------------------
(***************************************************************************)
(* The surfaces of the headless engine (evreos-engine-headless/src/lib.rs) *)
(* and the data each keeps: their lifecycle, the page they show, what      *)
(* their store holds while they are open and after, what content blocking  *)
(* counted on them, and the request gate.                                  *)
(*                                                                         *)
(* A surface's id is its index.  The observations a navigation queues are  *)
(* EngineNavigation's; titles, load records and the text of rules and      *)
(* sites are left out: a rule matches a resource or not, an exemption      *)
(* covers a site or not.  The script of an address is free.                *)
(***************************************************************************)
EXTENDS Naturals, Sequences

CONSTANTS
  Addresses,     \* addresses of pages
  Resources,     \* what pages request
  Subresources,  \* the resources each address requests
  Sites,         \* site names
  SiteOf,        \* the site of each address and resource
  Covers,        \* <<e, s>>: an exemption of e covers s, as a domain its subdomains
  Policies,      \* compiled policies, each the set of resources it matches
  MaxSurfaces,   \* bound on the surfaces created in a run
  None           \* no page, no data, no surface, no policy

ASSUME SurfacesAssumption ==
  /\ Subresources \in [Addresses -> SUBSET Resources]
  /\ SiteOf \in [Addresses \cup Resources -> Sites]
  /\ Covers \subseteq Sites \X Sites
  /\ \A s \in Sites : <<s, s>> \in Covers
  /\ Policies \subseteq SUBSET Resources
  /\ MaxSurfaces \in Nat
  /\ None \notin Addresses \cup Policies \cup Nat

VARIABLES
  surfaces,        \* HeadlessSurface by id
  active,          \* active_surface
  persistentData,  \* persistent_data: the last visited address each surface left there
  policy,          \* the policy in force
  exemptions       \* the sites exempted on this engine or on its host's context

engineVars == <<surfaces, active, persistentData, policy, exemptions>>

SurfaceIds == 1..MaxSurfaces
Stores == {"Persistent", "NonPersistent"}
Kinds == {"Page", "AppSurface"}
Lifecycle == {"Active", "Inactive", "Suspended", "Closed"}
Hosted == "hosted"       \* the page a surface shows when it is given its bytes

Surface ==
  [store : Stores, kind : Kinds, state : Lifecycle,
   current : Addresses \cup {Hosted, None}, data : Addresses \cup {None},
   blocked : SUBSET Resources]

EngineTypeOK ==
  /\ surfaces \in Seq(Surface)
  /\ active \in DOMAIN surfaces \cup {None}
  /\ persistentData \in [SurfaceIds -> Addresses \cup {None}]
  /\ policy \in Policies \cup {None}
  /\ exemptions \subseteq Sites

EngineInit ==
  /\ surfaces = <<>>
  /\ active = None
  /\ persistentData = [s \in SurfaceIds |-> None]
  /\ policy \in Policies \cup {None}
  /\ exemptions = {}

IsClosed(s) == surfaces[s].state = "Closed"

OpenSurfaces == {s \in DOMAIN surfaces : ~IsClosed(s)}

\* is_site_exempt
SiteExempt(site) == \E e \in exemptions : <<e, site>> \in Covers

\* policy.matches over the page's subresources, unless its site is exempt
BlockedOn(address) ==
  IF policy = None \/ SiteExempt(SiteOf[address]) THEN {} ELSE Subresources[address] \cap policy

\* gate_request: an app surface is denied everything, a page asks the
\* exemptions and then the policy.
GateRequest(s, resource) ==
  IF surfaces[s].kind = "AppSurface" THEN "Deny"
  ELSE IF SiteExempt(SiteOf[resource]) THEN "Allow"
  ELSE IF policy # None /\ resource \in policy THEN "Deny"
  ELSE "Allow"

\* surface_has_retained_data
HasRetainedData(s) ==
  \/ surfaces[s].data # None
  \/ surfaces[s].store = "Persistent" /\ persistentData[s] # None

NewSurface(store, kind) ==
  [store |-> store, kind |-> kind, state |-> "Inactive",
   current |-> None, data |-> None, blocked |-> {}]

\* The surfaces once s is in the foreground instead of previous.
Foreground(all, previous, s) ==
  [i \in DOMAIN all |->
     IF i = s THEN [all[i] EXCEPT !.state = "Active"]
     ELSE IF i = previous /\ all[i].state = "Active" THEN [all[i] EXCEPT !.state = "Inactive"]
     ELSE all[i]]

\* The surface once it has been asked for address and its script has run;
\* shown is the page that committed, or None.
Loaded(surface, address, shown) ==
  [surface EXCEPT !.data = address, !.blocked = BlockedOn(address),
                  !.current = IF shown = None THEN @ ELSE shown]

\* The visited address goes to the persistent data too, at once.
Visited(s, store, address) ==
  IF store = "Persistent" THEN [persistentData EXCEPT ![s] = address] ELSE persistentData

(***************************************************************************)
(* The calls                                                               *)
(***************************************************************************)

CreateSurface(store, kind) ==
  /\ Len(surfaces) < MaxSurfaces
  /\ surfaces' = Append(surfaces, NewSurface(store, kind))
  /\ UNCHANGED <<active, persistentData, policy, exemptions>>

\* Mutant: the surface that was active keeps its state.
ActivateSurfaceOver(s) ==
  /\ ~IsClosed(s)
  /\ surfaces' = [surfaces EXCEPT ![s].state = "Active"]
  /\ active' = s
  /\ UNCHANGED <<persistentData, policy, exemptions>>

ActivateSurface(s) ==
  /\ ~IsClosed(s)
  /\ surfaces' = Foreground(surfaces, active, s)
  /\ active' = s
  /\ UNCHANGED <<persistentData, policy, exemptions>>

SuspendSurface(s) ==
  /\ ~IsClosed(s)
  /\ surfaces' = [surfaces EXCEPT ![s].state = "Suspended"]
  /\ active' = IF active = s THEN None ELSE active
  /\ UNCHANGED <<persistentData, policy, exemptions>>

ResumeSurface(s) ==
  /\ surfaces[s].state = "Suspended"
  /\ ActivateSurface(s)

\* Mutants: the store is forgotten, so a private surface's data are kept with
\* the others'; what a persistent store held goes with the surface.
CloseSurfaceKeeping(s) ==
  /\ surfaces' = [surfaces EXCEPT ![s].state = "Closed", ![s].current = None]
  /\ active' = IF active = s THEN None ELSE active
  /\ persistentData' = [persistentData EXCEPT ![s] =
                          IF surfaces[s].data = None THEN @ ELSE surfaces[s].data]
  /\ UNCHANGED <<policy, exemptions>>

CloseSurfaceForgetting(s) ==
  /\ surfaces' = [surfaces EXCEPT ![s].state = "Closed", ![s].current = None, ![s].data = None]
  /\ active' = IF active = s THEN None ELSE active
  /\ persistentData' = [persistentData EXCEPT ![s] = None]
  /\ UNCHANGED <<policy, exemptions>>

\* close_surface, which a surface already closed can be given again
CloseSurface(s) ==
  /\ surfaces' = [surfaces EXCEPT ![s].state = "Closed", ![s].current = None, ![s].data = None]
  /\ active' = IF active = s THEN None ELSE active
  /\ persistentData' = [persistentData EXCEPT ![s] =
                          IF surfaces[s].store = "NonPersistent" THEN None
                          ELSE IF surfaces[s].data = None THEN @
                          ELSE surfaces[s].data]
  /\ UNCHANGED <<policy, exemptions>>

\* start_surface_navigation; on a closed surface it only mints an id
NavigateSurface(s, address, shown) ==
  /\ ~IsClosed(s)
  /\ surfaces' = [surfaces EXCEPT ![s] = Loaded(@, address, shown)]
  /\ persistentData' = Visited(s, surfaces[s].store, address)
  /\ UNCHANGED <<active, policy, exemptions>>

\* ensure_active_surface: the active one, or any that is open, or a new one
EnsuredSurfaces ==
  IF active # None /\ ~IsClosed(active) THEN {active}
  ELSE IF OpenSurfaces # {} THEN OpenSurfaces
  ELSE {Len(surfaces) + 1}

\* start_navigation, which names no surface
StartNavigation(address, shown) ==
  \E s \in EnsuredSurfaces :
    LET all == IF s \in DOMAIN surfaces THEN surfaces
                 ELSE Append(surfaces, NewSurface("Persistent", "Page"))
        fronted == IF s = active THEN all ELSE Foreground(all, active, s)
    IN /\ s <= MaxSurfaces
       /\ surfaces' = [fronted EXCEPT ![s] = Loaded(@, address, shown)]
       /\ active' = s
       /\ persistentData' = Visited(s, all[s].store, address)
       /\ UNCHANGED <<policy, exemptions>>

\* navigate_same_document looks at no state: the page changes, the data do not
NavigateSameDocument(s, address) ==
  /\ surfaces' = [surfaces EXCEPT ![s].current = address]
  /\ UNCHANGED <<active, persistentData, policy, exemptions>>

\* host_surface_bytes
HostSurfaceBytes(s) ==
  /\ surfaces' = [surfaces EXCEPT ![s].current = Hosted, ![s].kind = "AppSurface"]
  /\ UNCHANGED <<active, persistentData, policy, exemptions>>

InstallPolicy(p) ==
  /\ policy' = p
  /\ UNCHANGED <<surfaces, active, persistentData, exemptions>>

ExemptSite(site) ==
  /\ exemptions' = exemptions \cup {site}
  /\ UNCHANGED <<surfaces, active, persistentData, policy>>

\* remove_site_exemption takes back that name's exemption, here and on the host
RemoveSiteExemption(site) ==
  /\ exemptions' = exemptions \ {site}
  /\ UNCHANGED <<surfaces, active, persistentData, policy>>

EngineNext ==
  \/ \E store \in Stores, kind \in Kinds : CreateSurface(store, kind)
  \/ \E s \in DOMAIN surfaces :
       \/ ActivateSurface(s) \/ SuspendSurface(s) \/ ResumeSurface(s) \/ CloseSurface(s)
       \/ HostSurfaceBytes(s)
       \/ \E a \in Addresses :
            \/ NavigateSameDocument(s, a)
            \/ \E shown \in Addresses \cup {None} : NavigateSurface(s, a, shown)
  \/ \E a \in Addresses : \E shown \in Addresses \cup {None} : StartNavigation(a, shown)
  \/ \E p \in Policies : InstallPolicy(p)
  \/ \E site \in Sites : ExemptSite(site) \/ RemoveSiteExemption(site)

EngineSpec == EngineInit /\ [][EngineNext]_engineVars

(***************************************************************************)
(* Properties                                                              *)
(***************************************************************************)

(* One surface at most is in the foreground, and it is the one the engine  *)
(* says is active: after any order of activating, suspending, resuming,    *)
(* closing and navigating without naming a surface.                        *)
OneForeground ==
  \A s \in DOMAIN surfaces : surfaces[s].state = "Active" <=> active = s

(* The contract of close_surface: what a private surface stored is gone    *)
(* once it is closed, whatever is asked of the surface afterwards, and at  *)
(* no time is any of it with the persistent data.                          *)
NothingLeftBehind ==
  \A s \in DOMAIN surfaces :
    surfaces[s].store = "NonPersistent" =>
      /\ persistentData[s] = None
      /\ IsClosed(s) => ~HasRetainedData(s)

(* What a normal surface has stored outlives its suspension and its end,   *)
(* until the program is started again (this engine keeps it in memory).    *)
PersistentDataStay ==
  [][\A s \in DOMAIN surfaces :
       surfaces[s].store = "Persistent" /\ HasRetainedData(s) =>
         \/ surfaces' = <<>>
         \/ HasRetainedData(s)']_engineVars
=============================================================================
