--------------------------- MODULE Windows_proofs ---------------------------
(***************************************************************************)
(* The engine's surfaces, the site permissions, and the windows that hold  *)
(* both, for any number of surfaces, pages, resources, sites, private      *)
(* windows and capabilities.                                               *)
(*                                                                         *)
(* Surfaces: OneForeground is inductive with the types: the surface the    *)
(* engine names is the only Active one, so putting another in its place    *)
(* leaves one.  NothingLeftBehind needs Unborn besides: the persistent     *)
(* data hold nothing of a surface yet to be created, or a private one      *)
(* could be born with another's data.                                      *)
(*                                                                         *)
(* Permissions: PermissionsAreTheMembers is about what a query answers.    *)
(* Inductive is what is recorded: a capability the platform cannot deliver *)
(* now may be delivered later, and then the record behind it shows.        *)
(***************************************************************************)
EXTENDS Windows, SequenceTheorems, FiniteSetTheorems, TLAPS

(***************************************************************************)
(* The surfaces                                                            *)
(***************************************************************************)

\* No id is beyond the bound, and none holds data before its surface exists.
Unborn ==
  /\ Len(surfaces) <= MaxSurfaces
  /\ \A s \in SurfaceIds \ DOMAIN surfaces : persistentData[s] = None

\* The surfaces as a function, which is what the calls change.
SurfacesTypeOK ==
  /\ Len(surfaces) \in Nat
  /\ surfaces \in [1..Len(surfaces) -> Surface]
  /\ active \in DOMAIN surfaces \cup {None}
  /\ persistentData \in [SurfaceIds -> Addresses \cup {None}]
  /\ policy \in Policies \cup {None}
  /\ exemptions \subseteq Sites

EngineInv == SurfacesTypeOK /\ Unborn /\ OneForeground /\ NothingLeftBehind

-----------------------------------------------------------------------------
(* What a call makes of the surfaces *)

LEMMA SameLength ==
  ASSUME NEW n \in Nat, NEW f \in [1..n -> Surface]
  PROVE  f \in Seq(Surface) /\ Len(f) = n /\ DOMAIN f = 1..n
  OBVIOUS

LEMMA NewSurfaceType ==
  ASSUME NEW store \in Stores, NEW kind \in Kinds
  PROVE  NewSurface(store, kind) \in Surface
  BY DEF NewSurface, Surface, Lifecycle

LEMMA LoadedType ==
  ASSUME EngineTypeOK, SurfacesAssumption, NEW r \in Surface, NEW address \in Addresses,
         NEW shown \in Addresses \cup {None}
  PROVE  /\ Loaded(r, address, shown) \in Surface
         /\ Loaded(r, address, shown).store = r.store
         /\ Loaded(r, address, shown).state = r.state
         /\ Loaded(r, address, shown).data = address
<1>1. BlockedOn(address) \in SUBSET Resources
  BY DEF BlockedOn, SurfacesAssumption
<1>2. QED BY <1>1 DEF Loaded, Surface

LEMMA Typed == ASSUME SurfacesAssumption PROVE SurfacesTypeOK <=> EngineTypeOK
<1>1. SurfacesTypeOK => surfaces \in Seq(Surface) BY DEF SurfacesTypeOK
<1>2. EngineTypeOK => Len(surfaces) \in Nat /\ surfaces \in [1..Len(surfaces) -> Surface]
  BY DEF EngineTypeOK
<1>3. QED BY <1>1, <1>2 DEF SurfacesTypeOK, EngineTypeOK

LEMMA Updated ==
  ASSUME SurfacesTypeOK, NEW f \in [DOMAIN surfaces -> Surface], surfaces' = f
  PROVE  /\ DOMAIN surfaces' = DOMAIN surfaces /\ Len(surfaces') = Len(surfaces)
         /\ surfaces' \in [1..Len(surfaces') -> Surface]
  BY SameLength DEF SurfacesTypeOK

LEMMA Appended ==
  ASSUME NEW n \in Nat, NEW f \in [1..n -> Surface], NEW r \in Surface
  PROVE  /\ Len(Append(f, r)) = n + 1 /\ Append(f, r) \in [1..(n + 1) -> Surface]
         /\ Append(f, r)[n + 1] = r /\ \A i \in 1..n : Append(f, r)[i] = f[i]
<1>1. f \in Seq(Surface) /\ Len(f) = n BY SameLength
<1> DEFINE g == Append(f, r)
<1>2. /\ g \in Seq(Surface) /\ Len(g) = n + 1
      /\ g[n + 1] = r /\ \A i \in 1..n : g[i] = f[i]
  BY <1>1, AppendProperties
<1>3. g \in [1..Len(g) -> Surface] BY <1>2, ElementOfSeq, LenProperties
<1> HIDE DEF g
<1>4. /\ Len(g) = n + 1 /\ g \in [1..(n + 1) -> Surface]
      /\ g[n + 1] = r /\ \A i \in 1..n : g[i] = f[i]
  BY ONLY <1>2, <1>3
<1>5. QED BY <1>4 DEF g

LEMMA Fronted ==
  ASSUME NEW n \in Nat, NEW all \in [1..n -> Surface], NEW previous, NEW s \in 1..n,
         NEW g, g = Foreground(all, previous, s)
  PROVE  /\ g \in [1..n -> Surface]
         /\ \A i \in 1..n :
              /\ g[i].store = all[i].store /\ g[i].data = all[i].data
              /\ g[i].state = "Active" <=>
                   (i = s \/ (i # previous /\ all[i].state = "Active"))
              /\ g[i].state = "Closed" <=> (i # s /\ all[i].state = "Closed")
  BY DEF Foreground, Surface, Lifecycle

-----------------------------------------------------------------------------
(* What the invariant says of a surface's fields, and that it is enough *)

\* The invariant, of surfaces given by their fields.
FieldsInv ==
  /\ \A s \in DOMAIN surfaces :
       /\ surfaces[s].state = "Active" <=> active = s
       /\ surfaces[s].store = "NonPersistent" =>
            persistentData[s] = None /\ (surfaces[s].state = "Closed" => surfaces[s].data = None)

\* HasRetainedData of a surface whose store is Persistent.
Retains(s) == surfaces[s].data # None \/ persistentData[s] # None

\* What a step does to the data of surfaces that are there before and after it.
DataStay ==
  \A s \in DOMAIN surfaces :
    surfaces[s].store = "Persistent" /\ Retains(s) =>
      surfaces'[s].store = "Persistent" /\ Retains(s)'

LEMMA Fields == ASSUME SurfacesTypeOK PROVE (OneForeground /\ NothingLeftBehind) <=> FieldsInv
  BY DEF SurfacesTypeOK, Surface, Stores, FieldsInv, OneForeground, NothingLeftBehind, HasRetainedData, IsClosed

\* A step that gives every surface a typed record with its store.
LEMMA InPlace ==
  ASSUME EngineInv, NEW f \in [DOMAIN surfaces -> Surface], surfaces' = f,
         active' \in DOMAIN surfaces \cup {None},
         persistentData' \in [SurfaceIds -> Addresses \cup {None}],
         \A s \in SurfaceIds \ DOMAIN surfaces : persistentData'[s] = persistentData[s],
         UNCHANGED <<policy, exemptions>>
  PROVE  SurfacesTypeOK' /\ Unborn'
<1>1. SurfacesTypeOK /\ Unborn BY DEF EngineInv
<1>2. /\ DOMAIN surfaces' = DOMAIN surfaces /\ Len(surfaces') = Len(surfaces)
      /\ surfaces' \in [1..Len(surfaces') -> Surface]
  BY <1>1, Updated
<1>3. SurfacesTypeOK' BY <1>1, <1>2 DEF SurfacesTypeOK
<1>4. Unborn' BY <1>1, <1>2 DEF Unborn
<1>5. QED BY <1>3, <1>4

LEMMA Kept == ASSUME SurfacesTypeOK', FieldsInv', Unborn' PROVE EngineInv'
<1>1. OneForeground' BY DEF FieldsInv, OneForeground
<1>2. NothingLeftBehind'
  <2> SUFFICES ASSUME NEW s \in DOMAIN surfaces', surfaces'[s].store = "NonPersistent"
               PROVE  /\ persistentData'[s] = None
                      /\ IsClosed(s)' => ~HasRetainedData(s)'
    BY DEF NothingLeftBehind
  <2>1. QED BY DEF FieldsInv, IsClosed, HasRetainedData
<1>3. QED BY <1>1, <1>2 DEF EngineInv

-----------------------------------------------------------------------------
(* The calls, one by one *)

LEMMA CreatePreserves ==
  ASSUME EngineInv, NEW store \in Stores, NEW kind \in Kinds, CreateSurface(store, kind)
  PROVE  SurfacesTypeOK' /\ Unborn' /\ FieldsInv'
<1>1. SurfacesTypeOK /\ Unborn /\ FieldsInv BY Fields DEF EngineInv
<1> DEFINE n == Len(surfaces)
<1>2. /\ n \in Nat /\ surfaces \in [1..n -> Surface] /\ DOMAIN surfaces = 1..n
  BY <1>1 DEF SurfacesTypeOK
<1>3. NewSurface(store, kind) \in Surface BY NewSurfaceType
<1>4. /\ Len(surfaces') = n + 1 /\ surfaces' \in [1..(n + 1) -> Surface]
      /\ surfaces'[n + 1] = NewSurface(store, kind)
      /\ \A i \in 1..n : surfaces'[i] = surfaces[i]
  <2>1. surfaces' = Append(surfaces, NewSurface(store, kind)) BY DEF CreateSurface
  <2> HIDE DEF n
  <2>2. QED BY ONLY <1>2, <1>3, <2>1, Appended
<1>5. n < MaxSurfaces /\ MaxSurfaces \in Nat BY SurfacesAssumption DEF CreateSurface
<1>6. SurfacesTypeOK' BY <1>1, <1>2, <1>4 DEF SurfacesTypeOK, CreateSurface
<1>7. Unborn' BY <1>1, <1>2, <1>4, <1>5 DEF Unborn, CreateSurface
<1>8. persistentData[n + 1] = None BY <1>1, <1>2, <1>5 DEF Unborn, SurfaceIds
<1>9. active # n + 1 BY <1>1, <1>2, SurfacesAssumption DEF SurfacesTypeOK
<1>10. FieldsInv'
  <2> SUFFICES ASSUME NEW s \in 1..(n + 1)
               PROVE  /\ surfaces'[s].state = "Active" <=> active' = s
                      /\ surfaces'[s].store = "NonPersistent" =>
                           /\ persistentData'[s] = None
                           /\ surfaces'[s].state = "Closed" => surfaces'[s].data = None
    BY <1>4 DEF FieldsInv
  <2>1. CASE s = n + 1 BY <2>1, <1>4, <1>8, <1>9 DEF NewSurface, CreateSurface
  <2>2. CASE s \in 1..n BY <2>2, <1>1, <1>2, <1>4 DEF FieldsInv, CreateSurface
  <2>3. QED BY <1>2, <2>1, <2>2
<1>11. QED BY <1>6, <1>7, <1>10

LEMMA ActivatePreserves ==
  ASSUME EngineInv, NEW s \in DOMAIN surfaces, ActivateSurface(s)
  PROVE  SurfacesTypeOK' /\ Unborn' /\ FieldsInv'
<1>1. SurfacesTypeOK /\ Unborn /\ FieldsInv BY Fields DEF EngineInv
<1> DEFINE n == Len(surfaces)
<1>2. /\ n \in Nat /\ surfaces \in [1..n -> Surface] /\ DOMAIN surfaces = 1..n
  BY <1>1 DEF SurfacesTypeOK
<1>3. /\ surfaces' \in [1..n -> Surface]
      /\ \A i \in 1..n :
           /\ surfaces'[i].store = surfaces[i].store /\ surfaces'[i].data = surfaces[i].data
           /\ surfaces'[i].state = "Active" <=>
                (i = s \/ (i # active /\ surfaces[i].state = "Active"))
           /\ surfaces'[i].state = "Closed" <=> (i # s /\ surfaces[i].state = "Closed")
  BY <1>2, Fronted DEF ActivateSurface
<1>4. SurfacesTypeOK' /\ Unborn'
  BY <1>1, <1>2, <1>3, InPlace DEF ActivateSurface, SurfacesTypeOK
<1>5. FieldsInv' BY <1>1, <1>2, <1>3 DEF FieldsInv, ActivateSurface
<1>6. QED BY <1>4, <1>5

LEMMA SuspendPreserves ==
  ASSUME EngineInv, NEW s \in DOMAIN surfaces, SuspendSurface(s)
  PROVE  SurfacesTypeOK' /\ Unborn' /\ FieldsInv'
<1>1. SurfacesTypeOK /\ Unborn /\ FieldsInv BY Fields DEF EngineInv
<1>2. surfaces' \in [DOMAIN surfaces -> Surface]
  BY <1>1 DEF SurfacesTypeOK, SuspendSurface, Surface, Lifecycle
<1>3. SurfacesTypeOK' /\ Unborn' BY <1>1, <1>2, InPlace DEF SuspendSurface, SurfacesTypeOK
<1>4. FieldsInv'
  <2> SUFFICES ASSUME NEW i \in DOMAIN surfaces
               PROVE  /\ surfaces'[i].state = "Active" <=> active' = i
                      /\ surfaces'[i].store = "NonPersistent" =>
                           /\ persistentData'[i] = None
                           /\ surfaces'[i].state = "Closed" => surfaces'[i].data = None
    BY <1>2 DEF FieldsInv
  <2>1. CASE i = s
    BY <2>1, <1>1, SurfacesAssumption DEF FieldsInv, SuspendSurface, SurfacesTypeOK, Surface
  <2>2. CASE i # s
    <3>1. surfaces'[i] = surfaces[i] BY <2>2, <1>1 DEF SuspendSurface, SurfacesTypeOK
    <3>2. active' = i <=> active = i
      BY <2>2, <1>1, SurfacesAssumption DEF SuspendSurface, SurfacesTypeOK
    <3>3. QED BY <1>1, <3>1, <3>2 DEF FieldsInv, SuspendSurface
  <2>3. QED BY <2>1, <2>2
<1>5. QED BY <1>3, <1>4

LEMMA ClosePreserves ==
  ASSUME EngineInv, NEW s \in DOMAIN surfaces, CloseSurface(s)
  PROVE  SurfacesTypeOK' /\ Unborn' /\ FieldsInv'
<1>1. SurfacesTypeOK /\ Unborn /\ FieldsInv BY Fields DEF EngineInv
<1>2. surfaces' \in [DOMAIN surfaces -> Surface]
  BY <1>1 DEF SurfacesTypeOK, CloseSurface, Surface, Lifecycle
<1>3. surfaces[s] \in Surface BY <1>1 DEF SurfacesTypeOK
<1>4. persistentData' \in [SurfaceIds -> Addresses \cup {None}]
  BY <1>1, <1>3 DEF SurfacesTypeOK, CloseSurface, Surface
<1>5. \A i \in SurfaceIds : i # s => persistentData'[i] = persistentData[i]
  BY <1>1 DEF SurfacesTypeOK, CloseSurface
<1>6. SurfacesTypeOK' /\ Unborn' BY <1>1, <1>2, <1>4, <1>5, InPlace DEF CloseSurface, SurfacesTypeOK
<1>7. s \in SurfaceIds BY <1>1, SurfacesAssumption DEF SurfacesTypeOK, Unborn, SurfaceIds
<1>8. surfaces[s].store = "NonPersistent" => persistentData'[s] = None
  BY <1>1, <1>7 DEF SurfacesTypeOK, CloseSurface
<1>9. FieldsInv'
  <2> SUFFICES ASSUME NEW i \in DOMAIN surfaces
               PROVE  /\ surfaces'[i].state = "Active" <=> active' = i
                      /\ surfaces'[i].store = "NonPersistent" =>
                           /\ persistentData'[i] = None
                           /\ surfaces'[i].state = "Closed" => surfaces'[i].data = None
    BY <1>2 DEF FieldsInv
  <2>1. CASE i = s
    <3>1. surfaces'[s].state = "Closed" /\ surfaces'[s].data = None
          /\ surfaces'[s].store = surfaces[s].store
      BY <1>1, <1>3 DEF CloseSurface, SurfacesTypeOK, Surface
    <3>2. active' # s BY <1>1, SurfacesAssumption DEF CloseSurface, SurfacesTypeOK
    <3>3. QED BY <1>8, <2>1, <3>1, <3>2
  <2>2. CASE i # s
    <3>1. i \in SurfaceIds BY <1>1, SurfacesAssumption DEF SurfacesTypeOK, Unborn, SurfaceIds
    <3>2. surfaces'[i] = surfaces[i] BY <2>2, <1>1 DEF CloseSurface, SurfacesTypeOK
    <3>3. active' = i <=> active = i
      BY <2>2, <1>1, SurfacesAssumption DEF CloseSurface, SurfacesTypeOK
    <3>4. QED BY <1>1, <1>5, <2>2, <3>1, <3>2, <3>3 DEF FieldsInv
  <2>3. QED BY <2>1, <2>2
<1>10. QED BY <1>6, <1>9

LEMMA VisitedType ==
  ASSUME SurfacesTypeOK, NEW s \in SurfaceIds, NEW store \in Stores, NEW address \in Addresses
  PROVE  /\ Visited(s, store, address) \in [SurfaceIds -> Addresses \cup {None}]
         /\ \A i \in SurfaceIds : i # s => Visited(s, store, address)[i] = persistentData[i]
         /\ store = "NonPersistent" => Visited(s, store, address)[s] = persistentData[s]
  BY DEF SurfacesTypeOK, Visited, Stores

LEMMA NavigatePreserves ==
  ASSUME EngineInv, NEW s \in DOMAIN surfaces, NEW address \in Addresses,
         NEW shown \in Addresses \cup {None}, NavigateSurface(s, address, shown)
  PROVE  SurfacesTypeOK' /\ Unborn' /\ FieldsInv'
<1>1. SurfacesTypeOK /\ Unborn /\ FieldsInv /\ EngineTypeOK
  BY Fields, Typed, SurfacesAssumption DEF EngineInv
<1>2. DOMAIN surfaces \subseteq SurfaceIds
  BY <1>1, SurfacesAssumption DEF SurfacesTypeOK, Unborn, SurfaceIds
<1>3. surfaces[s] \in Surface /\ surfaces[s].store \in Stores BY <1>1 DEF SurfacesTypeOK, Surface
<1> DEFINE r == Loaded(surfaces[s], address, shown)
<1>4. r \in Surface /\ r.store = surfaces[s].store /\ r.state = surfaces[s].state
  BY <1>1, <1>3, LoadedType, SurfacesAssumption
<1>5. surfaces' = [surfaces EXCEPT ![s] = r] BY DEF NavigateSurface
<1> HIDE DEF r
<1>6. /\ surfaces' \in [DOMAIN surfaces -> Surface] /\ surfaces'[s] = r
      /\ \A i \in DOMAIN surfaces : i # s => surfaces'[i] = surfaces[i]
  BY <1>1, <1>4, <1>5 DEF SurfacesTypeOK
<1>7. /\ persistentData' \in [SurfaceIds -> Addresses \cup {None}]
      /\ \A i \in SurfaceIds : i # s => persistentData'[i] = persistentData[i]
      /\ surfaces[s].store = "NonPersistent" => persistentData'[s] = persistentData[s]
  BY <1>1, <1>2, <1>3, VisitedType DEF NavigateSurface
<1>8. SurfacesTypeOK' /\ Unborn' BY <1>1, <1>6, <1>7, InPlace DEF NavigateSurface, SurfacesTypeOK
<1>9. surfaces[s].state # "Closed" BY DEF NavigateSurface, IsClosed
<1>10. FieldsInv'
  <2> SUFFICES ASSUME NEW i \in DOMAIN surfaces
               PROVE  /\ surfaces'[i].state = "Active" <=> active' = i
                      /\ surfaces'[i].store = "NonPersistent" =>
                           /\ persistentData'[i] = None
                           /\ surfaces'[i].state = "Closed" => surfaces'[i].data = None
    BY <1>6 DEF FieldsInv
  <2>1. active' = active BY DEF NavigateSurface
  <2>2. CASE i = s BY <1>1, <1>4, <1>6, <1>7, <1>9, <2>1, <2>2 DEF FieldsInv
  <2>3. CASE i # s
    <3>1. surfaces'[i] = surfaces[i] /\ persistentData'[i] = persistentData[i]
      BY <1>2, <1>6, <1>7, <2>3
    <3>2. QED BY <1>1, <2>1, <3>1 DEF FieldsInv
  <2>4. QED BY <2>2, <2>3
<1>11. QED BY <1>8, <1>10

\* What a call that names no surface makes of it: in the foreground, loaded.
LEMMA StartPreserves ==
  ASSUME EngineInv, NEW address \in Addresses, NEW shown \in Addresses \cup {None},
         StartNavigation(address, shown)
  PROVE  SurfacesTypeOK' /\ Unborn' /\ FieldsInv' /\ DataStay
<1>1. SurfacesTypeOK /\ Unborn /\ FieldsInv /\ EngineTypeOK
  BY Fields, Typed, SurfacesAssumption DEF EngineInv
<1> DEFINE n == Len(surfaces)
<1>2. /\ n \in Nat /\ surfaces \in [1..n -> Surface] /\ DOMAIN surfaces = 1..n
      /\ n <= MaxSurfaces /\ MaxSurfaces \in Nat
  BY <1>1, SurfacesAssumption DEF SurfacesTypeOK, Unborn
<1> DEFINE AllFor(s) == IF s \in DOMAIN surfaces THEN surfaces
                        ELSE Append(surfaces, NewSurface("Persistent", "Page"))
           FrontedFor(s) == IF s = active THEN AllFor(s) ELSE Foreground(AllFor(s), active, s)
<1>3. PICK s \in EnsuredSurfaces :
        /\ s <= MaxSurfaces
        /\ surfaces' = [FrontedFor(s) EXCEPT ![s] = Loaded(@, address, shown)]
        /\ active' = s
        /\ persistentData' = Visited(s, AllFor(s)[s].store, address)
        /\ UNCHANGED <<policy, exemptions>>
  BY DEF StartNavigation
<1> DEFINE m == IF s \in DOMAIN surfaces THEN n ELSE n + 1
           all == AllFor(s)
           fronted == FrontedFor(s)
           r == Loaded(fronted[s], address, shown)
<1>4. /\ s \in 1..n => surfaces[s].state # "Closed"
      /\ s \in 1..m /\ m <= MaxSurfaces /\ m \in Nat
  <2>1. (s = active /\ active # None /\ ~IsClosed(active)) \/ s \in OpenSurfaces \/ s = n + 1
    BY DEF EnsuredSurfaces
  <2>2. CASE s = active /\ active # None /\ ~IsClosed(active)
    BY <1>1, <1>2, <2>2 DEF SurfacesTypeOK, IsClosed
  <2>3. CASE s \in OpenSurfaces BY <1>2, <2>3 DEF OpenSurfaces, IsClosed
  <2>4. CASE s = n + 1 BY <1>2, <1>3, <2>4
  <2>5. QED BY <2>1, <2>2, <2>3, <2>4
<1>5. /\ all \in [1..m -> Surface] /\ \A i \in 1..n : all[i] = surfaces[i]
      /\ s \notin 1..n => s = n + 1 /\ all[s].store = "Persistent" /\ all[s].state # "Closed"
  <2>1. CASE s \in 1..n BY <1>2, <2>1
  <2>2. CASE s \notin 1..n
    <3> DEFINE new == NewSurface("Persistent", "Page")
    <3>1. new \in Surface /\ new.store = "Persistent" /\ new.state # "Closed"
      BY NewSurfaceType DEF Stores, Kinds, NewSurface
    <3>2. s = n + 1 /\ m = n + 1 BY <1>2, <1>4, <2>2
    <3>3. all = Append(surfaces, new) BY <1>2, <2>2
    <3> HIDE DEF new, all, n, m
    <3>4. QED BY <1>2, <3>1, <3>2, <3>3, Appended
  <2>3. QED BY <2>1, <2>2
<1> HIDE DEF n, m, all
<1>6. \A i \in 1..m : all[i].state = "Active" => active = i \/ i = s
  BY <1>1, <1>2, <1>4, <1>5 DEF FieldsInv, m
<1>7. fronted = IF s = active THEN all ELSE Foreground(all, active, s) BY DEF all
<1> HIDE DEF fronted
<1>8. /\ fronted \in [1..m -> Surface]
      /\ \A i \in 1..m :
           /\ fronted[i].store = all[i].store /\ fronted[i].data = all[i].data
           /\ fronted[i].state = "Active" <=> i = s
           /\ fronted[i].state = "Closed" <=> (i # s /\ all[i].state = "Closed")
  <2>1. CASE s = active
    <3>1. s \in 1..n BY <1>1, <1>2, <1>4, <2>1, SurfacesAssumption DEF SurfacesTypeOK
    <3>2. all[s].state = "Active" BY <1>1, <1>2, <1>5, <2>1, <3>1 DEF FieldsInv
    <3>3. QED BY <1>4, <1>5, <1>6, <1>7, <2>1, <3>2
  <2>2. CASE s # active BY <1>4, <1>5, <1>6, <1>7, <2>2, Fronted
  <2>3. QED BY <2>1, <2>2
<1>9. /\ r \in Surface /\ r.store = all[s].store /\ r.state = "Active" /\ r.data = address
  <2>1. fronted[s] \in Surface /\ fronted[s].store = all[s].store /\ fronted[s].state = "Active"
    BY <1>4, <1>8
  <2>2. /\ r \in Surface /\ r.store = fronted[s].store /\ r.state = fronted[s].state
        /\ r.data = address
    <3>1. EngineTypeOK /\ address \in Addresses /\ shown \in Addresses \cup {None} BY <1>1
    <3> DEFINE f == fronted[s]
    <3>2. f \in Surface BY <2>1
    <3> HIDE DEF f
    <3>3. /\ Loaded(f, address, shown) \in Surface
          /\ Loaded(f, address, shown).store = f.store
          /\ Loaded(f, address, shown).state = f.state
          /\ Loaded(f, address, shown).data = address
      BY ONLY <3>1, <3>2, LoadedType, SurfacesAssumption
    <3>4. QED BY <3>3 DEF f
  <2>3. QED BY <2>1, <2>2
<1>10. surfaces' = [fronted EXCEPT ![s] = r] BY <1>3 DEF fronted
<1> HIDE DEF r
<1>11. /\ surfaces' \in [1..m -> Surface] /\ surfaces'[s] = r
       /\ \A i \in 1..m : i # s => surfaces'[i] = fronted[i]
  BY <1>4, <1>8, <1>9, <1>10
<1>12. Len(surfaces') = m /\ DOMAIN surfaces' = 1..m BY <1>4, <1>11, SameLength
<1>13. 1..m \subseteq SurfaceIds BY <1>2, <1>4 DEF SurfaceIds
<1>14. all[s].store \in Stores BY <1>4, <1>5 DEF Surface
<1>15. /\ persistentData' \in [SurfaceIds -> Addresses \cup {None}]
       /\ \A i \in SurfaceIds : i # s => persistentData'[i] = persistentData[i]
       /\ all[s].store = "NonPersistent" => persistentData'[s] = persistentData[s]
  <2>1. persistentData' = Visited(s, all[s].store, address) /\ s \in SurfaceIds
    BY <1>3, <1>4, <1>13 DEF all
  <2>2. QED BY <1>1, <1>14, <2>1, VisitedType
<1>16. SurfacesTypeOK' BY <1>1, <1>3, <1>4, <1>11, <1>12, <1>15 DEF SurfacesTypeOK
<1>17. Unborn'
  <2>1. \A i \in SurfaceIds \ 1..m : i # s /\ i \notin 1..n BY <1>2, <1>4 DEF m
  <2>2. QED BY <1>1, <1>2, <1>4, <1>12, <1>15, <2>1 DEF Unborn
<1>18. FieldsInv'
  <2> SUFFICES ASSUME NEW i \in 1..m
               PROVE  /\ surfaces'[i].state = "Active" <=> active' = i
                      /\ surfaces'[i].store = "NonPersistent" =>
                           /\ persistentData'[i] = None
                           /\ surfaces'[i].state = "Closed" => surfaces'[i].data = None
    BY <1>12 DEF FieldsInv
  <2>1. CASE i = s
    <3>1. all[s].store = "NonPersistent" => s \in 1..n BY <1>5
    <3>2. all[s].store = "NonPersistent" => persistentData[s] = None
      BY <1>1, <1>2, <1>5, <3>1 DEF FieldsInv
    <3>3. surfaces'[i].store = all[s].store /\ surfaces'[i].state = "Active" /\ active' = i
      BY <1>3, <1>9, <1>11, <2>1
    <3>4. QED BY <1>15, <2>1, <3>2, <3>3
  <2>2. CASE i # s
    <3>1. i \in 1..n BY <1>2, <1>4, <1>5, <2>2 DEF m
    <3>2. surfaces'[i] = fronted[i] /\ persistentData'[i] = persistentData[i]
      BY <1>11, <1>13, <1>15, <2>2
    <3>3. /\ surfaces'[i].state # "Active" /\ active' # i
          /\ surfaces'[i].store = surfaces[i].store /\ surfaces'[i].data = surfaces[i].data
          /\ surfaces'[i].state = "Closed" <=> surfaces[i].state = "Closed"
      BY <1>3, <1>5, <1>8, <2>2, <3>1, <3>2
    <3>4. /\ surfaces[i].store = "NonPersistent" =>
               persistentData[i] = None /\ (surfaces[i].state = "Closed" => surfaces[i].data = None)
      BY <1>1, <1>2, <3>1 DEF FieldsInv
    <3>5. QED BY <3>2, <3>3, <3>4
  <2>3. QED BY <2>1, <2>2
<1>19. DataStay
  <2> SUFFICES ASSUME NEW i \in 1..n, surfaces[i].store = "Persistent", Retains(i)
               PROVE  surfaces'[i].store = "Persistent" /\ Retains(i)'
    BY <1>2 DEF DataStay
  <2>1. i \in 1..m BY <1>2, <1>4 DEF m
  <2>2. CASE i = s
    <3>1. surfaces'[i].store = "Persistent" BY <1>5, <1>9, <1>11, <2>2
    <3>2. surfaces'[i].data = address BY <1>11, <1>9, <2>2
    <3>3. QED BY <3>1, <3>2, SurfacesAssumption DEF Retains
  <2>3. CASE i # s
    <3>1. surfaces'[i] = fronted[i] /\ persistentData'[i] = persistentData[i]
      BY <1>11, <1>13, <1>15, <2>1, <2>3
    <3>2. surfaces'[i].store = surfaces[i].store /\ surfaces'[i].data = surfaces[i].data
      BY <1>5, <1>8, <2>1, <3>1
    <3>3. QED BY <3>1, <3>2 DEF Retains
  <2>4. QED BY <2>2, <2>3
<1>20. QED BY <1>16, <1>17, <1>18, <1>19

LEMMA ShowPreserves ==
  ASSUME EngineInv, NEW s \in DOMAIN surfaces,
         \/ HostSurfaceBytes(s)
         \/ \E address \in Addresses : NavigateSameDocument(s, address)
  PROVE  SurfacesTypeOK' /\ Unborn' /\ FieldsInv'
<1>1. SurfacesTypeOK /\ Unborn /\ FieldsInv BY Fields DEF EngineInv
<1>2. /\ surfaces' \in [DOMAIN surfaces -> Surface]
      /\ \A i \in DOMAIN surfaces :
           /\ surfaces'[i].store = surfaces[i].store /\ surfaces'[i].state = surfaces[i].state
           /\ surfaces'[i].data = surfaces[i].data
      /\ UNCHANGED <<active, persistentData, policy, exemptions>>
  <2>1. CASE HostSurfaceBytes(s)
    <3>1. surfaces[s] \in Surface BY <1>1 DEF SurfacesTypeOK
    <3>2. [surfaces[s] EXCEPT !.current = Hosted, !.kind = "AppSurface"] \in Surface
      BY <3>1 DEF Surface, Kinds
    <3>3. surfaces' \in [DOMAIN surfaces -> Surface]
      BY <1>1, <2>1, <3>2 DEF HostSurfaceBytes, SurfacesTypeOK
    <3>4. QED BY <1>1, <2>1, <3>1, <3>3 DEF HostSurfaceBytes, SurfacesTypeOK, Surface
  <2>2. CASE \E address \in Addresses : NavigateSameDocument(s, address)
    <3>1. PICK address \in Addresses : NavigateSameDocument(s, address) BY <2>2
    <3>2. QED BY <1>1, <3>1 DEF NavigateSameDocument, SurfacesTypeOK, Surface
  <2>3. QED BY <2>1, <2>2
<1>3. SurfacesTypeOK' /\ Unborn' BY <1>1, <1>2, InPlace DEF SurfacesTypeOK
<1>4. FieldsInv' BY <1>1, <1>2 DEF FieldsInv
<1>5. QED BY <1>3, <1>4

\* The calls about content blocking, and a stutter, leave the surfaces alone.
LEMMA RulesPreserve ==
  ASSUME EngineInv, UNCHANGED <<surfaces, active, persistentData>>,
         policy' \in Policies \cup {None}, exemptions' \subseteq Sites
  PROVE  SurfacesTypeOK' /\ Unborn' /\ FieldsInv'
<1>1. SurfacesTypeOK /\ Unborn /\ FieldsInv BY Fields DEF EngineInv
<1>2. QED BY <1>1 DEF SurfacesTypeOK, Unborn, FieldsInv

-----------------------------------------------------------------------------
(* What the calls do to the data of a persistent store *)

LEMMA CreateKeepsData ==
  ASSUME EngineInv, NEW store \in Stores, NEW kind \in Kinds, CreateSurface(store, kind)
  PROVE  DataStay
<1> DEFINE n == Len(surfaces)
<1>1. /\ n \in Nat /\ surfaces \in [1..n -> Surface] /\ DOMAIN surfaces = 1..n
  BY DEF EngineInv, SurfacesTypeOK
<1>2. surfaces' = Append(surfaces, NewSurface(store, kind)) /\ persistentData' = persistentData
  BY DEF CreateSurface
<1>3. NewSurface(store, kind) \in Surface BY NewSurfaceType
<1>4. \A i \in 1..n : surfaces'[i] = surfaces[i]
  <2> HIDE DEF n
  <2>1. QED BY ONLY <1>1, <1>2, <1>3, Appended
<1>5. QED BY <1>1, <1>2, <1>4 DEF DataStay, Retains

LEMMA ChangeKeepsData ==
  ASSUME EngineInv, NEW s \in DOMAIN surfaces,
         \/ ActivateSurface(s) \/ SuspendSurface(s) \/ HostSurfaceBytes(s)
         \/ \E a \in Addresses : NavigateSameDocument(s, a)
  PROVE  DataStay
<1>1. surfaces \in [DOMAIN surfaces -> Surface] BY DEF EngineInv, SurfacesTypeOK
<1>2. /\ persistentData' = persistentData
      /\ \A i \in DOMAIN surfaces :
           surfaces'[i].store = surfaces[i].store /\ surfaces'[i].data = surfaces[i].data
  <2>1. CASE ActivateSurface(s) BY <1>1, <2>1 DEF ActivateSurface, Foreground, Surface
  <2>2. CASE SuspendSurface(s) BY <1>1, <2>2 DEF SuspendSurface, Surface
  <2>3. CASE HostSurfaceBytes(s) BY <1>1, <2>3 DEF HostSurfaceBytes, Surface
  <2>4. CASE \E a \in Addresses : NavigateSameDocument(s, a)
    <3>1. PICK a \in Addresses : NavigateSameDocument(s, a) BY <2>4
    <3>2. QED BY <1>1, <3>1 DEF NavigateSameDocument, Surface
  <2>5. QED BY <2>1, <2>2, <2>3, <2>4
<1>3. QED BY <1>2 DEF DataStay, Retains

\* Closing puts what the surface itself held with the persistent data.
LEMMA CloseKeepsData == ASSUME EngineInv, NEW s \in DOMAIN surfaces, CloseSurface(s) PROVE DataStay
<1>1. SurfacesTypeOK /\ Unborn /\ s \in SurfaceIds
  BY SurfacesAssumption DEF EngineInv, SurfacesTypeOK, Unborn, SurfaceIds
<1> SUFFICES ASSUME NEW i \in DOMAIN surfaces, surfaces[i].store = "Persistent", Retains(i)
             PROVE  surfaces'[i].store = "Persistent" /\ Retains(i)'
  BY DEF DataStay
<1>2. CASE i = s
  <2>1. surfaces[s] \in Surface BY <1>1 DEF SurfacesTypeOK
  <2>2. surfaces'[s].store = "Persistent" BY <1>1, <1>2, <2>1 DEF CloseSurface, SurfacesTypeOK, Surface
  <2>3. persistentData'[s] = IF surfaces[s].data = None THEN persistentData[s] ELSE surfaces[s].data
    BY <1>1, <1>2 DEF CloseSurface, SurfacesTypeOK
  <2>4. QED BY <1>2, <2>2, <2>3 DEF Retains
<1>3. CASE i # s
  <2>1. surfaces'[i] = surfaces[i] BY <1>1, <1>3 DEF CloseSurface, SurfacesTypeOK
  <2>2. persistentData'[i] = persistentData[i]
    BY <1>1, <1>3, SurfacesAssumption DEF CloseSurface, SurfacesTypeOK, Unborn, SurfaceIds
  <2>3. QED BY <2>1, <2>2 DEF Retains
<1>4. QED BY <1>2, <1>3

LEMMA NavigateKeepsData ==
  ASSUME EngineInv, NEW s \in DOMAIN surfaces, NEW address \in Addresses,
         NEW shown \in Addresses \cup {None}, NavigateSurface(s, address, shown)
  PROVE  DataStay
<1>1. SurfacesTypeOK /\ Unborn /\ EngineTypeOK /\ DOMAIN surfaces \subseteq SurfaceIds
  BY Typed, SurfacesAssumption DEF EngineInv, SurfacesTypeOK, Unborn, SurfaceIds
<1>2. surfaces[s] \in Surface /\ surfaces[s].store \in Stores BY <1>1 DEF SurfacesTypeOK, Surface
<1> DEFINE r == Loaded(surfaces[s], address, shown)
<1>3. r.store = surfaces[s].store /\ r.data = address
  BY <1>1, <1>2, LoadedType, SurfacesAssumption
<1>4. surfaces' = [surfaces EXCEPT ![s] = r] BY DEF NavigateSurface
<1> HIDE DEF r
<1>5. \A i \in SurfaceIds : i # s => persistentData'[i] = persistentData[i]
  BY <1>1, <1>2, VisitedType DEF NavigateSurface
<1> SUFFICES ASSUME NEW i \in DOMAIN surfaces, surfaces[i].store = "Persistent", Retains(i)
             PROVE  surfaces'[i].store = "Persistent" /\ Retains(i)'
  BY DEF DataStay
<1>6. CASE i = s
  <2>1. surfaces'[i] = r BY <1>4, <1>6
  <2>2. QED BY <1>3, <1>6, <2>1, SurfacesAssumption DEF Retains
<1>7. CASE i # s
  <2>1. surfaces'[i] = surfaces[i] /\ persistentData'[i] = persistentData[i]
    BY <1>1, <1>4, <1>5, <1>7 DEF SurfacesTypeOK
  <2>2. QED BY <2>1 DEF Retains
<1>8. QED BY <1>6, <1>7

LEMMA StepKeepsData == ASSUME EngineInv, [EngineNext]_engineVars PROVE DataStay
<1>1. ASSUME NEW store \in Stores, NEW kind \in Kinds, CreateSurface(store, kind) PROVE DataStay
  BY <1>1, CreateKeepsData
<1>2. ASSUME NEW s \in DOMAIN surfaces,
             \/ ActivateSurface(s) \/ ResumeSurface(s) \/ SuspendSurface(s) \/ HostSurfaceBytes(s)
             \/ \E a \in Addresses : NavigateSameDocument(s, a)
      PROVE  DataStay
  BY <1>2, ChangeKeepsData DEF ResumeSurface
<1>3. ASSUME NEW s \in DOMAIN surfaces, CloseSurface(s) PROVE DataStay
  BY <1>3, CloseKeepsData
<1>4. ASSUME NEW s \in DOMAIN surfaces, NEW a \in Addresses, NEW shown \in Addresses \cup {None},
             NavigateSurface(s, a, shown)
      PROVE  DataStay
  BY <1>4, NavigateKeepsData
<1>5. ASSUME NEW a \in Addresses, NEW shown \in Addresses \cup {None}, StartNavigation(a, shown)
      PROVE  DataStay
  BY <1>5, StartPreserves
<1>6. ASSUME \/ \E p \in Policies : InstallPolicy(p)
             \/ \E site \in Sites : ExemptSite(site) \/ RemoveSiteExemption(site)
             \/ UNCHANGED engineVars
      PROVE  DataStay
  BY <1>6 DEF InstallPolicy, ExemptSite, RemoveSiteExemption, engineVars, DataStay, Retains
<1>7. QED BY <1>1, <1>2, <1>3, <1>4, <1>5, <1>6 DEF EngineNext

-----------------------------------------------------------------------------
(* The theorems *)

LEMMA EngineInitInv == ASSUME EngineInit PROVE EngineInv
<1>1. surfaces = <<>> /\ DOMAIN surfaces = {} /\ Len(surfaces) = 0 BY DEF EngineInit
<1>2. SurfacesTypeOK BY <1>1 DEF EngineInit, SurfacesTypeOK
<1>3. Unborn BY <1>1, SurfacesAssumption DEF EngineInit, Unborn
<1>4. OneForeground /\ NothingLeftBehind BY <1>1 DEF OneForeground, NothingLeftBehind
<1>5. QED BY <1>2, <1>3, <1>4 DEF EngineInv

LEMMA EngineStepInv == ASSUME EngineInv, [EngineNext]_engineVars PROVE EngineInv'
<1> SUFFICES SurfacesTypeOK' /\ Unborn' /\ FieldsInv' BY Kept
<1>1. ASSUME NEW store \in Stores, NEW kind \in Kinds, CreateSurface(store, kind)
      PROVE  SurfacesTypeOK' /\ Unborn' /\ FieldsInv'
  BY <1>1, CreatePreserves
<1>2. ASSUME NEW s \in DOMAIN surfaces, ActivateSurface(s) \/ ResumeSurface(s)
      PROVE  SurfacesTypeOK' /\ Unborn' /\ FieldsInv'
  BY <1>2, ActivatePreserves DEF ResumeSurface
<1>3. ASSUME NEW s \in DOMAIN surfaces, SuspendSurface(s) PROVE SurfacesTypeOK' /\ Unborn' /\ FieldsInv'
  BY <1>3, SuspendPreserves
<1>4. ASSUME NEW s \in DOMAIN surfaces, CloseSurface(s) PROVE SurfacesTypeOK' /\ Unborn' /\ FieldsInv'
  BY <1>4, ClosePreserves
<1>5. ASSUME NEW s \in DOMAIN surfaces,
             \/ HostSurfaceBytes(s)
             \/ \E a \in Addresses : NavigateSameDocument(s, a)
      PROVE  SurfacesTypeOK' /\ Unborn' /\ FieldsInv'
  BY <1>5, ShowPreserves
<1>6. ASSUME NEW s \in DOMAIN surfaces, NEW a \in Addresses, NEW shown \in Addresses \cup {None},
             NavigateSurface(s, a, shown)
      PROVE  SurfacesTypeOK' /\ Unborn' /\ FieldsInv'
  BY <1>6, NavigatePreserves
<1>7. ASSUME NEW a \in Addresses, NEW shown \in Addresses \cup {None}, StartNavigation(a, shown)
      PROVE  SurfacesTypeOK' /\ Unborn' /\ FieldsInv'
  BY <1>7, StartPreserves
<1>8. ASSUME \/ \E p \in Policies : InstallPolicy(p)
             \/ \E site \in Sites : ExemptSite(site) \/ RemoveSiteExemption(site)
             \/ UNCHANGED engineVars
      PROVE  SurfacesTypeOK' /\ Unborn' /\ FieldsInv'
  <2>1. /\ UNCHANGED <<surfaces, active, persistentData>>
        /\ policy' \in Policies \cup {None} /\ exemptions' \subseteq Sites
    BY <1>8 DEF InstallPolicy, ExemptSite, RemoveSiteExemption, engineVars, EngineInv, SurfacesTypeOK
  <2>2. QED BY <2>1, RulesPreserve
<1>9. QED BY <1>1, <1>2, <1>3, <1>4, <1>5, <1>6, <1>7, <1>8 DEF EngineNext

LEMMA EngineInvariant == EngineSpec => []EngineInv
  BY EngineInitInv, EngineStepInv, PTL DEF EngineSpec

(* The surfaces, the page each shows and the data kept have their types,   *)
(* and the engine names as active no surface it does not have.             *)
THEOREM TypeCorrect == EngineSpec => []EngineTypeOK
<1>1. EngineInv => EngineTypeOK BY Typed, SurfacesAssumption DEF EngineInv
<1>2. QED BY <1>1, EngineInvariant, PTL

(* Whatever the order of the calls, one surface at most is in the          *)
(* foreground and it is the one the engine names (activate_surface,        *)
(* suspend_surface, close_surface, ensure_active_surface).                 *)
THEOREM OneInTheForeground == EngineSpec => []OneForeground
<1>1. EngineInv => OneForeground BY DEF EngineInv
<1>2. QED BY <1>1, EngineInvariant, PTL

(* A private surface that was closed keeps nothing, and nothing of it was  *)
(* ever with the persistent data (close_surface, start_surface_navigation).*)
THEOREM PrivateLeavesNothing == EngineSpec => []NothingLeftBehind
<1>1. EngineInv => NothingLeftBehind BY DEF EngineInv
<1>2. QED BY <1>1, EngineInvariant, PTL

(* What a normal surface has stored stays through every call, its own      *)
(* suspension and end among them (close_surface, suspend_surface).         *)
THEOREM PersistentDataAreKept == EngineSpec => PersistentDataStay
<1>1. ASSUME EngineInv, [EngineNext]_engineVars
      PROVE  [\A s \in DOMAIN surfaces :
                surfaces[s].store = "Persistent" /\ HasRetainedData(s) =>
                  \/ surfaces' = <<>>
                  \/ HasRetainedData(s)']_engineVars
  BY <1>1, StepKeepsData DEF DataStay, Retains, HasRetainedData
<1>2. QED BY <1>1, EngineInvariant, PTL DEF EngineSpec, PersistentDataStay

(***************************************************************************)
(* The permissions                                                         *)
(***************************************************************************)

Decisions == [Keys -> Responses \cup {Nothing}]

PermissionTypeOK ==
  /\ persistent \in Decisions
  /\ private \in [WindowIds -> Decisions]
  /\ disk \in Decisions
  /\ saving \in BOOLEAN

\* What is recorded as granted was granted in its scope.
RecordedByTheMember ==
  \A k \in Keys :
    /\ persistent[k] = "Granted" => <<Persistent, k>> \in grants
    /\ \A w \in WindowIds : private[w][k] = "Granted" => <<w, k>> \in grants

PermissionInv == PermissionTypeOK /\ RecordedByTheMember /\ DiskIsPersistent

LEMMA NoDecisionsType == NoDecisions \in Decisions BY DEF NoDecisions, Decisions

-----------------------------------------------------------------------------
(* The steps *)

\* No memory, disk or grant is changed.
LEMMA StutterPreserves == ASSUME PermissionInv, UNCHANGED permissionVars PROVE PermissionInv'
  BY DEF PermissionInv, PermissionTypeOK, RecordedByTheMember, DiskIsPersistent, permissionVars

\* record_decision and revoke: value is recorded for key in scope, and the
\* member has granted all it granted before and, when value says so, this.
LEMMA PutPreserves ==
  ASSUME PermissionInv, NEW key \in Keys, NEW value \in Responses \cup {Nothing}, NEW scope,
         Put(key, value, scope),
         grants \subseteq grants', value = "Granted" => <<scope, key>> \in grants'
  PROVE  PermissionInv'
<1>1. PermissionTypeOK /\ RecordedByTheMember /\ DiskIsPersistent /\ ~saving BY DEF PermissionInv, Put
<1>2. CASE scope = Persistent
  <2>1. /\ persistent' = [persistent EXCEPT ![key] = value] /\ saving' = TRUE
        /\ UNCHANGED <<private, disk, refused>>
    BY <1>2 DEF Put
  <2>2. PermissionTypeOK' BY <1>1, <2>1 DEF PermissionTypeOK, Decisions
  <2>3. RecordedByTheMember' BY <1>1, <1>2, <2>1 DEF PermissionTypeOK, Decisions, RecordedByTheMember
  <2>4. DiskIsPersistent' BY <1>1, <2>1 DEF DiskIsPersistent
  <2>5. QED BY <2>2, <2>3, <2>4 DEF PermissionInv
<1>3. CASE scope # Persistent
  <2>1. /\ private' = [private EXCEPT ![scope] = [private[scope] EXCEPT ![key] = value]]
        /\ UNCHANGED <<persistent, saving, disk, refused, unread>>
    BY <1>3 DEF Put
  <2>2. PermissionTypeOK'
    <3>1. scope \in WindowIds => [private[scope] EXCEPT ![key] = value] \in Decisions
      BY <1>1 DEF PermissionTypeOK, Decisions
    <3>2. QED BY <1>1, <2>1, <3>1 DEF PermissionTypeOK
  <2>3. \A w \in WindowIds, k \in Keys :
          private'[w][k] = IF w = scope /\ k = key THEN value ELSE private[w][k]
    BY <1>1, <2>1 DEF PermissionTypeOK, Decisions
  <2>4. RecordedByTheMember' BY <1>1, <2>1, <2>3 DEF RecordedByTheMember
  <2>5. DiskIsPersistent' BY <1>1, <2>1 DEF DiskIsPersistent
  <2>6. QED BY <2>2, <2>4, <2>5 DEF PermissionInv
<1>4. QED BY <1>2, <1>3

LEMMA RecordPreserves ==
  ASSUME PermissionInv, NEW key \in Keys, NEW decision \in Responses, NEW scope,
         RecordDecision(key, decision, scope)
  PROVE  PermissionInv'
  BY PutPreserves DEF RecordDecision

LEMMA RevokePreserves ==
  ASSUME PermissionInv, NEW key \in Keys, NEW scope, Revoke(key, scope) PROVE PermissionInv'
<1>1. Nothing # "Granted" BY PermissionsAssumption
<1>2. QED BY <1>1, PutPreserves DEF Revoke

\* An answer that comes late is recorded where it was asked.
LEMMA AnswerPreserves == ASSUME PermissionInv, NEW scope, AnswerPrompt(scope) PROVE PermissionInv'
<1>1. PICK k \in Keys, r \in Responses, remember \in BOOLEAN :
        HandlePromptResponse(k, r, remember, scope)
  BY DEF AnswerPrompt
<1>2. CASE remember BY <1>1, <1>2, RecordPreserves DEF HandlePromptResponse
<1>3. CASE ~remember BY <1>1, <1>3, StutterPreserves DEF HandlePromptResponse
<1>4. QED BY <1>2, <1>3

LEMMA ChangePreserves == ASSUME PermissionInv, NEW w, ChangePrivatePermission(w) PROVE PermissionInv'
  BY RecordPreserves, RevokePreserves DEF ChangePrivatePermission

LEMMA SavePreserves == ASSUME PermissionInv, SaveSucceeds \/ SaveFails PROVE PermissionInv'
<1>1. PermissionTypeOK /\ RecordedByTheMember /\ DiskIsPersistent BY DEF PermissionInv
<1>2. /\ UNCHANGED <<persistent, private, grants>> /\ saving' = FALSE
      /\ \/ disk' = persistent
         \/ disk' = disk /\ refused'
  BY DEF SaveSucceeds, SaveFails
<1>3. PermissionTypeOK' /\ RecordedByTheMember'
  BY <1>1, <1>2 DEF PermissionTypeOK, RecordedByTheMember
<1>4. DiskIsPersistent' BY <1>1, <1>2 DEF DiskIsPersistent, RecordedByTheMember
<1>5. QED BY <1>3, <1>4 DEF PermissionInv

LEMMA PermissionStepPreserves == ASSUME PermissionInv, PermissionStep PROVE PermissionInv'
<1>1. CASE SaveSucceeds \/ SaveFails BY <1>1, SavePreserves
<1>2. CASE \E k \in Keys : \E r \in Responses : RecordDecision(k, r, Persistent)
  BY <1>2, RecordPreserves
<1>3. CASE \E k \in Keys : Revoke(k, Persistent) BY <1>3, RevokePreserves
<1>4. CASE \E c \in Capabilities : \E a \in BOOLEAN : SetCapabilityAvailable(c, a)
  BY <1>4 DEF SetCapabilityAvailable, PermissionInv, PermissionTypeOK, RecordedByTheMember, DiskIsPersistent
<1>5. QED BY <1>1, <1>2, <1>3, <1>4 DEF PermissionStep

\* A purge takes records away, and grants none.
LEMMA ClosePrivatePreserves ==
  ASSUME PermissionInv, NEW w, NEW withStore \in BOOLEAN, ClosePrivateWindow(w, withStore)
  PROVE  PermissionInv'
<1>1. PermissionTypeOK /\ RecordedByTheMember /\ DiskIsPersistent BY DEF PermissionInv
<1>2. /\ UNCHANGED <<persistent, saving, disk, refused, unread, grants>>
      /\ private' = private \/ private' = [private EXCEPT ![w] = NoDecisions]
  BY DEF ClosePrivateWindow, PurgedPrivateWindow
<1>3. PermissionTypeOK' BY <1>1, <1>2, NoDecisionsType DEF PermissionTypeOK
<1>4. \A v \in WindowIds, k \in Keys : private'[v][k] = private[v][k] \/ private'[v][k] = Nothing
  BY <1>1, <1>2 DEF PermissionTypeOK, NoDecisions
<1>5. RecordedByTheMember' BY <1>1, <1>2, <1>4, PermissionsAssumption DEF RecordedByTheMember
<1>6. DiskIsPersistent' BY <1>1, <1>2 DEF DiskIsPersistent
<1>7. QED BY <1>3, <1>5, <1>6 DEF PermissionInv

\* Only the file's grants remain, or none, and they are all of the persistent scope.
LEMMA RestartPreserves == ASSUME PermissionInv, Restart PROVE PermissionInv'
<1>1. PermissionTypeOK /\ RecordedByTheMember /\ DiskIsPersistent BY DEF PermissionInv
<1>2. /\ disk' = disk /\ saving' = FALSE
      /\ private' = [w \in WindowIds |-> NoDecisions]
      /\ grants' = {g \in grants : g[1] = Persistent}
      /\ persistent' = disk \/ (persistent' = NoDecisions /\ unread')
  <2>1. PICK read \in BOOLEAN :
          persistent' = (IF read THEN disk ELSE NoDecisions) /\ unread' = ~read
    BY DEF Restart, Reopened, FileRead
  <2>2. persistent' = disk \/ (persistent' = NoDecisions /\ unread')
    <3>1. CASE read
      <4>1. persistent' = disk BY <2>1, <3>1
      <4>2. QED BY <4>1
    <3>2. CASE ~read
      <4>1. unread' BY <2>1, <3>2, Zenon
      <4>2. QED BY <2>1, <3>2, <4>1
    <3>3. QED BY <3>1, <3>2
  <2>3. QED BY <2>2 DEF Restart, Reopened
<1>3. PermissionTypeOK' BY <1>1, <1>2, NoDecisionsType DEF PermissionTypeOK
<1>4. \A k \in Keys : disk[k] = "Granted" => <<Persistent, k>> \in grants'
  BY <1>1, <1>2 DEF DiskIsPersistent
<1>5. \A w \in WindowIds, k \in Keys : private'[w][k] # "Granted"
  BY <1>2, PermissionsAssumption DEF NoDecisions
<1>6. RecordedByTheMember'
  <2>1. \A k \in Keys : NoDecisions[k] # "Granted" BY PermissionsAssumption DEF NoDecisions
  <2>2. QED BY <1>2, <1>4, <1>5, <2>1 DEF RecordedByTheMember
<1>7. DiskIsPersistent' BY <1>2, <1>4 DEF DiskIsPersistent
<1>8. QED BY <1>3, <1>6, <1>7 DEF PermissionInv

LEMMA WindowStepPreserves == ASSUME PermissionInv, WindowStep PROVE PermissionInv'
<1>1. ASSUME NEW store \in Stores, OpenWindow(store) PROVE PermissionInv'
  BY <1>1, StutterPreserves DEF OpenWindow, TakeWindow
<1>2. CASE Resumed
  <2>1. UNCHANGED permissionVars BY <1>2 DEF Resumed, CreateWinitWindow, TakeWindow
  <2>2. QED BY <2>1, StutterPreserves
<1>3. CASE AboutToWait BY <1>3, StutterPreserves DEF AboutToWait
<1>4. CASE OpenPrivateWindow BY <1>4, StutterPreserves DEF OpenPrivateWindow, TakeWindow
<1>5. ASSUME NEW w, CloseWindow(w) \/ CloseRequested(w) PROVE PermissionInv'
  BY <1>5, StutterPreserves DEF CloseWindow, CloseRequested, CloseAppWindow
<1>6. ASSUME NEW w, NEW withStore \in BOOLEAN, ClosePrivateWindow(w, withStore) PROVE PermissionInv'
  BY <1>6, ClosePrivatePreserves
<1>7. ASSUME NEW w, NEW site, AllowBlockingException(w, site) \/ RevokeBlockingException(w, site)
      PROVE  PermissionInv'
  BY <1>7, StutterPreserves DEF AllowBlockingException, RevokeBlockingException
<1>8. ASSUME NEW w, ChangePrivatePermission(w) PROVE PermissionInv' BY <1>8, ChangePreserves
<1>9. QED BY <1>1, <1>2, <1>3, <1>4, <1>5, <1>6, <1>7, <1>8 DEF WindowStep

LEMMA PermissionStepInv == ASSUME PermissionInv, [Next]_vars PROVE PermissionInv'
<1>1. CASE WindowStep BY <1>1, WindowStepPreserves
<1>2. CASE \E scope \in Scopes : AnswerPrompt(scope) BY <1>2, AnswerPreserves
<1>3. CASE SurfaceStep /\ UNCHANGED <<permissionVars, windowVars>> BY <1>3, StutterPreserves
<1>4. CASE PermissionStep BY <1>4, PermissionStepPreserves
<1>5. CASE Restart BY <1>5, RestartPreserves
<1>6. CASE UNCHANGED vars
  <2>1. UNCHANGED permissionVars BY <1>6 DEF vars, permissionVars
  <2>2. QED BY <2>1, StutterPreserves
<1>7. QED BY <1>1, <1>2, <1>3, <1>4, <1>5, <1>6 DEF Next

LEMMA PermissionInitInv == ASSUME Init PROVE PermissionInv
<1>1. PermissionTypeOK
  BY NoDecisionsType DEF Init, PermissionInit, PermissionTypeOK
<1>2. RecordedByTheMember /\ DiskIsPersistent
  BY PermissionsAssumption
     DEF Init, PermissionInit, RecordedByTheMember, DiskIsPersistent, NoDecisions
<1>3. QED BY <1>1, <1>2 DEF PermissionInv

LEMMA PermissionInvariant == Spec => []PermissionInv
  BY PermissionInitInv, PermissionStepInv, PTL DEF Spec

-----------------------------------------------------------------------------
(* The theorem *)

LEMMA AnswersAreRecorded == ASSUME PermissionInv PROVE PermissionsAreTheMembers
<1>1. RecordedByTheMember /\ DiskIsPersistent BY DEF PermissionInv
<1>2. ASSUME NEW k \in Keys, NEW s \in Scopes, Query(k, s) = "Granted"
      PROVE  <<s, k>> \in grants
  <2>1. Recorded(k, s) = "Granted" BY <1>2 DEF Query
  <2>2. CASE s = Persistent BY <1>1, <2>1, <2>2 DEF Recorded, RecordedByTheMember
  <2>3. CASE s # Persistent BY <1>1, <2>1, <2>3 DEF Recorded, RecordedByTheMember, Scopes
  <2>4. QED BY <2>2, <2>3
<1>3. QED BY <1>1, <1>2 DEF PermissionsAreTheMembers, GrantedByTheMember

(* Through late answers, purges, refused saves and restarts that read the  *)
(* file or do not, a query grants what the member granted in that scope    *)
(* and nothing else, and the file holds grants of normal windows only.     *)
THEOREM GrantsAreTheMembers == Spec => []PermissionsAreTheMembers
  BY PermissionInvariant, AnswersAreRecorded, PTL

-----------------------------------------------------------------------------
(* The windows and their surfaces: a window's surface has the window's id, *)
(* since the two are only ever taken together.                             *)

Counted == {w \in DOMAIN windows : windows[w].owner = "app" /\ surfaces[w].state # "Closed"}

Shapes ==
  /\ Len(windows) \in Nat /\ DOMAIN windows = 1..Len(windows)
  /\ windows \in [1..Len(windows) -> Window]
  /\ surfaces \in [1..Len(windows) -> Surface]
  /\ 1..Len(windows) \subseteq WindowIds
  /\ exceptions \in [WindowIds -> SUBSET SiteKeys]
  /\ \A w \in 1..Len(windows) : windows[w].surface = w

Paired ==
  \A w \in 1..Len(windows) :
    /\ windows[w].state \in {"closed", "purged"} <=> surfaces[w].state = "Closed"
    /\ windows[w].store = surfaces[w].store
    /\ windows[w].owner = "session" /\ windows[w].state # "open" => exceptions[w] = {}

SurfaceInv == Shapes /\ Paired /\ childViews = Cardinality(Counted)

LEMMA AppendedWindow ==
  ASSUME NEW n \in Nat, NEW f \in [1..n -> Window], NEW r \in Window
  PROVE  /\ Len(f) = n
         /\ Len(Append(f, r)) = n + 1 /\ Append(f, r) \in [1..(n + 1) -> Window]
         /\ Append(f, r)[n + 1] = r /\ \A i \in 1..n : Append(f, r)[i] = f[i]
<1>1. f \in Seq(Window) /\ Len(f) = n OBVIOUS
<1> DEFINE g == Append(f, r)
<1>2. /\ g \in Seq(Window) /\ Len(g) = n + 1
      /\ g[n + 1] = r /\ \A i \in 1..n : g[i] = f[i]
  BY <1>1, AppendProperties
<1>3. g \in [1..Len(g) -> Window] BY <1>2, ElementOfSeq, LenProperties
<1> HIDE DEF g
<1>4. /\ Len(g) = n + 1 /\ g \in [1..(n + 1) -> Window]
      /\ g[n + 1] = r /\ \A i \in 1..n : g[i] = f[i]
  BY ONLY <1>2, <1>3
<1>5. QED BY <1>1, <1>4 DEF g

LEMMA AppendedSurface ==
  ASSUME NEW n \in Nat, NEW f \in [1..n -> Surface], NEW r \in Surface
  PROVE  /\ Len(f) = n
         /\ Len(Append(f, r)) = n + 1 /\ Append(f, r) \in [1..(n + 1) -> Surface]
         /\ Append(f, r)[n + 1] = r /\ \A i \in 1..n : Append(f, r)[i] = f[i]
<1>1. f \in Seq(Surface) /\ Len(f) = n OBVIOUS
<1> DEFINE g == Append(f, r)
<1>2. /\ g \in Seq(Surface) /\ Len(g) = n + 1
      /\ g[n + 1] = r /\ \A i \in 1..n : g[i] = f[i]
  BY <1>1, AppendProperties
<1>3. g \in [1..Len(g) -> Surface] BY <1>2, ElementOfSeq, LenProperties
<1> HIDE DEF g
<1>4. /\ Len(g) = n + 1 /\ g \in [1..(n + 1) -> Surface]
      /\ g[n + 1] = r /\ \A i \in 1..n : g[i] = f[i]
  BY ONLY <1>2, <1>3
<1>5. QED BY <1>1, <1>4 DEF g

LEMMA CountedFinite == ASSUME SurfaceInv PROVE IsFiniteSet(Counted) /\ Cardinality(Counted) \in Nat
<1>1. DOMAIN windows = 1..Len(windows) /\ Len(windows) \in Nat BY DEF SurfaceInv, Shapes
<1>2. IsFiniteSet(1..Len(windows)) BY <1>1, FS_Interval
<1>3. Counted \in SUBSET (1..Len(windows)) BY <1>1 DEF Counted
<1>4. IsFiniteSet(Counted) BY <1>2, <1>3, FS_Subset
<1>5. QED BY <1>4, FS_CardinalityType

\* A step that leaves windows, exceptions and count alone, and of a surface
\* its store and whether it is closed.
LEMMA SurfacesChange ==
  ASSUME SurfaceInv, UNCHANGED <<windows, childViews, exceptions>>,
         surfaces' \in [1..Len(windows) -> Surface],
         \A w \in 1..Len(windows) :
           /\ surfaces'[w].store = surfaces[w].store
           /\ surfaces'[w].state = "Closed" <=> surfaces[w].state = "Closed"
  PROVE  SurfaceInv'
<1>1. Shapes' BY DEF SurfaceInv, Shapes
<1>2. Paired' BY DEF SurfaceInv, Paired
<1>3. Counted' = Counted BY DEF SurfaceInv, Shapes, Counted
<1>4. QED BY <1>1, <1>2, <1>3 DEF SurfaceInv

LEMMA TakePreserves ==
  ASSUME SurfaceInv, NEW owner \in Owners, NEW store \in Stores, NEW winit \in BOOLEAN,
         NEW state \in {"open", "failed"}, TakeWindow(owner, store, winit, state),
         childViews' = childViews + (IF owner = "app" THEN 1 ELSE 0),
         owner = "session" => state = "open"
  PROVE  SurfaceInv'
<1> DEFINE n == Len(windows)
           win == NewWindow(owner, store, winit, state)
           new == NewSurface(store, "Page")
<1>1. Shapes /\ Paired /\ n \in Nat BY DEF SurfaceInv, Shapes
<1>2. /\ windows \in [1..n -> Window] /\ surfaces \in [1..n -> Surface] /\ DOMAIN windows = 1..n
      /\ n + 1 \in WindowIds /\ Len(surfaces) < MaxSurfaces
      /\ windows' = Append(windows, win) /\ surfaces' = Append(surfaces, new)
      /\ exceptions' = exceptions
  BY <1>1 DEF Shapes, TakeWindow, CreateSurface
<1>3. new \in Surface /\ new.state = "Inactive" /\ new.store = store
  BY DEF NewSurface, Surface, Lifecycle, Kinds
<1>4. Len(surfaces) = n
  <2> HIDE DEF n, new
  <2>1. QED BY ONLY <1>1, <1>2, <1>3, AppendedSurface
<1>5. /\ win \in Window /\ win.surface = n + 1 /\ win.owner = owner
      /\ win.store = store /\ win.state = state
  BY <1>1, <1>2, <1>4, SurfacesAssumption DEF NewWindow, Window, SurfaceIds
<1>6. /\ Len(windows') = n + 1 /\ windows' \in [1..(n + 1) -> Window]
      /\ windows'[n + 1] = win /\ \A w \in 1..n : windows'[w] = windows[w]
  <2> HIDE DEF n, win
  <2>1. n \in Nat /\ windows \in [1..n -> Window] /\ win \in Window /\ windows' = Append(windows, win)
    BY <1>1, <1>2, <1>5
  <2> DEFINE f == Append(windows, win)
  <2>2. Len(f) = n + 1 BY ONLY <2>1, AppendedWindow
  <2>3. f \in [1..(n + 1) -> Window] BY ONLY <2>1, AppendedWindow
  <2>4. f[n + 1] = win BY ONLY <2>1, AppendedWindow
  <2>5. \A w \in 1..n : f[w] = windows[w] BY ONLY <2>1, AppendedWindow
  <2> HIDE DEF f
  <2>6. windows' = f BY <2>1 DEF f
  <2>7. QED BY ONLY <2>2, <2>3, <2>4, <2>5, <2>6
<1>7. /\ surfaces' \in [1..(n + 1) -> Surface]
      /\ surfaces'[n + 1] = new /\ \A w \in 1..n : surfaces'[w] = surfaces[w]
  <2> HIDE DEF n, new
  <2>1. n \in Nat /\ surfaces \in [1..n -> Surface] /\ new \in Surface /\ surfaces' = Append(surfaces, new)
    BY <1>1, <1>2, <1>3
  <2> DEFINE f == Append(surfaces, new)
  <2>2. f \in [1..(n + 1) -> Surface] BY ONLY <2>1, AppendedSurface
  <2>3. f[n + 1] = new BY ONLY <2>1, AppendedSurface
  <2>4. \A w \in 1..n : f[w] = surfaces[w] BY ONLY <2>1, AppendedSurface
  <2> HIDE DEF f
  <2>5. surfaces' = f BY <2>1 DEF f
  <2>6. QED BY ONLY <2>2, <2>3, <2>4, <2>5
<1> HIDE DEF n, win, new
<1>8. Shapes' BY <1>1, <1>2, <1>5, <1>6, <1>7 DEF Shapes, n
<1>9. Paired'
  <2> SUFFICES ASSUME NEW w \in 1..(n + 1)
               PROVE  /\ windows'[w].state \in {"closed", "purged"} <=> surfaces'[w].state = "Closed"
                      /\ windows'[w].store = surfaces'[w].store
                      /\ windows'[w].owner = "session" /\ windows'[w].state # "open"
                           => exceptions'[w] = {}
    BY <1>6 DEF Paired
  <2>1. CASE w \in 1..n BY <1>1, <1>2, <1>6, <1>7, <2>1 DEF Paired, n
  <2>2. CASE w = n + 1 BY <1>3, <1>5, <1>6, <1>7, <2>2
  <2>3. QED BY <1>1, <2>1, <2>2
<1>10. childViews' = Cardinality(Counted')
  <2>1. Counted' = IF owner = "app" THEN Counted \cup {n + 1} ELSE Counted
    <3>1. DOMAIN windows' = 1..(n + 1) BY <1>6
    <3>2. \A w \in 1..n : w \in Counted' <=> w \in Counted
      BY <1>1, <1>2, <1>6, <1>7, <3>1 DEF Counted
    <3>3. n + 1 \in Counted' <=> owner = "app"
      BY <1>1, <1>3, <1>5, <1>6, <1>7, <3>1 DEF Counted
    <3>4. Counted' \subseteq 1..(n + 1) /\ Counted \subseteq 1..n
      BY <1>2, <3>1 DEF Counted
    <3>5. \A w \in 1..(n + 1) : w \in 1..n \/ w = n + 1 BY <1>1
    <3>6. \A w : w \in Counted' <=> w \in Counted \/ (w = n + 1 /\ owner = "app")
      BY <3>2, <3>3, <3>4, <3>5
    <3>7. QED BY <3>6
  <2>2. n + 1 \notin Counted BY <1>1, <1>2 DEF Counted
  <2>3. /\ IsFiniteSet(Counted) /\ Cardinality(Counted) \in Nat
        /\ childViews = Cardinality(Counted)
    BY CountedFinite DEF SurfaceInv
  <2>4. Cardinality(Counted \cup {n + 1}) = Cardinality(Counted) + 1
    BY <2>2, <2>3, FS_AddElement
  <2>5. CASE owner = "app" BY <2>1, <2>3, <2>4, <2>5
  <2>6. CASE owner # "app" BY <2>1, <2>3, <2>6
  <2>7. QED BY <2>5, <2>6
<1>11. QED BY <1>8, <1>9, <1>10 DEF SurfaceInv

\* A window of the application, or one of a private session, goes with its
\* surface.
LEMMA GonePreserves ==
  ASSUME SurfaceInv, NEW w \in DOMAIN windows, IsOpen(w), CloseSurface(windows[w].surface),
         NEW state \in {"closed", "purged"}, windows' = [windows EXCEPT ![w].state = state],
         \/ /\ windows[w].owner = "app"
            /\ childViews' = IF childViews > 0 THEN childViews - 1 ELSE 0
            /\ exceptions' = exceptions
         \/ /\ windows[w].owner = "session"
            /\ childViews' = childViews
            /\ exceptions' = [exceptions EXCEPT ![w] = {}]
  PROVE  SurfaceInv'
<1> DEFINE n == Len(windows)
<1>1. /\ n \in Nat /\ windows \in [1..n -> Window] /\ surfaces \in [1..n -> Surface]
      /\ DOMAIN windows = 1..n /\ w \in 1..n /\ windows[w].surface = w /\ Paired
      /\ 1..n \subseteq WindowIds /\ exceptions \in [WindowIds -> SUBSET SiteKeys]
  BY DEF SurfaceInv, Shapes
<1>2. /\ surfaces' \in [1..n -> Surface]
      /\ \A v \in 1..n : /\ surfaces'[v].store = surfaces[v].store
                         /\ surfaces'[v].state = IF v = w THEN "Closed" ELSE surfaces[v].state
  <2>1. surfaces' = [surfaces EXCEPT ![w] = [surfaces[w] EXCEPT !.state = "Closed", !.current = None,
                                                                 !.data = None]]
    BY <1>1 DEF CloseSurface
  <2> DEFINE closed == [surfaces[w] EXCEPT !.state = "Closed", !.current = None, !.data = None]
  <2>2. closed \in Surface /\ closed.state = "Closed" /\ closed.store = surfaces[w].store
    <3>1. surfaces[w] \in Surface BY <1>1
    <3>2. QED BY <3>1 DEF Surface, Lifecycle
  <2> HIDE DEF closed, n
  <2>3. QED BY <1>1, <2>1, <2>2 DEF closed
<1>3. /\ windows' \in [1..n -> Window] /\ Len(windows') = n /\ DOMAIN windows' = 1..n
      /\ \A v \in 1..n : /\ windows'[v].store = windows[v].store
                         /\ windows'[v].owner = windows[v].owner
                         /\ windows'[v].surface = windows[v].surface
                         /\ windows'[v].state = IF v = w THEN state ELSE windows[v].state
  <2> DEFINE win == [windows[w] EXCEPT !.state = state]
  <2>1. /\ win \in Window /\ win.state = state /\ win.store = windows[w].store
        /\ win.owner = windows[w].owner /\ win.surface = windows[w].surface
    BY <1>1 DEF Window
  <2>2. windows' = [windows EXCEPT ![w] = win] OBVIOUS
  <2> HIDE DEF win, n
  <2>3. windows' \in [1..n -> Window] /\ \A v \in 1..n : windows'[v] = IF v = w THEN win ELSE windows[v]
    BY <1>1, <2>1, <2>2
  <2>4. Len(windows') = n /\ DOMAIN windows' = 1..n BY <1>1, <2>3
  <2>5. QED BY <2>1, <2>3, <2>4
<1>4. /\ exceptions' \in [WindowIds -> SUBSET SiteKeys]
      /\ \A v \in 1..n : exceptions'[v] = exceptions[v] \/ (v = w /\ exceptions'[v] = {})
      /\ windows[w].owner = "session" => exceptions'[w] = {}
  BY <1>1
<1> HIDE DEF n
<1>5. Shapes'
  <2>1. \A v \in 1..n : windows'[v].surface = v BY <1>1, <1>3 DEF SurfaceInv, Shapes, n
  <2>2. QED BY <1>1, <1>2, <1>3, <1>4, <2>1 DEF Shapes
<1>6. Paired'
  <2> SUFFICES ASSUME NEW v \in 1..n
               PROVE  /\ windows'[v].state \in {"closed", "purged"} <=> surfaces'[v].state = "Closed"
                      /\ windows'[v].store = surfaces'[v].store
                      /\ windows'[v].owner = "session" /\ windows'[v].state # "open"
                           => exceptions'[v] = {}
    BY <1>3 DEF Paired
  <2>1. CASE v = w BY <1>1, <1>2, <1>3, <1>4, <2>1 DEF Paired, n
  <2>2. CASE v # w BY <1>1, <1>2, <1>3, <1>4, <2>2 DEF Paired, n
  <2>3. QED BY <2>1, <2>2
<1>7. childViews' = Cardinality(Counted')
  <2>1. /\ IsFiniteSet(Counted) /\ Cardinality(Counted) \in Nat
        /\ childViews = Cardinality(Counted)
    BY CountedFinite DEF SurfaceInv
  <2>2. Counted' = Counted \ {w}
    BY <1>1, <1>2, <1>3 DEF Counted
  <2>3. CASE windows[w].owner = "session"
    <3>1. w \notin Counted BY <2>3 DEF Counted
    <3>2. Counted \ {w} = Counted BY <3>1
    <3>3. QED BY <2>1, <2>2, <2>3, <3>2
  <2>4. CASE windows[w].owner = "app"
    <3>1. w \in Counted BY <1>1, <2>4 DEF Counted, IsOpen, Paired, n
    <3>2. Cardinality(Counted \ {w}) = Cardinality(Counted) - 1
      BY <2>1, <3>1, FS_RemoveElement
    <3>3. Cardinality(Counted) # 0
      BY <2>1, <3>1, FS_EmptySet
    <3>4. QED BY <2>1, <2>2, <2>4, <3>2, <3>3
  <2>5. QED BY <2>3, <2>4
<1>8. QED BY <1>5, <1>6, <1>7 DEF SurfaceInv

\* What the surface of a window does while the window is open, and after.
LEMMA SurfaceStepPreserves ==
  ASSUME SurfaceInv, SurfaceStep, UNCHANGED windowVars
  PROVE  SurfaceInv'
<1> DEFINE n == Len(windows)
<1>1. surfaces \in [1..n -> Surface] BY DEF SurfaceInv, Shapes
<1>2. UNCHANGED <<windows, childViews, exceptions>> BY DEF windowVars
<1>3. PICK s \in 1..n :
        \/ ActivateSurface(s)
        \/ \E a \in Addresses : NavigateSurface(s, a, a)
        \/ IsClosed(s) /\ CloseSurface(s)
  BY <1>1 DEF SurfaceStep
<1> SUFFICES /\ surfaces' \in [1..n -> Surface]
             /\ \A w \in 1..n : /\ surfaces'[w].store = surfaces[w].store
                                /\ surfaces'[w].state = "Closed" <=> surfaces[w].state = "Closed"
  BY <1>2, SurfacesChange
<1> HIDE DEF n
<1>4. CASE ActivateSurface(s)
  <2>1. ~IsClosed(s) /\ surfaces' = Foreground(surfaces, active, s) BY <1>4 DEF ActivateSurface
  <2>2. ASSUME NEW w \in 1..n
        PROVE  LET new == IF w = s THEN [surfaces[w] EXCEPT !.state = "Active"]
                          ELSE IF w = active /\ surfaces[w].state = "Active"
                            THEN [surfaces[w] EXCEPT !.state = "Inactive"]
                          ELSE surfaces[w]
               IN /\ new \in Surface /\ new.store = surfaces[w].store
                  /\ new.state = "Closed" <=> surfaces[w].state = "Closed"
    <3>1. surfaces[w] \in Surface BY <1>1
    <3>2. QED BY <2>1, <3>1 DEF IsClosed, Surface, Lifecycle
  <2>3. QED BY <1>1, <2>1, <2>2 DEF Foreground
<1>5. ASSUME NEW a \in Addresses, NavigateSurface(s, a, a)
      PROVE  /\ surfaces' \in [1..n -> Surface]
             /\ \A w \in 1..n : /\ surfaces'[w].store = surfaces[w].store
                                /\ surfaces'[w].state = "Closed" <=> surfaces[w].state = "Closed"
  <2> DEFINE new == Loaded(surfaces[s], a, a)
  <2>1. new \in Surface /\ new.store = surfaces[s].store /\ new.state = surfaces[s].state
    <3>1. surfaces[s] \in Surface BY <1>1
    <3>2. BlockedOn(a) \in SUBSET Resources BY SurfacesAssumption DEF BlockedOn
    <3>3. QED BY <3>1, <3>2 DEF Loaded, Surface
  <2>2. surfaces' = [surfaces EXCEPT ![s] = new] BY <1>5 DEF NavigateSurface
  <2> HIDE DEF new
  <2>3. QED BY <1>1, <2>1, <2>2
<1>6. CASE IsClosed(s) /\ CloseSurface(s)
  <2> DEFINE new == [surfaces[s] EXCEPT !.state = "Closed", !.current = None, !.data = None]
  <2>1. new \in Surface /\ new.store = surfaces[s].store /\ new.state = "Closed"
    <3>1. surfaces[s] \in Surface BY <1>1
    <3>2. QED BY <3>1 DEF Surface, Lifecycle
  <2>2. surfaces' = [surfaces EXCEPT ![s] = new] BY <1>6 DEF CloseSurface
  <2> HIDE DEF new
  <2>3. QED BY <1>1, <1>6, <2>1, <2>2 DEF IsClosed
<1>7. QED BY <1>3, <1>4, <1>5, <1>6

LEMMA SurfaceStutter ==
  ASSUME SurfaceInv, UNCHANGED <<surfaces, windows, childViews, exceptions>> PROVE SurfaceInv'
  BY DEF SurfaceInv, Shapes, Paired, Counted

\* What is excepted in a window that is open.
LEMMA ExceptionPreserves ==
  ASSUME SurfaceInv, NEW w \in DOMAIN windows, NEW site \in SiteKeys,
         AllowBlockingException(w, site) \/ RevokeBlockingException(w, site)
  PROVE  SurfaceInv'
<1>1. Shapes /\ Paired BY DEF SurfaceInv
<1>2. /\ UNCHANGED <<surfaces, windows, childViews>> /\ windows[w].state = "open"
      /\ w \in WindowIds /\ exceptions \in [WindowIds -> SUBSET SiteKeys]
      /\ \E sites \in SUBSET SiteKeys : exceptions' = [exceptions EXCEPT ![w] = sites]
  BY <1>1 DEF Shapes, AllowBlockingException, RevokeBlockingException, IsOpen, engineVars
<1>3. Shapes' BY <1>1, <1>2 DEF Shapes
<1>4. Paired' BY <1>1, <1>2 DEF Shapes, Paired
<1>5. Counted' = Counted BY <1>2 DEF Counted
<1>6. QED BY <1>2, <1>3, <1>4, <1>5 DEF SurfaceInv

LEMMA EmptyInv ==
  ASSUME surfaces = <<>>, windows = <<>>, childViews = 0, exceptions = [w \in WindowIds |-> {}]
  PROVE  SurfaceInv
<1>1. Len(windows) = 0 /\ DOMAIN windows = 1..0 /\ 1..0 = {} OBVIOUS
<1>2. Shapes BY <1>1 DEF Shapes
<1>3. Paired BY <1>1 DEF Paired
<1>4. Counted = {} BY <1>1 DEF Counted
<1>5. QED BY <1>2, <1>3, <1>4, FS_EmptySet DEF SurfaceInv

LEMMA SurfaceInvStep == ASSUME SurfaceInv, [Next]_vars PROVE SurfaceInv'
<1>1. ASSUME NEW store \in Stores, OpenWindow(store) PROVE SurfaceInv'
  BY <1>1, TakePreserves DEF OpenWindow, Owners
<1>2. ASSUME NEW created \in BOOLEAN, CreateWinitWindow(created) PROVE SurfaceInv'
  BY <1>2, TakePreserves DEF CreateWinitWindow, Owners, Stores
<1>3. CASE Resumed
  <2>1. CASE OpenAppWindows = {} BY <1>2, <1>3, <2>1 DEF Resumed
  <2>2. CASE OpenAppWindows # {} BY <1>3, <2>2, SurfaceStutter DEF Resumed
  <2>3. QED BY <2>1, <2>2
<1>4. CASE AboutToWait BY <1>4, SurfaceStutter DEF AboutToWait, engineVars
<1>5. CASE OpenPrivateWindow
  <2>1. "session" # "app" OBVIOUS
  <2>2. childViews' = childViews + 0
    BY <1>5, CountedFinite DEF OpenPrivateWindow, SurfaceInv
  <2>3. QED BY <1>5, <2>1, <2>2, TakePreserves DEF OpenPrivateWindow, Owners, Stores
<1>6. ASSUME NEW w \in DOMAIN windows, CloseWindow(w) \/ CloseRequested(w) PROVE SurfaceInv'
  <2>1. /\ IsOpen(w) /\ windows[w].owner = "app" /\ CloseSurface(windows[w].surface)
        /\ windows' = [windows EXCEPT ![w].state = "closed"] /\ exceptions' = exceptions
        /\ childViews' = IF childViews > 0 THEN childViews - 1 ELSE 0
    BY <1>6 DEF CloseWindow, CloseRequested, CloseAppWindow, OpenAppWindows
  <2>2. QED BY <2>1, GonePreserves
<1>7. ASSUME NEW w \in DOMAIN windows, NEW withStore \in BOOLEAN, ClosePrivateWindow(w, withStore)
      PROVE  SurfaceInv'
  <2> DEFINE state == IF withStore THEN "purged" ELSE "closed"
  <2>1. /\ IsOpen(w) /\ windows[w].owner = "session" /\ CloseSurface(windows[w].surface)
        /\ windows' = [windows EXCEPT ![w].state = state] /\ childViews' = childViews
        /\ exceptions' = [exceptions EXCEPT ![w] = {}] /\ state \in {"closed", "purged"}
    BY <1>7 DEF ClosePrivateWindow, PrivateWindows
  <2> HIDE DEF state
  <2>2. QED BY <2>1, GonePreserves
<1>8. ASSUME NEW w \in DOMAIN windows, ChangePrivatePermission(w) PROVE SurfaceInv'
  BY <1>8, SurfaceStutter DEF ChangePrivatePermission, engineVars, windowVars
<1>9. CASE WindowStep
  BY <1>1, <1>3, <1>4, <1>5, <1>6, <1>7, <1>8, <1>9, ExceptionPreserves DEF WindowStep
<1>10. CASE \E scope \in Scopes : AnswerPrompt(scope)
  BY <1>10, SurfaceStutter DEF AnswerPrompt, engineVars, windowVars
<1>11. CASE SurfaceStep /\ UNCHANGED <<permissionVars, windowVars>>
  BY <1>11, SurfaceStepPreserves
<1>12. CASE PermissionStep /\ UNCHANGED <<engineVars, windowVars>>
  BY <1>12, SurfaceStutter DEF engineVars, windowVars
<1>13. CASE Restart
  <2>1. /\ surfaces' = <<>> /\ windows' = <<>> /\ childViews' = 0
        /\ exceptions' = [w \in WindowIds |-> {}]
    BY <1>13 DEF Restart
  <2>2. Len(windows') = 0 /\ DOMAIN windows' = 1..0 /\ 1..0 = {} BY <2>1
  <2>3. Shapes' BY <2>1, <2>2 DEF Shapes
  <2>4. Paired' BY <2>2 DEF Paired
  <2>5. Counted' = {} BY <2>2 DEF Counted
  <2>6. QED BY <2>1, <2>3, <2>4, <2>5, FS_EmptySet DEF SurfaceInv
<1>14. CASE UNCHANGED vars BY <1>14, SurfaceStutter DEF vars
<1>15. QED BY <1>9, <1>10, <1>11, <1>12, <1>13, <1>14 DEF Next

(* A window that is open has its surface, one that is closed has taken it  *)
(* and its exceptions along, and the count of views is right: whatever the *)
(* platform refuses, whoever closes what, and however often it restarts.   *)
THEOREM WindowsTakeTheirSurfaces == Spec => []WindowsHaveTheirSurfaces
<1>1. ASSUME Init PROVE SurfaceInv
  BY <1>1, EmptyInv DEF Init, EngineInit, WindowsInit
<1>2. ASSUME SurfaceInv PROVE WindowsHaveTheirSurfaces
  <2>1. Shapes /\ Paired /\ childViews = Cardinality(Counted) BY <1>2 DEF SurfaceInv
  <2>2. Counted = {w \in DOMAIN windows : windows[w].owner = "app" /\ ~IsClosed(windows[w].surface)}
    BY <2>1 DEF Counted, Shapes, IsClosed
  <2>3. \A w \in DOMAIN windows :
          /\ windows[w].state \in {"closed", "purged"} <=> IsClosed(windows[w].surface)
          /\ windows[w].store = surfaces[windows[w].surface].store
    BY <2>1 DEF Shapes, Paired, IsClosed
  <2>4. \A w \in PrivateWindows : ~IsOpen(w) => exceptions[w] = {}
    BY <2>1 DEF Shapes, Paired, PrivateWindows, IsOpen
  <2>5. QED BY <2>1, <2>2, <2>3, <2>4 DEF WindowsHaveTheirSurfaces
<1>3. QED BY <1>1, <1>2, SurfaceInvStep, PTL DEF Spec
=============================================================================
