----------------------------- MODULE UpdateCheck -----------------------------
(***************************************************************************)
(* The update check of one install, crates/evreos-platform/src/update.rs   *)
(* and update/: processes of the browser, each of which loads the rollout  *)
(* value as module RolloutDraw has it, decides on a manifest with it, and  *)
(* verifies the artefact of the offer it then holds.                       *)
(*                                                                         *)
(* The manifest, the artefact and the clock are inputs of the calls: a     *)
(* download may give anything, and the clock may be set.                   *)
(***************************************************************************)
EXTENDS RolloutDraw

CONSTANTS
  Installed,   \* the version of the build that runs
  Versions,    \* the versions manifests name
  Times,       \* the times of the clock and of not_after
  NoOffer      \* a process that holds no offer

ASSUME VersionsAssumption == Installed \in Nat /\ Versions \subseteq Nat
ASSUME TimesAssumption == Times \subseteq Nat

Rollouts == 0..Whole

\* A signature that does not verify and bytes that are not a manifest are one
\* refusal, and no field is looked at before it.
Manifests ==
  [signed : BOOLEAN, here : BOOLEAN, version : Versions, rollout : Rollouts, not_after : Times]

\* How the bytes fetched for an offer compare with its manifest.
Artefacts == {"published", "another", "longer", "shorter", "unreadable"}

Offers == [version : Versions, not_after : Times]

VARIABLES
  loaded,     \* the value each process's load_or_draw returned, until it decides
  offer,      \* the offer each process holds
  offeredAt,  \* the rollouts under which an update was offered to this install
  refusedAt,  \* and those under which it was not among the included
  verified    \* the versions whose artefact was verified

checkVars == <<loaded, offer, offeredAt, refusedAt, verified>>
allVars == <<vars, checkVars>>
history == <<offeredAt, refusedAt, verified>>

CheckInit ==
  /\ Init
  /\ loaded = [p \in Procs |-> NoValue]
  /\ offer = [p \in Procs |-> NoOffer]
  /\ offeredAt = {}
  /\ refusedAt = {}
  /\ verified = {}

\* RolloutDraw::included
Included(value, rollout) == value < rollout

\* decide's checks, in their order
Decision(m, now, value) ==
  IF ~m.signed THEN "Manifest"
  ELSE IF ~m.here THEN "Platform"
  ELSE IF now > m.not_after THEN "Expired"
  ELSE IF m.version < Installed THEN "Downgrade"
  ELSE IF m.version = Installed THEN "UpToDate"
  ELSE IF Included(value, m.rollout) THEN "Offered"
  ELSE "NotIncluded"

Begin(p) ==
  /\ loaded[p] = NoValue /\ offer[p] = NoOffer
  /\ Call(p)
  /\ UNCHANGED checkVars

\* Mutant: the value used is the one drawn, not the one kept.
LoadDraw(p) ==
  /\ \/ ReadValue(p) /\ loaded' = [loaded EXCEPT ![p] = file]
     \/ Sync(p) /\ loaded' = [loaded EXCEPT ![p] = draw[p]]
     \/ /\ ReadNoValue(p) \/ WritePartial(p) \/ Link(p) \/ LinkFails(p)
           \/ Reread(p) \/ Rename(p) \/ RemovePartial(p)
        /\ UNCHANGED loaded
  /\ UNCHANGED <<offer, history>>

\* load_or_draw goes on, and what it returns is the value used.
Load(p) ==
  /\ \/ ReadValue(p) /\ loaded' = [loaded EXCEPT ![p] = file]
     \/ Sync(p) /\ loaded' = [loaded EXCEPT ![p] = kept[p]]
     \/ /\ ReadNoValue(p) \/ WritePartial(p) \/ Link(p) \/ LinkFails(p)
           \/ Reread(p) \/ Rename(p) \/ RemovePartial(p)
        /\ UNCHANGED loaded
  /\ UNCHANGED <<offer, history>>

LoadFails(p) == Fail(p) /\ UNCHANGED checkVars

Decide(p, m, now) ==
  /\ loaded[p] # NoValue
  /\ LET decision == Decision(m, now, loaded[p])
     IN /\ offer' = [offer EXCEPT ![p] =
                       IF decision = "Offered"
                         THEN [version |-> m.version, not_after |-> m.not_after] ELSE @]
        /\ offeredAt' = offeredAt \cup (IF decision = "Offered" THEN {m.rollout} ELSE {})
        /\ refusedAt' = refusedAt \cup (IF decision = "NotIncluded" THEN {m.rollout} ELSE {})
  /\ loaded' = [loaded EXCEPT ![p] = NoValue]
  /\ UNCHANGED <<vars, verified>>

\* artefact::verify, once the artefact is fetched: the expiry is looked at
\* again, then the length and the digest of what is read.
Verify(p, artefact, now) ==
  /\ offer[p] # NoOffer
  /\ verified' = IF now <= offer[p].not_after /\ artefact = "published"
                   THEN verified \cup {offer[p].version} ELSE verified
  /\ offer' = [offer EXCEPT ![p] = NoOffer]
  /\ UNCHANGED <<vars, loaded, offeredAt, refusedAt>>

\* A process ends where it is, in a load or after it.
Die(p) ==
  /\ \/ Kill(p)
     \/ (loaded[p] # NoValue \/ offer[p] # NoOffer) /\ UNCHANGED vars
  /\ loaded' = [loaded EXCEPT ![p] = NoValue]
  /\ offer' = [offer EXCEPT ![p] = NoOffer]
  /\ UNCHANGED history

PowerCut ==
  /\ LosePower
  /\ loaded' = [p \in Procs |-> NoValue]
  /\ offer' = [p \in Procs |-> NoOffer]
  /\ UNCHANGED history

CheckNext ==
  \/ \E p \in Procs :
       \/ Begin(p) \/ Load(p) \/ LoadFails(p) \/ Die(p)
       \/ \E m \in Manifests, now \in Times : Decide(p, m, now)
       \/ \E artefact \in Artefacts, now \in Times : Verify(p, artefact, now)
  \/ Flush /\ UNCHANGED checkVars
  \/ PowerCut

\* A process that is not killed keeps running.
CheckSpec == CheckInit /\ [][CheckNext]_allVars /\ \A p \in Procs : WF_allVars(Load(p))

(***************************************************************************)
(* Properties                                                              *)
(***************************************************************************)

(* Widening a rollout keeps every install it was offered to: under         *)
(* whichever process and after however many restarts a later check runs,   *)
(* an update is not withheld under a rollout at least as wide as one it    *)
(* was offered under, and no rollout of nobody offers it or of everybody   *)
(* withholds it.  The former needs the install to have one value, so that  *)
(* nothing Agreement excludes may have happened.                           *)
WideningKeepsOffers ==
  /\ mishaps = {} => \A a \in offeredAt, b \in refusedAt : b < a
  /\ 0 \notin offeredAt /\ Whole \notin refusedAt
=============================================================================
