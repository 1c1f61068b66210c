-------------------------- MODULE PermissionStore --------------------------
(***************************************************************************)
(* The site permissions (evreos-shell/src/permissions.rs): decisions by    *)
(* site and capability, kept on disk for normal windows and in memory, by  *)
(* window, for private ones.                                               *)
(*                                                                         *)
(* A call changes the memory and then, in the persistent scope, saves,     *)
(* which may be refused; the program may end between the two.  A file that *)
(* cannot be read, or is malformed, opens as no decision at all, and the   *)
(* next save replaces it.  The file's text is left out, and the time of a  *)
(* decision with it.                                                       *)
(***************************************************************************)
EXTENDS Naturals, Functions

CONSTANTS
  SiteKeys,      \* the sites permissions are kept for
  Capabilities,  \* what a site may ask for
  WindowIds,     \* ids of private windows
  Persistent,    \* the scope of every normal window
  Nothing        \* no decision recorded

ASSUME PermissionsAssumption ==
  /\ Persistent \notin WindowIds
  /\ Nothing \notin {"Granted", "Denied", "Ask", "UnavailableOnThisPlatform"}

VARIABLES
  persistent,   \* the decisions of the persistent scope in memory
  private,      \* the decisions of each private window
  unavailable,  \* the capabilities the platform cannot deliver
  disk,         \* permissions.toml
  saving,       \* a call has changed the memory and not yet saved it
  refused,      \* the last save was refused
  unread,       \* the store was opened without the file's decisions and not saved since
  grants        \* what the member has granted in each scope (history)

permissionVars == <<persistent, private, unavailable, disk, saving, refused, unread, grants>>

Keys == SiteKeys \X Capabilities
Scopes == WindowIds \cup {Persistent}
Responses == {"Granted", "Denied"}
NoDecisions == [k \in Keys |-> Nothing]

\* PermissionStore::open where there is no file: no decision, of no scope, and
\* every capability available
PermissionInit ==
  /\ disk = NoDecisions
  /\ persistent = NoDecisions
  /\ private = [w \in WindowIds |-> NoDecisions]
  /\ unavailable = {}
  /\ saving = FALSE
  /\ refused = FALSE /\ unread = FALSE
  /\ grants = {}

Recorded(key, scope) == IF scope = Persistent THEN persistent[key] ELSE private[scope][key]

\* query, and evaluate_request, which tells the same four cases apart
Query(key, scope) ==
  IF key[2] \in unavailable THEN "UnavailableOnThisPlatform"
  ELSE IF Recorded(key, scope) = Nothing THEN "Ask" ELSE Recorded(key, scope)

\* What the scope's map holds for key becomes value; a persistent one is saved.
Put(key, value, scope) ==
  /\ ~saving
  /\ IF scope = Persistent
       THEN /\ persistent' = [persistent EXCEPT ![key] = value]
            /\ saving' = TRUE
            /\ UNCHANGED private
       ELSE /\ private' = [private EXCEPT ![scope][key] = value]
            /\ UNCHANGED <<persistent, saving>>
  /\ UNCHANGED <<unavailable, disk, refused, unread>>

\* Mutant: the scope is forgotten on the way to the map.
RecordDecisionAnywhere(key, decision, scope) ==
  /\ Put(key, decision, Persistent)
  /\ grants' = grants \cup {g \in {<<scope, key>>} : decision = "Granted"}

\* record_decision, as PrivateWindow::record_permission calls it too
RecordDecision(key, decision, scope) ==
  /\ Put(key, decision, scope)
  /\ grants' = grants \cup {g \in {<<scope, key>>} : decision = "Granted"}

Revoke(key, scope) == Put(key, Nothing, scope) /\ UNCHANGED grants

\* handle_prompt_response: only an answer to be remembered is recorded.  The
\* prompt is put up when the decision is Ask, which it may be no longer, and
\* for a window that may have gone.
HandlePromptResponse(key, response, remember, scope) ==
  /\ ~saving
  /\ IF remember THEN RecordDecision(key, response, scope) ELSE UNCHANGED permissionVars

PurgedPrivateWindow(w) == [private EXCEPT ![w] = NoDecisions]

SetCapabilityAvailable(capability, available) ==
  /\ ~saving
  /\ unavailable' = IF available THEN unavailable \ {capability} ELSE unavailable \cup {capability}
  /\ UNCHANGED <<persistent, private, disk, saving, refused, unread, grants>>

\* save: the temporary file is complete before it takes the target's place,
\* and nothing else reads it.
SaveSucceeds ==
  /\ saving
  /\ disk' = persistent
  /\ saving' = FALSE
  /\ refused' = FALSE /\ unread' = FALSE
  /\ UNCHANGED <<persistent, private, unavailable, grants>>

\* The directory, the write or the rename is refused: the call returns an
\* error and the memory keeps its change.
SaveFails ==
  /\ saving
  /\ saving' = FALSE
  /\ refused' = TRUE
  /\ UNCHANGED <<persistent, private, unavailable, disk, unread, grants>>

\* parse_permissions_file, and what stands in for a file it refuses or that
\* cannot be read.
FileRead(readable) == IF readable THEN disk ELSE NoDecisions

\* The program ends, wherever it is, and PermissionStore::open reads the file.
Reopened ==
  /\ \E readable \in BOOLEAN : persistent' = FileRead(readable) /\ unread' = ~readable
  /\ private' = [w \in WindowIds |-> NoDecisions]
  /\ unavailable' = {}
  /\ saving' = FALSE
  /\ refused' = FALSE
  /\ grants' = {g \in grants : g[1] = Persistent}
  /\ UNCHANGED disk

\* The calls that name no private window, and the steps of a save.
PermissionStep ==
  \/ SaveSucceeds \/ SaveFails
  \/ \E k \in Keys : \E r \in Responses : RecordDecision(k, r, Persistent)
  \/ \E k \in Keys : Revoke(k, Persistent)
  \/ \E c \in Capabilities : \E a \in BOOLEAN : SetCapabilityAvailable(c, a)

(***************************************************************************)
(* Properties                                                              *)
(***************************************************************************)

(* Nothing is granted that the member has not granted in that very scope.  *)
GrantedByTheMember ==
  \A k \in Keys, s \in Scopes :
    Query(k, s) = "Granted" => <<s, k>> \in grants

(* The file grants what normal windows were granted only, and between      *)
(* calls it is what they were, unless the last save was refused, or the    *)
(* store was opened without reading the file and has saved nothing since.  *)
DiskIsPersistent ==
  /\ \A k \in Keys : disk[k] = "Granted" => <<Persistent, k>> \in grants
  /\ ~saving /\ ~refused /\ ~unread => disk = persistent

(* Through answers that come late, grants of other scopes, purges, saves   *)
(* refused or cut short and restarts that read the file or do not, a site  *)
(* has what the member granted in that scope and the file has the normal   *)
(* windows' grants alone                                                   *)
(* (query, record_decision, save and open of permissions.rs).              *)
PermissionsAreTheMembers == GrantedByTheMember /\ DiskIsPersistent
=============================================================================
