-------------------------- MODULE Downloads_proofs --------------------------
(***************************************************************************)
(* Downloads, on both sides of the contract.                               *)
(*                                                                         *)
(* The list of the shell (DownloadStore): that a change it has             *)
(* acknowledged survives the program once its file is read, and that the   *)
(* next id is one no remembered download has.  Inductive is what ties the memory, the save   *)
(* under way and the file to each other at every step of a save.           *)
(*                                                                         *)
(* The handshake of the engine (EngineDownloads): that a cancelled         *)
(* download stays cancelled, that a file is there when and only when its   *)
(* download has finished, but for what the file system refused, and that   *)
(* nothing is said of a download that was not accepted.  The three are     *)
(* inductive together, once it is known that only accepted downloads are   *)
(* cancelled; the work is in the queue, which loses an event in its middle *)
(* when a download is rejected or cancelled.                               *)
(***************************************************************************)
EXTENDS EngineDownloads, DownloadStore, SequenceTheorems, WellFoundedInduction, TLAPS

(***************************************************************************)
(* Facts about numbers                                                     *)
(***************************************************************************)

\* Induction, over a set of numbers.
LEMMA NatInductionOnSets ==
  ASSUME NEW S, 0 \in S, \A n \in Nat : n \in S => n + 1 \in S
  PROVE  Nat \subseteq S
<1> DEFINE T == Nat \ S
           R == OpToRel(<, Nat)
<1> SUFFICES ASSUME T # {} PROVE FALSE
  OBVIOUS
<1>1. PICK x \in T : \A y \in T : ~ (<<y, x>> \in R)
  BY NatLessThanWellFounded, WFMin
<1>2. x \in Nat /\ x # 0 /\ x - 1 \in Nat
  OBVIOUS
<1>3. <<x - 1, x>> \in R
  BY <1>2 DEF OpToRel
<1>4. x - 1 \in S
  BY <1>1, <1>2, <1>3
<1>5. (x - 1) + 1 = x
  BY <1>2
<1>6. QED
  BY <1>2, <1>4, <1>5

\* The library's Max of a bounded set is its greatest member.
LEMMA MaxOfBounded ==
  ASSUME NEW n \in Nat, NEW S, S \subseteq 0..n, S # {}
  PROVE  Max(S) \in S /\ \A x \in S : x <= Max(S)
<1> DEFINE Top == {m \in Nat : \A U \in SUBSET (0..m) : U # {} =>
                      \E x \in U : \A y \in U : y <= x}
<1>1. 0 \in Top
  <2> SUFFICES ASSUME NEW U \in SUBSET (0..0), U # {}
               PROVE  \E x \in U : \A y \in U : y <= x
    OBVIOUS
  <2>1. \A y \in U : y = 0
    OBVIOUS
  <2>2. PICK x \in U : TRUE
    OBVIOUS
  <2>3. QED
    BY <2>1, <2>2
<1>2. ASSUME NEW m \in Nat, m \in Top PROVE m + 1 \in Top
  <2> SUFFICES ASSUME NEW U \in SUBSET (0..(m + 1)), U # {}
               PROVE  \E x \in U : \A y \in U : y <= x
    BY <1>2
  <2>1. CASE m + 1 \in U
    BY <2>1
  <2>2. CASE m + 1 \notin U
    BY <1>2, <2>2
  <2>3. QED
    BY <2>1, <2>2
<1> HIDE DEF Top
<1>3. n \in Top
  BY <1>1, <1>2, NatInductionOnSets
<1>4. \E x \in S : \A y \in S : x >= y
  BY <1>3 DEF Top
<1>5. QED
  BY <1>4 DEF Max

(***************************************************************************)
(* The download list                                                       *)
(***************************************************************************)

OneEach(list) == \A e, f \in list : e.id = f.id => e = f

StoreInv ==
  /\ TypeOK
  /\ issued \subseteq used
  /\ NextIdIsFresh
  /\ OneEach(entries)
  /\ disk # NoFile => OneEach(disk)
  /\ saving # NoFile => running /\ saving = Serialize(entries)
  /\ ~running => entries = {} /\ used = {}
  /\ AcknowledgedIsDurable

LEMMA SerializeType ==
  ASSUME NEW list \in SUBSET Entry
  PROVE  /\ Serialize(list) \subseteq Row
         /\ Serialize(list) # NoFile
BY NoFileAssumption DEF Serialize, Entry, Row

LEMMA SerializeOneEach ==
  ASSUME NEW list \in SUBSET Entry, OneEach(list)
  PROVE  OneEach(Serialize(list))
BY DEF Serialize, Entry, OneEach

LEMMA DeserializeIsBack ==
  ASSUME NEW rows \in SUBSET Row, OneEach(rows)
  PROVE  /\ Deserialize(rows) \subseteq Entry
         /\ OneEach(Deserialize(rows))
         /\ Serialize(Deserialize(rows)) = rows
<1>1. ASSUME NEW e \in Deserialize(rows)
      PROVE  /\ e \in Entry /\ ~e.private
             /\ [id |-> e.id, state |-> e.state] \in rows
  <2>1. PICK row \in rows : e = [id |-> row.id, state |-> row.state, private |-> FALSE]
    BY DEF Deserialize
  <2>2. row \in Row /\ row = [id |-> row.id, state |-> row.state]
    BY DEF Row
  <2>3. e.id = row.id /\ e.state = row.state /\ e.private = FALSE
    BY <2>1
  <2>4. e \in Entry
    BY <2>1, <2>2 DEF Entry, Row
  <2>5. QED
    BY <2>2, <2>3, <2>4
<1>2. Deserialize(rows) \subseteq Entry
  BY <1>1
<1>3. ASSUME NEW e \in Deserialize(rows), NEW f \in Deserialize(rows), e.id = f.id
      PROVE  e = f
  <2>1. PICK row \in rows : e = [id |-> row.id, state |-> row.state, private |-> FALSE]
    BY DEF Deserialize
  <2>2. PICK other \in rows : f = [id |-> other.id, state |-> other.state, private |-> FALSE]
    BY DEF Deserialize
  <2>3. row.id = other.id
    BY <1>3, <2>1, <2>2
  <2>4. row = other
    BY <2>3 DEF OneEach
  <2>5. QED
    BY <2>1, <2>2, <2>4
<1>4. OneEach(Deserialize(rows))
  BY <1>3 DEF OneEach
<1>5. Serialize(Deserialize(rows)) \subseteq rows
  BY <1>1 DEF Serialize
<1>6. ASSUME NEW row \in rows PROVE row \in Serialize(Deserialize(rows))
  <2> DEFINE e == [id |-> row.id, state |-> row.state, private |-> FALSE]
  <2>1. e \in {[id |-> r.id, state |-> r.state, private |-> FALSE] : r \in rows}
    OBVIOUS
  <2>2. ~e.private /\ row = [id |-> e.id, state |-> e.state]
    BY DEF Row
  <2>3. QED
    BY <2>1, <2>2 DEF Serialize, Deserialize
<1>7. QED
  BY <1>2, <1>4, <1>5, <1>6

\* What an entry's removal, or its new state, does to the rows of a private one.
LEMMA PrivateIsNoRow ==
  ASSUME NEW list \in SUBSET Entry, NEW e \in Entry, e.private
  PROVE  /\ Serialize(list \cup {e}) = Serialize(list)
         /\ Serialize(list \ {e}) = Serialize(list)
BY DEF Serialize

LEMMA EntryOfId ==
  ASSUME NEW id \in IdsOf(entries), OneEach(entries), TypeOK
  PROVE  /\ EntryOf(id) \in entries
         /\ EntryOf(id) \in Entry
         /\ EntryOf(id).id = id
         /\ {e \in entries : e.id # id} = entries \ {EntryOf(id)}
<1>1. \E e \in entries : e.id = id
  BY DEF IdsOf
<1>2. EntryOf(id) \in entries /\ EntryOf(id).id = id
  BY <1>1 DEF EntryOf
<1>3. QED
  BY <1>2 DEF OneEach, TypeOK

\* A change of the list, saved unless it leaves the rows as they are.
LEMMA ChangeKeepsInv ==
  ASSUME StoreInv, Idle, NEW list \in SUBSET Entry, OneEach(list),
         NEW save \in BOOLEAN, Change(list, save),
         ~save => Serialize(list) = Serialize(entries),
         nextId' \in 1..(MaxId + 1), issued' \subseteq used', used' \subseteq DownloadIds,
         \A id \in used' \cup IdsOf(list) : id < nextId'
  PROVE  StoreInv'
<1>1. /\ entries' = list /\ running' = running /\ running
      /\ disk' = disk /\ unsaved' = unsaved /\ unread' = unread /\ saving = NoFile
      /\ saving' = IF save THEN Serialize(list) ELSE NoFile
  BY DEF Change, Idle
<1>2. Serialize(list) \subseteq Row /\ Serialize(list) # NoFile
  BY SerializeType
<1>3. TypeOK'
  BY <1>1, <1>2 DEF StoreInv, TypeOK
<1>4. NextIdIsFresh'
  BY <1>1 DEF NextIdIsFresh, IdsOf
<1>5. OneEach(entries)' /\ (disk # NoFile => OneEach(disk))'
  BY <1>1 DEF StoreInv, OneEach
<1>6. (saving # NoFile => running /\ saving = Serialize(entries))'
  BY <1>1, <1>2 DEF Serialize
<1>7. AcknowledgedIsDurable'
  <2>1. CASE save
    BY <2>1, <1>1, <1>2 DEF AcknowledgedIsDurable, Idle
  <2>2. CASE ~save
    BY <2>2, <1>1 DEF StoreInv, AcknowledgedIsDurable, Idle, Serialize
  <2>3. QED
    BY <2>1, <2>2
<1>8. QED
  BY <1>1, <1>3, <1>4, <1>5, <1>6, <1>7 DEF StoreInv

LEMMA StoreInitInv == Init => StoreInv
<1> SUFFICES ASSUME Init PROVE StoreInv
  OBVIOUS
<1>1. TypeOK
  <2>1. nextId \in 1..(MaxId + 1)
    BY MaxIdAssumption DEF Init
  <2>2. running \in BOOLEAN /\ unsaved \in BOOLEAN /\ unread \in BOOLEAN
    BY DEF Init
  <2>3. QED
    BY <2>1, <2>2 DEF Init, TypeOK
<1>2. AcknowledgedIsDurable
  BY DEF Init, AcknowledgedIsDurable, Serialize
<1>3. QED
  BY <1>1, <1>2 DEF Init, StoreInv, NextIdIsFresh, OneEach, IdsOf

LEMMA StartDownloadInv ==
  ASSUME StoreInv, NEW id \in DownloadIds, NEW private \in BOOLEAN, StartDownload(id, private)
  PROVE  StoreInv'
<1> DEFINE e == [id |-> id, state |-> "InProgress", private |-> private]
           list == entries \cup {e}
<1>1. e \in Entry /\ list \in SUBSET Entry
  BY DEF StoreInv, TypeOK, Entry, States
<1>2. OneEach(list)
  BY DEF StoreInv, OneEach, StartDownload, IdsOf
<1>3. private => Serialize(list) = Serialize(entries)
  BY <1>1, PrivateIsNoRow DEF StoreInv, TypeOK
<1>4. nextId' \in 1..(MaxId + 1) /\ nextId <= nextId' /\ id < nextId'
  BY MaxIdAssumption DEF StartDownload, StoreInv, TypeOK, DownloadIds, NextIdIsFresh, Idle
<1>5. issued' \subseteq used' /\ used' \subseteq DownloadIds
  BY DEF StartDownload, StoreInv, TypeOK
<1>6. \A i \in used' \cup IdsOf(list) : i < nextId'
  <2>1. \A i \in used' \cup IdsOf(list) : i = id \/ i \in used \cup IdsOf(entries)
    BY DEF StartDownload, IdsOf
  <2>2. \A i \in used : i \in Nat /\ i < nextId
    BY DEF StoreInv, TypeOK, NextIdIsFresh, StartDownload, Idle, DownloadIds
  <2>3. \A i \in IdsOf(entries) : i \in Nat /\ i < nextId
    BY DEF StoreInv, TypeOK, NextIdIsFresh, StartDownload, Idle, IdsOf, Entry, DownloadIds
  <2>4. QED
    BY <2>1, <2>2, <2>3, <1>4, MaxIdAssumption DEF StoreInv, TypeOK
<1>7. Idle /\ Change(list, ~private) /\ (~private) \in BOOLEAN
  BY DEF StartDownload
<1> HIDE DEF list
<1>8. QED
  BY <1>1, <1>2, <1>3, <1>4, <1>5, <1>6, <1>7, ChangeKeepsInv

\* What the operations on the list have in common: fewer entries, or one of
\* them in another state.
LEMMA LessKeepsInv ==
  ASSUME StoreInv, Idle, NEW list \in SUBSET Entry, OneEach(list),
         IdsOf(list) \subseteq IdsOf(entries),
         NEW save \in BOOLEAN, Change(list, save),
         ~save => Serialize(list) = Serialize(entries),
         UNCHANGED <<nextId, issued, used>>
  PROVE  StoreInv'
BY ChangeKeepsInv DEF StoreInv, TypeOK, NextIdIsFresh, Idle

LEMMA AllocateIdInv == StoreInv /\ AllocateId => StoreInv'
<1> SUFFICES ASSUME StoreInv, AllocateId PROVE StoreInv'
  OBVIOUS
<1>1. TypeOK'
  BY MaxIdAssumption DEF StoreInv, TypeOK, AllocateId, DownloadIds
<1>2. NextIdIsFresh'
  <2>1. \A i \in used \cup IdsOf(entries) : i \in Nat /\ i < nextId
    <3>1. \A i \in used \cup IdsOf(entries) : i < nextId
      BY DEF StoreInv, NextIdIsFresh, AllocateId, Idle
    <3>2. used \subseteq Nat /\ entries \subseteq Entry
      BY MaxIdAssumption DEF StoreInv, TypeOK, DownloadIds
    <3>3. IdsOf(entries) \subseteq Nat
      BY <3>2, MaxIdAssumption DEF IdsOf, Entry, DownloadIds
    <3>4. QED BY <3>1, <3>2, <3>3
  <2>2. nextId \in Nat /\ nextId' = nextId + 1 /\ used' = used \cup {nextId} /\ entries' = entries
    BY MaxIdAssumption DEF StoreInv, TypeOK, AllocateId
  <2>3. \A i \in used' \cup IdsOf(entries) : i < nextId'
    BY <2>1, <2>2
  <2>4. QED
    BY <2>2, <2>3 DEF NextIdIsFresh, IdsOf
<1>3. QED
  BY <1>1, <1>2 DEF StoreInv, AllocateId, Idle, OneEach, AcknowledgedIsDurable, Serialize

LEMMA FinishInv ==
  ASSUME StoreInv, NEW id \in DownloadIds, NEW state \in States, Finish(id, state)
  PROVE  StoreInv'
<1> DEFINE old == EntryOf(id)
           new == [EntryOf(id) EXCEPT !.state = state]
           list == {e \in entries : e.id # id} \cup {new}
<1>1. /\ old \in entries /\ old \in Entry /\ old.id = id
      /\ {e \in entries : e.id # id} = entries \ {old}
  BY EntryOfId DEF Finish, StoreInv
<1>2. new \in Entry /\ new.id = id /\ new.private = old.private
  BY <1>1 DEF Entry
<1>3. list \in SUBSET Entry
  BY <1>2 DEF StoreInv, TypeOK
<1>4. OneEach(list)
  BY <1>2 DEF StoreInv, OneEach
<1>5. IdsOf(list) \subseteq IdsOf(entries)
  BY <1>1, <1>2 DEF IdsOf
<1>6. old.private => Serialize(list) = Serialize(entries)
  <2> SUFFICES ASSUME old.private PROVE Serialize(list) = Serialize(entries)
    OBVIOUS
  <2>1. entries \ {old} \in SUBSET Entry /\ list = (entries \ {old}) \cup {new}
    BY <1>1 DEF StoreInv, TypeOK
  <2> HIDE DEF list, new, old
  <2>2. Serialize(list) = Serialize(entries \ {old})
    BY <2>1, <1>2, PrivateIsNoRow
  <2>3. Serialize(entries \ {old}) = Serialize(entries)
    BY <1>1, PrivateIsNoRow DEF StoreInv, TypeOK
  <2>4. QED
    BY <2>2, <2>3
<1>7. Idle /\ Change(list, ~old.private) /\ (~old.private) \in BOOLEAN
  BY DEF Finish
<1> HIDE DEF list, new, old
<1>8. QED
  BY <1>3, <1>4, <1>5, <1>6, <1>7, LessKeepsInv DEF Finish

LEMMA RemoveFromListInv ==
  ASSUME StoreInv, NEW id \in DownloadIds, RemoveFromList(id)
  PROVE  StoreInv'
<1> DEFINE old == EntryOf(id)
           list == {e \in entries : e.id # id}
<1>1. /\ old \in entries /\ old \in Entry
      /\ list = entries \ {old}
  BY EntryOfId DEF RemoveFromList, StoreInv
<1>2. /\ list \in SUBSET Entry /\ OneEach(list)
      /\ IdsOf(list) \subseteq IdsOf(entries)
  BY DEF StoreInv, TypeOK, OneEach, IdsOf
<1>3. Idle /\ Change(list, ~old.private) /\ (~old.private) \in BOOLEAN
  BY DEF RemoveFromList
<1> HIDE DEF list, old
<1>4. old.private => Serialize(list) = Serialize(entries)
  BY <1>1, PrivateIsNoRow DEF StoreInv, TypeOK
<1>5. QED
  BY <1>2, <1>3, <1>4, LessKeepsInv DEF RemoveFromList

LEMMA UpdateProgressInv ==
  ASSUME StoreInv, NEW id \in DownloadIds, UpdateProgress(id)
  PROVE  StoreInv'
<1>1. /\ entries \in SUBSET Entry /\ OneEach(entries)
      /\ (~EntryOf(id).private) \in BOOLEAN
  BY DEF StoreInv, TypeOK
<1>2. QED
  BY <1>1, LessKeepsInv DEF UpdateProgress

LEMMA DiscardPrivateInv == StoreInv /\ DiscardPrivate => StoreInv'
<1> SUFFICES ASSUME StoreInv, DiscardPrivate PROVE StoreInv'
  OBVIOUS
<1> DEFINE list == {e \in entries : ~e.private}
<1>1. /\ list \in SUBSET Entry /\ OneEach(list)
      /\ IdsOf(list) \subseteq IdsOf(entries)
  BY DEF StoreInv, TypeOK, OneEach, IdsOf
<1>2. Serialize(list) = Serialize(entries)
  BY DEF Serialize
<1>3. QED
  BY <1>1, <1>2, LessKeepsInv DEF DiscardPrivate

LEMMA ClearFinishedInv == StoreInv /\ ClearFinished => StoreInv'
<1> SUFFICES ASSUME StoreInv, ClearFinished PROVE StoreInv'
  OBVIOUS
<1> DEFINE list == {e \in entries : e.state = "InProgress"}
<1>1. /\ list \in SUBSET Entry /\ OneEach(list)
      /\ IdsOf(list) \subseteq IdsOf(entries)
  BY DEF StoreInv, TypeOK, OneEach, IdsOf
<1>2. Idle /\ Change(list, list # entries) /\ (list # entries) \in BOOLEAN
  BY DEF ClearFinished
<1> HIDE DEF list
<1>3. QED
  BY <1>1, <1>2, LessKeepsInv DEF ClearFinished

LEMMA SaveInv == StoreInv /\ (SaveSucceeds \/ SaveFails) => StoreInv'
<1> SUFFICES ASSUME StoreInv, SaveSucceeds \/ SaveFails PROVE StoreInv'
  OBVIOUS
<1>1. CASE SaveSucceeds
  <2>1. disk' = Serialize(entries) /\ OneEach(Serialize(entries))
    BY <1>1, SerializeOneEach DEF SaveSucceeds, StoreInv, TypeOK
  <2>2. TypeOK'
    BY <1>1 DEF SaveSucceeds, StoreInv, TypeOK
  <2>3. AcknowledgedIsDurable'
    BY <1>1, <2>1 DEF SaveSucceeds, StoreInv, AcknowledgedIsDurable, Serialize
  <2>4. QED
    BY <1>1, <2>1, <2>2, <2>3 DEF SaveSucceeds, StoreInv, NextIdIsFresh, OneEach, IdsOf
<1>2. CASE SaveFails
  BY <1>2 DEF SaveFails, StoreInv, TypeOK, NextIdIsFresh, OneEach, IdsOf, AcknowledgedIsDurable, Idle
<1>3. QED
  BY <1>1, <1>2

LEMMA StopInv == StoreInv /\ Stop => StoreInv'
BY DEF StoreInv, Stop, TypeOK, NextIdIsFresh, OneEach, AcknowledgedIsDurable, Idle

LEMMA OpenInv == StoreInv /\ Open => StoreInv'
<1> SUFFICES ASSUME StoreInv, Open PROVE StoreInv'
  OBVIOUS
<1>0. PICK read \in BOOLEAN :
        /\ entries' = IF disk = NoFile \/ ~read THEN {} ELSE Deserialize(disk)
        /\ unread' = (disk # NoFile /\ ~read)
  BY DEF Open
<1>1. /\ entries' \subseteq Entry /\ OneEach(entries')
      /\ unread' \/ IF disk = NoFile THEN Serialize(entries') = {} ELSE Serialize(entries') = disk
  <2>1. CASE disk = NoFile \/ ~read
    <3>1. entries' = {} /\ (disk = NoFile \/ unread')
      BY <2>1, <1>0
    <3>2. QED
      BY <3>1 DEF OneEach, Serialize
  <2>2. CASE disk # NoFile /\ read
    BY <2>2, <1>0, DeserializeIsBack DEF StoreInv, TypeOK
  <2>3. QED
    BY <2>1, <2>2
<1>2. /\ IdsOf(entries') \cup {0} \subseteq 0..MaxId
      /\ IdsOf(entries') \cup {0} # {}
  BY <1>1, MaxIdAssumption DEF IdsOf, Entry, DownloadIds
<1>3. /\ Max(IdsOf(entries') \cup {0}) \in 0..MaxId
      /\ \A i \in IdsOf(entries') : i <= Max(IdsOf(entries') \cup {0})
  BY <1>2, MaxOfBounded, MaxIdAssumption
<1>4. nextId' \in 1..(MaxId + 1) /\ \A i \in IdsOf(entries') : i < nextId'
  BY <1>2, <1>3, MaxIdAssumption DEF Open
<1>5. TypeOK'
  BY <1>0, <1>1, <1>4 DEF Open, StoreInv, TypeOK
<1>6. used' = {} /\ issued' = {} /\ saving' = NoFile /\ disk' = disk /\ running'
  BY DEF Open, StoreInv
<1>7. NextIdIsFresh'
  BY <1>4, <1>6 DEF NextIdIsFresh, IdsOf
<1>8. AcknowledgedIsDurable'
  BY <1>1, <1>6 DEF AcknowledgedIsDurable, Serialize
<1>9. QED
  BY <1>1, <1>5, <1>6, <1>7, <1>8 DEF StoreInv, OneEach

LEMMA StoreStepInv == StoreInv /\ [Next]_vars => StoreInv'
<1> SUFFICES ASSUME StoreInv, [Next]_vars PROVE StoreInv'
  OBVIOUS
<1>1. ASSUME NEW id \in DownloadIds, NEW private \in BOOLEAN, StartDownload(id, private)
      PROVE  StoreInv'
  BY <1>1, StartDownloadInv
<1>2. ASSUME NEW id \in DownloadIds, NEW state \in States, Finish(id, state)
      PROVE  StoreInv'
  BY <1>2, FinishInv
<1>3. ASSUME NEW id \in DownloadIds, UpdateProgress(id) \/ RemoveFromList(id)
      PROVE  StoreInv'
  BY <1>3, UpdateProgressInv, RemoveFromListInv
<1>4. CASE UNCHANGED vars
  BY <1>4 DEF vars, StoreInv, TypeOK, NextIdIsFresh, OneEach, IdsOf, AcknowledgedIsDurable,
              Idle, Serialize
<1>5. QED
  BY <1>1, <1>2, <1>3, <1>4, AllocateIdInv, DiscardPrivateInv, ClearFinishedInv, SaveInv,
     StopInv, OpenInv DEF Next

(* The inductive invariant of the download list: entries, rows on disk and *)
(* the save under way agree, and the ids handed out lie below the next.    *)
THEOREM StoreInvariant == Spec => []StoreInv
BY StoreInitInv, StoreStepInv, PTL DEF Spec

(* What the operations that returned Ok did is in downloads.toml, for any  *)
(* number of downloads and wherever a save is refused, the program ends or *)
(* the file is opened unread.                                              *)
THEOREM AcknowledgedStays == Spec => []AcknowledgedIsDurable
<1>1. StoreInv => AcknowledgedIsDurable
  BY DEF StoreInv
<1>2. QED
  BY <1>1, StoreInvariant, PTL

(* allocate_id hands out no id of a download of the list or of one started *)
(* earlier in the run.                                                     *)
THEOREM NextIdStaysFresh == Spec => []NextIdIsFresh
<1>1. StoreInv => NextIdIsFresh
  BY DEF StoreInv
<1>2. QED
  BY <1>1, StoreInvariant, PTL

(***************************************************************************)
(* The handshake: a queue without one event                                *)
(***************************************************************************)

\* The recursive function of Without, which CHOOSE picks, is there.
WithoutUpTo(s, e, g) ==
  g = [n \in 0..Len(s) |-> IF n = 0 THEN <<>>
                           ELSE IF s[n] = e THEN g[n - 1]
                           ELSE Append(g[n - 1], s[n])]

\* r is the places of s up to n that hold something else than e, in their order.
Places(s, e, n, r) ==
  /\ r \in [1..Len(r) -> 1..n]
  /\ \A k \in 1..Len(r) : s[r[k]] # e
  /\ \A j, k \in 1..Len(r) : j < k => r[j] < r[k]
  /\ \A i \in 1..n : s[i] # e => \E k \in 1..Len(r) : r[k] = i

LEMMA WithoutExists ==
  ASSUME NEW s \in Seq(Event), NEW e \in Event
  PROVE  \E g : WithoutUpTo(s, e, g)
<1> DEFINE Built(n) == \E g \in [0..n -> Seq(Event)] :
                         /\ g[0] = <<>>
                         /\ \A k \in 1..n : g[k] = IF s[k] = e THEN g[k - 1]
                                                   ELSE Append(g[k - 1], s[k])
           Below == {n \in Nat : n <= Len(s) => Built(n)}
<1>1. Built(0)
  <2> DEFINE g == [k \in 0..0 |-> <<>>]
  <2>1. g \in [0..0 -> Seq(Event)]
    OBVIOUS
  <2>2. g[0] = <<>>
    OBVIOUS
  <2>3. \A k \in 1..0 : FALSE
    OBVIOUS
  <2>4. QED
    BY <2>1, <2>2, <2>3
<1>2. ASSUME NEW n \in Nat, Built(n), n + 1 <= Len(s) PROVE Built(n + 1)
  <2>1. PICK h \in [0..n -> Seq(Event)] :
                       /\ h[0] = <<>>
                       /\ \A k \in 1..n : h[k] = IF s[k] = e THEN h[k - 1]
                                                 ELSE Append(h[k - 1], s[k])
    BY <1>2
  <2> DEFINE new == IF s[n + 1] = e THEN h[n] ELSE Append(h[n], s[n + 1])
             g == [k \in 0..(n + 1) |-> IF k = n + 1 THEN new ELSE h[k]]
  <2>2. s[n + 1] \in Event /\ h[n] \in Seq(Event)
    BY <1>2
  <2>3. new \in Seq(Event)
    BY <2>2
  <2> HIDE DEF new
  <2>4. g \in [0..(n + 1) -> Seq(Event)]
    BY <2>3
  <2>5. g[0] = <<>> /\ g[n + 1] = new /\ \A k \in 0..n : g[k] = h[k]
    BY <2>1
  <2> HIDE DEF g
  <2>6. ASSUME NEW k \in 1..(n + 1)
        PROVE  g[k] = IF s[k] = e THEN g[k - 1] ELSE Append(g[k - 1], s[k])
    <3>1. CASE k = n + 1
      BY <3>1, <2>5 DEF new
    <3>2. CASE k # n + 1
      <4>1. k \in 1..n /\ k \in 0..n /\ k - 1 \in 0..n
        BY <3>2
      <4>2. QED
        BY <4>1, <2>1, <2>5
    <3>3. QED
      BY <3>1, <3>2
  <2>7. QED
    BY <2>4, <2>5, <2>6
<1> HIDE DEF Built
<1>3. Built(Len(s))
  <2>1. 0 \in Below /\ \A n \in Nat : n \in Below => n + 1 \in Below
    BY <1>1, <1>2
  <2> HIDE DEF Below
  <2>2. Len(s) \in Below
    BY <2>1, NatInductionOnSets
  <2>3. QED
    BY <2>2 DEF Below
<1>4. PICK g \in [0..Len(s) -> Seq(Event)] :
             /\ g[0] = <<>>
             /\ \A k \in 1..Len(s) : g[k] = IF s[k] = e THEN g[k - 1]
                                            ELSE Append(g[k - 1], s[k])
  BY <1>3 DEF Built
<1> DEFINE h == [n \in 0..Len(s) |-> IF n = 0 THEN <<>>
                           ELSE IF s[n] = e THEN g[n - 1]
                           ELSE Append(g[n - 1], s[n])]
<1>5. \A n \in 0..Len(s) : g[n] = h[n]
  <2> SUFFICES ASSUME NEW n \in 0..Len(s) PROVE g[n] = h[n]
    OBVIOUS
  <2>1. CASE n = 0
    BY <2>1, <1>4
  <2>2. CASE n # 0
    <3>1. n \in 1..Len(s)
      BY <2>2
    <3>2. QED
      BY <3>1, <1>4
  <2>3. QED
    BY <2>1, <2>2
<1>6. g = h
  BY <1>5
<1>7. QED
  BY <1>6 DEF WithoutUpTo

LEMMA WithoutPlaces ==
  ASSUME NEW s \in Seq(Event), NEW e \in Event
  PROVE  /\ Without(s, e) \in Seq(Event)
         /\ \E r \in Seq(Nat) :
              /\ Places(s, e, Len(s), r)
              /\ Len(Without(s, e)) = Len(r)
              /\ \A k \in 1..Len(r) : Without(s, e)[k] = s[r[k]]
<1> DEFINE g == CHOOSE g : WithoutUpTo(s, e, g)
<1>1. WithoutUpTo(s, e, g)
  BY WithoutExists
<1>2. Without(s, e) = g[Len(s)]
  BY DEF Without, WithoutUpTo
<1> HIDE DEF g
<1>3. /\ g[0] = <<>>
      /\ \A k \in 1..Len(s) : g[k] = IF s[k] = e THEN g[k - 1] ELSE Append(g[k - 1], s[k])
  <2>1. \A n \in 0..Len(s) : g[n] = IF n = 0 THEN <<>>
                           ELSE IF s[n] = e THEN g[n - 1]
                           ELSE Append(g[n - 1], s[n])
    BY <1>1 DEF WithoutUpTo
  <2>2. 0 \in 0..Len(s) /\ \A k \in 1..Len(s) : k \in 0..Len(s) /\ k # 0
    OBVIOUS
  <2>3. QED
    BY <2>1, <2>2
<1> DEFINE Mapped == {n \in Nat : n <= Len(s) =>
                        /\ g[n] \in Seq(Event)
                        /\ \E r \in Seq(Nat) :
                             /\ Places(s, e, n, r)
                             /\ Len(g[n]) = Len(r)
                             /\ \A k \in 1..Len(r) : g[n][k] = s[r[k]]}
<1>4. 0 \in Mapped
  <2> DEFINE r == <<>>
  <2>1. r \in Seq(Nat) /\ Len(r) = 0 /\ Places(s, e, 0, r) /\ g[0] \in Seq(Event) /\ Len(g[0]) = 0
    BY <1>3 DEF Places
  <2>2. QED
    BY <2>1
<1>5. ASSUME NEW n \in Nat, n \in Mapped PROVE n + 1 \in Mapped
  <2> SUFFICES ASSUME n + 1 <= Len(s)
               PROVE  /\ g[n + 1] \in Seq(Event)
                      /\ \E r \in Seq(Nat) :
                           /\ Places(s, e, n + 1, r)
                           /\ Len(g[n + 1]) = Len(r)
                           /\ \A k \in 1..Len(r) : g[n + 1][k] = s[r[k]]
    OBVIOUS
  <2>1. g[n] \in Seq(Event)
    BY <1>5
  <2>2. PICK r \in Seq(Nat) :
               /\ Places(s, e, n, r)
               /\ Len(g[n]) = Len(r)
               /\ \A k \in 1..Len(r) : g[n][k] = s[r[k]]
    BY <1>5
  <2>3. /\ n + 1 \in 1..Len(s) /\ s[n + 1] \in Event
        /\ g[n + 1] = IF s[n + 1] = e THEN g[n] ELSE Append(g[n], s[n + 1])
    <3>1. n + 1 \in 1..Len(s) /\ (n + 1) - 1 = n
      OBVIOUS
    <3>2. QED
      BY <1>3, <3>1
  <2>4. CASE s[n + 1] = e
    <3>1. Places(s, e, n + 1, r)
      BY <2>2, <2>4 DEF Places
    <3>2. QED
      BY <2>1, <2>2, <2>3, <2>4, <3>1
  <2>5. CASE s[n + 1] # e
    <3> DEFINE q == Append(r, n + 1)
    <3>1. /\ q \in Seq(Nat) /\ Len(q) = Len(r) + 1 /\ q[Len(q)] = n + 1
          /\ \A k \in 1..Len(r) : q[k] = r[k]
      OBVIOUS
    <3>2. /\ g[n + 1] \in Seq(Event) /\ Len(g[n + 1]) = Len(q)
          /\ g[n + 1][Len(q)] = s[n + 1]
          /\ \A k \in 1..Len(r) : g[n + 1][k] = g[n][k]
      BY <2>1, <2>2, <2>3, <2>5, <3>1
    <3> HIDE DEF q
    <3>3. DOMAIN q = 1..Len(q) /\ Len(q) \in Nat
      BY <3>1
    <3>4. Places(s, e, n + 1, q)
      <4>0. \A k \in 1..Len(q) : k \in 1..Len(r) \/ k = Len(q)
        BY <3>1, <3>3
      <4>1. \A k \in 1..Len(q) : q[k] \in 1..(n + 1) /\ s[q[k]] # e
        BY <2>2, <2>5, <3>1, <3>3 DEF Places
      <4>2. ASSUME NEW j \in 1..Len(q), NEW k \in 1..Len(q), j < k PROVE q[j] < q[k]
        <5>1. j \in 1..Len(r) /\ q[j] = r[j] /\ r[j] \in 1..n
          <6>1. j \in 1..Len(r)
            BY <4>2, <3>1, <3>3
          <6>2. QED
            BY <6>1, <2>2, <3>1 DEF Places
        <5>2. CASE k \in 1..Len(r)
          BY <5>1, <5>2, <4>2, <2>2, <3>1 DEF Places
        <5>3. CASE k = Len(q)
          BY <5>1, <5>3, <3>1
        <5>4. QED
          BY <5>2, <5>3, <4>0
      <4>3. ASSUME NEW i \in 1..(n + 1), s[i] # e PROVE \E k \in 1..Len(q) : q[k] = i
        <5>1. CASE i = n + 1
          BY <5>1, <3>1, <3>3
        <5>2. CASE i # n + 1
          <6>1. PICK k \in 1..Len(r) : r[k] = i
            BY <5>2, <4>3, <2>2 DEF Places
          <6>2. k \in 1..Len(q) /\ q[k] = i
            BY <6>1, <3>1, <3>3
          <6>3. QED
            BY <6>2
        <5>3. QED
          BY <5>1, <5>2
      <4>4. q \in [1..Len(q) -> 1..(n + 1)]
        BY <4>1, <3>1, <3>3
      <4>5. QED
        BY <4>1, <4>2, <4>3, <4>4 DEF Places
    <3>5. \A k \in 1..Len(q) : g[n + 1][k] = s[q[k]]
      <4>1. ASSUME NEW k \in 1..Len(q) PROVE g[n + 1][k] = s[q[k]]
        <5>1. CASE k \in 1..Len(r)
          BY <5>1, <2>2, <3>1, <3>2
        <5>2. CASE k = Len(q)
          BY <5>2, <3>1, <3>2
        <5>3. QED
          BY <5>1, <5>2, <3>1, <3>3
      <4>2. QED
        BY <4>1
    <3>6. QED
      BY <3>1, <3>2, <3>4, <3>5
  <2>6. QED
    BY <2>4, <2>5
<1> HIDE DEF Mapped
<1>6. Len(s) \in Mapped
  BY <1>4, <1>5, NatInductionOnSets
<1>7. QED
  BY <1>2, <1>6 DEF Mapped

\* What was said is said still, in its order, but for e among what waits.
Survives(h, e, t, u, f) ==
  /\ f \in [1..Len(u) -> 1..Len(t)]
  /\ \A k \in 1..Len(u) : u[k] = t[f[k]] /\ (f[k] > Len(h) => t[f[k]] # e)
  /\ \A j, k \in 1..Len(u) : j < k => f[j] < f[k]
  /\ \A i \in 1..Len(t) : (i <= Len(h) \/ t[i] # e) => \E k \in 1..Len(u) : f[k] = i

LEMMA ToldPlaces ==
  ASSUME NEW h \in Seq(Event), NEW s \in Seq(Event), NEW e \in Event,
         NEW t, t = h \o s, NEW u, u = h \o Without(s, e)
  PROVE  /\ t \in Seq(Event) /\ u \in Seq(Event)
         /\ \E f : Survives(h, e, t, u, f)
<1> DEFINE w == Without(s, e)
<1>1. w \in Seq(Event)
  BY WithoutPlaces
<1>2. PICK r \in Seq(Nat) :
              /\ Places(s, e, Len(s), r)
              /\ Len(w) = Len(r)
              /\ \A k \in 1..Len(r) : w[k] = s[r[k]]
  BY WithoutPlaces
<1> HIDE DEF w
<1>3. /\ t \in Seq(Event) /\ Len(t) = Len(h) + Len(s)
      /\ \A i \in 1..Len(t) : t[i] = IF i <= Len(h) THEN h[i] ELSE s[i - Len(h)]
  BY ConcatProperties
<1>4. /\ u \in Seq(Event) /\ Len(u) = Len(h) + Len(w)
      /\ \A i \in 1..Len(u) : u[i] = IF i <= Len(h) THEN h[i] ELSE w[i - Len(h)]
  BY <1>1, ConcatProperties DEF w
<1>5. Len(h) \in Nat /\ Len(s) \in Nat /\ Len(w) \in Nat
  BY <1>1
<1>6. /\ \A k \in 1..Len(w) : r[k] \in 1..Len(s) /\ s[r[k]] # e /\ w[k] = s[r[k]]
      /\ \A j, k \in 1..Len(w) : j < k => r[j] < r[k]
      /\ \A i \in 1..Len(s) : s[i] # e => \E k \in 1..Len(w) : r[k] = i
  BY <1>2 DEF Places
<1> DEFINE f == [k \in 1..Len(u) |-> IF k <= Len(h) THEN k ELSE Len(h) + r[k - Len(h)]]
<1>7. \A k \in 1..Len(u) : f[k] = IF k <= Len(h) THEN k ELSE Len(h) + r[k - Len(h)]
  OBVIOUS
<1> HIDE DEF f
<1>8. ASSUME NEW k \in 1..Len(u), k > Len(h), NEW m, m = k - Len(h)
      PROVE  /\ m \in 1..Len(w) /\ r[m] \in 1..Len(s) /\ f[k] = Len(h) + r[m]
             /\ f[k] \in 1..Len(t) /\ f[k] > Len(h)
             /\ t[f[k]] = s[r[m]] /\ u[k] = s[r[m]] /\ s[r[m]] # e
  <2>1. m \in 1..Len(w)
    BY <1>8, <1>4, <1>5
  <2>2. r[m] \in 1..Len(s) /\ s[r[m]] # e /\ w[m] = s[r[m]]
    BY <2>1, <1>6
  <2>3. f[k] = Len(h) + r[m]
    BY <1>7, <1>8, <1>5
  <2>4. f[k] \in 1..Len(t) /\ f[k] > Len(h) /\ f[k] - Len(h) = r[m]
    BY <2>2, <2>3, <1>3, <1>5
  <2>5. t[f[k]] = s[f[k] - Len(h)]
    BY <2>4, <1>3, <1>5
  <2>6. u[k] = w[m]
    <3>1. ~(k <= Len(h))
      BY <1>8, <1>5
    <3>2. u[k] = w[k - Len(h)]
      BY <3>1, <1>4
    <3>3. QED
      BY <3>2, <1>8
  <2>7. QED
    BY <2>1, <2>2, <2>3, <2>4, <2>5, <2>6
<1>9. ASSUME NEW k \in 1..Len(u), k <= Len(h)
      PROVE  f[k] = k /\ k \in 1..Len(t) /\ u[k] = h[k] /\ t[k] = h[k]
  BY <1>9, <1>3, <1>4, <1>5, <1>7
<1>10. ASSUME NEW k \in 1..Len(u)
       PROVE  f[k] \in 1..Len(t) /\ u[k] = t[f[k]] /\ (f[k] > Len(h) => t[f[k]] # e)
  <2>1. CASE k <= Len(h)
    BY <2>1, <1>9, <1>5
  <2>2. CASE k > Len(h)
    <3> DEFINE m == k - Len(h)
    <3>1. f[k] \in 1..Len(t) /\ t[f[k]] = s[r[m]] /\ u[k] = s[r[m]] /\ s[r[m]] # e
      BY <2>2, <1>8
    <3>2. QED
      BY <3>1
  <2>3. QED
    BY <2>1, <2>2, <1>5
<1>11. ASSUME NEW j \in 1..Len(u), NEW k \in 1..Len(u), j < k PROVE f[j] < f[k]
  <2>1. CASE k <= Len(h)
    <3>1. j <= Len(h)
      BY <2>1, <1>11, <1>5
    <3>2. QED
      BY <2>1, <3>1, <1>9, <1>11
  <2>2. CASE j <= Len(h) /\ k > Len(h)
    <3>1. f[j] = j /\ f[k] > Len(h) /\ f[k] \in 1..Len(t)
      BY <2>2, <1>8, <1>9
    <3>2. QED
      BY <3>1, <2>2, <1>5, <1>3
  <2>3. CASE j > Len(h)
    <3> DEFINE i == j - Len(h)
               m == k - Len(h)
    <3>1. k > Len(h) /\ i < m
      BY <2>3, <1>11, <1>5
    <3>2. i \in 1..Len(w) /\ r[i] \in 1..Len(s) /\ f[j] = Len(h) + r[i]
      BY <2>3, <1>8
    <3>3. m \in 1..Len(w) /\ r[m] \in 1..Len(s) /\ f[k] = Len(h) + r[m]
      BY <3>1, <1>8
    <3> HIDE DEF i, m
    <3>4. r[i] < r[m]
      BY <3>1, <3>2, <3>3, <1>6
    <3>5. QED
      BY <3>2, <3>3, <3>4, <1>5
  <2>4. QED
    BY <2>1, <2>2, <2>3, <1>5
<1>12. ASSUME NEW i \in 1..Len(t), i <= Len(h) \/ t[i] # e PROVE \E k \in 1..Len(u) : f[k] = i
  <2>1. CASE i <= Len(h)
    <3>1. i \in 1..Len(u)
      BY <2>1, <1>4, <1>5
    <3>2. QED
      BY <3>1, <2>1, <1>9
  <2>2. CASE i > Len(h)
    <3>1. i - Len(h) \in 1..Len(s) /\ s[i - Len(h)] # e
      BY <2>2, <1>12, <1>3, <1>5
    <3>2. PICK m \in 1..Len(w) : r[m] = i - Len(h)
      BY <3>1, <1>6
    <3> DEFINE k == m + Len(h)
    <3>3. k \in 1..Len(u) /\ k > Len(h) /\ m = k - Len(h)
      BY <1>4, <1>5
    <3> HIDE DEF k
    <3>4. f[k] = Len(h) + r[m]
      BY <3>3, <1>8
    <3>5. f[k] = i
      BY <3>2, <3>4, <1>5
    <3>6. QED
      BY <3>3, <3>5
  <2>3. QED
    BY <2>1, <2>2, <1>5
<1>13. f \in [1..Len(u) -> 1..Len(t)]
  BY <1>10 DEF f
<1>14. Survives(h, e, t, u, f)
  BY <1>10, <1>11, <1>12, <1>13 DEF Survives
<1>15. QED
  BY <1>3, <1>4, <1>14

(***************************************************************************)
(* What is told, and what is added to it                                   *)
(***************************************************************************)

Says(told, e) == \E i \in DOMAIN told : told[i] = e

Quiet(more, id) == \A i \in DOMAIN more : more[i].of = id => more[i].kind = "Requested"

LEMMA AppendedTells ==
  ASSUME NEW told \in Seq(Event), NEW more \in Seq(Event)
  PROVE  /\ told \o more \in Seq(Event)
         /\ \A e : Says(told \o more, e) <=> Says(told, e) \/ Says(more, e)
         /\ \A id \in Ids : Quiet(more, id) /\ EndsCancelled(told, id)
                             => EndsCancelled(told \o more, id)
<1> DEFINE t == told \o more
<1>1. /\ t \in Seq(Event) /\ Len(t) = Len(told) + Len(more)
      /\ \A i \in 1..Len(t) : t[i] = IF i <= Len(told) THEN told[i] ELSE more[i - Len(told)]
  BY ConcatProperties
<1> HIDE DEF t
<1>2. /\ Len(told) \in Nat /\ Len(more) \in Nat /\ DOMAIN t = 1..Len(t)
      /\ DOMAIN told = 1..Len(told) /\ DOMAIN more = 1..Len(more)
  BY <1>1
<1>3. \A i \in DOMAIN told : i \in DOMAIN t /\ t[i] = told[i]
  BY <1>1, <1>2
<1>4. \A i \in DOMAIN more : Len(told) + i \in DOMAIN t /\ t[Len(told) + i] = more[i]
  <2> SUFFICES ASSUME NEW i \in DOMAIN more
               PROVE  Len(told) + i \in DOMAIN t /\ t[Len(told) + i] = more[i]
    OBVIOUS
  <2>1. Len(told) + i \in 1..Len(t) /\ Len(told) + i > Len(told) /\ (Len(told) + i) - Len(told) = i
    BY <1>1, <1>2
  <2>2. QED
    BY <2>1, <1>1, <1>2
<1>5. ASSUME NEW i \in DOMAIN t
      PROVE  \/ i \in DOMAIN told /\ t[i] = told[i]
             \/ i > Len(told) /\ i - Len(told) \in DOMAIN more /\ t[i] = more[i - Len(told)]
  BY <1>1, <1>2
<1>6. \A e : (\E i \in DOMAIN t : t[i] = e) <=>
                    (\E i \in DOMAIN told : told[i] = e) \/ (\E i \in DOMAIN more : more[i] = e)
  <2> SUFFICES ASSUME NEW e
               PROVE  (\E i \in DOMAIN t : t[i] = e) <=>
                        (\E i \in DOMAIN told : told[i] = e) \/ (\E i \in DOMAIN more : more[i] = e)
    OBVIOUS
  <2>1. ASSUME NEW i \in DOMAIN told, told[i] = e PROVE \E j \in DOMAIN t : t[j] = e
    BY <2>1, <1>3
  <2>2. ASSUME NEW i \in DOMAIN more, more[i] = e PROVE \E j \in DOMAIN t : t[j] = e
    BY <2>2, <1>4
  <2>3. QED
    BY <1>5, <2>1, <2>2
<1>7. ASSUME NEW id \in Ids, EndsCancelled(told, id),
             \A i \in DOMAIN more : more[i].of = id => more[i].kind = "Requested"
      PROVE  EndsCancelled(t, id)
  <2>1. PICK i \in DOMAIN told :
               /\ told[i] = Event1("Cancelled", id)
               /\ \A j \in DOMAIN told : j > i /\ told[j].of = id => told[j].kind = "Requested"
    BY <1>7 DEF EndsCancelled
  <2>2. \A j \in DOMAIN t : j > i /\ t[j].of = id => t[j].kind = "Requested"
    BY <2>1, <1>5, <1>7
  <2>3. QED
    BY <2>1, <2>2, <1>3 DEF EndsCancelled
<1>8. \A e : Says(t, e) <=> Says(told, e) \/ Says(more, e)
  BY <1>6 DEF Says
<1>9. \A id \in Ids : Quiet(more, id) /\ EndsCancelled(told, id) => EndsCancelled(t, id)
  BY <1>7 DEF Quiet
<1>10. QED
  BY <1>1, <1>8, <1>9 DEF t

LEMMA WithoutTells ==
  ASSUME NEW h \in Seq(Event), NEW s \in Seq(Event), NEW e \in Event
  PROVE  /\ h \o s \in Seq(Event) /\ h \o Without(s, e) \in Seq(Event)
         /\ \A x : Says(h \o Without(s, e), x) => Says(h \o s, x)
         /\ \A x : x # e /\ Says(h \o s, x) => Says(h \o Without(s, e), x)
         /\ Says(h \o Without(s, e), e) => Says(h, e)
         /\ \A id \in Ids : e # Event1("Cancelled", id) /\ EndsCancelled(h \o s, id)
                             => EndsCancelled(h \o Without(s, e), id)
<1> DEFINE t == h \o s
           u == h \o Without(s, e)
<1>1. t \in Seq(Event) /\ u \in Seq(Event)
  BY ToldPlaces
<1>2. PICK f : Survives(h, e, t, u, f)
  BY ToldPlaces
<1> HIDE DEF u
<1>3. /\ DOMAIN u = 1..Len(u) /\ DOMAIN t = 1..Len(t) /\ DOMAIN h = 1..Len(h)
      /\ Len(u) \in Nat /\ Len(t) \in Nat /\ Len(h) \in Nat
  BY <1>1
<1>4. \A k \in DOMAIN u : f[k] \in DOMAIN t /\ u[k] = t[f[k]]
  BY <1>2, <1>3 DEF Survives
<1>5. \A x : (\E i \in DOMAIN u : u[i] = x) => \E i \in DOMAIN t : t[i] = x
  BY <1>4
<1>6. ASSUME NEW i \in DOMAIN t, t[i] # e PROVE \E k \in DOMAIN u : f[k] = i /\ u[k] = t[i]
  <2>1. PICK k \in 1..Len(u) : f[k] = i
    BY <1>2, <1>3, <1>6 DEF Survives
  <2>2. QED
    BY <2>1, <1>3, <1>4
<1>7. \A x : x # e /\ (\E i \in DOMAIN t : t[i] = x) => \E i \in DOMAIN u : u[i] = x
  <2> SUFFICES ASSUME NEW x, x # e, NEW i \in DOMAIN t, t[i] = x
               PROVE  \E k \in DOMAIN u : u[k] = x
    OBVIOUS
  <2>1. QED
    BY <1>6
<1>8. ASSUME NEW k \in DOMAIN u, u[k] = e PROVE \E i \in DOMAIN h : h[i] = e
  <2>1. f[k] \in 1..Len(h)
    <3>1. f[k] \in 1..Len(t) /\ (f[k] > Len(h) => t[f[k]] # e) /\ u[k] = t[f[k]]
      BY <1>2, <1>3 DEF Survives
    <3>2. QED
      BY <3>1, <1>8, <1>3
  <2>2. t[f[k]] = h[f[k]]
    BY <2>1, <1>3, ConcatProperties
  <2>3. QED
    BY <2>1, <2>2, <1>3, <1>4, <1>8
<1>9. ASSUME NEW id \in Ids, e # Event1("Cancelled", id), EndsCancelled(t, id)
      PROVE  EndsCancelled(u, id)
  <2>1. PICK i \in DOMAIN t :
               /\ t[i] = Event1("Cancelled", id)
               /\ \A j \in DOMAIN t : j > i /\ t[j].of = id => t[j].kind = "Requested"
    BY <1>9 DEF EndsCancelled
  <2>2. PICK k \in DOMAIN u : f[k] = i /\ u[k] = t[i]
    BY <2>1, <1>6, <1>9
  <2>3. ASSUME NEW j \in DOMAIN u, j > k, u[j].of = id PROVE u[j].kind = "Requested"
    <3>1. f[j] > i
      BY <2>2, <2>3, <1>2, <1>3 DEF Survives
    <3>2. QED
      BY <3>1, <2>1, <2>3, <1>4
  <2>4. QED
    BY <2>1, <2>2, <2>3 DEF EndsCancelled
<1>10. QED
  BY <1>1, <1>5, <1>7, <1>8, <1>9 DEF Says, u

(***************************************************************************)
(* The invariant of the handshake                                          *)
(***************************************************************************)

RequestsStand ==
  \A e \in Event : Says(events, e) /\ e.kind = "Requested"
                    => e.of \in DOMAIN downloads /\ ~downloads[e.of].rejected

AcceptedSpeak == \A e \in Event : Says(Told, e) /\ e.kind # "Requested" => e.of \in UsedIds

HandshakeInv ==
  /\ HandshakeTypeOK
  /\ \A t \in DOMAIN downloads : downloads[t].cancelled => downloads[t].accepted # NoId
  /\ RequestsStand
  /\ AcceptedSpeak
  /\ CancelledIsFinal
  /\ FileMeansFinished

LEMMA HandshakeInitInv == HandshakeInit => HandshakeInv
<1> SUFFICES ASSUME HandshakeInit PROVE HandshakeInv
  OBVIOUS
<1>1. downloads = <<>> /\ Told = <<>> /\ files = {} /\ DOMAIN downloads = {} /\ DOMAIN Told = {}
      /\ DOMAIN events = {}
  BY DEF HandshakeInit, Told
<1>2. HandshakeTypeOK
  BY DownloadsAssumption DEF HandshakeInit, HandshakeTypeOK
<1>3. CancelledIds = {} /\ FinishedIn(Told) = {}
  BY <1>1 DEF CancelledIds, FinishedIn
<1>4. QED
  BY <1>1, <1>2, <1>3 DEF HandshakeInv, CancelledIsFinal, FileMeansFinished,
                          RequestsStand, AcceptedSpeak, Says

LEMMA ToldType == HandshakeTypeOK => Told \in Seq(Event)
BY ConcatProperties DEF HandshakeTypeOK, Told

LEMMA IdsType ==
  ASSUME HandshakeInv
  PROVE  /\ UsedIds \subseteq Ids /\ CancelledIds \subseteq UsedIds
         /\ \A t \in DOMAIN downloads : downloads[t] \in Download
<1>1. \A t \in DOMAIN downloads : downloads[t] \in Download
  BY DEF HandshakeInv, HandshakeTypeOK
<1>2. QED
  BY <1>1 DEF UsedIds, CancelledIds, HandshakeInv, Download

\* Of what is appended to what waits, the whole is heard in the end.
LEMMA AppendTold ==
  ASSUME HandshakeTypeOK, NEW more \in Seq(Event), heard' = heard, events' = events \o more
  PROVE  Told' = Told \o more
<1>1. heard \in Seq(Event) /\ events \in Seq(Event)
  BY DEF HandshakeTypeOK
<1>2. (heard \o events) \o more = heard \o (events \o more)
  BY <1>1, ConcatAssociative
<1>3. QED
  BY <1>2 DEF Told

LEMMA AddedIsSaid ==
  ASSUME HandshakeInv, NEW more \in Seq(Event), heard' = heard, events' = events \o more,
         CancelledIds' = CancelledIds,
         \A i \in DOMAIN more : more[i].of \in CancelledIds => more[i].kind = "Requested",
         files \subseteq files', files' \subseteq files \cup FinishedIn(more),
         FinishedIn(more) \subseteq files' \cup unwritten', unwritten \subseteq unwritten',
         unremoved' = unremoved
  PROVE  Told' = Told \o more /\ CancelledIsFinal' /\ FileMeansFinished'
<1> DEFINE t == Told \o more
<1>1. Told' = t
  BY AppendTold DEF HandshakeInv
<1>2. Told \in Seq(Event)
  BY ToldType DEF HandshakeInv
<1>3. /\ \A e : Says(t, e) <=> Says(Told, e) \/ Says(more, e)
      /\ \A id \in Ids : Quiet(more, id) /\ EndsCancelled(Told, id) => EndsCancelled(t, id)
  BY <1>2, AppendedTells
<1> HIDE DEF t
<1>4. FinishedIn(t) = FinishedIn(Told) \cup FinishedIn(more)
  BY <1>3 DEF FinishedIn, Says
<1>5. ASSUME NEW id \in CancelledIds PROVE EndsCancelled(t, id) /\ id \notin FinishedIn(more)
  <2>1. id \in Ids /\ EndsCancelled(Told, id)
    BY IdsType DEF HandshakeInv, CancelledIsFinal
  <2>2. \A i \in DOMAIN more : more[i].of = id => more[i].kind = "Requested"
    OBVIOUS
  <2>3. EndsCancelled(t, id)
    BY <2>1, <2>2, <1>3 DEF Quiet
  <2>4. ASSUME NEW i \in DOMAIN more, more[i] = Event1("Finished", id) PROVE FALSE
    <3>1. more[i].of = id /\ more[i].kind = "Finished"
      BY <2>4 DEF Event1
    <3>2. QED
      BY <2>2, <3>1
  <2>5. QED
    BY <2>3, <2>4 DEF FinishedIn
<1>6. ASSUME NEW id \in CancelledIds'
      PROVE  /\ EndsCancelled(t, id) /\ id \notin FinishedIn(t)
             /\ id \in files' => id \in unremoved'
  BY <1>4, <1>5 DEF HandshakeInv, CancelledIsFinal
<1>7. /\ files' \subseteq FinishedIn(t) \cup unremoved'
      /\ FinishedIn(t) \subseteq files' \cup unwritten'
  BY <1>4 DEF HandshakeInv, FileMeansFinished
<1>8. CancelledIsFinal'
  BY <1>1, <1>6 DEF CancelledIsFinal
<1>9. FileMeansFinished'
  BY <1>1, <1>7 DEF FileMeansFinished
<1>10. QED
  BY <1>1, <1>8, <1>9 DEF t

LEMMA EventType ==
  ASSUME NEW kind \in {"Requested", "Progress"} \cup Outcomes, NEW of \in Tokens
  PROVE  Event1(kind, of) \in Event /\ Event1(kind, of).kind = kind /\ Event1(kind, of).of = of
BY DEF Event, Event1

\* What the invariant says of requests and of who speaks, when something is added.
LEMMA AddedSpeaks ==
  ASSUME HandshakeInv, NEW more \in Seq(Event), heard' = heard, events' = events \o more,
         UsedIds \subseteq UsedIds', DOMAIN downloads \subseteq DOMAIN downloads',
         \A t \in DOMAIN downloads : downloads'[t].rejected = downloads[t].rejected,
         \A i \in DOMAIN more :
           IF more[i].kind = "Requested"
           THEN more[i].of \in DOMAIN downloads' /\ ~downloads'[more[i].of].rejected
           ELSE more[i].of \in UsedIds'
  PROVE  RequestsStand' /\ AcceptedSpeak'
<1> DEFINE t == Told \o more
           w == events \o more
<1>1. Told' = t /\ events' = w
  BY AppendTold DEF HandshakeInv
<1>2. Told \in Seq(Event) /\ events \in Seq(Event)
  BY ToldType DEF HandshakeInv, HandshakeTypeOK
<1>3. \A e : Says(t, e) <=> Says(Told, e) \/ Says(more, e)
  BY <1>2, AppendedTells
<1>4. \A e : Says(w, e) <=> Says(events, e) \/ Says(more, e)
  BY <1>2, AppendedTells
<1> HIDE DEF t, w
<1>5. ASSUME NEW e, Says(more, e)
      PROVE  IF e.kind = "Requested" THEN e.of \in DOMAIN downloads' /\ ~downloads'[e.of].rejected
             ELSE e.of \in UsedIds'
  BY <1>5 DEF Says
<1>6. \A e \in Event : Says(t, e) /\ e.kind # "Requested" => e.of \in UsedIds'
  BY <1>3, <1>5 DEF HandshakeInv, AcceptedSpeak
<1>7. \A e \in Event : Says(w, e) /\ e.kind = "Requested"
                         => e.of \in DOMAIN downloads' /\ ~downloads'[e.of].rejected
  BY <1>4, <1>5 DEF HandshakeInv, RequestsStand
<1>8. AcceptedSpeak'
  BY <1>1, <1>6 DEF AcceptedSpeak
<1>9. RequestsStand'
  BY <1>1, <1>7 DEF RequestsStand
<1>10. QED
  BY <1>8, <1>9

LEMMA TriggerInv ==
  ASSUME HandshakeInv, NEW steps \in Scripts, Trigger(steps)
  PROVE  HandshakeInv'
<1> DEFINE token == Len(downloads) + 1
           new == [steps |-> steps, accepted |-> NoId, rejected |-> FALSE, cancelled |-> FALSE]
           more == <<Event1("Requested", token)>>
<1>1. token \in Tokens /\ Event1("Requested", token) \in Event /\ more \in Seq(Event)
  BY DownloadsAssumption DEF Trigger, HandshakeInv, HandshakeTypeOK, Tokens, Event, Event1
<1>2. new \in Download
  BY DEF Download
<1>3. /\ downloads' \in Seq(Download) /\ Len(downloads') = token
      /\ DOMAIN downloads' = DOMAIN downloads \cup {token}
      /\ \A t \in DOMAIN downloads : downloads'[t] = downloads[t]
      /\ downloads'[token] = new
  BY <1>2 DEF Trigger, HandshakeInv, HandshakeTypeOK
<1>4. /\ heard' = heard /\ files' = files /\ events' = events \o more
      /\ unwritten' = unwritten /\ unremoved' = unremoved
  BY <1>1 DEF refusals, Trigger, HandshakeInv, HandshakeTypeOK
<1> HIDE DEF new
<1>5. UsedIds' = UsedIds /\ CancelledIds' = CancelledIds
  BY <1>3 DEF UsedIds, CancelledIds, new
<1>6. DOMAIN more = {1} /\ more[1] = Event1("Requested", token)
  OBVIOUS
<1> HIDE DEF token, more
<1>7. /\ \A i \in DOMAIN more : more[i].kind = "Requested"
      /\ FinishedIn(more) = {}
  BY <1>6 DEF Event1, FinishedIn
<1>8. Told' = Told \o more /\ CancelledIsFinal' /\ FileMeansFinished'
  BY <1>1, <1>4, <1>5, <1>7, AddedIsSaid
<1>9. HandshakeTypeOK'
  BY <1>1, <1>3, <1>4, DownloadsAssumption DEF HandshakeInv, HandshakeTypeOK, Tokens
<1>10. RequestsStand' /\ AcceptedSpeak'
  <2>1. \A i \in DOMAIN more : more[i].kind = "Requested" /\ more[i].of = token
    BY <1>6 DEF Event1
  <2>2. token \in DOMAIN downloads' /\ ~downloads'[token].rejected
    BY <1>3 DEF new
  <2>3. QED
    BY <1>1, <1>3, <1>4, <1>5, <2>1, <2>2, AddedSpeaks
<1>11. (\A t \in DOMAIN downloads : downloads[t].cancelled => downloads[t].accepted # NoId)'
  BY <1>3 DEF HandshakeInv, new
<1>12. QED
  BY <1>8, <1>9, <1>10, <1>11 DEF HandshakeInv

LEMMA AcceptInv ==
  ASSUME HandshakeInv, NEW token \in DOMAIN downloads, NEW id \in Ids, id \notin UsedIds,
         ~Answered(token), Accept(token, id)
  PROVE  HandshakeInv'
<1> DEFINE steps == StepsOf(downloads[token])
           more == [i \in DOMAIN steps |-> Event1(steps[i], id)]
<1>1. /\ downloads \in Seq(Download) /\ DOMAIN downloads = 1..Len(downloads)
      /\ \A t \in DOMAIN downloads : downloads[t] \in Download
  BY DEF HandshakeInv, HandshakeTypeOK
<1>2. steps \in Seq(Steps)
  <2>1. downloads[token].steps \in Seq(Steps)
    BY <1>1, DownloadsAssumption DEF Download
  <2>2. <<"Progress", "Finished">> \in Seq(Steps)
    BY DEF Steps
  <2>3. QED
    BY <2>1, <2>2 DEF StepsOf
<1>3. /\ downloads' = [downloads EXCEPT ![token].accepted = id] /\ heard' = heard
      /\ events' = events \o more
      /\ IF Contains(steps, "Finished") THEN WriteFile(id) ELSE UNCHANGED <<files, unwritten>>
      /\ unremoved' = unremoved
  BY DEF Accept
<1> HIDE DEF steps
<1>4. DOMAIN more = DOMAIN steps /\ DOMAIN steps = 1..Len(steps) /\ Len(steps) \in Nat
  BY <1>2
<1>5. \A i \in DOMAIN more : more[i] = Event1(steps[i], id) /\ steps[i] \in Steps
  BY <1>2, <1>4
<1> HIDE DEF more
<1>6. \A i \in DOMAIN more : /\ more[i] \in Event /\ more[i].of = id
                             /\ more[i].kind = steps[i] /\ more[i].kind # "Requested"
  <2> SUFFICES ASSUME NEW i \in DOMAIN more
               PROVE  /\ more[i] \in Event /\ more[i].of = id
                      /\ more[i].kind = steps[i] /\ more[i].kind # "Requested"
    OBVIOUS
  <2>1. steps[i] \in {"Requested", "Progress"} \cup Outcomes /\ steps[i] # "Requested" /\ id \in Tokens
    BY <1>5 DEF Steps, Outcomes, Ids, Tokens
  <2>2. /\ Event1(steps[i], id) \in Event /\ Event1(steps[i], id).kind = steps[i]
        /\ Event1(steps[i], id).of = id
    BY <2>1, EventType
  <2>3. QED
    BY <2>1, <2>2, <1>5
<1>7. more \in Seq(Event)
  <2>1. more = [i \in 1..Len(steps) |-> more[i]]
    BY <1>4 DEF more
  <2>2. QED
    BY <1>4, <1>6, <2>1
<1>8. /\ downloads' \in Seq(Download) /\ Len(downloads') = Len(downloads)
      /\ DOMAIN downloads' = DOMAIN downloads
      /\ \A t \in DOMAIN downloads : /\ downloads'[t].rejected = downloads[t].rejected
                                     /\ downloads'[t].cancelled = downloads[t].cancelled
                                     /\ downloads'[t].accepted = IF t = token THEN id
                                                                 ELSE downloads[t].accepted
  <2>1. DOMAIN downloads' = DOMAIN downloads
    BY <1>3
  <2>2. \A t \in DOMAIN downloads :
          downloads'[t] = IF t = token THEN [downloads[t] EXCEPT !.accepted = id] ELSE downloads[t]
    BY <1>3
  <2>3. ASSUME NEW t \in DOMAIN downloads
        PROVE  /\ downloads'[t] \in Download
               /\ downloads'[t].rejected = downloads[t].rejected
               /\ downloads'[t].cancelled = downloads[t].cancelled
               /\ downloads'[t].accepted = IF t = token THEN id ELSE downloads[t].accepted
    BY <1>1, <2>2 DEF Download
  <2>4. downloads' \in Seq(Download) /\ Len(downloads') = Len(downloads)
    <3>1. downloads' = [t \in 1..Len(downloads) |-> downloads'[t]]
      BY <1>1, <1>3
    <3>2. QED
      BY <3>1, <1>1, <2>3
  <2>5. QED
    BY <2>1, <2>3, <2>4
<1>9. downloads[token].accepted = NoId /\ ~downloads[token].cancelled
  BY DEF Answered, HandshakeInv
<1>10. id # NoId
  BY DownloadsAssumption DEF Ids
<1>11. UsedIds' = UsedIds \cup {id}
  BY <1>8, <1>9, <1>10 DEF UsedIds
<1>12. CancelledIds' = CancelledIds
  BY <1>8, <1>9 DEF CancelledIds
<1>13. id \notin CancelledIds
  BY IdsType
<1>14. FinishedIn(more) = IF Contains(steps, "Finished") THEN {id} ELSE {}
  <2>1. ASSUME NEW x \in Ids, NEW i \in DOMAIN more, more[i] = Event1("Finished", x)
        PROVE  x = id /\ Contains(steps, "Finished")
    <3>1. more[i].kind = "Finished" /\ more[i].of = x
      BY <2>1 DEF Event1
    <3>2. QED
      BY <3>1, <1>4, <1>6 DEF Contains
  <2>2. ASSUME Contains(steps, "Finished")
        PROVE  \E i \in DOMAIN more : more[i] = Event1("Finished", id)
    BY <2>2, <1>4, <1>5 DEF Contains
  <2>3. QED
    BY <2>1, <2>2 DEF FinishedIn
<1>15. /\ files \subseteq files' /\ files' \subseteq files \cup FinishedIn(more)
       /\ FinishedIn(more) \subseteq files' \cup unwritten' /\ unwritten \subseteq unwritten'
       /\ unwritten' \subseteq unwritten \cup {id}
  BY <1>3, <1>14 DEF WriteFile
<1>16. Told' = Told \o more /\ CancelledIsFinal' /\ FileMeansFinished'
  <2>1. \A i \in DOMAIN more : more[i].of \in CancelledIds => more[i].kind = "Requested"
    BY <1>6, <1>13
  <2>2. QED
    BY <1>3, <1>7, <1>12, <1>15, <2>1, AddedIsSaid
<1>17. RequestsStand' /\ AcceptedSpeak'
  <2>1. \A i \in DOMAIN more :
           IF more[i].kind = "Requested"
           THEN more[i].of \in DOMAIN downloads' /\ ~downloads'[more[i].of].rejected
           ELSE more[i].of \in UsedIds'
    BY <1>6, <1>11
  <2>2. QED
    BY <1>3, <1>7, <1>8, <1>11, <2>1, AddedSpeaks
<1>18. HandshakeTypeOK'
  <2>1. events' \in Seq(Event)
    BY <1>3, <1>7, ConcatProperties DEF HandshakeInv, HandshakeTypeOK
  <2>2. files' \subseteq Ids /\ unwritten' \subseteq Ids
    BY <1>15 DEF HandshakeInv, HandshakeTypeOK, FinishedIn
  <2>3. QED
    BY <1>3, <1>8, <2>1, <2>2 DEF HandshakeInv, HandshakeTypeOK
<1>19. (\A t \in DOMAIN downloads : downloads[t].cancelled => downloads[t].accepted # NoId)'
  BY <1>8, <1>9, <1>10 DEF HandshakeInv
<1>20. QED
  BY <1>16, <1>17, <1>18, <1>19 DEF HandshakeInv

\* What waits, without one event.
LEMMA WithoutSays ==
  ASSUME NEW s \in Seq(Event), NEW e \in Event
  PROVE  /\ Without(s, e) \in Seq(Event)
         /\ \A x : Says(Without(s, e), x) <=> Says(s, x) /\ x # e
<1> DEFINE w == Without(s, e)
<1>1. w \in Seq(Event)
  BY WithoutPlaces
<1>2. PICK r \in Seq(Nat) :
              /\ Places(s, e, Len(s), r)
              /\ Len(w) = Len(r)
              /\ \A k \in 1..Len(r) : w[k] = s[r[k]]
  BY WithoutPlaces
<1> HIDE DEF w
<1>3. DOMAIN w = 1..Len(r) /\ DOMAIN s = 1..Len(s)
  BY <1>1, <1>2
<1>4. \A k \in DOMAIN w : r[k] \in DOMAIN s /\ s[r[k]] # e /\ w[k] = s[r[k]]
  BY <1>2, <1>3 DEF Places
<1>5. \A i \in DOMAIN s : s[i] # e => \E k \in DOMAIN w : r[k] = i
  BY <1>2, <1>3 DEF Places
<1>6. \A x : Says(w, x) <=> Says(s, x) /\ x # e
  BY <1>4, <1>5 DEF Says
<1>7. QED
  BY <1>1, <1>6 DEF w

LEMMA RejectInv ==
  ASSUME HandshakeInv, NEW token \in DOMAIN downloads, Reject(token)
  PROVE  HandshakeInv'
<1> DEFINE e == Event1("Requested", token)
<1>1. /\ downloads \in Seq(Download) /\ DOMAIN downloads = 1..Len(downloads)
      /\ \A t \in DOMAIN downloads : downloads[t] \in Download
      /\ heard \in Seq(Event) /\ events \in Seq(Event)
  BY DEF HandshakeInv, HandshakeTypeOK
<1>2. /\ downloads' = [downloads EXCEPT ![token].rejected = TRUE] /\ heard' = heard
      /\ events' = Without(events, e) /\ files' = files
      /\ unwritten' = unwritten /\ unremoved' = unremoved
  BY DEF Reject, refusals
<1>3. /\ downloads' \in Seq(Download) /\ Len(downloads') = Len(downloads)
      /\ DOMAIN downloads' = DOMAIN downloads
      /\ \A t \in DOMAIN downloads : /\ downloads'[t].accepted = downloads[t].accepted
                                     /\ downloads'[t].cancelled = downloads[t].cancelled
                                     /\ downloads'[t].rejected = (downloads[t].rejected \/ t = token)
  <2>1. DOMAIN downloads' = DOMAIN downloads
    BY <1>2
  <2>2. \A t \in DOMAIN downloads :
          downloads'[t] = IF t = token THEN [downloads[t] EXCEPT !.rejected = TRUE] ELSE downloads[t]
    BY <1>2
  <2>3. ASSUME NEW t \in DOMAIN downloads
        PROVE  /\ downloads'[t] \in Download
               /\ downloads'[t].accepted = downloads[t].accepted
               /\ downloads'[t].cancelled = downloads[t].cancelled
               /\ downloads'[t].rejected = (downloads[t].rejected \/ t = token)
    BY <1>1, <2>2 DEF Download
  <2>4. downloads' \in Seq(Download) /\ Len(downloads') = Len(downloads)
    <3>1. downloads' = [t \in 1..Len(downloads) |-> downloads'[t]]
      BY <1>1, <1>2
    <3>2. \A t \in 1..Len(downloads) : downloads'[t] \in Download
      BY <1>1, <2>3
    <3>3. QED
      BY <3>1, <3>2, <1>1
  <2>5. QED
    BY <2>1, <2>3, <2>4
<1>4. UsedIds' = UsedIds /\ CancelledIds' = CancelledIds
  BY <1>3 DEF UsedIds, CancelledIds
<1>5. token \in Tokens
  BY <1>1, DownloadsAssumption DEF Tokens, HandshakeInv, HandshakeTypeOK
<1>6. e \in Event /\ e.kind = "Requested" /\ e.of = token
  BY <1>5, EventType
<1> HIDE DEF e
<1> DEFINE u == heard \o Without(events, e)
<1>7. Told' = u /\ Told = heard \o events
  BY <1>2 DEF Told
<1>8. /\ \A x : Says(u, x) => Says(Told, x)
      /\ \A x : x # e /\ Says(Told, x) => Says(u, x)
      /\ \A id \in Ids : e # Event1("Cancelled", id) /\ EndsCancelled(Told, id) => EndsCancelled(u, id)
  BY <1>1, <1>6, WithoutTells DEF Told
<1> HIDE DEF u
<1>9. \A x : Says(events', x) <=> Says(events, x) /\ x # e
  BY <1>1, <1>2, <1>6, WithoutSays
<1>10. \A id \in Ids : Event1("Cancelled", id) # e /\ Event1("Finished", id) # e
  BY <1>6 DEF Event1
<1>11. FinishedIn(u) = FinishedIn(Told)
  BY <1>8, <1>10 DEF FinishedIn, Says
<1>12. CancelledIsFinal'
  <2>1. ASSUME NEW id \in CancelledIds
        PROVE  /\ EndsCancelled(u, id) /\ id \notin FinishedIn(u)
               /\ id \in files => id \in unremoved
    BY <1>8, <1>10, <1>11, IdsType DEF HandshakeInv, CancelledIsFinal
  <2>2. QED
    BY <2>1, <1>2, <1>4, <1>7 DEF CancelledIsFinal
<1>13. FileMeansFinished'
  BY <1>2, <1>7, <1>11 DEF FileMeansFinished, HandshakeInv
<1>14. RequestsStand'
  <2>1. ASSUME NEW x \in Event, Says(events', x), x.kind = "Requested"
        PROVE  x.of \in DOMAIN downloads' /\ ~downloads'[x.of].rejected
    <3>1. Says(events, x) /\ x # e
      BY <2>1, <1>9
    <3>2. x.of \in DOMAIN downloads /\ ~downloads[x.of].rejected
      BY <3>1, <2>1 DEF HandshakeInv, RequestsStand
    <3>3. x.of # token
      BY <3>1, <2>1 DEF e, Event, Event1
    <3>4. QED
      BY <3>2, <3>3, <1>3
  <2>2. QED
    BY <2>1 DEF RequestsStand
<1>15. AcceptedSpeak'
  BY <1>4, <1>7, <1>8 DEF HandshakeInv, AcceptedSpeak
<1>16. HandshakeTypeOK'
  <2>1. events' \in Seq(Event)
    BY <1>1, <1>2, <1>6, WithoutSays
  <2>2. QED
    BY <2>1, <1>2, <1>3 DEF HandshakeInv, HandshakeTypeOK
<1>17. (\A t \in DOMAIN downloads : downloads[t].cancelled => downloads[t].accepted # NoId)'
  BY <1>3 DEF HandshakeInv
<1>18. QED
  BY <1>12, <1>13, <1>14, <1>15, <1>16, <1>17 DEF HandshakeInv

LEMMA CancelInv ==
  ASSUME HandshakeInv, NEW id \in Ids, ShellCancels(id)
  PROVE  HandshakeInv'
<1> DEFINE e == Event1("Finished", id)
           c == Event1("Cancelled", id)
           more == <<c>>
           w == Without(events, e)
           u == heard \o w
<1>1. /\ downloads \in Seq(Download) /\ DOMAIN downloads = 1..Len(downloads)
      /\ \A t \in DOMAIN downloads : downloads[t] \in Download
      /\ heard \in Seq(Event) /\ events \in Seq(Event)
  BY DEF HandshakeInv, HandshakeTypeOK
<1>2. /\ id \in UsedIds \ CancelledIds /\ Heard(id) \cap Outcomes = {}
      /\ downloads' = [t \in DOMAIN downloads |->
           [downloads[t] EXCEPT !.cancelled = @ \/ downloads[t].accepted = id]]
      /\ heard' = heard /\ events' = Append(w, c) /\ unwritten' = unwritten
      /\ files' \subseteq files /\ files \subseteq files' \cup {id}
      /\ id \in files' => id \in unremoved'
      /\ unremoved \subseteq unremoved' /\ unremoved' \subseteq unremoved \cup {id}
  BY DEF ShellCancels, Cancel, RemoveFile
<1>3. /\ e \in Event /\ e.kind = "Finished" /\ e.of = id
      /\ c \in Event /\ c.kind = "Cancelled" /\ c.of = id
  BY EventType DEF Ids, Tokens, Outcomes
<1>4. \A x \in Ids : /\ Event1("Cancelled", x).kind = "Cancelled" /\ Event1("Cancelled", x).of = x
                     /\ Event1("Finished", x).kind = "Finished" /\ Event1("Finished", x).of = x
                     /\ Event1("Finished", x) \in Event /\ Event1("Cancelled", x) \in Event
  BY EventType DEF Ids, Tokens, Outcomes
<1>5. (e = Event1("Finished", id) /\ c = Event1("Cancelled", id)) /\ Len(more) = 1 /\ more[1] = c
      /\ DOMAIN more = {1}
  OBVIOUS
<1> HIDE DEF e, c
<1>6. more \in Seq(Event)
  BY <1>3
<1>7. /\ downloads' \in Seq(Download) /\ Len(downloads') = Len(downloads)
      /\ DOMAIN downloads' = DOMAIN downloads
      /\ \A t \in DOMAIN downloads : /\ downloads'[t].accepted = downloads[t].accepted
                                     /\ downloads'[t].rejected = downloads[t].rejected
                                     /\ downloads'[t].cancelled =
                                          (downloads[t].cancelled \/ downloads[t].accepted = id)
  <2>1. DOMAIN downloads' = DOMAIN downloads
    BY <1>2
  <2>2. \A t \in DOMAIN downloads :
          downloads'[t] = [downloads[t] EXCEPT !.cancelled = @ \/ downloads[t].accepted = id]
    BY <1>2
  <2>3. ASSUME NEW t \in DOMAIN downloads
        PROVE  /\ downloads'[t] \in Download
               /\ downloads'[t].accepted = downloads[t].accepted
               /\ downloads'[t].rejected = downloads[t].rejected
               /\ downloads'[t].cancelled = (downloads[t].cancelled \/ downloads[t].accepted = id)
    BY <1>1, <2>2 DEF Download
  <2>4. downloads' \in Seq(Download) /\ Len(downloads') = Len(downloads)
    <3>1. downloads' = [t \in 1..Len(downloads) |-> downloads'[t]]
      BY <1>1, <1>2
    <3>2. \A t \in 1..Len(downloads) : downloads'[t] \in Download
      BY <1>1, <2>3
    <3>3. QED
      BY <3>1, <3>2, <1>1
  <2>5. QED
    BY <2>1, <2>3, <2>4
<1>8. UsedIds' = UsedIds
  BY <1>7 DEF UsedIds
<1>9. CancelledIds' = CancelledIds \cup {id}
  <2>1. PICK d \in DOMAIN downloads : downloads[d].accepted = id
    BY <1>2 DEF UsedIds
  <2>2. QED
    <3>1. \A t \in DOMAIN downloads :
            /\ downloads'[t].accepted = downloads[t].accepted
            /\ downloads'[t].cancelled <=> downloads[t].cancelled \/ downloads[t].accepted = id
      BY <1>7
    <3>2. CancelledIds \subseteq CancelledIds' /\ id \in CancelledIds'
      BY <2>1, <3>1, <1>7 DEF CancelledIds
    <3>3. CancelledIds' \subseteq CancelledIds \cup {id}
      BY <3>1, <1>7 DEF CancelledIds
    <3>4. QED
      BY <3>2, <3>3
<1>10. w \in Seq(Event) /\ \A x : Says(w, x) <=> Says(events, x) /\ x # e
  BY <1>1, <1>3, WithoutSays
<1>11. u \in Seq(Event)
  BY <1>1, <1>10, ConcatProperties
<1>12. /\ \A x : Says(u, x) => Says(Told, x)
       /\ \A x : x # e /\ Says(Told, x) => Says(u, x)
       /\ Says(u, e) => Says(heard, e)
       /\ \A y \in Ids : e # Event1("Cancelled", y) /\ EndsCancelled(Told, y) => EndsCancelled(u, y)
  BY <1>1, <1>3, WithoutTells DEF Told
<1>13. ~Says(u, e)
  <2>1. ASSUME NEW i \in DOMAIN heard, heard[i] = e PROVE FALSE
    <3>1. "Finished" \in Heard(id)
      BY <2>1, <1>3 DEF Heard
    <3>2. QED
      BY <3>1, <1>2 DEF Outcomes
  <2>2. QED
    BY <2>1, <1>12 DEF Says
<1> HIDE DEF w
<1>14. events' = w \o more
  BY <1>2, <1>3, <1>10
<1>15. Told' = u \o more
  <2>1. (heard \o w) \o more = heard \o (w \o more)
    BY <1>1, <1>6, <1>10, ConcatAssociative
  <2>2. QED
    BY <2>1, <1>2, <1>14 DEF Told
<1> HIDE DEF u, more
<1>16. /\ \A x : Says(u \o more, x) <=> Says(u, x) \/ Says(more, x)
       /\ \A y \in Ids : Quiet(more, y) /\ EndsCancelled(u, y) => EndsCancelled(u \o more, y)
  BY <1>6, <1>11, AppendedTells
<1>17. \A x : Says(more, x) <=> x = c
  BY <1>5 DEF Says
<1>18. ASSUME NEW y \in CancelledIds
       PROVE  /\ EndsCancelled(u \o more, y) /\ y \notin FinishedIn(Told)
              /\ y \in files' => y \in unremoved'
  <2>1. /\ y \in Ids /\ EndsCancelled(Told, y) /\ y \notin FinishedIn(Told)
        /\ y \in files => y \in unremoved
    BY IdsType DEF HandshakeInv, CancelledIsFinal
  <2>2. e # Event1("Cancelled", y)
    BY <2>1, <1>3, <1>4
  <2>3. EndsCancelled(u, y)
    BY <2>1, <2>2, <1>12
  <2>4. Quiet(more, y)
    BY <1>2, <1>3, <1>5 DEF Quiet
  <2>5. EndsCancelled(u \o more, y)
    BY <2>1, <2>3, <2>4, <1>16
  <2>6. y \in files' => y \in unremoved'
    BY <2>1, <1>2
  <2>7. QED
    BY <2>1, <2>5, <2>6
<1>19. EndsCancelled(u \o more, id)
  <2> DEFINE v == u \o more
  <2>1. /\ v \in Seq(Event) /\ Len(v) = Len(u) + 1 /\ Len(v) \in Nat
        /\ v[Len(v)] = c
    <3>1. /\ Len(v) = Len(u) + 1
          /\ \A i \in 1..Len(v) : v[i] = IF i <= Len(u) THEN u[i] ELSE more[i - Len(u)]
          /\ v \in Seq(Event)
      BY <1>5, <1>6, <1>11, ConcatProperties
    <3> HIDE DEF v
    <3>2. Len(v) \in 1..Len(v) /\ ~(Len(v) <= Len(u)) /\ Len(v) - Len(u) = 1
      BY <3>1, <1>11
    <3>3. QED
      BY <3>1, <3>2, <1>5
  <2> HIDE DEF v
  <2>2. DOMAIN v = 1..Len(v) /\ Len(v) \in DOMAIN v
    <3>1. v # <<>>
      BY <2>1, <1>11
    <3>2. QED
      BY <3>1, <2>1
  <2>3. \A j \in DOMAIN v : ~(j > Len(v))
    BY <2>1, <2>2
  <2>4. QED
    BY <2>1, <2>2, <2>3, <1>5 DEF EndsCancelled, v
<1>20. FinishedIn(u \o more) = FinishedIn(Told) \ {id}
  <2>1. ASSUME NEW y \in Ids, y # id
        PROVE  Says(u \o more, Event1("Finished", y)) <=> Says(Told, Event1("Finished", y))
    <3>1. Event1("Finished", y) # e /\ Event1("Finished", y) # c
      BY <2>1, <1>3, <1>4
    <3>2. QED
      BY <3>1, <1>12, <1>16, <1>17
  <2>2. ~Says(u \o more, e)
    <3>1. e # c
      BY <1>3
    <3>2. QED
      BY <3>1, <1>13, <1>16, <1>17
  <2>3. \A told : FinishedIn(told) = {y \in Ids : Says(told, Event1("Finished", y))}
    BY DEF FinishedIn, Says
  <2>4. QED
    BY <2>1, <2>2, <2>3, <1>5
<1>21. CancelledIsFinal'
  BY <1>2, <1>9, <1>15, <1>18, <1>19, <1>20 DEF CancelledIsFinal
<1>22. FileMeansFinished'
  BY <1>2, <1>15, <1>20 DEF FileMeansFinished, HandshakeInv
<1>23. RequestsStand'
  <2>1. ASSUME NEW x \in Event, Says(events', x), x.kind = "Requested"
        PROVE  x.of \in DOMAIN downloads' /\ ~downloads'[x.of].rejected
    <3>1. \A y : Says(events', y) <=> Says(w, y) \/ Says(more, y)
      BY <1>6, <1>10, <1>14, AppendedTells
    <3>2. Says(events, x)
      BY <2>1, <3>1, <1>3, <1>10, <1>17
    <3>3. x.of \in DOMAIN downloads /\ ~downloads[x.of].rejected
      BY <3>2, <2>1 DEF HandshakeInv, RequestsStand
    <3>4. QED
      BY <3>3, <1>7
  <2>2. QED
    BY <2>1 DEF RequestsStand
<1>24. AcceptedSpeak'
  <2>1. ASSUME NEW x \in Event, Says(u \o more, x), x.kind # "Requested" PROVE x.of \in UsedIds
    <3>1. CASE x = c
      BY <3>1, <1>2, <1>3
    <3>2. CASE x # c
      BY <3>2, <2>1, <1>12, <1>16, <1>17 DEF HandshakeInv, AcceptedSpeak
    <3>3. QED
      BY <3>1, <3>2
  <2>2. QED
    BY <2>1, <1>8, <1>15 DEF AcceptedSpeak
<1>25. HandshakeTypeOK'
  <2>1. events' \in Seq(Event)
    BY <1>2, <1>3, <1>10
  <2>2. QED
    BY <2>1, <1>2, <1>7 DEF HandshakeInv, HandshakeTypeOK
<1>26. (\A t \in DOMAIN downloads : downloads[t].cancelled => downloads[t].accepted # NoId)'
  <2>1. id # NoId
    BY DownloadsAssumption DEF Ids
  <2>2. QED
    BY <2>1, <1>7 DEF HandshakeInv
<1>27. QED
  BY <1>21, <1>22, <1>23, <1>24, <1>25, <1>26 DEF HandshakeInv

LEMMA PollInv ==
  ASSUME HandshakeInv, Poll
  PROVE  HandshakeInv'
<1>1. /\ heard \in Seq(Event) /\ events \in Seq(Event) /\ events # <<>>
      /\ heard' = Append(heard, Head(events)) /\ events' = Tail(events)
      /\ downloads' = downloads /\ files' = files
      /\ unwritten' = unwritten /\ unremoved' = unremoved
  BY DEF HandshakeInv, HandshakeTypeOK, Poll, refusals
<1>2. Head(events) \in Event /\ events' \in Seq(Event) /\ heard' \in Seq(Event)
  BY <1>1
<1>3. events = <<Head(events)>> \o Tail(events)
  BY <1>1
<1>4. heard' = heard \o <<Head(events)>>
  BY <1>1, <1>2
<1>5. Told' = Told
  <2>1. <<Head(events)>> \in Seq(Event) /\ Tail(events) \in Seq(Event)
    BY <1>1, <1>2
  <2>2. (heard \o <<Head(events)>>) \o Tail(events) = heard \o (<<Head(events)>> \o Tail(events))
    BY <1>1, <2>1, ConcatAssociative
  <2>3. QED
    BY <2>2, <1>1, <1>3, <1>4 DEF Told
<1>6. \A x : Says(events', x) => Says(events, x)
  <2>1. ASSUME NEW i \in DOMAIN events' PROVE \E j \in DOMAIN events : events[j] = events'[i]
    <3>1. i + 1 \in DOMAIN events /\ events'[i] = events[i + 1]
      BY <1>1
    <3>2. QED
      BY <3>1
  <2>2. QED
    BY <2>1 DEF Says
<1>7. UsedIds' = UsedIds /\ CancelledIds' = CancelledIds
  BY <1>1 DEF UsedIds, CancelledIds
<1>8. CancelledIsFinal' /\ FileMeansFinished' /\ AcceptedSpeak'
  BY <1>1, <1>5, <1>7 DEF HandshakeInv, CancelledIsFinal, FileMeansFinished, AcceptedSpeak
<1>9. RequestsStand'
  BY <1>1, <1>6 DEF HandshakeInv, RequestsStand
<1>10. HandshakeTypeOK'
  BY <1>1, <1>2 DEF HandshakeInv, HandshakeTypeOK
<1>11. QED
  BY <1>1, <1>8, <1>9, <1>10 DEF HandshakeInv

LEMMA UnchangedInv == HandshakeInv /\ UNCHANGED handshakeVars => HandshakeInv'
BY DEF HandshakeInv, HandshakeTypeOK, RequestsStand, AcceptedSpeak, CancelledIsFinal,
       FileMeansFinished, handshakeVars, refusals, Told, UsedIds, CancelledIds

LEMMA HandshakeStep == HandshakeInv /\ [HandshakeNext]_handshakeVars => HandshakeInv'
<1> SUFFICES ASSUME HandshakeInv, [HandshakeNext]_handshakeVars PROVE HandshakeInv'
  OBVIOUS
<1>1. ASSUME NEW steps \in Scripts, Trigger(steps) PROVE HandshakeInv'
  BY <1>1, TriggerInv
<1>2. ASSUME NEW token \in DOMAIN downloads, ShellAnswers(token) PROVE HandshakeInv'
  <2>1. CASE Reject(token)
    BY <1>2, <2>1, RejectInv
  <2>2. ASSUME NEW id \in Ids \ UsedIds, Accept(token, id) PROVE HandshakeInv'
    <3>1. CASE Answered(token)
      BY <2>2, <3>1, UnchangedInv DEF Accept
    <3>2. CASE ~Answered(token)
      BY <1>2, <2>2, <3>2, AcceptInv
    <3>3. QED
      BY <3>1, <3>2
  <2>3. QED
    BY <1>2, <2>1, <2>2 DEF ShellAnswers
<1>3. ASSUME NEW id \in Ids, ShellCancels(id) PROVE HandshakeInv'
  BY <1>3, CancelInv
<1>4. ASSUME Poll PROVE HandshakeInv'
  BY <1>4, PollInv
<1>5. CASE UNCHANGED handshakeVars
  BY <1>5, UnchangedInv
<1>6. QED
  BY <1>1, <1>2, <1>3, <1>4, <1>5 DEF HandshakeNext

LEMMA HandshakeInvariant == HandshakeSpec => []HandshakeInv
<1>1. QED
  BY HandshakeInitInv, HandshakeStep, PTL DEF HandshakeSpec

(* A cancelled download is last told of as cancelled and never reported    *)
(* finished, and has a file only if the file system refused to remove it.  *)
THEOREM CancelledStaysFinal == HandshakeSpec => []CancelledIsFinal
<1>1. HandshakeInv => CancelledIsFinal
  BY DEF HandshakeInv
<1>2. QED
  BY <1>1, HandshakeInvariant, PTL

(* A file at a destination has its Finished, unless its cancellation could *)
(* not remove it; a Finished has its file, unless it could not be written. *)
THEOREM FilesAreFinished == HandshakeSpec => []FileMeansFinished
<1>1. HandshakeInv => FileMeansFinished
  BY DEF HandshakeInv
<1>2. QED
  BY <1>1, HandshakeInvariant, PTL

(* The shell hears of a download only its request before it accepts it, by *)
(* the one id it accepted it with afterwards, and the request no more once *)
(* it rejected it, whenever and however often it answers.                  *)
THEOREM OthersAreSilent == HandshakeSpec => []OnlyTheAcceptedSpeak
<1>1. HandshakeInv => OnlyTheAcceptedSpeak
  <2> SUFFICES ASSUME HandshakeInv PROVE OnlyTheAcceptedSpeak
    OBVIOUS
  <2>1. events \in Seq(Event) /\ Told \in Seq(Event)
    BY ToldType DEF HandshakeInv, HandshakeTypeOK
  <2>2. \A i \in DOMAIN events : events[i] \in Event /\ Says(events, events[i])
    BY <2>1 DEF Says
  <2>3. \A i \in DOMAIN Told : Told[i] \in Event /\ Says(Told, Told[i])
    BY <2>1 DEF Says
  <2>4. QED
    BY <2>2, <2>3 DEF HandshakeInv, RequestsStand, AcceptedSpeak, OnlyTheAcceptedSpeak
<1>2. QED
  BY <1>1, HandshakeInvariant, PTL

(* The handshake's variables keep their types.                             *)
THEOREM HandshakeTypes == HandshakeSpec => []HandshakeTypeOK
<1>1. HandshakeInv => HandshakeTypeOK
  BY DEF HandshakeInv
<1>2. QED
  BY <1>1, HandshakeInvariant, PTL
=============================================================================
