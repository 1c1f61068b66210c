---------------------------- MODULE Stores_proofs ----------------------------
(***************************************************************************)
(* That the stores the profile keeps hold what they should, for any        *)
(* number of rows and any file to begin with.                              *)
(*                                                                         *)
(* The bookmarks are a tree whatever is done with them, a batch's index    *)
(* says what a scan of the store would, and the file is the store.  Each   *)
(* operation is shown to make a sound tree of a sound one: a tree whose    *)
(* next ids are free.  The copy a batch keeps is as sound as what it is    *)
(* of, and is what the file holds while the batch runs, which makes taking *)
(* it back safe.                                                           *)
(*                                                                         *)
(* An import that fails leaves nothing behind, one that is repeated adds   *)
(* nothing, and what the user erased stays erased, in the file as well as  *)
(* in memory.  The invariant says whose rows the history holds and what    *)
(* the step of write_imported under way has written so far.                *)
(*                                                                         *)
(* What the address bar answers is the best it is offered: the map it is   *)
(* made with holds the best offer of each page met, and its sorted         *)
(* beginning leaves nothing better out.                                    *)
(***************************************************************************)
EXTENDS BookmarkStore, ProfileImport, FiniteSetTheorems, WellFoundedInduction, TLAPS

Sound(t) ==
  /\ t \in Tree
  /\ IsFiniteSet(t.folders) /\ IsFiniteSet(t.bookmarks)
  /\ IsTree(t)
  /\ \A f \in t.folders : f.id < t.nextFolder
  /\ \A b \in t.bookmarks : b.id < t.nextBookmark

IsSaved(t) == Rows(t) = Rows(Opened(disk))

BookmarkInv ==
  /\ TypeOK
  /\ Sound(tree)
  /\ batch # None => Sound(batch)
  /\ IndexIsTheStore
  /\ refused = 0 => IF batch = None THEN IsSaved(tree) ELSE IsSaved(batch)

(***************************************************************************)
(* Opening a file                                                          *)
(***************************************************************************)

LEMMA NatInductionOnSets ==
  ASSUME NEW S, 0 \in S, \A n \in Nat : n \in S => n + 1 \in S
  PROVE  Nat \subseteq S
<1> DEFINE T == Nat \ S
           R == OpToRel(<, Nat)
<1> SUFFICES ASSUME T # {} PROVE FALSE
  OBVIOUS
<1>1. PICK x \in T : \A y \in T : ~ (<<y, x>> \in R)
  BY NatLessThanWellFounded, WFMin
<1>2. x \in Nat /\ x # 0 /\ x - 1 \in Nat
  OBVIOUS
<1>3. <<x - 1, x>> \in R
  BY <1>2 DEF OpToRel
<1>4. x - 1 \in S
  BY <1>1, <1>2, <1>3
<1>5. (x - 1) + 1 = x
  BY <1>2
<1>6. QED
  BY <1>2, <1>4, <1>5

\* The library's Max of a bounded set is its greatest member.
LEMMA MaxOfBounded ==
  ASSUME NEW n \in Nat, NEW S, S \subseteq 0..n, S # {}
  PROVE  Max(S) \in S /\ \A x \in S : x <= Max(S)
<1> DEFINE Top == {m \in Nat : \A U \in SUBSET (0..m) : U # {} =>
                      \E x \in U : \A y \in U : y <= x}
<1>1. 0 \in Top
  <2> SUFFICES ASSUME NEW U \in SUBSET (0..0), U # {}
               PROVE  \E x \in U : \A y \in U : y <= x
    OBVIOUS
  <2>1. \A y \in U : y = 0
    OBVIOUS
  <2>2. PICK x \in U : TRUE
    OBVIOUS
  <2>3. QED
    BY <2>1, <2>2
<1>2. ASSUME NEW m \in Nat, m \in Top PROVE m + 1 \in Top
  <2> SUFFICES ASSUME NEW U \in SUBSET (0..(m + 1)), U # {}
               PROVE  \E x \in U : \A y \in U : y <= x
    BY <1>2
  <2>1. CASE m + 1 \in U
    BY <2>1
  <2>2. CASE m + 1 \notin U
    BY <1>2, <2>2
  <2>3. QED
    BY <2>1, <2>2
<1> HIDE DEF Top
<1>3. n \in Top
  BY <1>1, <1>2, NatInductionOnSets
<1>4. \E x \in S : \A y \in S : x >= y
  BY <1>3 DEF Top
<1>5. QED
  BY <1>4 DEF Max

\* Where every walk up ends at the root, every folder is below it.
LEMMA ValidIsTree ==
  ASSUME NEW t, t.folders \subseteq Folder, t.bookmarks \subseteq Bookmark, ValidTree(t)
  PROVE  IsTree(t)
<1>1. \A f \in t.folders : f.id \in FolderIds /\ f.parent \in FolderIds \cup {None}
  BY DEF Folder
<1>2. \A f \in t.folders : f.id = Root <=> f.parent = None
  <2>1. IdsOf(t.folders) \subseteq FolderIds /\ None \notin FolderIds
    BY <1>1, BookmarksAssumption DEF IdsOf, FolderIds
  <2>2. QED
    BY <2>1 DEF ValidTree
<1>3. ASSUME NEW held \in SUBSET FolderIds, Root \in held, ClosedDownwards(held, t.folders),
             NEW f \in t.folders, f.id \notin held
      PROVE  FALSE
  <2> DEFINE up == FolderIds \ held
  <2>1. f.id \in up /\ up \in SUBSET FolderIds /\ Root \notin up
    BY <1>1, <1>3
  <2>2. ClosedUpwards(up, t.folders)
    BY <1>1, <1>3 DEF ClosedUpwards, ClosedDownwards
  <2>3. Root \in Ancestry(t.folders, f.id)
    BY <1>3 DEF ValidTree
  <2>4. QED
    BY <2>1, <2>2, <2>3 DEF Ancestry
<1>4. QED
  BY <1>2, <1>3 DEF IsTree, ValidTree, IdsOf

LEMMA EmptySound == Sound(Empty)
<1>1. RootRow \in Folder /\ RootRow.id = Root /\ RootRow.parent = None
  BY BookmarksAssumption DEF RootRow, Folder, FolderIds, Root
<1>2. Empty \in Tree
  BY <1>1 DEF Empty, Tree
<1>3. Empty.folders = {RootRow} /\ Empty.bookmarks = {} /\ Empty.nextFolder = 1
  BY DEF Empty
<1>4. IsFiniteSet(Empty.folders) /\ IsFiniteSet(Empty.bookmarks)
  <2>1. IsFiniteSet({RootRow})
    BY FS_Singleton
  <2>2. IsFiniteSet({})
    BY FS_EmptySet
  <2>3. QED
    BY <1>3, <2>1, <2>2
<1>5. IsTree(Empty)
  BY <1>1, <1>3 DEF IsTree, OneEach, IdsOf
<1>6. QED
  BY <1>1, <1>2, <1>3, <1>4, <1>5 DEF Sound, Root

LEMMA OpenedSound ==
  ASSUME NEW listed, IsListing(listed.folders, Folder), IsListing(listed.bookmarks, Bookmark)
  PROVE  Sound(Opened(listed))
<1> DEFINE rows == [folders |-> FolderRows(listed), bookmarks |-> DOMAIN listed.bookmarks]
           t == [folders |-> rows.folders, bookmarks |-> rows.bookmarks,
                 nextFolder |-> Max(IdsOf(rows.folders)) + 1,
                 nextBookmark |-> Max(IdsOf(rows.bookmarks) \cup {0}) + 1]
<1>1. CASE Readable(listed) /\ ~Repeats(listed.folders) /\ ~Repeats(listed.bookmarks) /\ ValidTree(rows)
  <2>1. Opened(listed) = t
    BY <1>1 DEF Opened
  <2>2. rows.folders \subseteq Folder /\ IsFiniteSet(rows.folders)
    <3>1. RootRow \in Folder
      BY BookmarksAssumption DEF RootRow, Folder, FolderIds, Root
    <3>2. QED
      BY <3>1, FS_AddElement DEF FolderRows, IsListing
  <2>3. rows.bookmarks \subseteq Bookmark /\ IsFiniteSet(rows.bookmarks)
    BY DEF IsListing
  <2>4. IsTree(rows)
    BY <1>1, <2>2, <2>3, ValidIsTree
  <2> HIDE DEF rows
  <2>5. IdsOf(rows.folders) \subseteq 0..MaxFolder /\ IdsOf(rows.folders) # {}
    BY <2>2, <2>4 DEF IdsOf, Folder, FolderIds, IsTree
  <2>6. IdsOf(rows.bookmarks) \cup {0} \subseteq 0..MaxBookmark /\ IdsOf(rows.bookmarks) \cup {0} # {}
    BY <2>3, BookmarksAssumption DEF IdsOf, Bookmark, BookmarkIds
  <2>7. MaxFolder \in Nat /\ MaxBookmark \in Nat
    BY BookmarksAssumption
  <2>8. /\ Max(IdsOf(rows.folders)) \in IdsOf(rows.folders)
        /\ \A x \in IdsOf(rows.folders) : x <= Max(IdsOf(rows.folders))
    BY <2>5, <2>7, MaxOfBounded
  <2>9. /\ Max(IdsOf(rows.bookmarks) \cup {0}) \in IdsOf(rows.bookmarks) \cup {0}
        /\ \A x \in IdsOf(rows.bookmarks) \cup {0} : x <= Max(IdsOf(rows.bookmarks) \cup {0})
    BY <2>6, <2>7, MaxOfBounded
  <2>10. Max(IdsOf(rows.folders)) \in Nat /\ Max(IdsOf(rows.bookmarks) \cup {0}) \in Nat
    BY <2>5, <2>6, <2>8, <2>9
  <2>11. t \in Tree
    BY <2>2, <2>3, <2>10 DEF Tree
  <2>12. /\ t.folders = rows.folders /\ t.bookmarks = rows.bookmarks
         /\ t.nextFolder = Max(IdsOf(rows.folders)) + 1
         /\ t.nextBookmark = Max(IdsOf(rows.bookmarks) \cup {0}) + 1
    OBVIOUS
  <2> HIDE DEF t
  <2>13. IsTree(t)
    BY <2>4, <2>12 DEF IsTree
  <2>14. \A f \in t.folders : f.id \in IdsOf(rows.folders) /\ f.id \in Nat
    BY <2>5, <2>12 DEF IdsOf
  <2>15. \A b \in t.bookmarks : b.id \in IdsOf(rows.bookmarks) \cup {0} /\ b.id \in Nat
    BY <2>6, <2>12 DEF IdsOf
  <2>16. \A f \in t.folders : f.id < t.nextFolder
    BY <2>8, <2>10, <2>12, <2>14
  <2>17. ASSUME NEW b \in t.bookmarks PROVE b.id < t.nextBookmark
    <3> DEFINE max == Max(IdsOf(rows.bookmarks) \cup {0})
    <3>1. b.id <= max /\ b.id \in Nat /\ max \in Nat /\ t.nextBookmark = max + 1
      BY <2>9, <2>10, <2>12, <2>15
    <3> HIDE DEF max
    <3>2. QED
      BY <3>1
  <2>18. QED
    BY <2>1, <2>2, <2>3, <2>11, <2>12, <2>13, <2>16, <2>17 DEF Sound
<1>2. CASE ~(Readable(listed) /\ ~Repeats(listed.folders) /\ ~Repeats(listed.bookmarks) /\ ValidTree(rows))
  <2>1. Opened(listed) = Empty
    BY <1>2 DEF Opened
  <2>2. QED
    BY <2>1, EmptySound
<1>3. QED
  BY <1>1, <1>2

\* What was written is read back.
LEMMA WrittenIsReadBack ==
  ASSUME NEW t, Sound(t), ValidTree(t)
  PROVE  /\ Rows(Opened(Rows(t))) = Rows(t)
         /\ IsListing(Rows(t).folders, Folder) /\ IsListing(Rows(t).bookmarks, Bookmark)
<1> DEFINE listed == Rows(t)
           rows == [folders |-> FolderRows(listed), bookmarks |-> DOMAIN listed.bookmarks]
<1>1. /\ listed.folders = [r \in t.folders |-> 1] /\ listed.bookmarks = [r \in t.bookmarks |-> 1]
      /\ DOMAIN listed.folders = t.folders /\ DOMAIN listed.bookmarks = t.bookmarks
  BY DEF Rows, Listed
<1> HIDE DEF listed
<1>2. rows.folders = t.folders /\ rows.bookmarks = t.bookmarks
  BY <1>1 DEF FolderRows, ValidTree
<1>3. ~Repeats(listed.folders) /\ ~Repeats(listed.bookmarks)
  BY <1>1 DEF Repeats
<1>4. Readable(listed)
  <2>1. \A f \in t.folders : f.id # None
    BY BookmarksAssumption DEF Sound, Tree, Folder, FolderIds
  <2>2. QED
    BY <2>1, <1>1 DEF Readable, ValidTree, IdsOf
<1>5. ValidTree(rows)
  BY <1>2 DEF ValidTree
<1>6. Opened(listed).folders = t.folders /\ Opened(listed).bookmarks = t.bookmarks
  BY <1>2, <1>3, <1>4, <1>5 DEF Opened
<1>7. Rows(Opened(listed)) = Rows(t)
  BY <1>6 DEF Rows
<1>8. QED
  BY <1>1, <1>7 DEF Sound, Tree, IsListing, listed

(***************************************************************************)
(* What the operations make of a sound tree                                *)
(***************************************************************************)

AddedFolder(t, f) == [t EXCEPT !.nextFolder = f.id + 1, !.folders = @ \cup {f}]
AddedBookmark(t, b) == [t EXCEPT !.nextBookmark = b.id + 1, !.bookmarks = @ \cup {b}]
WithFolders(t, rows) == [t EXCEPT !.folders = rows]
WithBookmarks(t, rows) == [t EXCEPT !.bookmarks = rows]
WithRows(t, rows, marks) == [t EXCEPT !.folders = rows, !.bookmarks = marks]

LEMMA RowTypes ==
  ASSUME NEW t, Sound(t)
  PROVE  /\ \A f \in t.folders : /\ f.id \in FolderIds /\ f.position \in Nat
                                 /\ f.parent \in FolderIds \cup {None}
         /\ \A b \in t.bookmarks : /\ b.id \in BookmarkIds /\ b.position \in Nat
                                   /\ b.parent \in FolderIds
         /\ IdsOf(t.folders) \subseteq FolderIds
         /\ None \notin FolderIds
         /\ t.nextFolder \in Nat \ {0} /\ t.nextBookmark \in Nat \ {0}
<1>1. \A f \in t.folders : /\ f.id \in FolderIds /\ f.position \in Nat
                           /\ f.parent \in FolderIds \cup {None}
  BY DEF Sound, Tree, Folder
<1>2. IdsOf(t.folders) \subseteq FolderIds
  BY <1>1 DEF IdsOf
<1>3. \A b \in t.bookmarks : b.id \in BookmarkIds /\ b.position \in Nat
  BY DEF Sound, Tree, Bookmark
<1>4. \A b \in t.bookmarks : b.parent \in FolderIds
  BY <1>2 DEF Sound, IsTree
<1>5. QED
  BY <1>1, <1>2, <1>3, <1>4, BookmarksAssumption DEF Sound, Tree, FolderIds

LEMMA AddedFolderSound ==
  ASSUME NEW t, Sound(t), NEW parent \in IdsOf(t.folders), NEW position \in Nat,
         t.nextFolder <= MaxFolder
  PROVE  LET f == [id |-> t.nextFolder, parent |-> parent, position |-> position]
         IN Sound(AddedFolder(t, f)) /\ f \notin t.folders
<1> DEFINE f == [id |-> t.nextFolder, parent |-> parent, position |-> position]
           u == AddedFolder(t, f)
<1>1. /\ f.id = t.nextFolder /\ f.parent = parent /\ f \in Folder /\ f.id \in FolderIds
      /\ f.id \in Nat /\ f.id # Root /\ parent \in FolderIds /\ parent # None
  <2>1. parent \in FolderIds /\ parent # None /\ t.nextFolder \in Nat
    BY RowTypes
  <2>2. t.nextFolder # Root
    BY <2>1, RowTypes DEF Sound, IsTree, IdsOf, Root, FolderIds
  <2>3. QED
    BY <2>1, <2>2, BookmarksAssumption DEF Folder, FolderIds
<1> HIDE DEF f
<1>2. /\ u \in Tree /\ u.folders = t.folders \cup {f} /\ u.bookmarks = t.bookmarks
      /\ u.nextFolder = f.id + 1 /\ u.nextBookmark = t.nextBookmark
  <2>1. /\ u = [t EXCEPT !.nextFolder = f.id + 1, !.folders = t.folders \cup {f}]
        /\ t \in Tree /\ t.folders \cup {f} \in SUBSET Folder /\ f.id + 1 \in Nat \ {0}
    BY <1>1 DEF AddedFolder, Sound, Tree
  <2>2. QED
    BY <2>1 DEF Tree
<1> HIDE DEF u
<1>3. \A g \in t.folders : g.id \in Nat /\ g.id < f.id
  BY <1>1, RowTypes DEF Sound, FolderIds
<1>4. f \notin t.folders /\ \A g \in t.folders : g.id # f.id
  BY <1>1, <1>3
<1>5. OneEach(u.folders) /\ OneEach(u.bookmarks)
  BY <1>2, <1>4 DEF Sound, IsTree, OneEach
<1>6. IdsOf(u.folders) = IdsOf(t.folders) \cup {f.id}
  BY <1>2 DEF IdsOf
<1>7. \A g \in u.folders : g.id = Root <=> g.parent = None
  BY <1>1, <1>2 DEF Sound, IsTree
<1>8. ASSUME NEW held \in SUBSET FolderIds, Root \in held, ClosedDownwards(held, u.folders)
      PROVE  IdsOf(u.folders) \subseteq held
  <2>1. ClosedDownwards(held, t.folders)
    BY <1>2, <1>8 DEF ClosedDownwards
  <2>2. IdsOf(t.folders) \subseteq held
    BY <1>8, <2>1 DEF Sound, IsTree
  <2>3. f.id \in held
    BY <1>1, <1>2, <1>8, <2>2 DEF ClosedDownwards
  <2>4. QED
    BY <1>6, <2>2, <2>3
<1>9. IsTree(u)
  BY <1>2, <1>5, <1>6, <1>7, <1>8 DEF Sound, IsTree
<1>10. IsFiniteSet(u.folders)
  BY <1>2, FS_AddElement DEF Sound
<1>11. \A g \in u.folders : g.id < u.nextFolder
  BY <1>1, <1>2, <1>3
<1>12. Sound(u)
  BY <1>2, <1>9, <1>10, <1>11 DEF Sound
<1>13. QED
  BY <1>4, <1>12 DEF u, f

LEMMA AddedBookmarkSound ==
  ASSUME NEW t, Sound(t), NEW parent \in IdsOf(t.folders), NEW position \in Nat,
         t.nextBookmark <= MaxBookmark
  PROVE  LET b == [id |-> t.nextBookmark, parent |-> parent, position |-> position]
         IN Sound(AddedBookmark(t, b)) /\ b \notin t.bookmarks
<1> DEFINE b == [id |-> t.nextBookmark, parent |-> parent, position |-> position]
           u == AddedBookmark(t, b)
<1>1. b.id = t.nextBookmark /\ b.parent = parent /\ b \in Bookmark /\ b.id \in Nat /\ parent \in FolderIds
  BY RowTypes, BookmarksAssumption DEF Bookmark, BookmarkIds
<1> HIDE DEF b
<1>2. \A c \in t.bookmarks : c.id \in Nat /\ c.id < b.id
  BY <1>1, RowTypes DEF Sound, BookmarkIds
<1>3. b \notin t.bookmarks /\ \A c \in t.bookmarks : c.id # b.id
  BY <1>1, <1>2
<1>4. /\ u \in Tree /\ u.bookmarks = t.bookmarks \cup {b} /\ u.folders = t.folders
      /\ u.nextBookmark = b.id + 1 /\ u.nextFolder = t.nextFolder
  <2>1. /\ u = [t EXCEPT !.nextBookmark = b.id + 1, !.bookmarks = t.bookmarks \cup {b}]
        /\ t \in Tree /\ t.bookmarks \cup {b} \in SUBSET Bookmark /\ b.id + 1 \in Nat \ {0}
    BY <1>1 DEF AddedBookmark, Sound, Tree
  <2>2. QED
    BY <2>1 DEF Tree
<1> HIDE DEF u
<1>5. OneEach(u.bookmarks)
  BY <1>3, <1>4 DEF Sound, IsTree, OneEach
<1>6. IsTree(u)
  BY <1>1, <1>4, <1>5 DEF Sound, IsTree
<1>7. IsFiniteSet(u.bookmarks)
  BY <1>4, FS_AddElement DEF Sound
<1>8. \A c \in u.bookmarks : c.id < u.nextBookmark
  BY <1>1, <1>2, <1>4
<1>9. Sound(u)
  BY <1>4, <1>6, <1>7, <1>8 DEF Sound
<1>10. QED
  BY <1>3, <1>9 DEF u, b

\* What a row becomes when it is moved.
MovedRow(rows, r, parent) ==
  [r EXCEPT !.parent = parent, !.position = Cardinality(ChildrenOf(rows, parent))]

LEMMA MovedRows ==
  ASSUME NEW rows, IsFiniteSet(rows), OneEach(rows), NEW r \in rows, NEW parent
  PROVE  /\ Moved(rows, r.id, parent) = (rows \ {r}) \cup {MovedRow(rows, r, parent)}
         /\ IsFiniteSet(Moved(rows, r.id, parent))
         /\ Cardinality(ChildrenOf(rows, parent)) \in Nat
<1>1. \A q \in rows : q.id = r.id <=> q = r
  BY DEF OneEach
<1>2. Moved(rows, r.id, parent) = (rows \ {r}) \cup {MovedRow(rows, r, parent)}
  BY <1>1 DEF Moved, MovedRow
<1>3. IsFiniteSet(rows \ {r})
  BY FS_RemoveElement
<1>4. IsFiniteSet((rows \ {r}) \cup {MovedRow(rows, r, parent)})
  BY <1>3, FS_AddElement
<1>5. ChildrenOf(rows, parent) \in SUBSET rows
  BY DEF ChildrenOf
<1>6. IsFiniteSet(ChildrenOf(rows, parent))
  BY <1>5, FS_Subset
<1>7. Cardinality(ChildrenOf(rows, parent)) \in Nat
  BY <1>6, FS_CardinalityType
<1>8. QED
  BY <1>2, <1>4, <1>7

\* A folder goes nowhere below itself, so a way from the root to where it goes
\* does not lead through it.
LEMMA MovedFolderSound ==
  ASSUME NEW t, Sound(t), NEW r \in t.folders, NEW parent \in IdsOf(t.folders),
         r.id # Root, r.id \notin Ancestry(t.folders, parent)
  PROVE  Sound(WithFolders(t, Moved(t.folders, r.id, parent)))
<1> DEFINE rows == Moved(t.folders, r.id, parent)
           m == MovedRow(t.folders, r, parent)
           u == WithFolders(t, rows)
           way == Ancestry(t.folders, parent)
<1>1. /\ rows = (t.folders \ {r}) \cup {m} /\ IsFiniteSet(rows)
      /\ Cardinality(ChildrenOf(t.folders, parent)) \in Nat
  BY MovedRows DEF Sound, IsTree
<1>2. r \in Folder /\ r.id \in FolderIds /\ parent \in FolderIds /\ parent # None
  BY RowTypes DEF Sound, Tree
<1>3. m.id = r.id /\ m.parent = parent /\ m \in Folder
  BY <1>1, <1>2 DEF MovedRow, Folder
<1> HIDE DEF m, rows
<1>4. /\ u \in Tree /\ u.folders = rows /\ u.bookmarks = t.bookmarks
      /\ u.nextFolder = t.nextFolder /\ u.nextBookmark = t.nextBookmark
  <2>1. u = [t EXCEPT !.folders = rows] /\ t \in Tree /\ rows \in SUBSET Folder
    BY <1>1, <1>3 DEF WithFolders, Sound, Tree
  <2>2. QED
    BY <2>1 DEF Tree
<1> HIDE DEF u
<1>5. \A f \in t.folders : f.id = r.id => f = r
  BY DEF Sound, IsTree, OneEach
<1>6. IdsOf(rows) = IdsOf(t.folders)
  BY <1>1, <1>3 DEF IdsOf
<1>7. OneEach(rows)
  BY <1>1, <1>3, <1>5 DEF Sound, IsTree, OneEach
<1>8. \A f \in rows : f.id = Root <=> f.parent = None
  BY <1>1, <1>2, <1>3 DEF Sound, IsTree
<1>9. /\ way \subseteq FolderIds /\ parent \in way /\ r.id \notin way
      /\ ClosedUpwards(way, t.folders)
  <2>1. ASSUME NEW f \in t.folders, f.id \in way, f.parent # None PROVE f.parent \in way
    <3>1. f.parent \in FolderIds
      BY <2>1, RowTypes
    <3>2. ASSUME NEW held \in SUBSET FolderIds, parent \in held, ClosedUpwards(held, t.folders)
          PROVE  f.parent \in held
      BY <2>1, <3>2 DEF Ancestry, ClosedUpwards
    <3>3. QED
      BY <3>1, <3>2 DEF Ancestry
  <2>2. QED
    BY <2>1, <1>2 DEF Ancestry, ClosedUpwards
<1> HIDE DEF way
<1>10. ASSUME NEW held \in SUBSET FolderIds, Root \in held, ClosedDownwards(held, rows)
       PROVE  IdsOf(rows) \subseteq held
  <2> DEFINE wide == held \cup (FolderIds \ way)
  <2>1. ASSUME NEW f \in t.folders, f.parent \in wide PROVE f.id \in wide
    <3>1. f.id \in FolderIds
      BY RowTypes
    <3>2. CASE f.id \in way
      <4>1. f # r /\ f \in rows /\ f.parent \in way
        <5>1. f.parent # None
          BY <2>1, <1>10, RowTypes
        <5>2. QED
          BY <3>2, <5>1, <1>1, <1>9 DEF ClosedUpwards
      <4>2. QED
        BY <4>1, <2>1, <1>10 DEF ClosedDownwards
    <3>3. QED
      BY <3>1, <3>2
  <2>2. IdsOf(t.folders) \subseteq wide
    BY <2>1, <1>10 DEF Sound, IsTree, ClosedDownwards
  <2>3. parent \in held
    BY <2>2, <1>9
  <2>4. ASSUME NEW f \in t.folders, f.parent \in held PROVE f.id \in held
    <3>1. CASE f = r
      BY <3>1, <2>3, <1>1, <1>3, <1>10 DEF ClosedDownwards
    <3>2. CASE f # r
      BY <3>2, <2>4, <1>1, <1>10 DEF ClosedDownwards
    <3>3. QED
      BY <3>1, <3>2
  <2>5. IdsOf(t.folders) \subseteq held
    BY <2>4, <1>10 DEF Sound, IsTree, ClosedDownwards
  <2>6. QED
    BY <2>5, <1>6
<1>11. IsTree(u)
  BY <1>4, <1>6, <1>7, <1>8, <1>10 DEF Sound, IsTree
<1>12. \A f \in rows : f.id < t.nextFolder
  BY <1>1, <1>3 DEF Sound
<1>13. Sound(u)
  BY <1>1, <1>4, <1>11, <1>12 DEF Sound
<1>14. QED
  BY <1>13 DEF u, rows

LEMMA MovedBookmarkSound ==
  ASSUME NEW t, Sound(t), NEW r \in t.bookmarks, NEW parent \in IdsOf(t.folders)
  PROVE  Sound(WithBookmarks(t, Moved(t.bookmarks, r.id, parent)))
<1> DEFINE rows == Moved(t.bookmarks, r.id, parent)
           m == MovedRow(t.bookmarks, r, parent)
           u == WithBookmarks(t, rows)
<1>1. /\ rows = (t.bookmarks \ {r}) \cup {m} /\ IsFiniteSet(rows)
      /\ Cardinality(ChildrenOf(t.bookmarks, parent)) \in Nat
  BY MovedRows DEF Sound, IsTree
<1>2. r \in Bookmark /\ parent \in FolderIds
  BY RowTypes DEF Sound, Tree
<1>3. m.id = r.id /\ m.parent = parent /\ m \in Bookmark
  BY <1>1, <1>2 DEF MovedRow, Bookmark
<1> HIDE DEF m, rows
<1>4. /\ u \in Tree /\ u.bookmarks = rows /\ u.folders = t.folders
      /\ u.nextFolder = t.nextFolder /\ u.nextBookmark = t.nextBookmark
  <2>1. u = [t EXCEPT !.bookmarks = rows] /\ t \in Tree /\ rows \in SUBSET Bookmark
    BY <1>1, <1>3 DEF WithBookmarks, Sound, Tree
  <2>2. QED
    BY <2>1 DEF Tree
<1> HIDE DEF u
<1>5. OneEach(rows)
  BY <1>1, <1>3 DEF Sound, IsTree, OneEach
<1>6. {b.parent : b \in rows} \subseteq IdsOf(t.folders)
  BY <1>1, <1>3 DEF Sound, IsTree
<1>7. IsTree(u)
  BY <1>4, <1>5, <1>6 DEF Sound, IsTree
<1>8. \A b \in rows : b.id < t.nextBookmark
  BY <1>1, <1>3 DEF Sound
<1>9. Sound(u)
  BY <1>1, <1>4, <1>7, <1>8 DEF Sound
<1>10. QED
  BY <1>9 DEF u, rows

LEMMA FewerBookmarksSound ==
  ASSUME NEW t, Sound(t), NEW rows \in SUBSET t.bookmarks
  PROVE  Sound(WithBookmarks(t, rows))
<1> DEFINE u == WithBookmarks(t, rows)
<1>1. /\ u \in Tree /\ u.bookmarks = rows /\ u.folders = t.folders
      /\ u.nextFolder = t.nextFolder /\ u.nextBookmark = t.nextBookmark
  <2>1. u = [t EXCEPT !.bookmarks = rows] /\ t \in Tree /\ rows \in SUBSET Bookmark
    BY DEF WithBookmarks, Sound, Tree
  <2>2. QED
    BY <2>1 DEF Tree
<1> HIDE DEF u
<1>2. IsTree(u)
  BY <1>1 DEF Sound, IsTree, OneEach
<1>3. IsFiniteSet(rows)
  BY FS_Subset DEF Sound
<1>4. QED
  BY <1>1, <1>2, <1>3 DEF Sound, u

\* What goes with a folder is all that is in it, so nothing left is in what went.
LEMMA DeletedFolderSound ==
  ASSUME NEW t, Sound(t), NEW id \in IdsOf(t.folders) \ {Root}
  PROVE  LET gone == Subtree(t.folders, id)
         IN Sound(WithRows(t, {f \in t.folders : f.id \notin gone},
                              {b \in t.bookmarks : b.parent \notin gone}))
<1> DEFINE gone == Subtree(t.folders, id)
           left == {f \in t.folders : f.id \notin gone}
           marks == {b \in t.bookmarks : b.parent \notin gone}
           u == WithRows(t, left, marks)
<1>1. /\ u \in Tree /\ u.folders = left /\ u.bookmarks = marks
      /\ u.nextFolder = t.nextFolder /\ u.nextBookmark = t.nextBookmark
  <2>1. /\ u = [t EXCEPT !.folders = left, !.bookmarks = marks] /\ t \in Tree
        /\ left \in SUBSET Folder /\ marks \in SUBSET Bookmark
    BY DEF WithRows, Sound, Tree
  <2> HIDE DEF u, left, marks
  <2>2. QED
    BY <2>1 DEF Tree
<1> HIDE DEF u
<1>2. id \in FolderIds /\ id # Root
  BY RowTypes
<1>3. gone \subseteq FolderIds /\ ClosedDownwards(gone, t.folders)
  <2>1. ASSUME NEW f \in t.folders, f.parent \in gone PROVE f.id \in gone
    <3>1. f.id \in FolderIds
      BY RowTypes
    <3>2. ASSUME NEW held \in SUBSET FolderIds, id \in held, ClosedDownwards(held, t.folders)
          PROVE  f.id \in held
      BY <2>1, <3>2 DEF Subtree, ClosedDownwards
    <3>3. QED
      BY <3>1, <3>2 DEF Subtree
  <2>2. QED
    BY <2>1 DEF Subtree, ClosedDownwards
<1>4. Root \notin gone
  <2> DEFINE held == FolderIds \ {Root}
  <2>1. ClosedDownwards(held, t.folders)
    BY RowTypes DEF ClosedDownwards, Sound, IsTree
  <2>2. held \in SUBSET FolderIds /\ id \in held /\ Root \notin held
    BY <1>2
  <2>3. QED
    BY <2>1, <2>2 DEF Subtree
<1> HIDE DEF gone
<1>5. ASSUME NEW held \in SUBSET FolderIds, Root \in held, ClosedDownwards(held, left)
      PROVE  IdsOf(left) \subseteq held
  <2> DEFINE wide == held \cup gone
  <2>1. ASSUME NEW f \in t.folders, f.parent \in wide PROVE f.id \in wide
    <3>1. CASE f.id \in gone
      BY <3>1
    <3>2. CASE f.id \notin gone
      <4>1. f \in left /\ f.parent \in held
        BY <3>2, <2>1, <1>3 DEF ClosedDownwards
      <4>2. QED
        BY <4>1, <1>5 DEF ClosedDownwards
    <3>3. QED
      BY <3>1, <3>2
  <2>2. IdsOf(t.folders) \subseteq wide
    BY <2>1, <1>3, <1>5 DEF Sound, IsTree, ClosedDownwards
  <2>3. QED
    BY <2>2 DEF IdsOf
<1>6. Root \in IdsOf(left)
  BY <1>4 DEF Sound, IsTree, IdsOf
<1>7. {b.parent : b \in marks} \subseteq IdsOf(left)
  BY DEF Sound, IsTree, IdsOf
<1>8. OneEach(left) /\ OneEach(marks) /\ \A f \in left : f.id = Root <=> f.parent = None
  BY DEF Sound, IsTree, OneEach
<1>9. IsTree(u)
  BY <1>1, <1>5, <1>6, <1>7, <1>8 DEF IsTree
<1>10. IsFiniteSet(left) /\ IsFiniteSet(marks)
  BY FS_Subset DEF Sound
<1>11. QED
  BY <1>1, <1>9, <1>10 DEF Sound, u, gone

(***************************************************************************)
(* The index of a batch                                                    *)
(***************************************************************************)

LEMMA ChildCounts ==
  ASSUME NEW rows, IsFiniteSet(rows), NEW r, r \notin rows, NEW parent
  PROVE  /\ Cardinality(ChildrenOf(rows, parent)) \in Nat
         /\ Cardinality(ChildrenOf(rows \cup {r}, parent)) =
              IF r.parent = parent THEN Cardinality(ChildrenOf(rows, parent)) + 1
              ELSE Cardinality(ChildrenOf(rows, parent))
<1> DEFINE children == ChildrenOf(rows, parent)
<1>1. children \in SUBSET rows /\ r \notin children
  BY DEF ChildrenOf
<1>2. ChildrenOf(rows \cup {r}, parent) = IF r.parent = parent THEN children \cup {r} ELSE children
  BY DEF ChildrenOf
<1> HIDE DEF children
<1>3. IsFiniteSet(children)
  BY <1>1, FS_Subset
<1>4. Cardinality(children) \in Nat
  BY <1>3, FS_CardinalityType
<1>5. Cardinality(children \cup {r}) = Cardinality(children) + 1
  BY <1>1, <1>3, FS_AddElement
<1>6. QED
  BY <1>2, <1>4, <1>5 DEF children

LEMMA IndexType ==
  ASSUME NEW t, Sound(t)
  PROVE  BuiltIndex(t) \in BatchIndex
<1>1. \A f \in FolderIds : /\ Cardinality(ChildrenOf(t.folders, f)) \in Nat
                           /\ Cardinality(ChildrenOf(t.bookmarks, f)) \in Nat
  <2> SUFFICES ASSUME NEW f \in FolderIds
               PROVE  /\ Cardinality(ChildrenOf(t.folders, f)) \in Nat
                      /\ Cardinality(ChildrenOf(t.bookmarks, f)) \in Nat
    OBVIOUS
  <2>1. ChildrenOf(t.folders, f) \in SUBSET t.folders /\ ChildrenOf(t.bookmarks, f) \in SUBSET t.bookmarks
    BY DEF ChildrenOf
  <2>2. IsFiniteSet(ChildrenOf(t.folders, f)) /\ IsFiniteSet(ChildrenOf(t.bookmarks, f))
    BY <2>1, FS_Subset DEF Sound
  <2>3. QED
    BY <2>2, FS_CardinalityType
<1>2. QED
  BY <1>1, RowTypes DEF BuiltIndex, BatchIndex

\* The index after a folder was created is the one that would be built then.
LEMMA FolderCounted ==
  ASSUME NEW t, Sound(t), NEW f, f \notin t.folders, f.parent \in FolderIds
  PROVE  BuiltIndex(AddedFolder(t, f)) =
           [BuiltIndex(t) EXCEPT !.folders = @ \cup {f.id}, !.childFolders[f.parent] = @ + 1]
<1> DEFINE u == AddedFolder(t, f)
           b == BuiltIndex(t)
<1>1. u.folders = t.folders \cup {f} /\ u.bookmarks = t.bookmarks
  BY DEF AddedFolder, Sound, Tree
<1>2. IdsOf(u.folders) = IdsOf(t.folders) \cup {f.id}
  BY <1>1 DEF IdsOf
<1>3. \A p \in FolderIds : Cardinality(ChildrenOf(u.folders, p)) =
        IF p = f.parent THEN Cardinality(ChildrenOf(t.folders, p)) + 1
        ELSE Cardinality(ChildrenOf(t.folders, p))
  BY <1>1, ChildCounts DEF Sound
<1>4. /\ b.folders = IdsOf(t.folders)
      /\ b.childFolders = [p \in FolderIds |-> Cardinality(ChildrenOf(t.folders, p))]
      /\ b.childBookmarks = [p \in FolderIds |-> Cardinality(ChildrenOf(t.bookmarks, p))]
      /\ b = [folders |-> b.folders, childFolders |-> b.childFolders,
              childBookmarks |-> b.childBookmarks]
  BY DEF BuiltIndex
<1> HIDE DEF u, b
<1>5. [p \in FolderIds |-> Cardinality(ChildrenOf(u.folders, p))] =
        [b.childFolders EXCEPT ![f.parent] = @ + 1]
  BY <1>3, <1>4
<1>6. [b EXCEPT !.folders = @ \cup {f.id}, !.childFolders[f.parent] = @ + 1] =
        [folders |-> IdsOf(t.folders) \cup {f.id},
         childFolders |-> [b.childFolders EXCEPT ![f.parent] = @ + 1],
         childBookmarks |-> b.childBookmarks]
  <2> DEFINE ids == IdsOf(t.folders) \cup {f.id}
             counts == [b.childFolders EXCEPT ![f.parent] = @ + 1]
             left == [b EXCEPT !.folders = ids, !.childFolders = counts]
             right == [folders |-> ids, childFolders |-> counts, childBookmarks |-> b.childBookmarks]
  <2>1. DOMAIN b = {"folders", "childFolders", "childBookmarks"}
    BY <1>4
  <2>2. left.folders = ids /\ left.childFolders = counts /\ left.childBookmarks = b.childBookmarks
    BY <2>1
  <2> HIDE DEF ids, counts
  <2>3. DOMAIN left = {"folders", "childFolders", "childBookmarks"}
    BY <2>1
  <2>4. left = right
    <3>1. left = [x \in {"folders", "childFolders", "childBookmarks"} |-> left[x]]
      BY <2>3
    <3> HIDE DEF left
    <3>2. QED
      BY <3>1, <2>2
  <2>5. QED
    BY <1>4, <2>4 DEF ids, counts
<1>7. BuiltIndex(u) = [folders |-> IdsOf(t.folders) \cup {f.id},
         childFolders |-> [b.childFolders EXCEPT ![f.parent] = @ + 1],
         childBookmarks |-> b.childBookmarks]
  BY <1>1, <1>2, <1>4, <1>5 DEF BuiltIndex
<1>8. QED
  BY <1>6, <1>7 DEF u, b

LEMMA BookmarkCounted ==
  ASSUME NEW t, Sound(t), NEW r, r \notin t.bookmarks, r.parent \in FolderIds
  PROVE  BuiltIndex(AddedBookmark(t, r)) =
           [BuiltIndex(t) EXCEPT !.childBookmarks[r.parent] = @ + 1]
<1> DEFINE u == AddedBookmark(t, r)
           b == BuiltIndex(t)
<1>1. u.bookmarks = t.bookmarks \cup {r} /\ u.folders = t.folders
  BY DEF AddedBookmark, Sound, Tree
<1>2. \A p \in FolderIds : Cardinality(ChildrenOf(u.bookmarks, p)) =
        IF p = r.parent THEN Cardinality(ChildrenOf(t.bookmarks, p)) + 1
        ELSE Cardinality(ChildrenOf(t.bookmarks, p))
  BY <1>1, ChildCounts DEF Sound
<1>3. /\ b.folders = IdsOf(t.folders)
      /\ b.childFolders = [p \in FolderIds |-> Cardinality(ChildrenOf(t.folders, p))]
      /\ b.childBookmarks = [p \in FolderIds |-> Cardinality(ChildrenOf(t.bookmarks, p))]
      /\ b = [folders |-> b.folders, childFolders |-> b.childFolders,
              childBookmarks |-> b.childBookmarks]
  BY DEF BuiltIndex
<1> HIDE DEF u, b
<1>4. [p \in FolderIds |-> Cardinality(ChildrenOf(u.bookmarks, p))] =
        [b.childBookmarks EXCEPT ![r.parent] = @ + 1]
  BY <1>2, <1>3
<1>5. [b EXCEPT !.childBookmarks[r.parent] = @ + 1] =
        [folders |-> b.folders, childFolders |-> b.childFolders,
         childBookmarks |-> [b.childBookmarks EXCEPT ![r.parent] = @ + 1]]
  BY <1>3
<1>6. BuiltIndex(u) = [folders |-> b.folders, childFolders |-> b.childFolders,
         childBookmarks |-> [b.childBookmarks EXCEPT ![r.parent] = @ + 1]]
  BY <1>1, <1>3, <1>4 DEF BuiltIndex
<1>7. QED
  BY <1>5, <1>6 DEF u, b

(***************************************************************************)
(* The steps                                                               *)
(***************************************************************************)

\* A change to a sound tree, with its index or none, saved or not.
LEMMA ChangeInv ==
  ASSUME BookmarkInv, NEW t, NEW i, Change(t, i), Sound(t), i = None \/ i = BuiltIndex(t)
  PROVE  BookmarkInv'
<1>1. tree' = t /\ index' = i /\ batch' = batch /\ Save
  BY DEF Change
<1>2. t \in Tree /\ i \in BatchIndex \cup {None}
  BY IndexType DEF Sound
<1>3. Sound(tree)' /\ IndexIsTheStore' /\ (batch # None => Sound(batch))'
  BY <1>1 DEF BookmarkInv, IndexIsTheStore
<1>4. CASE batch # None /\ changes < MaxInBatch /\ changes' = changes + 1 /\ UNCHANGED <<disk, refused>>
  <2>1. TypeOK'
    BY <1>1, <1>2, <1>4, BookmarksAssumption DEF BookmarkInv, TypeOK
  <2>2. (refused = 0 => IF batch = None THEN IsSaved(tree) ELSE IsSaved(batch))'
    BY <1>1, <1>4 DEF BookmarkInv, IsSaved
  <2>3. QED
    BY <1>3, <2>1, <2>2 DEF BookmarkInv
<1>5. CASE batch = None /\ ValidTree(tree') /\ disk' = Rows(tree') /\ refused' = 0 /\ UNCHANGED changes
  <2>1. /\ Rows(Opened(disk')) = Rows(tree')
        /\ IsListing(disk'.folders, Folder) /\ IsListing(disk'.bookmarks, Bookmark)
    BY <1>1, <1>5, WrittenIsReadBack
  <2>2. TypeOK'
    BY <1>1, <1>2, <1>5, <2>1, BookmarksAssumption DEF BookmarkInv, TypeOK
  <2>3. (refused = 0 => IF batch = None THEN IsSaved(tree) ELSE IsSaved(batch))'
    BY <1>1, <1>5, <2>1 DEF IsSaved
  <2>4. QED
    BY <1>3, <2>2, <2>3 DEF BookmarkInv
<1>6. CASE /\ batch = None /\ refused < MaxRefused /\ refused' = refused + 1
           /\ UNCHANGED disk /\ UNCHANGED changes
  <2>1. TypeOK' /\ refused' # 0
    BY <1>1, <1>2, <1>6, BookmarksAssumption DEF BookmarkInv, TypeOK
  <2>2. QED
    BY <1>3, <2>1 DEF BookmarkInv
<1>7. QED
  BY <1>1, <1>4, <1>5, <1>6 DEF Save

\* In a batch with its index, and out of it: the parent is there, and the
\* position is the count of its children.
LEMMA ParentIsThere ==
  ASSUME BookmarkInv, NEW parent \in FolderIds, HasFolder(parent)
  PROVE  /\ parent \in IdsOf(tree.folders)
         /\ index # None => /\ index.childFolders[parent] = Cardinality(ChildrenOf(tree.folders, parent))
                            /\ index.childBookmarks[parent] = Cardinality(ChildrenOf(tree.bookmarks, parent))
         /\ Cardinality(ChildrenOf(tree.folders, parent)) \in Nat
         /\ Cardinality(ChildrenOf(tree.bookmarks, parent)) \in Nat
<1>1. BuiltIndex(tree) \in BatchIndex
  BY IndexType DEF BookmarkInv
<1>2. /\ BuiltIndex(tree).folders = IdsOf(tree.folders)
      /\ BuiltIndex(tree).childFolders[parent] = Cardinality(ChildrenOf(tree.folders, parent))
      /\ BuiltIndex(tree).childBookmarks[parent] = Cardinality(ChildrenOf(tree.bookmarks, parent))
  BY DEF BuiltIndex
<1>3. QED
  BY <1>1, <1>2 DEF HasFolder, BookmarkInv, IndexIsTheStore, BatchIndex

LEMMA CreateFolderInv ==
  ASSUME BookmarkInv, NEW parent \in FolderIds, CreateFolder(parent)
  PROVE  BookmarkInv'
<1> DEFINE position == Cardinality(ChildrenOf(tree.folders, parent))
           f == [id |-> tree.nextFolder, parent |-> parent, position |-> position]
           i == IF index = None THEN None
                ELSE [index EXCEPT !.folders = @ \cup {f.id}, !.childFolders[parent] = @ + 1]
<1>1. parent \in IdsOf(tree.folders) /\ position \in Nat /\ tree.nextFolder <= MaxFolder
  BY ParentIsThere DEF CreateFolder
<1>2. Sound(AddedFolder(tree, f)) /\ f \notin tree.folders
  BY <1>1, AddedFolderSound DEF BookmarkInv
<1>3. Change(AddedFolder(tree, f), i)
  <2>1. position = IF index = None THEN Cardinality(ChildrenOf(tree.folders, parent))
                   ELSE index.childFolders[parent]
    BY ParentIsThere DEF CreateFolder
  <2>2. QED
    BY <2>1 DEF CreateFolder, AddedFolder
<1>4. i = None \/ i = BuiltIndex(AddedFolder(tree, f))
  <2>1. f.parent = parent
    OBVIOUS
  <2> HIDE DEF f
  <2>2. BuiltIndex(AddedFolder(tree, f)) =
          [BuiltIndex(tree) EXCEPT !.folders = @ \cup {f.id}, !.childFolders[f.parent] = @ + 1]
    BY <1>2, <2>1, FolderCounted DEF BookmarkInv
  <2>3. QED
    BY <2>1, <2>2 DEF BookmarkInv, IndexIsTheStore
<1>5. QED
  BY <1>2, <1>3, <1>4, ChangeInv

LEMMA CreateBookmarkInv ==
  ASSUME BookmarkInv, NEW parent \in FolderIds, CreateBookmark(parent)
  PROVE  BookmarkInv'
<1> DEFINE position == Cardinality(ChildrenOf(tree.bookmarks, parent))
           r == [id |-> tree.nextBookmark, parent |-> parent, position |-> position]
           i == IF index = None THEN None ELSE [index EXCEPT !.childBookmarks[parent] = @ + 1]
<1>1. parent \in IdsOf(tree.folders) /\ position \in Nat /\ tree.nextBookmark <= MaxBookmark
  BY ParentIsThere DEF CreateBookmark
<1>2. Sound(AddedBookmark(tree, r)) /\ r \notin tree.bookmarks
  BY <1>1, AddedBookmarkSound DEF BookmarkInv
<1>3. Change(AddedBookmark(tree, r), i)
  <2>1. position = IF index = None THEN Cardinality(ChildrenOf(tree.bookmarks, parent))
                   ELSE index.childBookmarks[parent]
    BY ParentIsThere DEF CreateBookmark
  <2>2. QED
    BY <2>1 DEF CreateBookmark, AddedBookmark
<1>4. i = None \/ i = BuiltIndex(AddedBookmark(tree, r))
  <2>1. r.parent = parent
    OBVIOUS
  <2> HIDE DEF r
  <2>2. BuiltIndex(AddedBookmark(tree, r)) =
          [BuiltIndex(tree) EXCEPT !.childBookmarks[r.parent] = @ + 1]
    BY <1>2, <2>1, BookmarkCounted DEF BookmarkInv
  <2>3. QED
    BY <2>1, <2>2 DEF BookmarkInv, IndexIsTheStore
<1>5. QED
  BY <1>2, <1>3, <1>4, ChangeInv

LEMMA OperationInv ==
  ASSUME BookmarkInv, Operation
  PROVE  BookmarkInv'
<1>1. Sound(tree)
  BY DEF BookmarkInv
<1>2. ASSUME NEW id \in FolderIds, DeleteFolder(id) PROVE BookmarkInv'
  <2> DEFINE gone == Subtree(tree.folders, id)
             t == WithRows(tree, {f \in tree.folders : f.id \notin gone},
                                 {b \in tree.bookmarks : b.parent \notin gone})
  <2>1. id \in IdsOf(tree.folders) \ {Root} /\ Change(t, None)
    BY <1>2 DEF DeleteFolder, WithRows
  <2>2. Sound(t)
    BY <1>1, <2>1, DeletedFolderSound
  <2> HIDE DEF t
  <2>3. QED
    BY <2>1, <2>2, ChangeInv
<1>3. ASSUME NEW id \in FolderIds, NEW parent \in FolderIds, MoveFolder(id, parent)
      PROVE  BookmarkInv'
  <2> DEFINE t == WithFolders(tree, Moved(tree.folders, id, parent))
  <2>1. /\ id \in IdsOf(tree.folders) /\ parent \in IdsOf(tree.folders) /\ id # Root
        /\ id \notin Ancestry(tree.folders, parent) /\ Change(t, None)
    BY <1>3 DEF MoveFolder, WithFolders
  <2>2. PICK r \in tree.folders : r.id = id
    BY <2>1 DEF IdsOf
  <2>3. Sound(WithFolders(tree, Moved(tree.folders, r.id, parent)))
    BY <1>1, <2>1, <2>2, MovedFolderSound
  <2>4. Sound(t)
    BY <2>2, <2>3
  <2> HIDE DEF t
  <2>5. QED
    BY <2>1, <2>4, ChangeInv
<1>4. ASSUME NEW id \in BookmarkIds, DeleteBookmark(id) PROVE BookmarkInv'
  <2> DEFINE t == WithBookmarks(tree, {b \in tree.bookmarks : b.id # id})
  <2>1. Change(t, None)
    BY <1>4 DEF DeleteBookmark, WithBookmarks
  <2>2. Sound(t)
    BY <1>1, FewerBookmarksSound
  <2> HIDE DEF t
  <2>3. QED
    BY <2>1, <2>2, ChangeInv
<1>5. ASSUME NEW id \in BookmarkIds, NEW parent \in FolderIds, MoveBookmark(id, parent)
      PROVE  BookmarkInv'
  <2> DEFINE t == WithBookmarks(tree, Moved(tree.bookmarks, id, parent))
  <2>1. parent \in IdsOf(tree.folders) /\ id \in IdsOf(tree.bookmarks) /\ Change(t, None)
    BY <1>5 DEF MoveBookmark, WithBookmarks
  <2>2. PICK r \in tree.bookmarks : r.id = id
    BY <2>1 DEF IdsOf
  <2>3. Sound(WithBookmarks(tree, Moved(tree.bookmarks, r.id, parent)))
    BY <1>1, <2>1, <2>2, MovedBookmarkSound
  <2>4. Sound(t)
    BY <2>2, <2>3
  <2> HIDE DEF t
  <2>5. QED
    BY <2>1, <2>4, ChangeInv
<1>6. CASE Rename
  <2>1. Change(tree, index) /\ (index = None \/ index = BuiltIndex(tree))
    BY <1>6 DEF Rename, BookmarkInv, IndexIsTheStore
  <2>2. QED
    BY <1>1, <2>1, ChangeInv
<1>7. CASE DropIndex
  BY <1>7 DEF DropIndex, BookmarkInv, TypeOK, IndexIsTheStore, IsSaved
<1>8. QED
  BY <1>2, <1>3, <1>4, <1>5, <1>6, <1>7, CreateFolderInv, CreateBookmarkInv DEF Operation

LEMMA OpenedInv ==
  ASSUME IsListing(disk.folders, Folder), IsListing(disk.bookmarks, Bookmark)
  PROVE  Opened(disk) \in Tree /\ Sound(Opened(disk))
BY OpenedSound DEF Sound

LEMMA InitInv == Init => BookmarkInv
<1> SUFFICES ASSUME Init PROVE BookmarkInv
  OBVIOUS
<1>1. IsListing(disk.folders, Folder) /\ IsListing(disk.bookmarks, Bookmark)
  <2>1. IsListing(NoRows.folders, Folder) /\ IsListing(NoRows.bookmarks, Bookmark)
    BY FS_EmptySet DEF NoRows, Listed, IsListing
  <2>2. QED
    BY <2>1, BookmarksAssumption DEF Init
<1>2. TypeOK /\ Sound(tree)
  BY <1>1, OpenedInv, BookmarksAssumption DEF Init, TypeOK
<1>3. QED
  BY <1>2 DEF Init, BookmarkInv, IndexIsTheStore, IsSaved

LEMMA StepInv == BookmarkInv /\ [Next]_vars => BookmarkInv'
<1> SUFFICES ASSUME BookmarkInv, [Next]_vars PROVE BookmarkInv'
  OBVIOUS
<1>1. CASE Operation
  BY <1>1, OperationInv
<1>2. CASE BatchBegins
  <2>1. BuiltIndex(tree) \in BatchIndex
    BY IndexType DEF BookmarkInv
  <2>2. TypeOK'
    BY <1>2, <2>1 DEF BatchBegins, BookmarkInv, TypeOK
  <2>3. IndexIsTheStore'
    BY <1>2 DEF BatchBegins, IndexIsTheStore
  <2>4. (refused = 0 => IF batch = None THEN IsSaved(tree) ELSE IsSaved(batch))'
    BY <1>2 DEF BatchBegins, BookmarkInv, IsSaved
  <2>5. QED
    BY <1>2, <2>2, <2>3, <2>4 DEF BatchBegins, BookmarkInv
<1>3. CASE BatchSaved
  <2>1. /\ Rows(Opened(disk')) = Rows(tree)
        /\ IsListing(disk'.folders, Folder) /\ IsListing(disk'.bookmarks, Bookmark)
    BY <1>3, WrittenIsReadBack DEF BatchSaved, BookmarkInv
  <2>2. TypeOK'
    BY <1>3, <2>1, BookmarksAssumption DEF BatchSaved, BookmarkInv, TypeOK
  <2>3. QED
    BY <1>3, <2>1, <2>2 DEF BatchSaved, BookmarkInv, IndexIsTheStore, IsSaved
<1>4. CASE BatchTakenBack
  <2>1. TypeOK'
    BY <1>4, BookmarksAssumption DEF BatchTakenBack, BookmarkInv, TypeOK
  <2>2. QED
    BY <1>4, <2>1 DEF BatchTakenBack, BookmarkInv, IndexIsTheStore, IsSaved
<1>5. CASE Restart
  <2>1. Opened(disk) \in Tree /\ Sound(Opened(disk))
    BY OpenedInv DEF BookmarkInv, TypeOK
  <2>2. TypeOK'
    BY <1>5, <2>1, BookmarksAssumption DEF Restart, BookmarkInv, TypeOK
  <2>3. QED
    BY <1>5, <2>1, <2>2 DEF Restart, BookmarkInv, IndexIsTheStore, IsSaved
<1>6. CASE UNCHANGED vars
  BY <1>6 DEF vars, BookmarkInv, TypeOK, IndexIsTheStore, IsSaved
<1>7. QED
  BY <1>1, <1>2, <1>3, <1>4, <1>5, <1>6 DEF Next

LEMMA Invariant == Spec => []BookmarkInv
BY InitInv, StepInv, PTL DEF Spec

(* One root, no cycle, every bookmark under it: after any operations,      *)
(* moves and cascades, in and after batches, and for any file the store    *)
(* was opened on.                                                          *)
THEOREM BookmarksAreATree == Spec => []AlwaysATree
<1>1. BookmarkInv => AlwaysATree
  BY DEF BookmarkInv, Sound, AlwaysATree
<1>2. QED
  BY <1>1, Invariant, PTL

(* The parents and the positions a batch's creates find in its index are   *)
(* those a scan of the store would find.                                   *)
THEOREM BatchIndexIsTrue == Spec => []IndexIsTheStore
<1>1. BookmarkInv => IndexIsTheStore
  BY DEF BookmarkInv
<1>2. QED
  BY <1>1, Invariant, PTL

(* Between operations bookmarks.toml is read back as the store, unless a   *)
(* save of an operation on its own was refused.                            *)
THEOREM FileIsTheStore == Spec => []DiskIsTheStore
<1>1. BookmarkInv => DiskIsTheStore
  BY DEF BookmarkInv, DiskIsTheStore, IsSaved
<1>2. QED
  BY <1>1, Invariant, PTL

(***************************************************************************)
(* Putting a finite set in order                                           *)
(***************************************************************************)

StrictOrder(R, S) ==
  /\ \A x \in S : <<x, x>> \notin R
  /\ \A x, y, z \in S : <<x, y>> \in R /\ <<y, z>> \in R => <<x, z>> \in R
  /\ \A x, y \in S : x # y => <<x, y>> \in R \/ <<y, x>> \in R

\* f lists the n elements of T one after the other.
Lists(f, n, T, R) ==
  /\ f \in [1..n -> T]
  /\ \A x \in T : \E i \in 1..n : f[i] = x
  /\ \A i, j \in 1..n : i < j => <<f[i], f[j]>> \in R

LEMMA AppendGreatest ==
  ASSUME NEW R, NEW T, NEW x, x \notin T, NEW n \in Nat, NEW f, Lists(f, n, T, R),
         \A y \in T : <<y, x>> \in R
  PROVE  \E g : Lists(g, n + 1, T \cup {x}, R)
<1> DEFINE g == [i \in 1..(n + 1) |-> IF i = n + 1 THEN x ELSE f[i]]
<1>1. \A i \in 1..n : i \in 1..(n + 1) /\ i # n + 1 /\ g[i] = f[i] /\ f[i] \in T
  BY DEF Lists
<1>2. n + 1 \in 1..(n + 1) /\ g[n + 1] = x
  OBVIOUS
<1>3. \A i \in 1..(n + 1) : i = n + 1 \/ i \in 1..n
  OBVIOUS
<1>4. g \in [1..(n + 1) -> T \cup {x}]
  BY <1>1, <1>3
<1> HIDE DEF g
<1>5. ASSUME NEW y \in T \cup {x} PROVE \E i \in 1..(n + 1) : g[i] = y
  BY <1>1, <1>2 DEF Lists
<1>6. ASSUME NEW i \in 1..(n + 1), NEW j \in 1..(n + 1), i < j PROVE <<g[i], g[j]>> \in R
  <2>1. i \in 1..n
    BY <1>3, <1>6
  <2>2. CASE j = n + 1
    BY <2>1, <2>2, <1>1, <1>2
  <2>3. CASE j \in 1..n
    BY <2>1, <2>3, <1>1, <1>6 DEF Lists
  <2>4. QED BY <1>3, <2>2, <2>3
<1>7. QED BY <1>4, <1>5, <1>6 DEF Lists

LEMMA ListExists ==
  ASSUME NEW S, NEW R, IsFiniteSet(S), StrictOrder(R, S)
  PROVE  \E f : Lists(f, Cardinality(S), S, R)
<1> DEFINE Done == {n \in Nat : \A T \in SUBSET S : Cardinality(T) = n => \E f : Lists(f, n, T, R)}
<1>1. 0 \in Done
  <2> SUFFICES ASSUME NEW T \in SUBSET S, Cardinality(T) = 0 PROVE \E f : Lists(f, 0, T, R)
    OBVIOUS
  <2>1. T = {} /\ 1..0 = {}
    BY FS_Subset, FS_EmptySet
  <2> DEFINE f == [i \in 1..0 |-> 0]
  <2>2. f \in [1..0 -> T]
    BY <2>1
  <2>3. Lists(f, 0, T, R)
    BY <2>1, <2>2 DEF Lists
  <2>4. QED BY <2>3
<1>2. ASSUME NEW n \in Nat, n \in Done PROVE n + 1 \in Done
  <2> SUFFICES ASSUME NEW T \in SUBSET S, Cardinality(T) = n + 1
               PROVE  \E f : Lists(f, n + 1, T, R)
    OBVIOUS
  <2>1. IsFiniteSet(T) /\ T # {}
    BY FS_Subset, FS_EmptySet
  <2>2. \A x \in T : Cardinality(T \ {x}) = n /\ \E f : Lists(f, n, T \ {x}, R)
    <3> SUFFICES ASSUME NEW x \in T
                 PROVE  Cardinality(T \ {x}) = n /\ \E f : Lists(f, n, T \ {x}, R)
      OBVIOUS
    <3>1. Cardinality(T \ {x}) = (n + 1) - 1
      BY <2>1, FS_RemoveElement
    <3>2. (n + 1) - 1 = n
      OBVIOUS
    <3>3. QED BY <3>1, <3>2, <1>2
  <2> HIDE DEF Done
  <2>3. \E x \in T : \A y \in T \ {x} : <<y, x>> \in R
    <3>1. PICK x \in T : TRUE
      BY <2>1
    <3>2. PICK f : Lists(f, n, T \ {x}, R)
      BY <2>2
    <3>3. CASE n = 0
      <4>1. T \ {x} = {}
        BY <3>2, <3>3 DEF Lists
      <4>2. QED BY <4>1
    <3>4. CASE n # 0
      <4>1. n \in 1..n /\ f[n] \in T \ {x} /\ \A i \in 1..n : i # n => i < n
        BY <3>2, <3>4 DEF Lists
      <4>2. \A y \in T \ {x} : y # f[n] => <<y, f[n]>> \in R
        BY <3>2, <4>1 DEF Lists
      <4>3. CASE <<x, f[n]>> \in R
        <5>1. \A y \in T \ {f[n]} : <<y, f[n]>> \in R
          BY <4>2, <4>3
        <5>2. QED BY <4>1, <5>1
      <4>4. CASE <<f[n], x>> \in R
        <5>1. \A y \in T \ {x} : <<y, x>> \in R
          BY <4>1, <4>2, <4>4 DEF StrictOrder
        <5>2. QED BY <5>1
      <4>5. QED BY <4>1, <4>3, <4>4 DEF StrictOrder
    <3>5. QED BY <3>3, <3>4
  <2>4. PICK x \in T : \A y \in T \ {x} : <<y, x>> \in R
    BY <2>3
  <2>5. PICK f : Lists(f, n, T \ {x}, R)
    BY <2>2
  <2>6. (T \ {x}) \cup {x} = T
    OBVIOUS
  <2>7. \E g : Lists(g, n + 1, (T \ {x}) \cup {x}, R)
    BY <2>4, <2>5, AppendGreatest
  <2>8. QED BY <2>6, <2>7
<1>3. Cardinality(S) \in Done
  <2>1. Cardinality(S) \in Nat
    BY FS_CardinalityType
  <2> HIDE DEF Done
  <2>2. QED BY <1>1, <1>2, <2>1, NatInductionOnSets
<1>4. S \in SUBSET S
  OBVIOUS
<1>5. QED BY <1>3, <1>4

\* Places of a sequence, or serials, one after the other.
LEMMA SortedNumbers ==
  ASSUME NEW S \in SUBSET Nat, IsFiniteSet(S)
  PROVE  /\ Cardinality(S) \in Nat
         /\ Sorted(S, Earlier) \in [1..Cardinality(S) -> S]
         /\ \A x \in S : \E i \in 1..Cardinality(S) : Sorted(S, Earlier)[i] = x
         /\ \A i, j \in 1..Cardinality(S) : i < j => Sorted(S, Earlier)[i] < Sorted(S, Earlier)[j]
<1> DEFINE N == Cardinality(S)
           R == {p \in S \X S : p[1] < p[2]}
           Good(f) == \A i, j \in DOMAIN f : i < j => Earlier(f[i], f[j])
           s == CHOOSE f \in [1..N -> S] : Good(f)
<1>1. N \in Nat
  BY FS_CardinalityType
<1>2. StrictOrder(R, S)
  BY DEF StrictOrder
<1>3. PICK f : Lists(f, N, S, R)
  BY <1>2, ListExists
<1>4. f \in [1..N -> S] /\ Good(f)
  BY <1>3 DEF Lists, Earlier
<1>5. s \in [1..N -> S] /\ Good(s)
  <2> HIDE DEF Good
  <2>1. QED BY <1>4
<1>6. s = Sorted(S, Earlier)
  BY DEF Sorted
<1> HIDE DEF s
<1>7. \A i, j \in 1..N : i < j => s[i] < s[j]
  BY <1>5 DEF Earlier
<1>8. ASSUME NEW x \in S PROVE \E i \in 1..N : s[i] = x
  <2>1. IsFiniteSet(1..N) /\ Cardinality(1..N) = N
    BY <1>1, FS_Interval
  <2>2. \A i, j \in 1..N : s[i] = s[j] => i = j
    <3> SUFFICES ASSUME NEW i \in 1..N, NEW j \in 1..N, i # j PROVE s[i] # s[j]
      OBVIOUS
    <3>1. s[i] \in S /\ s[j] \in S
      BY <1>5
    <3>2. i < j \/ j < i
      BY <1>1
    <3>3. s[i] \in Nat /\ s[j] \in Nat /\ (s[i] < s[j] \/ s[j] < s[i])
      BY <1>7, <3>1, <3>2
    <3>4. QED BY <3>3
  <2>3. s \in Injection(1..N, S)
    BY <1>5, <2>2 DEF Injection, IsInjective
  <2>4. s \in Surjection(1..N, S)
    BY <2>1, <2>3, FS_Injection
  <2>5. QED BY <2>4 DEF Surjection
<1>9. QED BY <1>1, <1>5, <1>6, <1>7, <1>8

LEMMA VisitsAtIs ==
  ASSUME NEW V, NEW visits \in Seq(V), NEW P \in SUBSET (DOMAIN visits)
  PROVE  /\ VisitsAt(visits, P) \in Seq(V)
         /\ \A k \in DOMAIN VisitsAt(visits, P) : \E i \in P : VisitsAt(visits, P)[k] = visits[i]
         /\ \A i \in P : \E k \in DOMAIN VisitsAt(visits, P) : VisitsAt(visits, P)[k] = visits[i]
         /\ \A k, l \in DOMAIN VisitsAt(visits, P) : k < l =>
              \E i, j \in P : /\ i < j
                              /\ VisitsAt(visits, P)[k] = visits[i]
                              /\ VisitsAt(visits, P)[l] = visits[j]
<1> DEFINE N == Cardinality(P)
           o == Sorted(P, Earlier)
           v == [k \in 1..N |-> visits[o[k]]]
<1>1. P \in SUBSET Nat /\ IsFiniteSet(P)
  <2>1. DOMAIN visits = 1..Len(visits) /\ Len(visits) \in Nat
    OBVIOUS
  <2>2. IsFiniteSet(DOMAIN visits)
    BY <2>1, FS_Interval
  <2>3. IsFiniteSet(P)
    BY <2>2, FS_Subset
  <2>4. QED BY <2>1, <2>3
<1>2. /\ N \in Nat /\ o \in [1..N -> P]
      /\ \A x \in P : \E i \in 1..N : o[i] = x
      /\ \A i, j \in 1..N : i < j => o[i] < o[j]
  BY <1>1, SortedNumbers
<1>3. VisitsAt(visits, P) = v
  BY <1>2 DEF VisitsAt
<1> HIDE DEF o, N
<1>4. \A i \in P : visits[i] \in V
  OBVIOUS
<1>5. \A k \in 1..N : v[k] = visits[o[k]] /\ o[k] \in P
  BY <1>2
<1>6. v \in Seq(V) /\ DOMAIN v = 1..N
  <2>1. v \in [1..N -> V]
    BY <1>4, <1>5
  <2>2. QED BY <1>2, <2>1
<1> HIDE DEF v
<1>7. \A k \in 1..N : \E i \in P : v[k] = visits[i]
  BY <1>5
<1>8. \A i \in P : \E k \in 1..N : v[k] = visits[i]
  BY <1>2, <1>5
<1>9. \A k, l \in 1..N : k < l => \E i, j \in P : i < j /\ v[k] = visits[i] /\ v[l] = visits[j]
  BY <1>2, <1>5
<1>10. /\ \A k \in DOMAIN v : \E i \in P : v[k] = visits[i]
       /\ \A i \in P : \E k \in DOMAIN v : v[k] = visits[i]
       /\ \A k, l \in DOMAIN v : k < l => \E i, j \in P : i < j /\ v[k] = visits[i] /\ v[l] = visits[j]
  BY <1>6, <1>7, <1>8, <1>9
<1>11. QED BY ONLY <1>3, <1>6, <1>10

(***************************************************************************)
(* The rows of a list                                                      *)
(***************************************************************************)

Visit == [address : Addresses, at : Nat]
Profile == [bookmarks : BOOLEAN, visits : Seq(Visit)]

IsRow(r) ==
  /\ r = [id |-> r.id, address |-> r.address, at |-> r.at, run |-> r.run]
  /\ r.address \in Addresses /\ r.at \in Nat /\ r.run \in Nat

\* Rows in memory or in a file, when made rows were made, by imports up to
\* the run given.
RowsOK(rows, made, run, gone) ==
  /\ DOMAIN rows \subseteq 1..made
  /\ \A n \in DOMAIN rows : IsRow(rows[n]) /\ rows[n].run <= run
  /\ \A m, n \in DOMAIN rows : m < n /\ rows[n].run # 0 => RowOf(rows[m]) # RowOf(rows[n])
  /\ gone \cap DOMAIN rows = {}

LEMMA EmptyRows == ASSUME NEW made, NEW run, NEW gone PROVE RowsOK(NoHistory, made, run, gone)
<1>1. DOMAIN NoHistory = {}
  BY DEF NoHistory
<1>2. QED BY <1>1 DEF RowsOK

LEMMA StoredRows ==
  ASSUME NEW rows, NEW made \in Nat, NEW run \in Nat, NEW gone, RowsOK(rows, made, run, gone)
  PROVE  /\ RowsOK(Stored(rows), made, run, gone)
         /\ DOMAIN Stored(rows) = DOMAIN rows
         /\ \A n \in DOMAIN rows : /\ Stored(rows)[n].run = rows[n].run
                                   /\ RowOf(Stored(rows)[n]) = RowOf(rows[n])
<1> DEFINE s == Stored(rows)
<1>1. DOMAIN s = DOMAIN rows
  BY DEF Stored
<1>2. ASSUME NEW n \in DOMAIN rows
      PROVE  IsRow(s[n]) /\ s[n].run = rows[n].run /\ RowOf(s[n]) = RowOf(rows[n])
  <2> DEFINE r == rows[n]
             t == 2 * Millis(r.at)
  <2>1. IsRow(r)
    BY DEF RowsOK
  <2>2. s[n] = [r EXCEPT !.at = t]
    BY DEF Stored
  <2>3. t \in Nat /\ Millis(t) = Millis(r.at)
    <3>1. r.at \in Nat
      BY <2>1 DEF IsRow
    <3>2. QED BY <3>1 DEF Millis
  <2> HIDE DEF r, t
  <2>4. s[n] = [id |-> r.id, address |-> r.address, at |-> t, run |-> r.run]
    BY <2>1, <2>2 DEF IsRow
  <2>5. /\ s[n].address = r.address /\ s[n].at = t /\ s[n].run = r.run /\ s[n].id = r.id
    BY <2>4
  <2>6. IsRow(s[n])
    BY <2>1, <2>3, <2>4, <2>5 DEF IsRow
  <2>7. RowOf(s[n]) = RowOf(r)
    BY <2>3, <2>5 DEF RowOf
  <2>8. QED BY <2>5, <2>6, <2>7 DEF r
<1> HIDE DEF s
<1>3. RowsOK(s, made, run, gone)
  BY <1>1, <1>2 DEF RowsOK
<1>4. QED BY <1>1, <1>2, <1>3 DEF s

LEMMA RestrictedRows ==
  ASSUME NEW rows, NEW made, NEW run, NEW gone, RowsOK(rows, made, run, gone),
         NEW kept \in SUBSET (DOMAIN rows)
  PROVE  /\ RowsOK(Restrict(rows, kept), made, run, gone)
         /\ RowsOK(Restrict(rows, kept), made, run, gone \cup (DOMAIN rows \ kept))
         /\ DOMAIN Restrict(rows, kept) = kept
         /\ \A n \in kept : Restrict(rows, kept)[n] = rows[n]
<1>1. DOMAIN Restrict(rows, kept) = kept /\ \A n \in kept : Restrict(rows, kept)[n] = rows[n]
  BY DEF Restrict
<1>2. QED BY <1>1 DEF RowsOK

LEMMA LaterRows ==
  ASSUME NEW rows, NEW made \in Nat, NEW run \in Nat, NEW gone, RowsOK(rows, made, run, gone),
         NEW more \in Nat, made <= more, NEW later \in Nat, run <= later
  PROVE  RowsOK(rows, more, later, gone)
<1>1. \A n \in DOMAIN rows : rows[n].run <= later
  BY DEF RowsOK, IsRow
<1>2. DOMAIN rows \subseteq 1..more
  BY DEF RowsOK
<1>3. QED BY <1>1, <1>2 DEF RowsOK

\* What it takes for visits to be pushed: those of an import are none of the
\* rows held, and no two are one row.
Pushable(visits, run) ==
  run # 0 =>
    /\ \A k \in DOMAIN visits : \A n \in DOMAIN history : RowOf(history[n]) # RowOf(visits[k])
    /\ \A k, l \in DOMAIN visits : k < l => RowOf(visits[k]) # RowOf(visits[l])

LEMMA PushedRows ==
  ASSUME NEW run \in Nat, NEW last \in Nat, run <= last, rowsMade \in Nat, erased \subseteq 1..rowsMade,
         RowsOK(history, rowsMade, last, erased), NEW visits \in Seq(Visit), Pushable(visits, run)
  PROVE  /\ RowsOK(Pushed(Made(visits, run)), rowsMade + Len(visits), last, erased)
         /\ DOMAIN Pushed(Made(visits, run)) =
              DOMAIN history \cup (rowsMade + 1)..(rowsMade + Len(visits))
         /\ \A n \in DOMAIN history : Pushed(Made(visits, run))[n] = history[n]
         /\ \A k \in DOMAIN visits : /\ rowsMade + k \in (rowsMade + 1)..(rowsMade + Len(visits))
                                     /\ RowOf(Pushed(Made(visits, run))[rowsMade + k]) = RowOf(visits[k])
         /\ \A n \in (rowsMade + 1)..(rowsMade + Len(visits)) :
              Pushed(Made(visits, run))[n].run = run
<1> DEFINE L == Len(visits)
           New == (rowsMade + 1)..(rowsMade + L)
           made == Made(visits, run)
           p == Pushed(made)
<1>1. L \in Nat /\ DOMAIN visits = 1..L
  OBVIOUS
<1> HIDE DEF L
<1>2. DOMAIN made = New
  BY DEF Made, L
<1>3. ASSUME NEW n \in New
      PROVE  /\ n - rowsMade \in 1..L
             /\ IsRow(made[n]) /\ made[n].run = run /\ RowOf(made[n]) = RowOf(visits[n - rowsMade])
  <2>1. n - rowsMade \in 1..L
    BY <1>1
  <2> DEFINE v == visits[n - rowsMade]
             i == nextId + (n - rowsMade - 1)
  <2>2. v \in Visit
    BY <1>1, <2>1
  <2>3. made[n] = [id |-> i, address |-> v.address, at |-> v.at, run |-> run]
    BY DEF Made, L
  <2> HIDE DEF v, i
  <2>4. v.address \in Addresses /\ v.at \in Nat
    BY <2>2 DEF Visit
  <2>5. made[n].id = i /\ made[n].address = v.address /\ made[n].at = v.at /\ made[n].run = run
    BY <2>3
  <2>6. IsRow(made[n])
    BY <2>3, <2>4, <2>5 DEF IsRow
  <2>7. RowOf(made[n]) = RowOf(v)
    BY <2>5 DEF RowOf
  <2>8. QED BY <2>1, <2>5, <2>6, <2>7 DEF v
<1>4. \A n \in DOMAIN history : n \in 1..rowsMade /\ n \notin New /\ \A m \in New : n < m
  BY <1>1 DEF RowsOK
<1> HIDE DEF made
<1>5. DOMAIN p = DOMAIN history \cup New
  BY <1>2 DEF Pushed
<1>6. (\A n \in DOMAIN history : p[n] = history[n]) /\ \A n \in New : p[n] = made[n]
  BY <1>2, <1>4 DEF Pushed
<1> HIDE DEF p
<1>7. DOMAIN p \subseteq 1..(rowsMade + L)
  BY <1>1, <1>4, <1>5
<1>8. \A n \in DOMAIN p : IsRow(p[n]) /\ p[n].run <= last
  BY <1>3, <1>5, <1>6 DEF RowsOK
<1>9. ASSUME NEW m \in DOMAIN p, NEW n \in DOMAIN p, m < n, p[n].run # 0
      PROVE  RowOf(p[m]) # RowOf(p[n])
  <2>1. CASE n \in DOMAIN history
    <3>1. m \in DOMAIN history
      <4>1. m \in New => n < m
        BY <1>4, <2>1
      <4>2. m \in Nat /\ n \in Nat
        BY <1>7
      <4>3. QED BY <1>5, <1>9, <4>1, <4>2
    <3>2. QED BY <1>6, <1>9, <2>1, <3>1 DEF RowsOK
  <2>2. CASE n \in New
    <3>1. run # 0 /\ RowOf(p[n]) = RowOf(visits[n - rowsMade]) /\ n - rowsMade \in 1..L
      BY <1>3, <1>6, <1>9, <2>2
    <3>2. CASE m \in DOMAIN history
      BY <1>1, <1>6, <3>1, <3>2 DEF Pushable
    <3>3. CASE m \in New
      <4>1. RowOf(p[m]) = RowOf(visits[m - rowsMade]) /\ m - rowsMade \in 1..L
        BY <1>3, <1>6, <3>3
      <4>2. m - rowsMade < n - rowsMade
        BY <1>9, <2>2, <3>3, <1>1
      <4>3. QED BY <1>1, <3>1, <4>1, <4>2 DEF Pushable
    <3>4. QED BY <1>5, <3>2, <3>3
  <2>3. QED BY <1>5, <2>1, <2>2
<1>10. erased \cap DOMAIN p = {}
  <2>1. erased \cap New = {}
    BY <1>1
  <2>2. QED BY <1>5, <2>1 DEF RowsOK
<1>11. RowsOK(p, rowsMade + L, last, erased)
  BY <1>7, <1>8, <1>9, <1>10 DEF RowsOK
<1>12. ASSUME NEW k \in DOMAIN visits
       PROVE  rowsMade + k \in New /\ RowOf(p[rowsMade + k]) = RowOf(visits[k])
  <2>1. rowsMade + k \in New /\ (rowsMade + k) - rowsMade = k
    BY <1>1
  <2>2. QED BY <1>3, <1>6, <2>1
<1>13. \A n \in New : p[n].run = run
  BY <1>3, <1>6
<1>14. QED BY <1>5, <1>6, <1>11, <1>12, <1>13 DEF p, made, L

\* An import's visits can be pushed when they are fresh, and every row read is
\* then there.
LEMMA FreshRows ==
  ASSUME NEW visits \in Seq(Visit)
  PROVE  /\ Fresh(visits) \in Seq(Visit)
         /\ \A run : Pushable(Fresh(visits), run)
         /\ \A k \in DOMAIN visits :
              \/ \E n \in DOMAIN history : RowOf(history[n]) = RowOf(visits[k])
              \/ \E j \in DOMAIN Fresh(visits) : RowOf(Fresh(visits)[j]) = RowOf(visits[k])
<1> DEFINE P == {i \in DOMAIN visits :
                   /\ \A j \in 1..(i - 1) : RowOf(visits[j]) # RowOf(visits[i])
                   /\ \A n \in DOMAIN history : RowOf(history[n]) # RowOf(visits[i])}
           f == VisitsAt(visits, P)
<1>1. f = Fresh(visits)
  BY DEF Fresh
<1>2. P \in SUBSET (DOMAIN visits) /\ DOMAIN visits \subseteq Nat
  OBVIOUS
<1>3. /\ f \in Seq(Visit)
      /\ \A k \in DOMAIN f : \E i \in P : f[k] = visits[i]
      /\ \A i \in P : \E k \in DOMAIN f : f[k] = visits[i]
      /\ \A k, l \in DOMAIN f : k < l => \E i, j \in P : i < j /\ f[k] = visits[i] /\ f[l] = visits[j]
  <2> HIDE DEF P
  <2>1. QED BY <1>2, VisitsAtIs
<1>4. \A i, j \in P : i < j => RowOf(visits[i]) # RowOf(visits[j])
  <2> SUFFICES ASSUME NEW i \in P, NEW j \in P, i < j PROVE RowOf(visits[i]) # RowOf(visits[j])
    OBVIOUS
  <2>1. i \in 1..(j - 1)
    OBVIOUS
  <2>2. QED BY <2>1
<1>5. \A i \in P : \A n \in DOMAIN history : RowOf(history[n]) # RowOf(visits[i])
  OBVIOUS
<1>6. \A k \in DOMAIN visits :
        (\A n \in DOMAIN history : RowOf(history[n]) # RowOf(visits[k])) =>
          \E i \in P : RowOf(visits[i]) = RowOf(visits[k])
  <2> DEFINE Good == {m \in Nat : \A k \in DOMAIN visits :
                 k <= m /\ (\A n \in DOMAIN history : RowOf(history[n]) # RowOf(visits[k])) =>
                   \E i \in P : RowOf(visits[i]) = RowOf(visits[k])}
  <2>1. 0 \in Good
    OBVIOUS
  <2>2. ASSUME NEW m \in Nat, m \in Good PROVE m + 1 \in Good
    <3> SUFFICES ASSUME NEW k \in DOMAIN visits, k <= m + 1,
                        \A n \in DOMAIN history : RowOf(history[n]) # RowOf(visits[k])
                 PROVE  \E i \in P : RowOf(visits[i]) = RowOf(visits[k])
      OBVIOUS
    <3>1. CASE \A j \in 1..(k - 1) : RowOf(visits[j]) # RowOf(visits[k])
      <4>1. k \in P
        BY <3>1
      <4>2. QED BY <4>1
    <3>2. CASE \E j \in 1..(k - 1) : RowOf(visits[j]) = RowOf(visits[k])
      <4>1. PICK j \in 1..(k - 1) : RowOf(visits[j]) = RowOf(visits[k])
        BY <3>2
      <4>2. j \in DOMAIN visits /\ j <= m
        OBVIOUS
      <4>3. \A n \in DOMAIN history : RowOf(history[n]) # RowOf(visits[j])
        BY <4>1
      <4> HIDE DEF P
      <4>4. \E i \in P : RowOf(visits[i]) = RowOf(visits[j])
        BY <2>2, <4>2, <4>3
      <4>5. QED BY <4>1, <4>4
    <3>3. QED BY <3>1, <3>2
  <2>3. Len(visits) \in Good
    <3>1. Len(visits) \in Nat
      OBVIOUS
    <3> HIDE DEF Good
    <3>2. QED BY <2>1, <2>2, <3>1, NatInductionOnSets
  <2>4. QED BY <2>3
<1> HIDE DEF P, f
<1>7. ASSUME NEW run PROVE Pushable(f, run)
  <2>1. ASSUME NEW k \in DOMAIN f, NEW n \in DOMAIN history PROVE RowOf(history[n]) # RowOf(f[k])
    BY <1>3, <1>5
  <2>2. ASSUME NEW k \in DOMAIN f, NEW l \in DOMAIN f, k < l PROVE RowOf(f[k]) # RowOf(f[l])
    <3>1. PICK i \in P, j \in P : i < j /\ f[k] = visits[i] /\ f[l] = visits[j]
      BY <1>3, <2>2
    <3>2. QED BY <1>4, <3>1
  <2>3. QED BY <2>1, <2>2 DEF Pushable
<1>8. ASSUME NEW k \in DOMAIN visits
      PROVE  \/ \E n \in DOMAIN history : RowOf(history[n]) = RowOf(visits[k])
             \/ \E j \in DOMAIN f : RowOf(f[j]) = RowOf(visits[k])
  BY <1>3, <1>6
<1>9. QED BY <1>1, <1>3, <1>7, <1>8

(***************************************************************************)
(* The invariant                                                           *)
(***************************************************************************)

HistoryInv ==
  /\ rowsMade \in Nat /\ erased \subseteq 1..rowsMade
  /\ RowsOK(history, rowsMade, job.run, erased)
  /\ RowsOK(file, rowsMade, job.run, erased)

NoneOf(rows, run) == \A n \in DOMAIN rows : rows[n].run # run
Traceless == job.run \notin folders \cup foldersFile

Errors == ReadErrors \cup {"none", "Bookmarks", "History", "RollbackFailed"}

Job == [state : {"Pending", "Reading", "Written", "Failed"}, error : Errors, run : Nat,
        counts : [bookmarks : Nat, history : Nat]]

JobInv ==
  /\ job \in Job /\ data \in Profile
  /\ doing \in {"nothing", "bookmarks", "history", "undo"}
  /\ doing # "nothing" => job.state = "Reading"
  /\ folders \cup foldersFile \subseteq 0..job.run

\* What a run that is reading or that failed has left, and what one that is
\* writing has on disk.
TraceInv ==
  /\ job.state \in {"Reading", "Failed"} =>
       job.run # 0 /\ NoneOf(history, job.run) /\ NoneOf(file, job.run)
  /\ job.state = "Reading" /\ (doing \in {"nothing", "bookmarks"} \/ ~data.bookmarks) => Traceless
  /\ job.state = "Failed" /\ job.error # "RollbackFailed" => Traceless
  /\ doing = "history" /\ data.bookmarks => job.run \in folders \cap foldersFile
  /\ doing = "undo" => data.bookmarks

ImportInv == HistoryInv /\ JobInv /\ TraceInv

\* No row of a run appears, in memory or in the file, where there was none.
Carried ==
  \A run \in Nat \ {0} : NoneOf(history, run) /\ NoneOf(file, run) =>
                           NoneOf(history', run) /\ NoneOf(file', run)

LEMMA StoredNone ==
  ASSUME NEW rows, NEW made \in Nat, NEW last \in Nat, NEW gone, RowsOK(rows, made, last, gone),
         NEW run, NoneOf(rows, run)
  PROVE  NoneOf(Stored(rows), run)
BY StoredRows DEF NoneOf

LEMMA EraseKeeps ==
  ASSUME HistoryInv, job.run \in Nat, NEW kept \in SUBSET (DOMAIN history), Erase(kept), job' = job
  PROVE  HistoryInv' /\ Carried
<1> DEFINE rows == Restrict(history, kept)
<1>1. /\ RowsOK(rows, rowsMade, job.run, erased)
      /\ RowsOK(rows, rowsMade, job.run, erased \cup (DOMAIN history \ kept))
      /\ DOMAIN rows = kept /\ \A n \in kept : rows[n] = history[n]
  BY RestrictedRows DEF HistoryInv
<1>2. history' = rows /\ rowsMade' = rowsMade /\ rowsMade \in Nat
  BY DEF Erase, HistoryInv
<1>3. \A run : NoneOf(history, run) => NoneOf(rows, run)
  BY <1>1 DEF NoneOf
<1> HIDE DEF rows
<1>4. CASE SaveSucceeds(history') /\ erased' = erased \cup (DOMAIN history \ kept)
  <2>1. file' = Stored(rows)
    BY <1>2, <1>4 DEF SaveSucceeds
  <2>2. RowsOK(Stored(rows), rowsMade, job.run, erased \cup (DOMAIN history \ kept))
    BY <1>1, <1>2, StoredRows
  <2>3. erased' \subseteq 1..rowsMade
    BY <1>4 DEF HistoryInv, RowsOK
  <2>4. HistoryInv'
    BY <1>1, <1>2, <1>4, <2>1, <2>2, <2>3 DEF HistoryInv
  <2>5. Carried
    BY <1>1, <1>2, <1>3, <2>1, StoredNone DEF Carried
  <2>6. QED BY <2>4, <2>5
<1>5. CASE SaveRefused /\ UNCHANGED erased
  <2>1. file' = file /\ erased' = erased
    BY <1>5 DEF SaveRefused
  <2>2. HistoryInv'
    BY <1>1, <1>2, <2>1 DEF HistoryInv
  <2>3. Carried
    BY <1>2, <1>3, <2>1 DEF Carried
  <2>4. QED BY <2>2, <2>3
<1>6. QED BY <1>4, <1>5 DEF Erase

LEMMA MemberErasesKeeps ==
  ASSUME HistoryInv, job.run \in Nat, MemberErases, job' = job
  PROVE  HistoryInv' /\ Carried
<1>1. ASSUME NEW n \in DOMAIN history, DeleteEntry(history[n].id) PROVE HistoryInv' /\ Carried
  <2> DEFINE kept == {m \in DOMAIN history : history[m].id # history[n].id}
  <2>1. kept \in SUBSET (DOMAIN history) /\ Erase(kept)
    BY <1>1 DEF DeleteEntry
  <2>2. QED BY <2>1, EraseKeeps
<1>2. ASSUME NEW from \in Times, NEW to \in Times, DeleteRange(from, to) PROVE HistoryInv' /\ Carried
  <2> DEFINE kept == {n \in DOMAIN history :
                        history[n].at < Min({from, to}) \/ history[n].at > Max({from, to})}
  <2>1. kept \in SUBSET (DOMAIN history) /\ Erase(kept)
    BY <1>2 DEF DeleteRange
  <2> HIDE DEF kept
  <2>2. QED BY <2>1, EraseKeeps
<1>3. ASSUME Clear PROVE HistoryInv' /\ Carried
  <2>1. CASE Erase({})
    <3>1. {} \in SUBSET (DOMAIN history)
      OBVIOUS
    <3>2. QED BY <2>1, <3>1, EraseKeeps
  <2>2. CASE /\ history = NoHistory
             /\ SaveSucceeds(NoHistory) \/ SaveRefused
             /\ UNCHANGED <<history, nextId, rowsMade, erased>>
    <3>1. history' = history /\ rowsMade' = rowsMade /\ erased' = erased
      BY <2>2
    <3>2. file' = Stored(history) \/ file' = file
      BY <2>2 DEF SaveSucceeds, SaveRefused
    <3>3. RowsOK(Stored(history), rowsMade, job.run, erased)
      BY StoredRows DEF HistoryInv
    <3>4. HistoryInv'
      BY <3>1, <3>2, <3>3 DEF HistoryInv
    <3>5. \A run : NoneOf(history, run) => NoneOf(Stored(history), run)
      BY StoredNone DEF HistoryInv
    <3>6. QED BY <3>1, <3>2, <3>4, <3>5 DEF Carried
  <2>3. QED BY <1>3, <2>1, <2>2 DEF Clear
<1>4. QED BY <1>1, <1>2, <1>3 DEF MemberErases

LEMMA RecordKeeps ==
  ASSUME HistoryInv, job.run \in Nat, NEW address \in Addresses, NEW at \in Times, NEW kind,
         Record(address, at, kind), job' = job
  PROVE  HistoryInv' /\ Carried
<1> DEFINE visit == [address |-> address, at |-> at]
           visits == <<visit>>
           now == Pushed(Made(visits, 0))
<1>1. visits \in Seq(Visit) /\ Len(visits) = 1 /\ DOMAIN visits = 1..1
  <2>1. visit \in Visit
    BY HistoryAssumption DEF Visit
  <2> HIDE DEF visit
  <2>2. QED BY <2>1
<1>2. Pushable(visits, 0)
  BY DEF Pushable
<1>3. /\ history' = now
      /\ SaveSucceeds(now) \/ SaveRefused
      /\ rowsMade' = rowsMade + 1 /\ erased' = erased
  BY DEF Record
<1> HIDE DEF visits
<1>4. rowsMade \in Nat /\ erased \subseteq 1..rowsMade /\ 0 <= job.run /\ rowsMade + 1 \in Nat
  BY DEF HistoryInv
<1>5. /\ RowsOK(now, rowsMade + 1, job.run, erased)
      /\ DOMAIN now = DOMAIN history \cup (rowsMade + 1)..(rowsMade + 1)
      /\ \A n \in DOMAIN history : now[n] = history[n]
      /\ \A n \in (rowsMade + 1)..(rowsMade + 1) : now[n].run = 0
  <2>1. RowsOK(history, rowsMade, job.run, erased) /\ 0 \in Nat
    BY DEF HistoryInv
  <2>2. /\ RowsOK(now, rowsMade + Len(visits), job.run, erased)
        /\ DOMAIN now = DOMAIN history \cup (rowsMade + 1)..(rowsMade + Len(visits))
        /\ \A n \in DOMAIN history : now[n] = history[n]
        /\ \A n \in (rowsMade + 1)..(rowsMade + Len(visits)) : now[n].run = 0
    BY <1>1, <1>2, <1>4, <2>1, PushedRows
  <2>3. Len(visits) = 1
    BY <1>1
  <2>4. QED BY <2>2, <2>3
<1> HIDE DEF now
<1>6. \A run \in Nat \ {0} : NoneOf(history, run) => NoneOf(now, run)
  BY <1>5 DEF NoneOf
<1>7. RowsOK(file, rowsMade + 1, job.run, erased)
  <2>1. rowsMade <= rowsMade + 1 /\ job.run <= job.run
    BY <1>4
  <2>2. QED BY <1>4, <2>1, LaterRows DEF HistoryInv
<1>8. RowsOK(Stored(now), rowsMade + 1, job.run, erased) /\
      \A run : NoneOf(now, run) => NoneOf(Stored(now), run)
  BY <1>4, <1>5, StoredRows, StoredNone
<1>9. file' = Stored(now) \/ file' = file
  BY <1>3 DEF SaveSucceeds, SaveRefused
<1>10. erased \subseteq 1..(rowsMade + 1)
  BY <1>4
<1>11. HistoryInv'
  BY <1>3, <1>4, <1>5, <1>7, <1>8, <1>9, <1>10 DEF HistoryInv
<1>12. Carried
  BY <1>3, <1>6, <1>8, <1>9 DEF Carried
<1>13. QED BY <1>11, <1>12

(***************************************************************************)
(* Every step keeps it                                                     *)
(***************************************************************************)

LEMMA ImportStart == ImportInit => ImportInv
<1> SUFFICES ASSUME ImportInit PROVE ImportInv
  OBVIOUS
<1> USE DEF ImportInit, HistoryInit
<1>1. job = [state |-> "Pending", error |-> "none", run |-> 0,
             counts |-> [bookmarks |-> 0, history |-> 0]]
  BY DEF Pending, NoCounts
<1>2. job \in Job /\ job.run = 0 /\ job.state = "Pending"
  BY <1>1 DEF Job, Errors
<1>3. data \in Profile
  <2>1. <<>> \in Seq(Visit)
    OBVIOUS
  <2>2. QED BY <2>1 DEF Profile, NoData
<1>4. HistoryInv
  BY EmptyRows DEF HistoryInv
<1>5. JobInv
  BY <1>2, <1>3 DEF JobInv
<1>6. TraceInv
  BY <1>2 DEF TraceInv
<1>7. QED BY <1>4, <1>5, <1>6 DEF ImportInv

\* The job fails: its traces are as the step leaves them.
LEMMA FailsTyped ==
  ASSUME JobInv, NEW error \in Errors, Fails(error)
  PROVE  /\ job' \in Job /\ data' \in Profile /\ doing' = "nothing" /\ job'.run = job.run
         /\ job'.state = "Failed" /\ job'.error = error
<1>1. job' = [state |-> "Failed", error |-> error, run |-> job.run,
              counts |-> [bookmarks |-> 0, history |-> 0]]
  BY DEF JobInv, Job, Fails, NoCounts
<1>2. job.run \in Nat
  BY DEF JobInv, Job
<1>3. job' \in Job
  BY <1>1, <1>2 DEF Job
<1>4. data' \in Profile
  <2>1. <<>> \in Seq(Visit)
    OBVIOUS
  <2>2. QED BY <2>1 DEF Profile, NoData, Fails
<1>5. QED BY <1>1, <1>3, <1>4 DEF Fails

LEMMA SameHistory ==
  ASSUME HistoryInv, UNCHANGED historyVars, job.run \in Nat, job'.run \in Nat, job.run <= job'.run
  PROVE  HistoryInv'
<1>1. history' = history /\ file' = file /\ rowsMade' = rowsMade /\ erased' = erased
  BY DEF historyVars
<1>2. RowsOK(history, rowsMade, job'.run, erased) /\ RowsOK(file, rowsMade, job'.run, erased)
  <2>1. rowsMade \in Nat /\ rowsMade <= rowsMade
    BY DEF HistoryInv
  <2>2. QED BY <2>1, LaterRows DEF HistoryInv
<1>3. QED BY <1>1, <1>2 DEF HistoryInv

LEMMA StartReadingKeeps == ImportInv /\ StartReading => ImportInv'
<1> SUFFICES ASSUME ImportInv, StartReading PROVE ImportInv'
  OBVIOUS
<1>1. HistoryInv /\ JobInv /\ TraceInv
  BY DEF ImportInv
<1>2. job.run \in Nat
  BY <1>1 DEF JobInv, Job
<1>3. job' = [state |-> "Reading", error |-> "none", run |-> job.run + 1,
              counts |-> [bookmarks |-> 0, history |-> 0]]
  BY DEF StartReading, Pending, NoCounts
<1>4. job' \in Job /\ job'.run = job.run + 1 /\ job'.state = "Reading" /\ job'.run \in Nat
      /\ job.run <= job'.run
  BY <1>2, <1>3 DEF Job, Errors
<1>5. UNCHANGED historyVars /\ UNCHANGED <<history, file, doing, data, folders, foldersFile>>
  BY DEF StartReading, historyVars
<1>6. doing = "nothing"
  BY <1>1 DEF StartReading, JobInv
<1>7. HistoryInv'
  BY <1>1, <1>2, <1>4, <1>5, SameHistory
<1>8. JobInv'
  <2>1. folders \cup foldersFile \subseteq 0..(job.run + 1)
    BY <1>1, <1>2 DEF JobInv
  <2>2. QED BY <1>1, <1>4, <1>5, <1>6, <2>1 DEF JobInv
<1>9. NoneOf(history, job.run + 1) /\ NoneOf(file, job.run + 1)
  <2>1. \A n \in DOMAIN history : history[n].run \in Nat /\ history[n].run <= job.run
    BY <1>1 DEF HistoryInv, RowsOK, IsRow
  <2>2. \A n \in DOMAIN file : file[n].run \in Nat /\ file[n].run <= job.run
    BY <1>1 DEF HistoryInv, RowsOK, IsRow
  <2>3. \A m \in Nat : m <= job.run => m # job.run + 1
    BY <1>2
  <2>4. QED BY <2>1, <2>2, <2>3 DEF NoneOf
<1>10. Traceless'
  <2>1. job.run + 1 \notin 0..job.run
    BY <1>2
  <2>2. QED BY <1>1, <1>4, <1>5, <2>1 DEF JobInv, Traceless
<1>11. TraceInv'
  <2>1. job'.run # 0
    BY <1>2, <1>4
  <2>2. QED BY <1>4, <1>5, <1>6, <1>9, <1>10, <2>1 DEF TraceInv
<1>12. QED BY <1>7, <1>8, <1>11 DEF ImportInv

LEMMA ReadReturnsKeeps ==
  ASSUME ImportInv, NEW profile \in Profiles, ReadReturns(profile) PROVE ImportInv'
<1>1. HistoryInv /\ JobInv /\ TraceInv
  BY DEF ImportInv
<1>2. /\ UNCHANGED historyVars /\ UNCHANGED <<history, file, job, folders, foldersFile>>
      /\ data' = profile /\ doing' = "bookmarks" /\ job.state = "Reading" /\ doing = "nothing"
  BY DEF ReadReturns, historyVars
<1>3. profile \in Profile
  BY ImportAssumption DEF Profile, Visit
<1>4. HistoryInv'
  <2>1. job.run \in Nat /\ job'.run = job.run /\ job.run <= job.run
    BY <1>1, <1>2 DEF JobInv, Job
  <2>2. QED BY <1>1, <1>2, <2>1, SameHistory
<1>5. JobInv'
  BY <1>1, <1>2, <1>3 DEF JobInv
<1>6. TraceInv'
  BY <1>1, <1>2 DEF TraceInv, Traceless
<1>7. QED BY <1>4, <1>5, <1>6 DEF ImportInv

LEMMA ReadFailedKeeps ==
  ASSUME ImportInv, NEW error \in ReadErrors, ReadFailed(error) PROVE ImportInv'
<1>1. HistoryInv /\ JobInv /\ TraceInv
  BY DEF ImportInv
<1>2. UNCHANGED historyVars /\ UNCHANGED <<history, file, folders, foldersFile>> /\ Fails(error)
      /\ job.state = "Reading" /\ doing = "nothing"
  BY DEF ReadFailed, historyVars
<1>3. /\ job' \in Job /\ data' \in Profile /\ doing' = "nothing" /\ job'.run = job.run
      /\ job'.state = "Failed" /\ job'.error = error
  <2>1. error \in Errors
    BY DEF Errors
  <2>2. QED BY <1>1, <1>2, <2>1, FailsTyped
<1>4. HistoryInv'
  <2>1. job.run \in Nat /\ job.run <= job.run
    BY <1>1 DEF JobInv, Job
  <2>2. QED BY <1>1, <1>2, <1>3, <2>1, SameHistory
<1>5. JobInv'
  BY <1>1, <1>2, <1>3 DEF JobInv
<1>6. TraceInv'
  BY <1>1, <1>2, <1>3 DEF TraceInv, Traceless
<1>7. QED BY <1>4, <1>5, <1>6 DEF ImportInv

LEMMA WriteBookmarksKeeps == ImportInv /\ WriteBookmarks => ImportInv'
<1> SUFFICES ASSUME ImportInv, WriteBookmarks PROVE ImportInv'
  OBVIOUS
<1>1. HistoryInv /\ JobInv /\ TraceInv /\ doing = "bookmarks" /\ job.state = "Reading"
  BY DEF ImportInv, JobInv, WriteBookmarks
<1>2. job.run \in Nat /\ job.run <= job.run
  BY <1>1 DEF JobInv, Job
<1>3. CASE /\ data.bookmarks
           /\ folders' = folders \cup {job.run} /\ foldersFile' = folders'
           /\ doing' = "history"
           /\ UNCHANGED <<historyVars, job, data>>
  <2>1. HistoryInv'
    BY <1>1, <1>2, <1>3, SameHistory
  <2>2. history' = history /\ file' = file
    BY <1>3 DEF historyVars
  <2>3. JobInv'
    BY <1>1, <1>2, <1>3 DEF JobInv
  <2>4. TraceInv'
    BY <1>1, <1>3, <2>2 DEF TraceInv
  <2>5. QED BY <2>1, <2>3, <2>4 DEF ImportInv
<1>4. CASE /\ ~data.bookmarks
           /\ doing' = "history"
           /\ UNCHANGED <<historyVars, job, data, folders, foldersFile>>
  <2>1. HistoryInv'
    BY <1>1, <1>2, <1>4, SameHistory
  <2>2. history' = history /\ file' = file
    BY <1>4 DEF historyVars
  <2>3. JobInv'
    BY <1>1, <1>2, <1>4 DEF JobInv
  <2>4. TraceInv'
    BY <1>1, <1>4, <2>2 DEF TraceInv, Traceless
  <2>5. QED BY <2>1, <2>3, <2>4 DEF ImportInv
<1>5. CASE /\ data.bookmarks
           /\ SaveRefused
           /\ Fails("Bookmarks")
           /\ UNCHANGED <<history, nextId, rowsMade, erased, folders, foldersFile>>
  <2>1. /\ job' \in Job /\ data' \in Profile /\ doing' = "nothing" /\ job'.run = job.run
        /\ job'.state = "Failed" /\ job'.error = "Bookmarks"
    BY <1>1, <1>5, FailsTyped DEF Errors
  <2>2. file' = file /\ history' = history /\ rowsMade' = rowsMade /\ erased' = erased
        /\ folders' = folders /\ foldersFile' = foldersFile
    BY <1>5 DEF SaveRefused
  <2>3. HistoryInv'
    BY <1>1, <2>1, <2>2 DEF HistoryInv
  <2>4. JobInv'
    BY <1>1, <2>1, <2>2 DEF JobInv
  <2>5. TraceInv'
    BY <1>1, <2>1, <2>2 DEF TraceInv, Traceless
  <2>6. QED BY <2>3, <2>4, <2>5 DEF ImportInv
<1>6. QED BY <1>3, <1>4, <1>5 DEF WriteBookmarks

LEMMA UndoBookmarksKeeps == ImportInv /\ UndoBookmarks => ImportInv'
<1> SUFFICES ASSUME ImportInv, UndoBookmarks PROVE ImportInv'
  OBVIOUS
<1>1. HistoryInv /\ JobInv /\ TraceInv /\ doing = "undo" /\ job.state = "Reading"
  BY DEF ImportInv, JobInv, UndoBookmarks
<1>2. job.run \in Nat /\ job.run <= job.run
  BY <1>1 DEF JobInv, Job
<1>3. CASE /\ folders' = folders \ {job.run} /\ foldersFile' = folders'
           /\ Fails("History")
           /\ UNCHANGED historyVars
  <2>1. /\ job' \in Job /\ data' \in Profile /\ doing' = "nothing" /\ job'.run = job.run
        /\ job'.state = "Failed" /\ job'.error = "History"
    BY <1>1, <1>3, FailsTyped DEF Errors
  <2>2. HistoryInv'
    BY <1>1, <1>2, <1>3, <2>1, SameHistory
  <2>3. history' = history /\ file' = file
    BY <1>3 DEF historyVars
  <2>4. JobInv'
    BY <1>1, <1>3, <2>1 DEF JobInv
  <2>5. TraceInv'
    BY <1>1, <1>3, <2>1, <2>3 DEF TraceInv, Traceless
  <2>6. QED BY <2>2, <2>4, <2>5 DEF ImportInv
<1>4. CASE /\ SaveRefused
           /\ Fails("RollbackFailed")
           /\ UNCHANGED <<history, nextId, rowsMade, erased, folders, foldersFile>>
  <2>1. /\ job' \in Job /\ data' \in Profile /\ doing' = "nothing" /\ job'.run = job.run
        /\ job'.state = "Failed" /\ job'.error = "RollbackFailed"
    BY <1>1, <1>4, FailsTyped DEF Errors
  <2>2. file' = file /\ history' = history /\ rowsMade' = rowsMade /\ erased' = erased
        /\ folders' = folders /\ foldersFile' = foldersFile
    BY <1>4 DEF SaveRefused
  <2>3. HistoryInv'
    BY <1>1, <2>1, <2>2 DEF HistoryInv
  <2>4. JobInv'
    BY <1>1, <2>1, <2>2 DEF JobInv
  <2>5. TraceInv'
    BY <1>1, <2>1, <2>2 DEF TraceInv, Traceless
  <2>6. QED BY <2>3, <2>4, <2>5 DEF ImportInv
<1>5. QED BY <1>3, <1>4 DEF UndoBookmarks

LEMMA StartAgainKeeps == ImportInv /\ StartAgain => ImportInv'
<1> SUFFICES ASSUME ImportInv, StartAgain PROVE ImportInv'
  OBVIOUS
<1>1. HistoryInv /\ JobInv
  BY DEF ImportInv
<1>2. job.run \in Nat
  BY <1>1 DEF JobInv, Job
<1>3. job' = [state |-> "Pending", error |-> "none", run |-> job.run,
              counts |-> [bookmarks |-> 0, history |-> 0]]
  BY DEF StartAgain, Pending, NoCounts
<1>4. job' \in Job /\ job'.run = job.run /\ job'.state = "Pending"
  BY <1>2, <1>3 DEF Job, Errors
<1>5. /\ doing' = "nothing" /\ data' = NoData /\ folders' = foldersFile /\ foldersFile' = foldersFile
      /\ history' = file \/ history' = NoHistory
      /\ file' = file /\ rowsMade' = rowsMade /\ erased' = erased
  BY DEF StartAgain, OpenHistory
<1>6. NoData \in Profile
  <2>1. <<>> \in Seq(Visit)
    OBVIOUS
  <2>2. QED BY <2>1 DEF Profile, NoData
<1>7. HistoryInv'
  BY <1>1, <1>4, <1>5, EmptyRows DEF HistoryInv
<1>8. JobInv'
  BY <1>1, <1>4, <1>5, <1>6 DEF JobInv
<1>9. TraceInv'
  BY <1>4, <1>5 DEF TraceInv
<1>10. QED BY <1>7, <1>8, <1>9 DEF ImportInv

LEMMA MemberKeeps == ImportInv /\ Member => ImportInv'
<1> SUFFICES ASSUME ImportInv, Member PROVE ImportInv'
  OBVIOUS
<1>1. HistoryInv /\ JobInv /\ TraceInv
  BY DEF ImportInv
<1>2. job.run \in Nat /\ job.run <= job.run
  BY <1>1 DEF JobInv, Job
<1>3. job' = job /\ doing' = doing /\ data' = data /\ doing = "nothing"
  BY DEF Member
<1>4. CASE (MemberNavigates \/ MemberErases) /\ UNCHANGED <<folders, foldersFile>>
  <2>1. HistoryInv' /\ Carried
    BY <1>1, <1>2, <1>3, <1>4, RecordKeeps, MemberErasesKeeps DEF MemberNavigates
  <2>2. JobInv'
    BY <1>1, <1>3, <1>4 DEF JobInv
  <2>3. TraceInv'
    <3>1. job.run # 0 => job.run \in Nat \ {0}
      BY <1>2
    <3>2. QED BY <1>1, <1>3, <1>4, <2>1, <3>1 DEF TraceInv, Traceless, Carried
  <2>4. QED BY <2>1, <2>2, <2>3 DEF ImportInv
<1>5. CASE MemberDeletesFolder
  <2>1. /\ folders' \subseteq folders
        /\ foldersFile' = folders' \/ foldersFile' = foldersFile
        /\ history' = history /\ file' = file /\ rowsMade' = rowsMade /\ erased' = erased
    BY <1>5 DEF MemberDeletesFolder, SaveRefused
  <2>2. HistoryInv'
    BY <1>1, <1>3, <2>1 DEF HistoryInv
  <2>3. JobInv'
    BY <1>1, <1>3, <2>1 DEF JobInv
  <2>4. TraceInv'
    BY <1>1, <1>3, <2>1 DEF TraceInv, Traceless
  <2>5. QED BY <2>2, <2>3, <2>4 DEF ImportInv
<1>6. QED BY <1>4, <1>5 DEF Member

\* The rows read, once they are written.
LEMMA RecordBatchKeeps ==
  ASSUME HistoryInv, job.run \in Nat, NEW visits \in Seq(Visit), Pushable(visits, job.run),
         RecordBatch(visits, job.run), job'.run = job.run
  PROVE  /\ HistoryInv'
         /\ \A n \in DOMAIN history : n \in DOMAIN history' /\ history'[n] = history[n]
         /\ \A k \in DOMAIN visits : \E n \in DOMAIN history' : RowOf(history'[n]) = RowOf(visits[k])
         /\ NoneOf(history, job.run) /\ NoneOf(file, job.run) =>
              Cardinality(ofRun(file', job.run)) = Len(visits)
<1> DEFINE L == Len(visits)
           now == Pushed(Made(visits, job.run))
           New == (rowsMade + 1)..(rowsMade + L)
<1>1. L \in Nat /\ DOMAIN visits = 1..L /\ rowsMade \in Nat /\ rowsMade + L \in Nat
  BY DEF HistoryInv
<1>2. /\ history' = now /\ rowsMade' = rowsMade + L /\ erased' = erased
      /\ IF visits = <<>> THEN file' = file ELSE file' = Stored(now)
  BY DEF RecordBatch, SaveSucceeds
<1>3. /\ RowsOK(now, rowsMade + L, job.run, erased)
      /\ DOMAIN now = DOMAIN history \cup New
      /\ \A n \in DOMAIN history : now[n] = history[n]
      /\ \A k \in DOMAIN visits : rowsMade + k \in New /\ RowOf(now[rowsMade + k]) = RowOf(visits[k])
      /\ \A n \in New : now[n].run = job.run
  <2>1. /\ RowsOK(history, rowsMade, job.run, erased) /\ job.run <= job.run
        /\ erased \subseteq 1..rowsMade
    BY DEF HistoryInv
  <2>2. QED BY <1>1, <2>1, PushedRows
<1> HIDE DEF now, New
<1>4. /\ RowsOK(Stored(now), rowsMade + L, job.run, erased)
      /\ DOMAIN Stored(now) = DOMAIN now
      /\ \A n \in DOMAIN now : Stored(now)[n].run = now[n].run
  BY <1>1, <1>3, StoredRows
<1>5. RowsOK(file, rowsMade + L, job.run, erased)
  <2>1. rowsMade <= rowsMade + L /\ job.run <= job.run
    BY <1>1
  <2>2. QED BY <1>1, <2>1, LaterRows DEF HistoryInv
<1>6. erased \subseteq 1..(rowsMade + L)
  BY <1>1 DEF HistoryInv
<1>7. HistoryInv'
  BY <1>1, <1>2, <1>3, <1>4, <1>5, <1>6 DEF HistoryInv
<1>8. ASSUME NEW k \in DOMAIN visits
      PROVE  \E n \in DOMAIN history' : RowOf(history'[n]) = RowOf(visits[k])
  BY <1>2, <1>3
<1>9. ASSUME NoneOf(history, job.run), NoneOf(file, job.run)
      PROVE  Cardinality(ofRun(file', job.run)) = L
  <2>1. CASE visits = <<>>
    <3>1. file' = file /\ L = 0
      BY <1>2, <2>1
    <3>2. ofRun(file', job.run) = {}
      BY <1>9, <3>1 DEF ofRun, NoneOf
    <3>3. QED BY <3>1, <3>2, FS_EmptySet
  <2>2. CASE visits # <<>>
    <3>1. file' = Stored(now)
      BY <1>2, <2>2
    <3>2. ofRun(file', job.run) = New
      BY <1>3, <1>4, <1>9, <3>1 DEF ofRun, NoneOf
    <3>3. Cardinality(New) = L
      <4>1. rowsMade + 1 \in Int /\ rowsMade + L \in Int
        BY <1>1
      <4>2. Cardinality(New) = IF rowsMade + 1 > rowsMade + L THEN 0
                               ELSE (rowsMade + L) - (rowsMade + 1) + 1
        BY <4>1, FS_Interval DEF New
      <4>3. QED BY <1>1, <4>2
    <3>4. QED BY <3>2, <3>3
  <2>3. QED BY <2>1, <2>2
<1>10. QED BY <1>2, <1>3, <1>7, <1>8, <1>9

LEMMA WriteHistoryKeeps == ImportInv /\ WriteHistory => ImportInv'
<1> SUFFICES ASSUME ImportInv, WriteHistory PROVE ImportInv'
  OBVIOUS
<1>1. HistoryInv /\ JobInv /\ TraceInv /\ doing = "history" /\ job.state = "Reading"
  BY DEF ImportInv, JobInv, WriteHistory
<1>2. job.run \in Nat /\ job.run <= job.run /\ data.visits \in Seq(Visit)
      /\ data.bookmarks \in BOOLEAN
  BY <1>1 DEF JobInv, Job, Profile
<1> DEFINE fresh == Fresh(data.visits)
           counted == IF data.bookmarks THEN Len(Bookmarked) ELSE 0
<1>3. fresh \in Seq(Visit) /\ Pushable(fresh, job.run)
  BY <1>2, FreshRows
<1>4. Len(fresh) \in Nat /\ counted \in Nat
  <2>1. Bookmarked \in Seq(Texts)
    BY ImportAssumption
  <2>2. Len(Bookmarked) \in Nat
    BY <2>1
  <2> HIDE DEF fresh
  <2>3. QED BY <1>3, <2>2
<1>5. folders' = folders /\ foldersFile' = foldersFile
  BY DEF WriteHistory
<1>6. CASE /\ RecordBatch(fresh, job.run)
           /\ job' = [job EXCEPT !.state = "Written",
                        !.counts = [bookmarks |-> counted, history |-> Len(fresh)]]
           /\ doing' = "nothing" /\ data' = NoData
  <2> HIDE DEF fresh, counted
  <2>1. job' = [state |-> "Written", error |-> job.error, run |-> job.run,
                counts |-> [bookmarks |-> counted, history |-> Len(fresh)]]
    BY <1>1, <1>6 DEF JobInv, Job
  <2>2. job' \in Job /\ job'.run = job.run /\ job'.state = "Written"
    BY <1>1, <1>2, <1>4, <2>1 DEF JobInv, Job
  <2>3. HistoryInv'
    BY <1>1, <1>2, <1>3, <1>6, <2>2, RecordBatchKeeps
  <2>4. NoData \in Profile
    <3>1. <<>> \in Seq(Visit)
      OBVIOUS
    <3>2. QED BY <3>1 DEF Profile, NoData
  <2>5. JobInv'
    BY <1>1, <1>5, <1>6, <2>2, <2>4 DEF JobInv
  <2>6. TraceInv'
    BY <1>6, <2>2 DEF TraceInv
  <2>7. QED BY <2>3, <2>5, <2>6 DEF ImportInv
<1>7. CASE /\ RecordBatchRefused(fresh)
           /\ IF data.bookmarks THEN doing' = "undo" /\ UNCHANGED <<job, data>> ELSE Fails("History")
  <2>1. history' = history /\ file' = file /\ rowsMade' = rowsMade /\ erased' = erased
    BY <1>7 DEF RecordBatchRefused, SaveRefused
  <2>2. CASE data.bookmarks
    <3>1. doing' = "undo" /\ job' = job /\ data' = data
      BY <1>7, <2>2
    <3>2. HistoryInv'
      BY <1>1, <2>1, <3>1 DEF HistoryInv
    <3>3. JobInv'
      BY <1>1, <1>5, <3>1 DEF JobInv
    <3>4. TraceInv'
      BY <1>1, <1>5, <2>1, <2>2, <3>1 DEF TraceInv
    <3>5. QED BY <3>2, <3>3, <3>4 DEF ImportInv
  <2>3. CASE ~data.bookmarks
    <3>1. /\ job' \in Job /\ data' \in Profile /\ doing' = "nothing" /\ job'.run = job.run
          /\ job'.state = "Failed" /\ job'.error = "History"
      <4>1. Fails("History") /\ "History" \in Errors
        BY <1>7, <2>3 DEF Errors
      <4>2. QED BY <1>1, <4>1, FailsTyped
    <3>2. HistoryInv'
      BY <1>1, <2>1, <3>1 DEF HistoryInv
    <3>3. JobInv'
      BY <1>1, <1>5, <3>1 DEF JobInv
    <3>4. TraceInv'
      BY <1>1, <1>5, <2>1, <2>3, <3>1 DEF TraceInv, Traceless
    <3>5. QED BY <3>2, <3>3, <3>4 DEF ImportInv
  <2>4. QED BY <2>2, <2>3
<1>8. QED BY <1>6, <1>7 DEF WriteHistory

LEMMA ImportStep == ImportInv /\ [ImportNext]_profileVars => ImportInv'
<1> SUFFICES ASSUME ImportInv, [ImportNext]_profileVars PROVE ImportInv'
  OBVIOUS
<1>1. CASE UNCHANGED profileVars
  <2>1. /\ history' = history /\ file' = file /\ rowsMade' = rowsMade /\ erased' = erased
        /\ job' = job /\ doing' = doing /\ data' = data /\ folders' = folders
        /\ foldersFile' = foldersFile
    BY <1>1 DEF profileVars, historyVars, importVars
  <2>2. HistoryInv'
    BY <2>1 DEF ImportInv, HistoryInv
  <2>3. JobInv'
    BY <2>1 DEF ImportInv, JobInv
  <2>4. TraceInv'
    BY <2>1 DEF ImportInv, TraceInv, Traceless
  <2>5. QED BY <2>2, <2>3, <2>4 DEF ImportInv
<1>2. QED
  BY <1>1, StartReadingKeeps, ReadReturnsKeeps, ReadFailedKeeps, WriteBookmarksKeeps,
     WriteHistoryKeeps, UndoBookmarksKeeps, MemberKeeps, StartAgainKeeps DEF ImportNext

LEMMA ImportInvariant == ImportSpec => []ImportInv
BY ImportStart, ImportStep, PTL DEF ImportSpec

(* An import that failed and does not say that its bookmarks remain has    *)
(* left no folder and no row, in memory or in a file, whatever was         *)
(* refused, done by the member or cut short in between.                    *)
THEOREM FailedLeavesNothing == ImportSpec => []FailureLeavesNothing
<1>1. ImportInv => FailureLeavesNothing
  <2> SUFFICES ASSUME ImportInv, job.state = "Failed", job.error # "RollbackFailed"
               PROVE  /\ job.run \notin folders \cup foldersFile
                      /\ ofRun(history, job.run) = {} /\ ofRun(file, job.run) = {}
    BY DEF FailureLeavesNothing
  <2>1. Traceless /\ NoneOf(history, job.run) /\ NoneOf(file, job.run)
    BY DEF ImportInv, TraceInv
  <2>2. QED BY <2>1 DEF Traceless, NoneOf, ofRun
<1>2. QED BY <1>1, ImportInvariant, PTL

(* No address and millisecond is imported twice, for any profiles and any  *)
(* number of imports and restarts.                                         *)
THEOREM NothingIsImportedTwice == ImportSpec => []ImportedOnce
<1>1. ImportInv => ImportedOnce
  BY DEF ImportInv, HistoryInv, RowsOK, ImportedOnce
<1>2. QED BY <1>1, ImportInvariant, PTL

(* A row whose erasure was acknowledged is in no list and in no file       *)
(* again.                                                                  *)
THEOREM ErasedStaysGone == ImportSpec => []ErasedIsGone
<1>1. ImportInv => ErasedIsGone
  BY DEF ImportInv, HistoryInv, RowsOK, ErasedIsGone
<1>2. QED BY <1>1, ImportInvariant, PTL

(* A job that says it is written has everything that was read in the       *)
(* history, its own rows and its folder on disk, and counts them truly.    *)
THEOREM WrittenStaysWhole == ImportSpec => WrittenIsWhole
<1> DEFINE Step == job.state = "Reading" /\ job'.state = "Written" =>
       /\ \A k \in DOMAIN data.visits : \E n \in DOMAIN history' :
            RowOf(history'[n]) = RowOf(data.visits[k])
       /\ data.bookmarks => job.run \in folders' \cap foldersFile'
       /\ Cardinality(ofRun(file', job.run)) = job'.counts.history
<1>1. ASSUME ImportInv, [ImportNext]_profileVars, job.state = "Reading", job'.state = "Written"
      PROVE  /\ \A k \in DOMAIN data.visits : \E n \in DOMAIN history' :
                  RowOf(history'[n]) = RowOf(data.visits[k])
             /\ data.bookmarks => job.run \in folders' \cap foldersFile'
             /\ Cardinality(ofRun(file', job.run)) = job'.counts.history
  <2>1. HistoryInv /\ JobInv /\ TraceInv
    BY <1>1 DEF ImportInv
  <2>2. \A error \in Errors : Fails(error) => job'.state = "Failed"
    BY <2>1, FailsTyped
  <2> DEFINE fresh == Fresh(data.visits)
             counted == IF data.bookmarks THEN Len(Bookmarked) ELSE 0
  <2>3. /\ RecordBatch(fresh, job.run)
        /\ job' = [job EXCEPT !.state = "Written",
                     !.counts = [bookmarks |-> counted, history |-> Len(fresh)]]
        /\ doing = "history" /\ folders' = folders /\ foldersFile' = foldersFile
    <3>1. job' # job
      BY <1>1
    <3>2. ~UNCHANGED profileVars /\ ~Member /\ ~StartReading /\ ~StartAgain
      <4>1. StartAgain => job'.state = "Pending"
        BY DEF StartAgain, Pending
      <4>2. QED BY <1>1, <3>1, <4>1 DEF profileVars, importVars, Member, StartReading
    <3>3. \A profile \in Profiles : ~ReadReturns(profile)
      BY <3>1 DEF ReadReturns
    <3>4. \A error \in ReadErrors : ~ReadFailed(error)
      BY <1>1, <2>2 DEF ReadFailed, Errors
    <3>5. ~WriteBookmarks /\ ~UndoBookmarks
      <4>1. {"Bookmarks", "History", "RollbackFailed"} \subseteq Errors
        BY DEF Errors
      <4>2. ~Fails("Bookmarks") /\ ~Fails("History") /\ ~Fails("RollbackFailed")
        BY <1>1, <2>2, <4>1
      <4>3. QED BY <3>1, <4>2 DEF WriteBookmarks, UndoBookmarks
    <3>6. WriteHistory
      BY <1>1, <3>2, <3>3, <3>4, <3>5 DEF ImportNext
    <3>7. ~Fails("History")
      BY <1>1, <2>2 DEF Errors
    <3>8. QED BY <3>1, <3>6, <3>7 DEF WriteHistory
  <2>4. job.run \in Nat /\ data.visits \in Seq(Visit)
    BY <2>1 DEF JobInv, Job, Profile
  <2>5. /\ fresh \in Seq(Visit) /\ Pushable(fresh, job.run)
        /\ \A k \in DOMAIN data.visits :
             \/ \E n \in DOMAIN history : RowOf(history[n]) = RowOf(data.visits[k])
             \/ \E j \in DOMAIN fresh : RowOf(fresh[j]) = RowOf(data.visits[k])
    BY <2>4, FreshRows
  <2> HIDE DEF fresh, counted
  <2>6. job'.run = job.run /\ job'.counts.history = Len(fresh)
    BY <2>1, <2>3 DEF JobInv, Job
  <2>7. /\ \A n \in DOMAIN history : n \in DOMAIN history' /\ history'[n] = history[n]
        /\ \A k \in DOMAIN fresh : \E n \in DOMAIN history' : RowOf(history'[n]) = RowOf(fresh[k])
        /\ NoneOf(history, job.run) /\ NoneOf(file, job.run) =>
             Cardinality(ofRun(file', job.run)) = Len(fresh)
    BY <2>1, <2>3, <2>4, <2>5, <2>6, RecordBatchKeeps
  <2>8. NoneOf(history, job.run) /\ NoneOf(file, job.run)
    BY <1>1, <2>1 DEF TraceInv
  <2>9. ASSUME NEW k \in DOMAIN data.visits
        PROVE  \E n \in DOMAIN history' : RowOf(history'[n]) = RowOf(data.visits[k])
    <3>1. CASE \E n \in DOMAIN history : RowOf(history[n]) = RowOf(data.visits[k])
      BY <2>7, <3>1
    <3>2. CASE \E j \in DOMAIN fresh : RowOf(fresh[j]) = RowOf(data.visits[k])
      BY <2>7, <3>2
    <3>3. QED BY <2>5, <3>1, <3>2
  <2>10. data.bookmarks => job.run \in folders' \cap foldersFile'
    BY <2>1, <2>3 DEF TraceInv
  <2>11. QED BY <2>6, <2>7, <2>8, <2>9, <2>10
<1>2. ImportInv /\ [ImportNext]_profileVars => [Step]_profileVars
  BY <1>1
<1>3. QED BY <1>2, ImportInvariant, PTL DEF ImportSpec, WrittenIsWhole

(***************************************************************************)
(* What the address bar suggests                                           *)
(***************************************************************************)

Folds(g, n, base, step) ==
  g = [k \in 0..n |-> IF k = 0 THEN base ELSE step[<<g[k - 1], k>>]]

\* There is the function that is base at 0 and goes on by step.
LEMMA FoldExists ==
  ASSUME NEW S, NEW n \in Nat, NEW base \in S, NEW step \in [S \X (1..n) -> S]
  PROVE  \E g \in [0..n -> S] : Folds(g, n, base, step)
<1> DEFINE Upto(m, g) == g[0] = base /\ \A k \in 1..m : g[k] = step[<<g[k - 1], k>>]
           Built == {m \in Nat : m <= n => \E g \in [0..m -> S] : Upto(m, g)}
<1>1. 0 \in Built
  <2> DEFINE g == [k \in 0..0 |-> base]
  <2>1. g \in [0..0 -> S] /\ g[0] = base /\ 1..0 = {}
    OBVIOUS
  <2>2. QED BY <2>1
<1>2. ASSUME NEW m \in Nat, m \in Built PROVE m + 1 \in Built
  <2> SUFFICES ASSUME m + 1 <= n PROVE \E g \in [0..(m + 1) -> S] : Upto(m + 1, g)
    OBVIOUS
  <2>1. PICK h \in [0..m -> S] : Upto(m, h)
    BY <1>2
  <2> DEFINE new == step[<<h[m], m + 1>>]
             g == [k \in 0..(m + 1) |-> IF k = m + 1 THEN new ELSE h[k]]
  <2>2. new \in S
    <3>1. h[m] \in S /\ m + 1 \in 1..n
      OBVIOUS
    <3>2. QED BY <3>1
  <2> HIDE DEF new
  <2>3. g \in [0..(m + 1) -> S] /\ g[m + 1] = new /\ \A k \in 0..m : g[k] = h[k]
    BY <2>2
  <2> HIDE DEF g
  <2>4. g[0] = base
    BY <2>1, <2>3
  <2>5. ASSUME NEW k \in 1..(m + 1) PROVE g[k] = step[<<g[k - 1], k>>]
    <3>1. CASE k = m + 1
      BY <3>1, <2>3 DEF new
    <3>2. CASE k # m + 1
      <4>1. k \in 1..m /\ k \in 0..m /\ k - 1 \in 0..m
        BY <3>2
      <4>2. QED BY <4>1, <2>1, <2>3
    <3>3. QED BY <3>1, <3>2
  <2>6. QED BY <2>3, <2>4, <2>5
<1>3. PICK g \in [0..n -> S] : Upto(n, g)
  <2> HIDE DEF Upto
  <2>1. n \in Built
    <3> HIDE DEF Built
    <3>1. QED BY <1>1, <1>2, NatInductionOnSets
  <2>2. QED BY <2>1
<1> DEFINE f == [k \in 0..n |-> IF k = 0 THEN base ELSE step[<<g[k - 1], k>>]]
<1>4. \A k \in 0..n : g[k] = f[k]
  BY <1>3
<1>5. g = f
  BY <1>4
<1>6. QED BY <1>5 DEF Folds

Offer == [address : Texts, source : Sources]
Matches(q, o) == Bonus[q][o.address] # NoMatch
Of(q, o) == Candidate(q, o.address, o.source)
CandidatesOf(q) == {Of(q, o) : o \in {o \in Offer : Matches(q, o)}}
AllPages == {Page[a] : a \in Texts}

LEMMA PriorityIs ==
  ASSUME NEW s \in Sources, NEW t \in Sources
  PROVE  Priority(s) \in 1..3 /\ (Priority(s) = Priority(t) <=> s = t)
BY DEF Sources, Priority

LEMMA CandidateIs ==
  ASSUME NEW q \in DOMAIN Bonus, NEW c \in CandidatesOf(q)
  PROVE  /\ c.address \in Texts /\ c.source \in Sources /\ Bonus[q][c.address] # NoMatch
         /\ c = Candidate(q, c.address, c.source)
         /\ c.score \in Nat
         /\ 1000 * Priority(c.source) <= c.score /\ c.score <= 1000 * Priority(c.source) + MaxBonus
         /\ Rank(c) \in Nat
<1>1. PICK o \in Offer : Matches(q, o) /\ c = Of(q, o)
  BY DEF CandidatesOf
<1>2. o.address \in Texts /\ o.source \in Sources
  BY DEF Offer
<1>3. c = [address |-> o.address, source |-> o.source, score |-> Score(q, o.address, o.source)]
  BY <1>1 DEF Of, Candidate
<1>4. c.address = o.address /\ c.source = o.source /\ c.score = Score(q, o.address, o.source)
  BY <1>3
<1>5. Bonus[q][o.address] \in 0..MaxBonus
  BY <1>1, <1>2, SuggestionsAssumption DEF Matches
<1>6. Priority(o.source) \in 1..3
  BY <1>2, PriorityIs
<1>7. c.score = 1000 * Priority(o.source) + Bonus[q][o.address]
  BY <1>4 DEF Score
<1> DEFINE p == Priority(o.source)
           b == Bonus[q][o.address]
<1>8. c.score = 1000 * p + b /\ p \in 1..3 /\ b \in 0..MaxBonus
  BY <1>5, <1>6, <1>7
<1> HIDE DEF p, b
<1>9. c.score \in Nat /\ 1000 * p <= c.score /\ c.score <= 1000 * p + MaxBonus
  BY <1>8 DEF MaxBonus
<1>10. Rank(c) = p * 10000 + c.score
  BY <1>4 DEF Rank, p
<1>11. Rank(c) \in Nat
  BY <1>8, <1>9, <1>10
<1>12. c = Candidate(q, c.address, c.source)
  BY <1>1, <1>4 DEF Of
<1>13. QED BY <1>1, <1>2, <1>4, <1>9, <1>11, <1>12 DEF Matches, p

LEMMA BetterIs ==
  ASSUME NEW q \in DOMAIN Bonus, NEW c \in CandidatesOf(q), NEW d \in CandidatesOf(q)
  PROVE  Better(c, d) <=> Rank(c) > Rank(d)
<1> DEFINE p == Priority(c.source)
           r == Priority(d.source)
           x == c.score
           y == d.score
<1>1. /\ p \in 1..3 /\ r \in 1..3 /\ x \in Nat /\ y \in Nat
      /\ 1000 * p <= x /\ x <= 1000 * p + MaxBonus /\ 1000 * r <= y /\ y <= 1000 * r + MaxBonus
  BY CandidateIs, PriorityIs
<1>2. p = r <=> c.source = d.source
  BY CandidateIs, PriorityIs
<1>3. Better(c, d) <=> p > r \/ (p = r /\ x > y)
  BY <1>2 DEF Better
<1>4. Rank(c) = p * 10000 + x /\ Rank(d) = r * 10000 + y
  BY DEF Rank
<1> HIDE DEF p, r, x, y
<1>5. p > r \/ (p = r /\ x > y) <=> p * 10000 + x > r * 10000 + y
  BY <1>1 DEF MaxBonus
<1>6. QED BY <1>3, <1>4, <1>5

Maps(q) == UNION {[D -> CandidatesOf(q)] : D \in SUBSET AllPages}

LEMMA InMaps ==
  ASSUME NEW q, NEW m
  PROVE  m \in Maps(q) <=> /\ m = [p \in DOMAIN m |-> m[p]]
                           /\ DOMAIN m \subseteq AllPages
                           /\ \A p \in DOMAIN m : m[p] \in CandidatesOf(q)
<1>1. ASSUME m \in Maps(q)
      PROVE  /\ m = [p \in DOMAIN m |-> m[p]] /\ DOMAIN m \subseteq AllPages
             /\ \A p \in DOMAIN m : m[p] \in CandidatesOf(q)
  <2>1. PICK D \in SUBSET AllPages : m \in [D -> CandidatesOf(q)]
    BY <1>1 DEF Maps
  <2>2. QED BY <2>1
<1>2. ASSUME m = [p \in DOMAIN m |-> m[p]], DOMAIN m \subseteq AllPages,
             \A p \in DOMAIN m : m[p] \in CandidatesOf(q)
      PROVE  m \in Maps(q)
  <2>1. m \in [DOMAIN m -> CandidatesOf(q)]
    BY <1>2
  <2>2. DOMAIN m \in SUBSET AllPages
    BY <1>2
  <2>3. QED BY <2>1, <2>2 DEF Maps
<1>3. QED BY <1>1, <1>2

LEMMA MatchIs ==
  ASSUME NEW q \in DOMAIN Bonus, NEW held \in Maps(q), NEW o \in Offer
  PROVE  /\ Match(q, o, held) \in Maps(q)
         /\ DOMAIN held \subseteq DOMAIN Match(q, o, held)
         /\ \A p \in DOMAIN held : Rank(held[p]) <= Rank(Match(q, o, held)[p])
         /\ Matches(q, o) => /\ Page[o.address] \in DOMAIN Match(q, o, held)
                             /\ Rank(Of(q, o)) <= Rank(Match(q, o, held)[Page[o.address]])
         /\ \A p \in DOMAIN Match(q, o, held) :
              \/ p \in DOMAIN held /\ Match(q, o, held)[p] = held[p]
              \/ Matches(q, o) /\ p = Page[o.address] /\ Match(q, o, held)[p] = Of(q, o)
<1> DEFINE c == Of(q, o)
           page == Page[o.address]
           new == Match(q, o, held)
<1>1. /\ held = [p \in DOMAIN held |-> held[p]]
      /\ DOMAIN held \subseteq AllPages
      /\ \A p \in DOMAIN held : held[p] \in CandidatesOf(q)
  BY InMaps
<1>2. \A p \in DOMAIN held : Rank(held[p]) \in Nat
  BY <1>1, CandidateIs
<1>3. CASE ~Matches(q, o)
  <2>1. new = held
    BY <1>3 DEF Match, Matches
  <2>2. QED BY <1>2, <1>3, <2>1
<1>4. CASE Matches(q, o)
  <2>1. c \in CandidatesOf(q) /\ page \in AllPages /\ o.address \in Texts
    BY <1>4 DEF CandidatesOf, AllPages, Offer
  <2>2. c.address = o.address
    BY DEF Of, Candidate
  <2>3. Rank(c) \in Nat
    BY <2>1, CandidateIs
  <2>4. new = [p \in DOMAIN held \cup {page} |->
                 IF p = page /\ (page \in DOMAIN held => Better(c, held[page])) THEN c ELSE held[p]]
    BY <1>4, <2>2 DEF Match, Matches, Insert, Of
  <2>5. page \in DOMAIN held => (Better(c, held[page]) <=> Rank(c) > Rank(held[page]))
    BY <1>1, <2>1, BetterIs
  <2> HIDE DEF c, page, new
  <2>6. DOMAIN new = DOMAIN held \cup {page}
    BY <2>4
  <2>7. \A p \in DOMAIN held : p # page => new[p] = held[p]
    BY <2>4
  <2>8. new[page] = IF page \in DOMAIN held => Better(c, held[page]) THEN c ELSE held[page]
    BY <2>4
  <2>9. page \in DOMAIN held => Rank(held[page]) <= Rank(new[page])
    BY <1>2, <2>3, <2>5, <2>8
  <2>10. Rank(c) <= Rank(new[page])
    BY <1>2, <2>3, <2>5, <2>8
  <2>11. \A p \in DOMAIN new : new[p] \in CandidatesOf(q)
    BY <1>1, <2>1, <2>6, <2>7, <2>8
  <2>12. new \in Maps(q)
    <3>1. new = [p \in DOMAIN new |-> new[p]]
      BY <2>4, <2>6
    <3>2. DOMAIN new \subseteq AllPages
      BY <1>1, <2>1, <2>6
    <3>3. QED BY <2>11, <3>1, <3>2, InMaps
  <2>13. \A p \in DOMAIN held : Rank(held[p]) <= Rank(new[p])
    BY <1>2, <2>7, <2>9
  <2>14. \A p \in DOMAIN new : \/ p \in DOMAIN held /\ new[p] = held[p]
                               \/ p = page /\ new[p] = c
    BY <2>6, <2>7, <2>8
  <2>15. QED BY <1>4, <2>6, <2>10, <2>12, <2>13, <2>14 DEF c, page, new
<1>5. QED BY <1>3, <1>4

\* The map once every offer has gone into it: it has a page for every offer
\* that matches, with a candidate that was offered and is as good as any.
LEMMA HeldIs ==
  ASSUME NEW q \in DOMAIN Bonus, NEW offered \in Seq(Offer), NEW f,
         f = CHOOSE g : g = [n \in 0..Len(offered) |->
               IF n = 0 THEN [p \in {} |-> {}] ELSE Match(q, offered[n], g[n - 1])]
  PROVE  /\ f[Len(offered)] \in Maps(q)
         /\ \A p \in DOMAIN f[Len(offered)] : \E i \in 1..Len(offered) :
              /\ Matches(q, offered[i]) /\ Page[offered[i].address] = p
              /\ f[Len(offered)][p] = Of(q, offered[i])
         /\ \A i \in 1..Len(offered) : Matches(q, offered[i]) =>
              /\ Page[offered[i].address] \in DOMAIN f[Len(offered)]
              /\ Rank(Of(q, offered[i])) <= Rank(f[Len(offered)][Page[offered[i].address]])
<1> DEFINE L == Len(offered)
           none == [p \in {} |-> {}]
           UpTo(g) == g = [n \in 0..L |-> IF n = 0 THEN none ELSE Match(q, offered[n], g[n - 1])]
           step == [x \in Maps(q) \X (1..L) |-> Match(q, offered[x[2]], x[1])]
<1>1. L \in Nat /\ \A n \in 1..L : offered[n] \in Offer
  OBVIOUS
<1>2. none \in Maps(q)
  BY InMaps
<1> HIDE DEF none, L
<1>3. step \in [Maps(q) \X (1..L) -> Maps(q)]
  BY <1>1, MatchIs
<1>4. \E g \in [0..L -> Maps(q)] : UpTo(g)
  <2>1. PICK g \in [0..L -> Maps(q)] : Folds(g, L, none, step)
    <3> HIDE DEF step
    <3>1. QED BY <1>1, <1>2, <1>3, FoldExists
  <2>2. ASSUME NEW n \in 0..L, n # 0 PROVE step[<<g[n - 1], n>>] = Match(q, offered[n], g[n - 1])
    <3>1. n \in 1..L /\ n - 1 \in 0..L
      BY <1>1, <2>2
    <3>2. g[n - 1] \in Maps(q)
      BY <3>1
    <3>3. QED BY <3>1, <3>2
  <2>3. UpTo(g)
    <3> HIDE DEF step
    <3>1. QED BY <2>1, <2>2 DEF Folds
  <2>4. QED BY <2>3
<1>5. UpTo(f)
  <2>1. f = CHOOSE g : UpTo(g)
    BY DEF L, none
  <2> HIDE DEF UpTo
  <2>2. QED BY <1>4, <2>1
<1>6. f[0] = none /\ \A n \in 1..L : f[n] = Match(q, offered[n], f[n - 1])
  <2>1. \A n \in 0..L : f[n] = IF n = 0 THEN none ELSE Match(q, offered[n], f[n - 1])
    BY <1>5
  <2>2. 0 \in 0..L /\ \A n \in 1..L : n \in 0..L /\ n # 0
    BY <1>1
  <2>3. QED BY <2>1, <2>2
<1> DEFINE Tells(n) ==
      /\ f[n] \in Maps(q)
      /\ \A p \in DOMAIN f[n] : \E i \in 1..n :
           /\ Matches(q, offered[i]) /\ Page[offered[i].address] = p
           /\ f[n][p] = Of(q, offered[i])
      /\ \A i \in 1..n : Matches(q, offered[i]) =>
           /\ Page[offered[i].address] \in DOMAIN f[n]
           /\ Rank(Of(q, offered[i])) <= Rank(f[n][Page[offered[i].address]])
    Good == {n \in Nat : n <= L => Tells(n)}
<1> HIDE DEF Tells
<1>7. 0 \in Good
  <2>1. f[0] \in Maps(q) /\ DOMAIN f[0] = {} /\ 1..0 = {}
    <3>1. DOMAIN none = {}
      BY DEF none
    <3>2. f[0] \in Maps(q) /\ DOMAIN f[0] = {}
      BY <1>2, <1>6, <3>1
    <3>3. 1..0 = {}
      OBVIOUS
    <3>4. QED BY <3>2, <3>3
  <2>2. Tells(0)
    BY <2>1 DEF Tells
  <2>3. QED BY <2>2
<1>8. ASSUME NEW n \in Nat, n \in Good PROVE n + 1 \in Good
  <2> SUFFICES ASSUME n + 1 <= L PROVE Tells(n + 1)
    OBVIOUS
  <2> DEFINE old == f[n]
             o == offered[n + 1]
             new == f[n + 1]
  <2>1. Tells(n) /\ n + 1 \in 1..L /\ (n + 1) - 1 = n
    BY <1>1, <1>8
  <2>2. o \in Offer /\ old \in Maps(q) /\ new = Match(q, o, old)
    BY <1>1, <1>6, <2>1 DEF Tells
  <2> HIDE DEF o, old, new, Good
  <2>3. /\ new \in Maps(q)
        /\ DOMAIN old \subseteq DOMAIN new
        /\ \A p \in DOMAIN old : Rank(old[p]) <= Rank(new[p])
        /\ Matches(q, o) => /\ Page[o.address] \in DOMAIN new
                            /\ Rank(Of(q, o)) <= Rank(new[Page[o.address]])
        /\ \A p \in DOMAIN new :
             \/ p \in DOMAIN old /\ new[p] = old[p]
             \/ Matches(q, o) /\ p = Page[o.address] /\ new[p] = Of(q, o)
    BY <2>2, MatchIs
  <2>4. ASSUME NEW p \in DOMAIN new
        PROVE  \E i \in 1..(n + 1) : /\ Matches(q, offered[i]) /\ Page[offered[i].address] = p
                                     /\ new[p] = Of(q, offered[i])
    <3>1. CASE p \in DOMAIN old /\ new[p] = old[p]
      <4>1. PICK i \in 1..n : /\ Matches(q, offered[i]) /\ Page[offered[i].address] = p
                              /\ old[p] = Of(q, offered[i])
        BY <2>1, <3>1 DEF old, Tells
      <4>2. i \in 1..(n + 1)
        OBVIOUS
      <4>3. QED BY <3>1, <4>1, <4>2
    <3>2. CASE Matches(q, o) /\ p = Page[o.address] /\ new[p] = Of(q, o)
      <4>1. n + 1 \in 1..(n + 1)
        OBVIOUS
      <4>2. QED BY <3>2, <4>1 DEF o
    <3>3. QED BY <2>3, <3>1, <3>2
  <2>5. ASSUME NEW i \in 1..(n + 1), Matches(q, offered[i])
        PROVE  /\ Page[offered[i].address] \in DOMAIN new
               /\ Rank(Of(q, offered[i])) <= Rank(new[Page[offered[i].address]])
    <3>1. CASE i = n + 1
      BY <2>3, <2>5, <3>1 DEF o
    <3>2. CASE i # n + 1
      <4> DEFINE p == Page[offered[i].address]
                 c == Of(q, offered[i])
      <4>1. i \in 1..n
        BY <3>2
      <4>2. p \in DOMAIN old /\ Rank(c) <= Rank(old[p])
        BY <2>1, <2>5, <4>1 DEF old, Tells
      <4>3. c \in CandidatesOf(q) /\ old[p] \in CandidatesOf(q) /\ new[p] \in CandidatesOf(q)
        <5>1. offered[i] \in Offer
          BY <1>1, <2>1, <4>1
        <5>2. c \in CandidatesOf(q)
          BY <2>5, <5>1 DEF CandidatesOf
        <5>3. QED BY <2>2, <2>3, <4>2, <5>2, InMaps
      <4> HIDE DEF p, c
      <4>4. Rank(c) \in Nat /\ Rank(old[p]) \in Nat /\ Rank(new[p]) \in Nat
        BY <4>3, CandidateIs
      <4>5. p \in DOMAIN new /\ Rank(old[p]) <= Rank(new[p])
        BY <2>3, <4>2
      <4>6. Rank(c) <= Rank(new[p])
        BY <4>2, <4>4, <4>5
      <4>7. QED BY <4>5, <4>6 DEF p, c
    <3>3. QED BY <3>1, <3>2
  <2>6. QED BY <2>3, <2>4, <2>5 DEF new, Tells
<1>9. Tells(L)
  <2>1. L \in Good
    <3> HIDE DEF Good
    <3>1. QED BY <1>1, <1>7, <1>8, NatInductionOnSets
  <2>2. QED BY <1>1, <2>1
<1>10. QED BY <1>9 DEF L, Tells

\* An element of a list comes at one place, and each is there.
LEMMA ListedOnce ==
  ASSUME NEW S, IsFiniteSet(S), NEW R, StrictOrder(R, S), NEW s \in [1..Cardinality(S) -> S],
         \A i, j \in 1..Cardinality(S) : i < j => <<s[i], s[j]>> \in R
  PROVE  \A x \in S : \E i \in 1..Cardinality(S) : s[i] = x
<1> DEFINE N == Cardinality(S)
<1>1. N \in Nat
  BY FS_CardinalityType
<1>2. IsFiniteSet(1..N) /\ Cardinality(1..N) = N
  BY <1>1, FS_Interval
<1>3. \A i, j \in 1..N : s[i] = s[j] => i = j
  <2> SUFFICES ASSUME NEW i \in 1..N, NEW j \in 1..N, i # j PROVE s[i] # s[j]
    OBVIOUS
  <2>1. s[i] \in S /\ s[j] \in S /\ (i < j \/ j < i)
    BY <1>1
  <2>2. <<s[i], s[j]>> \in R \/ <<s[j], s[i]>> \in R
    BY <2>1
  <2>3. QED BY <2>1, <2>2 DEF StrictOrder
<1>4. s \in Injection(1..N, S)
  BY <1>3 DEF Injection, IsInjective
<1>5. s \in Surjection(1..N, S)
  BY <1>2, <1>4, FS_Injection
<1>6. QED BY <1>5 DEF Surjection

\* The candidates of different pages, the best first.
LEMMA RankedIs ==
  ASSUME NEW q \in DOMAIN Bonus, NEW S \in SUBSET CandidatesOf(q), IsFiniteSet(S),
         \A c, d \in S : c.address = d.address => c = d
  PROVE  /\ Cardinality(S) \in Nat
         /\ Sorted(S, Before) \in [1..Cardinality(S) -> S]
         /\ \A c \in S : \E i \in 1..Cardinality(S) : Sorted(S, Before)[i] = c
         /\ \A i, j \in 1..Cardinality(S) : i < j =>
              Before(Sorted(S, Before)[i], Sorted(S, Before)[j])
         /\ \A c, d \in S : Before(c, d) => ~Before(d, c)
<1> DEFINE N == Cardinality(S)
           R == {x \in S \X S : Before(x[1], x[2])}
           Good(f) == \A i, j \in DOMAIN f : i < j => Before(f[i], f[j])
           s == CHOOSE f \in [1..N -> S] : Good(f)
<1>1. N \in Nat
  BY FS_CardinalityType
<1>2. \A c \in S : c.address \in Texts /\ c.score \in Nat /\ Place[c.address] \in Nat
  BY CandidateIs, SuggestionsAssumption
<1>3. \A c, d \in S : <<c, d>> \in R <=> Before(c, d)
  OBVIOUS
<1>4. StrictOrder(R, S)
  <2>1. \A c \in S : ~Before(c, c)
    BY <1>2 DEF Before
  <2>2. \A c, d, e \in S : Before(c, d) /\ Before(d, e) => Before(c, e)
    BY <1>2 DEF Before
  <2>3. ASSUME NEW c \in S, NEW d \in S, c # d PROVE Before(c, d) \/ Before(d, c)
    <3>1. Place[c.address] # Place[d.address]
      BY <1>2, <2>3, SuggestionsAssumption
    <3>2. QED BY <1>2, <3>1 DEF Before
  <2> HIDE DEF R
  <2>4. QED BY <1>3, <2>1, <2>2, <2>3 DEF StrictOrder
<1> HIDE DEF R
<1>5. PICK f : Lists(f, N, S, R)
  BY <1>4, ListExists
<1>6. f \in [1..N -> S] /\ Good(f)
  BY <1>3, <1>5 DEF Lists
<1>7. s \in [1..N -> S] /\ Good(s)
  <2> HIDE DEF Good
  <2>1. QED BY <1>6
<1>8. s = Sorted(S, Before)
  BY DEF Sorted
<1> HIDE DEF s
<1>9. \A i, j \in 1..N : i < j => Before(s[i], s[j])
  BY <1>7
<1>10. \A c \in S : \E i \in 1..N : s[i] = c
  <2>1. \A i, j \in 1..N : i < j => <<s[i], s[j]>> \in R
    BY <1>3, <1>7, <1>9
  <2>2. QED BY <1>4, <1>7, <2>1, ListedOnce
<1>11. \A c, d \in S : Before(c, d) => ~Before(d, c)
  BY <1>2 DEF Before
<1>12. QED BY <1>1, <1>7, <1>8, <1>9, <1>10, <1>11

LEMMA OfferedIs ==
  ASSUME NEW a \in Seq(Texts), NEW source \in Sources
  PROVE  /\ Offered(a, source) \in Seq(Offer)
         /\ Len(Offered(a, source)) = Len(a)
         /\ \A i \in 1..Len(a) : Offered(a, source)[i] = [address |-> a[i], source |-> source]
<1>1. Len(a) \in Nat /\ DOMAIN a = 1..Len(a) /\ \A i \in 1..Len(a) : a[i] \in Texts
  OBVIOUS
<1> DEFINE o == [i \in 1..Len(a) |-> [address |-> a[i], source |-> source]]
<1>2. \A i \in 1..Len(a) : o[i] = [address |-> a[i], source |-> source] /\ o[i] \in Offer
  BY <1>1 DEF Offer
<1>3. Offered(a, source) = o
  BY <1>1 DEF Offered
<1> HIDE DEF o
<1>4. o \in Seq(Offer) /\ Len(o) = Len(a)
  <2>1. o = [i \in 1..Len(a) |-> o[i]]
    BY DEF o
  <2>2. o \in [1..Len(a) -> Offer]
    BY <1>2, <2>1
  <2>3. QED BY <1>1, <2>2
<1>5. QED BY <1>2, <1>3, <1>4

LEMMA ConcatIs ==
  ASSUME NEW S, NEW u \in Seq(S), NEW v \in Seq(S)
  PROVE  /\ u \o v \in Seq(S)
         /\ Len(u \o v) = Len(u) + Len(v)
         /\ \A i \in 1..Len(u) : (u \o v)[i] = u[i]
         /\ \A i \in 1..Len(v) : (u \o v)[Len(u) + i] = v[i]
<1>1. \A i \in 1..Len(v) : Len(u) + i > Len(u) /\ (Len(u) + i) - Len(u) = i
  OBVIOUS
<1>2. QED BY <1>1

\* Each offer is of its source, and what a source offers is in the line.
InLine(offered, t, b, h) ==
  /\ \A i \in 1..Len(offered) :
       \/ offered[i].source = "OpenTab" /\ offered[i].address \in Range(t)
       \/ offered[i].source = "Bookmark" /\ offered[i].address \in Range(b)
       \/ offered[i].source = "History" /\ offered[i].address \in Range(h)
  /\ \A a \in Range(t) : \E i \in 1..Len(offered) :
       offered[i] = [address |-> a, source |-> "OpenTab"]
  /\ \A a \in Range(b) : \E i \in 1..Len(offered) :
       offered[i] = [address |-> a, source |-> "Bookmark"]
  /\ \A a \in Range(h) : \E i \in 1..Len(offered) :
       offered[i] = [address |-> a, source |-> "History"]

LEMMA AllOffersAre ==
  ASSUME NEW t \in Seq(Texts), NEW b \in Seq(Texts), NEW h \in Seq(Texts)
  PROVE  AllOffers(t, b, h) \in Seq(Offer) /\ InLine(AllOffers(t, b, h), t, b, h)
<1> DEFINE offered == AllOffers(t, b, h)
           x == Offered(t, "OpenTab")
           y == Offered(b, "Bookmark")
           z == Offered(h, "History")
           X == Len(t)
           Y == Len(b)
           Z == Len(h)
<1>1. /\ x \in Seq(Offer) /\ Len(x) = X
      /\ \A i \in 1..X : x[i] = [address |-> t[i], source |-> "OpenTab"]
  BY OfferedIs DEF Sources
<1>2. /\ y \in Seq(Offer) /\ Len(y) = Y
      /\ \A i \in 1..Y : y[i] = [address |-> b[i], source |-> "Bookmark"]
  BY OfferedIs DEF Sources
<1>3. /\ z \in Seq(Offer) /\ Len(z) = Z
      /\ \A i \in 1..Z : z[i] = [address |-> h[i], source |-> "History"]
  BY OfferedIs DEF Sources
<1>4. /\ X \in Nat /\ DOMAIN t = 1..X /\ Y \in Nat /\ DOMAIN b = 1..Y /\ Z \in Nat /\ DOMAIN h = 1..Z
  OBVIOUS
<1>5. offered = x \o y \o z
  BY DEF AllOffers
<1> HIDE DEF offered, x, y, z, X, Y, Z
<1> DEFINE w == x \o y
<1>6. /\ w \in Seq(Offer) /\ Len(w) = X + Y
      /\ \A i \in 1..X : w[i] = x[i]
      /\ \A i \in 1..Y : w[X + i] = y[i]
  <2>1. /\ w \in Seq(Offer) /\ Len(w) = Len(x) + Len(y)
        /\ \A i \in 1..Len(x) : w[i] = x[i]
        /\ \A i \in 1..Len(y) : w[Len(x) + i] = y[i]
    <3>1. x \in Seq(Offer) /\ y \in Seq(Offer)
      BY <1>1, <1>2
    <3>2. QED BY <3>1, ConcatIs
  <2>2. Len(x) = X /\ Len(y) = Y
    BY <1>1, <1>2
  <2> HIDE DEF w
  <2>3. QED BY <2>1, <2>2
<1>7. offered = w \o z
  BY <1>5
<1> HIDE DEF w
<1>8. /\ offered \in Seq(Offer) /\ Len(offered) = X + Y + Z
      /\ \A i \in 1..(X + Y) : offered[i] = w[i]
      /\ \A i \in 1..Z : offered[X + Y + i] = z[i]
  <2>1. /\ offered \in Seq(Offer) /\ Len(offered) = Len(w) + Len(z)
        /\ \A i \in 1..Len(w) : offered[i] = w[i]
        /\ \A i \in 1..Len(z) : offered[Len(w) + i] = z[i]
    <3>1. w \in Seq(Offer) /\ z \in Seq(Offer)
      BY <1>3, <1>6
    <3>2. /\ w \o z \in Seq(Offer) /\ Len(w \o z) = Len(w) + Len(z)
          /\ \A i \in 1..Len(w) : (w \o z)[i] = w[i]
          /\ \A i \in 1..Len(z) : (w \o z)[Len(w) + i] = z[i]
      BY <3>1, ConcatIs
    <3>3. QED BY <1>7, <3>2
  <2>2. Len(w) = X + Y /\ Len(z) = Z
    BY <1>3, <1>6
  <2>3. QED BY <2>1, <2>2
<1>9. /\ \A i \in 1..X : i \in 1..Len(offered) /\ offered[i] = x[i]
      /\ \A i \in 1..Y : X + i \in 1..Len(offered) /\ offered[X + i] = y[i]
      /\ \A i \in 1..Z : X + Y + i \in 1..Len(offered) /\ offered[X + Y + i] = z[i]
  <2>1. ASSUME NEW i \in 1..X PROVE i \in 1..Len(offered) /\ offered[i] = x[i]
    <3>1. i \in 1..(X + Y) /\ i \in 1..(X + Y + Z)
      BY <1>4
    <3>2. QED BY <1>6, <1>8, <3>1
  <2>2. ASSUME NEW i \in 1..Y PROVE X + i \in 1..Len(offered) /\ offered[X + i] = y[i]
    <3>1. X + i \in 1..(X + Y) /\ X + i \in 1..(X + Y + Z)
      BY <1>4
    <3>2. QED BY <1>6, <1>8, <3>1
  <2>3. ASSUME NEW i \in 1..Z PROVE X + Y + i \in 1..Len(offered) /\ offered[X + Y + i] = z[i]
    <3>1. X + Y + i \in 1..(X + Y + Z)
      BY <1>4
    <3>2. QED BY <1>8, <3>1
  <2>4. QED BY <2>1, <2>2, <2>3
<1>10. ASSUME NEW i \in 1..Len(offered)
       PROVE  i \in 1..X \/ (\E j \in 1..Y : i = X + j) \/ (\E j \in 1..Z : i = X + Y + j)
  <2>1. X \in Nat /\ Y \in Nat /\ Z \in Nat /\ Len(offered) = X + Y + Z
    BY <1>4, <1>8
  <2>2. i \in 1..(X + Y + Z)
    BY <2>1
  <2>3. \/ i \in 1..X
        \/ i - X \in 1..Y /\ i = X + (i - X)
        \/ i - X - Y \in 1..Z /\ i = X + Y + (i - X - Y)
    BY <2>1, <2>2
  <2>4. QED BY <2>3
<1>11. ASSUME NEW i \in 1..Len(offered)
       PROVE  \/ offered[i].source = "OpenTab" /\ offered[i].address \in Range(t)
              \/ offered[i].source = "Bookmark" /\ offered[i].address \in Range(b)
              \/ offered[i].source = "History" /\ offered[i].address \in Range(h)
  <2>1. CASE i \in 1..X
    <3>1. \A k \in 1..X : offered[k].source = "OpenTab" /\ offered[k].address = t[k]
      BY <1>1, <1>9
    <3>2. QED BY <1>4, <2>1, <3>1 DEF Range
  <2>2. CASE \E j \in 1..Y : i = X + j
    <3>1. \A k \in 1..Y : offered[X + k].source = "Bookmark" /\ offered[X + k].address = b[k]
      BY <1>2, <1>9
    <3>2. QED BY <1>4, <2>2, <3>1 DEF Range
  <2>3. CASE \E j \in 1..Z : i = X + Y + j
    <3>1. \A k \in 1..Z : offered[X + Y + k].source = "History" /\ offered[X + Y + k].address = h[k]
      BY <1>3, <1>9
    <3>2. QED BY <1>4, <2>3, <3>1 DEF Range
  <2>4. QED BY <1>10, <2>1, <2>2, <2>3
<1>12. ASSUME NEW a \in Range(t)
       PROVE  \E i \in 1..Len(offered) : offered[i] = [address |-> a, source |-> "OpenTab"]
  <2>1. PICK i \in 1..X : t[i] = a
    BY <1>4 DEF Range
  <2>2. QED BY <1>1, <1>9, <2>1
<1>13. ASSUME NEW a \in Range(b)
       PROVE  \E i \in 1..Len(offered) : offered[i] = [address |-> a, source |-> "Bookmark"]
  <2>1. PICK i \in 1..Y : b[i] = a
    BY <1>4 DEF Range
  <2>2. QED BY <1>2, <1>9, <2>1
<1>14. ASSUME NEW a \in Range(h)
       PROVE  \E i \in 1..Len(offered) : offered[i] = [address |-> a, source |-> "History"]
  <2>1. PICK i \in 1..Z : h[i] = a
    BY <1>4 DEF Range
  <2>2. QED BY <1>3, <1>9, <2>1
<1>15. InLine(offered, t, b, h)
  BY <1>11, <1>12, <1>13, <1>14 DEF InLine
<1>16. QED BY <1>8, <1>15 DEF offered

\* The finitely many candidates of a map.
LEMMA FiniteRange ==
  ASSUME NEW q, NEW offered \in Seq(Offer), NEW held,
         \A p \in DOMAIN held : \E i \in 1..Len(offered) : held[p] = Of(q, offered[i])
  PROVE  IsFiniteSet(Range(held))
<1> DEFINE L == Len(offered)
           T == {Of(q, offered[i]) : i \in 1..L}
           g == [i \in 1..L |-> Of(q, offered[i])]
<1>1. L \in Nat
  OBVIOUS
<1>2. IsFiniteSet(1..L)
  BY <1>1, FS_Interval
<1>3. g \in Surjection(1..L, T)
  BY DEF Surjection
<1>4. IsFiniteSet(T)
  BY <1>2, <1>3, FS_Surjection
<1>5. Range(held) \in SUBSET T
  BY DEF Range
<1>6. QED BY <1>4, <1>5, FS_Subset

\* The offers that can be shown are those in line that match.
LEMMA OffersAre ==
  ASSUME NEW q \in DOMAIN Bonus,
         NEW t \in Seq(Texts), NEW b \in Seq(Texts), NEW h \in Seq(Texts)
  PROVE  /\ \A c \in Offers(q, t, b, h) : \E i \in 1..Len(AllOffers(t, b, h)) :
              Matches(q, AllOffers(t, b, h)[i]) /\ c = Of(q, AllOffers(t, b, h)[i])
         /\ \A i \in 1..Len(AllOffers(t, b, h)) :
              Matches(q, AllOffers(t, b, h)[i]) => Of(q, AllOffers(t, b, h)[i]) \in Offers(q, t, b, h)
<1> DEFINE offered == AllOffers(t, b, h)
<1>0. InLine(offered, t, b, h)
  BY AllOffersAre
<1> HIDE DEF offered
<1>1. /\ \A i \in 1..Len(offered) :
           \/ offered[i].source = "OpenTab" /\ offered[i].address \in Range(t)
           \/ offered[i].source = "Bookmark" /\ offered[i].address \in Range(b)
           \/ offered[i].source = "History" /\ offered[i].address \in Range(h)
      /\ \A a \in Range(t) : \E i \in 1..Len(offered) :
           offered[i] = [address |-> a, source |-> "OpenTab"]
      /\ \A a \in Range(b) : \E i \in 1..Len(offered) :
           offered[i] = [address |-> a, source |-> "Bookmark"]
      /\ \A a \in Range(h) : \E i \in 1..Len(offered) :
           offered[i] = [address |-> a, source |-> "History"]
  BY <1>0 DEF InLine
<1>2. ASSUME NEW c \in Offers(q, t, b, h)
      PROVE  \E i \in 1..Len(offered) : Matches(q, offered[i]) /\ c = Of(q, offered[i])
  <2>1. \E a, s : /\ c = Candidate(q, a, s) /\ Bonus[q][a] # NoMatch
                  /\ \E i \in 1..Len(offered) : offered[i] = [address |-> a, source |-> s]
    <3>1. CASE c \in OffersOf(q, t, "OpenTab")
      <4>1. PICK a \in Range(t) : Bonus[q][a] # NoMatch /\ c = Candidate(q, a, "OpenTab")
        BY <3>1 DEF OffersOf
      <4>2. QED BY <1>1, <4>1
    <3>2. CASE c \in OffersOf(q, b, "Bookmark")
      <4>1. PICK a \in Range(b) : Bonus[q][a] # NoMatch /\ c = Candidate(q, a, "Bookmark")
        BY <3>2 DEF OffersOf
      <4>2. QED BY <1>1, <4>1
    <3>3. CASE c \in OffersOf(q, h, "History")
      <4>1. PICK a \in Range(h) : Bonus[q][a] # NoMatch /\ c = Candidate(q, a, "History")
        BY <3>3 DEF OffersOf
      <4>2. QED BY <1>1, <4>1
    <3>4. QED BY <3>1, <3>2, <3>3 DEF Offers
  <2>2. PICK a, s : /\ c = Candidate(q, a, s) /\ Bonus[q][a] # NoMatch
                    /\ \E i \in 1..Len(offered) : offered[i] = [address |-> a, source |-> s]
    BY <2>1
  <2>3. PICK i \in 1..Len(offered) : offered[i] = [address |-> a, source |-> s]
    BY <2>2
  <2>4. offered[i].address = a /\ offered[i].source = s
    BY <2>3
  <2>5. QED BY <2>2, <2>4 DEF Matches, Of
<1>3. ASSUME NEW i \in 1..Len(offered), Matches(q, offered[i])
      PROVE  Of(q, offered[i]) \in Offers(q, t, b, h)
  <2> DEFINE a == offered[i].address
             s == offered[i].source
  <2>1. Bonus[q][a] # NoMatch /\ Of(q, offered[i]) = Candidate(q, a, s)
    BY <1>3 DEF Matches, Of
  <2>2. \/ s = "OpenTab" /\ a \in Range(t)
        \/ s = "Bookmark" /\ a \in Range(b)
        \/ s = "History" /\ a \in Range(h)
    BY <1>1
  <2> HIDE DEF a, s
  <2>3. \/ Candidate(q, a, s) \in OffersOf(q, t, "OpenTab")
        \/ Candidate(q, a, s) \in OffersOf(q, b, "Bookmark")
        \/ Candidate(q, a, s) \in OffersOf(q, h, "History")
    BY <2>1, <2>2 DEF OffersOf
  <2>4. QED BY <2>1, <2>3 DEF Offers
<1>4. QED BY <1>2, <1>3 DEF offered

\* A query is answered with the best that is offered.
LEMMA QueryIsBest ==
  ASSUME NEW q \in DOMAIN Bonus, NEW limit \in Nat,
         NEW t \in Seq(Texts), NEW b \in Seq(Texts), NEW h \in Seq(Texts)
  PROVE  IsAnswer(Query(q, limit, t, b, h), limit, Offers(q, t, b, h))
<1> DEFINE offered == AllOffers(t, b, h)
           f == CHOOSE g : g = [n \in 0..Len(offered) |->
                  IF n = 0 THEN [p \in {} |-> {}] ELSE Match(q, offered[n], g[n - 1])]
           held == f[Len(offered)]
           S == Range(held)
           ranked == Sorted(S, Before)
           N == Cardinality(S)
           m == IF limit < Len(ranked) THEN limit ELSE Len(ranked)
           answer == SubSeq(ranked, 1, m)
           offers == Offers(q, t, b, h)
<1>1. Query(q, limit, t, b, h) = answer
  BY DEF Query
<1>2. offered \in Seq(Offer)
  BY AllOffersAre
<1>9. \A c \in offers : \E i \in 1..Len(offered) : Matches(q, offered[i]) /\ c = Of(q, offered[i])
  BY OffersAre
<1>10. \A i \in 1..Len(offered) : Matches(q, offered[i]) => Of(q, offered[i]) \in offers
  BY OffersAre
<1> HIDE DEF offered, offers
<1>3. /\ held \in Maps(q)
      /\ \A p \in DOMAIN held : \E i \in 1..Len(offered) :
           /\ Matches(q, offered[i]) /\ Page[offered[i].address] = p
           /\ held[p] = Of(q, offered[i])
      /\ \A i \in 1..Len(offered) : Matches(q, offered[i]) =>
           /\ Page[offered[i].address] \in DOMAIN held
           /\ Rank(Of(q, offered[i])) <= Rank(held[Page[offered[i].address]])
  BY <1>2, HeldIs
<1> HIDE DEF f, held
<1>5. \A o : Of(q, o).address = o.address /\ Of(q, o).source = o.source
  BY DEF Of, Candidate
<1>11. /\ \A c \in S : c \in offers /\ Page[c.address] \in DOMAIN held /\ held[Page[c.address]] = c
       /\ \A c \in offers : /\ Page[c.address] \in DOMAIN held
                            /\ held[Page[c.address]] \in S
                            /\ Rank(c) <= Rank(held[Page[c.address]])
                            /\ Page[held[Page[c.address]].address] = Page[c.address]
  <2>1. ASSUME NEW c \in S
        PROVE  c \in offers /\ Page[c.address] \in DOMAIN held /\ held[Page[c.address]] = c
    <3>1. PICK p \in DOMAIN held : c = held[p]
      BY DEF Range
    <3>2. PICK i \in 1..Len(offered) : /\ Matches(q, offered[i]) /\ Page[offered[i].address] = p
                                       /\ held[p] = Of(q, offered[i])
      BY <1>3
    <3>3. Page[c.address] = p
      BY <1>5, <3>1, <3>2
    <3>4. QED BY <1>10, <3>1, <3>2, <3>3
  <2>2. ASSUME NEW c \in offers
        PROVE  /\ Page[c.address] \in DOMAIN held
               /\ held[Page[c.address]] \in S
               /\ Rank(c) <= Rank(held[Page[c.address]])
    <3>1. PICK i \in 1..Len(offered) : Matches(q, offered[i]) /\ c = Of(q, offered[i])
      BY <1>9
    <3>2. c.address = offered[i].address
      BY <1>5, <3>1
    <3>3. QED BY <1>3, <3>1, <3>2 DEF Range
  <2>3. ASSUME NEW c \in offers
        PROVE  Page[held[Page[c.address]].address] = Page[c.address]
    <3>1. Page[c.address] \in DOMAIN held
      BY <2>2
    <3>2. PICK i \in 1..Len(offered) : /\ Page[offered[i].address] = Page[c.address]
                                       /\ held[Page[c.address]] = Of(q, offered[i])
      BY <1>3, <3>1
    <3>3. QED BY <1>5, <3>2
  <2>4. QED BY <2>1, <2>2, <2>3
<1>12. S \in SUBSET CandidatesOf(q)
  BY <1>3, InMaps DEF Range
<1>13. \A c, d \in S : c.address = d.address => c = d
  BY <1>11
<1>14. IsFiniteSet(S)
  <2>1. offered \in Seq(Offer) /\ \A p \in DOMAIN held : \E i \in 1..Len(offered) : held[p] = Of(q, offered[i])
    BY <1>2, <1>3
  <2>2. QED BY <2>1, FiniteRange
<1> HIDE DEF S
<1>15. /\ N \in Nat /\ ranked \in [1..N -> S]
       /\ \A c \in S : \E i \in 1..N : ranked[i] = c
       /\ \A i, j \in 1..N : i < j => Before(ranked[i], ranked[j])
       /\ \A c, d \in S : Before(c, d) => ~Before(d, c)
  BY <1>12, <1>13, <1>14, RankedIs
<1> HIDE DEF ranked, N
<1>16. /\ ranked \in Seq(S) /\ Len(ranked) = N
       /\ m \in Nat /\ m <= N /\ m <= limit /\ (m < N => m = limit)
  BY <1>15
<1> HIDE DEF m
<1>17. /\ Len(answer) = m /\ DOMAIN answer = 1..m
       /\ \A i \in 1..m : i \in 1..N /\ answer[i] = ranked[i] /\ answer[i] \in S
  BY <1>15, <1>16
<1> HIDE DEF answer
<1>18. \A c \in S : IsBest(c, offers)
  <2> SUFFICES ASSUME NEW c \in S, NEW d \in offers, Page[d.address] = Page[c.address]
               PROVE  Rank(d) <= Rank(c)
    BY DEF IsBest
  <2>1. QED BY <1>11
<1>19. \A i \in 1..m : answer[i] \in offers /\ IsBest(answer[i], offers)
  BY <1>11, <1>17, <1>18
<1>20. \A i, j \in 1..m : i < j => /\ Before(answer[i], answer[j])
                                   /\ Page[answer[i].address] # Page[answer[j].address]
  <2> SUFFICES ASSUME NEW i \in 1..m, NEW j \in 1..m, i < j
               PROVE  /\ Before(answer[i], answer[j])
                      /\ Page[answer[i].address] # Page[answer[j].address]
    OBVIOUS
  <2>1. Before(answer[i], answer[j]) /\ answer[i] \in S /\ answer[j] \in S
    BY <1>15, <1>17
  <2>2. answer[i] # answer[j]
    BY <1>15, <2>1
  <2>3. QED BY <1>11, <2>1, <2>2
<1>21. ASSUME NEW c \in offers
       PROVE  \/ \E i \in 1..m : Page[answer[i].address] = Page[c.address]
              \/ /\ m = limit
                 /\ \E d \in offers : /\ Page[d.address] = Page[c.address]
                                      /\ IsBest(d, offers)
                                      /\ \A i \in 1..m : ~Before(d, answer[i])
  <2> DEFINE d == held[Page[c.address]]
  <2>1. d \in S /\ Page[d.address] = Page[c.address]
    BY <1>11
  <2> HIDE DEF d
  <2>2. PICK k \in 1..N : ranked[k] = d
    BY <1>15, <2>1
  <2>3. CASE k <= m
    <3>1. k \in 1..m
      BY <1>16, <2>3
    <3>2. answer[k] = d
      BY <1>17, <2>2, <3>1
    <3>3. QED BY <2>1, <3>1, <3>2
  <2>4. CASE ~(k <= m)
    <3>1. m = limit /\ \A i \in 1..m : i < k
      BY <1>15, <1>16, <2>4
    <3>2. \A i \in 1..m : Before(answer[i], d) /\ answer[i] \in S
      BY <1>15, <1>17, <2>2, <3>1
    <3>3. \A i \in 1..m : ~Before(d, answer[i])
      BY <1>15, <2>1, <3>2
    <3>4. d \in offers /\ IsBest(d, offers)
      BY <1>11, <1>18, <2>1
    <3>5. QED BY <2>1, <3>1, <3>3, <3>4
  <2>5. QED BY <2>3, <2>4
<1>22. Len(answer) <= limit /\ Len(answer) = m /\ DOMAIN answer = 1..m
  BY <1>16, <1>17
<1>23. IsAnswer(answer, limit, offers)
  BY <1>19, <1>20, <1>21, <1>22 DEF IsAnswer
<1>24. QED BY <1>1, <1>23 DEF offers

(* Whatever the stores hold, for any texts, any matches and any tabs, the  *)
(* suggestions are the best: a page once, from its best source, in order,  *)
(* none left out for a worse one.                                          *)
THEOREM SuggestionsStayBest == ImportSpec => []SuggestionsAreBest
<1>1. ASSUME ImportInv PROVE SuggestionsAreBest
  <2>1. Column(history) \in Seq(Texts)
    <3> DEFINE o == Sorted(DOMAIN history, Earlier)
               N == Cardinality(DOMAIN history)
               col == [i \in 1..N |-> history[o[i]].address]
    <3>1. DOMAIN history \in SUBSET Nat /\ IsFiniteSet(DOMAIN history)
      <4>1. rowsMade \in Nat /\ DOMAIN history \subseteq 1..rowsMade
        BY <1>1 DEF ImportInv, HistoryInv, RowsOK
      <4>2. IsFiniteSet(1..rowsMade)
        BY <4>1, FS_Interval
      <4>3. QED BY <4>1, <4>2, FS_Subset
    <3>2. N \in Nat /\ o \in [1..N -> DOMAIN history]
      BY <3>1, SortedNumbers
    <3>3. Column(history) = col
      BY <3>2 DEF Column
    <3> HIDE DEF o, N
    <3>4. \A n \in DOMAIN history : history[n].address \in Texts
      BY <1>1, ImportAssumption DEF ImportInv, HistoryInv, RowsOK, IsRow
    <3>5. col \in [1..N -> Texts]
      BY <3>2, <3>4
    <3>6. QED BY <3>2, <3>3, <3>5
  <2>2. Bookmarked \in Seq(Texts) /\ OpenTabs \subseteq Seq(Texts) /\ <<>> \in Seq(Texts)
    BY ImportAssumption
  <2> DEFINE bookmarks == IF folders = {} THEN <<>> ELSE Bookmarked
  <2>3. bookmarks \in Seq(Texts)
    BY <2>2
  <2> HIDE DEF bookmarks
  <2>4. ASSUME NEW q \in DOMAIN Bonus, NEW limit \in 1..2, NEW tabs \in OpenTabs
        PROVE  IsAnswer(Query(q, limit, tabs, bookmarks, Column(history)), limit,
                        Offers(q, tabs, bookmarks, Column(history)))
    <3>1. limit \in Nat /\ tabs \in Seq(Texts)
      BY <2>2
    <3>2. QED BY <2>1, <2>3, <3>1, QueryIsBest
  <2>5. QED BY <2>4 DEF SuggestionsAreBest, bookmarks
<1>2. QED BY <1>1, ImportInvariant, PTL
=============================================================================
