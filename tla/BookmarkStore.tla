--------------------------- MODULE BookmarkStore ---------------------------
(***************************************************************************)
(* The bookmark store (evreos-shell/src/store/bookmarks.rs): a tree of     *)
(* folders with bookmarks in them, written whole to bookmarks.toml after   *)
(* every operation, or once at the end of a batch, which takes everything  *)
(* back when one of its operations or its save fails.                      *)
(*                                                                         *)
(* An operation on its own changes the memory and then saves; a save that  *)
(* is refused leaves the change in memory.  The program may end between    *)
(* any two operations; ending inside one is a refused save and an end.     *)
(* A row is its id, its parent and its position: names, addresses, times   *)
(* and the file's text are left out, so a rename only saves, and so is the *)
(* order of the rows, which decides nothing.  The rows in memory are a     *)
(* set; a file, which may have been written by hand, lists each of its     *)
(* rows some number of times.  A file that is not there is read as one     *)
(* that lists none.                                                        *)
(***************************************************************************)
EXTENDS Naturals, FiniteSets, FiniteSetsExt

CONSTANTS
  MaxFolder,    \* bound on folder ids
  MaxBookmark,  \* bound on bookmark ids
  MaxRefused,   \* bound on the saves refused in a row
  MaxInBatch,   \* bound on the changes of one batch
  Files,        \* what bookmarks.toml may hold before the program first runs
  None          \* no parent; no batch under way; no batch index

Root == 0
FolderIds == 0..MaxFolder
BookmarkIds == 1..MaxBookmark

Folder == [id : FolderIds, parent : FolderIds \cup {None}, position : Nat]
Bookmark == [id : BookmarkIds, parent : FolderIds \cup {None}, position : Nat]

\* How often each row is listed, of finitely many.
IsListing(rows, Row) ==
  /\ DOMAIN rows \subseteq Row
  /\ IsFiniteSet(DOMAIN rows)

ASSUME BookmarksAssumption ==
  /\ {MaxFolder, MaxBookmark, MaxRefused, MaxInBatch} \subseteq Nat
  /\ None \notin Nat
  /\ \A file \in Files : IsListing(file.folders, Folder) /\ IsListing(file.bookmarks, Bookmark)

VARIABLES
  tree,    \* folders, bookmarks and the next ids, in memory
  batch,   \* the store as it was when the batch under way began
  index,   \* batch_index
  disk,    \* bookmarks.toml
  refused, \* saves of operations refused since one succeeded
  changes  \* changes made in the batch under way

vars == <<tree, batch, index, disk, refused, changes>>

Tree == [folders : SUBSET Folder, bookmarks : SUBSET Bookmark, nextFolder : Nat \ {0},
         nextBookmark : Nat \ {0}]
BatchIndex == [folders : SUBSET FolderIds, childFolders : [FolderIds -> Nat],
               childBookmarks : [FolderIds -> Nat]]

TypeOK ==
  /\ tree \in Tree
  /\ batch \in Tree \cup {None}
  /\ index \in BatchIndex \cup {None}
  /\ IsListing(disk.folders, Folder) /\ IsListing(disk.bookmarks, Bookmark)
  /\ refused \in 0..MaxRefused
  /\ changes \in 0..MaxInBatch

(***************************************************************************)
(* The tree                                                                *)
(***************************************************************************)

IdsOf(rows) == {r.id : r \in rows}
ChildrenOf(rows, parent) == {r \in rows : r.parent = parent}
OneEach(rows) == \A r, s \in rows : r.id = s.id => r = s
RootRow == [id |-> Root, parent |-> None, position |-> 0]
Empty == [folders |-> {RootRow}, bookmarks |-> {}, nextFolder |-> 1, nextBookmark |-> 1]

\* What holds, with a folder, the folder it is in, or the folders in it.
ClosedUpwards(held, folders) ==
  \A f \in folders : f.id \in held /\ f.parent # None => f.parent \in held
ClosedDownwards(held, folders) ==
  \A f \in folders : f.parent \in held => f.id \in held

\* What a walk up from id comes to, and what is at or below it: the least such sets.
Ancestry(folders, id) ==
  {a \in FolderIds : \A held \in SUBSET FolderIds :
                       id \in held /\ ClosedUpwards(held, folders) => a \in held}
Subtree(folders, id) ==
  {a \in FolderIds : \A held \in SUBSET FolderIds :
                       id \in held /\ ClosedDownwards(held, folders) => a \in held}

\* validate_tree: one root, no identifier twice, every walk up ends at the root
ValidTree(rows) ==
  /\ Root \in IdsOf(rows.folders)
  /\ OneEach(rows.folders) /\ OneEach(rows.bookmarks)
  /\ \A f \in rows.folders :
       IF f.id = Root THEN f.parent = None
       ELSE f.parent \in IdsOf(rows.folders) /\ Root \in Ancestry(rows.folders, f.id)
  /\ \A b \in rows.bookmarks : b.parent \in IdsOf(rows.folders)

\* serialize
Listed(rows) == [r \in rows |-> 1]
Rows(t) == [folders |-> Listed(t.folders), bookmarks |-> Listed(t.bookmarks)]
NoRows == [folders |-> Listed({}), bookmarks |-> Listed({})]

\* flush_folder and flush_bookmark: a bookmark that names no folder is not a row.
Readable(file) == \A b \in DOMAIN file.bookmarks : b.parent # None

\* deserialize's rows: a file that lists no root is given it.
FolderRows(file) ==
  LET folders == DOMAIN file.folders
  IN IF Root \in IdsOf(folders) THEN folders ELSE folders \cup {RootRow}

\* A row that is listed again is refused as two that share an identifier.
Repeats(listing) == \E r \in DOMAIN listing : listing[r] # 1

\* open, which starts empty on a file it cannot read or that is no tree
Opened(file) ==
  LET rows == [folders |-> FolderRows(file), bookmarks |-> DOMAIN file.bookmarks]
  IN IF ~Readable(file) \/ Repeats(file.folders) \/ Repeats(file.bookmarks) \/ ~ValidTree(rows)
     THEN Empty
     ELSE [folders |-> rows.folders, bookmarks |-> rows.bookmarks,
           nextFolder |-> Max(IdsOf(rows.folders)) + 1,
           nextBookmark |-> Max(IdsOf(rows.bookmarks) \cup {0}) + 1]

Init ==
  /\ disk \in Files \cup {NoRows}
  /\ tree = Opened(disk)
  /\ batch = None
  /\ index = None
  /\ refused = 0
  /\ changes = 0

(***************************************************************************)
(* Saving                                                                  *)
(***************************************************************************)

\* BatchIndex::build
BuiltIndex(t) ==
  [folders |-> IdsOf(t.folders),
   childFolders |-> [f \in FolderIds |-> Cardinality(ChildrenOf(t.folders, f))],
   childBookmarks |-> [f \in FolderIds |-> Cardinality(ChildrenOf(t.bookmarks, f))]]

\* save_to_disk: put off in a batch; otherwise the tree is validated and
\* written, or the save is refused and the change stays in memory.
Save ==
  \/ /\ batch # None
     /\ changes < MaxInBatch
     /\ changes' = changes + 1
     /\ UNCHANGED <<disk, refused>>
  \/ /\ batch = None
     /\ \/ ValidTree(tree') /\ disk' = Rows(tree') /\ refused' = 0
        \/ refused < MaxRefused /\ refused' = refused + 1 /\ UNCHANGED disk
     /\ UNCHANGED changes

\* The rows become t, and the batch's index what it is told.
Change(t, newIndex) ==
  /\ tree' = t
  /\ index' = newIndex
  /\ Save
  /\ UNCHANGED batch

HasFolder(id) == IF index # None THEN id \in index.folders ELSE id \in IdsOf(tree.folders)

(***************************************************************************)
(* Operations                                                              *)
(***************************************************************************)

\* Mutant: in a batch the child's place is not counted.
CreateFolderUncounted(parent) ==
  /\ tree.nextFolder <= MaxFolder
  /\ HasFolder(parent)
  /\ LET id == tree.nextFolder
         position == IF index = None THEN Cardinality(ChildrenOf(tree.folders, parent))
                       ELSE index.childFolders[parent]
     IN Change([tree EXCEPT !.nextFolder = id + 1,
                            !.folders = @ \cup {[id |-> id, parent |-> parent, position |-> position]}],
               IF index = None THEN None ELSE [index EXCEPT !.folders = @ \cup {id}])

\* create_folder
CreateFolder(parent) ==
  /\ tree.nextFolder <= MaxFolder
  /\ HasFolder(parent)
  /\ LET id == tree.nextFolder
         position == IF index = None THEN Cardinality(ChildrenOf(tree.folders, parent))
                       ELSE index.childFolders[parent]
     IN Change([tree EXCEPT !.nextFolder = id + 1,
                            !.folders = @ \cup {[id |-> id, parent |-> parent, position |-> position]}],
               IF index = None THEN None
                 ELSE [index EXCEPT !.folders = @ \cup {id}, !.childFolders[parent] = @ + 1])

\* create_bookmark, create_bookmark_with_details
CreateBookmark(parent) ==
  /\ tree.nextBookmark <= MaxBookmark
  /\ HasFolder(parent)
  /\ LET id == tree.nextBookmark
         position == IF index = None THEN Cardinality(ChildrenOf(tree.bookmarks, parent))
                       ELSE index.childBookmarks[parent]
     IN Change([tree EXCEPT !.nextBookmark = id + 1,
                            !.bookmarks = @ \cup {[id |-> id, parent |-> parent, position |-> position]}],
               IF index = None THEN None
                 ELSE [index EXCEPT !.childBookmarks[parent] = @ + 1])

\* rename_folder, rename_bookmark
Rename == Change(tree, index)

\* An operation that moves or removes rows drops the index before it looks at
\* its arguments, and so does one that then refuses them.
DropIndex ==
  /\ index # None
  /\ index' = None
  /\ UNCHANGED <<tree, batch, disk, refused, changes>>

Moved(rows, id, parent) ==
  {IF r.id = id THEN [r EXCEPT !.parent = parent, !.position = Cardinality(ChildrenOf(rows, parent))]
   ELSE r : r \in rows}

\* Mutant: only the folder itself is refused as its parent.
MoveFolderAnywhere(id, parent) ==
  /\ {id, parent} \subseteq IdsOf(tree.folders)
  /\ id # Root /\ id # parent
  /\ Change([tree EXCEPT !.folders = Moved(@, id, parent)], None)

\* move_folder
MoveFolder(id, parent) ==
  /\ {id, parent} \subseteq IdsOf(tree.folders)
  /\ id # Root
  /\ id \notin Ancestry(tree.folders, parent)
  /\ Change([tree EXCEPT !.folders = Moved(@, id, parent)], None)

\* move_bookmark
MoveBookmark(id, parent) ==
  /\ parent \in IdsOf(tree.folders)
  /\ id \in IdsOf(tree.bookmarks)
  /\ Change([tree EXCEPT !.bookmarks = Moved(@, id, parent)], None)

\* delete_bookmark
DeleteBookmark(id) ==
  /\ id \in IdsOf(tree.bookmarks)
  /\ Change([tree EXCEPT !.bookmarks = {b \in @ : b.id # id}], None)

\* delete_folder, with all below it
DeleteFolder(id) ==
  /\ id \in IdsOf(tree.folders) \ {Root}
  /\ LET gone == Subtree(tree.folders, id)
     IN Change([tree EXCEPT !.folders = {f \in @ : f.id \notin gone},
                            !.bookmarks = {b \in @ : b.parent \notin gone}], None)

\* batch, up to the closure; one inside another is part of it
BatchBegins ==
  /\ batch = None
  /\ batch' = tree
  /\ index' = BuiltIndex(tree)
  /\ UNCHANGED <<tree, disk, refused, changes>>

\* The closure returns Ok and the save succeeds.
BatchSaved ==
  /\ batch # None
  /\ ValidTree(tree)
  /\ disk' = Rows(tree)
  /\ refused' = 0
  /\ changes' = 0
  /\ batch' = None
  /\ index' = None
  /\ UNCHANGED tree

\* Mutant: the rows stay when it is the save that fails.
BatchTakenBackUnlessRefused ==
  /\ batch # None
  /\ \/ tree' = batch
     \/ UNCHANGED tree
  /\ batch' = None
  /\ index' = None
  /\ changes' = 0
  /\ UNCHANGED <<disk, refused>>

\* An operation of the closure fails and it gives up, or the save is refused.
BatchTakenBack ==
  /\ batch # None
  /\ tree' = batch
  /\ batch' = None
  /\ index' = None
  /\ changes' = 0
  /\ UNCHANGED <<disk, refused>>

Operation ==
  \/ \E f \in FolderIds : CreateFolder(f) \/ CreateBookmark(f) \/ DeleteFolder(f)
  \/ \E f, g \in FolderIds : MoveFolder(f, g)
  \/ \E b \in BookmarkIds : DeleteBookmark(b) \/ \E f \in FolderIds : MoveBookmark(b, f)
  \/ Rename
  \/ DropIndex

\* The program ends and is started again.
Restart ==
  /\ tree' = Opened(disk)
  /\ batch' = None
  /\ index' = None
  /\ refused' = 0
  /\ changes' = 0
  /\ UNCHANGED disk

Next == Operation \/ BatchBegins \/ BatchSaved \/ BatchTakenBack \/ Restart

Spec == Init /\ [][Next]_vars

(***************************************************************************)
(* Properties                                                              *)
(***************************************************************************)

\* Data-model 1.8, without a walk: every folder is in whatever holds the root
\* and the children of what it holds.
IsTree(rows) ==
  /\ OneEach(rows.folders) /\ OneEach(rows.bookmarks)
  /\ Root \in IdsOf(rows.folders)
  /\ \A f \in rows.folders : f.id = Root <=> f.parent = None
  /\ \A held \in SUBSET FolderIds :
       Root \in held /\ ClosedDownwards(held, rows.folders) => IdsOf(rows.folders) \subseteq held
  /\ {b.parent : b \in rows.bookmarks} \subseteq IdsOf(rows.folders)

(* One root, no cycle, every bookmark under it, after any operations, moves *)
(* and cascades, in a batch, after one was taken back, and for any file the *)
(* store was opened on: what is no tree is not taken up.                    *)
AlwaysATree == IsTree(tree) /\ (batch # None => IsTree(batch))

(* Between operations the file is the store, unless a save of an operation *)
(* of its own was refused: a batch that fails leaves the two as they were, *)
(* together or apart, and what was deleted is not there after a restart.   *)
DiskIsTheStore ==
  batch = None /\ refused = 0 => Rows(tree) = Rows(Opened(disk))

(* "A batch positions rows exactly as single operations do"                *)
(* (tests/bookmark_store.rs): while the batch has its index, the index is  *)
(* what a scan of the store would find.                                    *)
IndexIsTheStore == index # None => index = BuiltIndex(tree)
=============================================================================
