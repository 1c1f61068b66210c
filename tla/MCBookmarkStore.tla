--------------------------- MODULE MCBookmarkStore ---------------------------
(* Two folders and a bookmark, and files no store of this program wrote: a  *)
(* repeated folder, the same row twice, a cycle, a row whose folder is not  *)
(* there or not named.                                                      *)
EXTENDS BookmarkStore

F(id, parent) == [id |-> id, parent |-> parent, position |-> 0]
MCFiles ==
  {[folders |-> Listed({F(1, 0)}), bookmarks |-> Listed({})],
   [folders |-> Listed({F(0, None), F(1, 2), F(1, 0), F(2, 1)}), bookmarks |-> Listed({})],
   [folders |-> [f \in {F(0, None), F(1, 0)} |-> f.id + 1], bookmarks |-> Listed({})],
   [folders |-> Listed({F(0, None), F(1, 2), F(2, 1)}), bookmarks |-> Listed({})],
   [folders |-> Listed({F(0, None)}), bookmarks |-> Listed({F(1, 2)})],
   [folders |-> Listed({F(0, None)}), bookmarks |-> Listed({F(1, None)})]}
=============================================================================
