--------------------------- MODULE MCTabNavigation ---------------------------
(* Two tabs of one window. *)
EXTENDS TabNavigation

CONSTANTS t1, t2

TwoTabs == {t1, t2}
OneWindow == {Surfaces}
=============================================================================
