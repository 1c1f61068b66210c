----------------------------- MODULE MCWindows -----------------------------
(* Two windows of either kind, one page, one site with one capability.  No *)
(* content is blocked.                                                     *)
EXTENDS Windows

CONSTANTS page, site

MCSubresources == [a \in {page} |-> {}]
MCSiteOf == [a \in {page} |-> site]
MCCovers == {<<site, site>>}
MCWindowIds == 1..2
=============================================================================
