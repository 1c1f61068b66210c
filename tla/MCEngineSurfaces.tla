-------------------------- MODULE MCEngineSurfaces --------------------------
(* Two surfaces, one page that requests one resource, of a site of its own. *)
EXTENDS EngineSurfaces

CONSTANTS page, resource, pageSite, otherSite

MCSubresources == [a \in {page} |-> {resource}]
MCSiteOf == [x \in {page, resource} |-> IF x = page THEN pageSite ELSE otherSite]
MCCovers == {<<pageSite, pageSite>>, <<otherSite, otherSite>>}
MCPolicies == {{resource}}
=============================================================================
