SPECIFICATION EngineSpec
CONSTANTS
  page = page
  resource = resource
  pageSite = pageSite
  otherSite = otherSite
  Addresses = {page}
  Resources = {resource}
  Sites = {pageSite, otherSite}
  Subresources <- MCSubresources
  SiteOf <- MCSiteOf
  Covers <- MCCovers
  Policies <- MCPolicies
  MaxSurfaces = 2
  None = None
INVARIANTS OneForeground NothingLeftBehind
PROPERTY PersistentDataStay
CHECK_DEADLOCK FALSE
