SPECIFICATION Spec
CONSTANTS
  page = page
  site = site
  Addresses = {page}
  Resources = {}
  Sites = {site}
  Subresources <- MCSubresources
  SiteOf <- MCSiteOf
  Covers <- MCCovers
  Policies = {}
  MaxSurfaces = 2
  None = None
  SiteKeys = {site}
  Capabilities = {camera}
  WindowIds <- MCWindowIds
  Persistent = Persistent
  Nothing = Nothing
INVARIANTS
  PermissionsAreTheMembers
  WindowsHaveTheirSurfaces
CHECK_DEADLOCK FALSE
