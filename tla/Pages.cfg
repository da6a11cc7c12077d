SPECIFICATION PageSpec
CONSTANTS
  PageSize = 2
  kVirtualPageNum = 64
  kDynamicMappingStartPage = 32
  UPages = {u1, u2, u3, u4}
  Maps <- AllMaps
SYMMETRY Symmetry
INVARIANTS PageTypeOK NoPageTwice PagesInUseAreSet
