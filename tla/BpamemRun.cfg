SPECIFICATION FairSpec
CONSTANTS
  p1 = p1
  p2 = p2
  p3 = p3
  g1 = g1
  g2 = g2
  g3 = g3
  planes = planes
  video = video
  NoPage = NoPage
  NoPart = NoPart
  Callers <- MCCallers
  Pages <- MCPages
  Parts <- MCParts
  PartOf <- MCPartOf
  MAX_BPA_ALLOCS = 2
INVARIANTS TypeOK OneOwner PagesAccounted MappingsOwned
PROPERTIES ExitFreesAll CallsReturn
