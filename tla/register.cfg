SPECIFICATION FairSpec
CONSTANTS
  a = a  b = b  c = c  d = d  e = e  u = u  v = v
  Ids <- MCIds
  URLs = {u, v}
  Starts <- MCStarts
  NewEntries <- MCNew
  PerPage = 2
  MaxPages = 4
  MaxChanges = 2
INVARIANTS
  NothingHidden
  EachIDOnce
PROPERTIES
  ListingEnds
CHECK_DEADLOCK FALSE
