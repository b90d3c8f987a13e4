SPECIFICATION Spec
CONSTANTS
  Client = {c1, c2}
  Link = {l1}
  Handoff = {h1}
  Item = {}
  Existing = {l1}
  Values = {"old", "new"}
  Texts <- SomeTexts
  Comments = {1, 2}
  Filters <- SomeFilters
  PageSize = 1
  MaxCalls = 3
INVARIANT FeedTellsTheThread
 
PROPERTY DeleteTakesOnlyLateReferences
PROPERTY EditsAreLogged
CHECK_DEADLOCK FALSE
SYMMETRY ClientSymmetry
