SPECIFICATION Spec
CONSTANTS
  Client = {c1, c2}
  Project = {p1, p2}
  Founded = {p1, p2}
  Item = {i1}
  Card = {k1}
  Area = {a1, a2}
  Names = {"north", "south"}
  Place = {"here"}
  Patches <- SomePatches
  MaxCalls = 4
INVARIANT ListingsAddUp
PROPERTY ArchivingRecordsPlaces
PROPERTY AreasFitUnlessOvertaken
PROPERTY DeletingUnfilesOnlyLateItems
SYMMETRY ClientSymmetry
CHECK_DEADLOCK FALSE
