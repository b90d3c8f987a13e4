SPECIFICATION MCSpec
CHECK_DEADLOCK FALSE
CONSTANTS
  w1 = w1
  w2 = w2
  p1 = p1
  p2 = p2
  g1 = g1
  j1 = j1
  WorkItem = {w1, w2}
  Proposal = {p1, p2}
  Program = {g1}
  Card = {c1}
  Capture = {k1}
  Project = {j1}
  NoProject = NoProject
  NewWorkItems <- NoCreation
  WorkItemPatches <- Deciding
  ProposalPatches <- Moving
  ProgramPatches <- Ending
  CardPatches <- Cutting
  CapturePatches <- Archival
  Askable = {w1, p1, g1}
  Dependencies <- Chain
  MaxCalls = 2
INVARIANT QuietBoardsAddUp
INVARIANT LastingBlockersAreShown
PROPERTY LaneExitSettles
