SPECIFICATION Spec
CONSTANTS
  WorkItem = {w1}
  Proposal = {p1, p2}
  Program = {g1, g2}
  Card = {}
  Capture = {}
  Project = {j1}
  NoProject = NoProject
  NewWorkItems <- Soakable
  WorkItemPatches <- OpenOrDone
  ProposalPatches <- FewProposalStatuses
  ProgramPatches <- FewProgramStatuses
  CardPatches <- NoRequest
  CapturePatches <- NoRequest
  Askable = {}
INVARIANT SoakingMeansIdle
PROPERTY DeclaredStatusStands
PROPERTY EveryChangeLogged
SYMMETRY GraphSymmetry
