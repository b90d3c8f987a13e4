SPECIFICATION Spec
CONSTANTS
  WorkItem = {}
  Proposal = {}
  Program = {}
  Card = {c1}
  Capture = {k1}
  Project = {j1}
  NoProject = NoProject
  NewWorkItems <- NoRequest
  WorkItemPatches <- NoRequest
  ProposalPatches <- NoRequest
  ProgramPatches <- NoRequest
  CardPatches <- AnswerCard
  CapturePatches <- AnswerCapture
  Askable = {c1, k1}
PROPERTY EveryLaneExitSettles
