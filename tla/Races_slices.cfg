SPECIFICATION RaceSpec
CONSTANTS
  WorkItem = {w1}
  Proposal = {p1, p2}
  Program = {g1}
  Card = {}
  Capture = {}
  Project = {j1}
  NoProject = NoProject
  NewWorkItems <- Soakable
  WorkItemPatches <- OpenOrDone
  ProposalPatches <- SliceStatuses
  ProgramPatches <- ProgramStatusesMoved
  CardPatches <- NoRequest
  CapturePatches <- NoRequest
  Askable = {}
  Client = {c1, c2}
  Concurrent <- SlicesAndSingles
SYMMETRY Symmetry
PROPERTY QueuedStaysHonest
PROPERTY AloneIsAtomic
