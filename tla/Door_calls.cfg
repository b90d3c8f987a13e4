SPECIFICATION Spec
CONSTANTS
  SignIn = {s1, s2}
  OpenDoors = {"korg", "klams"}
  ReadTools = {"get_item"}
  WriteTools = {"create_work_item", "add_comment"}
  OriginTools = {"add_comment"}
  KlamsReads = {"memory_search"}
  KlamsWrites = {"memory_add", "memory_update"}
  OtherTools = {"update_proposal"}
  FreeFailures = 1
  LockoutBase = 30
  LockoutCap = 100
  Messages <- SomeMessages
  Replies <- SomeReplies
  MaxMints = 2
  MaxFailures = 6
INVARIANT DenyByDefault
INVARIANT TokensKeepTheirDoor
INVARIANT TriesAreBounded
PROPERTY MistakesKeepTheGrant
SYMMETRY SignInSymmetry
