SPECIFICATION Spec
CONSTANTS
  Absent = Absent
  Keep = Keep
  Schedule = {s1}
  WorkItem = {w1, w2, w3}
  Client = {c1, c2}
  NoWorkItem = NoWorkItem
  NewSchedules <- AnyCadence
  SchedulePatches <- PauseOrRecadence
  ItemStatuses = {"resolved", "done", "closed"}
  Reopen = FALSE
  MaxTime = 4
SYMMETRY Symmetry
INVARIANT AtMostOneOutstanding
INVARIANT OnceFiresOnce
PROPERTY DrillsAreSpaced
