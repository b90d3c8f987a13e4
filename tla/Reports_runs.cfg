SPECIFICATION Spec
CONSTANTS
  Client = {c1, c2}
  Slot = {k1}
  Text = {t1, t2}
  Item = {w1, w2}
  Source = {s1}
  Cadence = {2}
  None = None
  Keep = Keep
  MaxRuns = 3
  SOURCE_CADENCE_WINDOW = 5
  SOURCE_MIN_HISTORY = 3
  SOURCE_MIN_SPAN_CADENCES = 3
  Undeclared = None
  LastDay = 7
INVARIANT FindingsAreTheLatestRuns
INVARIANT UneditedReadsAsCreated
INVARIANT ContradictionOnlyAtBirth
INVARIANT SilentSourcesAreTold
INVARIANT OnDemandIsNeverDue
