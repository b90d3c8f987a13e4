SPECIFICATION FairSpec
CHECK_DEADLOCK FALSE
CONSTANTS
  Image = {a1, a2}
  Owner = {o1, o2}
  Sweeper = {hourly, byhand}
  Hourly = hourly
  MaxMishaps = 2
  MAX_UPLOAD_BYTES = 2
  THUMB_LONG_EDGE = 2
  AGENT_LONG_EDGE = 4
  MaxSide = 7
INVARIANT AnsweredImagesHaveBytes
INVARIANT StrandedOnlyByMishap
INVARIANT EverySizeIsServed
PROPERTY OrphansCollected
