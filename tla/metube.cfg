SPECIFICATION FairSpec
CONSTANTS
  short = short  clip = clip  bili = bili
  Links = {short, clip, bili}
  Url <- SharedUrls
  MaxTries = 2
  MaxOutages = 2
  KeepsDone = TRUE
INVARIANTS TypeOK
PROPERTIES EveryTaskEnds LivesAsPromised
\* Every task completes or fails in the end.
CHECK_DEADLOCK FALSE
