SPECIFICATION FairSpec
CONSTANTS
  tg1 = tg1  link1 = link1
  tgWorker = tgWorker  linkWorker = linkWorker  r1 = r1  r2 = r2  none = none
  thisUrl = thisUrl
  Tasks = {link1}
  TgTasks = {}
  Workers = {tgWorker, linkWorker}
  Requests = {r1, r2}
  NoTask = none
  Url <- SameUrls
  BadUrl = {}
  Listens <- ComposeListens
  Budget <- FilesLost
  MaxRetries = 1
  MaxManual = 1
  Overlap = TRUE
  BackoffOutlastsCommit = TRUE
  NotifyRaises = TRUE
INVARIANTS StrandedBound
PROPERTIES Settles
\* All tasks may be finished or deleted and every bound used up.
CHECK_DEADLOCK FALSE
