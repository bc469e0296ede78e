SPECIFICATION FairSpec
CONSTANTS
  tg1 = tg1  link1 = link1
  tgWorker = tgWorker  linkWorker = linkWorker  r1 = r1  r2 = r2  none = none
  thisUrl = thisUrl
  Tasks = {tg1, link1}
  TgTasks = {tg1}
  Workers = {tgWorker, linkWorker}
  Requests = {r1, r2}
  NoTask = none
  Url <- SameUrls
  BadUrl = {link1}
  Listens <- ComposeListens
  Budget <- FilesLost
  MaxRetries = 2
  MaxManual = 1
  Overlap = FALSE
  BackoffOutlastsCommit = TRUE
  NotifyRaises = FALSE
INVARIANTS TypeOK AtMostOneRun FailedIsIdle ExclusiveClaims
PROPERTIES CompletedHasFile RetriesOnlyGrow LivesAsPromised
\* All tasks may be finished or deleted and every bound used up.
CHECK_DEADLOCK FALSE
