SPECIFICATION Spec
CONSTANTS
  tg1 = tg1  link1 = link1
  tgWorker = tgWorker  linkWorker = linkWorker  r1 = r1  r2 = r2  none = none
  thisUrl = thisUrl
  Tasks = {tg1}
  TgTasks = {tg1}
  Workers = {tgWorker, linkWorker}
  Requests = {r1}
  NoTask = none
  Url <- SameUrls
  BadUrl = {}
  Listens <- ComposeListens
  Budget <- OneRestart
  MaxRetries = 1
  MaxManual = 1
  Overlap = FALSE
  BackoffOutlastsCommit = TRUE
  NotifyRaises = FALSE
PROPERTIES Reenqueued
\* All tasks may be finished or deleted and every bound used up.
CHECK_DEADLOCK FALSE
