SPECIFICATION FairSpec
CONSTANTS
  tab1 = tab1  tab2 = tab2  boot = boot
  Requests = {tab1, tab2}
  Boot = boot
  MaxCodes = 1
  MaxClients = 5
  MaxRetries = 1
  Events = {"logout", "config", "restart", "revoke", "duplicate", "network", "timeout", "worker"}
  MaxEvents = 2
PROPERTIES KeepsExporting RequestsEnd
\* Nobody has to ask for anything.
CHECK_DEADLOCK FALSE
