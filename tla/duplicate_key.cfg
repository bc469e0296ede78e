SPECIFICATION FairSpec
CONSTANTS
  tab1 = tab1  tab2 = tab2  boot = boot
  Requests = {tab1}
  Boot = boot
  MaxCodes = 1
  MaxClients = 3
  MaxRetries = 1
  Events = {"duplicate"}
  MaxEvents = 0
PROPERTIES SessionKept
\* Nobody has to ask for anything.
CHECK_DEADLOCK FALSE
