SPECIFICATION Spec
CONSTANTS
  tab1 = tab1  tab2 = tab2  boot = boot
  Requests = {tab1, tab2}
  Boot = boot
  MaxCodes = 2
  MaxClients = 5
  MaxRetries = 1
  Events = {"logout", "config", "restart", "revoke", "network", "timeout"}
  MaxEvents = 2
INVARIANTS TypeOK OneListener LogoutIsFinal
PROPERTIES PromotesOwn
\* Nobody has to ask for anything.
CHECK_DEADLOCK FALSE
