SPECIFICATION FairSpec
CONSTANTS
  p1 = p1  loop = loop  button = button  h1 = h1
  Proxies = {p1}
  Loop = loop
  Manual = {button}
  Handlers = {h1}
  Edits = {"enable", "disable", "delete"}
  Threshold = 3
  MaxFails = 3
  MaxOutages = 3
INVARIANTS TypeOK
PROPERTIES CountDecides Recovers DeadIsDropped
\* Every proxy may be disabled or removed, and every outage used up.
CHECK_DEADLOCK FALSE
