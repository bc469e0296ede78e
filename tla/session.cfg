SPECIFICATION FairSpec
CONSTANTS
  web = web  a = a  b = b
  Procs = {web}
  Coroutines = {a, b}
  MaxLogins = 2
  MaxGen = 2
  Disturbances = {"revoke", "logout", "drop"}
INVARIANTS TypeOK FreshClient
PROPERTIES CatchesUp LoginSurvives
\* Nobody has to call, log in or log out.
CHECK_DEADLOCK FALSE
