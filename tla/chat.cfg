SPECIFICATION ChatSpec
CONSTANTS
  m1 = m1  m2 = m2   chat = chat
  Messages = {m1, m2}
  Count <- Album
  Chats = {chat}
  ChatOf <- OneChat
  MaxLosses = 1
  MaxCrashes = 1
  MaxUpdates = 2
  Commands = {2}
  MaxRestarts = 1
INVARIANTS ChatTypeOK NothingDropped ToldOnce CommandsOnce
PROPERTIES Announced
\* Nothing has to arrive.
CHECK_DEADLOCK FALSE
