SPECIFICATION Spec
CONSTANTS
  c1 = c1
  c2 = c2
  c3 = c3
  Names = {1, 2}
  Clients = {c1, c2}
  NameOf <- OnePerUser
  Callers = {}
  Passwords = {p}
  GroupNames = {team}
  Delimited = {}
  NoName = NoName
  NoChat = NoChat
  NoMessage = NoMessage
  Contacts = {}
  Invitations <- None
  SaveOutcomes <- FaultySaves
  MaxKeys = 3
  MaxGroups = 0
  MaxSends = 0
  MaxRestarts = 0
INVARIANT CorruptedKeyRefused
CHECK_DEADLOCK FALSE
