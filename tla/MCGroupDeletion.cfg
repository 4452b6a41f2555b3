SPECIFICATION ReadySpec
CONSTANTS
  c1 = c1
  c2 = c2
  c3 = c3
  Names = {1, 2}
  Clients = {c1, c2}
  NameOf <- OnePerUser
  Callers = {k1}
  Passwords = {p}
  GroupNames = {team}
  Delimited = {}
  NoName = NoName
  NoChat = NoChat
  NoMessage = NoMessage
  Contacts = {}
  Invitations <- Everyone
  SaveOutcomes <- Saved
  MaxKeys = 2
  MaxGroups = 1
  MaxSends = 1
  MaxRestarts = 0
INVARIANT DeletedForEveryone
CHECK_DEADLOCK FALSE
