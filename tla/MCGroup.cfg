SPECIFICATION ReadyFairSpec
CONSTANTS
  c1 = c1
  c2 = c2
  c3 = c3
  Names = {1, 2, 3}
  Clients = {c1, c2, c3}
  NameOf <- ThreeUsers
  Callers = {k1}
  Passwords = {p}
  GroupNames = {team}
  Delimited = {3}
  NoName = NoName
  NoChat = NoChat
  NoMessage = NoMessage
  Contacts = {}
  Invitations <- Everyone
  SaveOutcomes <- Saved
  MaxKeys = 3
  MaxGroups = 1
  MaxSends = 1
  MaxRestarts = 0
INVARIANTS FanoutExact DeliveredShown
PROPERTIES CallsReturn ImplementsMessageLife
