SPECIFICATION Spec
CONSTANTS
  c1 = c1
  c2 = c2
  c3 = c3
  Names = {1, 2}
  Clients = {c1, c2, c3}
  NameOf <- TwoOfOne
  Callers = {k1}
  Passwords = {p}
  GroupNames = {team}
  Delimited = {}
  NoName = NoName
  NoChat = NoChat
  NoMessage = NoMessage
  Contacts = {1}
  Invitations <- Everyone
  SaveOutcomes <- Saved
  MaxKeys = 3
  MaxGroups = 1
  MaxSends = 1
  MaxRestarts = 1
INVARIANTS SessionsExclusive KeysAgree HistoryReadable DeliveredShown
PROPERTY ImplementsMessageLife
