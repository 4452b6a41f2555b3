\* Accounts, contacts, groups and messages grow and shrink together, at most
\* five of them; within that every mix occurs, up to three messages among them.
SPECIFICATION Spec
CONSTANTS
  Names = {1, 2, 3}
  Hashes = {h1, h2}
  PublicKeys = {p1}
  NoKey = NoKey
  GroupNames = {team}
  NoChat = NoChat
  Messages <- MCMessages
  MaxGroups = 2
  MaxPlaces = 3
CONSTRAINT Few
INVARIANTS TypeOK ReferencesResolve GroupNumbersUnique ConversationsExact
PROPERTIES AccountsPermanent GroupsPermanent NothingLost
