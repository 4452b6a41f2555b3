SPECIFICATION Spec
CONSTANTS
  Names = {1, 2}
  Nobody = Nobody
  NoChat = NoChat
  MaxGroups = 1
  MaxSends = 1
PROPERTY SentToMarked
CHECK_DEADLOCK FALSE
