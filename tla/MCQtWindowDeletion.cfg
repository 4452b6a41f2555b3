SPECIFICATION Spec
CONSTANTS
  Names = {1, 2}
  Nobody = Nobody
  NoChat = NoChat
  MaxGroups = 0
  MaxSends = 1
INVARIANT DeletedDisappears
CHECK_DEADLOCK FALSE
