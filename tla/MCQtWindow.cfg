SPECIFICATION Spec
CONSTANTS
  Names = {1, 2}
  Nobody = Nobody
  NoChat = NoChat
  MaxGroups = 1
  MaxSends = 2
INVARIANTS TypeOK SelectionOwn RowsTrue WatchedOnce
PROPERTY MarkStays
