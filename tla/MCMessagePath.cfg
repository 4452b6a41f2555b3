\* One message between any two of five users, one of whom has a '|' in the
\* name, in person or in a group.  Byte 255 and a key near it make every sum
\* of the cipher wrap.
SPECIFICATION Spec
CONSTANTS
  NameOf <- MCNameOf
  GroupIds <- MCGroupIds
  Texts <- MCTexts
  SessionKeys = {3, 250}
  None = None
INVARIANTS
  LineExact
  EventExact
  ViewExact
  PartiesOnly
