SPECIFICATION Spec
CONSTANTS
  Names = {alice, bob}
  Clients = {c1, c2}
  Callers = {k1, k2}
  Payloads = {p, q}
  NoName = NoName
  MaxInbox = 2
INVARIANTS TypeOK RegistryAgrees
PROPERTY ImplementsPresence
