\* Two providers with encrypted messages and two versions of their keys, which use
\* the same uuids and phone number; two requests at a time, which can hold the two
\* connections of the pool.
CONSTANTS
  Providers = {a1, a2}
  Level2 = {a1, a2}
  Users = {u1}
  Phones = {n1}
  Events = {e1}
  TicketTypes = {y1}
  Contents = {c1}
  Requests = {w1, w2}
  PoolSize = 2
  MaxUsers = 2
  MaxEvents = 2
  MaxTypes = 2
  MaxTickets = 1
  MaxRows = 4
  MaxVersion = 2
  None = None
SPECIFICATION Spec
SYMMETRY Symmetry
INVARIANTS
  TypeOK
  StuckOnlyByThePool
  TicketRefersToItsProvider
  RowsOfOneUuidBounded
  OnlyItsProviderWrites
  
  KeysOfMessagesStay
  KeylessProviderHasFailed
PROPERTY ImplementsRegistry
CHECK_DEADLOCK FALSE
