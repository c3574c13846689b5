\* The first transfer is one of the second ticket.
CONSTANTS
  MaxTickets = 2
  MaxTransfers = 1
  Users = {u1, u2}
  Orders = {o1}
  Requests = {w1}
  Webhooks = {h1}
  Consumers = {c1}
  MaxDisturbances = 0
  None = None
SPECIFICATION Spec
PROPERTY TransferMovesItsTicket
