\* Two tickets: both of one settlement of the order, one of each of two
\* settlements by concurrent webhooks, or one or none of the order.
CONSTANTS
  MaxTickets = 2
  MaxTransfers = 0
  Users = {u1}
  Orders = {o1}
  Requests = {}
  Webhooks = {h1, h2}
  Consumers = {c1, c2}
  MaxDisturbances = 1
  None = None
SPECIFICATION FairSpec
INVARIANT CompletedOrderWasMinted
PROPERTIES MintIsResolved OrderOfMintedTicketIsCompleted
