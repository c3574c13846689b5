\* One ticket that no order has bought, two requests at a time, and two transfers.
CONSTANTS
  MaxTickets = 1
  MaxTransfers = 2
  Users = {u1, u2}
  Orders = {}
  Requests = {w1, w2}
  Webhooks = {}
  Consumers = {c1}
  MaxDisturbances = 1
  None = None
SPECIFICATION Spec
SYMMETRY Symmetry
INVARIANTS TypeOK AdmittedOnce CompletedTransferWasReported
PROPERTY ReopenedOnlyByItsReply
