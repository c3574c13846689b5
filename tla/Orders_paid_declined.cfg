\* The customer pays before the cancel message is handled.
CONSTANTS
  Orders = {o1}
  Sessions = {s1}
  TicketTypes = {t1}
  SaleWorkers = {a1}
  PayWorkers = {p1}
  WebhookWorkers = {h1}
  CancelWorkers = {c1}
  Amounts <- AmountsOne
  MaxQuantity = 1
  ReservationMinutes = 1
  MaxTime = 3
  None = None
SPECIFICATION Spec
SYMMETRY Symmetry
INVARIANT PaidSessionIsNotDeclined
