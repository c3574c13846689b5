\* A payment arrives after the reservation has ended.
CONSTANTS
  Orders = {o1, o2}
  Sessions = {s1}
  TicketTypes = {t1}
  SaleWorkers = {a1}
  PayWorkers = {p1}
  WebhookWorkers = {h1}
  CancelWorkers = {c1}
  Amounts <- AmountsOne
  MaxQuantity = 1
  ReservationMinutes = 1
  MaxTime = 4
  None = None
SPECIFICATION Spec
SYMMETRY Symmetry
INVARIANT NeverOversold
