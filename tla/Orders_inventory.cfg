\* Three orders of one or two tickets, two requests at a time, an amount the
\* provider changes.
CONSTANTS
  Orders = {o1, o2, o3}
  Sessions = {s1}
  TicketTypes = {t1}
  SaleWorkers = {a1, a2}
  PayWorkers = {p1}
  WebhookWorkers = {h1}
  CancelWorkers = {c1}
  Amounts <- AmountsOneTwo
  MaxQuantity = 2
  ReservationMinutes = 1
  MaxTime = 4
  None = None
SPECIFICATION Spec
SYMMETRY Symmetry
INVARIANT OversoldOnlyByLatePayments
PROPERTY ImplementsBoxOffice
