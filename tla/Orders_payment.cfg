\* One order with two payments, a webhook delivered twice, and the cancel
\* message: safety and liveness.
CONSTANTS
  Orders = {o1}
  Sessions = {s1, s2}
  TicketTypes = {t1}
  SaleWorkers = {a1}
  PayWorkers = {p1, p2}
  WebhookWorkers = {h1, h2}
  CancelWorkers = {c1}
  Amounts <- AmountsOne
  MaxQuantity = 1
  ReservationMinutes = 1
  MaxTime = 2
  None = None
SPECIFICATION FairSpec
INVARIANTS TypeOK MoneyOrderTicketsAgree BatchesBoundedByConcurrency
PROPERTIES SettlementIsFinal PendingOrderIsResolved
