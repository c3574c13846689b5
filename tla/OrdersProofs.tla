---------------------------- MODULE OrdersProofs ----------------------------
(***************************************************************************)
(* Proofs about Orders, for every number of orders, sessions, ticket types *)
(* and workers.                                                            *)
(***************************************************************************)
EXTENDS Orders, FiniteSetTheorems, TLAPS

\* The types of the rows and of the bodies of requests, and the controllers,
\* stand for what they are everywhere below.
USE DEF CreateOrderDto, CreatePaymentDto, UpdateTicketTypeDto, AdminUpdateTicketTypeDto,
        OrderStatus, OrderRow, OrderTable, OrderPrimaryRow, OrderPrimaryTable,
        OrderPaymentStatus, OrderPaymentRow, OrderPaymentTable,
        OrderController, PaymentController, TicketTypeController,
        AdminTicketTypeController, AdminUpdateTicketType

(***************************************************************************)
(* Every id a row or a worker refers to is that of an existing row: a      *)
(* session belongs to an order that exists, a payment row to a session     *)
(* Stripe has created, and a worker that has read a payment still finds it.*)
(***************************************************************************)
SessionsHaveOrders ==
  \A s \in Sessions : stripe[s] # "none" => /\ sessionOrder[s] \in Orders
                                            /\ status[sessionOrder[s]] # "none"

PaymentsHaveSessions == \A s \in Sessions : payment[s] # "none" => stripe[s] # "none"

PayWorkersHaveOrders ==
  \A w \in PayWorkers :
    /\ payRequest[w].pc # "idle" => /\ payRequest[w].order \in Orders
                                    /\ status[payRequest[w].order] # "none"
    /\ payRequest[w].pc = "opened" => /\ payRequest[w].session \in Sessions
                                      /\ stripe[payRequest[w].session] # "none"

\* A session just opened has no payment row yet, and one request alone writes it.
OpenedSessionsAreFresh ==
  \A w \in PayWorkers : payRequest[w].pc = "opened" =>
    /\ payment[payRequest[w].session] = "none"
    /\ \A v \in PayWorkers :
         payRequest[v].pc = "opened" /\ payRequest[v].session = payRequest[w].session => v = w

WebhooksHavePayments ==
  \A w \in WebhookWorkers :
    webhook[w] # None => /\ webhook[w] \in Sessions
                         /\ payment[webhook[w]] # "none"
                         /\ stripe[webhook[w]] \in {"complete", "expired"}

CancelsHavePayments ==
  \A w \in CancelWorkers :
    cancel[w].pc # "idle" => /\ cancel[w].session \in Sessions
                             /\ payment[cancel[w].session] # "none"

References ==
  /\ SessionsHaveOrders
  /\ PaymentsHaveSessions
  /\ PayWorkersHaveOrders
  /\ OpenedSessionsAreFresh
  /\ WebhooksHavePayments
  /\ CancelsHavePayments

Typed == TypeOK /\ References

LEMMA TypedInit == Init => Typed
<1> SUFFICES ASSUME Init PROVE Typed
  OBVIOUS
<1>0. NoItems \in Items
  BY OrdersAssumption DEF NoItems, Items
<1>1. TypeOK
  BY <1>0, OrdersAssumption DEF Init, TypeOK
<1>2. References
  BY OrdersAssumption DEF Init, References, SessionsHaveOrders, PaymentsHaveSessions,
     PayWorkersHaveOrders, OpenedSessionsAreFresh, WebhooksHavePayments, CancelsHavePayments
<1> QED
  BY <1>1, <1>2 DEF Typed

LEMMA TypedSale == Typed /\ SaleStep => Typed'
<1> SUFFICES ASSUME Typed, SaleStep PROVE Typed'
  OBVIOUS
<1> USE OrdersAssumption DEF Typed, TypeOK, orderVars, paymentVars, workerVars
<1>0. NoItems \in Items
  BY DEF NoItems, Items
<1>1. ASSUME NEW w \in SaleWorkers, NEW items \in Items, LockTicketTypes(w, items)
      PROVE  Typed'
  BY <1>1 DEF LockTicketTypes, References, SessionsHaveOrders, PaymentsHaveSessions,
     PayWorkersHaveOrders, OpenedSessionsAreFresh, WebhooksHavePayments, CancelsHavePayments
<1>2. ASSUME NEW w \in SaleWorkers, CheckAmounts(w)
      PROVE  Typed'
  <2>1. TypeOK'
    BY <1>2 DEF CheckAmounts
  <2>2. References'
    BY <1>2 DEF CheckAmounts, References, SessionsHaveOrders, PaymentsHaveSessions,
       PayWorkersHaveOrders, OpenedSessionsAreFresh, WebhooksHavePayments, CancelsHavePayments
  <2> QED
    BY <2>1, <2>2
<1>3. ASSUME NEW w \in SaleWorkers, NEW o \in Orders, InsertOrder(w, o)
      PROVE  Typed'
  <2>1. TypeOK'
    BY <1>0, <1>3 DEF InsertOrder
  <2>2. References'
    BY <1>3 DEF InsertOrder, References, SessionsHaveOrders, PaymentsHaveSessions,
       PayWorkersHaveOrders, OpenedSessionsAreFresh,
       WebhooksHavePayments, CancelsHavePayments
  <2> QED
    BY <2>1, <2>2
<1>4. ASSUME NEW w \in SaleWorkers, RollbackSale(w)
      PROVE  Typed'
  BY <1>0, <1>4 DEF RollbackSale, References, SessionsHaveOrders, PaymentsHaveSessions,
     PayWorkersHaveOrders, OpenedSessionsAreFresh, WebhooksHavePayments, CancelsHavePayments
<1>5. ASSUME NEW t \in TicketTypes, NEW dto \in UpdateTicketTypeDto,
             UpdateTicketType(t, dto)
      PROVE  Typed'
  <2>1. TypeOK'
    BY <1>5 DEF UpdateTicketType
  <2>2. References'
    BY <1>5 DEF UpdateTicketType, References, SessionsHaveOrders, PaymentsHaveSessions,
       PayWorkersHaveOrders, OpenedSessionsAreFresh,
       WebhooksHavePayments, CancelsHavePayments
  <2> QED
    BY <2>1, <2>2
<1> QED
  BY <1>1, <1>2, <1>3, <1>4, <1>5 DEF SaleStep

LEMMA TypedPay == Typed /\ PayStep => Typed'
<1> SUFFICES ASSUME Typed, NEW w \in PayWorkers,
                    \/ \E o \in Orders : ValidatePayment(w, o)
                    \/ \E s \in Sessions : CreatePaywall(w, s)
                    \/ CreateOrderPayment(w)
                    \/ FailPayment(w)
             PROVE  Typed'
  BY DEF PayStep
<1> USE OrdersAssumption DEF Typed, TypeOK, saleVars, orderVars, paymentVars, IdlePay
<1>1. ASSUME NEW o \in Orders, ValidatePayment(w, o)
      PROVE  Typed'
  BY <1>1 DEF ValidatePayment, Reserved, References, SessionsHaveOrders, PaymentsHaveSessions,
     PayWorkersHaveOrders, OpenedSessionsAreFresh, WebhooksHavePayments, CancelsHavePayments
<1>2. ASSUME NEW s \in Sessions, CreatePaywall(w, s)
      PROVE  Typed'
  <2>1. TypeOK'
    BY <1>2 DEF CreatePaywall
  <2>2. SessionsHaveOrders' /\ PaymentsHaveSessions'
    BY <1>2 DEF CreatePaywall, References, SessionsHaveOrders, PaymentsHaveSessions,
       PayWorkersHaveOrders
  <2>3. PayWorkersHaveOrders' /\ OpenedSessionsAreFresh'
    BY <1>2 DEF CreatePaywall, References, PaymentsHaveSessions, PayWorkersHaveOrders,
       OpenedSessionsAreFresh
  <2>4. WebhooksHavePayments' /\ CancelsHavePayments'
    BY <1>2 DEF CreatePaywall, References, WebhooksHavePayments, CancelsHavePayments
  <2> QED
    BY <2>1, <2>2, <2>3, <2>4 DEF References
<1>3. CASE CreateOrderPayment(w)
  <2>1. TypeOK'
    BY <1>3 DEF CreateOrderPayment
  <2>2. References'
    BY <1>3 DEF CreateOrderPayment, References, SessionsHaveOrders, PaymentsHaveSessions,
       PayWorkersHaveOrders, OpenedSessionsAreFresh,
       WebhooksHavePayments, CancelsHavePayments
  <2> QED
    BY <2>1, <2>2
<1>4. CASE FailPayment(w)
  BY <1>4 DEF FailPayment, References, SessionsHaveOrders, PaymentsHaveSessions,
     PayWorkersHaveOrders, OpenedSessionsAreFresh, WebhooksHavePayments, CancelsHavePayments
<1> QED
  BY <1>1, <1>2, <1>3, <1>4

LEMMA TypedStripe == Typed /\ StripeStep => Typed'
<1> SUFFICES ASSUME Typed, NEW s \in Sessions, CustomerPays(s) \/ SessionExpires(s)
             PROVE  Typed'
  BY DEF StripeStep
<1> USE OrdersAssumption DEF Typed, TypeOK, saleVars, orderVars, workerVars
<1>1. CASE CustomerPays(s)
  BY <1>1 DEF CustomerPays, References, SessionsHaveOrders, PaymentsHaveSessions,
     PayWorkersHaveOrders, OpenedSessionsAreFresh, WebhooksHavePayments, CancelsHavePayments
<1>2. CASE SessionExpires(s)
  BY <1>2 DEF SessionExpires, References, SessionsHaveOrders, PaymentsHaveSessions,
     PayWorkersHaveOrders, OpenedSessionsAreFresh, WebhooksHavePayments, CancelsHavePayments
<1> QED
  BY <1>1, <1>2

\* What the two transactions that settle or cancel an order do to the types of
\* the rows and to the references between them.
LEMMA TypedCancelOrder ==
  ASSUME Typed, NEW o \in Orders, CancelOrder(o)
  PROVE  /\ status' \in [Orders -> {"none", "created", "paid", "completed", "canceled"}]
         /\ payment' \in [Sessions -> {"none", "pending", "completed", "declined"}]
         /\ \A p \in Orders : status[p] # "none" => status'[p] # "none"
         /\ \A s \in Sessions : payment'[s] = "none" <=> payment[s] = "none"
BY DEF Typed, TypeOK, CancelOrder

LEMMA TypedHandleOrderPayment ==
  ASSUME Typed, NEW o \in Orders, NEW s \in Sessions, payment[s] # "none",
         HandleOrderPayment(o, s)
  PROVE  /\ status' \in [Orders -> {"none", "created", "paid", "completed", "canceled"}]
         /\ payment' \in [Sessions -> {"none", "pending", "completed", "declined"}]
         /\ batches' \in [Orders -> Nat]
         /\ late' \subseteq Orders
         /\ \A p \in Orders : status[p] # "none" => status'[p] # "none"
         /\ \A q \in Sessions : payment'[q] = "none" <=> payment[q] = "none"
BY DEF Typed, TypeOK, HandleOrderPayment

\* The order a webhook request or a consumer works on exists.
LEMMA WorkersHaveOrders ==
  ASSUME Typed
  PROVE  /\ \A w \in WebhookWorkers :
              webhook[w] # None => /\ webhook[w] \in Sessions
                                   /\ payment[webhook[w]] # "none"
                                   /\ sessionOrder[webhook[w]] \in Orders
         /\ \A w \in CancelWorkers :
              cancel[w].pc # "idle" => /\ cancel[w].session \in Sessions
                                       /\ sessionOrder[cancel[w].session] \in Orders
BY DEF Typed, References, SessionsHaveOrders, PaymentsHaveSessions, WebhooksHavePayments,
   CancelsHavePayments

LEMMA TypedWebhook == Typed /\ WebhookStep => Typed'
<1> SUFFICES ASSUME Typed, NEW w \in WebhookWorkers,
                    \/ \E s \in Sessions : LookUpOrder(w, s)
                    \/ SettleOrder(w)
                    \/ DeclineOrder(w)
                    \/ FailWebhook(w)
             PROVE  Typed'
  BY DEF WebhookStep
<1> USE OrdersAssumption DEF saleVars, orderVars, paymentVars
<1>1. ASSUME NEW s \in Sessions, LookUpOrder(w, s)
      PROVE  Typed'
  BY <1>1 DEF LookUpOrder, Completable, Typed, TypeOK, References, SessionsHaveOrders,
     PaymentsHaveSessions, PayWorkersHaveOrders, OpenedSessionsAreFresh,
     WebhooksHavePayments, CancelsHavePayments
<1>2. CASE SettleOrder(w)
  <2> DEFINE s == webhook[w]
             o == sessionOrder[s]
  <2>1. s \in Sessions /\ payment[s] # "none" /\ o \in Orders
    BY <1>2, WorkersHaveOrders DEF SettleOrder
  <2>2. HandleOrderPayment(o, s)
    BY <1>2 DEF SettleOrder
  <2>3. /\ status' \in [Orders -> {"none", "created", "paid", "completed", "canceled"}]
        /\ payment' \in [Sessions -> {"none", "pending", "completed", "declined"}]
        /\ batches' \in [Orders -> Nat]
        /\ late' \subseteq Orders
        /\ \A p \in Orders : status[p] # "none" => status'[p] # "none"
        /\ \A q \in Sessions : payment'[q] = "none" <=> payment[q] = "none"
    BY <2>1, <2>2, TypedHandleOrderPayment
  <2> HIDE DEF o, s
  <2>4. TypeOK'
    BY <1>2, <2>3 DEF SettleOrder, Typed, TypeOK
  <2>5. References'
    BY <1>2, <2>3 DEF SettleOrder, Typed, TypeOK, References, SessionsHaveOrders,
       PaymentsHaveSessions, PayWorkersHaveOrders, OpenedSessionsAreFresh,
       WebhooksHavePayments, CancelsHavePayments
  <2> QED
    BY <2>4, <2>5 DEF Typed
<1>3. CASE DeclineOrder(w)
  <2> DEFINE o == sessionOrder[webhook[w]]
  <2>1. o \in Orders
    BY <1>3, WorkersHaveOrders DEF DeclineOrder
  <2>2. CancelOrder(o)
    BY <1>3 DEF DeclineOrder
  <2>3. /\ status' \in [Orders -> {"none", "created", "paid", "completed", "canceled"}]
        /\ payment' \in [Sessions -> {"none", "pending", "completed", "declined"}]
        /\ \A p \in Orders : status[p] # "none" => status'[p] # "none"
        /\ \A s \in Sessions : payment'[s] = "none" <=> payment[s] = "none"
    BY <2>1, <2>2, TypedCancelOrder
  <2>4. TypeOK'
    BY <1>3, <2>3 DEF DeclineOrder, Typed, TypeOK
  <2>5. References'
    BY <1>3, <2>3 DEF DeclineOrder, Typed, TypeOK, References, SessionsHaveOrders,
       PaymentsHaveSessions, PayWorkersHaveOrders, OpenedSessionsAreFresh,
       WebhooksHavePayments, CancelsHavePayments
  <2> QED
    BY <2>4, <2>5 DEF Typed
<1>4. CASE FailWebhook(w)
  BY <1>4 DEF FailWebhook, Typed, TypeOK, References, SessionsHaveOrders,
     PaymentsHaveSessions, PayWorkersHaveOrders, OpenedSessionsAreFresh,
     WebhooksHavePayments, CancelsHavePayments
<1> QED
  BY <1>1, <1>2, <1>3, <1>4

LEMMA TypedCancel == Typed /\ CancelStep => Typed'
<1> SUFFICES ASSUME Typed, NEW w \in CancelWorkers,
                    \/ \E s \in Sessions : FindOperation(w, s) \/ ClosePaywall(w, s)
                    \/ SaveOperation(w)
                    \/ CancelClosedOrder(w)
                    \/ FailCancel(w)
             PROVE  Typed'
  BY DEF CancelStep
<1> USE OrdersAssumption DEF saleVars, orderVars, paymentVars, IdleCancel
<1>1. ASSUME NEW s \in Sessions, FindOperation(w, s)
      PROVE  Typed'
  BY <1>1 DEF FindOperation, CancelDue, Typed, TypeOK, References, SessionsHaveOrders,
     PaymentsHaveSessions, PayWorkersHaveOrders, OpenedSessionsAreFresh,
     WebhooksHavePayments, CancelsHavePayments
<1>2. ASSUME NEW s \in Sessions, ClosePaywall(w, s)
      PROVE  Typed'
  <2>1. TypeOK'
    BY <1>2 DEF ClosePaywall, Typed, TypeOK
  <2>2. \A q \in Sessions : /\ stripe'[q] = "none" <=> stripe[q] = "none"
                            /\ stripe[q] \in {"complete", "expired"} => stripe'[q] = stripe[q]
    BY <1>2 DEF ClosePaywall, Typed, TypeOK
  <2>3. References'
    BY <1>2, <2>2 DEF ClosePaywall, Typed, TypeOK, References, SessionsHaveOrders,
       PaymentsHaveSessions, PayWorkersHaveOrders, OpenedSessionsAreFresh,
       WebhooksHavePayments, CancelsHavePayments
  <2> QED
    BY <2>1, <2>3 DEF Typed
<1>3. CASE SaveOperation(w)
  BY <1>3 DEF SaveOperation, Typed, TypeOK, References, SessionsHaveOrders,
     PaymentsHaveSessions, PayWorkersHaveOrders, OpenedSessionsAreFresh,
     WebhooksHavePayments, CancelsHavePayments
<1>4. CASE CancelClosedOrder(w)
  <2> DEFINE o == sessionOrder[cancel[w].session]
  <2>1. o \in Orders
    BY <1>4, WorkersHaveOrders DEF CancelClosedOrder
  <2>2. CancelOrder(o)
    BY <1>4 DEF CancelClosedOrder
  <2>3. /\ status' \in [Orders -> {"none", "created", "paid", "completed", "canceled"}]
        /\ payment' \in [Sessions -> {"none", "pending", "completed", "declined"}]
        /\ \A p \in Orders : status[p] # "none" => status'[p] # "none"
        /\ \A s \in Sessions : payment'[s] = "none" <=> payment[s] = "none"
    BY <2>1, <2>2, TypedCancelOrder
  <2>4. TypeOK'
    BY <1>4, <2>3 DEF CancelClosedOrder, Typed, TypeOK
  <2>5. References'
    BY <1>4, <2>3 DEF CancelClosedOrder, Typed, TypeOK, References, SessionsHaveOrders,
       PaymentsHaveSessions, PayWorkersHaveOrders, OpenedSessionsAreFresh,
       WebhooksHavePayments, CancelsHavePayments
  <2> QED
    BY <2>4, <2>5 DEF Typed
<1>5. CASE FailCancel(w)
  BY <1>5 DEF FailCancel, Typed, TypeOK, References, SessionsHaveOrders,
     PaymentsHaveSessions, PayWorkersHaveOrders, OpenedSessionsAreFresh,
     WebhooksHavePayments, CancelsHavePayments
<1> QED
  BY <1>1, <1>2, <1>3, <1>4, <1>5

\* The references hold from one state to the next.
LEMMA TypedNext == Typed /\ [Next]_vars => Typed'
<1> SUFFICES ASSUME Typed, [Next]_vars PROVE Typed'
  OBVIOUS
<1> USE OrdersAssumption DEF saleVars, orderVars, paymentVars, workerVars
<1>1. CASE Tick
  BY <1>1 DEF Tick, Typed, TypeOK, References, SessionsHaveOrders, PaymentsHaveSessions,
     PayWorkersHaveOrders, OpenedSessionsAreFresh, WebhooksHavePayments, CancelsHavePayments
<1>2. ASSUME NEW o \in Orders, CompleteOrder(o)
      PROVE  Typed'
  BY <1>2 DEF CompleteOrder, Typed, TypeOK, References, SessionsHaveOrders,
     PaymentsHaveSessions, PayWorkersHaveOrders, OpenedSessionsAreFresh,
     WebhooksHavePayments, CancelsHavePayments
<1>3. CASE UNCHANGED vars
  BY <1>3 DEF vars, Typed, TypeOK, References, SessionsHaveOrders, PaymentsHaveSessions,
     PayWorkersHaveOrders, OpenedSessionsAreFresh, WebhooksHavePayments, CancelsHavePayments
<1> QED
  BY <1>1, <1>2, <1>3, TypedSale, TypedPay, TypedStripe, TypedWebhook, TypedCancel DEF Next

\* In every reachable state the rows and the workers have their types, and every
\* id they hold is that of an existing row.
THEOREM TypeCorrect == Spec => [](TypeOK /\ References)
<1>1. Spec => []Typed
  BY TypedInit, TypedNext, PTL DEF Spec
<1> QED
  BY <1>1, PTL DEF Typed

-----------------------------------------------------------------------------
(***************************************************************************)
(* Settlement.  Only SettleOrder settles an order, completes a payment and *)
(* creates tickets; every other step leaves all three as they are.         *)
(***************************************************************************)
SettlementUnchanged ==
  /\ batches' = batches
  /\ \A o \in Orders : Settled(o)' <=> Settled(o)
  /\ \A s \in Sessions :
       /\ payment'[s] = "completed" <=> payment[s] = "completed"
       /\ payment[s] # "none" => sessionOrder'[s] = sessionOrder[s]
       /\ stripe[s] = "complete" => stripe'[s] = "complete"

LEMMA CancelKeepsSettlement ==
  ASSUME Typed, NEW o \in Orders, CancelOrder(o), batches' = batches,
         sessionOrder' = sessionOrder, stripe' = stripe
  PROVE  SettlementUnchanged
BY DEF Typed, TypeOK, CancelOrder, Settled, SettlementUnchanged

LEMMA SettledOnlyByWebhook ==
  ASSUME Typed, [Next]_vars, ~ \E w \in WebhookWorkers : SettleOrder(w)
  PROVE  SettlementUnchanged
<1> USE DEF saleVars, orderVars, paymentVars, workerVars
<1>0. SUFFICES ASSUME Next PROVE SettlementUnchanged
  BY DEF vars, SettlementUnchanged, Settled
<1>1. CASE Tick
  BY <1>1 DEF Tick, SettlementUnchanged, Settled
<1>2. CASE SaleStep
  <2> USE DEF SettlementUnchanged, Settled
  <2>1. ASSUME NEW w \in SaleWorkers, NEW o \in Orders, InsertOrder(w, o)
        PROVE  SettlementUnchanged
    BY <2>1 DEF InsertOrder, Typed, TypeOK
  <2>2. ASSUME NEW w \in SaleWorkers, NEW items \in Items,
               LockTicketTypes(w, items) \/ CheckAmounts(w) \/ RollbackSale(w)
        PROVE  SettlementUnchanged
    BY <2>2 DEF LockTicketTypes, CheckAmounts, RollbackSale
  <2>3. ASSUME NEW t \in TicketTypes, NEW dto \in UpdateTicketTypeDto,
               UpdateTicketType(t, dto)
        PROVE  SettlementUnchanged
    BY <2>3 DEF UpdateTicketType
  <2>4. NoItems \in Items
    BY OrdersAssumption DEF NoItems, Items
  <2> QED
    BY <1>2, <2>1, <2>2, <2>3, <2>4 DEF SaleStep
<1>3. CASE PayStep
  <2> USE DEF SettlementUnchanged, Settled
  <2>1. ASSUME NEW w \in PayWorkers, NEW s \in Sessions, CreatePaywall(w, s)
        PROVE  SettlementUnchanged
    BY <2>1 DEF CreatePaywall, Typed, TypeOK, References, PaymentsHaveSessions
  <2>2. ASSUME NEW w \in PayWorkers, CreateOrderPayment(w)
        PROVE  SettlementUnchanged
    BY <2>2 DEF CreateOrderPayment, Typed, TypeOK, References, PayWorkersHaveOrders,
       OpenedSessionsAreFresh
  <2>3. ASSUME NEW w \in PayWorkers, (\E o \in Orders : ValidatePayment(w, o)) \/ FailPayment(w)
        PROVE  SettlementUnchanged
    BY <2>3 DEF ValidatePayment, FailPayment
  <2> QED
    BY <1>3, <2>1, <2>2, <2>3 DEF PayStep
<1>4. CASE StripeStep
  BY <1>4 DEF StripeStep, CustomerPays, SessionExpires, SettlementUnchanged, Settled, Typed,
     TypeOK
<1>5. CASE WebhookStep
  <2>1. PICK w \in WebhookWorkers : \/ \E s \in Sessions : LookUpOrder(w, s)
                                    \/ DeclineOrder(w)
                                    \/ FailWebhook(w)
    BY <1>5 DEF WebhookStep
  <2>2. CASE DeclineOrder(w)
    BY <2>2, WorkersHaveOrders, CancelKeepsSettlement DEF DeclineOrder
  <2> QED
    BY <2>1, <2>2 DEF LookUpOrder, FailWebhook, SettlementUnchanged, Settled
<1>6. CASE CancelStep
  <2>1. PICK w \in CancelWorkers : \/ \E s \in Sessions : FindOperation(w, s) \/ ClosePaywall(w, s)
                                   \/ SaveOperation(w)
                                   \/ CancelClosedOrder(w)
                                   \/ FailCancel(w)
    BY <1>6 DEF CancelStep
  <2>2. CASE CancelClosedOrder(w)
    BY <2>2, WorkersHaveOrders, CancelKeepsSettlement DEF CancelClosedOrder
  <2>3. ASSUME NEW s \in Sessions, ClosePaywall(w, s)
        PROVE  SettlementUnchanged
    BY <2>3 DEF ClosePaywall, Typed, TypeOK, SettlementUnchanged, Settled
  <2> QED
    BY <2>1, <2>2, <2>3 DEF FindOperation, SaveOperation, FailCancel, SettlementUnchanged, Settled
<1>7. ASSUME NEW o \in Orders, CompleteOrder(o)
      PROVE  SettlementUnchanged
  BY <1>7 DEF CompleteOrder, SettlementUnchanged, Settled, Typed, TypeOK
<1> QED
  BY <1>0, <1>1, <1>2, <1>3, <1>4, <1>5, <1>6, <1>7 DEF Next

\* What SettleOrder does, in terms of the order and the session of the webhook.
LEMMA SettleOrderEffect ==
  ASSUME Typed, NEW w \in WebhookWorkers, SettleOrder(w)
  PROVE  \E s \in Sessions, o \in Orders :
           /\ webhook[w] = s /\ sessionOrder[s] = o /\ stripe[s] = "complete"
           /\ HandleOrderPayment(o, s)
           /\ webhook' = [webhook EXCEPT ![w] = None]
           /\ UNCHANGED <<now, saleVars, reservedUntil, quantity, stripe, sessionOrder>>
BY WorkersHaveOrders DEF SettleOrder

LEMMA AgreementNext == Typed /\ MoneyOrderTicketsAgree /\ [Next]_vars => MoneyOrderTicketsAgree'
<1> SUFFICES ASSUME Typed, MoneyOrderTicketsAgree, [Next]_vars
             PROVE  MoneyOrderTicketsAgree'
  OBVIOUS
<1>1. ASSUME NEW w \in WebhookWorkers, SettleOrder(w)
      PROVE  MoneyOrderTicketsAgree'
  <2>1. PICK s \in Sessions, o \in Orders :
           /\ webhook[w] = s /\ sessionOrder[s] = o /\ stripe[s] = "complete"
           /\ HandleOrderPayment(o, s)
           /\ UNCHANGED <<stripe, sessionOrder>>
    BY <1>1, SettleOrderEffect
  <2>2. ASSUME NEW p \in Orders
        PROVE  Settled(p)' <=> \E q \in Sessions : sessionOrder'[q] = p /\ payment'[q] = "completed"
    BY <2>1 DEF MoneyOrderTicketsAgree, HandleOrderPayment, Settled, Typed, TypeOK
  <2>3. ASSUME NEW p \in Orders
        PROVE  Settled(p)' <=> batches'[p] > 0
    BY <2>1 DEF MoneyOrderTicketsAgree, HandleOrderPayment, Settled, Typed, TypeOK
  <2>4. ASSUME NEW q \in Sessions, payment'[q] = "completed"
        PROVE  stripe'[q] = "complete"
    BY <2>1, <2>4 DEF MoneyOrderTicketsAgree, HandleOrderPayment, Typed, TypeOK
  <2> QED
    BY <2>2, <2>3, <2>4 DEF MoneyOrderTicketsAgree
<1>2. CASE ~ \E w \in WebhookWorkers : SettleOrder(w)
  <2>1. SettlementUnchanged
    BY <1>2, SettledOnlyByWebhook
  <2> QED
    BY <2>1 DEF SettlementUnchanged, MoneyOrderTicketsAgree
<1> QED
  BY <1>1, <1>2

\* In every reachable state an order is settled exactly when the customer has
\* paid one of its sessions and the webhook recorded it, exactly when its tickets
\* exist.
THEOREM SettlementAgreement == Spec => []MoneyOrderTicketsAgree
<1>1. Init => MoneyOrderTicketsAgree
  BY DEF Init, MoneyOrderTicketsAgree, Settled
<1>2. Spec => [](Typed /\ MoneyOrderTicketsAgree)
  BY <1>1, TypedInit, TypedNext, AgreementNext, PTL DEF Spec
<1> QED
  BY <1>2, PTL

\* No step takes a settlement back.
THEOREM SettlementFinality == Spec => SettlementIsFinal
<1> DEFINE Final == /\ \A o \in Orders : Settled(o) => Settled(o)'
                    /\ \A s \in Sessions : payment[s] = "completed" => payment'[s] = "completed"
<1>1. ASSUME Typed, [Next]_vars
      PROVE  Final
  <2>1. ASSUME NEW w \in WebhookWorkers, SettleOrder(w)
        PROVE  Final
    <3>1. PICK s \in Sessions, o \in Orders : HandleOrderPayment(o, s)
      BY <1>1, <2>1, SettleOrderEffect
    <3> QED
      BY <1>1, <3>1 DEF HandleOrderPayment, Settled, Typed, TypeOK
  <2>2. CASE ~ \E w \in WebhookWorkers : SettleOrder(w)
    BY <1>1, <2>2, SettledOnlyByWebhook DEF SettlementUnchanged
  <2> QED
    BY <2>1, <2>2
<1>2. Typed /\ [Next]_vars => [Final]_vars
  BY <1>1
<1>3. Spec => []Typed
  BY TypedInit, TypedNext, PTL DEF Spec
<1> QED
  BY <1>2, <1>3, PTL DEF Spec, SettlementIsFinal

-----------------------------------------------------------------------------
(***************************************************************************)
(* Ticket batches.  While an order is unsettled it has no batch and any    *)
(* number of requests may be past the lookup; from the first settlement on *)
(* no request passes it any more, so each batch uses up one of them.       *)
(***************************************************************************)
WorkersOn(o) == {w \in WebhookWorkers : webhook[w] # None /\ sessionOrder[webhook[w]] = o}

BatchesAndWorkers ==
  \A o \in Orders : batches[o] + Cardinality(WorkersOn(o)) <= Cardinality(WebhookWorkers)

LEMMA WorkersOnFinite ==
  ASSUME NEW o
  PROVE  /\ Cardinality(WebhookWorkers) \in Nat
         /\ IsFiniteSet(WorkersOn(o))
         /\ Cardinality(WorkersOn(o)) \in Nat
         /\ Cardinality(WorkersOn(o)) <= Cardinality(WebhookWorkers)
<1>1. WorkersOn(o) \in SUBSET WebhookWorkers
  BY DEF WorkersOn
<1> QED
  BY <1>1, OrdersAssumption, FS_Subset, FS_CardinalityType

\* The same for the next state, where no new request is past the lookup of o.
LEMMA WorkersOnShrink ==
  ASSUME NEW o, WorkersOn(o)' \subseteq WorkersOn(o)
  PROVE  /\ Cardinality(WorkersOn(o)') \in Nat
         /\ Cardinality(WorkersOn(o)') <= Cardinality(WorkersOn(o))
BY WorkersOnFinite, FS_Subset, FS_CardinalityType

\* A step other than a lookup lets no request past the lookup of any order.
LEMMA OnlyLookUpAddsWorkers ==
  ASSUME Typed, [Next]_vars,
         ~ \E w \in WebhookWorkers, s \in Sessions : LookUpOrder(w, s),
         NEW o \in Orders
  PROVE  WorkersOn(o)' \subseteq WorkersOn(o)
<1> USE DEF saleVars, orderVars, paymentVars, workerVars
<1>1. \A w \in WebhookWorkers : webhook'[w] = webhook[w] \/ webhook'[w] = None
  BY DEF Next, vars, Tick, SaleStep, LockTicketTypes, CheckAmounts, InsertOrder, RollbackSale,
     UpdateTicketType, PayStep, ValidatePayment, CreatePaywall, CreateOrderPayment, FailPayment,
     StripeStep, CustomerPays, SessionExpires, WebhookStep, SettleOrder, DeclineOrder,
     FailWebhook, CancelStep, FindOperation, SaveOperation, ClosePaywall, CancelClosedOrder,
     FailCancel, CompleteOrder, Typed, TypeOK
<1>2. \A s \in Sessions : stripe[s] # "none" => sessionOrder'[s] = sessionOrder[s]
  BY DEF Next, vars, Tick, SaleStep, LockTicketTypes, CheckAmounts, InsertOrder, RollbackSale,
     UpdateTicketType, PayStep, ValidatePayment, CreatePaywall, CreateOrderPayment, FailPayment,
     StripeStep, CustomerPays, SessionExpires, WebhookStep, SettleOrder, DeclineOrder,
     FailWebhook, CancelStep, FindOperation, SaveOperation, ClosePaywall, CancelClosedOrder,
     FailCancel, CompleteOrder, Typed, TypeOK
<1> QED
  BY <1>1, <1>2 DEF WorkersOn, Typed, References, WebhooksHavePayments

LEMMA BatchesNext ==
  Typed /\ MoneyOrderTicketsAgree /\ BatchesAndWorkers /\ [Next]_vars => BatchesAndWorkers'
<1> SUFFICES ASSUME Typed, MoneyOrderTicketsAgree, BatchesAndWorkers, [Next]_vars,
                    NEW o \in Orders
             PROVE  batches'[o] + Cardinality(WorkersOn(o)') <= Cardinality(WebhookWorkers)
  BY DEF BatchesAndWorkers
<1>0. /\ batches[o] \in Nat
      /\ batches[o] + Cardinality(WorkersOn(o)) <= Cardinality(WebhookWorkers)
  BY DEF BatchesAndWorkers, Typed, TypeOK
<1>1. ASSUME NEW w \in WebhookWorkers, NEW s \in Sessions, LookUpOrder(w, s)
      PROVE  batches'[o] + Cardinality(WorkersOn(o)') <= Cardinality(WebhookWorkers)
  <2>1. batches'[o] = batches[o]
    BY <1>1 DEF LookUpOrder, orderVars
  <2>2. CASE sessionOrder[s] = o
    <3>1. batches[o] = 0
      BY <1>1, <2>2, <1>0 DEF LookUpOrder, Completable, MoneyOrderTicketsAgree, Settled
    <3>2. WorkersOn(o)' \in SUBSET WebhookWorkers
      BY DEF WorkersOn
    <3>3. /\ Cardinality(WorkersOn(o)') \in Nat
          /\ Cardinality(WorkersOn(o)') <= Cardinality(WebhookWorkers)
      BY <3>2, OrdersAssumption, FS_Subset, FS_CardinalityType
    <3> QED
      BY <2>1, <3>1, <3>3
  <2>3. CASE sessionOrder[s] # o
    <3>1. WorkersOn(o)' \subseteq WorkersOn(o)
      BY <1>1, <2>3 DEF LookUpOrder, WorkersOn, paymentVars, Typed, TypeOK
    <3> QED
      BY <1>0, <2>1, <3>1, WorkersOnFinite, WorkersOnShrink
  <2> QED
    BY <2>2, <2>3
<1>2. ASSUME NEW w \in WebhookWorkers, SettleOrder(w)
      PROVE  batches'[o] + Cardinality(WorkersOn(o)') <= Cardinality(WebhookWorkers)
  <2>1. PICK s \in Sessions, p \in Orders :
           /\ webhook[w] = s /\ sessionOrder[s] = p
           /\ HandleOrderPayment(p, s)
           /\ webhook' = [webhook EXCEPT ![w] = None]
           /\ sessionOrder' = sessionOrder
    BY <1>2, SettleOrderEffect
  <2>2. WorkersOn(o)' \subseteq WorkersOn(o) \ {w}
    BY <2>1 DEF WorkersOn, Typed, TypeOK
  <2>3. CASE p = o
    <3>1. batches'[o] = batches[o] + 1
      BY <2>1, <2>3 DEF HandleOrderPayment, Typed, TypeOK
    <3>2. w \in WorkersOn(o)
      BY <2>1, <2>3, OrdersAssumption DEF WorkersOn
    <3>3. /\ IsFiniteSet(WorkersOn(o) \ {w})
          /\ Cardinality(WorkersOn(o) \ {w}) = Cardinality(WorkersOn(o)) - 1
      BY <3>2, WorkersOnFinite, FS_RemoveElement
    <3>4. /\ Cardinality(WorkersOn(o)') \in Nat
          /\ Cardinality(WorkersOn(o)') <= Cardinality(WorkersOn(o)) - 1
      BY <2>2, <3>3, FS_Subset, FS_CardinalityType
    <3> QED
      BY <1>0, <3>1, <3>4, WorkersOnFinite
  <2>4. CASE p # o
    <3>1. batches'[o] = batches[o]
      BY <2>1, <2>4 DEF HandleOrderPayment, Typed, TypeOK
    <3> QED
      BY <1>0, <2>2, <3>1, WorkersOnFinite, WorkersOnShrink
  <2> QED
    BY <2>3, <2>4
<1>3. CASE /\ ~ \E w \in WebhookWorkers, s \in Sessions : LookUpOrder(w, s)
           /\ ~ \E w \in WebhookWorkers : SettleOrder(w)
  <2>1. batches' = batches
    BY <1>3, SettledOnlyByWebhook DEF SettlementUnchanged
  <2>2. WorkersOn(o)' \subseteq WorkersOn(o)
    BY <1>3, OnlyLookUpAddsWorkers
  <2> QED
    BY <1>0, <2>1, <2>2, WorkersOnFinite, WorkersOnShrink
<1> QED
  BY <1>1, <1>2, <1>3

\* Concurrent deliveries of a webhook create the tickets of an order at most once
\* per concurrent request: one request at a time, one batch.
THEOREM BatchesBounded == Spec => []BatchesBoundedByConcurrency
<1>1. Init => BatchesAndWorkers
  <2> SUFFICES ASSUME Init, NEW o \in Orders
               PROVE  batches[o] + Cardinality(WorkersOn(o)) <= Cardinality(WebhookWorkers)
    BY DEF BatchesAndWorkers
  <2>1. WorkersOn(o) = {}
    BY DEF Init, WorkersOn
  <2>2. batches[o] = 0
    BY DEF Init
  <2>3. Cardinality(WorkersOn(o)) = 0 /\ Cardinality(WebhookWorkers) \in Nat
    BY <2>1, WorkersOnFinite, FS_EmptySet
  <2> QED
    BY <2>2, <2>3
<1>2. Typed /\ BatchesAndWorkers => BatchesBoundedByConcurrency
  <2> SUFFICES ASSUME Typed, BatchesAndWorkers, NEW o \in Orders
               PROVE  batches[o] <= Cardinality(WebhookWorkers)
    BY DEF BatchesBoundedByConcurrency
  <2>1. /\ batches[o] \in Nat
        /\ batches[o] + Cardinality(WorkersOn(o)) <= Cardinality(WebhookWorkers)
    BY DEF BatchesAndWorkers, Typed, TypeOK
  <2> QED
    BY <2>1, WorkersOnFinite
<1>3. Spec => [](Typed /\ MoneyOrderTicketsAgree)
  BY SettlementAgreement, TypedInit, TypedNext, PTL DEF Spec
<1> QED
  BY <1>1, <1>2, <1>3, BatchesNext, PTL DEF Spec

-----------------------------------------------------------------------------
(***************************************************************************)
(* The inventory.  The units of the orders that hold their reservation and *)
(* are not late fit in the peak amount, together with the units a request  *)
(* is about to insert; the row locks give each type one such request.      *)
(***************************************************************************)
Regular(t) == Units(t, {o \in Orders : Holds(o)} \ late)

ExclusiveLocks ==
  \A v, w \in SaleWorkers, t \in TicketTypes : HoldsLock(v, t) /\ HoldsLock(w, t) => v = w

PeakIsPeak == \A t \in TicketTypes : saleAmount[t] <= peakAmount[t]

RegularFits == \A t \in TicketTypes : Cardinality(Regular(t)) <= peakAmount[t]

CheckedFits ==
  \A w \in SaleWorkers, t \in TicketTypes :
    sale[w].pc = "checked" /\ sale[w].items[t] > 0
      => Cardinality(Regular(t)) + sale[w].items[t] <= peakAmount[t]

Inventory == ExclusiveLocks /\ PeakIsPeak /\ RegularFits /\ CheckedFits

\* The units of orders are finitely many, and fewer orders have fewer units.
LEMMA UnitsFinite ==
  ASSUME NEW t, NEW S \in SUBSET Orders
  PROVE  /\ IsFiniteSet(Units(t, S))
         /\ Cardinality(Units(t, S)) \in Nat
<1>1. IsFiniteSet(S) /\ IsFiniteSet(1..MaxQuantity)
  BY OrdersAssumption, FS_Subset, FS_Interval
<1>2. IsFiniteSet(S \X (1..MaxQuantity))
  BY <1>1, FS_Product
<1> QED
  BY <1>2, FS_Subset, FS_CardinalityType DEF Units

LEMMA RegularFinite ==
  ASSUME NEW t
  PROVE  /\ IsFiniteSet(Regular(t)) /\ Cardinality(Regular(t)) \in Nat
         /\ IsFiniteSet(Regular(t)') /\ Cardinality(Regular(t)') \in Nat
<1>1. IsFiniteSet(Regular(t)) /\ Cardinality(Regular(t)) \in Nat
  BY UnitsFinite DEF Regular
<1>2. IsFiniteSet(Orders \X (1..MaxQuantity))
  <2>1. IsFiniteSet(1..MaxQuantity)
    BY OrdersAssumption, FS_Interval
  <2> QED
    BY <2>1, OrdersAssumption, FS_Product
<1>3. Regular(t)' \in SUBSET (Orders \X (1..MaxQuantity))
  BY DEF Regular, Units
<1>4. IsFiniteSet(Regular(t)')
  BY <1>2, <1>3, FS_Subset
<1>5. Cardinality(Regular(t)') \in Nat
  BY <1>4, FS_CardinalityType
<1> QED
  BY <1>1, <1>4, <1>5

\* The regular units of a type do not grow.
LEMMA RegularShrinks ==
  ASSUME NEW t, Regular(t)' \subseteq Regular(t)
  PROVE  Cardinality(Regular(t)') <= Cardinality(Regular(t))
BY RegularFinite, FS_Subset

\* A step that inserts no order adds no regular unit: time only ends
\* reservations, and an order that is paid without holding one is late.
LEMMA OnlyInsertAddsUnits ==
  ASSUME Typed, [Next]_vars,
         ~ \E w \in SaleWorkers, o \in Orders : InsertOrder(w, o),
         NEW t \in TicketTypes
  PROVE  Regular(t)' \subseteq Regular(t)
<1> USE DEF saleVars, orderVars, paymentVars, workerVars
<1>1. quantity' = quantity
  BY DEF Next, vars, Tick, SaleStep, LockTicketTypes, CheckAmounts, InsertOrder, RollbackSale,
     UpdateTicketType, PayStep, ValidatePayment, CreatePaywall, CreateOrderPayment, FailPayment,
     StripeStep, CustomerPays, SessionExpires, WebhookStep, LookUpOrder, SettleOrder,
     DeclineOrder, FailWebhook, CancelStep, FindOperation, SaveOperation, ClosePaywall,
     CancelClosedOrder, FailCancel, CompleteOrder
<1>2. ASSUME NEW o \in Orders, Holds(o)', o \notin late'
      PROVE  Holds(o) /\ o \notin late
  <2>1. ASSUME NEW w \in WebhookWorkers, SettleOrder(w)
        PROVE  Holds(o) /\ o \notin late
    <3>1. PICK s \in Sessions, p \in Orders :
             HandleOrderPayment(p, s) /\ UNCHANGED <<now, reservedUntil>>
      BY <2>1, SettleOrderEffect
    <3> QED
      BY <3>1, <1>2 DEF HandleOrderPayment, Holds, Settled, Reserved, Typed, TypeOK
  <2>2. CASE Tick
    BY <2>2, <1>2 DEF Tick, Holds, Settled, Reserved, Typed, TypeOK
  <2>3. ASSUME NEW p \in Orders, CancelOrder(p), UNCHANGED <<now, reservedUntil, late>>
        PROVE  Holds(o) /\ o \notin late
    BY <2>3, <1>2 DEF CancelOrder, Holds, Settled, Reserved, Typed, TypeOK
  <2>4. ASSUME NEW p \in Orders, CompleteOrder(p)
        PROVE  Holds(o) /\ o \notin late
    BY <2>4, <1>2 DEF CompleteOrder, Holds, Settled, Reserved, Typed, TypeOK
  <2>5. ASSUME NEW w \in WebhookWorkers, DeclineOrder(w)
        PROVE  Holds(o) /\ o \notin late
    BY <2>3, <2>5, WorkersHaveOrders DEF DeclineOrder
  <2>6. ASSUME NEW w \in CancelWorkers, CancelClosedOrder(w)
        PROVE  Holds(o) /\ o \notin late
    BY <2>3, <2>6, WorkersHaveOrders DEF CancelClosedOrder
  <2>7. ASSUME UNCHANGED <<now, status, reservedUntil, late>>
        PROVE  Holds(o) /\ o \notin late
    BY <2>7, <1>2 DEF Holds, Settled, Reserved
  <2> QED
    BY <2>1, <2>2, <2>4, <2>5, <2>6, <2>7
       DEF Next, vars, SaleStep, LockTicketTypes, CheckAmounts, RollbackSale,
       UpdateTicketType, PayStep, ValidatePayment, CreatePaywall, CreateOrderPayment,
       FailPayment, StripeStep, CustomerPays, SessionExpires, WebhookStep, LookUpOrder,
       FailWebhook, CancelStep, FindOperation, SaveOperation, ClosePaywall, FailCancel
<1> QED
  BY <1>1, <1>2 DEF Regular, Units

\* Inserting an order adds at most the units it asks for.
LEMMA InsertAddsItsUnits ==
  ASSUME Typed, NEW w \in SaleWorkers, NEW o \in Orders, InsertOrder(w, o), NEW t \in TicketTypes
  PROVE  /\ sale[w].items[t] \in Nat
         /\ Cardinality(Regular(t)') <= Cardinality(Regular(t)) + sale[w].items[t]
<1> DEFINE q == sale[w].items[t]
           New == {o} \X (1..q)
<1>1. q \in Nat /\ q \in 0..MaxQuantity
  BY OrdersAssumption DEF Typed, TypeOK, Items
<1>2. Regular(t)' \subseteq Regular(t) \cup New
  <2>1. \A p \in Orders : p # o => /\ (Holds(p)' <=> Holds(p))
                                   /\ quantity'[p][t] = quantity[p][t]
    BY DEF InsertOrder, Holds, Settled, Reserved, Typed, TypeOK
  <2>2. late' = late /\ quantity'[o][t] = q
    BY DEF InsertOrder, Typed, TypeOK
  <2>3. ASSUME NEW u \in Regular(t)'
        PROVE  u \in Regular(t) \cup New
    <3>1. /\ u \in Orders \X (1..MaxQuantity)
          /\ Holds(u[1])' /\ u[1] \notin late'
          /\ u[2] <= quantity'[u[1]][t]
      BY DEF Regular, Units
    <3>2. CASE u[1] = o
      <4>1. u[2] \in 1..q
        BY <1>1, <2>2, <3>1, <3>2, OrdersAssumption
      <4> QED
        BY <3>1, <3>2, <4>1
    <3>3. CASE u[1] # o
      BY <2>1, <2>2, <3>1, <3>3 DEF Regular, Units
    <3> QED
      BY <3>2, <3>3
  <2> QED
    BY <2>3
<1> HIDE DEF q
<1>3. IsFiniteSet(New) /\ Cardinality(New) = q
  <2>1. /\ IsFiniteSet(1..q)
        /\ Cardinality(1..q) = IF 1 > q THEN 0 ELSE q - 1 + 1
    BY <1>1, FS_Interval
  <2>2. Cardinality(1..q) = q
    BY <1>1, <2>1
  <2>3. IsFiniteSet({o}) /\ Cardinality({o}) = 1
    BY FS_Singleton
  <2>4. /\ IsFiniteSet({o} \X (1..q))
        /\ Cardinality({o} \X (1..q)) = Cardinality({o}) * Cardinality(1..q)
    BY <2>1, <2>3, FS_Product
  <2>5. Cardinality(New) = 1 * q
    BY <2>2, <2>3, <2>4, Zenon
  <2> QED
    BY <1>1, <2>4, <2>5
<1> HIDE DEF New
<1>4. /\ IsFiniteSet(Regular(t) \cup New)
      /\ Cardinality(Regular(t) \cup New) <= Cardinality(Regular(t)) + q
  <2>1. IsFiniteSet(Regular(t)) /\ Cardinality(Regular(t)) \in Nat
    BY RegularFinite
  <2>2. /\ IsFiniteSet(Regular(t) \cup New)
        /\ Cardinality(Regular(t) \cup New)
             = Cardinality(Regular(t)) + Cardinality(New) - Cardinality(Regular(t) \cap New)
    BY <1>3, <2>1, FS_Union
  <2>3. Cardinality(Regular(t) \cap New) \in Nat
    BY <2>1, FS_Intersection, FS_CardinalityType
  <2> QED
    BY <1>1, <1>3, <2>1, <2>2, <2>3
<1>5. Cardinality(Regular(t)') <= Cardinality(Regular(t) \cup New)
  BY <1>2, <1>4, FS_Subset
<1>6. Cardinality(Regular(t) \cup New) \in Nat /\ Cardinality(Regular(t)) \in Nat
      /\ Cardinality(Regular(t)') \in Nat
  BY <1>4, RegularFinite, FS_CardinalityType
<1>7. Cardinality(Regular(t)') <= Cardinality(Regular(t)) + q
  BY <1>1, <1>4, <1>5, <1>6
<1> QED
  BY <1>1, <1>7 DEF q

LEMMA InventoryInit == Init => Inventory
<1> SUFFICES ASSUME Init PROVE Inventory
  OBVIOUS
<1>1. ExclusiveLocks /\ CheckedFits
  BY DEF Init, ExclusiveLocks, HoldsLock, CheckedFits
<1>3. ASSUME NEW t \in TicketTypes
      PROVE  saleAmount[t] <= peakAmount[t]
  <2>1. saleAmount[t] \in Nat
    BY OrdersAssumption DEF Init
  <2>2. peakAmount[t] = saleAmount[t]
    BY DEF Init
  <2> QED
    BY <2>1, <2>2
<1>2. ASSUME NEW t \in TicketTypes
      PROVE  Cardinality(Regular(t)) <= peakAmount[t]
  <2>1. Regular(t) = {}
    BY DEF Init, Regular, Units, Holds, Settled, Reserved
  <2>2. Cardinality(Regular(t)) = 0
    BY <2>1, FS_EmptySet
  <2>3. peakAmount[t] \in Nat
    BY OrdersAssumption DEF Init
  <2> QED
    BY <2>2, <2>3
<1> QED
  BY <1>1, <1>2, <1>3 DEF Inventory, PeakIsPeak, RegularFits

LEMMA LocksNext ==
  ASSUME Typed, ExclusiveLocks, [Next]_vars
  PROVE  ExclusiveLocks'
<1> USE DEF saleVars, orderVars, paymentVars, workerVars
<1>1. ASSUME NEW w \in SaleWorkers, NEW items \in Items, LockTicketTypes(w, items)
      PROVE  ExclusiveLocks'
  <2>1. \A v \in SaleWorkers : v # w => sale'[v] = sale[v]
    BY <1>1 DEF LockTicketTypes, Typed, TypeOK
  <2>2. sale'[w].items = items
    BY <1>1 DEF LockTicketTypes, Typed, TypeOK
  <2>3. \A v \in SaleWorkers, t \in TicketTypes : items[t] > 0 => ~HoldsLock(v, t)
    BY <1>1 DEF LockTicketTypes, Free
  <2> QED
    BY <2>1, <2>2, <2>3 DEF ExclusiveLocks, HoldsLock
<1>2. ASSUME NEW w \in SaleWorkers, CheckAmounts(w)
      PROVE  ExclusiveLocks'
  <2>1. \A v \in SaleWorkers, t \in TicketTypes : HoldsLock(v, t)' => HoldsLock(v, t)
    BY <1>2 DEF CheckAmounts, HoldsLock, Typed, TypeOK
  <2> QED
    BY <2>1 DEF ExclusiveLocks
<1>3. ASSUME NEW w \in SaleWorkers, sale' = [sale EXCEPT ![w] = [pc |-> "idle", items |-> NoItems]]
      PROVE  ExclusiveLocks'
  BY <1>3 DEF ExclusiveLocks, HoldsLock, Typed, TypeOK
<1>4. ASSUME UNCHANGED sale
      PROVE  ExclusiveLocks'
  BY <1>4 DEF ExclusiveLocks, HoldsLock
<1> QED
  BY <1>1, <1>2, <1>3, <1>4
     DEF Next, vars, Tick, SaleStep, InsertOrder, RollbackSale, UpdateTicketType, PayStep,
     ValidatePayment, CreatePaywall, CreateOrderPayment, FailPayment, StripeStep, CustomerPays,
     SessionExpires, WebhookStep, LookUpOrder, SettleOrder, DeclineOrder, FailWebhook,
     CancelStep, FindOperation, SaveOperation, ClosePaywall, CancelClosedOrder, FailCancel,
     CompleteOrder

\* The peak is never below the amount and never falls.
LEMMA PeakNext ==
  ASSUME Typed, PeakIsPeak, [Next]_vars
  PROVE  /\ PeakIsPeak'
         /\ \A t \in TicketTypes : peakAmount[t] \in Nat /\ peakAmount'[t] \in Nat
                                   /\ peakAmount[t] <= peakAmount'[t]
<1> USE DEF saleVars, orderVars, paymentVars, workerVars
<1>1. ASSUME NEW r \in TicketTypes, NEW dto \in UpdateTicketTypeDto,
             UpdateTicketType(r, dto), NEW t \in TicketTypes
      PROVE  /\ saleAmount'[t] <= peakAmount'[t]
             /\ peakAmount'[t] \in Nat
             /\ peakAmount[t] <= peakAmount'[t]
  <2>1. dto.saleAmount \in Nat /\ saleAmount[t] \in Nat /\ peakAmount[t] \in Nat
    BY OrdersAssumption DEF Typed, TypeOK
  <2>2. CASE t = r
    <3>1. /\ saleAmount'[t] = dto.saleAmount
          /\ peakAmount'[t] = IF dto.saleAmount > peakAmount[t] THEN dto.saleAmount ELSE peakAmount[t]
      BY <1>1, <2>2 DEF UpdateTicketType, Typed, TypeOK
    <3> QED
      BY <2>1, <3>1
  <2>3. CASE t # r
    <3>1. saleAmount'[t] = saleAmount[t] /\ peakAmount'[t] = peakAmount[t]
      BY <1>1, <2>3 DEF UpdateTicketType, Typed, TypeOK
    <3> QED
      BY <2>1, <3>1 DEF PeakIsPeak
  <2> QED
    BY <2>2, <2>3
<1>2. ASSUME UNCHANGED <<saleAmount, peakAmount>>, NEW t \in TicketTypes
      PROVE  /\ saleAmount'[t] <= peakAmount'[t]
             /\ peakAmount'[t] \in Nat
             /\ peakAmount[t] <= peakAmount'[t]
  BY <1>2 DEF PeakIsPeak, Typed, TypeOK
<1>3. \A t \in TicketTypes : peakAmount[t] \in Nat
  BY DEF Typed, TypeOK
<1>4. \/ UNCHANGED <<saleAmount, peakAmount>>
      \/ \E r \in TicketTypes, dto \in UpdateTicketTypeDto :
           UpdateTicketType(r, dto)
  BY DEF Next, vars, Tick, SaleStep, LockTicketTypes, CheckAmounts, InsertOrder, RollbackSale,
     PayStep, ValidatePayment, CreatePaywall, CreateOrderPayment, FailPayment, StripeStep,
     CustomerPays, SessionExpires, WebhookStep, LookUpOrder, SettleOrder, DeclineOrder,
     FailWebhook, CancelStep, FindOperation, SaveOperation, ClosePaywall, CancelClosedOrder,
     FailCancel, CompleteOrder
<1> QED
  BY <1>1, <1>2, <1>3, <1>4 DEF PeakIsPeak

\* The check of createPrimarySale: what is counted includes the regular units.
LEMMA CheckedRequestFits ==
  ASSUME Typed, PeakIsPeak, NEW w \in SaleWorkers, CheckAmounts(w),
         NEW t \in TicketTypes, sale[w].items[t] > 0
  PROVE  Cardinality(Regular(t)) + sale[w].items[t] <= peakAmount[t]
<1>1. BoughtAndReservedCount(t) + sale[w].items[t] <= saleAmount[t]
  BY DEF CheckAmounts
<1>2. /\ IsFiniteSet(Units(t, {o \in Orders : Holds(o)}))
      /\ BoughtAndReservedCount(t) \in Nat
  BY UnitsFinite DEF BoughtAndReservedCount
<1>3. Regular(t) \subseteq Units(t, {o \in Orders : Holds(o)})
  BY DEF Regular, Units
<1>4. Cardinality(Regular(t)) <= BoughtAndReservedCount(t)
  BY <1>2, <1>3, FS_Subset DEF BoughtAndReservedCount
<1>5. Cardinality(Regular(t)) \in Nat
  BY RegularFinite
<1>6. sale[w].items[t] \in Nat /\ saleAmount[t] \in Nat /\ peakAmount[t] \in Nat
  BY OrdersAssumption DEF Typed, TypeOK, Items
<1>7. saleAmount[t] <= peakAmount[t]
  BY DEF PeakIsPeak
<1> HIDE DEF BoughtAndReservedCount
<1> QED
  BY <1>1, <1>2, <1>4, <1>5, <1>6, <1>7

\* A request that has passed the check has just passed it or had done before.
LEMMA CheckedBefore ==
  ASSUME Typed, [Next]_vars,
         ~ \E w \in SaleWorkers, o \in Orders : InsertOrder(w, o),
         NEW v \in SaleWorkers, sale'[v].pc = "checked"
  PROVE  /\ sale'[v].items = sale[v].items
         /\ sale[v].pc = "checked" \/ CheckAmounts(v)
<1> USE DEF saleVars, orderVars, paymentVars, workerVars
<1>1. ASSUME NEW w \in SaleWorkers, NEW items \in Items, LockTicketTypes(w, items)
      PROVE  sale'[v] = sale[v]
  BY <1>1 DEF LockTicketTypes, Typed, TypeOK
<1>2. ASSUME NEW w \in SaleWorkers, CheckAmounts(w)
      PROVE  sale'[v].items = sale[v].items /\ (sale'[v] = sale[v] \/ w = v)
  BY <1>2 DEF CheckAmounts, Typed, TypeOK
<1>3. ASSUME NEW w \in SaleWorkers, RollbackSale(w)
      PROVE  sale'[v] = sale[v]
  BY <1>3 DEF RollbackSale, Typed, TypeOK
<1>4. \/ UNCHANGED sale
      \/ \E w \in SaleWorkers : \/ \E items \in Items : LockTicketTypes(w, items)
                                \/ CheckAmounts(w)
                                \/ RollbackSale(w)
  BY DEF Next, vars, Tick, SaleStep, UpdateTicketType, PayStep, ValidatePayment, CreatePaywall,
     CreateOrderPayment, FailPayment, StripeStep, CustomerPays, SessionExpires, WebhookStep,
     LookUpOrder, SettleOrder, DeclineOrder, FailWebhook, CancelStep, FindOperation,
     SaveOperation, ClosePaywall, CancelClosedOrder, FailCancel, CompleteOrder
<1> QED
  BY <1>1, <1>2, <1>3, <1>4

LEMMA InventoryNext ==
  ASSUME Typed, Inventory, [Next]_vars
  PROVE  Inventory'
<1>1. ExclusiveLocks'
  BY LocksNext DEF Inventory
<1>2. /\ PeakIsPeak'
      /\ \A t \in TicketTypes : peakAmount[t] \in Nat /\ peakAmount'[t] \in Nat
                                /\ peakAmount[t] <= peakAmount'[t]
  BY PeakNext DEF Inventory
<1>3. \A t \in TicketTypes, v \in SaleWorkers : sale[v].items[t] \in Nat
  BY OrdersAssumption DEF Typed, TypeOK, Items
<1>4. CASE ~ \E w \in SaleWorkers, o \in Orders : InsertOrder(w, o)
  <2>1. ASSUME NEW t \in TicketTypes
        PROVE  /\ Cardinality(Regular(t)') <= Cardinality(Regular(t))
               /\ Cardinality(Regular(t)) \in Nat /\ Cardinality(Regular(t)') \in Nat
    BY <1>4, OnlyInsertAddsUnits, RegularShrinks, RegularFinite
  <2>2. ASSUME NEW t \in TicketTypes
        PROVE  Cardinality(Regular(t)') <= peakAmount'[t]
    <3>1. Cardinality(Regular(t)) <= peakAmount[t]
      BY DEF Inventory, RegularFits
    <3> QED
      BY <1>2, <2>1, <3>1
  <2>3. ASSUME NEW v \in SaleWorkers, NEW t \in TicketTypes,
               sale'[v].pc = "checked", sale'[v].items[t] > 0
        PROVE  Cardinality(Regular(t)') + sale'[v].items[t] <= peakAmount'[t]
    <3>1. /\ sale'[v].items = sale[v].items
          /\ sale[v].pc = "checked" \/ CheckAmounts(v)
      BY <1>4, <2>3, CheckedBefore
    <3>2. Cardinality(Regular(t)) + sale[v].items[t] <= peakAmount[t]
      BY <2>3, <3>1, CheckedRequestFits DEF Inventory, CheckedFits
    <3> QED
      BY <1>2, <1>3, <2>1, <3>1, <3>2
  <2> QED
    BY <1>1, <1>2, <2>2, <2>3 DEF Inventory, RegularFits, CheckedFits
<1>5. ASSUME NEW w \in SaleWorkers, NEW o \in Orders, InsertOrder(w, o)
      PROVE  Inventory'
  <2>1. /\ sale[w].pc = "checked"
        /\ sale'[w].pc = "idle"
        /\ \A v \in SaleWorkers : v # w => sale'[v] = sale[v]
        /\ peakAmount' = peakAmount
    BY <1>5 DEF InsertOrder, Typed, TypeOK
  <2>2. ASSUME NEW t \in TicketTypes
        PROVE  /\ Cardinality(Regular(t)') <= Cardinality(Regular(t)) + sale[w].items[t]
               /\ Cardinality(Regular(t)) \in Nat /\ Cardinality(Regular(t)') \in Nat
    BY <1>5, InsertAddsItsUnits, RegularFinite
  <2>3. ASSUME NEW t \in TicketTypes
        PROVE  Cardinality(Regular(t)') <= peakAmount'[t]
    <3>1. CASE sale[w].items[t] > 0
      <4>1. Cardinality(Regular(t)) + sale[w].items[t] <= peakAmount[t]
        BY <2>1, <3>1 DEF Inventory, CheckedFits
      <4> QED
        BY <1>2, <1>3, <2>1, <2>2, <4>1
    <3>2. CASE sale[w].items[t] = 0
      <4>1. Cardinality(Regular(t)) <= peakAmount[t]
        BY DEF Inventory, RegularFits
      <4> QED
        BY <1>2, <2>1, <2>2, <3>2, <4>1
    <3> QED
      BY <1>3, <3>1, <3>2
  <2>4. ASSUME NEW v \in SaleWorkers, NEW t \in TicketTypes,
               sale'[v].pc = "checked", sale'[v].items[t] > 0
        PROVE  Cardinality(Regular(t)') + sale'[v].items[t] <= peakAmount'[t]
    <3>1. v # w /\ sale'[v] = sale[v]
      BY <2>1, <2>4
    <3>2. sale[w].items[t] = 0
      <4>1. HoldsLock(v, t)
        BY <2>4, <3>1 DEF HoldsLock
      <4>2. ~HoldsLock(w, t)
        BY <3>1, <4>1 DEF Inventory, ExclusiveLocks
      <4> QED
        BY <1>3, <2>1, <4>2 DEF HoldsLock
    <3>3. Cardinality(Regular(t)) + sale[v].items[t] <= peakAmount[t]
      BY <2>4, <3>1 DEF Inventory, CheckedFits
    <3> QED
      BY <1>2, <1>3, <2>1, <2>2, <3>1, <3>2, <3>3
  <2> QED
    BY <1>1, <1>2, <2>3, <2>4 DEF Inventory, RegularFits, CheckedFits
<1> QED
  BY <1>4, <1>5

\* OrderService.createPrimarySale never sells beyond the sale amount: whatever
\* the orders, the requests and the sale amounts, only a payment that arrives
\* after the reservation has lapsed can.
THEOREM OversoldOnlyLate == Spec => []OversoldOnlyByLatePayments
<1>1. Init => Inventory
  BY InventoryInit
<1>2. Typed /\ Inventory /\ [Next]_vars => Inventory'
  BY InventoryNext
<1>3. Spec => []Typed
  BY TypeCorrect DEF Typed
<1>4. Inventory => OversoldOnlyByLatePayments
  BY DEF Inventory, RegularFits, Regular, OversoldOnlyByLatePayments
<1> QED
  BY <1>1, <1>2, <1>3, <1>4, PTL DEF Spec
-----------------------------------------------------------------------------
(***************************************************************************)
(* How often a customer can be charged for one order, and what becomes of  *)
(* the money.                                                              *)
(***************************************************************************)

\* OrderIsPayableValidator looks for a payment before the request makes one: an
\* order has as many payments as there are concurrent requests, and one when
\* they come one at a time.
PaymentsBoundedByConcurrency ==
  \A o \in Orders : Cardinality(PaymentsOf(o)) <= Cardinality(PayWorkers)

\* While an order is open, a session its customer has paid can be found by the
\* webhook: neither a declined payment nor a missing one stands in its way.
PaidSessionIsCompletable ==
  \A s \in Sessions :
    stripe[s] = "complete" /\ status[sessionOrder[s]] = "created" => Completable(s)

\* The requests past OrderIsPayableValidator with the order.
PayersOf(o) == {w \in PayWorkers : payRequest[w].pc # "idle" /\ payRequest[w].order = o}

PaymentsAndPayers ==
  \A o \in Orders : /\ IsFiniteSet(PaymentsOf(o))
                    /\ Cardinality(PaymentsOf(o)) + Cardinality(PayersOf(o)) <= Cardinality(PayWorkers)

\* The session that a request has opened is for the order of the request.
OpenedForTheirOrder ==
  \A w \in PayWorkers :
    payRequest[w].pc = "opened" => sessionOrder[payRequest[w].session] = payRequest[w].order

Charges == PaymentsAndPayers /\ OpenedForTheirOrder

\* A customer pays by the URL of a payment; a declined payment is of a closed order.
PaidHasPayment == \A s \in Sessions : stripe[s] = "complete" => payment[s] # "none"

DeclinedIsClosed ==
  \A s \in Sessions :
    payment[s] = "declined" => status[sessionOrder[s]] \in {"paid", "completed", "canceled"}

Takings == PaidHasPayment /\ DeclinedIsClosed

LEMMA PayersFinite ==
  ASSUME NEW o
  PROVE  /\ Cardinality(PayWorkers) \in Nat
         /\ IsFiniteSet(PayersOf(o)) /\ Cardinality(PayersOf(o)) \in Nat
         /\ IsFiniteSet(PayersOf(o)') /\ Cardinality(PayersOf(o)') \in Nat
         /\ Cardinality(PayersOf(o)') <= Cardinality(PayWorkers)
<1>1. PayersOf(o) \in SUBSET PayWorkers /\ PayersOf(o)' \in SUBSET PayWorkers
  BY DEF PayersOf
<1> QED
  BY <1>1, OrdersAssumption, FS_Subset, FS_CardinalityType

LEMMA PayersShrink ==
  ASSUME NEW o, PayersOf(o)' \subseteq PayersOf(o)
  PROVE  Cardinality(PayersOf(o)') <= Cardinality(PayersOf(o))
BY PayersFinite, FS_Subset

\* Rows of payments are written by the requests for payments alone.
LEMMA PaymentRowsKept ==
  ASSUME Typed, [Next]_vars, ~PayStep
  PROVE  /\ payRequest' = payRequest
         /\ sessionOrder' = sessionOrder
         /\ \A s \in Sessions : payment'[s] = "none" <=> payment[s] = "none"
<1> DEFINE Kept == /\ payRequest' = payRequest
                   /\ sessionOrder' = sessionOrder
                   /\ \A s \in Sessions : payment'[s] = "none" <=> payment[s] = "none"
<1> USE DEF saleVars, orderVars, paymentVars, workerVars
<1>1. ASSUME NEW w \in WebhookWorkers, SettleOrder(w)
      PROVE  Kept
  BY <1>1, WorkersHaveOrders, TypedHandleOrderPayment DEF SettleOrder
<1>2. ASSUME NEW w \in WebhookWorkers, DeclineOrder(w)
      PROVE  Kept
  BY <1>2, WorkersHaveOrders, TypedCancelOrder DEF DeclineOrder
<1>3. ASSUME NEW w \in CancelWorkers, CancelClosedOrder(w)
      PROVE  Kept
  BY <1>3, WorkersHaveOrders, TypedCancelOrder DEF CancelClosedOrder
<1>4. ASSUME \/ Tick \/ SaleStep \/ StripeStep \/ (\E o \in Orders : CompleteOrder(o))
             \/ UNCHANGED vars
      PROVE  Kept
  BY <1>4 DEF vars, Tick, SaleStep, LockTicketTypes, CheckAmounts, InsertOrder, RollbackSale,
     UpdateTicketType, StripeStep, CustomerPays, SessionExpires, CompleteOrder
<1>5. CASE WebhookStep
  BY <1>1, <1>2, <1>5 DEF WebhookStep, LookUpOrder, FailWebhook
<1>6. CASE CancelStep
  BY <1>3, <1>6 DEF CancelStep, FindOperation, ClosePaywall, SaveOperation, FailCancel
<1> QED
  BY <1>4, <1>5, <1>6 DEF Next

LEMMA ChargesPay ==
  ASSUME Typed, Charges, NEW w \in PayWorkers,
         \/ \E o \in Orders : ValidatePayment(w, o)
         \/ \E s \in Sessions : CreatePaywall(w, s)
         \/ CreateOrderPayment(w)
         \/ FailPayment(w)
  PROVE  Charges'
<1> USE DEF Typed, TypeOK, References, saleVars, orderVars, paymentVars, IdlePay
<1>0. ASSUME NEW o \in Orders
      PROVE  /\ IsFiniteSet(PaymentsOf(o)) /\ Cardinality(PaymentsOf(o)) \in Nat
             /\ Cardinality(PaymentsOf(o)) + Cardinality(PayersOf(o)) <= Cardinality(PayWorkers)
  BY FS_CardinalityType DEF Charges, PaymentsAndPayers
\* What a step that writes no payment has to show of an order.
<1>1. ASSUME NEW o \in Orders, PaymentsOf(o)' = PaymentsOf(o),
             PayersOf(o)' \subseteq PayersOf(o) \/ PaymentsOf(o) = {}
      PROVE  /\ IsFiniteSet(PaymentsOf(o)')
             /\ Cardinality(PaymentsOf(o)') + Cardinality(PayersOf(o)') <= Cardinality(PayWorkers)
  BY <1>0, <1>1, PayersFinite, PayersShrink, FS_EmptySet
<1>2. ASSUME NEW p \in Orders, ValidatePayment(w, p)
      PROVE  Charges'
  <2>1. OpenedForTheirOrder'
    BY <1>2 DEF ValidatePayment, Charges, OpenedForTheirOrder
  <2>2. \A o \in Orders : /\ PaymentsOf(o)' = PaymentsOf(o)
                          /\ PayersOf(o)' \subseteq PayersOf(o) \/ PaymentsOf(o) = {}
    BY <1>2 DEF ValidatePayment, PaymentsOf, PayersOf
  <2> QED
    BY <1>1, <2>1, <2>2 DEF Charges, PaymentsAndPayers
<1>3. ASSUME NEW s \in Sessions, CreatePaywall(w, s)
      PROVE  Charges'
  <2>1. OpenedForTheirOrder'
    BY <1>3 DEF CreatePaywall, Charges, OpenedForTheirOrder, PayWorkersHaveOrders
  <2>2. payment[s] = "none"
    BY <1>3 DEF CreatePaywall, PaymentsHaveSessions
  <2>3. \A o \in Orders : PaymentsOf(o)' = PaymentsOf(o) /\ PayersOf(o)' \subseteq PayersOf(o)
    BY <1>3, <2>2 DEF CreatePaywall, PaymentsOf, PayersOf
  <2> QED
    BY <1>1, <2>1, <2>3 DEF Charges, PaymentsAndPayers
<1>4. CASE CreateOrderPayment(w)
  <2>1. PICK s \in Sessions, p \in Orders :
          /\ sessionOrder[s] = p /\ payment[s] = "none"
          /\ payment' = [payment EXCEPT ![s] = "pending"] /\ sessionOrder' = sessionOrder
          /\ w \in PayersOf(p)
    BY <1>4 DEF CreateOrderPayment, PayWorkersHaveOrders, OpenedSessionsAreFresh, Charges,
       OpenedForTheirOrder, PayersOf
  <2>2. OpenedForTheirOrder'
    BY <1>4 DEF CreateOrderPayment, Charges, OpenedForTheirOrder
  <2>3. \A o \in Orders : PayersOf(o)' \subseteq PayersOf(o) \ {w}
    BY <1>4 DEF CreateOrderPayment, PayersOf
  <2>4. \A o \in Orders \ {p} : PaymentsOf(o)' = PaymentsOf(o)
    BY <2>1 DEF PaymentsOf
  <2>5. PaymentsOf(p)' = PaymentsOf(p) \cup {s} /\ s \notin PaymentsOf(p)
    BY <2>1 DEF PaymentsOf
  <2>6. /\ IsFiniteSet(PaymentsOf(p)')
        /\ Cardinality(PaymentsOf(p)') = Cardinality(PaymentsOf(p)) + 1
    BY <1>0, <2>1, <2>5, FS_AddElement
  <2>7. /\ IsFiniteSet(PayersOf(p) \ {w})
        /\ Cardinality(PayersOf(p) \ {w}) = Cardinality(PayersOf(p)) - 1
    BY <2>1, PayersFinite, FS_RemoveElement
  <2>8. Cardinality(PayersOf(p)') <= Cardinality(PayersOf(p)) - 1
    BY <2>1, <2>3, <2>7, FS_Subset
  <2>9. Cardinality(PaymentsOf(p)') + Cardinality(PayersOf(p)') <= Cardinality(PayWorkers)
    BY <1>0, <2>1, <2>6, <2>8, PayersFinite
  <2>10. ASSUME NEW o \in Orders
         PROVE  /\ IsFiniteSet(PaymentsOf(o)')
                /\ Cardinality(PaymentsOf(o)') + Cardinality(PayersOf(o)') <= Cardinality(PayWorkers)
    BY <1>1, <2>3, <2>4, <2>6, <2>9
  <2> QED
    BY <2>2, <2>10 DEF Charges, PaymentsAndPayers
<1>5. CASE FailPayment(w)
  <2>1. OpenedForTheirOrder'
    BY <1>5 DEF FailPayment, Charges, OpenedForTheirOrder
  <2>2. \A o \in Orders : PaymentsOf(o)' = PaymentsOf(o) /\ PayersOf(o)' \subseteq PayersOf(o)
    BY <1>5 DEF FailPayment, PaymentsOf, PayersOf
  <2> QED
    BY <1>1, <2>1, <2>2 DEF Charges, PaymentsAndPayers
<1> QED
  BY <1>2, <1>3, <1>4, <1>5

LEMMA ChargesNext ==
  ASSUME Typed, Charges, [Next]_vars
  PROVE  Charges'
<1>1. CASE PayStep
  BY <1>1, ChargesPay DEF PayStep
<1>2. CASE ~PayStep
  <2>1. /\ payRequest' = payRequest /\ sessionOrder' = sessionOrder
        /\ \A s \in Sessions : payment'[s] = "none" <=> payment[s] = "none"
    BY <1>2, PaymentRowsKept
  <2>2. \A o \in Orders : PaymentsOf(o)' = PaymentsOf(o) /\ PayersOf(o)' = PayersOf(o)
    BY <2>1 DEF PaymentsOf, PayersOf
  <2> QED
    BY <2>1, <2>2 DEF Charges, PaymentsAndPayers, OpenedForTheirOrder
<1> QED
  BY <1>1, <1>2

\* However many sessions there are, only requests that race each other past
\* OrderIsPayableValidator charge an order more than once, each of them once.
THEOREM PaymentsBounded == Spec => []PaymentsBoundedByConcurrency
<1>1. Init => Charges
  <2> SUFFICES ASSUME Init, NEW o \in Orders
               PROVE  /\ IsFiniteSet(PaymentsOf(o))
                      /\ Cardinality(PaymentsOf(o)) + Cardinality(PayersOf(o))
                           <= Cardinality(PayWorkers)
    BY DEF Init, Charges, PaymentsAndPayers, OpenedForTheirOrder
  <2>1. PaymentsOf(o) = {} /\ PayersOf(o) = {}
    BY DEF Init, PaymentsOf, PayersOf
  <2> QED
    BY <2>1, PayersFinite, FS_EmptySet
<1>2. Charges => PaymentsBoundedByConcurrency
  <2> SUFFICES ASSUME Charges, NEW o \in Orders
               PROVE  Cardinality(PaymentsOf(o)) <= Cardinality(PayWorkers)
    BY DEF PaymentsBoundedByConcurrency
  <2>1. /\ Cardinality(PaymentsOf(o)) \in Nat
        /\ Cardinality(PaymentsOf(o)) + Cardinality(PayersOf(o)) <= Cardinality(PayWorkers)
    BY FS_CardinalityType DEF Charges, PaymentsAndPayers
  <2> QED
    BY <2>1, PayersFinite
<1>3. Spec => []Typed
  BY TypedInit, TypedNext, PTL DEF Spec
<1>4. Typed /\ Charges /\ [Next]_vars => Charges'
  BY ChargesNext
<1> QED
  BY <1>1, <1>2, <1>3, <1>4, PTL DEF Spec

LEMMA TakingsNext ==
  ASSUME Typed, Takings, [Next]_vars
  PROVE  Takings'
<1> USE DEF Typed, TypeOK, References, SessionsHaveOrders, PaymentsHaveSessions, saleVars, orderVars,
            paymentVars, workerVars
<1>0. \A s \in Sessions : payment[s] # "none" => sessionOrder[s] \in Orders
  OBVIOUS
<1>1. ASSUME NEW w \in SaleWorkers, NEW o \in Orders, InsertOrder(w, o)
      PROVE  Takings'
  BY <1>0, <1>1 DEF InsertOrder, Takings, PaidHasPayment, DeclinedIsClosed
<1>2. ASSUME \/ Tick \/ UNCHANGED vars
             \/ \E w \in SaleWorkers : \/ \E items \in Items : LockTicketTypes(w, items)
                                       \/ CheckAmounts(w) \/ RollbackSale(w)
             \/ \E t \in TicketTypes : TicketTypeController(t)
      PROVE  Takings'
  BY <1>2 DEF Tick, vars, LockTicketTypes, CheckAmounts, RollbackSale, UpdateTicketType, Takings,
     PaidHasPayment, DeclinedIsClosed
<1>3. ASSUME NEW w \in PayWorkers, NEW s \in Sessions, CreatePaywall(w, s)
      PROVE  Takings'
  BY <1>3 DEF CreatePaywall, Takings, PaidHasPayment, DeclinedIsClosed
<1>4. ASSUME NEW w \in PayWorkers, CreateOrderPayment(w)
      PROVE  Takings'
  BY <1>4 DEF CreateOrderPayment, Takings, PaidHasPayment, DeclinedIsClosed
<1>5. ASSUME NEW w \in PayWorkers, (\E o \in Orders : ValidatePayment(w, o)) \/ FailPayment(w)
      PROVE  Takings'
  BY <1>5 DEF ValidatePayment, FailPayment, Takings, PaidHasPayment, DeclinedIsClosed
<1>6. CASE StripeStep
  BY <1>6 DEF StripeStep, CustomerPays, SessionExpires, Takings, PaidHasPayment, DeclinedIsClosed
<1>7. ASSUME NEW w \in WebhookWorkers, SettleOrder(w)
      PROVE  Takings'
  <2>1. PICK s \in Sessions, o \in Orders :
          HandleOrderPayment(o, s) /\ sessionOrder' = sessionOrder /\ stripe' = stripe
    BY <1>7, SettleOrderEffect
  <2> QED
    BY <1>0, <2>1 DEF HandleOrderPayment, Takings, PaidHasPayment, DeclinedIsClosed
<1>8. ASSUME NEW o \in Orders, status[o] # "none", CancelOrder(o), sessionOrder' = sessionOrder,
             stripe' = stripe
      PROVE  Takings'
  BY <1>0, <1>8 DEF CancelOrder, Takings, PaidHasPayment, DeclinedIsClosed
<1>9. ASSUME NEW w \in WebhookWorkers, DeclineOrder(w)
      PROVE  Takings'
  BY <1>8, <1>9, WorkersHaveOrders DEF DeclineOrder
<1>10. ASSUME NEW w \in CancelWorkers, CancelClosedOrder(w)
       PROVE  Takings'
  BY <1>8, <1>10, WorkersHaveOrders DEF CancelClosedOrder, CancelsHavePayments
<1>11. ASSUME NEW w \in WebhookWorkers, (\E s \in Sessions : LookUpOrder(w, s)) \/ FailWebhook(w)
       PROVE  Takings'
  BY <1>11 DEF LookUpOrder, FailWebhook, Takings, PaidHasPayment, DeclinedIsClosed
<1>12. ASSUME NEW w \in CancelWorkers, \/ \E s \in Sessions : FindOperation(w, s)
                                       \/ SaveOperation(w) \/ FailCancel(w)
       PROVE  Takings'
  BY <1>12 DEF FindOperation, SaveOperation, FailCancel, Takings, PaidHasPayment, DeclinedIsClosed
<1>13. ASSUME NEW w \in CancelWorkers, NEW s \in Sessions, ClosePaywall(w, s)
       PROVE  Takings'
  BY <1>13 DEF ClosePaywall, Takings, PaidHasPayment, DeclinedIsClosed
<1>14. ASSUME NEW o \in Orders, CompleteOrder(o)
       PROVE  Takings'
  BY <1>0, <1>14 DEF CompleteOrder, Takings, PaidHasPayment, DeclinedIsClosed
<1>15. CASE SaleStep
  BY <1>1, <1>2, <1>15 DEF SaleStep
<1>16. CASE PayStep
  BY <1>3, <1>4, <1>5, <1>16 DEF PayStep
<1>17. CASE WebhookStep
  BY <1>7, <1>9, <1>11, <1>17 DEF WebhookStep
<1>18. CASE CancelStep
  BY <1>10, <1>12, <1>13, <1>18 DEF CancelStep
<1> QED
  BY <1>2, <1>6, <1>14, <1>15, <1>16, <1>17, <1>18 DEF Next

\* What PendingOrderIsResolved rests on: as long as the order of a paid session
\* is open, the event of the session, however often and late it is sent, finds
\* it.  A payment whose order has been canceled, or settled by another session,
\* is not found any more.
THEOREM PaidIsCompletable == Spec => []PaidSessionIsCompletable
<1>1. Init => Takings
  BY DEF Init, Takings, PaidHasPayment, DeclinedIsClosed
<1>2. Spec => []Typed
  BY TypedInit, TypedNext, PTL DEF Spec
<1>3. Typed /\ Takings /\ [Next]_vars => Takings'
  BY TakingsNext
<1>4. Typed /\ Takings /\ MoneyOrderTicketsAgree => PaidSessionIsCompletable
  BY DEF Typed, TypeOK, References, SessionsHaveOrders, Takings, PaidHasPayment, DeclinedIsClosed,
     MoneyOrderTicketsAgree, Settled, PaidSessionIsCompletable, Completable
<1> QED
  BY <1>1, <1>2, <1>3, <1>4, SettlementAgreement, PTL DEF Spec
=============================================================================
