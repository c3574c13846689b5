------------------------------- MODULE Orders -------------------------------
(***************************************************************************)
(* The primary sale of the marketplace: orders reserve an amount of ticket *)
(* types for a while, a Stripe checkout session ("paywall") collects the   *)
(* money, a webhook settles the order and creates its tickets, a delayed   *)
(* outbox message closes the paywall of an order nobody paid.              *)
(*                                                                         *)
(* Every HTTP request and every Kafka message is handled by a worker, a    *)
(* process whose position is the last await it has passed.  A database     *)
(* transaction is one step, except the one that creates an order: it holds *)
(* its row locks over several statements, which are steps of their own.    *)
(***************************************************************************)
EXTENDS Naturals, FiniteSets

CONSTANTS
  Orders,             \* ids of the order rows that can be created
  Sessions,           \* ids of the Stripe checkout sessions; a payment row has its session's id
  TicketTypes,        \* ticket types on sale
  SaleWorkers,        \* concurrent POST /orders requests
  PayWorkers,         \* concurrent POST /payments requests
  WebhookWorkers,     \* concurrent POST /payments/webhook requests
  CancelWorkers,      \* concurrent payment.paywall.cancel messages in the consumer
  Amounts,            \* the sale amounts a provider sets
  MaxQuantity,        \* most tickets of one type in one order (25 in the DTO)
  ReservationMinutes, \* ORDER_PRIMARY_RESERVATION_MINUTES, in clock ticks
  MaxTime,            \* bound of the clock
  None                \* no order, no session

ASSUME OrdersAssumption ==
  /\ IsFiniteSet(Orders)
  /\ IsFiniteSet(PayWorkers)
  /\ IsFiniteSet(WebhookWorkers)
  /\ Amounts \subseteq Nat
  /\ MaxQuantity \in Nat \ {0}
  /\ ReservationMinutes \in Nat
  /\ MaxTime \in Nat
  /\ None \notin Orders \cup Sessions

VARIABLES
  now,           \* the clock of the database and of the services
  onSale,        \* sale enabled and inside the sale dates
  saleAmount,    \* ticket_type.sale_amount
  peakAmount,    \* history: the greatest sale amount a ticket type has had
  status,        \* order.status, "none" for a row that does not exist
  reservedUntil, \* order.reserved_until
  quantity,      \* the order_primary rows of the order
  sale,          \* createPrimarySale in flight
  stripe,        \* the status of the checkout session at Stripe
  sessionOrder,  \* the order a session was created for
  payment,       \* order_payment.external_status; the row's outbox message exists with it
  payRequest,    \* PaymentService.create in flight
  webhook,       \* the session whose order PaymentService.handleWebhook has looked up
  inbox,         \* the cancel messages whose operation uuid is in the inbox table
  cancel,        \* handlePaymentPaywallCancel in flight
  batches,       \* how many times the tickets of the order have been created
  late           \* history: orders paid when they no longer held their reservation

saleVars    == <<onSale, saleAmount, peakAmount, sale>>
orderVars   == <<status, reservedUntil, quantity, batches, late>>
paymentVars == <<stripe, sessionOrder, payment>>
workerVars  == <<payRequest, webhook, inbox, cancel>>
vars == <<now, saleVars, orderVars, paymentVars, workerVars>>

\* What an order asks for: how many tickets of each type, and of some at least one.
Items   == [TicketTypes -> 0..MaxQuantity]
NoItems == [t \in TicketTypes |-> 0]
CreateOrderDto == Items \ {NoItems}

\* What a provider or an administrator sets of a ticket type.
UpdateTicketTypeDto == [saleAmount : Amounts, saleEnabled : BOOLEAN]
AdminUpdateTicketTypeDto == [saleAmount : Amounts, saleEnabled : BOOLEAN]

CreatePaymentDto == [order : Orders]

\* The columns of the tables that the model keeps are variables of their own.
OrderStatus == {"created", "paid", "completed", "canceled"}
OrderRow == OrderStatus \cup {"none"}
OrderTable == [Orders -> OrderRow]
OrderPrimaryRow == Items
OrderPrimaryTable == [Orders -> OrderPrimaryRow]

\* The status "error" is in the enum as well, and nothing sets it.
OrderPaymentStatus == {"pending", "completed", "declined"}
OrderPaymentRow == OrderPaymentStatus \cup {"none"}
OrderPaymentTable == [Sessions -> OrderPaymentRow]

TypeOK ==
  /\ now \in Nat
  /\ onSale \in [TicketTypes -> BOOLEAN]
  /\ saleAmount \in [TicketTypes -> Nat]
  /\ peakAmount \in [TicketTypes -> Nat]
  /\ status \in OrderTable
  /\ reservedUntil \in [Orders -> Nat]
  /\ quantity \in OrderPrimaryTable
  /\ sale \in [SaleWorkers -> [pc : {"idle", "locked", "checked"}, items : Items]]
  /\ stripe \in [Sessions -> {"none", "open", "complete", "expired"}]
  /\ sessionOrder \in [Sessions -> Orders \cup {None}]
  /\ payment \in OrderPaymentTable
  /\ payRequest \in [PayWorkers -> [pc : {"idle", "validated", "opened"},
                                    order : Orders \cup {None},
                                    session : Sessions \cup {None}]]
  /\ webhook \in [WebhookWorkers -> Sessions \cup {None}]
  /\ inbox \subseteq Sessions
  /\ cancel \in [CancelWorkers -> [pc : {"idle", "found", "started", "closed"},
                                   session : Sessions \cup {None}]]
  /\ batches \in [Orders -> Nat]
  /\ late \subseteq Orders

Init ==
  /\ now = 0
  /\ onSale = [t \in TicketTypes |-> TRUE]
  /\ saleAmount \in [TicketTypes -> Amounts]
  /\ peakAmount = saleAmount
  /\ status = [o \in Orders |-> "none"]
  /\ reservedUntil = [o \in Orders |-> 0]
  /\ quantity = [o \in Orders |-> NoItems]
  /\ sale = [w \in SaleWorkers |-> [pc |-> "idle", items |-> NoItems]]
  /\ stripe = [s \in Sessions |-> "none"]
  /\ sessionOrder = [s \in Sessions |-> None]
  /\ payment = [s \in Sessions |-> "none"]
  /\ payRequest = [w \in PayWorkers |-> [pc |-> "idle", order |-> None, session |-> None]]
  /\ webhook = [w \in WebhookWorkers |-> None]
  /\ inbox = {}
  /\ cancel = [w \in CancelWorkers |-> [pc |-> "idle", session |-> None]]
  /\ batches = [o \in Orders |-> 0]
  /\ late = {}

-----------------------------------------------------------------------------
(* What an order holds of a ticket type, and the rows an order owns. *)

Settled(o) == status[o] \in {"paid", "completed"}

Reserved(o) == status[o] = "created" /\ reservedUntil[o] >= now

\* The order is counted as bought or reserved.
Holds(o) == Settled(o) \/ Reserved(o)

\* One element for each ticket of type t in the orders of S.
Units(t, S) == {u \in S \X (1..MaxQuantity) : u[2] <= quantity[u[1]][t]}

BoughtAndReservedCount(t) == Cardinality(Units(t, {o \in Orders : Holds(o)}))

PaymentsOf(o) == {s \in Sessions : sessionOrder[s] = o /\ payment[s] # "none"}

-----------------------------------------------------------------------------
(* OrderService.createPrimarySale: one transaction, three statements. *)

HoldsLock(w, t) == sale[w].pc # "idle" /\ sale[w].items[t] > 0

Free(t) == \A w \in SaleWorkers : ~HoldsLock(w, t)

\* The mutants of a definition are plausible mistakes in the code it models;
\* each of them breaks a property below.
Mutant_LockTicketTypes_NoLock(w, items) ==
  /\ sale[w].pc = "idle"
  /\ items # NoItems
  /\ \A t \in TicketTypes : items[t] > 0 => onSale[t]
  /\ sale' = [sale EXCEPT ![w] = [pc |-> "locked", items |-> items]]
  /\ UNCHANGED <<now, onSale, saleAmount, peakAmount, orderVars, paymentVars, workerVars>>

\* findSellableWithLock; a requested type that is not on sale rolls the
\* transaction back.
LockTicketTypes(w, items) ==
  /\ sale[w].pc = "idle"
  /\ items # NoItems
  /\ \A t \in TicketTypes : items[t] > 0 => Free(t) /\ onSale[t]
  /\ sale' = [sale EXCEPT ![w] = [pc |-> "locked", items |-> items]]
  /\ UNCHANGED <<now, onSale, saleAmount, peakAmount, orderVars, paymentVars, workerVars>>

\* The count of every requested type leaves room for the request.  The query
\* also locks the order rows it counts; the model leaves those locks out and so
\* allows more interleavings than the database.
CheckAmounts(w) ==
  /\ sale[w].pc = "locked"
  /\ \A t \in TicketTypes :
       sale[w].items[t] > 0 => BoughtAndReservedCount(t) + sale[w].items[t] <= saleAmount[t]
  /\ sale' = [sale EXCEPT ![w].pc = "checked"]
  /\ UNCHANGED <<now, onSale, saleAmount, peakAmount, orderVars, paymentVars, workerVars>>

\* The order and its order_primary rows are inserted, the commit releases the
\* locks.  The clock's bound leaves room for the reservation to lapse.
InsertOrder(w, o) ==
  /\ sale[w].pc = "checked"
  /\ status[o] = "none"
  /\ now + ReservationMinutes < MaxTime
  /\ status' = [status EXCEPT ![o] = "created"]
  /\ reservedUntil' = [reservedUntil EXCEPT ![o] = now + ReservationMinutes]
  /\ quantity' = [quantity EXCEPT ![o] = sale[w].items]
  /\ sale' = [sale EXCEPT ![w] = [pc |-> "idle", items |-> NoItems]]
  /\ UNCHANGED <<now, onSale, saleAmount, peakAmount, batches, late, paymentVars, workerVars>>

\* "One or more tickets are unavailable", an error of the database, or the
\* death of the process: the transaction is rolled back.
RollbackSale(w) ==
  /\ sale[w].pc # "idle"
  /\ sale' = [sale EXCEPT ![w] = [pc |-> "idle", items |-> NoItems]]
  /\ UNCHANGED <<now, onSale, saleAmount, peakAmount, orderVars, paymentVars, workerVars>>

Mutant_UpdateTicketType_NoWait(t, dto) ==
  /\ saleAmount' = [saleAmount EXCEPT ![t] = dto.saleAmount]
  /\ peakAmount' = [peakAmount EXCEPT ![t] = IF dto.saleAmount > @ THEN dto.saleAmount ELSE @]
  /\ onSale' = [onSale EXCEPT ![t] = dto.saleEnabled]
  /\ UNCHANGED <<now, sale, orderVars, paymentVars, workerVars>>

\* TicketTypeService.update of the providers' API: any amount, whatever has been
\* sold; the UPDATE waits for the row's lock.
UpdateTicketType(t, dto) ==
  /\ Free(t)
  /\ saleAmount' = [saleAmount EXCEPT ![t] = dto.saleAmount]
  /\ peakAmount' = [peakAmount EXCEPT ![t] = IF dto.saleAmount > @ THEN dto.saleAmount ELSE @]
  /\ onSale' = [onSale EXCEPT ![t] = dto.saleEnabled]
  /\ UNCHANGED <<now, sale, orderVars, paymentVars, workerVars>>

\* TicketTypeService.update of the administration: by the id, and the same.
AdminUpdateTicketType(t, dto) == UpdateTicketType(t, dto)

-----------------------------------------------------------------------------
(* POST /payments: the DTO's validator, the paywall, the payment row. *)

IdlePay == [pc |-> "idle", order |-> None, session |-> None]

\* OrderIsPayableValidator.
ValidatePayment(w, o) ==
  /\ payRequest[w].pc = "idle"
  /\ Reserved(o)
  /\ PaymentsOf(o) = {}
  /\ payRequest' = [payRequest EXCEPT ![w] = [pc |-> "validated", order |-> o, session |-> None]]
  /\ UNCHANGED <<now, saleVars, orderVars, paymentVars, webhook, inbox, cancel>>

\* StripeService.createPaywall.
CreatePaywall(w, s) ==
  /\ payRequest[w].pc = "validated"
  /\ stripe[s] = "none"
  /\ stripe' = [stripe EXCEPT ![s] = "open"]
  /\ sessionOrder' = [sessionOrder EXCEPT ![s] = payRequest[w].order]
  /\ payRequest' = [payRequest EXCEPT ![w] = [pc |-> "opened", order |-> @.order, session |-> s]]
  /\ UNCHANGED <<now, saleVars, orderVars, payment, webhook, inbox, cancel>>

\* OrderService.createOrderPayment: the payment row and the outbox message
\* that is due when the reservation ends.
CreateOrderPayment(w) ==
  /\ payRequest[w].pc = "opened"
  /\ payment' = [payment EXCEPT ![payRequest[w].session] = "pending"]
  /\ payRequest' = [payRequest EXCEPT ![w] = IdlePay]
  /\ UNCHANGED <<now, saleVars, orderVars, stripe, sessionOrder, webhook, inbox, cancel>>

\* Stripe or the database fails; a session without a payment row stays open.
FailPayment(w) ==
  /\ payRequest[w].pc # "idle"
  /\ payRequest' = [payRequest EXCEPT ![w] = IdlePay]
  /\ UNCHANGED <<now, saleVars, orderVars, paymentVars, webhook, inbox, cancel>>

-----------------------------------------------------------------------------
(* The checkout session, seen from the marketplace.  Its URL reaches the   *)
(* customer once the payment row exists; Stripe expires an open session    *)
(* by itself, whenever the model lets it.                                  *)

CustomerPays(s) ==
  /\ stripe[s] = "open"
  /\ payment[s] # "none"
  /\ stripe' = [stripe EXCEPT ![s] = "complete"]
  /\ UNCHANGED <<now, saleVars, orderVars, sessionOrder, payment, workerVars>>

SessionExpires(s) ==
  /\ stripe[s] = "open"
  /\ stripe' = [stripe EXCEPT ![s] = "expired"]
  /\ UNCHANGED <<now, saleVars, orderVars, sessionOrder, payment, workerVars>>

-----------------------------------------------------------------------------
(* What settles or cancels an order: three transactions. *)

Mutant_CancelOrder_AnyStatus(o) ==
  /\ payment' = [s \in Sessions |-> IF sessionOrder[s] = o /\ payment[s] = "pending"
                                      THEN "declined" ELSE payment[s]]
  /\ status' = [status EXCEPT ![o] = "canceled"]

\* OrderService.cancelOrder: pending payments are declined, a created order is
\* canceled.
CancelOrder(o) ==
  /\ payment' = [s \in Sessions |-> IF sessionOrder[s] = o /\ payment[s] = "pending"
                                      THEN "declined" ELSE payment[s]]
  /\ status' = [status EXCEPT ![o] = IF @ = "created" THEN "canceled" ELSE @]

Mutant_HandleOrderPayment_PaymentForgotten(o, s) ==
  /\ status' = [status EXCEPT ![o] = "paid"]
  /\ payment' = payment
  /\ batches' = [batches EXCEPT ![o] = @ + 1]
  /\ late' = IF Holds(o) THEN late ELSE late \cup {o}

Mutant_HandleOrderPayment_WrongEnum(o, s) ==
  /\ status' = [status EXCEPT ![o] = "paid"]
  /\ payment' = [payment EXCEPT ![s] = "paid"]
  /\ batches' = [batches EXCEPT ![o] = @ + 1]
  /\ late' = IF Holds(o) THEN late ELSE late \cup {o}

\* OrderService.handleOrderPayment: no condition on the status of the rows.
HandleOrderPayment(o, s) ==
  /\ status' = [status EXCEPT ![o] = "paid"]
  /\ payment' = [payment EXCEPT ![s] = "completed"]
  /\ batches' = [batches EXCEPT ![o] = @ + 1]
  /\ late' = IF Holds(o) THEN late ELSE late \cup {o}

\* A ticket of the order has been minted: ConsumerService.handleTicketCreateReply
\* calls OrderService.completeOrder.
CompleteOrder(o) ==
  /\ batches[o] > 0
  /\ status[o] = "paid"
  /\ status' = [status EXCEPT ![o] = "completed"]
  /\ UNCHANGED <<now, saleVars, reservedUntil, quantity, batches, late, paymentVars, workerVars>>

-----------------------------------------------------------------------------
(* POST /payments/webhook.  Stripe sends the event of a session that is    *)
(* over at least once: a lookup is possible at any later time.             *)

Mutant_Completable_AnyOrderStatus(s) == payment[s] = "pending"

\* OrderService.findCompletableByExternalId.
Completable(s) == payment[s] = "pending" /\ status[sessionOrder[s]] = "created"

LookUpOrder(w, s) ==
  /\ webhook[w] = None
  /\ stripe[s] \in {"complete", "expired"}
  /\ Completable(s)
  /\ webhook' = [webhook EXCEPT ![w] = s]
  /\ UNCHANGED <<now, saleVars, orderVars, paymentVars, payRequest, inbox, cancel>>

SettleOrder(w) ==
  /\ webhook[w] # None
  /\ stripe[webhook[w]] = "complete"
  /\ HandleOrderPayment(sessionOrder[webhook[w]], webhook[w])
  /\ webhook' = [webhook EXCEPT ![w] = None]
  /\ UNCHANGED <<now, saleVars, reservedUntil, quantity, stripe, sessionOrder, payRequest, inbox,
                 cancel>>

Mutant_DeclineOrder_OnlyIfReserved(w) ==
  /\ webhook[w] # None
  /\ stripe[webhook[w]] = "expired"
  /\ Reserved(sessionOrder[webhook[w]])
  /\ CancelOrder(sessionOrder[webhook[w]])
  /\ webhook' = [webhook EXCEPT ![w] = None]
  /\ UNCHANGED <<now, saleVars, reservedUntil, quantity, batches, late, stripe, sessionOrder,
                 payRequest, inbox, cancel>>

DeclineOrder(w) ==
  /\ webhook[w] # None
  /\ stripe[webhook[w]] = "expired"
  /\ CancelOrder(sessionOrder[webhook[w]])
  /\ webhook' = [webhook EXCEPT ![w] = None]
  /\ UNCHANGED <<now, saleVars, reservedUntil, quantity, batches, late, stripe, sessionOrder,
                 payRequest, inbox, cancel>>

\* The transaction fails; Stripe will send the event again.
FailWebhook(w) ==
  /\ webhook[w] # None
  /\ webhook' = [webhook EXCEPT ![w] = None]
  /\ UNCHANGED <<now, saleVars, orderVars, paymentVars, payRequest, inbox, cancel>>

-----------------------------------------------------------------------------
(* ConsumerService.handlePaymentPaywallCancel.  The message of payment s   *)
(* is in the outbox since the payment row exists, is due when the          *)
(* reservation ends, and may be delivered more than once.                  *)

IdleCancel == [pc |-> "idle", session |-> None]

CancelDue(s) == payment[s] # "none" /\ reservedUntil[sessionOrder[s]] <= now

\* InboxService.startOperation: the lookup of the operation uuid ...
FindOperation(w, s) ==
  /\ cancel[w].pc = "idle"
  /\ CancelDue(s)
  /\ s \notin inbox
  /\ cancel' = [cancel EXCEPT ![w] = [pc |-> "found", session |-> s]]
  /\ UNCHANGED <<now, saleVars, orderVars, paymentVars, payRequest, webhook, inbox>>

\* ... and the insert, whatever another consumer has inserted since.
SaveOperation(w) ==
  /\ cancel[w].pc = "found"
  /\ inbox' = inbox \cup {cancel[w].session}
  /\ cancel' = [cancel EXCEPT ![w].pc = "started"]
  /\ UNCHANGED <<now, saleVars, orderVars, paymentVars, payRequest, webhook>>

\* PaymentService.cancel up to the answer of Stripe: the order is read with one
\* of its payments, and the session of that payment is expired.  A session that
\* was expired or completed before is a success as well.
ClosePaywall(w, s) ==
  /\ cancel[w].pc = "started"
  /\ s \in PaymentsOf(sessionOrder[cancel[w].session])
  /\ stripe' = [stripe EXCEPT ![s] = IF @ = "open" THEN "expired" ELSE @]
  /\ cancel' = [cancel EXCEPT ![w].pc = "closed"]
  /\ UNCHANGED <<now, saleVars, orderVars, sessionOrder, payment, payRequest, webhook, inbox>>

CancelClosedOrder(w) ==
  /\ cancel[w].pc = "closed"
  /\ CancelOrder(sessionOrder[cancel[w].session])
  /\ cancel' = [cancel EXCEPT ![w] = IdleCancel]
  /\ UNCHANGED <<now, saleVars, reservedUntil, quantity, batches, late, stripe, sessionOrder,
                 payRequest, webhook, inbox>>

\* An error or the death of the consumer.  Once the operation is in the inbox,
\* the redelivered message is skipped.
FailCancel(w) ==
  /\ cancel[w].pc # "idle"
  /\ cancel' = [cancel EXCEPT ![w] = IdleCancel]
  /\ UNCHANGED <<now, saleVars, orderVars, paymentVars, payRequest, webhook, inbox>>

-----------------------------------------------------------------------------
Tick ==
  /\ now < MaxTime
  /\ now' = now + 1
  /\ UNCHANGED <<saleVars, orderVars, paymentVars, workerVars>>

OrderController(w) ==
  \/ \E dto \in CreateOrderDto : LockTicketTypes(w, dto)
  \/ CheckAmounts(w)
  \/ \E o \in Orders : InsertOrder(w, o)
  \/ RollbackSale(w)

TicketTypeController(t) == \E dto \in UpdateTicketTypeDto : UpdateTicketType(t, dto)

AdminTicketTypeController(t) ==
  \E dto \in AdminUpdateTicketTypeDto : AdminUpdateTicketType(t, dto)

PaymentController(w) ==
  \/ \E dto \in CreatePaymentDto : ValidatePayment(w, dto.order)
  \/ \E s \in Sessions : CreatePaywall(w, s)
  \/ CreateOrderPayment(w)
  \/ FailPayment(w)

SaleStep ==
  \/ \E w \in SaleWorkers : OrderController(w)
  \/ \E t \in TicketTypes : TicketTypeController(t) \/ AdminTicketTypeController(t)

PayStep == \E w \in PayWorkers : PaymentController(w)

StripeStep == \E s \in Sessions : CustomerPays(s) \/ SessionExpires(s)

WebhookStep ==
  \E w \in WebhookWorkers :
    \/ \E s \in Sessions : LookUpOrder(w, s)
    \/ SettleOrder(w)
    \/ DeclineOrder(w)
    \/ FailWebhook(w)

CancelStep ==
  \E w \in CancelWorkers :
    \/ \E s \in Sessions : FindOperation(w, s) \/ ClosePaywall(w, s)
    \/ SaveOperation(w)
    \/ CancelClosedOrder(w)
    \/ FailCancel(w)

Next ==
  \/ Tick
  \/ SaleStep
  \/ PayStep
  \/ StripeStep
  \/ WebhookStep
  \/ CancelStep
  \/ \E o \in Orders : CompleteOrder(o)

Spec == Init /\ [][Next]_vars

\* Stripe expires every session sooner or later and repeats an event until a
\* webhook request succeeds; requests do not fail for ever.  Nothing is assumed
\* of the customer, of the consumer and of the requests that create orders.
Fairness ==
  \A s \in Sessions :
    /\ WF_vars(SessionExpires(s))
    /\ SF_vars(\E w \in WebhookWorkers : LookUpOrder(w, s))
    /\ SF_vars(\E w \in WebhookWorkers : webhook[w] = s /\ (SettleOrder(w) \/ DeclineOrder(w)))

FairSpec == Spec /\ Fairness

-----------------------------------------------------------------------------
(* Properties. *)

\* Tickets are sold beyond the sale amount only by late payments: the units
\* held by orders whose payment arrived while they still held their reservation
\* never exceed the greatest sale amount the ticket type has had.  This is what
\* the row lock and the count of createPrimarySale are for.
OversoldOnlyByLatePayments ==
  \A t \in TicketTypes :
    Cardinality(Units(t, {o \in Orders : Holds(o)} \ late)) <= peakAmount[t]

\* Money, order and tickets agree: an order is paid or completed exactly when
\* one of its payments is completed, exactly when its tickets have been created;
\* and a completed payment is one the customer made.
MoneyOrderTicketsAgree ==
  /\ \A o \in Orders :
       /\ Settled(o) <=> \E s \in Sessions : sessionOrder[s] = o /\ payment[s] = "completed"
       /\ Settled(o) <=> batches[o] > 0
  /\ \A s \in Sessions : payment[s] = "completed" => stripe[s] = "complete"

\* The webhook's lookup lets an order be settled again only by requests that
\* were already past it: as many ticket batches as concurrent requests, and one
\* alone when webhooks are handled one at a time.
BatchesBoundedByConcurrency ==
  \A o \in Orders : batches[o] <= Cardinality(WebhookWorkers)

\* Settlement is final: no cancellation, expired session or late message takes
\* back an order that was paid or a payment that was completed.
SettlementIsFinal ==
  [][/\ \A o \in Orders : Settled(o) => Settled(o)'
     /\ \A s \in Sessions : payment[s] = "completed" => payment'[s] = "completed"]_vars

\* The sale is the one of BoxOffice: however its transactions, webhooks and
\* cancellations interleave, an order is placed only beside what is kept for
\* others, keeps its tickets once it has paid in time, and its tickets are
\* issued for money that was received.
Promise == INSTANCE BoxOffice WITH
  amount   <- saleAmount,
  placed   <- {o \in Orders : status[o] # "none"},
  items    <- quantity,
  keeping  <- {o \in Orders : Holds(o)} \ late,
  received <- {s \in Sessions : stripe[s] = "complete"},
  settled  <- {o \in Orders : Settled(o)},
  receipts <- {r \in Sessions \X Orders :
                 sessionOrder[r[1]] = r[2] /\ payment[r[1]] = "completed"}

ImplementsBoxOffice == Promise!Spec

\* An order with a pending payment does not stay created for ever: it is settled
\* or canceled, even if the cancel message is lost in the consumer.
PendingOrderIsResolved ==
  \A s \in Sessions : (payment[s] = "pending" /\ status[sessionOrder[s]] = "created")
                        ~> (payment[s] # "pending" \/ status[sessionOrder[s]] # "created")

-----------------------------------------------------------------------------
(* What tests and comments of the repository say, and the code does not    *)
(* keep when its handlers interleave.                                      *)

\* Canceling the paywall does not cancel an order the customer has paid.
PaidSessionIsNotDeclined ==
  \A s \in Sessions : stripe[s] = "complete" => payment[s] # "declined"

\* No more tickets of a type are sold or reserved than its sale amount.
NeverOversold == \A t \in TicketTypes : BoughtAndReservedCount(t) <= peakAmount[t]
=============================================================================
