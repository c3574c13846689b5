------------------------------- MODULE Tickets -------------------------------
(***************************************************************************)
(* Tickets and their transfers, from the rows the services create to the   *)
(* replies of the service behind Kafka that mints, moves and burns tokens. *)
(*                                                                         *)
(* The ids of both tables are AUTO_INCREMENT numbers.  An API request is a *)
(* worker: its validators read the tables, its handler writes them later.  *)
(* A reply is taken from its topic by a consumer; none of its handlers     *)
(* asks the inbox, so a reply that is delivered again is handled again.    *)
(***************************************************************************)
EXTENDS Naturals, FiniteSets

CONSTANTS
  MaxTickets,      \* most ticket rows
  MaxTransfers,    \* most transfer rows
  Users,           \* active users, the holders of tickets
  Orders,          \* orders that can be paid
  Requests,        \* concurrent requests to the providers' API
  Webhooks,        \* webhooks that can be at work at the same time
  Consumers,       \* ticket.create.reply handlers that can be at work at the same time
  MaxDisturbances, \* bound of redeliveries, handlers that fail, and changes by administrators
  None             \* no user, no order, no ticket

ASSUME TicketsAssumption ==
  /\ MaxTickets \in Nat
  /\ MaxTransfers \in Nat
  /\ MaxDisturbances \in Nat
  /\ None \notin Users \cup Orders \cup Nat

TicketIds == 1..MaxTickets
TransferIds == 1..MaxTransfers

VARIABLES
  ticketRows,   \* the last id of the ticket table
  transferRows, \* the last id of the ticket_transfer table
  status,       \* ticket.status, "none" for a row that does not exist
  owner,        \* ticket.user_id
  orderOf,      \* the order whose order_primary_ticket row names the ticket
  failed,       \* tickets with error data
  transfer,     \* the ticket_transfer rows
  orderStatus,  \* order.status, "none" before the order is paid
  purchase,     \* order.buyer_id, and order_primary.quantity summed over the order
  webhook,      \* PaymentService.handleWebhook: the order it has found completable
  request,      \* TicketController and TicketTransferController: a request past its validators
  asked,        \* requests the token service has not answered
  topic,        \* replies no consumer has taken
  taken,        \* replies a consumer has taken
  consumer,     \* the ticket handleTicketCreateReply has activated
  entries,      \* history: how many times the ticket has let its holder in
  minted,       \* history: tickets whose minting has been reported to a handler
  repeated,     \* history: tickets whose create reply has been delivered again
  overridden,   \* history: tickets an administrator has updated
  lost,         \* history: replies whose handler has failed
  disturbances  \* how many disturbances there have been

ticketVars == <<ticketRows, status, owner, orderOf, failed>>
transferVars == <<transferRows, transfer>>
orderVars == <<orderStatus, purchase, webhook>>
kafkaVars == <<asked, topic, taken>>
historyVars == <<entries, minted, repeated, overridden, lost>>
vars == <<ticketVars, transferVars, orderVars, request, kafkaVars, consumer, historyVars,
          disturbances>>

Statuses == {"creating", "active", "validated", "deleted"}

\* What the token service is asked to do, and its reply.
Ask == [kind : {"create", "delete"}, id : TicketIds] \cup [kind : {"transfer"}, id : TransferIds]
Reply == [kind : {"create", "delete"}, id : TicketIds, ok : BOOLEAN]
           \cup [kind : {"transfer"}, id : TransferIds, ok : BOOLEAN]

Transfer == [status : {"none", "in_progress", "completed"}, ticket : TicketIds \cup {None},
             to : Users \cup {None}, failed : BOOLEAN]

\* The columns of ticket that the model keeps are variables of their own; a row
\* of order_primary_ticket is kept with its ticket.
TicketTable == [TicketIds -> Statuses \cup {"none"}]
TicketTransferTable == [TransferIds -> Transfer]
OrderPrimaryTicketRow == Orders \cup {None}
OrderPrimaryTicketTable == [TicketIds -> OrderPrimaryTicketRow]

\* What an order buys; no code changes it.
Purchase == [buyer : Users, quantity : TicketIds]

\* The bodies of the requests to the providers' API ...
ValidateTicketDto == [op : {"validate"}, ticket : TicketIds, to : {None}]
DeleteTicketDto == [op : {"delete"}, ticket : TicketIds, to : {None}]
CreateTicketTransferDto == [op : {"transfer"}, ticket : TicketIds, to : Users]

\* ... and to the administration's.
UpdateTicketValidationDto == [userId : Users, status : Statuses]
AdminCreateTicketTransferDto == [userId : Users, ticketId : TicketIds]

NoTransfer == [status |-> "none", ticket |-> None, to |-> None, failed |-> FALSE]
IdleRequest == [op |-> "idle", ticket |-> None, to |-> None]

TypeOK ==
  /\ ticketRows \in 0..MaxTickets
  /\ transferRows \in 0..MaxTransfers
  /\ status \in TicketTable
  /\ owner \in [TicketIds -> Users \cup {None}]
  /\ orderOf \in OrderPrimaryTicketTable
  /\ failed \subseteq TicketIds
  /\ transfer \in TicketTransferTable
  /\ orderStatus \in [Orders -> {"none", "paid", "completed"}]
  /\ purchase \in [Orders -> Purchase]
  /\ webhook \in [Webhooks -> Orders \cup {None}]
  /\ request \in [Requests -> [op : {"idle", "validate", "delete", "transfer"},
                               ticket : TicketIds \cup {None},
                               to : Users \cup {None}]]
  /\ asked \subseteq Ask
  /\ topic \subseteq Reply
  /\ taken \subseteq Reply
  /\ consumer \in [Consumers -> TicketIds \cup {None}]
  /\ entries \in [TicketIds -> Nat]
  /\ minted \subseteq TicketIds
  /\ repeated \subseteq TicketIds
  /\ overridden \subseteq TicketIds
  /\ lost \subseteq Reply
  /\ disturbances \in 0..MaxDisturbances

Init ==
  /\ ticketRows = 0
  /\ transferRows = 0
  /\ status = [t \in TicketIds |-> "none"]
  /\ owner = [t \in TicketIds |-> None]
  /\ orderOf = [t \in TicketIds |-> None]
  /\ failed = {}
  /\ transfer = [x \in TransferIds |-> NoTransfer]
  /\ orderStatus = [o \in Orders |-> "none"]
  /\ purchase \in [Orders -> Purchase]
  /\ webhook = [h \in Webhooks |-> None]
  /\ request = [w \in Requests |-> IdleRequest]
  /\ asked = {}
  /\ topic = {}
  /\ taken = {}
  /\ consumer = [c \in Consumers |-> None]
  /\ entries = [t \in TicketIds |-> 0]
  /\ minted = {}
  /\ repeated = {}
  /\ overridden = {}
  /\ lost = {}
  /\ disturbances = 0

Disturbance == disturbances < MaxDisturbances /\ disturbances' = disturbances + 1

-----------------------------------------------------------------------------
(* New tickets: their rows and the outbox messages that ask for the tokens  *)
(* are written in one transaction.                                          *)

CreateTickets(n, user, order) ==
  LET new == (ticketRows + 1)..(ticketRows + n) IN
  /\ ticketRows + n <= MaxTickets
  /\ ticketRows' = ticketRows + n
  /\ status' = [t \in TicketIds |-> IF t \in new THEN "creating" ELSE status[t]]
  /\ owner' = [t \in TicketIds |-> IF t \in new THEN user ELSE owner[t]]
  /\ orderOf' = [t \in TicketIds |-> IF t \in new THEN order ELSE orderOf[t]]
  /\ asked' = asked \cup [kind : {"create"}, id : new]
  /\ UNCHANGED <<failed, transferVars, request, topic, taken, consumer, historyVars, disturbances>>

\* PaymentService.handleWebhook has found the order of a completed payment,
\* created and with its payment pending.  Several webhooks can find one order.
FindOrder(h, o) ==
  /\ webhook[h] = None
  /\ orderStatus[o] = "none"
  /\ webhook' = [webhook EXCEPT ![h] = o]
  /\ UNCHANGED <<ticketVars, transferVars, orderStatus, purchase, request, kafkaVars, consumer,
                 historyVars, disturbances>>

\* OrderService.handleOrderPayment: the order is paid, and gets its tickets,
\* whatever has become of it since it was found.
PayOrder(h) ==
  LET o == webhook[h] IN
  /\ o # None
  /\ orderStatus' = [orderStatus EXCEPT ![o] = "paid"]
  /\ webhook' = [webhook EXCEPT ![h] = None]
  /\ CreateTickets(purchase[o].quantity, purchase[o].buyer, o)
  /\ UNCHANGED purchase

\* The transaction of handleOrderPayment is rolled back.
FailWebhook(h) ==
  /\ webhook[h] # None
  /\ webhook' = [webhook EXCEPT ![h] = None]
  /\ UNCHANGED <<ticketVars, transferVars, orderStatus, purchase, request, kafkaVars, consumer,
                 historyVars, disturbances>>

\* TicketService.create, for a provider or an administrator.
CreateTicket(user) ==
  /\ CreateTickets(1, user, None)
  /\ UNCHANGED orderVars

-----------------------------------------------------------------------------
(* The providers' API.  A request that fails leaves the tables alone.       *)

\* The validators of the bodies.
TicketIsValidatable(dto) == status[dto.ticket] = "active"

TicketIsDeletable(dto) == status[dto.ticket] = "active"

TicketExistsAndActive(dto) == status[dto.ticket] = "active"

TicketTransferReceiver(dto) == dto.to # owner[dto.ticket]

\* The request has passed its validators.
AcceptRequest(w, dto) ==
  /\ request[w].op = "idle"
  /\ request' = [request EXCEPT ![w] = dto]
  /\ UNCHANGED <<ticketVars, transferVars, orderVars, kafkaVars, consumer, historyVars,
                 disturbances>>

FailRequest(w) ==
  /\ request[w].op # "idle"
  /\ request' = [request EXCEPT ![w] = IdleRequest]
  /\ UNCHANGED <<ticketVars, transferVars, orderVars, kafkaVars, consumer, historyVars,
                 disturbances>>

\* The mutants of a definition are plausible mistakes in the code it models;
\* each of them breaks a property below.
Mutant_ValidateTicket_NotRead(w) ==
  /\ request[w].op = "validate"
  /\ status' = [status EXCEPT ![request[w].ticket] = "validated"]
  /\ entries' = [entries EXCEPT ![request[w].ticket] = @ + 1]
  /\ request' = [request EXCEPT ![w] = IdleRequest]
  /\ UNCHANGED <<ticketRows, owner, orderOf, failed, transferVars, orderVars, kafkaVars,
                 consumer, minted, repeated, overridden, lost, disturbances>>

\* TicketService.validate: the row is locked, and read again.
ValidateTicket(w) ==
  /\ request[w].op = "validate"
  /\ status[request[w].ticket] = "active"
  /\ status' = [status EXCEPT ![request[w].ticket] = "validated"]
  /\ entries' = [entries EXCEPT ![request[w].ticket] = @ + 1]
  /\ request' = [request EXCEPT ![w] = IdleRequest]
  /\ UNCHANGED <<ticketRows, owner, orderOf, failed, transferVars, orderVars, kafkaVars,
                 consumer, minted, repeated, overridden, lost, disturbances>>

\* TicketService.delete: whatever the status is by now.
DeleteTicket(w) ==
  /\ request[w].op = "delete"
  /\ status' = [status EXCEPT ![request[w].ticket] = "deleted"]
  /\ asked' = asked \cup {[kind |-> "delete", id |-> request[w].ticket]}
  /\ request' = [request EXCEPT ![w] = IdleRequest]
  /\ UNCHANGED <<ticketRows, owner, orderOf, failed, transferVars, orderVars, topic, taken,
                 consumer, historyVars, disturbances>>

NewTransfer(t, user) ==
  /\ transferRows < MaxTransfers
  /\ transferRows' = transferRows + 1
  /\ transfer' = [transfer EXCEPT ![transferRows + 1] =
                    [status |-> "in_progress", ticket |-> t, to |-> user, failed |-> FALSE]]

\* TicketTransferService.create.
CreateTransfer(w) ==
  /\ request[w].op = "transfer"
  /\ NewTransfer(request[w].ticket, request[w].to)
  /\ asked' = asked \cup {[kind |-> "transfer", id |-> transferRows + 1]}
  /\ request' = [request EXCEPT ![w] = IdleRequest]
  /\ UNCHANGED <<ticketVars, orderVars, topic, taken, consumer, historyVars, disturbances>>

-----------------------------------------------------------------------------
(* The administrators.                                                      *)

\* TicketService.update: any holder, any status.
UpdateTicket(t, dto) ==
  /\ status[t] # "none"
  /\ status' = [status EXCEPT ![t] = dto.status]
  /\ owner' = [owner EXCEPT ![t] = dto.userId]
  /\ overridden' = overridden \cup {t}
  /\ Disturbance
  /\ UNCHANGED <<ticketRows, orderOf, failed, transferVars, orderVars, request, kafkaVars,
                 consumer, entries, minted, repeated, lost>>

\* TicketService.delete: nothing asks for the token to be burnt.
AdminDeleteTicket(t) ==
  /\ status[t] # "none"
  /\ status' = [status EXCEPT ![t] = "deleted"]
  /\ UNCHANGED <<ticketRows, owner, orderOf, failed, transferVars, orderVars, request,
                 kafkaVars, consumer, historyVars, disturbances>>

\* TicketTransferService.create: nothing asks for the token to be moved.
AdminCreateTransfer(dto) ==
  /\ status[dto.ticketId] # "none"
  /\ NewTransfer(dto.ticketId, dto.userId)
  /\ UNCHANGED <<ticketVars, orderVars, request, kafkaVars, consumer, historyVars,
                 disturbances>>

-----------------------------------------------------------------------------
(* The token service and Kafka.                                             *)

\* The service answers, with success or with an error.
Answer(a, ok) ==
  /\ a \in asked
  /\ asked' = asked \ {a}
  /\ topic' = topic \cup {[kind |-> a.kind, id |-> a.id, ok |-> ok]}
  /\ UNCHANGED <<ticketVars, transferVars, orderVars, request, taken, consumer, historyVars,
                 disturbances>>

\* A reply that has been taken is delivered once more, however late.
Redeliver(m) ==
  /\ m \in taken
  /\ taken' = taken \ {m}
  /\ topic' = topic \cup {m}
  /\ repeated' = IF m.kind = "create" THEN repeated \cup {m.id} ELSE repeated
  /\ Disturbance
  /\ UNCHANGED <<ticketVars, transferVars, orderVars, request, asked, consumer, entries,
                 minted, overridden, lost>>

-----------------------------------------------------------------------------
(* ConsumerService.  A handler that throws is not called again.             *)

Mutant_Take_NotCommitted(m) ==
  /\ m \in topic
  /\ topic' = topic
  /\ taken' = taken \cup {m}
  /\ asked' = asked

Take(m) ==
  /\ m \in topic
  /\ topic' = topic \ {m}
  /\ taken' = taken \cup {m}
  /\ asked' = asked

Mutant_Activate_WrongStatus(c, t) ==
  /\ consumer[c] = None
  /\ Take([kind |-> "create", id |-> t, ok |-> TRUE])
  /\ status' = [status EXCEPT ![t] = "minted"]
  /\ failed' = failed \ {t}
  /\ minted' = minted \cup {t}
  /\ consumer' = [consumer EXCEPT ![c] = t]
  /\ UNCHANGED <<ticketRows, owner, orderOf, transferVars, orderVars, request, entries,
                 repeated, overridden, lost, disturbances>>

Mutant_Activate_KeepsStatus(c, t) ==
  /\ consumer[c] = None
  /\ Take([kind |-> "create", id |-> t, ok |-> TRUE])
  /\ status' = status
  /\ failed' = failed \ {t}
  /\ minted' = minted \cup {t}
  /\ consumer' = [consumer EXCEPT ![c] = t]
  /\ UNCHANGED <<ticketRows, owner, orderOf, transferVars, orderVars, request, entries,
                 repeated, overridden, lost, disturbances>>

\* handleTicketCreateReply, first half: TicketService.activate, whatever the
\* status of the ticket is by now.
Activate(c, t) ==
  /\ consumer[c] = None
  /\ Take([kind |-> "create", id |-> t, ok |-> TRUE])
  /\ status' = [status EXCEPT ![t] = "active"]
  /\ failed' = failed \ {t}
  /\ minted' = minted \cup {t}
  /\ consumer' = [consumer EXCEPT ![c] = t]
  /\ UNCHANGED <<ticketRows, owner, orderOf, transferVars, orderVars, request, entries,
                 repeated, overridden, lost, disturbances>>

Mutant_CompleteOrder_FromCreated(c) ==
  /\ consumer[c] # None
  /\ consumer' = [consumer EXCEPT ![c] = None]
  /\ orderStatus' = [o \in Orders |-> IF o = orderOf[consumer[c]] /\ orderStatus[o] = "none"
                                        THEN "completed" ELSE orderStatus[o]]
  /\ UNCHANGED <<ticketVars, transferVars, purchase, webhook, request, kafkaVars, historyVars,
                 disturbances>>

\* Second half: OrderService.findByTicketId and completeOrder.
CompleteOrder(c) ==
  /\ consumer[c] # None
  /\ consumer' = [consumer EXCEPT ![c] = None]
  /\ orderStatus' = [o \in Orders |-> IF o = orderOf[consumer[c]] /\ orderStatus[o] = "paid"
                                        THEN "completed" ELSE orderStatus[o]]
  /\ UNCHANGED <<ticketVars, transferVars, purchase, webhook, request, kafkaVars, historyVars,
                 disturbances>>

\* The handler throws, or the consumer dies, between the two halves.
FailToComplete(c) ==
  /\ consumer[c] # None
  /\ consumer' = [consumer EXCEPT ![c] = None]
  /\ lost' = lost \cup {[kind |-> "create", id |-> consumer[c], ok |-> TRUE]}
  /\ Disturbance
  /\ UNCHANGED <<ticketVars, transferVars, orderVars, request, kafkaVars, entries, minted,
                 repeated, overridden>>

Mutant_SetTicketError_NoReturn(kind, t) ==
  /\ kind \in {"create", "delete"}
  /\ Take([kind |-> kind, id |-> t, ok |-> FALSE])
  /\ failed' = failed \cup {t}
  /\ orderStatus' = [o \in Orders |-> IF o = orderOf[t] /\ orderStatus[o] = "paid"
                                        THEN "completed" ELSE orderStatus[o]]
  /\ UNCHANGED <<ticketRows, status, owner, orderOf, transferVars, purchase, webhook, request,
                 consumer, historyVars, disturbances>>

\* handleTicketCreateReply and handleTicketDeleteReply with error data.
SetTicketError(kind, t) ==
  /\ kind \in {"create", "delete"}
  /\ Take([kind |-> kind, id |-> t, ok |-> FALSE])
  /\ failed' = failed \cup {t}
  /\ UNCHANGED <<ticketRows, status, owner, orderOf, transferVars, orderVars, request,
                 consumer, historyVars, disturbances>>

\* handleTicketDeleteReply without.
IgnoreDeleteReply(t) ==
  /\ Take([kind |-> "delete", id |-> t, ok |-> TRUE])
  /\ UNCHANGED <<ticketVars, transferVars, orderVars, request, consumer, historyVars,
                 disturbances>>

\* handleTicketTransferReply: TicketTransferRepository.complete, which takes the
\* ticket whose id is the id of the transfer.
CompleteTransfer(x) ==
  /\ Take([kind |-> "transfer", id |-> x, ok |-> TRUE])
  /\ x <= ticketRows
  /\ transfer' = [transfer EXCEPT ![x] = [@ EXCEPT !.status = "completed", !.failed = FALSE]]
  /\ owner' = [owner EXCEPT ![x] = transfer[x].to]
  /\ UNCHANGED <<ticketRows, status, orderOf, failed, transferRows, orderVars, request,
                 consumer, historyVars, disturbances>>

\* "Ticket or ticket transfer is not found".
RejectTransferReply(x) ==
  /\ Take([kind |-> "transfer", id |-> x, ok |-> TRUE])
  /\ x > ticketRows
  /\ lost' = lost \cup {[kind |-> "transfer", id |-> x, ok |-> TRUE]}
  /\ UNCHANGED <<ticketVars, transferVars, orderVars, request, consumer, entries, minted,
                 repeated, overridden, disturbances>>

Mutant_SetTransferError_Completes(x) ==
  /\ Take([kind |-> "transfer", id |-> x, ok |-> FALSE])
  /\ transfer' = [transfer EXCEPT ![x] = [@ EXCEPT !.status = "completed", !.failed = TRUE]]
  /\ UNCHANGED <<ticketVars, transferRows, orderVars, request, consumer, historyVars,
                 disturbances>>

SetTransferError(x) ==
  /\ Take([kind |-> "transfer", id |-> x, ok |-> FALSE])
  /\ transfer' = [transfer EXCEPT ![x] = [@ EXCEPT !.failed = TRUE]]
  /\ UNCHANGED <<ticketVars, transferRows, orderVars, request, consumer, historyVars,
                 disturbances>>

\* A handler throws before it writes anything.
FailHandler(m) ==
  /\ Take(m)
  /\ lost' = lost \cup {m}
  /\ Disturbance
  /\ UNCHANGED <<ticketVars, transferVars, orderVars, request, consumer, entries, minted,
                 repeated, overridden>>

-----------------------------------------------------------------------------
CreateStep ==
  \/ \E user \in Users : CreateTicket(user)
  \/ \E h \in Webhooks : PayOrder(h)

WebhookStep ==
  \E h \in Webhooks : (\E o \in Orders : FindOrder(h, o)) \/ FailWebhook(h)

TicketController(w) ==
  \/ \E dto \in ValidateTicketDto : TicketIsValidatable(dto) /\ AcceptRequest(w, dto)
  \/ \E dto \in DeleteTicketDto : TicketIsDeletable(dto) /\ AcceptRequest(w, dto)
  \/ ValidateTicket(w)
  \/ DeleteTicket(w)

TicketTransferController(w) ==
  \/ \E dto \in CreateTicketTransferDto :
       TicketExistsAndActive(dto) /\ TicketTransferReceiver(dto) /\ AcceptRequest(w, dto)
  \/ CreateTransfer(w)

AdminTicketController ==
  \E t \in TicketIds :
    \/ \E dto \in UpdateTicketValidationDto : UpdateTicket(t, dto)
    \/ AdminDeleteTicket(t)

AdminTicketTransferController ==
  \E dto \in AdminCreateTicketTransferDto : AdminCreateTransfer(dto)

RequestStep ==
  \E w \in Requests : TicketController(w) \/ TicketTransferController(w) \/ FailRequest(w)

AdminStep == AdminTicketController \/ AdminTicketTransferController

CreateReply ==
  \E c \in Consumers :
    \/ \E t \in TicketIds : Activate(c, t)
    \/ CompleteOrder(c)
    \/ FailToComplete(c)

TicketReply ==
  \E t \in TicketIds :
    \/ \E kind \in {"create", "delete"} : SetTicketError(kind, t)
    \/ IgnoreDeleteReply(t)

TransferReply ==
  \E x \in TransferIds : CompleteTransfer(x) \/ RejectTransferReply(x) \/ SetTransferError(x)

KafkaStep ==
  \/ \E a \in Ask, ok \in BOOLEAN : Answer(a, ok)
  \/ \E m \in Reply : Redeliver(m) \/ FailHandler(m)

Next ==
  \/ CreateStep
  \/ WebhookStep
  \/ RequestStep
  \/ AdminStep
  \/ CreateReply
  \/ TicketReply
  \/ TransferReply
  \/ KafkaStep

Spec == Init /\ [][Next]_vars

\* The token service answers every request; the consumer takes every reply and
\* ends what it has begun.  Nothing is assumed of requests, webhooks and administrators.
Fairness ==
  /\ \A a \in Ask : WF_vars(\E ok \in BOOLEAN : Answer(a, ok))
  /\ \A t \in TicketIds :
       /\ SF_vars(\E c \in Consumers : Activate(c, t))
       /\ WF_vars(SetTicketError("create", t))
  /\ \A c \in Consumers : WF_vars(CompleteOrder(c))

FairSpec == Spec /\ Fairness

-----------------------------------------------------------------------------
(* Properties. *)

\* A ticket lets its holder in once, however many requests validate it at the
\* same time, unless its create reply has been delivered again or an
\* administrator has changed it: the lock and the second look of validate are
\* enough, activate is what can reopen the ticket.
AdmittedOnce ==
  \A t \in TicketIds : entries[t] > 1 => t \in repeated \cup overridden

\* A ticket that has been used or deleted is good for entry again only when an
\* administrator makes it so, or when its create reply comes once more, or when
\* it was deleted before it was minted: activate looks at nothing, so that the
\* first reply, too, takes the deletion back.
ReopenedOnlyByItsReply ==
  [][\A t \in TicketIds :
       status[t] \in {"validated", "deleted"} /\ status'[t] = "active"
         => \/ t \in overridden'
            \/ t \in repeated
            \/ status[t] = "deleted" /\ t \notin minted]_vars

\* An order is completed only when a token of one of its tickets has been minted.
CompletedOrderWasMinted ==
  \A o \in Orders :
    orderStatus[o] = "completed" => \E t \in minted : orderOf[t] = o

\* A transfer is completed only when the token service has reported it, and so
\* never if it is an administrator's.
CompletedTransferWasReported ==
  \A x \in TransferIds :
    transfer[x].status = "completed" =>
      [kind |-> "transfer", id |-> x, ok |-> TRUE] \in taken \cup topic

\* A ticket does not stay in creation, unless its reply is an error or is lost,
\* for nothing asks for the token a second time, or an administrator puts it back.
MintIsResolved ==
  \A t \in TicketIds :
    status[t] = "creating" ~> \/ status[t] # "creating"
                              \/ t \in failed \cup overridden
                              \/ \E m \in lost : m.kind = "create" /\ m.id = t

\* The order of t has been settled once more after the settlement that made t:
\* every settlement makes as many tickets as the order has bought.
SettledAgain(t, o) ==
  \E later \in TicketIds : later >= t + purchase[o].quantity /\ orderOf[later] = o

\* The order of a minted ticket is completed, even if the other tickets of the
\* order are not minted, unless the handler has failed between its halves.  A
\* second webhook takes a completed order back to paid: from then on this is
\* promised of the tickets it has made, and of the earlier ones no more.
OrderOfMintedTicketIsCompleted ==
  \A t \in TicketIds, o \in Orders :
    (t \in minted /\ orderOf[t] = o)
      ~> \/ orderStatus[o] = "completed"
         \/ [kind |-> "create", id |-> t, ok |-> TRUE] \in lost
         \/ SettledAgain(t, o)

-----------------------------------------------------------------------------
(* What a test of the repository says, and the code does not keep.         *)

\* A transfer that is completed gives its ticket to its receiver.
TransferMovesItsTicket ==
  [][\A x \in TransferIds :
       transfer[x].status # "completed" /\ transfer'[x].status = "completed"
         => owner'[transfer[x].ticket] = transfer[x].to]_vars
=============================================================================
