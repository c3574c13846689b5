--------------------------- MODULE TicketsProofs ----------------------------
(***************************************************************************)
(* Proofs about Tickets: the type invariant, that a ticket admits once,    *)
(* and what the completion of an order and of a transfer rests on.         *)
(***************************************************************************)
EXTENDS Tickets, TLAPS

\* Names of types, of validators, of controllers and of the variables of orders,
\* always expanded.
USE DEF TicketTable, TicketTransferTable, OrderPrimaryTicketRow, OrderPrimaryTicketTable,
        ValidateTicketDto, DeleteTicketDto, CreateTicketTransferDto, UpdateTicketValidationDto,
        AdminCreateTicketTransferDto, TicketIsValidatable, TicketIsDeletable,
        TicketExistsAndActive, TicketTransferReceiver, TicketController,
        TicketTransferController, AdminTicketController, AdminTicketTransferController,
        orderVars

\* What is asked of the token service for a ticket, and what it replies.
CreateAsk(t) == [kind |-> "create", id |-> t]
CreateReplyOf(t, ok) == [kind |-> "create", id |-> t, ok |-> ok]

\* A request at work is about a row of the table.
RequestsNameRows ==
  \A w \in Requests : request[w].op # "idle" => request[w].ticket \in 1..ticketRows

\* Nothing has happened yet to a ticket that is still to be created.
NewIdsAreFresh ==
  \A t \in TicketIds : t > ticketRows =>
    /\ status[t] = "none"
    /\ entries[t] = 0
    /\ t \notin minted
    /\ CreateAsk(t) \notin asked
    /\ \A ok \in BOOLEAN : CreateReplyOf(t, ok) \notin topic \cup taken

TypeInv == TypeOK /\ RequestsNameRows

LEMMA StatusOfRows ==
  ASSUME TypeInv, NewIdsAreFresh, NEW t \in TicketIds, status[t] # "none"
  PROVE  t \in 1..ticketRows
  BY DEF TypeInv, TypeOK, NewIdsAreFresh, TicketIds

RowFacts == ticketRows \in Nat /\ 1..ticketRows \subseteq TicketIds

LEMMA RowsAreIds == ASSUME TypeOK PROVE RowFacts
  BY TicketsAssumption DEF TypeOK, RowFacts, TicketIds

LEMMA NoneIsNoId == None \notin TicketIds /\ None \notin TransferIds
  BY TicketsAssumption DEF TicketIds, TransferIds

LEMMA TypeInit == Init => TypeInv
  BY TicketsAssumption
  DEF Init, TypeInv, TypeOK, RequestsNameRows, Transfer, NoTransfer, IdleRequest

LEMMA CreateTicketsType ==
  ASSUME TypeInv, NEW n \in TicketIds, NEW user \in Users, NEW order \in Orders \cup {None},
         CreateTickets(n, user, order), orderStatus' \in [Orders -> {"none", "paid", "completed"}],
         purchase' = purchase, webhook' \in [Webhooks -> Orders \cup {None}]
  PROVE  TypeInv'
<1> DEFINE new == (ticketRows + 1)..(ticketRows + n)
<1>1. ticketRows \in 0..MaxTickets /\ ticketRows' \in 0..MaxTickets /\ ticketRows <= ticketRows'
      /\ new \subseteq TicketIds
  BY TicketsAssumption DEF TypeInv, TypeOK, CreateTickets, TicketIds
<1>2. status' \in [TicketIds -> Statuses \cup {"none"}]
  BY DEF TypeInv, TypeOK, CreateTickets, Statuses
<1>3. owner' \in [TicketIds -> Users \cup {None}] /\ orderOf' \in [TicketIds -> Orders \cup {None}]
  BY DEF TypeInv, TypeOK, CreateTickets
<1>4. asked' \subseteq Ask
  BY <1>1 DEF TypeInv, TypeOK, CreateTickets, Ask
<1>5. RequestsNameRows'
  BY <1>1 DEF TypeInv, RequestsNameRows, CreateTickets
<1> QED
  BY <1>1, <1>2, <1>3, <1>4, <1>5
  DEF TypeInv, TypeOK, CreateTickets, transferVars, historyVars

\* A step that creates tickets creates one for nobody's order, or as many as an
\* order has bought, for its buyer.
LEMMA Creation ==
  ASSUME TypeInv, CreateStep
  PROVE  \E n \in TicketIds, user \in Users, order \in Orders \cup {None} :
           /\ CreateTickets(n, user, order)
           /\ order = None => UNCHANGED orderVars
           /\ order # None => /\ n = purchase[order].quantity
                              /\ orderStatus' = [orderStatus EXCEPT ![order] = "paid"]
           /\ purchase' = purchase
           /\ webhook' \in [Webhooks -> Orders \cup {None}]
<1>1. ASSUME NEW user \in Users, CreateTicket(user)
      PROVE  /\ 1 \in TicketIds
             /\ CreateTickets(1, user, None)
             /\ UNCHANGED orderVars
             /\ webhook \in [Webhooks -> Orders \cup {None}]
  BY <1>1, TicketsAssumption DEF CreateTicket, CreateTickets, TypeInv, TypeOK, TicketIds
<1>2. ASSUME NEW h \in Webhooks, PayOrder(h), NEW o, o = webhook[h]
      PROVE  /\ o \in Orders /\ o # None
             /\ purchase[o].quantity \in TicketIds /\ purchase[o].buyer \in Users
             /\ CreateTickets(purchase[o].quantity, purchase[o].buyer, o)
             /\ orderStatus' = [orderStatus EXCEPT ![o] = "paid"]
             /\ purchase' = purchase
             /\ webhook' \in [Webhooks -> Orders \cup {None}]
  BY <1>2, TicketsAssumption DEF PayOrder, TypeInv, TypeOK, Purchase
<1> QED
  BY <1>1, <1>2 DEF CreateStep

LEMMA CreateType == TypeInv /\ CreateStep => TypeInv'
<1> SUFFICES ASSUME TypeInv, CreateStep PROVE TypeInv'
  OBVIOUS
<1>1. PICK n \in TicketIds, user \in Users, order \in Orders \cup {None} :
        /\ CreateTickets(n, user, order)
        /\ order = None => UNCHANGED orderVars
        /\ order # None => orderStatus' = [orderStatus EXCEPT ![order] = "paid"]
        /\ purchase' = purchase
        /\ webhook' \in [Webhooks -> Orders \cup {None}]
  BY Creation
<1>2. orderStatus' \in [Orders -> {"none", "paid", "completed"}]
  BY <1>1 DEF TypeInv, TypeOK
<1> QED
  BY <1>1, <1>2, CreateTicketsType

\* A webhook that has not settled its order has changed nothing else.
LEMMA WebhookOnly ==
  ASSUME WebhookStep
  PROVE  UNCHANGED <<ticketVars, transferVars, orderStatus, purchase, request, kafkaVars, consumer,
                     historyVars, disturbances>>
  BY DEF WebhookStep, FindOrder, FailWebhook

LEMMA WebhookType == TypeInv /\ WebhookStep => TypeInv'
<1> SUFFICES ASSUME TypeInv, WebhookStep PROVE TypeInv'
  OBVIOUS
<1>1. webhook' \in [Webhooks -> Orders \cup {None}]
  BY DEF WebhookStep, FindOrder, FailWebhook, TypeInv, TypeOK
<1> QED
  BY <1>1, WebhookOnly
  DEF TypeInv, TypeOK, RequestsNameRows, ticketVars, transferVars, kafkaVars, historyVars

LEMMA NewTransferType ==
  ASSUME TypeInv, NEW t \in TicketIds, NEW user \in Users \cup {None}, NewTransfer(t, user)
  PROVE  /\ transferRows' \in 0..MaxTransfers
         /\ transferRows + 1 \in TransferIds
         /\ transfer' \in [TransferIds -> Transfer]
<1>1. transferRows \in 0..MaxTransfers /\ transferRows' \in 0..MaxTransfers
      /\ transferRows + 1 \in TransferIds
  BY TicketsAssumption DEF TypeInv, TypeOK, NewTransfer, TransferIds
<1> QED
  BY <1>1 DEF TypeInv, TypeOK, NewTransfer, Transfer

\* The bodies a request can keep.
Body == ValidateTicketDto \cup DeleteTicketDto \cup CreateTicketTransferDto

LEMMA RequestType == TypeInv /\ NewIdsAreFresh /\ RequestStep => TypeInv'
<1> SUFFICES ASSUME TypeInv, NewIdsAreFresh, RequestStep PROVE TypeInv'
  OBVIOUS
<1> USE DEF transferVars, kafkaVars, historyVars, ticketVars
<1>1. ASSUME NEW w \in Requests, NEW dto \in Body, status[dto.ticket] = "active",
             AcceptRequest(w, dto)
      PROVE  TypeInv'
  <2>1. /\ dto.ticket \in TicketIds
        /\ dto \in [op : {"idle", "validate", "delete", "transfer"},
                    ticket : TicketIds \cup {None}, to : Users \cup {None}]
    BY DEF Body
  <2>2. dto.ticket \in 1..ticketRows
    BY <1>1, <2>1, StatusOfRows
  <2> QED
    BY <1>1, <2>1, <2>2 DEF AcceptRequest, TypeInv, TypeOK, RequestsNameRows
<1>2. ASSUME NEW w \in Requests, FailRequest(w)
      PROVE  TypeInv'
  BY <1>2 DEF FailRequest, TypeInv, TypeOK, RequestsNameRows, IdleRequest
<1>3. ASSUME NEW w \in Requests, ValidateTicket(w)
      PROVE  TypeInv'
  <2>1. request[w].ticket \in TicketIds
    BY <1>3, RowsAreIds DEF ValidateTicket, TypeInv, RequestsNameRows, RowFacts
  <2>2. status' \in [TicketIds -> Statuses \cup {"none"}] /\ entries' \in [TicketIds -> Nat]
    BY <1>3, <2>1 DEF ValidateTicket, TypeInv, TypeOK, Statuses
  <2> QED
    BY <1>3, <2>2 DEF ValidateTicket, TypeInv, TypeOK, RequestsNameRows, IdleRequest
<1>4. ASSUME NEW w \in Requests, DeleteTicket(w)
      PROVE  TypeInv'
  <2>1. request[w].ticket \in TicketIds
    BY <1>4, RowsAreIds DEF DeleteTicket, TypeInv, RequestsNameRows, RowFacts
  <2>2. asked' \subseteq Ask
    BY <1>4, <2>1 DEF DeleteTicket, TypeInv, TypeOK, Ask
  <2> QED
    BY <1>4, <2>2 DEF DeleteTicket, TypeInv, TypeOK, RequestsNameRows, IdleRequest, Statuses
<1>5. ASSUME NEW w \in Requests, CreateTransfer(w)
      PROVE  TypeInv'
  <2>1. request[w].ticket \in TicketIds /\ request[w].to \in Users \cup {None}
    BY <1>5, RowsAreIds DEF CreateTransfer, TypeInv, TypeOK, RequestsNameRows, RowFacts
  <2>2. /\ transferRows' \in 0..MaxTransfers
        /\ transferRows + 1 \in TransferIds
        /\ transfer' \in [TransferIds -> Transfer]
    BY <1>5, <2>1, NewTransferType DEF CreateTransfer
  <2>3. asked' \subseteq Ask
    BY <1>5, <2>2 DEF CreateTransfer, TypeInv, TypeOK, Ask
  <2> QED
    BY <1>5, <2>2, <2>3 DEF CreateTransfer, TypeInv, TypeOK, RequestsNameRows, IdleRequest
<1> QED
  BY <1>1, <1>2, <1>3, <1>4, <1>5 DEF RequestStep, Body

LEMMA AdminType == TypeInv /\ AdminStep => TypeInv'
<1> SUFFICES ASSUME TypeInv, AdminStep PROVE TypeInv'
  OBVIOUS
<1> USE DEF transferVars, kafkaVars, historyVars, ticketVars
<1>1. ASSUME NEW t \in TicketIds, NEW dto \in UpdateTicketValidationDto, UpdateTicket(t, dto)
      PROVE  TypeInv'
  BY <1>1, TicketsAssumption DEF UpdateTicket, Disturbance, TypeInv, TypeOK, RequestsNameRows
<1>2. ASSUME NEW t \in TicketIds, AdminDeleteTicket(t)
      PROVE  TypeInv'
  BY <1>2 DEF AdminDeleteTicket, TypeInv, TypeOK, RequestsNameRows, Statuses
<1>3. ASSUME NEW dto \in AdminCreateTicketTransferDto, AdminCreateTransfer(dto)
      PROVE  TypeInv'
  BY <1>3, NewTransferType DEF AdminCreateTransfer, TypeInv, TypeOK, RequestsNameRows
<1> QED
  BY <1>1, <1>2, <1>3 DEF AdminStep

LEMMA TakeType ==
  ASSUME TypeInv, NEW m \in Reply, Take(m)
  PROVE  topic' \subseteq Reply /\ taken' \subseteq Reply /\ asked' \subseteq Ask
  BY DEF TypeInv, TypeOK, Take

LEMMA ReplyMembers ==
  /\ \A t \in TicketIds, ok \in BOOLEAN, kind \in {"create", "delete"} :
       [kind |-> kind, id |-> t, ok |-> ok] \in Reply
  /\ \A x \in TransferIds, ok \in BOOLEAN : [kind |-> "transfer", id |-> x, ok |-> ok] \in Reply
  BY DEF Reply

LEMMA CreateReplyType == TypeInv /\ CreateReply => TypeInv'
<1> SUFFICES ASSUME TypeInv, CreateReply PROVE TypeInv'
  OBVIOUS
<1> USE DEF transferVars, historyVars, ticketVars
<1>1. ASSUME NEW c \in Consumers, NEW t \in TicketIds, Activate(c, t)
      PROVE  TypeInv'
  <2>1. topic' \subseteq Reply /\ taken' \subseteq Reply /\ asked' \subseteq Ask
    BY <1>1, ReplyMembers, TakeType DEF Activate
  <2> QED
    BY <1>1, <2>1 DEF Activate, TypeInv, TypeOK, RequestsNameRows, Statuses
<1>2. ASSUME NEW c \in Consumers, CompleteOrder(c)
      PROVE  TypeInv'
  BY <1>2 DEF CompleteOrder, TypeInv, TypeOK, RequestsNameRows, kafkaVars
<1>3. ASSUME NEW c \in Consumers, FailToComplete(c)
      PROVE  TypeInv'
  <2>1. consumer[c] \in TicketIds
    BY <1>3 DEF FailToComplete, TypeInv, TypeOK
  <2>2. lost' \subseteq Reply
    BY <1>3, <2>1, ReplyMembers DEF FailToComplete, TypeInv, TypeOK
  <2> QED
    BY <1>3, <2>2, TicketsAssumption
    DEF FailToComplete, Disturbance, TypeInv, TypeOK, RequestsNameRows, kafkaVars
<1> QED
  BY <1>1, <1>2, <1>3 DEF CreateReply

LEMMA TicketReplyType == TypeInv /\ TicketReply => TypeInv'
<1> SUFFICES ASSUME TypeInv, TicketReply PROVE TypeInv'
  OBVIOUS
<1> USE DEF transferVars, historyVars, ticketVars
<1>1. ASSUME NEW t \in TicketIds, NEW kind \in {"create", "delete"}, SetTicketError(kind, t)
      PROVE  TypeInv'
  <2>1. topic' \subseteq Reply /\ taken' \subseteq Reply /\ asked' \subseteq Ask
    BY <1>1, ReplyMembers, TakeType DEF SetTicketError
  <2> QED
    BY <1>1, <2>1 DEF SetTicketError, TypeInv, TypeOK, RequestsNameRows
<1>2. ASSUME NEW t \in TicketIds, IgnoreDeleteReply(t)
      PROVE  TypeInv'
  <2>1. topic' \subseteq Reply /\ taken' \subseteq Reply /\ asked' \subseteq Ask
    BY <1>2, ReplyMembers, TakeType DEF IgnoreDeleteReply
  <2> QED
    BY <1>2, <2>1 DEF IgnoreDeleteReply, TypeInv, TypeOK, RequestsNameRows
<1> QED
  BY <1>1, <1>2 DEF TicketReply

LEMMA TransferRows ==
  ASSUME TypeOK, NEW x \in TransferIds
  PROVE  /\ transfer[x].to \in Users \cup {None}
         /\ [transfer[x] EXCEPT !.status = "completed", !.failed = FALSE] \in Transfer
         /\ [transfer[x] EXCEPT !.failed = TRUE] \in Transfer
<1>1. transfer[x] \in Transfer
  BY DEF TypeOK
<1> QED
  BY <1>1 DEF Transfer

LEMMA TransferReplyType == TypeInv /\ TransferReply => TypeInv'
<1> SUFFICES ASSUME TypeInv, TransferReply PROVE TypeInv'
  OBVIOUS
<1> USE DEF transferVars, historyVars, ticketVars
<1>1. ASSUME NEW x \in TransferIds, CompleteTransfer(x)
      PROVE  TypeInv'
  <2>1. topic' \subseteq Reply /\ taken' \subseteq Reply /\ asked' \subseteq Ask
    BY <1>1, ReplyMembers, TakeType DEF CompleteTransfer
  <2>2. owner' \in [TicketIds -> Users \cup {None}]
    BY <1>1, TransferRows DEF CompleteTransfer, TypeInv, TypeOK
  <2>3. transfer' \in [TransferIds -> Transfer]
    BY <1>1, TransferRows DEF CompleteTransfer, TypeInv, TypeOK
  <2> QED
    BY <1>1, <2>1, <2>2, <2>3 DEF CompleteTransfer, TypeInv, TypeOK, RequestsNameRows
<1>2. ASSUME NEW x \in TransferIds, RejectTransferReply(x)
      PROVE  TypeInv'
  <2>1. topic' \subseteq Reply /\ taken' \subseteq Reply /\ asked' \subseteq Ask
    BY <1>2, ReplyMembers, TakeType DEF RejectTransferReply
  <2> QED
    BY <1>2, <2>1, ReplyMembers DEF RejectTransferReply, TypeInv, TypeOK, RequestsNameRows
<1>3. ASSUME NEW x \in TransferIds, SetTransferError(x)
      PROVE  TypeInv'
  <2>1. topic' \subseteq Reply /\ taken' \subseteq Reply /\ asked' \subseteq Ask
    BY <1>3, ReplyMembers, TakeType DEF SetTransferError
  <2>2. transfer' \in [TransferIds -> Transfer]
    BY <1>3, TransferRows DEF SetTransferError, TypeInv, TypeOK
  <2> QED
    BY <1>3, <2>1, <2>2 DEF SetTransferError, TypeInv, TypeOK, RequestsNameRows
<1> QED
  BY <1>1, <1>2, <1>3 DEF TransferReply

LEMMA KafkaType == TypeInv /\ KafkaStep => TypeInv'
<1> SUFFICES ASSUME TypeInv, KafkaStep PROVE TypeInv'
  OBVIOUS
<1> USE DEF transferVars, historyVars, ticketVars
<1>1. ASSUME NEW a \in Ask, NEW ok \in BOOLEAN, Answer(a, ok)
      PROVE  TypeInv'
  <2>1. [kind |-> a.kind, id |-> a.id, ok |-> ok] \in Reply
    BY DEF Ask, Reply
  <2>2. topic' \subseteq Reply
    BY <1>1, <2>1 DEF Answer, TypeInv, TypeOK
  <2> QED
    BY <1>1, <2>2 DEF Answer, TypeInv, TypeOK, RequestsNameRows
<1>2. ASSUME NEW m \in Reply, Redeliver(m)
      PROVE  TypeInv'
  <2>1. m.kind = "create" => m.id \in TicketIds
    BY DEF Reply
  <2>2. repeated' \subseteq TicketIds
    BY <1>2, <2>1 DEF Redeliver, TypeInv, TypeOK
  <2> QED
    BY <1>2, <2>2, TicketsAssumption
    DEF Redeliver, Disturbance, TypeInv, TypeOK, RequestsNameRows
<1>3. ASSUME NEW m \in Reply, FailHandler(m)
      PROVE  TypeInv'
  <2>1. topic' \subseteq Reply /\ taken' \subseteq Reply /\ asked' \subseteq Ask
    BY <1>3, TakeType DEF FailHandler
  <2> QED
    BY <1>3, <2>1, TicketsAssumption
    DEF FailHandler, Disturbance, TypeInv, TypeOK, RequestsNameRows
<1> QED
  BY <1>1, <1>2, <1>3 DEF KafkaStep

LEMMA StutterType == TypeInv /\ UNCHANGED vars => TypeInv'
  BY DEF TypeInv, TypeOK, RequestsNameRows, vars, ticketVars, transferVars, kafkaVars,
     historyVars

-----------------------------------------------------------------------------
(* What the request for a token and its reply say of the ticket.  *)

\* A token is asked for once, so its first reply is the only one until it is
\* delivered again.
AskedOnce ==
  \A t \in TicketIds :
    CreateAsk(t) \in asked => \A ok \in BOOLEAN : CreateReplyOf(t, ok) \notin topic \cup taken

\* The first reply about the token is still to come, or to be handled.
Waiting(t) == CreateAsk(t) \in asked \/ CreateReplyOf(t, TRUE) \in topic

\* Until its first reply is handled a ticket cannot be active, so what activate
\* opens has not let anybody in.
Admission ==
  \A t \in TicketIds \ (repeated \cup overridden) :
    /\ Waiting(t) => status[t] # "active" /\ entries[t] = 0
    /\ status[t] = "active" => entries[t] = 0
    /\ entries[t] <= 1

ConsumersHaveMinted == \A c \in Consumers : consumer[c] # None => consumer[c] \in minted

IInv ==
  /\ TypeInv
  /\ NewIdsAreFresh
  /\ AskedOnce
  /\ Admission
  /\ ConsumersHaveMinted

\* What the four parts say is kept by a step that changes none of their variables.
LEMMA Frame ==
  ASSUME NewIdsAreFresh, AskedOnce, Admission, ConsumersHaveMinted,
         UNCHANGED <<ticketRows, status, entries, minted, repeated, overridden, consumer>>,
         topic' \subseteq topic, topic' \cup taken' \subseteq topic \cup taken,
         asked' \cap {CreateAsk(t) : t \in TicketIds} \subseteq asked
  PROVE  NewIdsAreFresh' /\ AskedOnce' /\ Admission' /\ ConsumersHaveMinted'
<1>1. NewIdsAreFresh'
  BY DEF NewIdsAreFresh
<1>2. AskedOnce'
  BY DEF AskedOnce
<1>3. Admission'
  BY DEF Admission, Waiting
<1>4. ConsumersHaveMinted'
  BY DEF ConsumersHaveMinted
<1> QED
  BY <1>1, <1>2, <1>3, <1>4

LEMMA CreateTicketsInv ==
  ASSUME IInv, NEW n \in TicketIds, NEW user \in Users, NEW order \in Orders \cup {None},
         CreateTickets(n, user, order)
  PROVE  NewIdsAreFresh' /\ AskedOnce' /\ Admission' /\ ConsumersHaveMinted'
<1> DEFINE new == (ticketRows + 1)..(ticketRows + n)
<1>1. ticketRows \in Nat /\ ticketRows' = ticketRows + n
      /\ \A t \in TicketIds : t \in Nat /\ (t \in new <=> t > ticketRows /\ ~(t > ticketRows'))
  BY TicketsAssumption DEF IInv, TypeInv, TypeOK, CreateTickets, TicketIds
<1>2. /\ UNCHANGED <<entries, minted, repeated, overridden, topic, taken, consumer>>
      /\ \A t \in TicketIds : status'[t] = IF t \in new THEN "creating" ELSE status[t]
  BY DEF CreateTickets, historyVars
<1>3. \A t \in TicketIds : CreateAsk(t) \in asked' <=> CreateAsk(t) \in asked \/ t \in new
  BY DEF CreateTickets, CreateAsk
<1> HIDE DEF new
<1>4. \A t \in new \cap TicketIds :
        entries[t] = 0 /\ \A ok \in BOOLEAN : CreateReplyOf(t, ok) \notin topic \cup taken
  BY <1>1 DEF IInv, NewIdsAreFresh
<1>5. NewIdsAreFresh'
  <2> SUFFICES ASSUME NEW t \in TicketIds, t > ticketRows'
               PROVE  /\ status'[t] = "none"
                      /\ entries'[t] = 0
                      /\ t \notin minted'
                      /\ CreateAsk(t) \notin asked'
                      /\ \A ok \in BOOLEAN : CreateReplyOf(t, ok) \notin topic' \cup taken'
    BY DEF NewIdsAreFresh, CreateAsk, CreateReplyOf
  <2>1. t > ticketRows /\ t \notin new
    BY <1>1 DEF TicketIds
  <2> QED
    BY <1>2, <1>3, <2>1 DEF IInv, NewIdsAreFresh
<1>6. AskedOnce'
  BY <1>2, <1>3, <1>4 DEF IInv, AskedOnce, CreateAsk, CreateReplyOf
<1>7. Admission'
  BY <1>2, <1>3, <1>4 DEF IInv, Admission, Waiting, CreateAsk, CreateReplyOf
<1>8. ConsumersHaveMinted'
  BY <1>2 DEF IInv, ConsumersHaveMinted
<1> QED
  BY <1>5, <1>6, <1>7, <1>8

LEMMA CreateInv ==
  IInv /\ CreateStep => NewIdsAreFresh' /\ AskedOnce' /\ Admission' /\ ConsumersHaveMinted'
<1> SUFFICES ASSUME IInv, CreateStep
             PROVE  NewIdsAreFresh' /\ AskedOnce' /\ Admission' /\ ConsumersHaveMinted'
  OBVIOUS
<1>1. PICK n \in TicketIds, user \in Users, order \in Orders \cup {None} :
        CreateTickets(n, user, order)
  BY Creation DEF IInv
<1> QED
  BY <1>1, CreateTicketsInv

LEMMA WebhookInv ==
  IInv /\ WebhookStep => NewIdsAreFresh' /\ AskedOnce' /\ Admission' /\ ConsumersHaveMinted'
  BY WebhookOnly, Frame DEF IInv, ticketVars, kafkaVars, historyVars

\* A ticket that exists gets a status other than "active".
LEMMA StatusChange ==
  ASSUME IInv, NEW t \in 1..ticketRows, NEW s, s # "active",
         status' = [status EXCEPT ![t] = s],
         UNCHANGED <<ticketRows, entries, minted, repeated, overridden, topic, taken, consumer>>,
         asked' \cap {CreateAsk(u) : u \in TicketIds} \subseteq asked
  PROVE  NewIdsAreFresh' /\ AskedOnce' /\ Admission' /\ ConsumersHaveMinted'
<1>1. \A u \in TicketIds : status'[u] = IF u = t THEN s ELSE status[u]
  BY DEF IInv, TypeInv, TypeOK
<1>2. NewIdsAreFresh'
  BY <1>1, RowsAreIds DEF IInv, TypeInv, RowFacts, NewIdsAreFresh
<1>3. AskedOnce' /\ ConsumersHaveMinted'
  BY DEF IInv, AskedOnce, ConsumersHaveMinted
<1>4. Admission'
  <2> SUFFICES ASSUME NEW u \in TicketIds \ (repeated' \cup overridden')
               PROVE  /\ Waiting(u)' => status'[u] # "active" /\ entries'[u] = 0
                      /\ status'[u] = "active" => entries'[u] = 0
                      /\ entries'[u] <= 1
    BY DEF Admission
  <2>1. u \in TicketIds \ (repeated \cup overridden) /\ (Waiting(u)' => Waiting(u))
    BY <1>1 DEF Waiting
  <2> QED
    BY <1>1, <2>1 DEF IInv, Admission
<1> QED
  BY <1>2, <1>3, <1>4

LEMMA OtherAsks ==
  ASSUME NEW S, NEW a, a.kind # "create"
  PROVE  (S \cup {a}) \cap {CreateAsk(t) : t \in TicketIds} \subseteq S
  BY DEF CreateAsk

LEMMA RequestInv ==
  IInv /\ RequestStep => NewIdsAreFresh' /\ AskedOnce' /\ Admission' /\ ConsumersHaveMinted'
<1> SUFFICES ASSUME IInv, RequestStep
             PROVE  NewIdsAreFresh' /\ AskedOnce' /\ Admission' /\ ConsumersHaveMinted'
  OBVIOUS
<1> USE DEF transferVars, kafkaVars, historyVars, ticketVars
<1>0. ASSUME NEW w \in Requests, request[w].op # "idle"
      PROVE  request[w].ticket \in 1..ticketRows /\ request[w].ticket \in TicketIds
  BY <1>0, RowsAreIds DEF IInv, TypeInv, RequestsNameRows, RowFacts
<1>1. ASSUME NEW w \in Requests, NEW dto \in Body, AcceptRequest(w, dto)
      PROVE  NewIdsAreFresh' /\ AskedOnce' /\ Admission' /\ ConsumersHaveMinted'
  BY <1>1, Frame DEF IInv, AcceptRequest
<1>2. ASSUME NEW w \in Requests, FailRequest(w)
      PROVE  NewIdsAreFresh' /\ AskedOnce' /\ Admission' /\ ConsumersHaveMinted'
  BY <1>2, Frame DEF IInv, FailRequest
<1>3. ASSUME NEW w \in Requests, ValidateTicket(w)
      PROVE  NewIdsAreFresh' /\ AskedOnce' /\ Admission' /\ ConsumersHaveMinted'
  <2> DEFINE t == request[w].ticket
  <2>1. t \in TicketIds /\ t \in 1..ticketRows /\ ticketRows \in Nat
    BY <1>0, <1>3, RowsAreIds DEF ValidateTicket, IInv, TypeInv, RowFacts
  <2>2. /\ \A u \in TicketIds : /\ status'[u] = IF u = t THEN "validated" ELSE status[u]
                                /\ entries'[u] = IF u = t THEN entries[u] + 1 ELSE entries[u]
        /\ status[t] = "active"
        /\ UNCHANGED <<ticketRows, asked, topic, taken, consumer, minted, repeated, overridden>>
    BY <1>3 DEF ValidateTicket, IInv, TypeInv, TypeOK
  <2> HIDE DEF t
  <2>3. NewIdsAreFresh'
    BY <2>1, <2>2 DEF IInv, NewIdsAreFresh
  <2>4. AskedOnce' /\ ConsumersHaveMinted'
    BY <2>2 DEF IInv, AskedOnce, ConsumersHaveMinted
  <2>5. Admission'
    <3> SUFFICES ASSUME NEW u \in TicketIds \ (repeated' \cup overridden')
                 PROVE  /\ Waiting(u)' => status'[u] # "active" /\ entries'[u] = 0
                        /\ status'[u] = "active" => entries'[u] = 0
                        /\ entries'[u] <= 1
      BY DEF Admission
    <3>1. u \in TicketIds \ (repeated \cup overridden) /\ (Waiting(u)' => Waiting(u))
      BY <2>2 DEF Waiting
    <3>2. status[u] = "active" => ~Waiting(u) /\ entries[u] = 0
      BY <3>1 DEF IInv, Admission
    <3>3. CASE u = t
      BY <2>2, <3>1, <3>2, <3>3
    <3>4. CASE u # t
      BY <2>2, <3>1, <3>4 DEF IInv, Admission
    <3> QED
      BY <3>3, <3>4
  <2> QED
    BY <2>3, <2>4, <2>5
<1>4. ASSUME NEW w \in Requests, DeleteTicket(w)
      PROVE  NewIdsAreFresh' /\ AskedOnce' /\ Admission' /\ ConsumersHaveMinted'
  <2>1. asked' \cap {CreateAsk(t) : t \in TicketIds} \subseteq asked
    BY <1>4, OtherAsks DEF DeleteTicket
  <2> QED
    BY <1>0, <1>4, <2>1, StatusChange DEF DeleteTicket
<1>5. ASSUME NEW w \in Requests, CreateTransfer(w)
      PROVE  NewIdsAreFresh' /\ AskedOnce' /\ Admission' /\ ConsumersHaveMinted'
  <2>1. asked' \cap {CreateAsk(t) : t \in TicketIds} \subseteq asked
    BY <1>5, OtherAsks DEF CreateTransfer
  <2> QED
    BY <1>5, <2>1, Frame DEF IInv, CreateTransfer
<1> QED
  BY <1>1, <1>2, <1>3, <1>4, <1>5 DEF RequestStep, Body

LEMMA AdminInv ==
  IInv /\ AdminStep => NewIdsAreFresh' /\ AskedOnce' /\ Admission' /\ ConsumersHaveMinted'
<1> SUFFICES ASSUME IInv, AdminStep
             PROVE  NewIdsAreFresh' /\ AskedOnce' /\ Admission' /\ ConsumersHaveMinted'
  OBVIOUS
<1> USE DEF transferVars, kafkaVars, historyVars, ticketVars
<1>1. ASSUME NEW t \in TicketIds, NEW dto \in UpdateTicketValidationDto, UpdateTicket(t, dto)
      PROVE  NewIdsAreFresh' /\ AskedOnce' /\ Admission' /\ ConsumersHaveMinted'
  <2>1. /\ \A u \in TicketIds : status'[u] = IF u = t THEN dto.status ELSE status[u]
        /\ status[t] # "none"
        /\ overridden' = overridden \cup {t}
        /\ UNCHANGED <<ticketRows, asked, topic, taken, consumer, entries, minted, repeated>>
    BY <1>1 DEF UpdateTicket, IInv, TypeInv, TypeOK
  <2>2. NewIdsAreFresh'
    BY <2>1 DEF IInv, NewIdsAreFresh
  <2>3. AskedOnce' /\ ConsumersHaveMinted'
    BY <2>1 DEF IInv, AskedOnce, ConsumersHaveMinted
  <2>4. Admission'
    <3> SUFFICES ASSUME NEW u \in TicketIds \ (repeated' \cup overridden')
                 PROVE  /\ Waiting(u)' => status'[u] # "active" /\ entries'[u] = 0
                        /\ status'[u] = "active" => entries'[u] = 0
                        /\ entries'[u] <= 1
      BY DEF Admission
    <3>1. u \in TicketIds \ (repeated \cup overridden) /\ (Waiting(u)' => Waiting(u))
      BY <2>1 DEF Waiting
    <3> QED
      BY <2>1, <3>1 DEF IInv, Admission
  <2> QED
    BY <2>2, <2>3, <2>4
<1>2. ASSUME NEW t \in TicketIds, AdminDeleteTicket(t)
      PROVE  NewIdsAreFresh' /\ AskedOnce' /\ Admission' /\ ConsumersHaveMinted'
  <2>1. t \in 1..ticketRows
    BY <1>2, StatusOfRows DEF IInv, AdminDeleteTicket
  <2> QED
    BY <1>2, <2>1, StatusChange DEF AdminDeleteTicket
<1>3. ASSUME NEW dto \in AdminCreateTicketTransferDto, AdminCreateTransfer(dto)
      PROVE  NewIdsAreFresh' /\ AskedOnce' /\ Admission' /\ ConsumersHaveMinted'
  BY <1>3, Frame DEF IInv, AdminCreateTransfer
<1> QED
  BY <1>1, <1>2, <1>3 DEF AdminStep

\* A consumer that takes a reply leaves the requests and all the replies alone.
LEMMA TakeReplies ==
  ASSUME NEW m, Take(m)
  PROVE  topic' \subseteq topic /\ topic' \cup taken' = topic \cup taken /\ asked' = asked
  BY DEF Take

LEMMA CreateReplyInv ==
  IInv /\ CreateReply => NewIdsAreFresh' /\ AskedOnce' /\ Admission' /\ ConsumersHaveMinted'
<1> SUFFICES ASSUME IInv, CreateReply
             PROVE  NewIdsAreFresh' /\ AskedOnce' /\ Admission' /\ ConsumersHaveMinted'
  OBVIOUS
<1> USE DEF kafkaVars, historyVars, ticketVars
<1>1. ASSUME NEW c \in Consumers, NEW t \in TicketIds, Activate(c, t)
      PROVE  NewIdsAreFresh' /\ AskedOnce' /\ Admission' /\ ConsumersHaveMinted'
  <2>1. /\ CreateReplyOf(t, TRUE) \in topic
        /\ CreateReplyOf(t, TRUE) \notin topic'
        /\ topic' \subseteq topic
        /\ topic' \cup taken' = topic \cup taken
        /\ asked' = asked
    BY <1>1 DEF Activate, Take, CreateReplyOf
  <2>2. /\ \A u \in TicketIds : status'[u] = IF u = t THEN "active" ELSE status[u]
        /\ \A d \in Consumers : consumer'[d] = IF d = c THEN t ELSE consumer[d]
        /\ minted' = minted \cup {t}
        /\ UNCHANGED <<ticketRows, entries, repeated, overridden>>
    BY <1>1 DEF Activate, IInv, TypeInv, TypeOK
  <2>3. ~(t > ticketRows) /\ CreateAsk(t) \notin asked
    BY <2>1 DEF IInv, NewIdsAreFresh, AskedOnce
  <2>4. NewIdsAreFresh'
    BY <2>1, <2>2, <2>3 DEF IInv, NewIdsAreFresh
  <2>5. AskedOnce'
    BY <2>1 DEF IInv, AskedOnce
  <2>6. Admission'
    <3> SUFFICES ASSUME NEW u \in TicketIds \ (repeated' \cup overridden')
                 PROVE  /\ Waiting(u)' => status'[u] # "active" /\ entries'[u] = 0
                        /\ status'[u] = "active" => entries'[u] = 0
                        /\ entries'[u] <= 1
      BY DEF Admission
    <3>1. CASE u = t
      BY <2>1, <2>2, <2>3, <3>1 DEF IInv, Admission, Waiting
    <3>2. CASE u # t
      BY <2>1, <2>2, <3>2 DEF IInv, Admission, Waiting
    <3> QED
      BY <3>1, <3>2
  <2>7. ConsumersHaveMinted'
    BY <2>2 DEF IInv, ConsumersHaveMinted
  <2> QED
    BY <2>4, <2>5, <2>6, <2>7
<1>2. ASSUME NEW c \in Consumers, CompleteOrder(c) \/ FailToComplete(c)
      PROVE  NewIdsAreFresh' /\ AskedOnce' /\ Admission' /\ ConsumersHaveMinted'
  <2>1. /\ \A d \in Consumers : consumer'[d] \in {consumer[d], None}
        /\ UNCHANGED <<ticketRows, status, entries, minted, repeated, overridden, asked, topic,
                       taken>>
    BY <1>2 DEF CompleteOrder, FailToComplete, IInv, TypeInv, TypeOK
  <2>2. NewIdsAreFresh' /\ AskedOnce'
    BY <2>1 DEF IInv, NewIdsAreFresh, AskedOnce
  <2>3. Admission'
    BY <2>1 DEF IInv, Admission, Waiting
  <2>4. ConsumersHaveMinted'
    BY <2>1 DEF IInv, ConsumersHaveMinted
  <2> QED
    BY <2>2, <2>3, <2>4
<1> QED
  BY <1>1, <1>2 DEF CreateReply

LEMMA OtherReplyInv ==
  IInv /\ (TicketReply \/ TransferReply)
    => NewIdsAreFresh' /\ AskedOnce' /\ Admission' /\ ConsumersHaveMinted'
<1> SUFFICES ASSUME IInv, TicketReply \/ TransferReply
             PROVE  NewIdsAreFresh' /\ AskedOnce' /\ Admission' /\ ConsumersHaveMinted'
  OBVIOUS
<1> USE DEF transferVars, historyVars, ticketVars
<1>1. UNCHANGED <<ticketRows, status, entries, minted, repeated, overridden, consumer>>
  BY DEF TicketReply, TransferReply, SetTicketError, IgnoreDeleteReply, CompleteTransfer,
         RejectTransferReply, SetTransferError
<1>2. \E m \in Reply : Take(m)
  BY ReplyMembers
  DEF TicketReply, TransferReply, SetTicketError, IgnoreDeleteReply, CompleteTransfer,
      RejectTransferReply, SetTransferError
<1> QED
  BY <1>1, <1>2, TakeReplies, Frame DEF IInv

LEMMA KafkaInv ==
  IInv /\ KafkaStep => NewIdsAreFresh' /\ AskedOnce' /\ Admission' /\ ConsumersHaveMinted'
<1> SUFFICES ASSUME IInv, KafkaStep
             PROVE  NewIdsAreFresh' /\ AskedOnce' /\ Admission' /\ ConsumersHaveMinted'
  OBVIOUS
<1> USE DEF transferVars, historyVars, ticketVars
<1>1. ASSUME NEW a \in Ask, NEW ok \in BOOLEAN, Answer(a, ok)
      PROVE  NewIdsAreFresh' /\ AskedOnce' /\ Admission' /\ ConsumersHaveMinted'
  <2>1. UNCHANGED <<ticketRows, status, entries, minted, repeated, overridden, consumer, taken>>
    BY <1>1 DEF Answer
  <2>2. ASSUME NEW t \in TicketIds
        PROVE  /\ CreateAsk(t) \in asked' => CreateAsk(t) \in asked /\ a # CreateAsk(t)
               /\ \A b \in BOOLEAN : CreateReplyOf(t, b) \in topic' =>
                    CreateReplyOf(t, b) \in topic \/ (a = CreateAsk(t) /\ a \in asked)
    BY <1>1 DEF Answer, Ask, CreateAsk, CreateReplyOf
  <2>3. NewIdsAreFresh'
    BY <2>1, <2>2 DEF IInv, NewIdsAreFresh
  <2>4. AskedOnce'
    BY <2>1, <2>2 DEF IInv, AskedOnce
  <2>5. Admission'
    BY <2>1, <2>2 DEF IInv, Admission, Waiting
  <2>6. ConsumersHaveMinted'
    BY <2>1 DEF IInv, ConsumersHaveMinted
  <2> QED
    BY <2>3, <2>4, <2>5, <2>6
<1>2. ASSUME NEW m \in Reply, Redeliver(m)
      PROVE  NewIdsAreFresh' /\ AskedOnce' /\ Admission' /\ ConsumersHaveMinted'
  <2>1. /\ UNCHANGED <<ticketRows, status, entries, minted, overridden, consumer, asked>>
        /\ topic' \cup taken' = topic \cup taken
        /\ repeated \subseteq repeated'
    BY <1>2 DEF Redeliver
  <2>2. \A t \in TicketIds \ repeated' :
          CreateReplyOf(t, TRUE) \in topic' => CreateReplyOf(t, TRUE) \in topic
    BY <1>2 DEF Redeliver, CreateReplyOf
  <2>3. NewIdsAreFresh' /\ AskedOnce' /\ ConsumersHaveMinted'
    BY <2>1 DEF IInv, NewIdsAreFresh, AskedOnce, ConsumersHaveMinted
  <2>4. Admission'
    BY <2>1, <2>2 DEF IInv, Admission, Waiting
  <2> QED
    BY <2>3, <2>4
<1>3. ASSUME NEW m \in Reply, FailHandler(m)
      PROVE  NewIdsAreFresh' /\ AskedOnce' /\ Admission' /\ ConsumersHaveMinted'
  BY <1>3, TakeReplies, Frame DEF FailHandler, IInv
<1> QED
  BY <1>1, <1>2, <1>3 DEF KafkaStep

LEMMA Inductive == IInv /\ [Next]_vars => IInv'
<1> SUFFICES ASSUME IInv, [Next]_vars PROVE IInv'
  OBVIOUS
<1>1. CASE Next
  <2>1. TypeInv'
    BY <1>1, CreateType, WebhookType, RequestType, AdminType, CreateReplyType, TicketReplyType,
       TransferReplyType, KafkaType DEF IInv, Next
  <2>2. NewIdsAreFresh' /\ AskedOnce' /\ Admission' /\ ConsumersHaveMinted'
    BY <1>1, CreateInv, WebhookInv, RequestInv, AdminInv, CreateReplyInv, OtherReplyInv,
       KafkaInv DEF Next
  <2> QED
    BY <2>1, <2>2 DEF IInv
<1>2. CASE UNCHANGED vars
  <2>1. TypeInv'
    BY <1>2
    DEF IInv, TypeInv, TypeOK, RequestsNameRows, vars, ticketVars, transferVars, kafkaVars,
        historyVars
  <2>2. NewIdsAreFresh' /\ AskedOnce' /\ Admission' /\ ConsumersHaveMinted'
    BY <1>2, Frame DEF IInv, vars, ticketVars, transferVars, kafkaVars, historyVars
  <2> QED
    BY <2>1, <2>2 DEF IInv
<1> QED
  BY <1>1, <1>2

LEMMA Initial == Init => IInv
<1> SUFFICES ASSUME Init PROVE IInv
  OBVIOUS
<1>1. NewIdsAreFresh /\ AskedOnce /\ ConsumersHaveMinted
  BY DEF Init, NewIdsAreFresh, AskedOnce, ConsumersHaveMinted
<1>2. Admission
  BY DEF Init, Admission, Waiting
<1> QED
  BY <1>1, <1>2, TypeInit DEF IInv

LEMMA Invariant == Spec => []IInv
  BY Initial, Inductive, PTL DEF Spec

-----------------------------------------------------------------------------
(* What a step does to one ticket.                                          *)

\* The histories only grow.
Histories ==
  /\ minted \subseteq minted' /\ repeated \subseteq repeated' /\ overridden \subseteq overridden'
  /\ lost \subseteq lost'

\* What is new about the ticket.
Changes(t) ==
  /\ \/ status'[t] = status[t]
     \/ status'[t] = "creating" /\ t > ticketRows /\ CreateAsk(t) \in asked'
     \/ status'[t] = "validated" /\ status[t] = "active"
     \/ status'[t] = "deleted"
     \/ status'[t] = "active" /\ CreateReplyOf(t, TRUE) \in topic /\ t \in minted'
     \/ t \in overridden' /\ \E dto \in UpdateTicketValidationDto : UpdateTicket(t, dto)
  /\ CreateAsk(t) \in asked' => CreateAsk(t) \in asked \/ t > ticketRows
  /\ \A ok \in BOOLEAN :
       CreateReplyOf(t, ok) \in topic' =>
         CreateReplyOf(t, ok) \in topic \/ CreateAsk(t) \in asked \/ t \in repeated'
  /\ t \in minted' =>
       \/ t \in minted
       \/ CreateReplyOf(t, TRUE) \in topic /\ CreateReplyOf(t, TRUE) \notin topic'

\* What becomes of what is outstanding about it.
Outcomes(t) ==
  /\ CreateAsk(t) \in asked =>
       CreateAsk(t) \in asked' \/ \E ok \in BOOLEAN : CreateReplyOf(t, ok) \in topic'
  /\ \A ok \in BOOLEAN :
       CreateReplyOf(t, ok) \in topic =>
         \/ CreateReplyOf(t, ok) \in topic' \cup lost'
         \/ t \in failed'
         \/ status'[t] = "active"
  /\ t \in failed => t \in failed' \/ status'[t] = "active"

Effect(t) == Histories /\ Changes(t) /\ Outcomes(t)

LEMMA CreateEffect ==
  ASSUME IInv, CreateStep, NEW t \in TicketIds
  PROVE  Effect(t)
<1>1. PICK n \in TicketIds, user \in Users, order \in Orders \cup {None} :
        CreateTickets(n, user, order)
  BY Creation DEF IInv
<1>2. PICK new : new = (ticketRows + 1)..(ticketRows + n)
  OBVIOUS
<1>3. t \in new => t > ticketRows
  BY <1>2, RowsAreIds DEF IInv, TypeInv, RowFacts, TicketIds
<1>4. /\ status'[t] = IF t \in new THEN "creating" ELSE status[t]
      /\ CreateAsk(t) \in asked' <=> CreateAsk(t) \in asked \/ t \in new
      /\ UNCHANGED <<failed, topic, taken, minted, repeated, overridden, lost>>
  BY <1>1, <1>2 DEF CreateTickets, historyVars, CreateAsk
<1> QED
  BY <1>3, <1>4 DEF Effect, Histories, Changes, Outcomes, CreateReplyOf

LEMMA WebhookEffect ==
  ASSUME IInv, WebhookStep, NEW t \in TicketIds
  PROVE  Effect(t)
  BY WebhookOnly
  DEF ticketVars, kafkaVars, historyVars, Effect, Histories, Changes, Outcomes

LEMMA RequestEffect ==
  ASSUME IInv, RequestStep, NEW t \in TicketIds
  PROVE  Effect(t)
<1> USE DEF kafkaVars, historyVars, ticketVars
<1>1. /\ UNCHANGED <<failed, topic, taken, minted, repeated, overridden, lost>>
      /\ asked \subseteq asked'
      /\ CreateAsk(t) \in asked' => CreateAsk(t) \in asked
  BY DEF RequestStep, AcceptRequest, ValidateTicket, DeleteTicket, CreateTransfer, FailRequest,
         CreateAsk
<1>2. \/ status'[t] = status[t]
      \/ status'[t] = "validated" /\ status[t] = "active"
      \/ status'[t] = "deleted"
  BY DEF IInv, TypeInv, TypeOK, RequestStep, AcceptRequest, ValidateTicket, DeleteTicket,
         CreateTransfer, FailRequest
<1> QED
  BY <1>1, <1>2 DEF Effect, Histories, Changes, Outcomes

LEMMA AdminEffect ==
  ASSUME IInv, AdminStep, NEW t \in TicketIds
  PROVE  Effect(t)
<1> USE DEF kafkaVars, historyVars, ticketVars
<1>1. /\ UNCHANGED <<failed, asked, topic, taken, minted, repeated, lost>>
      /\ overridden \subseteq overridden'
  BY DEF AdminStep, UpdateTicket, AdminDeleteTicket, AdminCreateTransfer
<1>2. \/ status'[t] = status[t] \/ status'[t] = "deleted"
      \/ t \in overridden' /\ \E dto \in UpdateTicketValidationDto : UpdateTicket(t, dto)
  <2>1. ASSUME NEW u \in TicketIds, NEW dto \in UpdateTicketValidationDto, UpdateTicket(u, dto)
        PROVE  \/ status'[t] = status[t]
               \/ t \in overridden' /\ u = t
    BY <2>1 DEF UpdateTicket, IInv, TypeInv, TypeOK
  <2>2. ASSUME NEW u \in TicketIds, AdminDeleteTicket(u)
        PROVE  status'[t] = status[t] \/ status'[t] = "deleted"
    BY <2>2 DEF AdminDeleteTicket, IInv, TypeInv, TypeOK
  <2>3. ASSUME NEW dto \in AdminCreateTicketTransferDto, AdminCreateTransfer(dto)
        PROVE  status'[t] = status[t]
    BY <2>3 DEF AdminCreateTransfer
  <2> QED
    BY <2>1, <2>2, <2>3 DEF AdminStep, AdminTicketController, AdminTicketTransferController
<1> QED
  BY <1>1, <1>2 DEF Effect, Histories, Changes, Outcomes

LEMMA CreateReplyEffect ==
  ASSUME IInv, CreateReply, NEW t \in TicketIds
  PROVE  Effect(t)
<1> USE DEF kafkaVars, historyVars, ticketVars
<1>1. ASSUME NEW c \in Consumers, NEW u \in TicketIds, Activate(c, u)
      PROVE  Effect(t)
  <2>1. /\ status'[t] = IF t = u THEN "active" ELSE status[t]
        /\ minted' = minted \cup {u} /\ failed' = failed \ {u}
        /\ UNCHANGED <<asked, repeated, overridden, lost>>
        /\ CreateReplyOf(u, TRUE) \in topic
        /\ topic' = topic \ {CreateReplyOf(u, TRUE)}
    BY <1>1 DEF Activate, Take, IInv, TypeInv, TypeOK, CreateReplyOf
  <2>2. \A ok \in BOOLEAN : CreateReplyOf(t, ok) = CreateReplyOf(u, TRUE) => t = u
    BY DEF CreateReplyOf
  <2> QED
    BY <2>1, <2>2 DEF Effect, Histories, Changes, Outcomes
<1>2. ASSUME NEW c \in Consumers, CompleteOrder(c) \/ FailToComplete(c)
      PROVE  Effect(t)
  BY <1>2 DEF CompleteOrder, FailToComplete, Effect, Histories, Changes, Outcomes
<1> QED
  BY <1>1, <1>2 DEF CreateReply

LEMMA OtherReplyEffect ==
  ASSUME IInv, TicketReply \/ TransferReply, NEW t \in TicketIds
  PROVE  Effect(t)
<1> USE DEF historyVars, ticketVars
<1>1. UNCHANGED <<status, asked, minted, repeated, overridden>> /\ failed \subseteq failed'
      /\ lost \subseteq lost' /\ topic' \subseteq topic
  BY DEF TicketReply, TransferReply, SetTicketError, IgnoreDeleteReply, CompleteTransfer,
         RejectTransferReply, SetTransferError, Take
<1>2. ASSUME NEW ok \in BOOLEAN, CreateReplyOf(t, ok) \in topic, CreateReplyOf(t, ok) \notin topic'
      PROVE  t \in failed'
  BY <1>2 DEF TicketReply, TransferReply, SetTicketError, IgnoreDeleteReply, CompleteTransfer,
              RejectTransferReply, SetTransferError, Take, CreateReplyOf
<1> QED
  BY <1>1, <1>2 DEF Effect, Histories, Changes, Outcomes

LEMMA KafkaEffect ==
  ASSUME IInv, KafkaStep, NEW t \in TicketIds
  PROVE  Effect(t)
<1> USE DEF historyVars, ticketVars
<1>1. ASSUME NEW a \in Ask, NEW ok \in BOOLEAN, Answer(a, ok)
      PROVE  Effect(t)
  <2>1. UNCHANGED <<status, failed, minted, repeated, overridden, lost>>
        /\ asked' = asked \ {a} /\ a \in asked
        /\ topic' = topic \cup {[kind |-> a.kind, id |-> a.id, ok |-> ok]}
    BY <1>1 DEF Answer
  <2>2. CreateAsk(t) = a => CreateReplyOf(t, ok) \in topic'
    BY <2>1 DEF CreateAsk, CreateReplyOf
  <2>3. \A b \in BOOLEAN : CreateReplyOf(t, b) \in topic' =>
          CreateReplyOf(t, b) \in topic \/ CreateAsk(t) \in asked
    BY <2>1 DEF CreateAsk, CreateReplyOf, Ask
  <2> QED
    BY <2>1, <2>2, <2>3 DEF Effect, Histories, Changes, Outcomes
<1>2. ASSUME NEW m \in Reply, Redeliver(m)
      PROVE  Effect(t)
  <2>1. /\ UNCHANGED <<status, failed, asked, minted, overridden, lost>>
        /\ repeated \subseteq repeated' /\ topic' = topic \cup {m}
        /\ \A ok \in BOOLEAN : CreateReplyOf(t, ok) = m => t \in repeated'
    BY <1>2 DEF Redeliver, CreateReplyOf
  <2> QED
    BY <2>1 DEF Effect, Histories, Changes, Outcomes
<1>3. ASSUME NEW m \in Reply, FailHandler(m)
      PROVE  Effect(t)
  <2>1. /\ UNCHANGED <<status, failed, asked, minted, repeated, overridden>>
        /\ lost' = lost \cup {m} /\ topic' = topic \ {m}
    BY <1>3 DEF FailHandler, Take
  <2> QED
    BY <2>1 DEF Effect, Histories, Changes, Outcomes
<1> QED
  BY <1>1, <1>2, <1>3 DEF KafkaStep

LEMMA StepEffect ==
  ASSUME IInv, [Next]_vars, NEW t \in TicketIds
  PROVE  Effect(t)
<1>1. CASE UNCHANGED vars
  BY <1>1 DEF vars, ticketVars, kafkaVars, historyVars, Effect, Histories, Changes, Outcomes
<1> QED
  BY <1>1, CreateEffect, WebhookEffect, RequestEffect, AdminEffect, CreateReplyEffect,
     OtherReplyEffect, KafkaEffect DEF Next

-----------------------------------------------------------------------------
\* Every variable keeps its type, whatever the numbers of rows, requests,
\* consumers and disturbances (TypeOK; the entities of tickets and transfers).
THEOREM TypeCorrect == Spec => []TypeOK
<1>1. IInv => TypeOK
  BY DEF IInv, TypeInv
<1> QED
  BY <1>1, Invariant, PTL

\* A ticket lets its holder in once, however many requests validate it at the
\* same time, unless its create reply is delivered again or an administrator
\* changes it (the lock of TicketService.validate, the update of activate).
THEOREM TicketAdmitsOnce == Spec => []AdmittedOnce
<1>1. IInv => AdmittedOnce
  BY DEF IInv, TypeInv, TypeOK, Admission, AdmittedOnce
<1> QED
  BY <1>1, Invariant, PTL

\* An order is completed only when a token of one of its tickets has been minted
\* (handleTicketCreateReply returns on an error before it looks for the order).
THEOREM CompletionNeedsMinting == Spec => []CompletedOrderWasMinted
<1>1. Init => CompletedOrderWasMinted
  BY DEF Init, CompletedOrderWasMinted
<1>2. IInv /\ CompletedOrderWasMinted /\ [Next]_vars => CompletedOrderWasMinted'
  <2> SUFFICES ASSUME IInv, CompletedOrderWasMinted, [Next]_vars
               PROVE  CompletedOrderWasMinted'
    OBVIOUS
  <2> USE DEF ticketVars, transferVars, kafkaVars, historyVars
  <2>1. minted \subseteq minted'
    BY DEF Next, vars, WebhookStep, FindOrder, FailWebhook, CreateStep, CreateTicket, PayOrder,
           CreateTickets, RequestStep, AcceptRequest, ValidateTicket, DeleteTicket,
           CreateTransfer, FailRequest, AdminStep, UpdateTicket, AdminDeleteTicket,
           AdminCreateTransfer, CreateReply, Activate, CompleteOrder, FailToComplete, TicketReply,
           SetTicketError, IgnoreDeleteReply, TransferReply, CompleteTransfer,
           RejectTransferReply, SetTransferError, KafkaStep, Answer, Redeliver, FailHandler
  <2>2. \A t \in minted : orderOf'[t] = orderOf[t]
    <3>1. CASE CreateStep
      <4>1. PICK n \in TicketIds, user \in Users, order \in Orders \cup {None} :
              CreateTickets(n, user, order)
        BY <3>1, Creation DEF IInv
      <4>2. \A t \in minted : t \in TicketIds /\ ~(t > ticketRows)
        BY DEF IInv, TypeInv, TypeOK, NewIdsAreFresh
      <4>3. \A t \in TicketIds : ~(t > ticketRows) => t \notin (ticketRows + 1)..(ticketRows + n)
        BY RowsAreIds DEF IInv, TypeInv, RowFacts, TicketIds
      <4> QED
        BY <4>1, <4>2, <4>3 DEF CreateTickets
    <3>2. CASE ~CreateStep
      BY <3>2
      DEF Next, vars, WebhookStep, FindOrder, FailWebhook, RequestStep, AcceptRequest,
          ValidateTicket, DeleteTicket, CreateTransfer, FailRequest, AdminStep, UpdateTicket,
          AdminDeleteTicket, AdminCreateTransfer, CreateReply, Activate, CompleteOrder,
          FailToComplete, TicketReply, SetTicketError, IgnoreDeleteReply, TransferReply,
          CompleteTransfer, RejectTransferReply, SetTransferError, KafkaStep, Answer, Redeliver,
          FailHandler
    <3> QED
      BY <3>1, <3>2
  <2>3. ASSUME NEW o \in Orders, orderStatus'[o] = "completed", orderStatus[o] # "completed"
        PROVE  \E t \in minted : orderOf[t] = o
    <3>1. PICK c \in Consumers : CompleteOrder(c)
      BY <2>3
      DEF IInv, TypeInv, TypeOK, Next, vars, WebhookStep, FindOrder, FailWebhook, CreateStep,
          CreateTicket, PayOrder, CreateTickets, RequestStep, AcceptRequest, ValidateTicket,
          DeleteTicket, CreateTransfer, FailRequest, AdminStep, UpdateTicket, AdminDeleteTicket,
          AdminCreateTransfer, CreateReply, Activate, FailToComplete, TicketReply, SetTicketError,
          IgnoreDeleteReply, TransferReply, CompleteTransfer, RejectTransferReply,
          SetTransferError, KafkaStep, Answer, Redeliver, FailHandler
    <3>2. consumer[c] \in minted
      BY <3>1 DEF CompleteOrder, IInv, ConsumersHaveMinted
    <3>3. orderOf[consumer[c]] = o
      BY <2>3, <3>1 DEF CompleteOrder, IInv, TypeInv, TypeOK
    <3> QED
      BY <3>2, <3>3
  <2> QED
    BY <2>1, <2>2, <2>3 DEF CompletedOrderWasMinted
<1> QED
  BY <1>1, <1>2, Invariant, PTL DEF Spec

\* A transfer is completed only when the token service has reported it, and so
\* never if it is an administrator's (TicketTransferRepository.complete).
THEOREM CompletionNeedsReport == Spec => []CompletedTransferWasReported
<1>1. Init => CompletedTransferWasReported
  BY DEF Init, CompletedTransferWasReported, NoTransfer
<1>2. IInv /\ CompletedTransferWasReported /\ [Next]_vars => CompletedTransferWasReported'
  <2> SUFFICES ASSUME IInv, CompletedTransferWasReported, [Next]_vars
               PROVE  CompletedTransferWasReported'
    OBVIOUS
  <2> USE DEF ticketVars, transferVars, kafkaVars, historyVars
  <2>1. topic \cup taken \subseteq topic' \cup taken'
    BY DEF Next, vars, WebhookStep, FindOrder, FailWebhook, CreateStep, CreateTicket, PayOrder,
           CreateTickets, RequestStep, AcceptRequest, ValidateTicket, DeleteTicket,
           CreateTransfer, FailRequest, AdminStep, UpdateTicket, AdminDeleteTicket,
           AdminCreateTransfer, CreateReply, Activate, CompleteOrder, FailToComplete, TicketReply,
           SetTicketError, IgnoreDeleteReply, TransferReply, CompleteTransfer,
           RejectTransferReply, SetTransferError, KafkaStep, Answer, Redeliver, FailHandler, Take
  <2>2. ASSUME NEW x \in TransferIds, transfer'[x].status = "completed",
               transfer[x].status # "completed"
        PROVE  [kind |-> "transfer", id |-> x, ok |-> TRUE] \in topic
    <3>1. CASE \E y \in TransferIds : CompleteTransfer(y)
      BY <2>2, <3>1 DEF CompleteTransfer, Take, IInv, TypeInv, TypeOK
    <3>2. CASE \E y \in TransferIds : SetTransferError(y)
      BY <2>2, <3>2 DEF SetTransferError, IInv, TypeInv, TypeOK
    <3>3. CASE \E t \in TicketIds, user \in Users \cup {None} : NewTransfer(t, user)
      BY <2>2, <3>3 DEF NewTransfer, IInv, TypeInv, TypeOK
    <3>4. CASE transfer' = transfer
      BY <2>2, <3>4
    <3>5. ASSUME NEW w \in Requests, CreateTransfer(w)
          PROVE  \E t \in TicketIds, user \in Users \cup {None} : NewTransfer(t, user)
      BY <3>5, RowsAreIds
      DEF CreateTransfer, IInv, TypeInv, TypeOK, RequestsNameRows, RowFacts
    <3> QED
      BY <3>1, <3>2, <3>3, <3>4, <3>5
      DEF Next, vars, WebhookStep, FindOrder, FailWebhook, CreateStep, CreateTicket, PayOrder,
          CreateTickets, RequestStep, AcceptRequest, ValidateTicket, DeleteTicket, FailRequest,
          AdminStep, UpdateTicket, AdminDeleteTicket, AdminCreateTransfer, CreateReply, Activate,
          CompleteOrder, FailToComplete, TicketReply, SetTicketError, IgnoreDeleteReply,
          TransferReply, RejectTransferReply, KafkaStep, Answer, Redeliver, FailHandler
  <2> QED
    BY <2>1, <2>2 DEF CompletedTransferWasReported
<1> QED
  BY <1>1, <1>2, Invariant, PTL DEF Spec

-----------------------------------------------------------------------------
(* Tickets that are opened again, and what is not lost.                     *)

\* A ticket is open, or has been, only when it is minted, or by an administrator;
\* once it is minted, its reply comes only again.
Opened ==
  /\ \A t \in TicketIds : status[t] \in {"active", "validated"} => t \in minted \cup overridden
  /\ \A t \in minted : Waiting(t) => t \in repeated

LEMMA OpenedNext ==
  ASSUME IInv, Opened, [Next]_vars
  PROVE  Opened'
<1>1. ASSUME NEW t \in TicketIds, status'[t] \in {"active", "validated"}
      PROVE  t \in minted' \cup overridden'
  BY <1>1, StepEffect DEF Effect, Histories, Changes, Opened
<1>2. ASSUME NEW t \in minted', Waiting(t)'
      PROVE  t \in repeated'
  <2>1. t \in TicketIds /\ Effect(t)
    BY Inductive, StepEffect DEF IInv, TypeInv, TypeOK
  <2>2. CASE t \in minted
    <3>1. ~(t > ticketRows)
      BY <2>1, <2>2 DEF IInv, NewIdsAreFresh
    <3> QED
      BY <1>2, <2>1, <2>2, <3>1 DEF Opened, Waiting, Effect, Histories, Changes
  <2>3. CASE t \notin minted
    <3>1. CreateReplyOf(t, TRUE) \in topic /\ CreateReplyOf(t, TRUE) \notin topic'
      BY <2>1, <2>3 DEF Effect, Changes
    <3>2. CreateAsk(t) \notin asked /\ ~(t > ticketRows)
      BY <2>1, <3>1 DEF IInv, AskedOnce, NewIdsAreFresh
    <3> QED
      BY <1>2, <2>1, <3>1, <3>2 DEF Waiting, Effect, Changes
  <2> QED
    BY <2>2, <2>3
<1> QED
  BY <1>1, <1>2 DEF Opened

\* A used or a deleted ticket is good for entry again only by an administrator,
\* by its create reply that comes once more, or because it was deleted before it
\* was minted (TicketService.activate looks at nothing).
THEOREM ReopeningHasAReason == Spec => ReopenedOnlyByItsReply
<1>1. Init => Opened
  BY DEF Init, Opened
<1>2. IInv /\ Opened /\ [Next]_vars => Opened'
  BY OpenedNext
<1>3. IInv /\ Opened /\ [Next]_vars =>
        [\A t \in TicketIds :
           status[t] \in {"validated", "deleted"} /\ status'[t] = "active"
             => \/ t \in overridden'
                \/ t \in repeated
                \/ status[t] = "deleted" /\ t \notin minted]_vars
  <2>1. ASSUME IInv, Opened, [Next]_vars, NEW t \in TicketIds,
               status[t] \in {"validated", "deleted"}, status'[t] = "active", t \notin overridden'
        PROVE  t \in repeated \/ (status[t] = "deleted" /\ t \notin minted)
    <3>1. CreateReplyOf(t, TRUE) \in topic /\ t \notin overridden
      BY <2>1, StepEffect DEF Effect, Histories, Changes
    <3>2. t \in minted => t \in repeated
      BY <2>1, <3>1 DEF Opened, Waiting
    <3> QED
      BY <2>1, <3>1, <3>2 DEF Opened
  <2> QED
    BY <2>1
<1> QED
  BY <1>1, <1>2, <1>3, Invariant, PTL DEF Spec, ReopenedOnlyByItsReply

\* Why a ticket is still in creation.
CreationIsAccountedFor ==
  \A t \in TicketIds : status[t] = "creating" =>
    \/ CreateAsk(t) \in asked
    \/ \E ok \in BOOLEAN : CreateReplyOf(t, ok) \in topic \cup lost
    \/ t \in failed \cup overridden

\* The safety that MintIsResolved rests on: a ticket in creation has been asked
\* for and is being answered, or its reply is one that is never handled, or an
\* error; no other way leads into creation, or leaves a ticket there.
THEOREM CreationAccounted == Spec => []CreationIsAccountedFor
<1>1. Init => CreationIsAccountedFor
  BY DEF Init, CreationIsAccountedFor
<1>2. IInv /\ CreationIsAccountedFor /\ [Next]_vars => CreationIsAccountedFor'
  <2> SUFFICES ASSUME IInv, CreationIsAccountedFor, [Next]_vars,
                      NEW t \in TicketIds, status'[t] = "creating"
               PROVE  \/ CreateAsk(t) \in asked'
                      \/ \E ok \in BOOLEAN : CreateReplyOf(t, ok) \in topic' \cup lost'
                      \/ t \in failed' \cup overridden'
    BY DEF CreationIsAccountedFor, CreateAsk, CreateReplyOf
  <2>1. Histories /\ Changes(t) /\ Outcomes(t)
    BY StepEffect DEF Effect
  <2>2. CASE status[t] = "creating"
    BY <2>1, <2>2 DEF CreationIsAccountedFor, Histories, Outcomes
  <2>3. CASE status[t] # "creating"
    BY <2>1, <2>3 DEF Changes
  <2> QED
    BY <2>2, <2>3
<1> QED
  BY <1>1, <1>2, Invariant, PTL DEF Spec

\* What is left to do for the order of a ticket.
OrdersArePaid ==
  \A t \in TicketIds : orderOf[t] # None => ~(t > ticketRows) /\ orderStatus[orderOf[t]] # "none"

CompletionIsAccountedFor ==
  \A t \in minted : orderOf[t] # None =>
    \/ orderStatus[orderOf[t]] = "completed"
    \/ \E c \in Consumers : consumer[c] = t
    \/ CreateReplyOf(t, TRUE) \in lost
    \/ SettledAgain(t, orderOf[t])

\* What a step does to orders.
LEMMA OrderEffect ==
  ASSUME IInv, [Next]_vars
  PROVE  /\ purchase' = purchase
         /\ \A o \in Orders :
              \/ orderStatus'[o] = orderStatus[o]
              \/ /\ orderStatus'[o] = "paid"
                 /\ \A t \in TicketIds : ~(t > ticketRows) => SettledAgain(t, o)'
              \/ orderStatus[o] = "paid" /\ orderStatus'[o] = "completed"
         /\ \A t \in TicketIds :
              \/ orderOf'[t] = orderOf[t]
              \/ /\ t > ticketRows /\ ~(t > ticketRows')
                 /\ orderOf'[t] # None => orderStatus'[orderOf'[t]] = "paid"
         /\ \A t \in TicketIds : t > ticketRows' => t > ticketRows
         /\ \A t \in TicketIds : t \in minted => ~(t > ticketRows)
<1>1. CASE CreateStep
  <2>1. PICK n \in TicketIds, user \in Users, order \in Orders \cup {None} :
          /\ CreateTickets(n, user, order)
          /\ order = None => UNCHANGED orderVars
          /\ order # None => /\ n = purchase[order].quantity
                             /\ orderStatus' = [orderStatus EXCEPT ![order] = "paid"]
          /\ purchase' = purchase
    BY <1>1, Creation DEF IInv
  <2>2. PICK new : new = (ticketRows + 1)..(ticketRows + n)
    OBVIOUS
  <2>3. /\ \A t \in TicketIds : t \in new => t > ticketRows /\ ~(t > ticketRows')
        /\ \A t \in TicketIds : t > ticketRows' => t > ticketRows
    BY <2>1, <2>2, RowsAreIds DEF CreateTickets, IInv, TypeInv, RowFacts, TicketIds
  <2>4. \A t \in TicketIds : orderOf'[t] = IF t \in new THEN order ELSE orderOf[t]
    BY <2>1, <2>2 DEF CreateTickets
  <2>5. PICK last : /\ last = ticketRows + n
                    /\ last \in TicketIds
                    /\ last \in new
                    /\ \A t \in TicketIds : ~(t > ticketRows) => last >= t + n
    BY <2>1, <2>2, RowsAreIds, TicketsAssumption
    DEF CreateTickets, IInv, TypeInv, RowFacts, TicketIds
  <2>6. ASSUME order # None, NEW t \in TicketIds, ~(t > ticketRows)
        PROVE  SettledAgain(t, order)'
    BY <2>1, <2>4, <2>5, <2>6 DEF SettledAgain
  <2>7. /\ orderStatus \in [Orders -> {"none", "paid", "completed"}]
        /\ \A t \in TicketIds : t \in minted => ~(t > ticketRows)
    BY DEF IInv, TypeInv, TypeOK, NewIdsAreFresh
  <2>8. \A o \in Orders :
          \/ orderStatus'[o] = orderStatus[o]
          \/ o = order /\ order # None /\ orderStatus'[o] = "paid"
    BY <2>1, <2>7
  <2>9. order # None => orderStatus'[order] = "paid"
    BY <2>1, <2>7
  <2> QED
    BY <2>1, <2>3, <2>4, <2>6, <2>7, <2>8, <2>9
<1>2. CASE ~CreateStep
  <2>1. orderOf' = orderOf /\ ticketRows' = ticketRows /\ purchase' = purchase
    BY <1>2
    DEF Next, vars, WebhookStep, FindOrder, FailWebhook, RequestStep, AcceptRequest,
        ValidateTicket, DeleteTicket, CreateTransfer, FailRequest, AdminStep, UpdateTicket,
        AdminDeleteTicket, AdminCreateTransfer, CreateReply, Activate, CompleteOrder,
        FailToComplete, TicketReply, SetTicketError, IgnoreDeleteReply, TransferReply,
        CompleteTransfer, RejectTransferReply, SetTransferError, KafkaStep, Answer, Redeliver,
        FailHandler, ticketVars
  <2>2. orderStatus' = orderStatus \/ \E c \in Consumers : CompleteOrder(c)
    BY <1>2
    DEF Next, vars, WebhookStep, FindOrder, FailWebhook, RequestStep, AcceptRequest,
        ValidateTicket, DeleteTicket, CreateTransfer, FailRequest, AdminStep, UpdateTicket,
        AdminDeleteTicket, AdminCreateTransfer, CreateReply, Activate, FailToComplete,
        TicketReply, SetTicketError, IgnoreDeleteReply, TransferReply, CompleteTransfer,
        RejectTransferReply, SetTransferError, KafkaStep, Answer, Redeliver, FailHandler
  <2>3. ASSUME NEW o \in Orders, NEW c \in Consumers, CompleteOrder(c)
        PROVE  orderStatus'[o] = orderStatus[o]
               \/ (orderStatus[o] = "paid" /\ orderStatus'[o] = "completed")
    BY <2>3 DEF CompleteOrder
  <2>4. \A t \in TicketIds : t \in minted => ~(t > ticketRows)
    BY DEF IInv, NewIdsAreFresh
  <2> QED
    BY <2>1, <2>2, <2>3, <2>4
<1> QED
  BY <1>1, <1>2

\* What becomes of the ticket a consumer is at work on.
LEMMA ConsumerEffect ==
  ASSUME IInv, OrdersArePaid, [Next]_vars, NEW c \in Consumers, consumer[c] # None,
         consumer'[c] # consumer[c], NEW t, t = consumer[c]
  PROVE  \/ CreateReplyOf(t, TRUE) \in lost'
         \/ orderOf[t] # None => orderStatus'[orderOf[t]] = "completed"
<1>1. CompleteOrder(c) \/ FailToComplete(c)
  <2>1. \E d \in Consumers :
          \/ \E u \in TicketIds : Activate(d, u)
          \/ CompleteOrder(d)
          \/ FailToComplete(d)
    BY DEF Next, vars, WebhookStep, FindOrder, FailWebhook, CreateStep, CreateTicket, PayOrder,
           CreateTickets, RequestStep, AcceptRequest, ValidateTicket, DeleteTicket,
           CreateTransfer, FailRequest, AdminStep, UpdateTicket, AdminDeleteTicket,
           AdminCreateTransfer, CreateReply, TicketReply, SetTicketError, IgnoreDeleteReply,
           TransferReply, CompleteTransfer, RejectTransferReply, SetTransferError, KafkaStep,
           Answer, Redeliver, FailHandler
  <2>2. PICK d \in Consumers :
          \/ \E u \in TicketIds : Activate(d, u)
          \/ CompleteOrder(d)
          \/ FailToComplete(d)
    BY <2>1
  <2>3. d = c
    BY <2>2 DEF IInv, TypeInv, TypeOK, Activate, CompleteOrder, FailToComplete
  <2> QED
    BY <2>2, <2>3 DEF Activate
<1>2. CASE FailToComplete(c)
  BY <1>2 DEF FailToComplete, CreateReplyOf
<1>3. CASE CompleteOrder(c) /\ orderOf[t] # None
  <2>1. t \in TicketIds /\ orderOf[t] \in Orders
    BY <1>3 DEF IInv, TypeInv, TypeOK
  <2>2. orderStatus[orderOf[t]] \in {"paid", "completed"}
    BY <1>3, <2>1 DEF IInv, TypeInv, TypeOK, OrdersArePaid
  <2> QED
    BY <1>3, <2>1, <2>2 DEF CompleteOrder
<1> QED
  BY <1>1, <1>2, <1>3

\* A ticket is reported as minted to a consumer, which is then at work on it.
LEMMA MintEffect ==
  ASSUME IInv, [Next]_vars, NEW t \in minted', t \notin minted
  PROVE  \E c \in Consumers : consumer'[c] = t
<1>1. PICK c \in Consumers : Activate(c, t)
  BY DEF Next, vars, WebhookStep, FindOrder, FailWebhook, CreateStep, CreateTicket, PayOrder,
         CreateTickets, RequestStep, AcceptRequest, ValidateTicket, DeleteTicket, CreateTransfer,
         FailRequest, AdminStep, UpdateTicket, AdminDeleteTicket, AdminCreateTransfer,
         CreateReply, Activate, CompleteOrder, FailToComplete, TicketReply, SetTicketError,
         IgnoreDeleteReply, TransferReply, CompleteTransfer, RejectTransferReply,
         SetTransferError, KafkaStep, Answer, Redeliver, FailHandler, historyVars
<1> QED
  BY <1>1 DEF Activate, IInv, TypeInv, TypeOK

\* The safety that OrderOfMintedTicketIsCompleted rests on: once a ticket is
\* minted its order is completed, or a handler is about to complete it, or has
\* failed between its halves, or the order has been settled once more since (by
\* handleOrderPayment, which sets a completed order back to paid); the errors of
\* the order's other tickets are no reason.
THEOREM CompletionAccounted == Spec => []CompletionIsAccountedFor
<1>1. Init => OrdersArePaid /\ CompletionIsAccountedFor
  BY DEF Init, OrdersArePaid, CompletionIsAccountedFor
<1>2. IInv /\ OrdersArePaid /\ CompletionIsAccountedFor /\ [Next]_vars
        => OrdersArePaid' /\ CompletionIsAccountedFor'
  <2> SUFFICES ASSUME IInv, OrdersArePaid, CompletionIsAccountedFor, [Next]_vars
               PROVE  OrdersArePaid' /\ CompletionIsAccountedFor'
    OBVIOUS
  <2>1. IInv'
    BY Inductive
  <2>2. OrdersArePaid'
    <3> SUFFICES ASSUME NEW t \in TicketIds, orderOf'[t] # None
                 PROVE  ~(t > ticketRows') /\ orderStatus'[orderOf'[t]] # "none"
      BY DEF OrdersArePaid
    <3>1. orderOf'[t] \in Orders
      BY <2>1 DEF IInv, TypeInv, TypeOK
    <3> QED
      BY <3>1, OrderEffect DEF OrdersArePaid
  <2>3. ASSUME NEW t \in minted', orderOf'[t] # None
        PROVE  \/ orderStatus'[orderOf'[t]] = "completed"
               \/ \E c \in Consumers : consumer'[c] = t
               \/ CreateReplyOf(t, TRUE) \in lost'
               \/ SettledAgain(t, orderOf[t])'
    <3>1. t \in TicketIds /\ orderOf'[t] \in Orders /\ t # None
      BY <2>1, <2>3, NoneIsNoId DEF IInv, TypeInv, TypeOK
    <3>2. CASE t \notin minted
      BY <3>2, MintEffect
    <3>3. CASE t \in minted
      <4>1. orderOf'[t] = orderOf[t] /\ ~(t > ticketRows) /\ Histories
        BY <3>1, <3>3, OrderEffect, StepEffect DEF Effect
      <4>2. CASE orderStatus[orderOf[t]] = "completed"
        <5>1. \/ orderStatus'[orderOf[t]] = "completed"
              \/ SettledAgain(t, orderOf[t])'
          <6>1. PICK o \in Orders : o = orderOf[t]
            BY <3>1, <4>1
          <6>2. \/ orderStatus'[o] = "completed"
                \/ SettledAgain(t, o)'
            BY <3>1, <4>1, <4>2, <6>1, OrderEffect
          <6> QED
            BY <3>1, <4>1, <6>1, <6>2 DEF SettledAgain
        <5> QED
          BY <4>1, <5>1
      <4>3. CASE CreateReplyOf(t, TRUE) \in lost
        BY <4>1, <4>3 DEF Histories
      <4>4. ASSUME NEW c \in Consumers, consumer[c] = t
            PROVE  \/ orderStatus'[orderOf'[t]] = "completed"
                   \/ consumer'[c] = t
                   \/ CreateReplyOf(t, TRUE) \in lost'
        BY <2>3, <3>1, <4>1, <4>4, ConsumerEffect
      <4>5. CASE SettledAgain(t, orderOf[t])
        <5>1. PICK later \in TicketIds :
                later >= t + purchase[orderOf[t]].quantity /\ orderOf[later] = orderOf[t]
          BY <4>5 DEF SettledAgain
        <5>2. orderOf'[later] = orderOf[later] /\ purchase' = purchase
          BY <2>3, <4>1, <5>1, OrderEffect DEF OrdersArePaid
        <5> QED
          BY <4>1, <5>1, <5>2 DEF SettledAgain
      <4> QED
        BY <2>3, <3>3, <4>1, <4>2, <4>3, <4>4, <4>5 DEF CompletionIsAccountedFor
    <3> QED
      BY <3>2, <3>3
  <2> QED
    BY <2>2, <2>3 DEF CompletionIsAccountedFor, CreateReplyOf
<1> QED
  BY <1>1, <1>2, Invariant, PTL DEF Spec

-----------------------------------------------------------------------------
(* What the other models take for granted of a ticket.                      *)

\* Redeems has of the life of a ticket that it is admitted when it is active, is
\* activated or deleted whatever it is, or is set to anything by an administrator.
StatusChangesAsRedeemsHasThem ==
  [][\A t \in TicketIds :
       \/ status'[t] = status[t]
       \/ t > ticketRows /\ status'[t] = "creating"
       \/ status'[t] \in {"active", "deleted"}
       \/ status[t] = "active" /\ status'[t] = "validated"
       \/ \E dto \in UpdateTicketValidationDto : UpdateTicket(t, dto)]_vars

\* No request, reply or administrator does anything to a ticket that Redeems does
\* not reckon with, so that what is proved of the gate there holds of the tickets
\* here.
THEOREM StatusChangesFitRedeems == Spec => StatusChangesAsRedeemsHasThem
<1>1. IInv /\ [Next]_vars =>
        [\A t \in TicketIds :
           \/ status'[t] = status[t]
           \/ t > ticketRows /\ status'[t] = "creating"
           \/ status'[t] \in {"active", "deleted"}
           \/ status[t] = "active" /\ status'[t] = "validated"
           \/ \E dto \in UpdateTicketValidationDto : UpdateTicket(t, dto)]_vars
  BY StepEffect DEF Effect, Changes
<1> QED
  BY <1>1, Invariant, PTL DEF Spec, StatusChangesAsRedeemsHasThem
=============================================================================
