# Verification of blix-wallet

blix-wallet sells event tickets, has their tokens minted, moved and burnt by a service behind
Kafka, and lets their holders in. This directory holds TLA+ models of its core, TLC
configurations that check them on small instances, and proofs, checked by TLAPS, of what matters
most for every instance. Paths below are relative to `src/`, the root of the repository; `PROJECT.json` maps
each definition to the lines it models, and lists the runs, the mutants, the hazards, the findings
and the theorems.

## 1. The system

Five NestJS applications share one MySQL database: the marketplace `apps/web`, the ticket providers'
`apps/api`, the administrators' `apps/admin`, the `apps/producer`, and the `apps/consumer`, which runs
the services of the others in its own process. Redis holds the QR hashes. Kafka
connects the producer and the consumer to the token service and the message service, and to each
other.

| Component | State | Operations | Interacts with | Hard behaviour | Correct when |
|---|---|---|---|---|---|
| Orders and payments (`apps/web/src/order`, `payment`) | `order`, `order_primary`, `order_primary_ticket`, `order_payment`; the Stripe session | create a sale, create a payment, webhook, cancel, complete | ticket types (row locks), tickets, outbox, inbox, Stripe | concurrent sales; validator and handler apart; webhooks repeated and out of order; lapsed reservations | not oversold; money, order and tickets agree; a settlement is final; an order with a payment is resolved |
| Ticket types (`libs/ticket-type`, `apps/*/src/ticket-type`) | `ticket_type` | lock for a sale, update, create, find or create | orders, tickets, events | an amount lowered during a sale; an index that is not unique | the count and the lock keep the amount; rows of one uuid bounded |
| Outbox (`libs/outbox`) | `outbox.status`, `send_after` | create in the caller's transaction, findAll, setAsSent | every writer; producer | none of its own | what commits is published, and only then marked |
| Producer (`apps/producer`) | the run in flight | read, send, mark, every second | outbox, Kafka | overlapping runs, partial batches, `process.exit` | implements the outbox's promise |
| Inbox (`libs/inbox`) | `inbox.operation_uuid` | startOperation | consumer | lookup and insert apart, no unique index | a message's work is done a bounded number of times |
| Consumer (`apps/consumer`) | the handlers in flight | one handler per topic | orders, tickets, transfers, users, messages, inbox | redelivery, death between two writes, repeated replies | what is published is handled or known lost |
| Tickets (`libs/ticket`, `apps/*/src/ticket`) | `ticket.status`, `user_id`, `error_data` | create, activate, setError, validate, delete, the administrators' update and delete | outbox, consumer, orders, QR hashes | two scans at once; a reply that comes again | a ticket admits once; it leaves its creation |
| Ticket transfers (`libs/ticket-transfer`, `apps/*/src/ticket-transfer`) | `ticket_transfer` | create, complete, setError | tickets, outbox, consumer | two in flight; late replies | completed only when reported; moves its own ticket |
| Redeem and QR codes (`apps/web/src/redeem`) | `redeem`, `redeem_ticket`; hashes and display keys in Redis, with a lifetime | create, verify, show, and the scan at the gate | tickets, messages, listings, Redis | validators read before the handler writes; a lock on rows that do not exist; two stores without a transaction | the hourly limit holds up to concurrency; a used code shows its QR codes; the gate admits by a verified redeem |
| Listings (`apps/web/src/listing`) | `listing` | create, cancel | tickets, redeems | validator and handler apart | a ticket that is being redeemed is not put on sale |
| Sessions (`apps/{web,api,admin}/src/auth`, refresh token modules) | `auth_code`, refresh tokens | send, verify, login, refresh, logout | users, messages | found and consumed in separate statements | a code or token is good for no more sessions than requests found it; a session keeps its owner |
| Messages (`apps/web/src/message`) | `message.status` | create, update, setError | outbox, consumer, redeem, sessions | replies out of order | a status does not go back |
| Users (`libs/user`, `apps/*/src/user`) | `user.uuid`, `phone_number`, `status`, `wallet_address` | findOrCreate, create, complete, setError | tickets, sessions, consumer | looked for outside of the transaction that creates | one row per uuid; one per phone and provider |
| Events, translations (`libs/event`, `apps/*/src/event`) | descriptive rows | create, update, findOrCreate | tickets, ticket types, outbox | as for users; updated by uuid alone | one row per uuid, its provider's alone; the last message carries the row |
| Encryption keys (`libs/ticket-provider-encryption-key`) | key versions | create, current version, encrypt | tickets, ticket providers | greatest version read and next one inserted apart | no key of a message is replaced |
| Ticket providers, API tokens (`libs/ticket-provider`, `apps/admin`) | rows | create with a first key, update | keys | row and key in two statements | a provider without a key has failed |
| Admin reads; configuration; deployment | | | | | |

The full list, with the parts left out and why, is `components` in `PROJECT.json`.

## 2. Modules

| Module | Models | State and actions |
|---|---|---|
| `Orders` | `OrderService`, `OrderRepository`, `PaymentService`, `StripeService`, the paywall handler of the consumer, Stripe (external) | One variable per column that matters. `createPrimarySale` is one transaction in three statements, `LockTicketTypes`, `CheckAmounts`, `InsertOrder`, because its row locks are held between them. Every other transaction is one action. What happens between two awaits of one request or handler is a worker's `pc`: `ValidatePayment`, `CreatePaywall`, `CreateOrderPayment`; `LookUpOrder`, `SettleOrder` or `DeclineOrder`; `FindOperation`, `SaveOperation`, `ClosePaywall`, `CancelClosedOrder`. `FailPayment`, `FailWebhook`, `FailCancel`, `RollbackSale` are the error paths. |
| `Delivery` | `OutboxService`, `ProducerService`, `ProducerTasks`, `InboxService`, Kafka (external), handlers that use the inbox | A run of the cron job is `FindDue`, `SendBatch`, `SetAsSent`; it may overlap with others. `SendFails` is a batch Kafka takes a part of, after which the process exits; `ProducerDies` any other end. A handler is `FetchCopy`, then `FindOperation`, `SaveOperation`, `DoWork`, or `SkipOperation`; `HandlerFails`, `ConsumerDies`, `Rebalance` are its failures. |
| `Relay` | nothing in the code: the promise of the outbox | store, come due, publish, mark. `Delivery` implements it by the mapping `Promise` (INSTANCE ... WITH). |
| `BoxOffice` | nothing in the code: the promise of the primary sale | place an order at once, if what is on sale leaves room for it beside what is kept for others; set the amount; release what is not settled; receive money; settle for money received. `Orders` implements it by its `Promise`: the three statements of `createPrimarySale` become one step, at the commit. |
| `Registry` | nothing in the code: the promise of the creation of tickets | a ticket with the user, event and type its request names, found or made, in one step; the creation of users, events and types; the update of an event. `Catalog` implements it by its `Promise`: a request takes effect when it commits. |
| `Tickets` | the three `TicketService`s, the two `TicketTransferService`s, the validators of their DTOs, four handlers of the consumer, the token service (external) | A request of the API is `AcceptRequest` (validators), then `ValidateTicket`, `DeleteTicket`, `CreateTransfer` or `FailRequest`; `UpdateTicket`, `AdminDeleteTicket` and `AdminCreateTransfer` are the administrators'. A webhook is `FindOrder`, then `PayOrder`, which asks nothing of the order, or `FailWebhook`. Replies are `Answer`ed, taken, and handled by `Activate` then `CompleteOrder`, `SetTicketError`, `IgnoreDeleteReply`, `CompleteTransfer`, `RejectTransferReply`, `SetTransferError`. |
| `Redeems` | `RedeemService`, `QrService`, `ListingService`, their validators, Redis, and the validator of the gate | `CountRedeems`, `AcceptCreate` (two reads of one validator), `CreateRedeem`; `AcceptVerify`, `UseRedeem` (MySQL), `GenerateDisplayToken` (Redis); `AcceptShow`, `ShowQrCodes`; `AcceptHash`, `Admit`; `AcceptListing`, `CreateListing`, `AcceptCancel`, `CancelListing`. `ChangeTicket` and `UpdateTicket` are what else sets the status of a ticket. `CodeExpires`, `HourPasses`, `KeyExpires` stand for time, `FailRequest` for an error or the end of the process between two steps. |
| `Sessions` | the `AuthService`s of the three applications, `UserRefreshTokenService` and its two siblings, the strategies and validators before them | `FindUser`, `CreateAuthCode`; `FindAuthCode`, `UseAuthCode`; `Login`; `AcceptRefresh`, `FindToken` or `RefuseRefresh`, `DeleteToken`; `CreateRefreshToken` for both a sign-in and a refresh; `Logout`. Nothing but `CreateAuthCode` is a transaction. |
| `Catalog` | `TicketService.create` of the libraries with the `findOrCreate` of users, events and ticket types and with the encryption of the user's data; the requests of the API and of the administration that create those rows, providers and keys; the pool of connections | A request opens a transaction (`CreateTicket`, `CreateUser`, `CreateEvent`, `UpdateEvent`, `CreateTicketType`), makes a step per statement (`FindUser`, `InsertUser`, `FindEvent`, `InsertEvent`, `FindTicketType`, `FindKey`, `LockEvents`), and ends in a `Commit...`. `CreateProvider`, `CreateKey`, `ReadVersion`, `InsertKey` are outside of transactions. `Waiting` is a request that has no connection, or waits for another's key or row. |
| `MCOrders`, `MCDelivery`, `MCTickets`, `MCRedeems`, `MCSessions`, `MCCatalog` | | symmetry sets, amounts, delays and the purchases of tickets for TLC |
| `OrdersProofs`, `DeliveryProofs`, `TicketsProofs`, `RedeemsProofs`, `SessionsProofs`, `CatalogProofs` | | the theorems |
| `OrdersRefinement`, `CatalogRefinement` | | the proofs that `Orders` implements `BoxOffice` and `Catalog` implements `Registry` |

How the models meet. The six share tables in the program and abstract each other here.
`Delivery` says what happens to any outbox message between its transaction and its handler; `Orders`
and `Tickets` use its outcome: a message whose operation is in the inbox is skipped, one that is
not guarded by the inbox (all replies about tickets) may be handled again, and a handler may be
lost. `Orders` counts the tickets that a settlement creates as one batch; `Tickets` has their rows.
Both let concurrent webhooks settle one order more than once: how often, and that it stays settled, is
the subject of `Orders`; what becomes of its status and of its tickets is that of `Tickets`, where an
order that is not paid yet is "none", created or canceled, and buys what a `Purchase` fixes from the
start. `Tickets` takes the user, the event and the ticket type of a ticket as given; how a
creation finds or makes them is `Catalog`. `Redeems` starts with the tickets of paid orders; of
their life it has every change of status that `Tickets` makes (`ChangeTicket`, `UpdateTicket`, `Admit`), which
`Tickets` is proved to keep to (`StatusChangesFitRedeems`). Users are created in two ways: by a provider
(`Catalog`, where one that a sign-in creates is like one of `CreateUser`, without a uuid of a
client's) and by a sign-in (`Sessions`, which leaves out the phone numbers that providers give to
the users they create).

Choices that a reader should know:

* An action is a transaction or the code between two awaits that touch state others can see. MySQL's
  default isolation is REPEATABLE READ; reads outside a transaction see the last commit, and rows
  updated by their primary key are locked to the end of the transaction.
* `CheckAmounts` counts by a locking read taken after the lock, so it sees every committed order.
* Uuids, names, prices, translations and dates other than `sale_*`, `reserved_until` and
  `send_after` are left out. A payment row has the id of its session; an outbox message that is
  written in the same transaction as a row is present with the row.
* The ids of tickets and transfers are numbers in `Tickets`, because `complete` compares them.
* `Orders` keeps a `peakAmount`, since a provider may lower the amount after tickets were sold.
* What a transaction of `Catalog` has written is kept in its request until it commits: rows others
  cannot see are no rows yet, but their keys and locks make others wait. A uuid the code generates
  (`UserSubscriber`) is unlike any other and is `None`.
* The migrations end with a unique index of `event.uuid`, and the index of the uuid and the provider that
  is added later stands beside it: an event's uuid is one for all providers. A user has two unique keys,
  the uuid and the phone number with the provider; an insert enters the first and then the second, and
  may wait at each. When the holder of a key rolls back, MySQL may let two inserts that waited for it
  fall into a deadlock, and ends it by failing one of them: `FailRequest`.
* A validator runs in the request before its handler and in no transaction. Each is an action of its
  own, and the handler acts on what it has seen, however long ago.
* Lifetimes (codes, tokens, keys of Redis, the hour of the redeem limit) are abstracted to whether they
  have ended; ending is an action. A code or a token is named by its row, since only its holder
  can name it.
* `Level2`, the providers whose messages are encrypted, is a constant: the update of a provider's
  columns is not modelled.
* Histories (`late`, `peakAmount`, `batches`, `sends`, `effects`, `lost`, `entries`, `minted`,
  `repeated`, `overridden`; `seen`, `shown`, `lost`, `admittedBy` in `Redeems`; `raced`, `ended` and the
  columns `parent`, `session`, `code` of a token in `Sessions`; `keyless`, `announced`, `writer`, `maker`,
  `secret` of a ticket in `Catalog`) are written and never read by an action of the program, except
  that `batches` stands for the ticket rows.

## 3. Runs

"States" are distinct states. Every property of a passing run has a mutant in `PROJECT.json`, a
plausible slip in the code under which the run finds the property violated.

| Run | Bounds | States | What it shows |
|---|---|---|---|
| `orders_inventory` | 3 orders of 1 or 2 tickets, 2 sales at a time, amounts 1 and 2, clock 0..4, reservation 1 | 107,967 | `OversoldOnlyByLatePayments`: the lock and the count keep what was paid in time within the greatest amount there has been. Without the lock (the mutant) two sales see the same count. `ImplementsBoxOffice`: the sale, three statements under a lock that an update of the amount waits for, is that of `BoxOffice`. |
| `orders_payment` | 1 order, 2 sessions, 2 payment and 2 webhook requests, 1 cancel handler | 60,891 | `MoneyOrderTicketsAgree`, `BatchesBoundedByConcurrency`, `SettlementIsFinal`, and `PendingOrderIsResolved` under `FairSpec`. Two sessions and two webhooks are what a race needs. |
| `delivery_safety` | 2 messages, 2 runs, 2 consumers, 1 failure, due now or later | 130,677 | `SendsBounded`, `EffectsBoundedByConcurrency`, and `Delivery` implements `Relay`. |
| `delivery_liveness` | 2 messages, batches of 1, 2 runs, 1 consumer, 1 failure | 95,823 | everything stored is published; everything published is handled or lost in a way the model names. |
| `tickets_lifecycle` | 1 ticket, 2 requests, 2 transfers, 2 users, 1 disturbance, no orders | 435,570 | `AdmittedOnce`, `CompletedTransferWasReported`, `ReopenedOnlyByItsReply`. One disturbance is enough to reopen a ticket, so the exceptions in `AdmittedOnce` and `ReopenedOnlyByItsReply` are reached; a deletion before the minting needs none. |
| `tickets_orders` | 2 tickets, 1 order of 1 or 2, 2 webhooks, 2 handlers of create replies, no transfers and no requests of the API, 1 disturbance | 29,126 | `CompletedOrderWasMinted`, `MintIsResolved`, `OrderOfMintedTicketIsCompleted`. An order of two tickets can be completed with one of them unminted; an order of one can be settled by both webhooks, and the second takes it from completed back to paid. |
| `redeems_gate` | 1 purchase of 2 tickets, 2 requests, a limit of 1 redeem an hour, 2 redeems, 1 listing, 1 disturbance | 1,831,999 | `RedeemsWithinLimit`: the limit is exceeded by at most one for each request beside the first; `CreateMissesOnlyNewRedeems`, `ListingMissesOnlyNewRedeems`: a validator is wrong only about what was created after it read; `AdmissionNeedsVerifiedRedeem`; `RedeemedIsShown`. A limit of 1 makes the second redeem the one too many. |
| `sessions_tokens` | 1 phone, 2 providers, 1 administrator, 2 devices, 2 requests, 2 users, codes and tokens, 1 disturbance | 1,202,620 | `SignInsBoundedByConcurrency`, `OneTokenPerSession`, `SessionKeepsItsOwner`, `UsersOfPhoneBounded`. Two of each is what a double use needs: both requests find the code, or the token, before either consumes it. |
| `catalog_creation` | 2 providers of level 2, 1 uuid of each kind and 1 phone number, 2 requests, 2 connections, 4 rows in all, 2 key versions | 1,098,000 | `StuckOnlyByThePool`, `TicketRefersToItsProvider`, `RowsOfOneUuidBounded`, `OnlyItsProviderWrites`, `AnnouncedEventIsCurrent`, `KeysOfMessagesStay`, `KeylessProviderHasFailed`, and `Catalog` implements `Registry`. The same uuids for both providers are the case in which they wait for each other and one of them is refused, and as many requests as connections the one in which the pool is exhausted. |
| `orders_paid_declined`, `orders_oversold`, `tickets_transfer` | 1 or 2 of each | | violated: see findings |

Production runs two instances of the marketplace, the API and the consumer, and one producer
(`terraform/production/modules/aws_ecs_*/main.tf`, `desired_count`), each of them handling many requests at a time:
the runs have two of whatever races. Deadlock is checked in every run of `Orders`, `Delivery` and
`Tickets`. `Redeems`, `Sessions` and `Catalog` are bounded by their rows, so a behaviour may end when a
request needs a row that the bound does not allow; their runs do not check deadlock, and whether the requests of `Catalog`
stop for another reason is the property `StuckOnlyByThePool`.

Bounds, none of which the code has: `MaxTime` stops the clock; `MaxFaults` and `MaxDisturbances` bound
failures, redeliveries, expiries and the administrators' changes; `MaxTickets`, `MaxTransfers`,
`MaxRedeems`, `MaxListings`, `MaxUsers`, `MaxCodes`, `MaxTokens`, `MaxEvents`, `MaxTypes`, `MaxVersion` bound the
rows of a table, and `MaxRows` those of four tables together. `MaxQuantity` is 25 in the DTO. Workers
and requests are unlimited over time: one that has ended begins again. The theorems below hold for
every value of these bounds.

### Findings

1. `tickets_transfer`: a completed transfer moves the ticket whose id is the transfer's
   (`apps/api/src/ticket-transfer/ticket-transfer.repository.ts:25`).
2. `orders_paid_declined`: the cancel message declines a session the customer has just completed
   (`apps/web/src/payment/payment-providers/stripe/stripe.service.ts:70`).
3. `orders_oversold`: the webhook settles an order whose reservation has lapsed and whose tickets
   have been sold again (`apps/web/src/order/order.service.ts:101`).

The passing properties say what is left despite these, and despite validators and handlers that are
apart: overselling happens only by late payments; tickets of an order are created at most once per
concurrent webhook, and a settlement stays one; a limit, a code, a token or a ticket type is
exceeded, used or created again at most once per request that had looked in time.

### Fairness

* `Orders`: Stripe expires every session in the end (`SessionExpires`, weak) and repeats an event
  until a request succeeds (`LookUpOrder`, `SettleOrder`/`DeclineOrder`, strong, since a request can fail
  in between). Nothing is assumed of customers, of the consumer, or of the clock.
* `Delivery`: the cron job begins again and again, also after a restart of the process, and no
  step lasts for ever (weak); the consumer takes every copy (weak).
* `Tickets`: the token service answers every request (weak), the consumer handles every reply
  (strong for `Activate`, which competes for the consumer) and goes on from `activate` to `completeOrder`
  (weak). Nothing is assumed of requests, webhooks and administrators. This is what Kafka's
  redelivery to a restarted consumer and the services' restart policies give.
* `Redeems`, `Sessions` and `Catalog` have safety properties only: what they do next is up to a client,
  and no part of the program takes up a request that has failed.

## 4. Proofs

All for arbitrary constants, from the ASSUMEs only (one in each module, named after it:
finite sets of orders, workers, requests, messages, runs and consumers where something is counted,
natural bounds, that `None` is no id, and in `Sessions` that ids of users are not names of providers).

| Module | Theorem | Argument |
|---|---|---|
| `OrdersProofs` | `TypeCorrect` | `Typed == TypeOK /\ References`: each id a row or a worker holds is that of an existing row; without it a step on a session with no order has no type. |
| | `SettlementAgreement`, `SettlementFinality` | `Typed`, and the lemma `SettledOnlyByWebhook`: only `SettleOrder` changes who is settled, and `cancelOrder` changes only rows with status created. |
| | `BatchesBounded` | Batches plus requests past the lookup of the order never exceed the number of webhook workers: a lookup passes only before the first batch. With one worker this is "once", so webhooks handled one at a time need no run of their own. |
| | `PaymentsBounded` | the same count for payments: rows plus requests past `OrderIsPayableValidator` never exceed the requests there can be. A run would need more sessions than requests to tell a missing validator, which is beyond TLC together with the liveness of `orders_payment`. |
| | `PaidIsCompletable` | the safety below `PendingOrderIsResolved`: a paid session has a payment row, a declined payment is of a closed order, a completed one of a settled order; so that of an open order is pending, and the webhook finds it. |
| | `OversoldOnlyLate` | `Inventory`: locks are exclusive; the amount never exceeds its peak; regular units fit the peak; and for a request past its check, its items still fit besides them, because no other request can insert an order for a type it has locked. For any number of types per order. |
| `OrdersRefinement` | `SaleIsABoxOffice` | `Room`: an order that is checked still fits at its commit, with the amount as it is then, because both other sales and updates of the amount wait for the lock; the order of a request for a payment exists; late orders are settled. Each step is a step of `BoxOffice` or a stutter. |
| `DeliveryProofs` | `TypeCorrect`, `KeepsThePromise` | `Typed` with: a run holds only rows that are due, and one past its sending holds only messages Kafka has accepted. Each step is a step of `Relay` or a stutter. |
| | `SendsAreBounded`, `EffectsBounded` | counting: sends plus the runs that may still send the row; effects plus the handlers past the lookup. |
| | `PublishedAccounted` | the safety below `EveryMessageIsHandled`: a published message has a copy in the topic, a handler at work, its effect, or is in `lost`. Inductive with `SavedIsAccountedFor`: for a saved operation a handler past `startOperation` answers, so that dropping a further copy loses nothing. |
| `TicketsProofs` | `TypeCorrect`, `TicketAdmitsOnce` | `IInv`: nothing has happened to an id that is still to be given (`NewIdsAreFresh`); a token is asked for once (`AskedOnce`); and until its first reply is handled a ticket is not active and has let nobody in (`Admission`). `AdmittedOnce` alone is not inductive: `Activate` would open a validated ticket. |
| | `CompletionNeedsMinting`, `CompletionNeedsReport` | a handler between its halves holds a minted ticket; replies are never forgotten, only moved between topic and taken. |
| | `ReopeningHasAReason` | `Opened`: a ticket is open only if it is minted or an administrator has set it, and a minted ticket's reply comes only again. The lemma `StepEffect` lists what any step does to one ticket and to what is outstanding about it. |
| | `CreationAccounted`, `CompletionAccounted` | the safety below `MintIsResolved` and `OrderOfMintedTicketIsCompleted`: the request for a token, its reply, or the handler between its halves is there until the ticket has left its creation and the order is completed, or it is in `lost`, or the order has been settled again (`OrderEffect`: a step that takes an order back to paid makes tickets of that order behind all there are). |
| | `StatusChangesFitRedeems` | from `StepEffect`: every change of a status is one that `Redeems` has. |
| `RedeemsProofs` | `TypeCorrect` | `TypeInv` adds that a request at some step holds an id of the right table, of a row that is there. |
| | `LimitOfRedeems` | counting: redeems of the hour plus the requests past the count never exceed the limit less one plus all requests; a request passes only when the redeems alone are below the limit. |
| | `CreateMisses`, `ListingMisses` | inductive with the fact that no row is above `redeemRows`: an active redeem appears only by `CreateRedeem`, with an id above what anyone has seen. |
| | `AdmissionIsVerified`, `UsedIsShown` | a display key belongs to a used redeem, so do a hash and a request at the gate; a redeem is used by the request that goes on to Redis, or is in `lost`. |
| `SessionsProofs` | `TypeCorrect`, `OwnerOfSession` | rows and requests refer to rows that are there; account and device are copied from the old token to the new one. |
| | `SignInsOfOneCode`, `UsersOfPhone` | the counting lemma `BoundStep`: rows plus requests on their way to one stay within the requests, since a request joins only while there is no row. |
| | `TokenOfSession` | a session outside of `raced` has one live token or one exchange, and an exchange is of a deleted token; a second holder puts the session into `raced`. |
| `CatalogProofs` | `TypeCorrect` | with `OpenConnections`, the count of connections held, so that a release never goes below 0. |
| | `WaitsEnd` | Only inserts into `user`, inserts into `event` and `LockEvents` wait for others; whoever has inserted or updated an event waits for no other request, whoever has inserted a user waits only for an event, and whoever has entered the uuid of a user waits only for one who has entered the phone number too: no cycle. With a free connection one of the active requests goes on. |
| | `TicketsRefer` | `RequestsAreWhole`: what a request has found is a row of its provider, and stays one because rows are only added (`Grows`). |
| | `RowsBounded`, `WritesAreOwn`, `AnnouncementsCurrent`, `KeysStay`, `KeylessHasFailed` | `CatalogInv`: keys that are pending are those of one request (`PendingUsers`, `PendingEvents`); a request on its way to a type has been counted (`TypesBounded`); a request that goes by the uuid of an event was let in by a validator that saw an event of its provider with it, and there is no other (`UniqueEvents`, `OwnEvent`), so that writers and makers are the provider (`OwnWriters`, `OwnMakers`); versions have no gaps (`NoGaps`). |
| `CatalogRefinement` | `CreationIsARegistry` | `RequestsAreTrue`: what a request has found is what it was told to look for, and stays so, and a request does what it came for. At the commit the rows it has written become the tables' in one step; keys and locks held until then keep another request from entering the same user or event. |

The theorems called accounts (`...Accounted`, `PaidIsCompletable`) say for every instance that nothing
the liveness properties wait for can be mislaid. They, `PaymentsBounded` and `StatusChangesFitRedeems` state no
property of a run; TLC has checked each of them on instances like those above.

Only model-checked: all liveness (`PendingOrderIsResolved`, `EveryMessageIsPublished`,
`EveryMessageIsHandled`, `MintIsResolved`, `OrderOfMintedTicketIsCompleted`), because fairness is out of
the prover's reach, and the three violations. Every safety property of a passing run is proved. Each
property was checked by TLC on a small instance before it was proved.

## 5. Plan

Done: (1) the primary sale, `Orders`; (2) outbox, producer, inbox, `Relay` and `Delivery`;
(3) `Tickets`; (4) `Redeems`, with the listings; (5) `Sessions`; (6) `Catalog`; the proofs of their
safety, and of the abstract sale and registry.

Left, in this order:

7. The status of a message and of a user under replies that repeat or come out of order.
8. The pure algorithms, as functions: `getTicketsInformation`, the mapping of translations, the
   pagination filters; compared with a reference definition over bounded inputs.
9. Composition: `Orders` and `Tickets` as implementations of one abstract life of an order
   (created, paid, completed, canceled), and the instance of `Delivery` under the cancel message of
   `Orders`.
10. Abstract specifications of the gate and of sessions, for `Redeems` and `Sessions` to implement.

### Not modelled

* Reads: the administrators' orders, the lists and their pagination. They change nothing.
* Configuration, the environment validator, the list of currencies, exception filters, the
  infrastructure: no state that two steps of the program could disagree about. Cryptography belongs to libraries.
* The migrations as a sequence; the tables and indexes they end in are the types and the guards.
* The administration's `createOrInsert` and `findByIdAndUpdate` of events and its `findOrCreate` of ticket
  types: they use columns the entities no longer have and cannot run. Its `retryMinting` changes nothing.
* The `status` and `wallet_address` of users, their update by administrators, and the `status` column
  of messages: step 7 above.
* The update of a ticket provider's columns, and the rows of API tokens: single statements of
  administrators.
* The wording of translations, prices, names, markets and dates that no condition reads.
