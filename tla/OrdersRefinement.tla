-------------------------- MODULE OrdersRefinement --------------------------
(***************************************************************************)
(* Proof that Orders implements BoxOffice, for every number of orders,     *)
(* sessions, ticket types and workers.                                     *)
(***************************************************************************)
EXTENDS OrdersProofs

USE DEF CreateOrderDto, CreatePaymentDto, UpdateTicketTypeDto, AdminUpdateTicketTypeDto,
        OrderStatus, OrderRow, OrderTable, OrderPrimaryRow, OrderPrimaryTable,
        OrderPaymentStatus, OrderPaymentRow, OrderPaymentTable,
        OrderController, PaymentController, TicketTypeController,
        AdminTicketTypeController, AdminUpdateTicketType

(***************************************************************************)
(* The invariant.  OversoldOnlyLate compares what is kept with the peak of *)
(* the amounts; an order is placed beside what is on sale at that moment,  *)
(* which a provider may have lowered below what has been sold before.  It  *)
(* is the row lock, from the count to the insert, that keeps the amount.   *)
(***************************************************************************)
CheckedFitsNow ==
  \A w \in SaleWorkers, t \in TicketTypes :
    sale[w].pc = "checked" /\ sale[w].items[t] > 0
      => Cardinality(Regular(t)) + sale[w].items[t] <= saleAmount[t]

\* A request past the lock asks for some ticket.
RequestsAsk == \A w \in SaleWorkers : sale[w].pc # "idle" => sale[w].items # NoItems

LateAreSettled == \A o \in late : Settled(o)

Room == ExclusiveLocks /\ CheckedFitsNow /\ RequestsAsk /\ LateAreSettled

\* UpdateTicketType waits for the lock, and nothing else writes the amount.
LEMMA LockedAmountStays ==
  ASSUME Typed, [Next]_vars, NEW v \in SaleWorkers, NEW t \in TicketTypes, HoldsLock(v, t)
  PROVE  saleAmount'[t] = saleAmount[t]
<1> USE DEF saleVars, orderVars, paymentVars, workerVars
<1>1. ASSUME NEW r \in TicketTypes, NEW dto \in UpdateTicketTypeDto, UpdateTicketType(r, dto)
      PROVE  saleAmount'[t] = saleAmount[t]
  <2>1. r # t
    BY <1>1 DEF UpdateTicketType, Free
  <2> QED
    BY <1>1, <2>1 DEF UpdateTicketType, Typed, TypeOK
<1>2. \/ saleAmount' = saleAmount
      \/ \E r \in TicketTypes, dto \in UpdateTicketTypeDto : UpdateTicketType(r, dto)
  BY DEF Next, vars, Tick, SaleStep, LockTicketTypes, CheckAmounts, InsertOrder, RollbackSale,
     PayStep, ValidatePayment, CreatePaywall, CreateOrderPayment, FailPayment, StripeStep,
     CustomerPays, SessionExpires, WebhookStep, LookUpOrder, SettleOrder, DeclineOrder,
     FailWebhook, CancelStep, FindOperation, SaveOperation, ClosePaywall, CancelClosedOrder,
     FailCancel, CompleteOrder
<1> QED
  BY <1>1, <1>2

\* The count includes the regular units.
LEMMA CheckedRequestFitsNow ==
  ASSUME Typed, NEW w \in SaleWorkers, CheckAmounts(w),
         NEW t \in TicketTypes, sale[w].items[t] > 0
  PROVE  Cardinality(Regular(t)) + sale[w].items[t] <= saleAmount[t]
<1>1. BoughtAndReservedCount(t) + sale[w].items[t] <= saleAmount[t]
  BY DEF CheckAmounts
<1>2. /\ IsFiniteSet(Units(t, {o \in Orders : Holds(o)}))
      /\ BoughtAndReservedCount(t) \in Nat
  BY UnitsFinite DEF BoughtAndReservedCount
<1>3. Regular(t) \subseteq Units(t, {o \in Orders : Holds(o)})
  BY DEF Regular, Units
<1>4. Cardinality(Regular(t)) <= BoughtAndReservedCount(t)
  BY <1>2, <1>3, FS_Subset DEF BoughtAndReservedCount
<1>5. Cardinality(Regular(t)) \in Nat
  BY RegularFinite
<1>6. sale[w].items[t] \in Nat /\ saleAmount[t] \in Nat
  BY OrdersAssumption DEF Typed, TypeOK, Items
<1> HIDE DEF BoughtAndReservedCount
<1> QED
  BY <1>1, <1>2, <1>4, <1>5, <1>6

LEMMA RoomInit == Init => Room
BY DEF Init, Room, ExclusiveLocks, HoldsLock, CheckedFitsNow, RequestsAsk, LateAreSettled

LEMMA RequestsAskNext ==
  ASSUME Typed, RequestsAsk, [Next]_vars
  PROVE  RequestsAsk'
<1> USE DEF saleVars, orderVars, paymentVars, workerVars
<1>1. ASSUME NEW w \in SaleWorkers, NEW items \in Items, LockTicketTypes(w, items)
      PROVE  RequestsAsk'
  BY <1>1 DEF LockTicketTypes, RequestsAsk, Typed, TypeOK
<1>2. ASSUME NEW w \in SaleWorkers, CheckAmounts(w)
      PROVE  RequestsAsk'
  BY <1>2 DEF CheckAmounts, RequestsAsk, Typed, TypeOK
<1>3. ASSUME NEW w \in SaleWorkers, sale' = [sale EXCEPT ![w] = [pc |-> "idle", items |-> NoItems]]
      PROVE  RequestsAsk'
  BY <1>3 DEF RequestsAsk, Typed, TypeOK
<1>4. ASSUME UNCHANGED sale
      PROVE  RequestsAsk'
  BY <1>4 DEF RequestsAsk
<1> QED
  BY <1>1, <1>2, <1>3, <1>4
     DEF Next, vars, Tick, SaleStep, InsertOrder, RollbackSale, UpdateTicketType, PayStep,
     ValidatePayment, CreatePaywall, CreateOrderPayment, FailPayment, StripeStep, CustomerPays,
     SessionExpires, WebhookStep, LookUpOrder, SettleOrder, DeclineOrder, FailWebhook,
     CancelStep, FindOperation, SaveOperation, ClosePaywall, CancelClosedOrder, FailCancel,
     CompleteOrder

LEMMA LateNext ==
  ASSUME Typed, LateAreSettled, [Next]_vars
  PROVE  LateAreSettled'
<1>1. ASSUME NEW w \in WebhookWorkers, SettleOrder(w)
      PROVE  LateAreSettled'
  <2>1. PICK s \in Sessions, o \in Orders : HandleOrderPayment(o, s)
    BY <1>1, SettleOrderEffect
  <2> QED
    BY <2>1 DEF HandleOrderPayment, LateAreSettled, Settled, Typed, TypeOK
<1>2. CASE ~ \E w \in WebhookWorkers : SettleOrder(w)
  <2>1. late' = late
    BY <1>2 DEF Next, vars, Tick, SaleStep, LockTicketTypes, CheckAmounts, InsertOrder,
       RollbackSale, UpdateTicketType, PayStep, ValidatePayment, CreatePaywall,
       CreateOrderPayment, FailPayment, StripeStep, CustomerPays, SessionExpires, WebhookStep,
       LookUpOrder, DeclineOrder, FailWebhook, CancelStep, FindOperation, SaveOperation,
       ClosePaywall, CancelClosedOrder, FailCancel, CompleteOrder,
       saleVars, orderVars, paymentVars, workerVars
  <2>2. \A o \in Orders : Settled(o)' <=> Settled(o)
    BY <1>2, SettledOnlyByWebhook DEF SettlementUnchanged
  <2> QED
    BY <2>1, <2>2 DEF LateAreSettled, Typed, TypeOK
<1> QED
  BY <1>1, <1>2

LEMMA RoomNext ==
  ASSUME Typed, Room, [Next]_vars
  PROVE  Room'
<1>1. ExclusiveLocks' /\ RequestsAsk' /\ LateAreSettled'
  BY LocksNext, RequestsAskNext, LateNext DEF Room
<1>2. \A t \in TicketTypes, v \in SaleWorkers : sale[v].items[t] \in Nat /\ saleAmount[t] \in Nat
  BY OrdersAssumption DEF Typed, TypeOK, Items
<1>3. CASE ~ \E w \in SaleWorkers, o \in Orders : InsertOrder(w, o)
  <2>1. ASSUME NEW v \in SaleWorkers, NEW t \in TicketTypes,
               sale'[v].pc = "checked", sale'[v].items[t] > 0
        PROVE  Cardinality(Regular(t)') + sale'[v].items[t] <= saleAmount'[t]
    <3>1. /\ sale'[v].items = sale[v].items
          /\ sale[v].pc = "checked" \/ CheckAmounts(v)
      BY <1>3, <2>1, CheckedBefore
    <3>2. Cardinality(Regular(t)) + sale[v].items[t] <= saleAmount[t]
      BY <2>1, <3>1, CheckedRequestFitsNow DEF Room, CheckedFitsNow
    <3>3. saleAmount'[t] = saleAmount[t]
      <4>1. HoldsLock(v, t)
        BY <2>1, <3>1 DEF HoldsLock, CheckAmounts
      <4> QED
        BY <4>1, LockedAmountStays
    <3>4. /\ Cardinality(Regular(t)') <= Cardinality(Regular(t))
          /\ Cardinality(Regular(t)) \in Nat /\ Cardinality(Regular(t)') \in Nat
      BY <1>3, OnlyInsertAddsUnits, RegularShrinks, RegularFinite
    <3> QED
      BY <1>2, <3>1, <3>2, <3>3, <3>4
  <2> QED
    BY <1>1, <2>1 DEF Room, CheckedFitsNow
<1>4. ASSUME NEW w \in SaleWorkers, NEW o \in Orders, InsertOrder(w, o)
      PROVE  Room'
  <2>1. /\ sale[w].pc = "checked"
        /\ sale'[w].pc = "idle"
        /\ \A v \in SaleWorkers : v # w => sale'[v] = sale[v]
        /\ saleAmount' = saleAmount
    BY <1>4 DEF InsertOrder, Typed, TypeOK
  <2>2. ASSUME NEW v \in SaleWorkers, NEW t \in TicketTypes,
               sale'[v].pc = "checked", sale'[v].items[t] > 0
        PROVE  Cardinality(Regular(t)') + sale'[v].items[t] <= saleAmount'[t]
    <3>1. v # w /\ sale'[v] = sale[v]
      BY <2>1, <2>2
    <3>2. sale[w].items[t] = 0
      <4>1. HoldsLock(v, t)
        BY <2>2, <3>1 DEF HoldsLock
      <4>2. ~HoldsLock(w, t)
        BY <3>1, <4>1 DEF Room, ExclusiveLocks
      <4> QED
        BY <1>2, <2>1, <4>2 DEF HoldsLock
    <3>3. Cardinality(Regular(t)) + sale[v].items[t] <= saleAmount[t]
      BY <2>2, <3>1 DEF Room, CheckedFitsNow
    <3>4. /\ Cardinality(Regular(t)') <= Cardinality(Regular(t)) + sale[w].items[t]
          /\ Cardinality(Regular(t)) \in Nat /\ Cardinality(Regular(t)') \in Nat
      BY <1>4, InsertAddsItsUnits, RegularFinite
    <3> QED
      BY <1>2, <2>1, <3>1, <3>2, <3>3, <3>4
  <2> QED
    BY <1>1, <2>2 DEF Room, CheckedFitsNow
<1> QED
  BY <1>3, <1>4

-----------------------------------------------------------------------------
(***************************************************************************)
(* The refinement: every step of the sale is a step of BoxOffice on the    *)
(* mapped variables, or leaves them as they are.                           *)
(***************************************************************************)
Placed == {o \in Orders : status[o] # "none"}
Kept == {o \in Orders : Holds(o)} \ late
Received == {s \in Sessions : stripe[s] = "complete"}
SettledOrders == {o \in Orders : Settled(o)}
Receipts == {r \in Sessions \X Orders : sessionOrder[r[1]] = r[2] /\ payment[r[1]] = "completed"}

\* What the steps of the sale other than payments leave alone.
BooksSame == Received' = Received /\ SettledOrders' = SettledOrders /\ Receipts' = Receipts

BoxSame ==
  /\ saleAmount' = saleAmount /\ quantity' = quantity
  /\ Placed' = Placed /\ Kept' = Kept
  /\ BooksSame

LEMMA BoxStutter == BoxSame => UNCHANGED Promise!boxVars
BY DEF BoxSame, BooksSame, Promise!boxVars, Placed, Kept, Received, SettledOrders, Receipts

LEMMA InsertRefines ==
  ASSUME Typed, Room, NEW w \in SaleWorkers, NEW o \in Orders, InsertOrder(w, o)
  PROVE  \E p \in Orders, wanted \in Promise!Items \ {Promise!NoItems} : Promise!Place(p, wanted)
<1>0. PICK wanted : wanted = sale[w].items
  OBVIOUS
<1>1. wanted \in Promise!Items \ {Promise!NoItems}
  BY <1>0 DEF Room, RequestsAsk, InsertOrder, Typed, TypeOK, Items, NoItems, Promise!Items,
     Promise!NoItems
<1>2. /\ o \notin Placed
      /\ Placed' = Placed \cup {o}
  BY DEF InsertOrder, Placed, Typed, TypeOK
<1>3. Kept' = Kept \cup {o}
  <2>1. o \notin late
    BY DEF InsertOrder, Room, LateAreSettled, Settled
  <2>2. Holds(o)' /\ late' = late
    BY OrdersAssumption DEF InsertOrder, Holds, Settled, Reserved, Typed, TypeOK
  <2>3. \A p \in Orders : p # o => (Holds(p)' <=> Holds(p))
    BY DEF InsertOrder, Holds, Settled, Reserved, Typed, TypeOK
  <2> QED
    BY <2>1, <2>2, <2>3 DEF Kept
<1>4. BooksSame
  BY DEF InsertOrder, paymentVars, BooksSame, Received, SettledOrders, Receipts, Settled, Typed, TypeOK
<1>5. ASSUME NEW t \in TicketTypes, wanted[t] > 0
      PROVE  Promise!HasRoom(t, wanted[t])
  <2>1. Cardinality(Regular(t)) + wanted[t] <= saleAmount[t]
    BY <1>0, <1>5 DEF Room, CheckedFitsNow, InsertOrder
  <2>2. Regular(t) = Promise!Tickets(t, Kept)
    BY DEF Promise!Tickets, Regular, Units, Kept
  <2>3. Promise!Cardinality(Regular(t)) = Cardinality(Regular(t))
    BY DEF Cardinality, Promise!Cardinality
  <2> QED
    BY <2>1, <2>2, <2>3, Zenon DEF Promise!HasRoom, Kept
<1>6. saleAmount' = saleAmount /\ quantity' = [quantity EXCEPT ![o] = wanted]
  BY <1>0 DEF InsertOrder
<1>7. Promise!Place(o, wanted)
  BY <1>2, <1>3, <1>4, <1>5, <1>6
     DEF Promise!Place, BooksSame, Placed, Kept, Received, SettledOrders, Receipts
<1> QED
  BY <1>1, <1>7

LEMMA SetAmountRefines ==
  ASSUME Typed, NEW t \in TicketTypes, NEW dto \in UpdateTicketTypeDto, UpdateTicketType(t, dto)
  PROVE  \E r \in TicketTypes, n \in Amounts : Promise!SetAmount(r, n)
<1>1. BooksSame /\ Placed' = Placed /\ Kept' = Kept /\ quantity' = quantity
  BY DEF UpdateTicketType, orderVars, paymentVars, BooksSame, Received, SettledOrders, Receipts,
     Placed, Kept, Holds, Settled, Reserved
<1>2. saleAmount' = [saleAmount EXCEPT ![t] = dto.saleAmount] /\ dto.saleAmount \in Amounts
  BY DEF UpdateTicketType
<1>3. Promise!SetAmount(t, dto.saleAmount)
  BY <1>1, <1>2 DEF Promise!SetAmount, BooksSame, Placed, Kept, Received, SettledOrders, Receipts
<1> QED
  BY <1>2, <1>3

\* Orders that no longer hold a reservation were not settled.
LEMMA ReleaseRefines ==
  ASSUME Kept' \subseteq Kept, \A o \in Orders : Settled(o) => (o \in Kept' <=> o \in Kept),
         BooksSame, Placed' = Placed, UNCHANGED <<saleAmount, quantity>>
  PROVE  \E S \in SUBSET Orders : Promise!Release(S)
<1>1. PICK S : S = Kept \ Kept'
  OBVIOUS
<1>2. S \in SUBSET Orders /\ S \subseteq Kept \ SettledOrders /\ Kept' = Kept \ S
  BY <1>1 DEF Kept, SettledOrders
<1>3. Promise!Release(S)
  BY <1>2, Zenon DEF Promise!Release, BooksSame, Placed, Kept, Received, SettledOrders, Receipts
<1> QED
  BY <1>2, <1>3

LEMMA TickRefines ==
  ASSUME Typed, Tick
  PROVE  \E S \in SUBSET Orders : Promise!Release(S)
<1>1. BooksSame /\ Placed' = Placed /\ UNCHANGED <<saleAmount, quantity>>
  BY DEF Tick, saleVars, orderVars, paymentVars, BooksSame, Received, SettledOrders, Receipts,
     Placed, Settled
<1>2. \A o \in Orders : Settled(o) => (o \in Kept' <=> o \in Kept)
  BY DEF Tick, orderVars, Kept, Holds, Settled
<1>3. Kept' \subseteq Kept
  BY DEF Tick, orderVars, Kept, Holds, Settled, Reserved, Typed, TypeOK
<1> QED
  BY <1>1, <1>2, <1>3, ReleaseRefines

LEMMA CancelOrderRefines ==
  ASSUME Typed, NEW o \in Orders, CancelOrder(o),
         UNCHANGED <<now, saleVars, reservedUntil, quantity, late, stripe, sessionOrder>>
  PROVE  \E S \in SUBSET Orders : Promise!Release(S)
<1>1. BooksSame
  BY DEF CancelOrder, BooksSame, Received, SettledOrders, Receipts, Settled, Typed, TypeOK
<1>2. Placed' = Placed
  BY DEF CancelOrder, Placed, Typed, TypeOK
<1>3. Kept' \subseteq Kept /\ \A p \in Orders : Settled(p) => (p \in Kept' <=> p \in Kept)
  BY DEF CancelOrder, Kept, Holds, Settled, Reserved, Typed, TypeOK
<1> QED
  BY <1>1, <1>2, <1>3, ReleaseRefines DEF saleVars

LEMMA PaysRefines ==
  ASSUME Typed, NEW s \in Sessions, CustomerPays(s)
  PROVE  Promise!Receive(s)
<1>1. Received' = Received \cup {s}
  BY DEF CustomerPays, Received, Typed, TypeOK
<1>2. /\ Placed' = Placed /\ Kept' = Kept /\ SettledOrders' = SettledOrders
      /\ Receipts' = Receipts /\ UNCHANGED <<saleAmount, quantity>>
  BY DEF CustomerPays, saleVars, orderVars, Placed, Kept, Holds, Settled, Reserved, SettledOrders,
     Receipts
<1> QED
  BY <1>1, <1>2 DEF Promise!Receive, Placed, Kept, Received, SettledOrders, Receipts

LEMMA SettleRefines ==
  ASSUME Typed, NEW w \in WebhookWorkers, SettleOrder(w)
  PROVE  \E o \in Orders, s \in Sessions : Promise!Settle(o, s)
<1>1. PICK s \in Sessions, o \in Orders :
         /\ webhook[w] = s /\ sessionOrder[s] = o /\ stripe[s] = "complete"
         /\ HandleOrderPayment(o, s)
         /\ UNCHANGED <<now, saleVars, reservedUntil, quantity, stripe, sessionOrder>>
  BY SettleOrderEffect
<1>2. status[o] # "none" /\ Placed' = Placed /\ o \in Placed
  BY <1>1 DEF HandleOrderPayment, Placed, Typed, TypeOK, References, SessionsHaveOrders
<1>3. Received' = Received /\ s \in Received
  BY <1>1 DEF Received
<1>4. SettledOrders' = SettledOrders \cup {o}
  BY <1>1 DEF HandleOrderPayment, SettledOrders, Settled, Typed, TypeOK
<1>5. Receipts' = Receipts \cup {<<s, o>>}
  <2>1. \A q \in Sessions : payment'[q] = IF q = s THEN "completed" ELSE payment[q]
    BY <1>1 DEF HandleOrderPayment, Typed, TypeOK
  <2> QED
    BY <1>1, <2>1 DEF Receipts
<1>6. Kept' = Kept
  <2>1. \A p \in Orders : p # o => (Holds(p)' <=> Holds(p)) /\ (p \in late' <=> p \in late)
    BY <1>1 DEF HandleOrderPayment, Holds, Settled, Reserved, Typed, TypeOK
  <2>2. Holds(o)' /\ (o \in late' <=> o \in late \/ ~Holds(o))
    BY <1>1 DEF HandleOrderPayment, Holds, Settled, Typed, TypeOK
  <2> QED
    BY <2>1, <2>2 DEF Kept
<1>7. UNCHANGED <<saleAmount, quantity>>
  BY <1>1 DEF saleVars
<1>8. Promise!Settle(o, s)
  BY <1>2, <1>3, <1>4, <1>5, <1>6, <1>7
     DEF Promise!Settle, Placed, Kept, Received, SettledOrders, Receipts
<1> QED
  BY <1>8

\* The steps that the promise does not see.
LEMMA PayStutters ==
  ASSUME Typed, PayStep
  PROVE  BoxSame
<1> USE DEF saleVars, orderVars, BoxSame, BooksSame, Placed, Kept, Holds, Settled, Reserved,
        SettledOrders
<1>1. ASSUME NEW w \in PayWorkers, NEW s \in Sessions, CreatePaywall(w, s)
      PROVE  BoxSame
  <2>1. payment[s] = "none"
    BY <1>1 DEF CreatePaywall, Typed, References, PaymentsHaveSessions
  <2>2. Received' = Received
    BY <1>1 DEF CreatePaywall, Received, Typed, TypeOK
  <2>3. Receipts' = Receipts
    BY <1>1, <2>1 DEF CreatePaywall, Receipts, Typed, TypeOK
  <2> QED
    BY <1>1, <2>2, <2>3 DEF CreatePaywall
<1>2. ASSUME NEW w \in PayWorkers, CreateOrderPayment(w)
      PROVE  BoxSame
  <2>1. payment[payRequest[w].session] = "none"
    BY <1>2 DEF CreateOrderPayment, Typed, References, OpenedSessionsAreFresh
  <2>2. Receipts' = Receipts
    BY <1>2, <2>1 DEF CreateOrderPayment, Receipts, Typed, TypeOK
  <2> QED
    BY <1>2, <2>2 DEF CreateOrderPayment, Received
<1>3. ASSUME NEW w \in PayWorkers, (\E o \in Orders : ValidatePayment(w, o)) \/ FailPayment(w)
      PROVE  BoxSame
  BY <1>3 DEF ValidatePayment, FailPayment, paymentVars, Received, Receipts
<1> QED
  BY <1>1, <1>2, <1>3 DEF PayStep

LEMMA CompleteStutters ==
  ASSUME Typed, NEW o \in Orders, CompleteOrder(o)
  PROVE  BoxSame
<1>1. \A p \in Orders : /\ Settled(p)' <=> Settled(p)
                        /\ Reserved(p)' <=> Reserved(p)
                        /\ status'[p] = "none" <=> status[p] = "none"
  BY DEF CompleteOrder, Settled, Reserved, Typed, TypeOK
<1> QED
  BY <1>1 DEF CompleteOrder, saleVars, paymentVars, BoxSame, BooksSame, Placed, Kept, Holds,
     Received, SettledOrders, Receipts

LEMMA UnchangedStutters ==
  ASSUME UNCHANGED <<now, saleAmount, orderVars, stripe, sessionOrder, payment>>
  PROVE  BoxSame
BY DEF orderVars, BoxSame, BooksSame, Placed, Kept, Holds, Settled, Reserved, Received,
   SettledOrders, Receipts

LEMMA ClosingStutters ==
  ASSUME Typed, NEW s \in Sessions, stripe[s] # "complete",
         stripe' = [stripe EXCEPT ![s] = "expired"],
         UNCHANGED <<now, saleAmount, orderVars, sessionOrder, payment>>
  PROVE  BoxSame
<1>1. Received' = Received
  BY DEF Received, Typed, TypeOK
<1> QED
  BY <1>1 DEF orderVars, BoxSame, BooksSame, Placed, Kept, Holds, Settled, Reserved,
   SettledOrders, Receipts

LEMMA NextRefines ==
  ASSUME Typed, Room, [Next]_vars
  PROVE  [Promise!Next]_(Promise!boxVars)
<1>1. ASSUME NEW w \in SaleWorkers, NEW o \in Orders, InsertOrder(w, o)
      PROVE  Promise!Next
  BY <1>1, InsertRefines DEF Promise!Next
<1>2. ASSUME NEW t \in TicketTypes, NEW dto \in UpdateTicketTypeDto, UpdateTicketType(t, dto)
      PROVE  Promise!Next
  BY <1>2, SetAmountRefines DEF Promise!Next
<1>3. CASE Tick
  BY <1>3, TickRefines DEF Promise!Next
<1>4. ASSUME NEW s \in Sessions, CustomerPays(s)
      PROVE  Promise!Next
  BY <1>4, PaysRefines DEF Promise!Next
<1>5. ASSUME NEW w \in WebhookWorkers, SettleOrder(w)
      PROVE  Promise!Next
  BY <1>5, SettleRefines DEF Promise!Next
<1>6. ASSUME NEW w \in WebhookWorkers, DeclineOrder(w)
      PROVE  Promise!Next
  <2>1. sessionOrder[webhook[w]] \in Orders
    BY <1>6, WorkersHaveOrders DEF DeclineOrder
  <2>2. \E S \in SUBSET Orders : Promise!Release(S)
    BY <1>6, <2>1, CancelOrderRefines DEF DeclineOrder
  <2> QED
    BY <2>2 DEF Promise!Next
<1>7. ASSUME NEW w \in CancelWorkers, CancelClosedOrder(w)
      PROVE  Promise!Next
  <2>1. sessionOrder[cancel[w].session] \in Orders
    BY <1>7, WorkersHaveOrders DEF CancelClosedOrder
  <2>2. \E S \in SUBSET Orders : Promise!Release(S)
    BY <1>7, <2>1, CancelOrderRefines DEF CancelClosedOrder
  <2> QED
    BY <2>2 DEF Promise!Next
<1>8. ASSUME NEW s \in Sessions, SessionExpires(s)
      PROVE  BoxSame
  BY <1>8, ClosingStutters DEF SessionExpires, saleVars
<1>9. ASSUME NEW w \in CancelWorkers, NEW s \in Sessions, ClosePaywall(w, s)
      PROVE  BoxSame
  <2>1. CASE stripe[s] = "open"
    BY <1>9, <2>1, ClosingStutters DEF ClosePaywall, saleVars
  <2>2. CASE stripe[s] # "open"
    <3>1. stripe' = stripe
      BY <1>9, <2>2 DEF ClosePaywall, Typed, TypeOK
    <3> QED
      BY <1>9, <3>1, UnchangedStutters DEF ClosePaywall, saleVars
  <2> QED
    BY <2>1, <2>2
<1>10. ASSUME UNCHANGED <<now, saleAmount, orderVars, stripe, sessionOrder, payment>>
       PROVE  BoxSame
  BY <1>10, UnchangedStutters
<1> QED
  BY <1>1, <1>2, <1>3, <1>4, <1>5, <1>6, <1>7, <1>8, <1>9, <1>10, BoxStutter, PayStutters,
     CompleteStutters
     DEF Next, vars, SaleStep, LockTicketTypes, CheckAmounts, RollbackSale, StripeStep,
     WebhookStep, LookUpOrder, FailWebhook, CancelStep, FindOperation, SaveOperation, FailCancel,
     saleVars, paymentVars

\* Whatever the requests, webhooks, messages and failures of the primary sale,
\* orders are placed, kept, released and settled as BoxOffice says.
THEOREM SaleIsABoxOffice == Spec => ImplementsBoxOffice
<1>1. Init => Promise!Init
  <2> SUFFICES ASSUME Init PROVE Promise!Init
    OBVIOUS
  <2>1. Placed = {} /\ Kept = {} /\ Received = {} /\ SettledOrders = {} /\ Receipts = {}
    BY DEF Init, Placed, Kept, Holds, Settled, Reserved, Received, SettledOrders, Receipts
  <2> QED
    BY <2>1 DEF Init, NoItems, Promise!Init, Promise!NoItems, Placed, Kept, Received,
       SettledOrders, Receipts
<1>2. Spec => [](Typed /\ Room)
  BY TypedInit, TypedNext, RoomInit, RoomNext, PTL DEF Spec
<1> QED
  BY <1>1, <1>2, NextRefines, PTL DEF Spec, ImplementsBoxOffice, Promise!Spec
=============================================================================
