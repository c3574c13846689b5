------------------------------ MODULE BoxOffice ------------------------------
(***************************************************************************)
(* What the primary sale promises to the providers and to their customers: *)
(* an order is placed at once, and only if what is on sale at that moment  *)
(* leaves room for it beside all that is kept for others; what an order    *)
(* paid in time holds is never given up; tickets are issued only for money *)
(* that has been received, and the book-keeping forgets neither.           *)
(*                                                                         *)
(* An order that is paid when nothing is kept for it any more is settled   *)
(* all the same: that is the one way to sell more than is on sale.         *)
(***************************************************************************)
EXTENDS Naturals, FiniteSets

CONSTANTS
  Orders,      \* ids of orders
  Sessions,    \* ids of checkout sessions
  TicketTypes, \* what is on sale
  Amounts,     \* the amounts a provider sets
  MaxQuantity  \* most tickets of one type in one order

VARIABLES
  amount,   \* how many tickets of each type are on sale
  placed,   \* the orders there are
  items,    \* how many tickets of each type an order is for
  keeping,  \* orders whose tickets are kept for them
  received, \* checkout sessions whose customer has paid
  settled,  \* orders whose tickets have been issued
  receipts  \* which session's money has settled which order

boxVars == <<amount, placed, items, keeping, received, settled, receipts>>

Items   == [TicketTypes -> 0..MaxQuantity]
NoItems == [t \in TicketTypes |-> 0]

Init ==
  /\ amount \in [TicketTypes -> Amounts]
  /\ placed = {}
  /\ items = [o \in Orders |-> NoItems]
  /\ keeping = {}
  /\ received = {}
  /\ settled = {}
  /\ receipts = {}

\* One element for each ticket of type t in the orders of S.
Tickets(t, S) == {k \in S \X (1..MaxQuantity) : k[2] <= items[k[1]][t]}

HasRoom(t, n) == Cardinality(Tickets(t, keeping)) + n <= amount[t]

Place(o, wanted) ==
  /\ o \notin placed
  /\ \A t \in TicketTypes : wanted[t] > 0 => HasRoom(t, wanted[t])
  /\ placed' = placed \cup {o}
  /\ items' = [items EXCEPT ![o] = wanted]
  /\ keeping' = keeping \cup {o}
  /\ UNCHANGED <<amount, received, settled, receipts>>

\* Whatever has been sold: the provider may lower the amount.
SetAmount(t, n) ==
  /\ amount' = [amount EXCEPT ![t] = n]
  /\ UNCHANGED <<placed, items, keeping, received, settled, receipts>>

\* Reservations end, with time or by a cancellation, but not those of settled orders.
Release(S) ==
  /\ S \subseteq keeping \ settled
  /\ keeping' = keeping \ S
  /\ UNCHANGED <<amount, placed, items, received, settled, receipts>>

Receive(s) ==
  /\ received' = received \cup {s}
  /\ UNCHANGED <<amount, placed, items, keeping, settled, receipts>>

Settle(o, s) ==
  /\ o \in placed
  /\ s \in received
  /\ settled' = settled \cup {o}
  /\ receipts' = receipts \cup {<<s, o>>}
  /\ UNCHANGED <<amount, placed, items, keeping, received>>

Next ==
  \/ \E o \in Orders, wanted \in Items \ {NoItems} : Place(o, wanted)
  \/ \E t \in TicketTypes, n \in Amounts : SetAmount(t, n)
  \/ \E S \in SUBSET Orders : Release(S)
  \/ \E s \in Sessions : Receive(s)
  \/ \E o \in Orders, s \in Sessions : Settle(o, s)

Spec == Init /\ [][Next]_boxVars
=============================================================================
