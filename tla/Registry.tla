------------------------------ MODULE Registry ------------------------------
(***************************************************************************)
(* What the creation of tickets promises to a ticket provider: each        *)
(* request takes effect at once.  A ticket refers to the user, the event   *)
(* and the ticket type that its request names; whichever of them the       *)
(* provider does not have yet is created with it.  No two users have one   *)
(* uuid, nor one phone number with the same provider, and no two events    *)
(* one uuid, whoever their providers are.  Ticket types have no such       *)
(* promise: one that is there may be created once more.                    *)
(***************************************************************************)

CONSTANTS
  Providers, Users, Phones, Events, TicketTypes, Contents, \* what a request names
  UserIds, EventIds, TypeIds, TicketIds,                   \* the ids of rows
  None                                                     \* no uuid, no content

VARIABLES
  users,   \* the rows of each table, by id
  events,
  types,
  tickets

registryVars == <<users, events, types, tickets>>

Empty == [i \in {} |-> None]

Init == users = Empty /\ events = Empty /\ types = Empty /\ tickets = Empty

Insert(table, id, row) ==
  [i \in DOMAIN table \cup {id} |-> IF i = id THEN row ELSE table[i]]

-----------------------------------------------------------------------------
\* The user's uuid is unique among all providers, the phone number n with its
\* own; a request without a uuid is given any user of its provider, or a new one.
FindUser(p, u, i) ==
  /\ i \in DOMAIN users
  /\ users[i].provider = p
  /\ u # None => users[i].uuid = u
  /\ users' = users

NewUser(p, u, n, i) ==
  /\ i \in UserIds \ DOMAIN users
  /\ u # None => \A j \in DOMAIN users : users[j].uuid # u
  /\ \A j \in DOMAIN users : users[j].provider = p => users[j].phone # n
  /\ users' = Insert(users, i, [uuid |-> u, provider |-> p, phone |-> n])

\* An event is its provider's alone, and no other provider has one of its uuid.
Has(p, e, i) == i \in DOMAIN events /\ events[i].uuid = e /\ events[i].provider = p

FindEvent(p, e, i) == Has(p, e, i) /\ events' = events

NewEvent(p, e, c, i) ==
  /\ i \in EventIds \ DOMAIN events
  /\ \A j \in DOMAIN events : events[j].uuid # e
  /\ events' = Insert(events, i, [uuid |-> e, provider |-> p, content |-> c])

FindType(p, y, i) ==
  /\ i \in DOMAIN types
  /\ types[i].uuid = y
  /\ events[types[i].event].provider = p
  /\ types' = types

NewType(y, e, i) ==
  /\ i \in TypeIds \ DOMAIN types
  /\ types' = Insert(types, i, [uuid |-> y, event |-> e])

-----------------------------------------------------------------------------
\* A ticket in event e, with what it needs.
CreateTicket(p, u, n, e, y) ==
  \E ui \in UserIds, ei \in EventIds, yi \in TypeIds, i \in TicketIds \ DOMAIN tickets :
    /\ FindUser(p, u, ui) \/ NewUser(p, u, n, ui)
    /\ FindEvent(p, e, ei) \/ NewEvent(p, e, None, ei)
    /\ FindType(p, y, yi) \/ NewType(y, ei, yi)
    /\ tickets' = Insert(tickets, i, [provider |-> p, user |-> ui, event |-> ei, type |-> yi])

CreateUser(p, n, i) == NewUser(p, None, n, i) /\ UNCHANGED <<events, types, tickets>>

CreateEvent(p, e, c, i) == NewEvent(p, e, c, i) /\ UNCHANGED <<users, types, tickets>>

\* A provider changes its event.
UpdateEvent(p, e, c) ==
  /\ \E i \in DOMAIN events : Has(p, e, i) /\ events' = [events EXCEPT ![i].content = c]
  /\ UNCHANGED <<users, types, tickets>>

\* A provider adds a ticket type to its event.
CreateType(p, y, e, i) ==
  /\ e \in DOMAIN events /\ events[e].provider = p
  /\ NewType(y, e, i)
  /\ UNCHANGED <<users, events, tickets>>

\* A step changes something: to ask for what there is already is no step.
Next ==
  /\ registryVars' # registryVars
  /\ \E p \in Providers :
       \/ \E u \in Users \cup {None}, n \in Phones, e \in Events, y \in TicketTypes :
            CreateTicket(p, u, n, e, y)
       \/ \E n \in Phones, i \in UserIds : CreateUser(p, n, i)
       \/ \E e \in Events, c \in Contents, i \in EventIds : CreateEvent(p, e, c, i)
       \/ \E e \in Events, c \in Contents : UpdateEvent(p, e, c)
       \/ \E y \in TicketTypes, e \in EventIds, i \in TypeIds : CreateType(p, y, e, i)

Spec == Init /\ [][Next]_registryVars
=============================================================================
