------------------------------- MODULE Catalog -------------------------------
(***************************************************************************)
(* The rows that a ticket refers to, and the requests that create them:    *)
(* users, events and ticket types, found or created with a ticket or by    *)
(* requests of their own, and the encryption keys of ticket providers.     *)
(*                                                                         *)
(* A request writes in a transaction, which holds a connection of the pool *)
(* until it ends, but looks for rows outside of it: on another connection, *)
(* and without seeing what is not committed.  What a transaction has       *)
(* written is kept in its request until it commits; until then it locks    *)
(* the keys it has inserted and the rows it has updated.                   *)
(***************************************************************************)
EXTENDS Naturals, FiniteSets

CONSTANTS
  Providers,   \* ticket providers
  Level2,      \* those of the security level 2, whose messages are encrypted; it stays
  Users,       \* values of user.uuid that the clients of the API choose
  Phones,      \* values of user.phone_number
  Events,      \* values of event.uuid
  TicketTypes, \* values of ticket_type.uuid
  Contents,    \* the data of an event
  Requests,    \* concurrent requests
  PoolSize,    \* connections of the pool
  MaxUsers,    \* most rows of each table
  MaxEvents,
  MaxTypes,
  MaxTickets,
  MaxRows,     \* and of the four tables together
  MaxVersion,  \* most versions of a provider's key
  None         \* no uuid of a client's, no phone, no provider, no content

ASSUME CatalogAssumption ==
  /\ Level2 \subseteq Providers
  /\ IsFiniteSet(Requests)
  /\ PoolSize \in Nat \ {0}
  /\ {MaxUsers, MaxEvents, MaxTypes, MaxTickets, MaxRows, MaxVersion} \subseteq Nat
  /\ None \notin Providers \cup Users \cup Phones \cup Events \cup TicketTypes \cup Contents
  /\ None \notin Requests

VARIABLES
  providers,   \* the ticket providers that have a row
  keys,        \* the encryption keys, by provider and version
  userRows, user,    \* the last id and the rows of the table user,
  eventRows, event,  \* of event,
  typeRows, type,    \* of ticket_type,
  ticketRows, ticket, \* and of ticket
  connections, \* how many connections of the pool are held by transactions
  request,     \* the requests
  keyless      \* history: providers whose creation failed before they had a key

userVars == <<userRows, user>>
eventVars == <<eventRows, event>>
typeVars == <<typeRows, type>>
ticketVars == <<ticketRows, ticket>>
keyVars == <<providers, keys, keyless>>
tableVars == <<userVars, eventVars, typeVars, ticketVars>>
vars == <<tableVars, keyVars, connections, request>>

UserIds == 1..MaxUsers
EventIds == 1..MaxEvents
TypeIds == 1..MaxTypes
TicketIds == 1..MaxTickets
Versions == 1..MaxVersion

ProviderTable == SUBSET Providers

\* A user.  A uuid that UserSubscriber generates is unlike any other: None.
UserRow == [uuid : Users \cup {None}, provider : Providers \cup {None}, phone : Phones \cup {None}]
UserTable == [UserIds -> UserRow]
NoUser == [uuid |-> None, provider |-> None, phone |-> None]

\* An event.  announced is the content of the last message about it; history,
\* the provider whose request has written it last.
EventRow == [uuid : Events \cup {None}, provider : Providers \cup {None},
             content : Contents \cup {None}, announced : Contents \cup {None},
             writer : Providers \cup {None}]
EventTable == [EventIds -> EventRow]
NoEvent == [uuid |-> None, provider |-> None, content |-> None, announced |-> None,
            writer |-> None]

\* A ticket type.  History: the provider whose request has created it.
TicketTypeRow == [uuid : TicketTypes \cup {None}, event : EventIds \cup {0},
                  maker : Providers \cup {None}]
TicketTypeTable == [TypeIds -> TicketTypeRow]
NoType == [uuid |-> None, event |-> 0, maker |-> None]

\* A secret key is named by the request that has generated it.
SecretKey == Requests \cup {None}
EncryptionKeyTable == [Providers -> [Versions -> SecretKey]]

\* A ticket, and the version of the key its message is encrypted with, 0 for
\* none.  History: that key.
TicketRow == [provider : Providers \cup {None}, user : UserIds \cup {0},
              event : EventIds \cup {0}, type : TypeIds \cup {0},
              version : Versions \cup {0}, secret : SecretKey]
TicketTable == [TicketIds -> TicketRow]
NoTicket == [provider |-> None, user |-> 0, event |-> 0, type |-> 0, version |-> 0,
             secret |-> None]

\* The bodies of the requests: what is not looked for is left out.
CreateTicketUserDto == [uuid : Users, phoneNumber : Phones]
CreateTicketEventDto == [uuid : Events]
CreateTicketTicketTypeDto == [uuid : TicketTypes]
CreateTicketDto == [user : CreateTicketUserDto, event : CreateTicketEventDto,
                    ticketType : CreateTicketTicketTypeDto]
CreateTicketValidationDto == [phoneNumber : Phones, eventId : EventIds, ticketTypeUuid : TicketTypes]
CreateUserDto == [phone : Phones]
CreateEventDto == [uuid : Events, content : Contents]
UpdateEventDto == [uuid : Events, content : Contents]
CreateTicketTypeDto == [uuid : TicketTypes, eventUuid : Events]

\* The administration's: a ticket type may come without a ticket provider.
CreateUserValidationDto == [ticketProviderId : Providers, phoneNumber : Phones]
AdminCreateTicketTypeDto == [uuid : TicketTypes, eventUuid : Events,
                             ticketProviderId : Providers \cup {None}]

\* A request: what it is to create or update, the ids of the rows it has found,
\* 0 for those it has not, and the tables it has inserted into.
Step == {"idle", "findUser", "insertUser", "insertPhone", "findEvent", "insertEvent", "findType",
         "findKey", "lockEvents", "commitTicket", "commitUser", "commitEvent", "commitUpdate",
         "commitType", "readKey", "insertKey"}
Request ==
  [step : Step, provider : Providers \cup {None},
   user : Users \cup {None}, phone : Phones \cup {None},
   event : Events \cup {None}, type : TicketTypes \cup {None},
   content : Contents \cup {None}, userId : UserIds \cup {0}, eventId : EventIds \cup {0},
   typeId : TypeIds \cup {0}, version : Versions \cup {0}, secret : SecretKey,
   inserted : SUBSET {"user", "event"}]
Idle ==
  [step |-> "idle", provider |-> None, user |-> None, phone |-> None, event |-> None,
   type |-> None, content |-> None, userId |-> 0, eventId |-> 0, typeId |-> 0, version |-> 0,
   secret |-> None, inserted |-> {}]

TypeOK ==
  /\ providers \in ProviderTable
  /\ keys \in EncryptionKeyTable
  /\ userRows \in 0..MaxUsers /\ user \in UserTable
  /\ eventRows \in 0..MaxEvents /\ event \in EventTable
  /\ typeRows \in 0..MaxTypes /\ type \in TicketTypeTable
  /\ ticketRows \in 0..MaxTickets /\ ticket \in TicketTable
  /\ connections \in 0..PoolSize
  /\ request \in [Requests -> Request]
  /\ keyless \subseteq Providers

Init ==
  /\ providers = {}
  /\ keys = [p \in Providers |-> [v \in Versions |-> None]]
  /\ userRows = 0 /\ user = [u \in UserIds |-> NoUser]
  /\ eventRows = 0 /\ event = [e \in EventIds |-> NoEvent]
  /\ typeRows = 0 /\ type = [y \in TypeIds |-> NoType]
  /\ ticketRows = 0 /\ ticket = [t \in TicketIds |-> NoTicket]
  /\ connections = 0
  /\ request = [w \in Requests |-> Idle]
  /\ keyless = {}

-----------------------------------------------------------------------------
(* The connections and the locks.                                           *)

Free == connections < PoolSize

InTransaction(w) == request[w].step \notin {"idle", "readKey", "insertKey"}

\* A statement outside of the transaction takes a connection for itself.
NeedsConnection(w) ==
  request[w].step \in {"findUser", "findEvent", "findType", "findKey", "readKey", "insertKey"}

Updating(v) == request[v].step = "commitUpdate"

\* The entry of a user in idx_user_uuid is made before the one in
\* idx_user_ticket_provider_phone_number, and locked while that one is waited for.
HoldsUuid(v) == request[v].step = "insertPhone" \/ "user" \in request[v].inserted

\* An insert waits for who has inserted one of its unique keys, or updates the
\* row that has it; an update waits for who has inserted, or updates, its row.
\* The uuid of an event is a key of all providers together.
WaitsFor(w, v) ==
  \/ /\ request[w].step = "insertUser"
     /\ HoldsUuid(v)
     /\ request[v].user = request[w].user
     /\ request[w].user # None
  \/ /\ request[w].step = "insertPhone"
     /\ "user" \in request[v].inserted
     /\ request[v].provider = request[w].provider
     /\ request[v].phone = request[w].phone
  \/ /\ request[w].step \in {"insertEvent", "lockEvents"}
     /\ "event" \in request[v].inserted \/ Updating(v)
     /\ request[v].event = request[w].event

Waiting(w) ==
  \/ NeedsConnection(w) /\ ~Free
  \/ \E v \in Requests : WaitsFor(w, v)

\* startTransaction on a connection of the pool, which the request keeps.
Open(w, r) ==
  /\ request[w] = Idle
  /\ Free
  /\ connections' = connections + 1
  /\ request' = [request EXCEPT ![w] = r]

Continue(w, r) ==
  /\ request' = [request EXCEPT ![w] = r]
  /\ UNCHANGED connections

Mutant_Close_Twice(w) ==
  /\ request' = [request EXCEPT ![w] = Idle]
  /\ connections' = connections - 2

\* commitTransaction or rollbackTransaction, and release.
Close(w) ==
  /\ request' = [request EXCEPT ![w] = Idle]
  /\ connections' = connections - 1

-----------------------------------------------------------------------------
(* Tickets.                                                                 *)

\* The ticket types with a uuid, of the events of a provider.
TypesWith(y, p) == {i \in 1..typeRows : type[i].uuid = y /\ event[type[i].event].provider = p}

\* TicketService.create of the libraries, for the API and the administration:
\* one transaction, up to CommitTicket.  (The tickets of an order are inserted
\* with its settlement, for an event and a user that are there.)
CreateTicket(w, p, u, n, e, y) ==
  /\ p \in providers
  /\ Open(w, [Idle EXCEPT !.step = "findUser", !.provider = p, !.user = u, !.phone = n,
                          !.event = e, !.type = y])
  /\ UNCHANGED <<tableVars, keyVars>>

\* An administrator names an event and a ticket type of the provider that are
\* there, and describes a user, who has no uuid yet.
AdminCreateTicket(w, p, dto) ==
  /\ TypesWith(dto.ticketTypeUuid, p) # {}
  /\ dto.eventId \in 1..eventRows
  /\ CreateTicket(w, p, None, dto.phoneNumber, event[dto.eventId].uuid, dto.ticketTypeUuid)

\* The condition on a uuid that is not defined is left out of the query.
UsersWith(u, p) ==
  {i \in 1..userRows : (u # None => user[i].uuid = u) /\ user[i].provider = p}

\* UserService.findOrCreate.
FindUser(w) ==
  /\ request[w].step = "findUser" /\ ~Waiting(w)
  /\ \/ \E i \in UsersWith(request[w].user, request[w].provider) :
          Continue(w, [request[w] EXCEPT !.step = "findEvent", !.userId = i])
     \/ /\ UsersWith(request[w].user, request[w].provider) = {}
        /\ Continue(w, [request[w] EXCEPT !.step = "insertUser"])
  /\ UNCHANGED <<tableVars, keyVars>>

\* A unique index of the user table: the uuid, whatever the provider.
UuidTaken(w) ==
  request[w].user # None /\ \E i \in 1..userRows : user[i].uuid = request[w].user

\* The other one: the provider and the phone number.
PhoneTaken(w) ==
  \E i \in 1..userRows :
    user[i].provider = request[w].provider /\ user[i].phone = request[w].phone

\* The insert goes through the indexes one after the other, and may have to wait
\* for each.  A duplicate key is an error, and the transaction is rolled back.
InsertUser(w) ==
  /\ request[w].step = "insertUser" /\ ~Waiting(w)
  /\ IF UuidTaken(w)
     THEN Close(w)
     ELSE Continue(w, [request[w] EXCEPT !.step = "insertPhone"])
  /\ UNCHANGED <<tableVars, keyVars>>

InsertPhone(w) ==
  /\ request[w].step = "insertPhone" /\ ~Waiting(w)
  /\ IF PhoneTaken(w)
     THEN Close(w)
     ELSE Continue(w, [request[w] EXCEPT
            !.step = IF request[w].type = None THEN "commitUser" ELSE "findEvent",
            !.inserted = {"user"}])
  /\ UNCHANGED <<tableVars, keyVars>>

Mutant_EventsWith_AnyProvider(e, p) == {i \in 1..eventRows : event[i].uuid = e}

EventsWith(e, p) == {i \in 1..eventRows : event[i].uuid = e /\ event[i].provider = p}

\* EventService.findOrCreate.
FindEvent(w) ==
  /\ request[w].step = "findEvent" /\ ~Waiting(w)
  /\ \/ \E i \in EventsWith(request[w].event, request[w].provider) :
          Continue(w, [request[w] EXCEPT !.step = "findType", !.eventId = i])
     \/ /\ EventsWith(request[w].event, request[w].provider) = {}
        /\ Continue(w, [request[w] EXCEPT !.step = "insertEvent"])
  /\ UNCHANGED <<tableVars, keyVars>>

Mutant_EventKeyTaken_ByProvider(w) ==
  EventsWith(request[w].event, request[w].provider) # {}

\* idx_event_uuid: the uuid of an event is unique among all providers, so that
\* the index of the uuid and the provider beside it never has to refuse a row.
EventKeyTaken(w) == \E i \in 1..eventRows : event[i].uuid = request[w].event

InsertEvent(w) ==
  /\ request[w].step = "insertEvent" /\ ~Waiting(w)
  /\ IF EventKeyTaken(w)
     THEN Close(w)
     ELSE Continue(w, [request[w] EXCEPT
            !.step = IF request[w].type = None THEN "commitEvent" ELSE "findType",
            !.inserted = @ \cup {"event"}])
  /\ UNCHANGED <<tableVars, keyVars>>

\* TicketTypeService.findOrCreate: the event it is to be found in is not asked
\* for, and the index of the uuid is not unique, so that the insert never waits.
FindTicketType(w) ==
  LET found == TypesWith(request[w].type, request[w].provider)
      next == IF request[w].provider \in Level2 THEN "findKey" ELSE "commitTicket" IN
  /\ request[w].step = "findType" /\ ~Waiting(w)
  /\ \/ \E i \in found : Continue(w, [request[w] EXCEPT !.step = next, !.typeId = i])
     \/ found = {} /\ Continue(w, [request[w] EXCEPT !.step = next])
  /\ UNCHANGED <<tableVars, keyVars>>

VersionsOf(p) == {v \in Versions : keys[p][v] # None}

\* The greatest version of a provider's key, 0 if it has none.
CurrentVersion(p) ==
  IF VersionsOf(p) = {} THEN 0 ELSE CHOOSE v \in VersionsOf(p) : \A i \in VersionsOf(p) : i <= v

\* TicketProviderEncryptionKeyService.encryptTicketUserData: no key is an error.
FindKey(w) ==
  LET p == request[w].provider  v == CurrentVersion(p) IN
  /\ request[w].step = "findKey" /\ ~Waiting(w)
  /\ IF v = 0
     THEN Close(w)
     ELSE Continue(w, [request[w] EXCEPT !.step = "commitTicket", !.version = v,
                                         !.secret = keys[p][v]])
  /\ UNCHANGED <<tableVars, keyVars>>

\* The rows a transaction adds.  An event that comes with a ticket has its
\* content in the message of the ticket, and no message of its own.
AddUser(w) ==
  IF "user" \in request[w].inserted
  THEN /\ userRows < MaxUsers
       /\ userRows' = userRows + 1
       /\ user' = [user EXCEPT ![userRows + 1] =
                     [uuid |-> request[w].user, provider |-> request[w].provider,
                      phone |-> request[w].phone]]
  ELSE UNCHANGED userVars

AddEvent(w) ==
  IF "event" \in request[w].inserted
  THEN /\ eventRows < MaxEvents
       /\ eventRows' = eventRows + 1
       /\ event' = [event EXCEPT ![eventRows + 1] =
                      [uuid |-> request[w].event, provider |-> request[w].provider,
                       content |-> request[w].content, announced |-> request[w].content,
                       writer |-> request[w].provider]]
  ELSE UNCHANGED eventVars

AddType(w, e) ==
  IF request[w].typeId = 0
  THEN /\ typeRows < MaxTypes
       /\ typeRows' = typeRows + 1
       /\ type' = [type EXCEPT ![typeRows + 1] =
                     [uuid |-> request[w].type, event |-> e, maker |-> request[w].provider]]
  ELSE UNCHANGED typeVars

\* The bound of the tables, which the code does not have.
Bounded == userRows' + eventRows' + typeRows' + ticketRows' <= MaxRows

\* The id a row has, or gets with the commit.
IdOf(found, rows) == IF found = 0 THEN rows + 1 ELSE found

\* The end of TicketService.create: the ticket, and the message ticket.create.
CommitTicket(w) ==
  LET e == IdOf(request[w].eventId, eventRows) IN
  /\ request[w].step = "commitTicket"
  /\ ticketRows < MaxTickets
  /\ AddUser(w) /\ AddEvent(w) /\ AddType(w, e)
  /\ ticketRows' = ticketRows + 1
  /\ ticket' = [ticket EXCEPT ![ticketRows + 1] =
       [provider |-> request[w].provider, user |-> IdOf(request[w].userId, userRows),
        event |-> e, type |-> IdOf(request[w].typeId, typeRows),
        version |-> request[w].version,
        secret |-> request[w].secret]]
  /\ Bounded
  /\ Close(w)
  /\ UNCHANGED keyVars

-----------------------------------------------------------------------------
(* Users, events and ticket types, by requests of their own.                *)

\* UserService.create of the API: the row, and the message user.create.  Its
\* validator looks for the phone number only if it identifies the provider's users.
CreateUser(w, p, dto) ==
  /\ p \in providers
  /\ Open(w, [Idle EXCEPT !.step = "insertUser", !.provider = p, !.phone = dto.phone])
  /\ UNCHANGED <<tableVars, keyVars>>

\* UserService.create of the administration: one statement, which is a
\* transaction of its own; nothing tells anyone of the user.
AdminCreateUser(w, dto) == CreateUser(w, dto.ticketProviderId, [phone |-> dto.phoneNumber])

CommitUser(w) ==
  /\ request[w].step = "commitUser"
  /\ AddUser(w)
  /\ Close(w)
  /\ UNCHANGED <<eventVars, typeVars, ticketVars, keyVars>>
  /\ Bounded

\* EventService.create of the API, behind EventDuplicateValidator.
CreateEvent(w, p, dto) ==
  /\ p \in providers
  /\ EventsWith(dto.uuid, p) = {}
  /\ Open(w, [Idle EXCEPT !.step = "insertEvent", !.provider = p, !.event = dto.uuid,
                          !.content = dto.content])
  /\ UNCHANGED <<tableVars, keyVars>>

CommitEvent(w) ==
  /\ request[w].step = "commitEvent"
  /\ AddEvent(w)
  /\ Close(w)
  /\ UNCHANGED <<userVars, typeVars, ticketVars, keyVars>>
  /\ Bounded

Mutant_UpdateEvent_AnyProvider(w, p, dto) ==
  /\ \E i \in 1..eventRows : event[i].uuid = dto.uuid
  /\ Open(w, [Idle EXCEPT !.step = "lockEvents", !.provider = p, !.event = dto.uuid,
                          !.content = dto.content])
  /\ UNCHANGED <<tableVars, keyVars>>

\* EventService.update of the API, behind EventExistsValidator.
UpdateEvent(w, p, dto) ==
  /\ EventsWith(dto.uuid, p) # {}
  /\ Open(w, [Idle EXCEPT !.step = "lockEvents", !.provider = p, !.event = dto.uuid,
                          !.content = dto.content])
  /\ UNCHANGED <<tableVars, keyVars>>

\* The statement that updates: it goes by the uuid alone.
LockEvents(w) ==
  /\ request[w].step = "lockEvents" /\ ~Waiting(w)
  /\ Continue(w, [request[w] EXCEPT !.step = "commitUpdate"])
  /\ UNCHANGED <<tableVars, keyVars>>

Mutant_CommitUpdate_StaleMessage(w) ==
  /\ request[w].step = "commitUpdate"
  /\ \E i \in 1..eventRows :
       /\ event[i].uuid = request[w].event
       /\ event' = [event EXCEPT ![i] =
                      [@ EXCEPT !.content = request[w].content, !.announced = event[i].content,
                                !.writer = request[w].provider]]
  /\ Close(w)
  /\ UNCHANGED <<eventRows, userVars, typeVars, ticketVars, keyVars>>

\* The row with the uuid, which is read again for the message event.update.
CommitUpdate(w) ==
  /\ request[w].step = "commitUpdate"
  /\ \E i \in 1..eventRows :
       /\ event[i].uuid = request[w].event
       /\ event' = [event EXCEPT ![i] =
                      [@ EXCEPT !.content = request[w].content, !.announced = request[w].content,
                                !.writer = request[w].provider]]
  /\ Close(w)
  /\ UNCHANGED <<eventRows, userVars, typeVars, ticketVars, keyVars>>

Mutant_CreateTicketType_Again(w, p, dto) ==
  /\ EventsWith(dto.eventUuid, p) # {}
  /\ \E i \in 1..eventRows :
       /\ event[i].uuid = dto.eventUuid
       /\ Open(w, [Idle EXCEPT !.step = "commitType", !.provider = p, !.type = dto.uuid,
                               !.eventId = i])
  /\ UNCHANGED <<tableVars, keyVars>>

\* TicketTypeService.create of the API, behind EventExistsValidator and
\* TicketTypeDuplicateValidator: they look at the provider's rows, the service
\* then takes the event that has the uuid.
CreateTicketType(w, p, dto) ==
  /\ EventsWith(dto.eventUuid, p) # {}
  /\ TypesWith(dto.uuid, p) = {}
  /\ \E i \in 1..eventRows :
       /\ event[i].uuid = dto.eventUuid
       /\ Open(w, [Idle EXCEPT !.step = "commitType", !.provider = p, !.type = dto.uuid,
                               !.eventId = i])
  /\ UNCHANGED <<tableVars, keyVars>>

\* TicketTypeService.create of the administration.  Without a provider the
\* validators look at the rows of all of them.
AdminCreateTicketType(w, dto) ==
  IF dto.ticketProviderId # None
  THEN CreateTicketType(w, dto.ticketProviderId, dto)
  ELSE /\ \A p \in Providers : TypesWith(dto.uuid, p) = {}
       /\ \E p \in Providers, i \in 1..eventRows :
            /\ event[i].uuid = dto.eventUuid /\ event[i].provider = p
            /\ Open(w, [Idle EXCEPT !.step = "commitType", !.provider = p, !.type = dto.uuid,
                                    !.eventId = i])
       /\ UNCHANGED <<tableVars, keyVars>>

CommitTicketType(w) ==
  /\ request[w].step = "commitType"
  /\ AddType(w, request[w].eventId)
  /\ Close(w)
  /\ UNCHANGED <<userVars, eventVars, ticketVars, keyVars>>
  /\ Bounded

-----------------------------------------------------------------------------
(* Ticket providers and their keys: statements outside of transactions.     *)

Mutant_CreateProvider_NoKey(w, p) ==
  /\ request[w] = Idle
  /\ p \notin providers
  /\ Free
  /\ providers' = providers \cup {p}
  /\ Continue(w, Idle)
  /\ UNCHANGED <<tableVars, keys, keyless>>

\* TicketProviderService.create of the administration: the row, and a key next.
CreateProvider(w, p) ==
  /\ request[w] = Idle
  /\ p \notin providers
  /\ Free
  /\ providers' = providers \cup {p}
  /\ Continue(w, [Idle EXCEPT !.step = "readKey", !.provider = p])
  /\ UNCHANGED <<tableVars, keys, keyless>>

\* TicketProviderEncryptionKeyService.create, for a provider that exists.
CreateKey(w, p) ==
  /\ request[w] = Idle
  /\ p \in providers
  /\ Continue(w, [Idle EXCEPT !.step = "readKey", !.provider = p])
  /\ UNCHANGED <<tableVars, keyVars>>

ReadVersion(w) ==
  /\ request[w].step = "readKey" /\ ~Waiting(w)
  /\ CurrentVersion(request[w].provider) < MaxVersion
  /\ Continue(w, [request[w] EXCEPT !.step = "insertKey",
                                    !.version = CurrentVersion(request[w].provider) + 1])
  /\ UNCHANGED <<tableVars, keyVars>>

Mutant_InsertKey_Replaces(w) ==
  LET p == request[w].provider  v == request[w].version IN
  /\ request[w].step = "insertKey" /\ ~Waiting(w)
  /\ keys' = [keys EXCEPT ![p][v] = w]
  /\ Continue(w, Idle)
  /\ UNCHANGED <<tableVars, providers, keyless>>

\* The unique index of the keys: the provider and the version.
InsertKey(w) ==
  LET p == request[w].provider  v == request[w].version IN
  /\ request[w].step = "insertKey" /\ ~Waiting(w)
  /\ keys' = IF keys[p][v] = None THEN [keys EXCEPT ![p][v] = w] ELSE keys
  /\ Continue(w, Idle)
  /\ UNCHANGED <<tableVars, providers, keyless>>

-----------------------------------------------------------------------------
(* What else happens.                                                       *)

Mutant_FailRequest_NotReleased(w) ==
  /\ request[w].step # "idle"
  /\ Continue(w, Idle)
  /\ UNCHANGED <<tableVars, keyVars>>

\* A statement fails, or the process stops: what is not committed is gone.
FailRequest(w) ==
  LET p == request[w].provider IN
  /\ request[w].step # "idle"
  /\ IF InTransaction(w) THEN Close(w) ELSE Continue(w, Idle)
  /\ keyless' = IF ~InTransaction(w) /\ VersionsOf(p) = {} THEN keyless \cup {p} ELSE keyless
  /\ UNCHANGED <<tableVars, providers, keys>>

-----------------------------------------------------------------------------
(* The requests of the providers' API and of the administration.            *)

TicketController(w) ==
  \E p \in Providers, dto \in CreateTicketDto :
    CreateTicket(w, p, dto.user.uuid, dto.user.phoneNumber, dto.event.uuid, dto.ticketType.uuid)

UserController(w) == \E p \in Providers, dto \in CreateUserDto : CreateUser(w, p, dto)

EventController(w) ==
  \E p \in Providers :
    \/ \E dto \in CreateEventDto : CreateEvent(w, p, dto)
    \/ \E dto \in UpdateEventDto : UpdateEvent(w, p, dto)

TicketTypeController(w) ==
  \E p \in Providers, dto \in CreateTicketTypeDto : CreateTicketType(w, p, dto)

AdminTicketController(w) ==
  \E p \in Providers, dto \in CreateTicketValidationDto : AdminCreateTicket(w, p, dto)

AdminUserController(w) == \E dto \in CreateUserValidationDto : AdminCreateUser(w, dto)

AdminTicketTypeController(w) ==
  \E dto \in AdminCreateTicketTypeDto : AdminCreateTicketType(w, dto)

TicketProviderController(w) == \E p \in Providers : CreateProvider(w, p)

EncryptionKeyController(w) == \E p \in Providers : CreateKey(w, p)

Next ==
  \E w \in Requests :
    \/ /\ request[w] = Idle
       /\ \/ TicketController(w) \/ UserController(w) \/ EventController(w)
          \/ TicketTypeController(w) \/ AdminTicketController(w)
          \/ AdminUserController(w) \/ AdminTicketTypeController(w)
          \/ TicketProviderController(w) \/ EncryptionKeyController(w)
    \/ FindUser(w) \/ InsertUser(w) \/ InsertPhone(w)
    \/ FindEvent(w) \/ InsertEvent(w) \/ FindTicketType(w) \/ FindKey(w) \/ LockEvents(w)
    \/ CommitTicket(w) \/ CommitUser(w) \/ CommitEvent(w)
    \/ CommitUpdate(w) \/ CommitTicketType(w)
    \/ ReadVersion(w) \/ InsertKey(w) \/ FailRequest(w)

Spec == Init /\ [][Next]_vars

-----------------------------------------------------------------------------
(* Properties                                                               *)

Active == {w \in Requests : request[w].step # "idle"}

\* Requests wait for connections and for each other's keys and rows.  No order
\* of theirs makes all of them wait, except that transactions, each of which
\* looks for a row on a second connection, can hold the whole pool.
StuckOnlyByThePool ==
  Active # {} /\ (\A w \in Active : Waiting(w))
    => Cardinality({w \in Requests : InTransaction(w)}) >= PoolSize

\* What TicketService.create makes a ticket refer to is committed and belongs to
\* the ticket's provider, although each row was looked for in a transaction of
\* its own, and created by whoever came first.
TicketRefersToItsProvider ==
  \A t \in 1..ticketRows :
    LET r == ticket[t] IN
    /\ r.user \in 1..userRows /\ user[r.user].provider = r.provider
    /\ r.event \in 1..eventRows /\ event[r.event].provider = r.provider
    /\ r.type \in 1..typeRows /\ event[type[r.type].event].provider = r.provider

\* Indexes refuse the second user of a uuid, or of a phone number with one
\* provider, and the second event of a uuid, whoever asks for it; none refuses a
\* second ticket type: a provider has at most as many of one uuid as there are
\* requests, those that are still to be inserted included.
RowsOfOneUuidBounded ==
  /\ \A i, j \in 1..userRows :
       \/ user[i].uuid = user[j].uuid /\ user[i].uuid # None
       \/ user[i].provider = user[j].provider /\ user[i].phone = user[j].phone
       => i = j
  /\ \A i, j \in 1..eventRows : event[i].uuid = event[j].uuid => i = j
  /\ \A y \in TicketTypes, p \in Providers :
       Cardinality(TypesWith(y, p))
       + Cardinality({w \in Requests : /\ request[w].step \in {"findKey", "commitTicket", "commitType"}
                                       /\ request[w].type = y
                                       /\ request[w].provider = p
                                       /\ request[w].typeId = 0})
       <= Cardinality(Requests)

\* An event is written, and ticket types are put into it, for its own provider
\* only, although just the validators ask for the provider: the statements after
\* them go by the uuid, and a ticket's event is looked for outside of its
\* transaction.  (An administrator who names no provider writes for the event's.)
OnlyItsProviderWrites ==
  /\ \A i \in 1..eventRows : event[i].writer = event[i].provider
  /\ \A i \in 1..typeRows : type[i].maker = event[type[i].event].provider

\* The last message about an event carries what its row holds, in whatever
\* order its updates are made.
AnnouncedEventIsCurrent ==
  \A i \in 1..eventRows : event[i].announced = event[i].content

\* The versions of a provider's keys have no gaps, and a key that a message has
\* been encrypted with is still there under its version, whoever creates keys
\* at the same time; the messages of TicketService.create, which are what the
\* keys are for, are encrypted for the providers of level 2 only.
KeysOfMessagesStay ==
  /\ \A p \in Providers, v \in Versions : keys[p][v] # None => \A i \in 1..v : keys[p][i] # None
  /\ \A t \in 1..ticketRows :
       LET r == ticket[t] IN
       IF r.provider \in Level2
       THEN r.version # 0 /\ r.secret # None /\ keys[r.provider][r.version] = r.secret
       ELSE r.version = 0

\* A provider is stored before its first key: without a key it is only while
\* the request that creates it goes on, or after it has failed in between.
KeylessProviderHasFailed ==
  \A p \in providers : VersionsOf(p) = {} =>
    \/ p \in keyless
    \/ \E w \in Requests : request[w].step \in {"readKey", "insertKey"} /\ request[w].provider = p

\* The registry of rows is that of Registry: whatever a request has looked for
\* outside of its transaction, and whoever has created rows since, its commit
\* does at once what it promises, with the rows as they are by then.
Promise == INSTANCE Registry WITH
  users   <- [i \in 1..userRows |-> user[i]],
  events  <- [i \in 1..eventRows |->
                [uuid |-> event[i].uuid, provider |-> event[i].provider,
                 content |-> event[i].content]],
  types   <- [i \in 1..typeRows |-> [uuid |-> type[i].uuid, event |-> type[i].event]],
  tickets <- [i \in 1..ticketRows |->
                [provider |-> ticket[i].provider, user |-> ticket[i].user,
                 event |-> ticket[i].event, type |-> ticket[i].type]]

ImplementsRegistry == Promise!Spec
=============================================================================
