---------------------------- MODULE CatalogProofs -----------------------------
(***************************************************************************)
(* Proofs about Catalog: the type invariant, what the rows of a ticket     *)
(* belong to, how often a row is created, whose request writes an event,   *)
(* and when requests can wait for each other for ever.                     *)
(***************************************************************************)
EXTENDS Catalog, FiniteSetTheorems, WellFoundedInduction, TLAPS

\* Names of types and of controllers, always expanded.
USE DEF UserIds, EventIds, TypeIds, TicketIds, Versions, ProviderTable, UserTable, EventTable,
        TicketTypeTable, EncryptionKeyTable, TicketTable, SecretKey

-----------------------------------------------------------------------------
(* The requests as they come in, whichever controller they come to.         *)

OpensTicket(w, p, u, n, e, y) ==
  /\ p \in providers
  /\ Open(w, [Idle EXCEPT !.step = "findUser", !.provider = p, !.user = u, !.phone = n,
                          !.event = e, !.type = y])
  /\ UNCHANGED <<tableVars, keyVars>>

OpensType(w, p, y, i) ==
  /\ TypesWith(y, p) = {}
  /\ EventsWith(event[i].uuid, p) # {}
  /\ Open(w, [Idle EXCEPT !.step = "commitType", !.provider = p, !.type = y, !.eventId = i])
  /\ UNCHANGED <<tableVars, keyVars>>

Arrives(w) ==
  \E p \in Providers :
    \/ \E u \in Users \cup {None}, n \in Phones, e \in Events, y \in TicketTypes :
         OpensTicket(w, p, u, n, e, y)
    \/ \E dto \in CreateUserDto : CreateUser(w, p, dto)
    \/ \E dto \in CreateEventDto : CreateEvent(w, p, dto)
    \/ \E dto \in UpdateEventDto : UpdateEvent(w, p, dto)
    \/ \E y \in TicketTypes, i \in 1..eventRows : OpensType(w, p, y, i)

Searches(w) ==
  FindUser(w) \/ InsertUser(w) \/ InsertPhone(w) \/ FindEvent(w) \/ InsertEvent(w)
    \/ FindTicketType(w) \/ FindKey(w) \/ LockEvents(w)

Commits(w) ==
  CommitTicket(w) \/ CommitUser(w) \/ CommitEvent(w) \/ CommitUpdate(w) \/ CommitTicketType(w)

HandlesKeys(w) ==
  \/ \E p \in Providers : CreateProvider(w, p) \/ CreateKey(w, p)
  \/ ReadVersion(w) \/ InsertKey(w)

RequestStep(w) == Arrives(w) \/ Searches(w) \/ Commits(w) \/ HandlesKeys(w) \/ FailRequest(w)

-----------------------------------------------------------------------------
(* The invariant.                                                           *)

\* Every transaction holds one connection.
OpenConnections == connections = Cardinality({w \in Requests : InTransaction(w)})

\* The rows that have been created are filled in.
UsersAreWhole == \A i \in 1..userRows : user[i].provider \in Providers
EventsAreWhole == \A i \in 1..eventRows : event[i].uuid \in Events /\ event[i].provider \in Providers
TypesAreWhole == \A i \in 1..typeRows : type[i].event \in 1..eventRows
RowsAreWhole == UsersAreWhole /\ EventsAreWhole /\ TypesAreWhole

\* What a request has found, or inserted, is its provider's.
HasUser(q) ==
  IF q.userId = 0 THEN "user" \in q.inserted
  ELSE q.userId \in 1..userRows /\ user[q.userId].provider = q.provider /\ "user" \notin q.inserted

HasEvent(q) ==
  IF q.eventId = 0 THEN "event" \in q.inserted
  ELSE /\ q.eventId \in 1..eventRows
       /\ event[q.eventId].provider = q.provider
       /\ "event" \notin q.inserted

HasType(q) ==
  q.typeId # 0 => /\ q.typeId \in 1..typeRows
                  /\ event[type[q.typeId].event].provider = q.provider

\* A ticket, or the request that creates it, is encrypted if its provider asks for it.
Encrypted(r) ==
  IF r.provider \in Level2
  THEN r.version # 0 /\ r.secret # None /\ keys[r.provider][r.version] = r.secret
  ELSE r.version = 0

\* How far a request has come.
WholeProgress(q) ==
  /\ q.step = "idle" => q = Idle
  /\ q.step # "idle" => q.provider \in Providers
  /\ q.step \in {"findUser", "findEvent", "findType", "findKey", "commitTicket", "commitType"}
       => q.type \in TicketTypes
  /\ q.step \in {"findUser", "findEvent", "findType", "findKey", "commitTicket", "insertEvent",
                 "commitEvent", "lockEvents", "commitUpdate"} => q.event \in Events
  /\ q.step \in {"insertUser", "insertPhone"} /\ q.type # None => q.event \in Events
  /\ q.step \in {"findUser", "insertUser", "insertPhone"} => q.userId = 0 /\ q.phone \in Phones
  /\ q.step \in {"findUser", "insertUser", "insertPhone", "findEvent", "insertEvent"}
       => q.eventId = 0
  /\ q.step \in {"findUser", "insertUser", "insertPhone", "findEvent", "insertEvent", "findType"}
       => q.typeId = 0 /\ q.version = 0
  /\ q.step = "findKey" => q.provider \in Level2
  /\ q.step = "insertEvent" /\ q.type = None => q.inserted = {}
  /\ q.step = "commitType" => q.typeId = 0
  /\ "user" \in q.inserted =>
       /\ q.step \in {"findEvent", "insertEvent", "findType", "findKey", "commitTicket", "commitUser"}
       /\ q.phone \in Phones
  /\ "event" \in q.inserted =>
       q.step \in {"findType", "findKey", "commitTicket", "commitEvent"} /\ q.event \in Events

\* What a request holds of the tables stays true of them.
WholeFindings(q) ==
  /\ q.step \in {"findEvent", "findType", "findKey", "commitTicket"} => HasUser(q)
  /\ q.step = "insertEvent" /\ q.type # None => HasUser(q)
  /\ q.step \in {"findType", "findKey", "commitTicket"} => HasEvent(q)
  /\ q.step \in {"findKey", "commitTicket"} => HasType(q)
  /\ q.step = "commitTicket" => Encrypted(q)
  /\ q.step = "commitType" =>
       q.eventId \in 1..eventRows /\ EventsWith(event[q.eventId].uuid, q.provider) # {}
  /\ q.step \in {"lockEvents", "commitUpdate"} => EventsWith(q.event, q.provider) # {}
  /\ q.step = "insertKey" =>
       q.version \in Versions /\ \A i \in 1..(q.version - 1) : keys[q.provider][i] # None

WholeRequest(q) == q \in Request /\ WholeProgress(q) /\ WholeFindings(q)

RequestsAreWhole == \A w \in Requests : WholeRequest(request[w])

Tables ==
  /\ providers \subseteq Providers
  /\ keys \in [Providers -> [Versions -> SecretKey]]
  /\ userRows \in 0..MaxUsers /\ user \in UserTable
  /\ eventRows \in 0..MaxEvents /\ event \in EventTable
  /\ typeRows \in 0..MaxTypes /\ type \in TicketTypeTable
  /\ ticketRows \in 0..MaxTickets /\ ticket \in TicketTable
  /\ keyless \subseteq Providers

Typed ==
  /\ Tables
  /\ RowsAreWhole
  /\ request \in [Requests -> Request]
  /\ connections \in 0..PoolSize
  /\ OpenConnections
  /\ RequestsAreWhole

\* The rows and the keys that are there stay as they are, but for the data of events.
LEMMA EventAt ==
  ASSUME Tables, NEW i \in 1..eventRows
  PROVE  event[i] \in EventRow /\ i \in EventIds /\ event \in [EventIds -> EventRow]
<1>1. eventRows \in 0..MaxEvents /\ event \in [EventIds -> EventRow]
  BY DEF Tables
<1>2. MaxEvents \in Nat
  BY CatalogAssumption
<1>3. i \in EventIds
  BY <1>1, <1>2
<1> QED
  BY <1>1, <1>3

Grows ==
  /\ userRows <= userRows' /\ eventRows <= eventRows' /\ typeRows <= typeRows'
  /\ \A i \in 1..userRows : user'[i] = user[i]
  /\ \A i \in 1..eventRows :
       event'[i].uuid = event[i].uuid /\ event'[i].provider = event[i].provider
  /\ \A i \in 1..typeRows : type'[i] = type[i]
  /\ \A p \in Providers, v \in Versions : keys[p][v] # None => keys'[p][v] = keys[p][v]

-----------------------------------------------------------------------------
(* Facts about single definitions.                                          *)

LEMMA NextSteps ==
  ASSUME Typed, Next
  PROVE  \E w \in Requests : RequestStep(w)
<1>1. PICK w \in Requests :
        \/ TicketController(w) \/ UserController(w) \/ EventController(w)
        \/ TicketTypeController(w) \/ AdminTicketController(w)
        \/ AdminUserController(w) \/ AdminTicketTypeController(w)
        \/ TicketProviderController(w) \/ EncryptionKeyController(w)
        \/ Searches(w) \/ Commits(w) \/ ReadVersion(w) \/ InsertKey(w) \/ FailRequest(w)
  BY DEF Next, Searches, Commits
<1>2. CASE TicketController(w)
  <2>1. PICK p \in Providers, dto \in CreateTicketDto :
          CreateTicket(w, p, dto.user.uuid, dto.user.phoneNumber, dto.event.uuid,
                       dto.ticketType.uuid)
    BY <1>2 DEF TicketController
  <2>2. /\ dto.user.uuid \in Users \cup {None} /\ dto.user.phoneNumber \in Phones
        /\ dto.event.uuid \in Events
        /\ dto.ticketType.uuid \in TicketTypes
    BY DEF CreateTicketDto, CreateTicketUserDto, CreateTicketEventDto, CreateTicketTicketTypeDto
  <2>3. OpensTicket(w, p, dto.user.uuid, dto.user.phoneNumber, dto.event.uuid,
                    dto.ticketType.uuid)
    BY <2>1 DEF CreateTicket, OpensTicket
  <2> QED
    BY <2>2, <2>3 DEF RequestStep, Arrives
<1>3. CASE AdminTicketController(w)
  <2>1. PICK p \in Providers, dto \in CreateTicketValidationDto : AdminCreateTicket(w, p, dto)
    BY <1>3 DEF AdminTicketController
  <2>2. /\ event[dto.eventId].uuid \in Events /\ dto.ticketTypeUuid \in TicketTypes
        /\ dto.phoneNumber \in Phones
    BY <2>1 DEF AdminCreateTicket, CreateTicketValidationDto, Typed, RowsAreWhole, EventsAreWhole
  <2>3. OpensTicket(w, p, None, dto.phoneNumber, event[dto.eventId].uuid, dto.ticketTypeUuid)
    BY <2>1 DEF AdminCreateTicket, CreateTicket, OpensTicket
  <2> QED
    BY <2>2, <2>3 DEF RequestStep, Arrives
<1>4. CASE UserController(w) \/ EventController(w)
  BY <1>4 DEF RequestStep, Arrives, UserController, EventController
<1>8. CASE AdminUserController(w)
  <2>1. PICK dto \in CreateUserValidationDto :
          CreateUser(w, dto.ticketProviderId, [phone |-> dto.phoneNumber])
    BY <1>8 DEF AdminUserController, AdminCreateUser
  <2>2. dto.ticketProviderId \in Providers /\ [phone |-> dto.phoneNumber] \in CreateUserDto
    BY DEF CreateUserValidationDto, CreateUserDto
  <2> QED
    BY <2>1, <2>2 DEF RequestStep, Arrives
<1>5. ASSUME NEW p \in Providers, NEW y \in TicketTypes, NEW e \in Events,
             CreateTicketType(w, p, [uuid |-> y, eventUuid |-> e])
      PROVE  RequestStep(w)
  BY <1>5 DEF CreateTicketType, OpensType, RequestStep, Arrives
<1>6. CASE TicketTypeController(w)
  <2>1. PICK p \in Providers, dto \in CreateTicketTypeDto : CreateTicketType(w, p, dto)
    BY <1>6 DEF TicketTypeController
  <2>2. dto.uuid \in TicketTypes /\ dto.eventUuid \in Events
    BY DEF CreateTicketTypeDto
  <2>3. CreateTicketType(w, p, [uuid |-> dto.uuid, eventUuid |-> dto.eventUuid])
    BY <2>1 DEF CreateTicketType
  <2> QED
    BY <1>5, <2>2, <2>3
<1>7. CASE AdminTicketTypeController(w)
  <2>1. PICK dto \in AdminCreateTicketTypeDto : AdminCreateTicketType(w, dto)
    BY <1>7 DEF AdminTicketTypeController
  <2>2. /\ dto.uuid \in TicketTypes /\ dto.eventUuid \in Events
        /\ dto.ticketProviderId \in Providers \cup {None}
    BY DEF AdminCreateTicketTypeDto
  <2>3. CASE dto.ticketProviderId # None
    <3>1. CreateTicketType(w, dto.ticketProviderId, [uuid |-> dto.uuid, eventUuid |-> dto.eventUuid])
      BY <2>1, <2>3 DEF AdminCreateTicketType, CreateTicketType
    <3> QED
      BY <1>5, <2>2, <2>3, <3>1
  <2>4. CASE dto.ticketProviderId = None
    <3>1. /\ \A p \in Providers : TypesWith(dto.uuid, p) = {}
          /\ UNCHANGED <<tableVars, keyVars>>
      BY <2>1, <2>4 DEF AdminCreateTicketType
    <3>2. PICK p \in Providers, i \in 1..eventRows :
            /\ event[i].provider = p
            /\ Open(w, [Idle EXCEPT !.step = "commitType", !.provider = p, !.type = dto.uuid,
                                    !.eventId = i])
      BY <2>1, <2>4 DEF AdminCreateTicketType
    <3>3. i \in EventsWith(event[i].uuid, p)
      BY <3>2 DEF EventsWith
    <3>4. OpensType(w, p, dto.uuid, i)
      BY <3>1, <3>2, <3>3 DEF OpensType
    <3> QED
      BY <2>2, <3>4 DEF RequestStep, Arrives
  <2> QED
    BY <2>3, <2>4
<1> QED
  BY <1>1, <1>2, <1>3, <1>4, <1>6, <1>7, <1>8
     DEF RequestStep, HandlesKeys, TicketProviderController, EncryptionKeyController

LEMMA IdleIsWhole == WholeProgress(Idle) /\ WholeFindings(Idle) /\ Idle \in Request
BY DEF Idle, WholeProgress, WholeFindings, Request, Step

\* What a request holds of the tables stays true of them.
LEMMA FindingsStay ==
  ASSUME Tables, Tables', RowsAreWhole, Grows,
         NEW q \in Request, WholeProgress(q), WholeFindings(q)
  PROVE  WholeFindings(q)'
<1>1. /\ userRows \in Nat /\ eventRows \in Nat /\ typeRows \in Nat
      /\ userRows' \in Nat /\ eventRows' \in Nat /\ typeRows' \in Nat
  BY CatalogAssumption DEF Tables
<1>2. /\ q.userId \in Nat /\ q.eventId \in Nat /\ q.typeId \in Nat /\ q.version \in Nat
  BY CatalogAssumption DEF Request
<1>3. HasUser(q) => HasUser(q)'
  BY <1>1, <1>2 DEF HasUser, Grows
<1>4. HasEvent(q) => HasEvent(q)'
  BY <1>1, <1>2 DEF HasEvent, Grows
<1>5. HasType(q) => HasType(q)'
  <2>1. SUFFICES ASSUME q.typeId \in 1..typeRows,
                        event[type[q.typeId].event].provider = q.provider
                 PROVE  /\ q.typeId \in 1..typeRows'
                        /\ event'[type'[q.typeId].event].provider = q.provider
    BY DEF HasType
  <2>2. type[q.typeId].event \in 1..eventRows /\ type'[q.typeId] = type[q.typeId]
    BY <2>1 DEF RowsAreWhole, TypesAreWhole, Grows
  <2> QED
    BY <1>1, <1>2, <2>1, <2>2 DEF Grows
<1>6. q.step = "commitTicket" /\ Encrypted(q) => Encrypted(q)'
  BY DEF Encrypted, Grows, WholeProgress, Request
<1>7. ASSUME NEW e, NEW p
      PROVE  EventsWith(e, p) # {} => EventsWith(e, p)' # {}
  <2>1. \A i \in 1..eventRows : i \in 1..eventRows'
    BY <1>1 DEF Grows
  <2> QED
    BY <2>1 DEF EventsWith, Grows
<1>8. q.eventId \in 1..eventRows =>
        q.eventId \in 1..eventRows' /\ event'[q.eventId].uuid = event[q.eventId].uuid
  BY <1>1, <1>2 DEF Grows
<1>9. /\ q.step = "insertKey" /\ q.version \in Versions
      /\ \A i \in 1..(q.version - 1) : keys[q.provider][i] # None
      => \A i \in 1..(q.version - 1) : keys'[q.provider][i] # None
  <2>1. SUFFICES ASSUME q.step = "insertKey", q.version \in Versions,
                        NEW i \in 1..(q.version - 1), keys[q.provider][i] # None
                 PROVE  keys'[q.provider][i] # None
    OBVIOUS
  <2>2. i \in Versions
    BY <2>1, CatalogAssumption
  <2>3. q.provider \in Providers
    BY <2>1 DEF WholeProgress
  <2> QED
    BY <2>1, <2>2, <2>3 DEF Grows
<1> QED
  BY <1>3, <1>4, <1>5, <1>6, <1>7, <1>8, <1>9 DEF WholeFindings

\* A step of a request and the connections of the pool.
Transacts(q) == q.step \notin {"idle", "readKey", "insertKey"}

Connects(w, q) ==
  \/ connections' = connections /\ (Transacts(q) <=> Transacts(request[w]))
  \/ /\ ~Transacts(request[w]) /\ Transacts(q)
     /\ connections < PoolSize /\ connections' = connections + 1
  \/ Transacts(request[w]) /\ ~Transacts(q) /\ connections' = connections - 1

LEMMA ConnectionsOpen ==
  ASSUME Typed, NEW w \in Requests, NEW q \in Request, Connects(w, q),
         request' = [request EXCEPT ![w] = q]
  PROVE  connections' \in 0..PoolSize /\ OpenConnections'
<1>1. PICK S : S = {v \in Requests : InTransaction(v)}
  OBVIOUS
<1>2. PICK T : T = {v \in Requests : InTransaction(v)'}
  OBVIOUS
<1>3. \A v \in Requests : (v \in S <=> Transacts(request[v])) /\ (v \in T <=> Transacts(request'[v]))
  BY <1>1, <1>2 DEF InTransaction, Transacts
<1>4. /\ request'[w] = q
      /\ \A v \in Requests : v # w => request'[v] = request[v]
  BY DEF Typed
<1>5. IsFiniteSet(S) /\ Cardinality(S) \in Nat /\ connections = Cardinality(S)
  BY <1>1, CatalogAssumption, FS_Subset, FS_CardinalityType DEF Typed, OpenConnections
<1>6. connections \in 0..PoolSize /\ PoolSize \in Nat
  BY CatalogAssumption DEF Typed
<1>7. CASE connections' = connections /\ (Transacts(q) <=> Transacts(request[w]))
  <2>1. S = T
    BY <1>1, <1>2, <1>3, <1>4, <1>7
  <2> QED
    BY <1>2, <1>5, <1>6, <1>7, <2>1 DEF OpenConnections
<1>8. CASE /\ ~Transacts(request[w]) /\ Transacts(q)
           /\ connections < PoolSize /\ connections' = connections + 1
  <2>1. T = S \cup {w} /\ w \notin S
    BY <1>1, <1>2, <1>3, <1>4, <1>8
  <2>2. Cardinality(T) = Cardinality(S) + 1
    BY <1>5, <2>1, FS_AddElement
  <2> QED
    BY <1>2, <1>5, <1>6, <1>8, <2>2 DEF OpenConnections
<1>9. CASE Transacts(request[w]) /\ ~Transacts(q) /\ connections' = connections - 1
  <2>1. T = S \ {w} /\ w \in S
    BY <1>1, <1>2, <1>3, <1>4, <1>9
  <2>2. Cardinality(T) = Cardinality(S) - 1 /\ Cardinality(T) \in Nat
    BY <1>5, <2>1, FS_RemoveElement, FS_CardinalityType
  <2> QED
    BY <1>2, <1>5, <1>6, <1>9, <2>2 DEF OpenConnections
<1> QED
  BY <1>7, <1>8, <1>9 DEF Connects

\* A step of a request that leaves the tables sound leaves all of it sound.
LEMMA StepIsTyped ==
  ASSUME Typed, Tables', RowsAreWhole', Grows,
         NEW w \in Requests, NEW q \in Request, WholeProgress(q), WholeFindings(q)',
         request' = [request EXCEPT ![w] = q], Connects(w, q)
  PROVE  Typed'
<1>1. request' \in [Requests -> Request]
  BY DEF Typed
<1>2. connections' \in 0..PoolSize /\ OpenConnections'
  BY ConnectionsOpen
<1>3. ASSUME NEW v \in Requests
      PROVE  WholeRequest(request[v])'
  <2>1. PICK r : r = request'[v]
    OBVIOUS
  <2>2. r \in Request /\ WholeProgress(r) /\ WholeFindings(r)'
    <3>1. CASE v = w
      BY <2>1, <3>1 DEF Typed
    <3>2. CASE v # w
      <4>1. r = request[v]
        BY <2>1, <3>2 DEF Typed
      <4>2. r \in Request /\ WholeProgress(r) /\ WholeFindings(r)
        BY <4>1 DEF Typed, RequestsAreWhole, WholeRequest
      <4>3. Tables /\ RowsAreWhole
        BY DEF Typed
      <4> QED
        BY <4>2, <4>3, FindingsStay
    <3> QED
      BY <3>1, <3>2
  <2>3. WholeRequest(r)'
    BY <2>2 DEF WholeRequest, WholeProgress
  <2> QED
    BY <2>1, <2>3
<1> QED
  BY <1>1, <1>2, <1>3 DEF Typed, RequestsAreWhole

\* The rows and the keys do not change.
LEMMA StillIsTyped ==
  ASSUME Tables, RowsAreWhole, UNCHANGED <<tableVars, providers, keys>>, keyless' \subseteq Providers
  PROVE  Tables' /\ RowsAreWhole' /\ Grows
<1>1. /\ userRows \in Nat /\ eventRows \in Nat /\ typeRows \in Nat
  BY CatalogAssumption DEF Tables
<1>2. /\ UNCHANGED <<userRows, user, eventRows, event, typeRows, type, ticketRows, ticket>>
      /\ UNCHANGED <<providers, keys>>
  BY DEF tableVars, userVars, eventVars, typeVars, ticketVars
<1>3. Tables'
  BY <1>2 DEF Tables
<1>4. RowsAreWhole'
  BY <1>2 DEF RowsAreWhole, UsersAreWhole, EventsAreWhole, TypesAreWhole
<1>5. Grows
  BY <1>1, <1>2 DEF Grows
<1> QED
  BY <1>3, <1>4, <1>5

LEMMA QuietStep ==
  ASSUME Typed, UNCHANGED <<tableVars, keyVars>>,
         NEW w \in Requests, NEW q \in Request, WholeProgress(q), WholeFindings(q),
         request' = [request EXCEPT ![w] = q], Connects(w, q)
  PROVE  Typed' /\ Grows
<1>1. UNCHANGED <<tableVars, providers, keys>> /\ keyless' \subseteq Providers
  BY DEF keyVars, Typed, Tables
<1>2. Tables /\ RowsAreWhole
  BY DEF Typed
<1>3. Tables' /\ RowsAreWhole' /\ Grows
  BY <1>1, <1>2, StillIsTyped
<1>4. WholeFindings(q)'
  BY <1>2, <1>3, FindingsStay
<1> QED
  BY <1>3, <1>4, StepIsTyped

\* The next request of a step.
LEMMA NextRequest ==
  ASSUME NEW r \in Request, NEW s \in Step
  PROVE  /\ [r EXCEPT !.step = s] \in Request
         /\ \A i \in UserIds : [r EXCEPT !.step = s, !.userId = i] \in Request
         /\ \A i \in EventIds : [r EXCEPT !.step = s, !.eventId = i] \in Request
         /\ \A i \in TypeIds : [r EXCEPT !.step = s, !.typeId = i] \in Request
         /\ \A v \in Versions : [r EXCEPT !.step = s, !.version = v] \in Request
         /\ \A v \in Versions, k \in SecretKey :
              [r EXCEPT !.step = s, !.version = v, !.secret = k] \in Request
         /\ \A i \in SUBSET {"user", "event"} : [r EXCEPT !.step = s, !.inserted = i] \in Request
<1> HIDE DEF UserIds, EventIds, TypeIds, Versions, SecretKey
<1>1. [r EXCEPT !.step = s] \in Request
  BY DEF Request
<1>2. \A i \in UserIds : [r EXCEPT !.step = s, !.userId = i] \in Request
  BY DEF Request
<1>3. \A i \in EventIds : [r EXCEPT !.step = s, !.eventId = i] \in Request
  BY DEF Request
<1>4. \A i \in TypeIds : [r EXCEPT !.step = s, !.typeId = i] \in Request
  BY DEF Request
<1>5. \A v \in Versions : [r EXCEPT !.step = s, !.version = v] \in Request
  BY DEF Request
<1>6. \A v \in Versions, k \in SecretKey :
        [r EXCEPT !.step = s, !.version = v, !.secret = k] \in Request
  BY DEF Request
<1>7. \A i \in SUBSET {"user", "event"} : [r EXCEPT !.step = s, !.inserted = i] \in Request
  BY DEF Request
<1> QED
  BY <1>1, <1>2, <1>3, <1>4, <1>5, <1>6, <1>7

LEMMA Opening ==
  ASSUME Typed, UNCHANGED <<tableVars, keyVars>>,
         NEW w \in Requests, NEW q \in Request, WholeProgress(q), WholeFindings(q),
         Open(w, q), Transacts(q)
  PROVE  Typed' /\ Grows
<1>1. Connects(w, q) /\ request' = [request EXCEPT ![w] = q]
  BY DEF Open, Free, Connects, Transacts, Idle
<1> QED
  BY <1>1, QuietStep

LEMMA Continuing ==
  ASSUME Typed, UNCHANGED <<tableVars, keyVars>>,
         NEW w \in Requests, NEW q \in Request, WholeProgress(q), WholeFindings(q),
         Continue(w, q), Transacts(q) <=> Transacts(request[w])
  PROVE  Typed' /\ Grows
<1>1. Connects(w, q) /\ request' = [request EXCEPT ![w] = q]
  BY DEF Continue, Connects
<1> QED
  BY <1>1, QuietStep

LEMMA ClosingConnects ==
  ASSUME NEW w \in Requests, Close(w), Transacts(request[w])
  PROVE  Connects(w, Idle) /\ request' = [request EXCEPT ![w] = Idle]
BY DEF Close, Connects, Transacts, Idle

LEMMA Closing ==
  ASSUME Typed, UNCHANGED <<tableVars, keyVars>>,
         NEW w \in Requests, Close(w), Transacts(request[w])
  PROVE  Typed' /\ Grows
BY ClosingConnects, IdleIsWhole, QuietStep

LEMMA RequestOf ==
  ASSUME Typed, NEW w \in Requests
  PROVE  /\ request[w] \in Request
         /\ WholeProgress(request[w])
         /\ WholeFindings(request[w])
BY DEF Typed, RequestsAreWhole, WholeRequest

LEMMA ArrivesIsTyped ==
  ASSUME Typed, NEW w \in Requests, Arrives(w)
  PROVE  Typed' /\ Grows
<1> USE DEF Request, Step, Idle, WholeProgress, WholeFindings, Transacts
<1>1. PICK p \in Providers :
        \/ \E u \in Users \cup {None}, n \in Phones, e \in Events, y \in TicketTypes :
             OpensTicket(w, p, u, n, e, y)
        \/ \E dto \in CreateUserDto : CreateUser(w, p, dto)
        \/ \E dto \in CreateEventDto : CreateEvent(w, p, dto)
        \/ \E dto \in UpdateEventDto : UpdateEvent(w, p, dto)
        \/ \E y \in TicketTypes, i \in 1..eventRows : OpensType(w, p, y, i)
  BY DEF Arrives
<1>2. ASSUME NEW u \in Users \cup {None}, NEW n \in Phones, NEW e \in Events,
             NEW y \in TicketTypes, OpensTicket(w, p, u, n, e, y)
      PROVE  Typed' /\ Grows
  <2>1. PICK q : q = [Idle EXCEPT !.step = "findUser", !.provider = p, !.user = u, !.phone = n,
                                  !.event = e, !.type = y]
    OBVIOUS
  <2>2. q \in Request /\ WholeProgress(q) /\ WholeFindings(q) /\ Transacts(q)
    BY <2>1
  <2>3. Open(w, q) /\ UNCHANGED <<tableVars, keyVars>>
    BY <1>2, <2>1 DEF OpensTicket
  <2> QED
    BY <2>2, <2>3, Opening
<1>3. ASSUME NEW dto \in CreateUserDto, CreateUser(w, p, dto)
      PROVE  Typed' /\ Grows
  <2>1. PICK q : q = [Idle EXCEPT !.step = "insertUser", !.provider = p, !.phone = dto.phone]
    OBVIOUS
  <2>4. dto.phone \in Phones
    BY DEF CreateUserDto
  <2>2. q \in Request /\ WholeProgress(q) /\ WholeFindings(q) /\ Transacts(q)
    BY <2>1, <2>4
  <2>3. Open(w, q) /\ UNCHANGED <<tableVars, keyVars>>
    BY <1>3, <2>1 DEF CreateUser
  <2> QED
    BY <2>2, <2>3, Opening
<1>4. ASSUME NEW dto \in CreateEventDto, CreateEvent(w, p, dto)
      PROVE  Typed' /\ Grows
  <2>1. PICK q : q = [Idle EXCEPT !.step = "insertEvent", !.provider = p, !.event = dto.uuid,
                                  !.content = dto.content]
    OBVIOUS
  <2>2. dto.uuid \in Events /\ dto.content \in Contents
    BY DEF CreateEventDto
  <2>3. q \in Request /\ WholeProgress(q) /\ WholeFindings(q) /\ Transacts(q)
    BY <2>1, <2>2
  <2>4. Open(w, q) /\ UNCHANGED <<tableVars, keyVars>>
    BY <1>4, <2>1 DEF CreateEvent
  <2> QED
    BY <2>3, <2>4, Opening
<1>5. ASSUME NEW dto \in UpdateEventDto, UpdateEvent(w, p, dto)
      PROVE  Typed' /\ Grows
  <2>1. PICK q : q = [Idle EXCEPT !.step = "lockEvents", !.provider = p, !.event = dto.uuid,
                                  !.content = dto.content]
    OBVIOUS
  <2>2. dto.uuid \in Events /\ dto.content \in Contents
    BY DEF UpdateEventDto
  <2>3. EventsWith(q.event, q.provider) # {}
    BY <1>5, <2>1 DEF UpdateEvent
  <2>4. q \in Request /\ WholeProgress(q) /\ WholeFindings(q) /\ Transacts(q)
    BY <2>1, <2>2, <2>3
  <2>5. Open(w, q) /\ UNCHANGED <<tableVars, keyVars>>
    BY <1>5, <2>1 DEF UpdateEvent
  <2> QED
    BY <2>4, <2>5, Opening
<1>6. ASSUME NEW y \in TicketTypes, NEW i \in 1..eventRows, OpensType(w, p, y, i)
      PROVE  Typed' /\ Grows
  <2>1. PICK q : q = [Idle EXCEPT !.step = "commitType", !.provider = p, !.type = y,
                                  !.eventId = i]
    OBVIOUS
  <2>2. EventsWith(event[q.eventId].uuid, q.provider) # {} /\ q.eventId \in 1..eventRows
    BY <1>6, <2>1 DEF OpensType
  <2>3. i \in EventIds
    BY CatalogAssumption DEF Typed, Tables
  <2>4. q \in Request /\ WholeProgress(q) /\ WholeFindings(q) /\ Transacts(q)
    BY <2>1, <2>2, <2>3
  <2>5. Open(w, q) /\ UNCHANGED <<tableVars, keyVars>>
    BY <1>6, <2>1 DEF OpensType
  <2> QED
    BY <2>4, <2>5, Opening
<1> QED
  BY <1>1, <1>2, <1>3, <1>4, <1>5, <1>6

\* The searches for rows.
LEMMA UserSearchIsTyped ==
  ASSUME Typed, NEW w \in Requests, FindUser(w) \/ InsertUser(w) \/ InsertPhone(w)
  PROVE  Typed' /\ Grows
<1>1. /\ request[w] \in Request
      /\ WholeProgress(request[w])
      /\ WholeFindings(request[w])
  BY RequestOf
<1>2. PICK r : r = request[w]
  OBVIOUS
<1> USE DEF Request, Step, WholeProgress, WholeFindings, Transacts
<1>3. CASE FindUser(w)
  <2>1. r.step = "findUser" /\ UNCHANGED <<tableVars, keyVars>>
    BY <1>2, <1>3 DEF FindUser
  <2>2. ASSUME NEW i \in UsersWith(r.user, r.provider),
               Continue(w, [r EXCEPT !.step = "findEvent", !.userId = i])
        PROVE  Typed' /\ Grows
    <3>1. PICK q : q = [r EXCEPT !.step = "findEvent", !.userId = i]
      OBVIOUS
    <3>2. i \in UserIds /\ i \in 1..userRows /\ i # 0 /\ user[i].provider = r.provider
      BY CatalogAssumption DEF UsersWith, Typed, Tables
    <3>3. q \in Request
      <4>1. "findEvent" \in Step
        OBVIOUS
      <4> HIDE DEF Request, Step, WholeProgress, WholeFindings
      <4> QED
        BY <1>1, <1>2, <3>1, <3>2, <4>1, NextRequest
    <3>4. /\ q.userId = i /\ q.provider = r.provider /\ q.inserted = r.inserted
          /\ q.step = "findEvent" /\ q.eventId = r.eventId /\ q.typeId = r.typeId
          /\ q.version = r.version /\ q.type = r.type /\ q.event = r.event /\ q.phone = r.phone
      BY <1>1, <1>2, <3>1
    <3>5. WholeProgress(q)
      BY <1>1, <1>2, <2>1, <3>4
    <3>6. HasUser(q)
      BY <1>1, <1>2, <2>1, <3>2, <3>4 DEF HasUser
    <3>7. WholeFindings(q) /\ (Transacts(q) <=> Transacts(request[w])) /\ Continue(w, q)
      BY <1>2, <2>1, <2>2, <3>1, <3>4, <3>6
    <3> QED
      BY <2>1, <3>3, <3>5, <3>7, Continuing
  <2>3. CASE Continue(w, [r EXCEPT !.step = "insertUser"])
    <3>1. PICK q : q = [r EXCEPT !.step = "insertUser"]
      OBVIOUS
    <3>2. q \in Request /\ WholeProgress(q) /\ WholeFindings(q)
      BY <1>1, <1>2, <2>1, <3>1
    <3>3. (Transacts(q) <=> Transacts(request[w])) /\ Continue(w, q)
      BY <1>1, <1>2, <2>1, <2>3, <3>1
    <3> QED
      BY <2>1, <3>2, <3>3, Continuing
  <2> QED
    BY <1>2, <1>3, <2>2, <2>3 DEF FindUser
<1>4. CASE InsertUser(w)
  <2>1. r.step = "insertUser" /\ UNCHANGED <<tableVars, keyVars>>
    BY <1>2, <1>4 DEF InsertUser
  <2>2. CASE Close(w)
    BY <1>2, <2>1, <2>2, Closing
  <2>3. CASE Continue(w, [r EXCEPT !.step = "insertPhone"])
    <3>1. PICK q : q = [r EXCEPT !.step = "insertPhone"]
      OBVIOUS
    <3>2. q \in Request /\ WholeProgress(q) /\ WholeFindings(q)
      BY <1>1, <1>2, <2>1, <3>1
    <3>3. (Transacts(q) <=> Transacts(request[w])) /\ Continue(w, q)
      BY <1>1, <1>2, <2>1, <2>3, <3>1
    <3> QED
      BY <2>1, <3>2, <3>3, Continuing
  <2> QED
    BY <1>2, <1>4, <2>2, <2>3 DEF InsertUser
<1>5. CASE InsertPhone(w)
  <2>1. r.step = "insertPhone" /\ UNCHANGED <<tableVars, keyVars>>
    BY <1>2, <1>5 DEF InsertPhone
  <2>2. CASE Close(w)
    BY <1>2, <2>1, <2>2, Closing
  <2>3. CASE Continue(w, [r EXCEPT
               !.step = IF r.type = None THEN "commitUser" ELSE "findEvent", !.inserted = {"user"}])
    <3>1. PICK q : q = [r EXCEPT !.step = IF r.type = None THEN "commitUser" ELSE "findEvent",
                                 !.inserted = {"user"}]
      OBVIOUS
    <3>2. /\ q.step = (IF r.type = None THEN "commitUser" ELSE "findEvent")
          /\ q.inserted = {"user"} /\ q.userId = 0 /\ q.eventId = 0 /\ q.typeId = 0 /\ q.version = 0
          /\ q.type = r.type /\ q.event = r.event /\ q.provider \in Providers
          /\ q.phone \in Phones
      BY <1>1, <1>2, <2>1, <3>1
    <3>3. q \in Request
      <4>1. PICK s \in Step : s = IF r.type = None THEN "commitUser" ELSE "findEvent"
        OBVIOUS
      <4>2. {"user"} \in SUBSET {"user", "event"} /\ q = [r EXCEPT !.step = s, !.inserted = {"user"}]
        BY <3>1, <4>1
      <4> HIDE DEF Request, Step, WholeProgress, WholeFindings
      <4> QED
        BY <1>1, <1>2, <4>2, NextRequest
    <3>4. WholeProgress(q) /\ WholeFindings(q)
      BY <1>1, <1>2, <2>1, <3>2, <3>3 DEF HasUser
    <3>5. (Transacts(q) <=> Transacts(request[w])) /\ Continue(w, q)
      BY <1>2, <2>1, <2>3, <3>1, <3>2
    <3> QED
      BY <2>1, <3>3, <3>4, <3>5, Continuing
  <2> QED
    BY <1>2, <1>5, <2>2, <2>3 DEF InsertPhone
<1> QED
  BY <1>3, <1>4, <1>5

\* The greatest version of a provider's key is one of its versions.
LEMMA CurrentVersionOf ==
  ASSUME NEW p
  PROVE  IF VersionsOf(p) = {}
         THEN CurrentVersion(p) = 0
         ELSE /\ CurrentVersion(p) \in VersionsOf(p)
              /\ \A i \in VersionsOf(p) : i <= CurrentVersion(p)
<1>1. CASE VersionsOf(p) = {}
  BY <1>1 DEF CurrentVersion
<1>2. CASE VersionsOf(p) # {}
  <2>1. VersionsOf(p) \subseteq Versions /\ MaxVersion \in Nat
    BY CatalogAssumption DEF VersionsOf
  <2>2. PICK T : T = {MaxVersion - v : v \in VersionsOf(p)}
    OBVIOUS
  <2>3. T \subseteq Nat /\ T # {}
    BY <1>2, <2>1, <2>2
  <2>4. IsWellFoundedOn(OpToRel(<, Nat), Nat)
    BY NatLessThanWellFounded
  <2>5. PICK x \in T : \A y \in T : ~(<<y, x>> \in OpToRel(<, Nat))
    BY <2>3, <2>4, WFMin
  <2>6. PICK v \in VersionsOf(p) : x = MaxVersion - v
    BY <2>2
  <2>7. \A i \in VersionsOf(p) : i <= v
    <3>1. SUFFICES ASSUME NEW i \in VersionsOf(p)
                   PROVE  i <= v
      OBVIOUS
    <3>2. PICK y : y = MaxVersion - i
      OBVIOUS
    <3>3. y \in T /\ y \in Nat /\ x \in Nat
      BY <2>2, <2>3, <3>2
    <3>4. ~(y < x)
      BY <2>5, <3>3 DEF OpToRel
    <3> QED
      BY <2>1, <2>6, <3>2, <3>3, <3>4
  <2> QED
    BY <1>2, <2>7 DEF CurrentVersion
<1> QED
  BY <1>1, <1>2

LEMMA EventSearchIsTyped ==
  ASSUME Typed, NEW w \in Requests, FindEvent(w) \/ InsertEvent(w)
  PROVE  Typed' /\ Grows
<1>1. /\ request[w] \in Request
      /\ WholeProgress(request[w])
      /\ WholeFindings(request[w])
  BY RequestOf
<1>2. PICK r : r = request[w]
  OBVIOUS
<1> USE DEF WholeProgress, WholeFindings, Transacts
<1>3. CASE FindEvent(w)
  <2>1. r.step = "findEvent" /\ UNCHANGED <<tableVars, keyVars>>
    BY <1>2, <1>3 DEF FindEvent
  <2>2. ASSUME NEW i \in EventsWith(r.event, r.provider),
               Continue(w, [r EXCEPT !.step = "findType", !.eventId = i])
        PROVE  Typed' /\ Grows
    <3>1. PICK q : q = [r EXCEPT !.step = "findType", !.eventId = i]
      OBVIOUS
    <3>2. i \in EventIds /\ i \in 1..eventRows /\ i # 0 /\ event[i].provider = r.provider
      BY CatalogAssumption DEF EventsWith, Typed, Tables
    <3>3. q \in Request
      BY <1>1, <1>2, <3>1, <3>2, NextRequest DEF Step
    <3>4. /\ q.eventId = i /\ q.provider = r.provider /\ q.inserted = r.inserted
          /\ q.step = "findType" /\ q.userId = r.userId /\ q.typeId = r.typeId
          /\ q.version = r.version /\ q.type = r.type /\ q.event = r.event /\ q.phone = r.phone
      BY <1>1, <1>2, <3>1 DEF Request
    <3>5. WholeProgress(q)
      BY <1>1, <1>2, <2>1, <3>4
    <3>6. HasEvent(q) /\ HasUser(q)
      BY <1>1, <1>2, <2>1, <3>2, <3>4 DEF HasEvent, HasUser
    <3>7. WholeFindings(q) /\ (Transacts(q) <=> Transacts(request[w])) /\ Continue(w, q)
      BY <1>2, <2>1, <2>2, <3>1, <3>4, <3>6
    <3> QED
      BY <2>1, <3>3, <3>5, <3>7, Continuing
  <2>3. CASE Continue(w, [r EXCEPT !.step = "insertEvent"])
    <3>1. PICK q : q = [r EXCEPT !.step = "insertEvent"]
      OBVIOUS
    <3>2. q \in Request
      BY <1>1, <1>2, <3>1, NextRequest DEF Step
    <3>3. /\ q.eventId = r.eventId /\ q.provider = r.provider /\ q.inserted = r.inserted
          /\ q.step = "insertEvent" /\ q.userId = r.userId /\ q.typeId = r.typeId
          /\ q.version = r.version /\ q.type = r.type /\ q.event = r.event /\ q.phone = r.phone
      BY <1>1, <1>2, <3>1 DEF Request
    <3>4. WholeProgress(q)
      BY <1>1, <1>2, <2>1, <3>3, CatalogAssumption
    <3>5. HasUser(q)
      BY <1>1, <1>2, <2>1, <3>3 DEF HasUser
    <3>6. WholeFindings(q) /\ (Transacts(q) <=> Transacts(request[w])) /\ Continue(w, q)
      BY <1>2, <2>1, <2>3, <3>1, <3>3, <3>5
    <3> QED
      BY <2>1, <3>2, <3>4, <3>6, Continuing
  <2> QED
    BY <1>2, <1>3, <2>2, <2>3 DEF FindEvent
<1>4. CASE InsertEvent(w)
  <2>1. r.step = "insertEvent" /\ UNCHANGED <<tableVars, keyVars>>
    BY <1>2, <1>4 DEF InsertEvent
  <2>2. CASE Close(w)
    BY <1>2, <2>1, <2>2, Closing
  <2>3. CASE Continue(w, [r EXCEPT !.step = IF r.type = None THEN "commitEvent" ELSE "findType",
                                   !.inserted = @ \cup {"event"}])
    <3>1. PICK s \in Step : s = IF r.type = None THEN "commitEvent" ELSE "findType"
      BY DEF Step
    <3>2. PICK new : new = r.inserted \cup {"event"}
      OBVIOUS
    <3>3. new \in SUBSET {"user", "event"}
      BY <1>1, <1>2, <3>2 DEF Request
    <3>4. PICK q : q = [r EXCEPT !.step = s, !.inserted = new]
      OBVIOUS
    <3>5. q \in Request
      BY <1>1, <1>2, <3>3, <3>4, NextRequest
    <3>6. /\ q.eventId = r.eventId /\ q.provider = r.provider /\ q.inserted = new
          /\ q.step = s /\ q.userId = r.userId /\ q.typeId = r.typeId
          /\ q.version = r.version /\ q.type = r.type /\ q.event = r.event /\ q.phone = r.phone
      BY <1>1, <1>2, <3>4 DEF Request
    <3>7. "user" \in r.inserted => "user" \in new
      BY <3>2
    <3>8. r.type = None => new = {"event"}
      BY <1>1, <1>2, <2>1, <3>2
    <3>9. WholeProgress(q)
      BY <1>1, <1>2, <2>1, <3>1, <3>2, <3>5, <3>6, <3>8 DEF Request
    <3>10. s = "findType" => HasUser(q) /\ HasEvent(q)
      BY <1>1, <1>2, <2>1, <3>1, <3>2, <3>6 DEF HasUser, HasEvent
    <3>11. WholeFindings(q) /\ (Transacts(q) <=> Transacts(request[w])) /\ Continue(w, q)
      BY <1>2, <2>1, <2>3, <3>1, <3>2, <3>4, <3>6, <3>10
    <3> QED
      BY <2>1, <3>5, <3>9, <3>11, Continuing
  <2> QED
    BY <1>2, <1>4, <2>2, <2>3 DEF InsertEvent
<1> QED
  BY <1>3, <1>4

LEMMA TypeSearchIsTyped ==
  ASSUME Typed, NEW w \in Requests, FindTicketType(w)
  PROVE  Typed' /\ Grows
<1>1. /\ request[w] \in Request
      /\ WholeProgress(request[w])
      /\ WholeFindings(request[w])
  BY RequestOf
<1>2. PICK r : r = request[w]
  OBVIOUS
<1> USE DEF WholeProgress, WholeFindings, Transacts
<1>3. r.step = "findType" /\ UNCHANGED <<tableVars, keyVars>>
  BY <1>2 DEF FindTicketType
<1>4. PICK s \in Step : s = IF r.provider \in Level2 THEN "findKey" ELSE "commitTicket"
  BY DEF Step
<1>5. ASSUME NEW i \in TypeIds \cup {0}, NEW q \in Request, Continue(w, q),
             i # 0 => i \in 1..typeRows /\ event[type[i].event].provider = r.provider,
             /\ q.step = s /\ q.typeId = i /\ q.provider = r.provider /\ q.inserted = r.inserted
             /\ q.userId = r.userId /\ q.eventId = r.eventId
             /\ q.version = r.version /\ q.type = r.type /\ q.event = r.event /\ q.phone = r.phone
      PROVE  Typed' /\ Grows
  <2>1. WholeProgress(q)
    BY <1>1, <1>2, <1>3, <1>4, <1>5
  <2>2. HasUser(q) /\ HasEvent(q) /\ HasType(q)
    BY <1>1, <1>2, <1>3, <1>5 DEF HasUser, HasEvent, HasType
  <2>3. s = "commitTicket" => Encrypted(q)
    BY <1>1, <1>2, <1>3, <1>4, <1>5 DEF Encrypted
  <2>4. WholeFindings(q) /\ (Transacts(q) <=> Transacts(request[w]))
    BY <1>2, <1>3, <1>4, <1>5, <2>2, <2>3
  <2> QED
    BY <1>3, <1>5, <2>1, <2>4, Continuing
<1>6. ASSUME NEW i \in TypesWith(r.type, r.provider),
             Continue(w, [r EXCEPT !.step = s, !.typeId = i])
      PROVE  Typed' /\ Grows
  <2>1. PICK q : q = [r EXCEPT !.step = s, !.typeId = i]
    OBVIOUS
  <2>2. i \in 1..typeRows /\ i \in TypeIds /\ event[type[i].event].provider = r.provider
    BY CatalogAssumption DEF TypesWith, Typed, Tables
  <2>3. q \in Request
    BY <1>1, <1>2, <2>1, <2>2, NextRequest
  <2>4. /\ q.step = s /\ q.typeId = i /\ q.provider = r.provider /\ q.inserted = r.inserted
        /\ q.userId = r.userId /\ q.eventId = r.eventId
        /\ q.version = r.version /\ q.type = r.type /\ q.event = r.event /\ q.phone = r.phone
    BY <1>1, <1>2, <2>1 DEF Request
  <2>5. Continue(w, q)
    BY <1>6, <2>1
  <2> QED
    BY <1>5, <2>2, <2>3, <2>4, <2>5
<1>7. ASSUME Continue(w, [r EXCEPT !.step = s])
      PROVE  Typed' /\ Grows
  <2>1. PICK q : q = [r EXCEPT !.step = s]
    OBVIOUS
  <2>2. q \in Request
    BY <1>1, <1>2, <2>1, NextRequest
  <2>3. /\ q.step = s /\ q.typeId = 0 /\ q.provider = r.provider /\ q.inserted = r.inserted
        /\ q.userId = r.userId /\ q.eventId = r.eventId
        /\ q.version = r.version /\ q.type = r.type /\ q.event = r.event /\ q.phone = r.phone
    BY <1>1, <1>2, <1>3, <2>1 DEF Request
  <2>4. Continue(w, q) /\ 0 \in TypeIds \cup {0}
    BY <1>7, <2>1
  <2> QED
    BY <1>5, <2>2, <2>3, <2>4
<1> QED
  BY <1>2, <1>4, <1>6, <1>7 DEF FindTicketType

LEMMA KeySearchIsTyped ==
  ASSUME Typed, NEW w \in Requests, FindKey(w)
  PROVE  Typed' /\ Grows
<1>1. /\ request[w] \in Request
      /\ WholeProgress(request[w])
      /\ WholeFindings(request[w])
  BY RequestOf
<1>2. PICK r : r = request[w]
  OBVIOUS
<1>3. PICK v : v = CurrentVersion(r.provider)
  OBVIOUS
<1> USE DEF WholeProgress, WholeFindings, Transacts
<1>4. r.step = "findKey" /\ UNCHANGED <<tableVars, keyVars>>
  BY <1>2 DEF FindKey
<1>5. CASE Close(w)
  BY <1>2, <1>4, <1>5, Closing
<1>6. ASSUME v # 0,
             Continue(w, [r EXCEPT !.step = "commitTicket", !.version = v,
                                   !.secret = keys[r.provider][v]])
      PROVE  Typed' /\ Grows
  <2>1. v \in Versions /\ keys[r.provider][v] # None
    BY <1>3, <1>6, CurrentVersionOf DEF VersionsOf
  <2>2. PICK k : k = keys[r.provider][v]
    OBVIOUS
  <2>3. k \in SecretKey /\ k # None
    BY <1>1, <1>2, <1>4, <2>1, <2>2 DEF Typed, Tables
  <2>4. PICK q : q = [r EXCEPT !.step = "commitTicket", !.version = v, !.secret = k]
    OBVIOUS
  <2>5. q \in Request
    BY <1>1, <1>2, <2>1, <2>3, <2>4, NextRequest DEF Step
  <2>6. /\ q.step = "commitTicket" /\ q.typeId = r.typeId /\ q.provider = r.provider
        /\ q.inserted = r.inserted /\ q.userId = r.userId /\ q.eventId = r.eventId
        /\ q.version = v /\ q.secret = k /\ q.type = r.type /\ q.event = r.event /\ q.phone = r.phone
    BY <1>1, <1>2, <2>4 DEF Request
  <2>7. WholeProgress(q)
    BY <1>1, <1>2, <1>4, <2>6
  <2>8. HasUser(q) /\ HasEvent(q) /\ HasType(q)
    BY <1>1, <1>2, <1>4, <2>6 DEF HasUser, HasEvent, HasType
  <2>9. Encrypted(q)
    BY <1>1, <1>2, <1>4, <1>6, <2>2, <2>3, <2>6 DEF Encrypted
  <2>10. WholeFindings(q) /\ (Transacts(q) <=> Transacts(request[w])) /\ Continue(w, q)
    BY <1>2, <1>4, <1>6, <2>2, <2>4, <2>6, <2>8, <2>9
  <2> QED
    BY <1>4, <2>5, <2>7, <2>10, Continuing
<1> QED
  BY <1>2, <1>3, <1>5, <1>6 DEF FindKey

LEMMA LockIsTyped ==
  ASSUME Typed, NEW w \in Requests, LockEvents(w)
  PROVE  Typed' /\ Grows
<1>1. /\ request[w] \in Request
      /\ WholeProgress(request[w])
      /\ WholeFindings(request[w])
  BY RequestOf
<1>2. PICK r : r = request[w]
  OBVIOUS
<1>3. PICK q : q = [r EXCEPT !.step = "commitUpdate"]
  OBVIOUS
<1>4. r.step = "lockEvents" /\ UNCHANGED <<tableVars, keyVars>> /\ Continue(w, q)
  BY <1>2, <1>3 DEF LockEvents
<1>5. q \in Request
  BY <1>1, <1>2, <1>3, NextRequest DEF Step
<1>6. /\ q.step = "commitUpdate" /\ q.provider = r.provider /\ q.event = r.event /\ q.phone = r.phone
      /\ q.inserted = r.inserted
  BY <1>1, <1>2, <1>3 DEF Request
<1>7. WholeProgress(q) /\ WholeFindings(q)
  BY <1>1, <1>2, <1>4, <1>6 DEF WholeProgress, WholeFindings
<1>8. Transacts(q) <=> Transacts(request[w])
  BY <1>2, <1>4, <1>6 DEF Transacts
<1> QED
  BY <1>4, <1>5, <1>7, <1>8, Continuing

\* A request that fails leaves nothing behind.
LEMMA FailIsTyped ==
  ASSUME Typed, NEW w \in Requests, FailRequest(w)
  PROVE  Typed' /\ Grows
<1>1. /\ request[w] \in Request
      /\ WholeProgress(request[w])
      /\ request[w].step # "idle"
  BY RequestOf DEF FailRequest
<1>2. request[w].provider \in Providers
  BY <1>1 DEF WholeProgress
<1>3. UNCHANGED <<tableVars, providers, keys>> /\ keyless' \subseteq Providers
  BY <1>2 DEF FailRequest, Typed, Tables
<1>4. Tables /\ RowsAreWhole
  BY DEF Typed
<1>5. Tables' /\ RowsAreWhole' /\ Grows
  BY <1>3, <1>4, StillIsTyped
<1>6. Idle \in Request /\ WholeProgress(Idle) /\ WholeFindings(Idle)'
  BY <1>4, <1>5, IdleIsWhole, FindingsStay
<1>7. Connects(w, Idle) /\ request' = [request EXCEPT ![w] = Idle]
  BY <1>1 DEF FailRequest, InTransaction, Close, Continue, Connects, Transacts, Idle
<1> QED
  BY <1>5, <1>6, <1>7, StepIsTyped

\* The rows that a commit adds.
LEMMA NewUser ==
  ASSUME Typed, NEW w \in Requests, request[w].provider \in Providers, AddUser(w)
  PROVE  /\ userRows' \in 0..MaxUsers /\ user' \in UserTable /\ userRows <= userRows'
         /\ \A i \in 1..userRows : user'[i] = user[i]
         /\ UsersAreWhole'
         /\ IF "user" \in request[w].inserted
            THEN /\ userRows' = userRows + 1
                 /\ user'[userRows + 1] =
                      [uuid |-> request[w].user, provider |-> request[w].provider,
                       phone |-> request[w].phone]
            ELSE UNCHANGED <<userRows, user>>
<1>1. userRows \in Nat /\ userRows \in 0..MaxUsers /\ MaxUsers \in Nat /\ user \in UserTable
  BY CatalogAssumption DEF Typed, Tables
<1>2. PICK r : r = [uuid |-> request[w].user, provider |-> request[w].provider,
                    phone |-> request[w].phone]
  OBVIOUS
<1>3. r \in UserRow /\ r.provider \in Providers
  BY <1>2, RequestOf DEF UserRow, Request
<1>4. CASE "user" \in request[w].inserted
  <2>1. userRows' = userRows + 1 /\ user' = [user EXCEPT ![userRows + 1] = r] /\ userRows < MaxUsers
    BY <1>2, <1>4 DEF AddUser
  <2>2. user' \in UserTable /\ user'[userRows + 1] = r
    BY <1>1, <1>3, <2>1
  <2>3. \A i \in 1..userRows : user'[i] = user[i]
    BY <1>1, <2>1
  <2>4. UsersAreWhole'
    BY <1>1, <1>3, <2>1, <2>2, <2>3 DEF UsersAreWhole, Typed, RowsAreWhole
  <2> QED
    BY <1>1, <1>2, <1>4, <2>1, <2>2, <2>3, <2>4
<1>5. CASE "user" \notin request[w].inserted
  BY <1>1, <1>5 DEF AddUser, userVars, UsersAreWhole, Typed, RowsAreWhole
<1> QED
  BY <1>4, <1>5

LEMMA NewEvent ==
  ASSUME Typed, NEW w \in Requests, request[w].provider \in Providers, AddEvent(w)
  PROVE  /\ eventRows' \in 0..MaxEvents /\ event' \in EventTable /\ eventRows <= eventRows'
         /\ \A i \in 1..eventRows : event'[i] = event[i]
         /\ EventsAreWhole'
         /\ IF "event" \in request[w].inserted
            THEN /\ eventRows' = eventRows + 1
                 /\ event'[eventRows + 1] =
                      [uuid |-> request[w].event, provider |-> request[w].provider,
                       content |-> request[w].content, announced |-> request[w].content,
                       writer |-> request[w].provider]
            ELSE UNCHANGED <<eventRows, event>>
<1>1. eventRows \in Nat /\ eventRows \in 0..MaxEvents /\ MaxEvents \in Nat /\ event \in EventTable
  BY CatalogAssumption DEF Typed, Tables
<1>2. PICK r : r = [uuid |-> request[w].event, provider |-> request[w].provider,
                    content |-> request[w].content, announced |-> request[w].content,
                    writer |-> request[w].provider]
  OBVIOUS
<1>3. r \in EventRow /\ r.provider \in Providers
  BY <1>2, RequestOf DEF EventRow, Request
<1>4. CASE "event" \in request[w].inserted
  <2>1. /\ eventRows' = eventRows + 1 /\ event' = [event EXCEPT ![eventRows + 1] = r]
        /\ eventRows < MaxEvents
    BY <1>2, <1>4 DEF AddEvent
  <2>2. event' \in EventTable /\ event'[eventRows + 1] = r
    BY <1>1, <1>3, <2>1
  <2>3. \A i \in 1..eventRows : event'[i] = event[i]
    BY <1>1, <2>1
  <2>4. r.uuid \in Events
    BY <1>2, <1>4, RequestOf DEF WholeProgress
  <2>5. EventsAreWhole'
    BY <1>1, <1>3, <2>1, <2>2, <2>3, <2>4 DEF EventsAreWhole, Typed, RowsAreWhole
  <2> QED
    BY <1>1, <1>2, <1>4, <2>1, <2>2, <2>3, <2>5
<1>5. CASE "event" \notin request[w].inserted
  BY <1>1, <1>5 DEF AddEvent, eventVars, EventsAreWhole, Typed, RowsAreWhole
<1> QED
  BY <1>4, <1>5

LEMMA NewType ==
  ASSUME Typed, NEW w \in Requests, request[w].provider \in Providers,
         eventRows' \in 0..MaxEvents, eventRows <= eventRows', NEW e \in 1..eventRows', AddType(w, e)
  PROVE  /\ typeRows' \in 0..MaxTypes /\ type' \in TicketTypeTable /\ typeRows <= typeRows'
         /\ \A i \in 1..typeRows : type'[i] = type[i]
         /\ TypesAreWhole'
         /\ IF request[w].typeId = 0
            THEN /\ typeRows' = typeRows + 1
                 /\ type'[typeRows + 1] =
                      [uuid |-> request[w].type, event |-> e, maker |-> request[w].provider]
            ELSE UNCHANGED <<typeRows, type>>
<1>1. /\ typeRows \in Nat /\ typeRows \in 0..MaxTypes /\ MaxTypes \in Nat /\ type \in TicketTypeTable
      /\ eventRows \in Nat /\ eventRows' \in Nat
  BY CatalogAssumption DEF Typed, Tables
<1>2. PICK r : r = [uuid |-> request[w].type, event |-> e, maker |-> request[w].provider]
  OBVIOUS
<1>3. e \in EventIds
  BY CatalogAssumption
<1>4. r \in TicketTypeRow
  BY <1>2, <1>3, RequestOf DEF TicketTypeRow, Request
<1>5. CASE request[w].typeId = 0
  <2>1. /\ typeRows' = typeRows + 1 /\ type' = [type EXCEPT ![typeRows + 1] = r]
        /\ typeRows < MaxTypes
    BY <1>2, <1>5 DEF AddType
  <2>2. type' \in TicketTypeTable /\ type'[typeRows + 1] = r
    BY <1>1, <1>4, <2>1
  <2>3. \A i \in 1..typeRows : type'[i] = type[i]
    BY <1>1, <2>1
  <2>4. TypesAreWhole'
    <3>1. ASSUME NEW i \in 1..typeRows'
          PROVE  type'[i].event \in 1..eventRows'
      <4>1. CASE i = typeRows + 1
        BY <1>2, <2>2, <4>1
      <4>2. CASE i # typeRows + 1
        <5>1. i \in 1..typeRows
          BY <1>1, <2>1, <3>1, <4>2
        <5> QED
          BY <1>1, <2>3, <5>1 DEF Typed, RowsAreWhole, TypesAreWhole
      <4> QED
        BY <4>1, <4>2
    <3> QED
      BY <3>1 DEF TypesAreWhole
  <2> QED
    BY <1>1, <1>2, <1>5, <2>1, <2>2, <2>3, <2>4
<1>6. CASE request[w].typeId # 0
  <2>1. UNCHANGED <<typeRows, type>>
    BY <1>6 DEF AddType, typeVars
  <2>2. TypesAreWhole'
    BY <1>1, <2>1 DEF TypesAreWhole, Typed, RowsAreWhole
  <2> QED
    BY <1>1, <1>6, <2>1, <2>2
<1> QED
  BY <1>5, <1>6

\* A transaction commits and its request is over.
LEMMA CommitIsTyped ==
  ASSUME Typed, Tables', RowsAreWhole', Grows,
         NEW w \in Requests, Close(w), Transacts(request[w])
  PROVE  Typed' /\ Grows
<1>1. Tables /\ RowsAreWhole
  BY DEF Typed
<1>2. Idle \in Request /\ WholeProgress(Idle) /\ WholeFindings(Idle)'
  BY <1>1, IdleIsWhole, FindingsStay
<1> QED
  BY <1>2, ClosingConnects, StepIsTyped

\* What CommitTicket adds.
LEMMA NewTicket ==
  ASSUME Typed, NEW w \in Requests, CommitTicket(w)
  PROVE  /\ Typed' /\ Grows
         /\ ticketRows' = ticketRows + 1
         /\ \A t \in 1..ticketRows : ticket'[t] = ticket[t]
         /\ LET r == ticket'[ticketRows + 1] IN
            /\ r.provider = request[w].provider
            /\ r.version = request[w].version /\ r.secret = request[w].secret
            /\ r.user \in 1..userRows' /\ user'[r.user].provider = r.provider
            /\ r.event \in 1..eventRows' /\ event'[r.event].provider = r.provider
            /\ r.type \in 1..typeRows' /\ event'[type'[r.type].event].provider = r.provider
            /\ IF request[w].typeId = 0
               THEN /\ typeRows' = typeRows + 1
                    /\ type'[typeRows + 1] =
                         [uuid |-> request[w].type, event |-> r.event, maker |-> request[w].provider]
               ELSE UNCHANGED <<typeRows, type>>
<1>1. PICK q : q = request[w]
  OBVIOUS
<1>2. q \in Request /\ WholeProgress(q) /\ WholeFindings(q) /\ q.step = "commitTicket"
  BY <1>1, RequestOf DEF CommitTicket
<1>3. /\ q.provider \in Providers /\ Transacts(q)
      /\ HasUser(q) /\ HasEvent(q) /\ HasType(q)
  BY <1>2 DEF WholeProgress, WholeFindings, Transacts
<1>4. PICK u, e, y : u = IdOf(q.userId, userRows) /\ e = IdOf(q.eventId, eventRows)
                     /\ y = IdOf(q.typeId, typeRows)
  OBVIOUS
<1>5. AddUser(w) /\ AddEvent(w) /\ AddType(w, e)
  BY <1>1, <1>4 DEF CommitTicket
<1>6. /\ userRows \in Nat /\ eventRows \in Nat /\ typeRows \in Nat /\ ticketRows \in Nat
      /\ ticketRows \in 0..MaxTickets /\ MaxTickets \in Nat /\ ticket \in TicketTable
  BY CatalogAssumption DEF Typed, Tables
<1>7. /\ userRows' \in 0..MaxUsers /\ user' \in UserTable /\ userRows <= userRows'
      /\ \A i \in 1..userRows : user'[i] = user[i]
      /\ UsersAreWhole'
      /\ IF "user" \in q.inserted
         THEN userRows' = userRows + 1 /\ user'[userRows + 1].provider = q.provider
         ELSE UNCHANGED <<userRows, user>>
  <2>1. request[w].provider \in Providers
    BY <1>1, <1>3
  <2>2. IF "user" \in request[w].inserted
        THEN /\ userRows' = userRows + 1
             /\ user'[userRows + 1] =
                  [uuid |-> request[w].user, provider |-> request[w].provider,
                   phone |-> request[w].phone]
        ELSE UNCHANGED <<userRows, user>>
    BY <1>5, <2>1, NewUser
  <2> QED
    BY <1>1, <1>5, <2>1, <2>2, NewUser
<1>8. /\ eventRows' \in 0..MaxEvents /\ event' \in EventTable /\ eventRows <= eventRows'
      /\ \A i \in 1..eventRows : event'[i] = event[i]
      /\ EventsAreWhole'
      /\ IF "event" \in q.inserted
         THEN eventRows' = eventRows + 1 /\ event'[eventRows + 1].provider = q.provider
         ELSE UNCHANGED <<eventRows, event>>
  <2>1. request[w].provider \in Providers
    BY <1>1, <1>3
  <2>2. IF "event" \in request[w].inserted
        THEN /\ eventRows' = eventRows + 1
             /\ event'[eventRows + 1] =
                  [uuid |-> request[w].event, provider |-> request[w].provider,
                       content |-> request[w].content, announced |-> request[w].content,
                       writer |-> request[w].provider]
        ELSE UNCHANGED <<eventRows, event>>
    BY <1>5, <2>1, NewEvent
  <2> QED
    BY <1>1, <1>5, <2>1, <2>2, NewEvent
<1>9. u \in 1..userRows' /\ user'[u].provider = q.provider
  BY <1>3, <1>4, <1>6, <1>7 DEF IdOf, HasUser
<1>10. e \in 1..eventRows' /\ event'[e].provider = q.provider
  BY <1>3, <1>4, <1>6, <1>8 DEF IdOf, HasEvent
<1>11. /\ typeRows' \in 0..MaxTypes /\ type' \in TicketTypeTable /\ typeRows <= typeRows'
       /\ \A i \in 1..typeRows : type'[i] = type[i]
       /\ TypesAreWhole'
       /\ IF request[w].typeId = 0
          THEN /\ typeRows' = typeRows + 1
               /\ type'[typeRows + 1] =
                    [uuid |-> request[w].type, event |-> e, maker |-> request[w].provider]
          ELSE UNCHANGED <<typeRows, type>>
  <2>1. request[w].provider \in Providers
    BY <1>1, <1>3
  <2> QED
    BY <1>5, <1>8, <1>10, <2>1, NewType
<1>12. y \in 1..typeRows' /\ event'[type'[y].event].provider = q.provider
  <2>1. CASE q.typeId = 0
    <3>1. y = typeRows + 1 /\ typeRows' = typeRows + 1
      BY <1>1, <1>4, <1>11, <2>1 DEF IdOf
    <3>2. type'[y].event = e
      BY <1>1, <1>11, <2>1, <3>1
    <3> QED
      BY <1>6, <1>10, <3>1, <3>2
  <2>2. CASE q.typeId # 0
    <3>1. y = q.typeId /\ y \in 1..typeRows /\ event[type[y].event].provider = q.provider
      BY <1>3, <1>4, <2>2 DEF IdOf, HasType
    <3>2. type[y].event \in 1..eventRows
      BY <3>1 DEF Typed, RowsAreWhole, TypesAreWhole
    <3> QED
      BY <1>1, <1>6, <1>8, <1>11, <2>2, <3>1, <3>2
  <2> QED
    BY <2>1, <2>2
<1>13. PICK r : r = [provider |-> q.provider, user |-> u, event |-> e, type |-> y,
                     version |-> q.version, secret |-> q.secret]
  OBVIOUS
<1>14. /\ ticketRows' = ticketRows + 1 /\ ticketRows < MaxTickets
       /\ ticket' = [ticket EXCEPT ![ticketRows + 1] = r]
       /\ UNCHANGED <<providers, keys, keyless>>
       /\ Close(w)
  BY <1>1, <1>4, <1>13 DEF CommitTicket, keyVars
<1>15. u \in UserIds /\ e \in EventIds /\ y \in TypeIds
  BY <1>7, <1>8, <1>9, <1>10, <1>11, <1>12, CatalogAssumption
<1>16. r \in TicketRow
  BY <1>2, <1>3, <1>13, <1>15 DEF TicketRow, Request
<1>17. /\ ticket' \in TicketTable /\ ticketRows' \in 0..MaxTickets
       /\ ticket'[ticketRows + 1] = r
       /\ \A t \in 1..ticketRows : ticket'[t] = ticket[t]
  BY <1>6, <1>14, <1>16
<1>18. Tables' /\ RowsAreWhole'
  BY <1>7, <1>8, <1>11, <1>14, <1>17 DEF Tables, RowsAreWhole, Typed
<1>19. Grows
  BY <1>6, <1>7, <1>8, <1>11, <1>14 DEF Grows
<1>20. Typed'
  BY <1>1, <1>3, <1>14, <1>18, <1>19, CommitIsTyped
<1>21. ticket'[ticketRows + 1] = r /\ r.event = e
  BY <1>13, <1>17
<1> QED
  BY <1>1, <1>9, <1>10, <1>11, <1>12, <1>13, <1>14, <1>17, <1>19, <1>20, <1>21

LEMMA CommitsAreTyped ==
  ASSUME Typed, NEW w \in Requests, Commits(w)
  PROVE  Typed' /\ Grows
<1>1. PICK q : q = request[w]
  OBVIOUS
<1>2. q \in Request /\ WholeProgress(q) /\ WholeFindings(q)
  BY <1>1, RequestOf
<1>3. /\ userRows \in Nat /\ eventRows \in Nat /\ typeRows \in Nat
      /\ Tables /\ RowsAreWhole
  BY CatalogAssumption DEF Typed, Tables
<1>4. CASE CommitTicket(w)
  BY <1>4, NewTicket
<1>5. CASE CommitUser(w)
  <2>1. /\ q.step = "commitUser" /\ AddUser(w) /\ Close(w)
        /\ UNCHANGED <<eventRows, event, typeRows, type, ticketRows, ticket>>
        /\ UNCHANGED <<providers, keys, keyless>>
    BY <1>1, <1>5 DEF CommitUser, eventVars, typeVars, ticketVars, keyVars
  <2>2. request[w].provider \in Providers /\ Transacts(request[w])
    BY <1>1, <1>2, <2>1 DEF WholeProgress, Transacts
  <2>3. /\ userRows' \in 0..MaxUsers /\ user' \in UserTable /\ userRows <= userRows'
        /\ \A i \in 1..userRows : user'[i] = user[i]
        /\ UsersAreWhole'
    BY <2>1, <2>2, NewUser
  <2>4. Tables' /\ RowsAreWhole' /\ Grows
    BY <1>3, <2>1, <2>3 DEF Tables, RowsAreWhole, EventsAreWhole, TypesAreWhole, Grows
  <2> QED
    BY <2>1, <2>2, <2>4, CommitIsTyped
<1>6. CASE CommitEvent(w)
  <2>1. /\ q.step = "commitEvent" /\ AddEvent(w) /\ Close(w)
        /\ UNCHANGED <<userRows, user, typeRows, type, ticketRows, ticket>>
        /\ UNCHANGED <<providers, keys, keyless>>
    BY <1>1, <1>6 DEF CommitEvent, userVars, typeVars, ticketVars, keyVars
  <2>2. request[w].provider \in Providers /\ Transacts(request[w])
    BY <1>1, <1>2, <2>1 DEF WholeProgress, Transacts
  <2>3. /\ eventRows' \in 0..MaxEvents /\ event' \in EventTable /\ eventRows <= eventRows'
        /\ \A i \in 1..eventRows : event'[i] = event[i]
        /\ EventsAreWhole'
    BY <2>1, <2>2, NewEvent
  <2>4. UsersAreWhole' /\ TypesAreWhole'
    BY <1>3, <2>1, <2>3 DEF RowsAreWhole, UsersAreWhole, TypesAreWhole
  <2>5. Tables' /\ RowsAreWhole' /\ Grows
    BY <1>3, <2>1, <2>3, <2>4 DEF Tables, RowsAreWhole, Grows
  <2> QED
    BY <2>1, <2>2, <2>5, CommitIsTyped
<1>7. CASE CommitUpdate(w)
  <2>1. /\ q.step = "commitUpdate" /\ Close(w)
        /\ UNCHANGED <<eventRows, userRows, user, typeRows, type, ticketRows, ticket>>
        /\ UNCHANGED <<providers, keys, keyless>>
    BY <1>1, <1>7 DEF CommitUpdate, userVars, typeVars, ticketVars, keyVars
  <2>2. q.provider \in Providers /\ Transacts(request[w])
    BY <1>1, <1>2, <2>1 DEF WholeProgress, Transacts
  <2>3. PICK i \in 1..eventRows :
          event' = [event EXCEPT ![i] =
                      [@ EXCEPT !.content = request[w].content, !.announced = request[w].content,
                                !.writer = request[w].provider]]
    BY <1>7 DEF CommitUpdate
  <2>4. PICK r : r = [event[i] EXCEPT !.content = q.content, !.announced = q.content,
                                      !.writer = q.provider]
    OBVIOUS
  <2>5. r \in EventRow /\ r.uuid = event[i].uuid /\ r.provider = event[i].provider
    <3>1. event[i] \in EventRow
      BY <1>3, <2>3, EventAt
    <3>2. q.content \in Contents \cup {None} /\ q.provider \in Providers \cup {None}
      BY <1>2 DEF Request
    <3> QED
      BY <2>4, <3>1, <3>2 DEF EventRow
  <2>6. event' = [event EXCEPT ![i] = r]
    BY <1>1, <2>3, <2>4
  <2>7. /\ event' \in EventTable
        /\ \A j \in 1..eventRows : /\ event'[j].uuid = event[j].uuid
                                   /\ event'[j].provider = event[j].provider
    BY <1>3, <2>5, <2>6, CatalogAssumption DEF Tables
  <2>8. EventsAreWhole' /\ UsersAreWhole' /\ TypesAreWhole'
    BY <1>3, <2>1, <2>7 DEF RowsAreWhole, EventsAreWhole, UsersAreWhole, TypesAreWhole
  <2>9. Tables'
    BY <1>3, <2>1, <2>7 DEF Tables
  <2>10. Grows
    BY <1>3, <2>1, <2>7 DEF Grows
  <2> QED
    BY <2>1, <2>2, <2>8, <2>9, <2>10, CommitIsTyped DEF RowsAreWhole
<1>8. CASE CommitTicketType(w)
  <2>1. /\ q.step = "commitType" /\ AddType(w, q.eventId) /\ Close(w)
        /\ UNCHANGED <<userRows, user, eventRows, event, ticketRows, ticket>>
        /\ UNCHANGED <<providers, keys, keyless>>
    BY <1>1, <1>8 DEF CommitTicketType, userVars, eventVars, ticketVars, keyVars
  <2>2. /\ request[w].provider \in Providers /\ Transacts(request[w])
        /\ q.eventId \in 1..eventRows
    BY <1>1, <1>2, <2>1 DEF WholeProgress, WholeFindings, Transacts
  <2>3. /\ eventRows' \in 0..MaxEvents /\ eventRows <= eventRows'
        /\ q.eventId \in 1..eventRows'
    BY <1>3, <2>1, <2>2 DEF Tables
  <2>4. /\ typeRows' \in 0..MaxTypes /\ type' \in TicketTypeTable /\ typeRows <= typeRows'
        /\ \A i \in 1..typeRows : type'[i] = type[i]
        /\ TypesAreWhole'
    BY <2>1, <2>2, <2>3, NewType
  <2>5. Tables' /\ RowsAreWhole' /\ Grows
    BY <1>3, <2>1, <2>4 DEF Tables, RowsAreWhole, EventsAreWhole, UsersAreWhole, Grows
  <2> QED
    BY <2>1, <2>2, <2>5, CommitIsTyped
<1> QED
  BY <1>4, <1>5, <1>6, <1>7, <1>8 DEF Commits

LEMMA KeysAreTyped ==
  ASSUME Typed, NEW w \in Requests, HandlesKeys(w),
         \A p \in Providers, v \in Versions : keys[p][v] # None => \A i \in 1..v : keys[p][i] # None
  PROVE  Typed' /\ Grows
<1>1. PICK r : r = request[w]
  OBVIOUS
<1>2. r \in Request /\ WholeProgress(r) /\ WholeFindings(r)
  BY <1>1, RequestOf
<1>3. /\ userRows \in Nat /\ eventRows \in Nat /\ typeRows \in Nat
      /\ Tables /\ RowsAreWhole
  BY CatalogAssumption DEF Typed, Tables
<1>4. ASSUME NEW p \in Providers, CreateProvider(w, p)
      PROVE  Typed' /\ Grows
  <2>1. PICK q : q = [Idle EXCEPT !.step = "readKey", !.provider = p]
    OBVIOUS
  <2>2. q \in Request /\ WholeProgress(q) /\ WholeFindings(q)'
    BY <2>1 DEF Idle, Request, Step, WholeProgress, WholeFindings
  <2>3. /\ UNCHANGED <<tableVars, keys, keyless>> /\ providers' = providers \cup {p}
        /\ Continue(w, q) /\ request[w] = Idle
    BY <1>4, <2>1 DEF CreateProvider
  <2>4. Tables' /\ RowsAreWhole' /\ Grows
    BY <1>3, <2>3 DEF Tables, RowsAreWhole, UsersAreWhole, EventsAreWhole, TypesAreWhole, Grows,
                      tableVars, userVars, eventVars, typeVars, ticketVars
  <2>5. Connects(w, q) /\ request' = [request EXCEPT ![w] = q]
    BY <2>1, <2>3 DEF Connects, Continue, Transacts, Idle
  <2> QED
    BY <2>2, <2>4, <2>5, StepIsTyped
<1>5. ASSUME NEW p \in Providers, CreateKey(w, p)
      PROVE  Typed' /\ Grows
  <2>1. PICK q : q = [Idle EXCEPT !.step = "readKey", !.provider = p]
    OBVIOUS
  <2>2. q \in Request /\ WholeProgress(q) /\ WholeFindings(q)
    BY <2>1 DEF Idle, Request, Step, WholeProgress, WholeFindings
  <2>3. UNCHANGED <<tableVars, keyVars>> /\ Continue(w, q)
    BY <1>5, <2>1 DEF CreateKey
  <2>4. Transacts(q) <=> Transacts(request[w])
    BY <1>5, <2>1 DEF CreateKey, Transacts, Idle
  <2> QED
    BY <2>2, <2>3, <2>4, Continuing
<1>6. CASE ReadVersion(w)
  <2>1. PICK v : v = CurrentVersion(r.provider) + 1
    OBVIOUS
  <2>2. PICK q : q = [r EXCEPT !.step = "insertKey", !.version = v]
    OBVIOUS
  <2>3. /\ r.step = "readKey" /\ UNCHANGED <<tableVars, keyVars>>
        /\ CurrentVersion(r.provider) < MaxVersion /\ Continue(w, q)
    BY <1>1, <1>6, <2>1, <2>2 DEF ReadVersion
  <2>4. r.provider \in Providers
    BY <1>2, <2>3 DEF WholeProgress
  <2>5. v \in Versions /\ \A i \in 1..(v - 1) : keys[r.provider][i] # None
    <3>1. CASE VersionsOf(r.provider) = {}
      <4>1. CurrentVersion(r.provider) = 0
        BY <3>1, CurrentVersionOf
      <4>2. v = 1 /\ 0 < MaxVersion
        BY <2>1, <2>3, <4>1
      <4>3. \A i : i \notin 1..(v - 1)
        BY <4>2
      <4> QED
        BY <4>2, <4>3, CatalogAssumption
    <3>2. CASE VersionsOf(r.provider) # {}
      <4>1. CurrentVersion(r.provider) \in VersionsOf(r.provider)
        BY <3>2, CurrentVersionOf
      <4>2. /\ CurrentVersion(r.provider) \in Versions
            /\ \A i \in 1..CurrentVersion(r.provider) : keys[r.provider][i] # None
        BY <2>4, <4>1 DEF VersionsOf
      <4> QED
        BY <2>1, <2>3, <4>2, CatalogAssumption
    <3> QED
      BY <3>1, <3>2
  <2>6. q \in Request
    BY <1>2, <2>2, <2>5, NextRequest DEF Step
  <2>7. /\ q.step = "insertKey" /\ q.version = v /\ q.provider = r.provider
        /\ q.inserted = r.inserted
    BY <1>2, <2>2 DEF Request
  <2>8. WholeProgress(q) /\ WholeFindings(q)
    BY <1>2, <2>3, <2>5, <2>7 DEF WholeProgress, WholeFindings
  <2>9. Transacts(q) <=> Transacts(request[w])
    BY <1>1, <2>3, <2>7 DEF Transacts
  <2> QED
    BY <2>3, <2>6, <2>8, <2>9, Continuing
<1>7. CASE InsertKey(w)
  <2>1. PICK p, v : p = r.provider /\ v = r.version
    OBVIOUS
  <2>2. /\ r.step = "insertKey" /\ Continue(w, Idle)
        /\ keys' = (IF keys[p][v] = None THEN [keys EXCEPT ![p][v] = w] ELSE keys)
        /\ UNCHANGED <<userRows, user, eventRows, event, typeRows, type, ticketRows, ticket>>
        /\ UNCHANGED <<providers, keyless>>
    BY <1>1, <1>7, <2>1 DEF InsertKey, tableVars, userVars, eventVars, typeVars, ticketVars
  <2>3. p \in Providers /\ v \in Versions
    BY <1>2, <2>1, <2>2 DEF WholeProgress, WholeFindings
  <2>4. /\ keys' \in EncryptionKeyTable
        /\ \A o \in Providers, i \in Versions : keys[o][i] # None => keys'[o][i] = keys[o][i]
    BY <1>3, <2>2, <2>3 DEF Tables
  <2>5. Tables' /\ RowsAreWhole' /\ Grows
    BY <1>3, <2>2, <2>4
       DEF Tables, RowsAreWhole, UsersAreWhole, EventsAreWhole, TypesAreWhole, Grows
  <2>6. Idle \in Request /\ WholeProgress(Idle) /\ WholeFindings(Idle)'
    BY <1>3, <2>5, IdleIsWhole, FindingsStay
  <2>7. Connects(w, Idle) /\ request' = [request EXCEPT ![w] = Idle]
    BY <1>1, <2>2 DEF Connects, Continue, Transacts, Idle
  <2> QED
    BY <2>5, <2>6, <2>7, StepIsTyped
<1> QED
  BY <1>4, <1>5, <1>6, <1>7 DEF HandlesKeys

-----------------------------------------------------------------------------
(* What a step changes.                                                     *)

NoGaps ==
  \A p \in Providers, v \in Versions : keys[p][v] # None => \A i \in 1..v : keys[p][i] # None

LEMMA StepGrows ==
  ASSUME Typed, NoGaps, NEW w \in Requests, RequestStep(w)
  PROVE  Typed' /\ Grows
<1>1. CASE Arrives(w)
  BY <1>1, ArrivesIsTyped
<1>2. CASE Searches(w)
  BY <1>2, UserSearchIsTyped, EventSearchIsTyped, TypeSearchIsTyped, KeySearchIsTyped,
     LockIsTyped DEF Searches
<1>3. CASE Commits(w)
  BY <1>3, CommitsAreTyped
<1>4. CASE HandlesKeys(w)
  BY <1>4, KeysAreTyped DEF NoGaps
<1>5. CASE FailRequest(w)
  BY <1>5, FailIsTyped
<1> QED
  BY <1>1, <1>2, <1>3, <1>4, <1>5 DEF RequestStep

\* A step changes the request that takes it, and no other.
LEMMA OneRequest ==
  ASSUME Typed, NEW w \in Requests, RequestStep(w)
  PROVE  \A v \in Requests : v # w => request'[v] = request[v]
<1>1. CASE Arrives(w)
  BY <1>1 DEF Arrives, OpensTicket, OpensType, CreateUser, CreateEvent, UpdateEvent, Open, Typed
<1>2. CASE Searches(w)
  BY <1>2 DEF Searches, FindUser, InsertUser, InsertPhone, FindEvent, InsertEvent, FindTicketType, FindKey,
              LockEvents, Continue, Close, Typed
<1>3. CASE Commits(w)
  BY <1>3 DEF Commits, CommitTicket, CommitUser, CommitEvent, CommitUpdate, CommitTicketType,
              Close, Typed
<1>4. CASE HandlesKeys(w)
  BY <1>4 DEF HandlesKeys, CreateProvider, CreateKey, ReadVersion, InsertKey, Continue, Typed
<1>5. CASE FailRequest(w)
  BY <1>5 DEF FailRequest, Continue, Close, Typed
<1> QED
  BY <1>1, <1>2, <1>3, <1>4, <1>5 DEF RequestStep

\* Who changes the keys and the tickets.
LEMMA KeysAndTickets ==
  ASSUME NEW w \in Requests, RequestStep(w)
  PROVE  /\ UNCHANGED <<ticketRows, ticket>> \/ CommitTicket(w)
         /\ UNCHANGED keys \/ InsertKey(w)
         /\ \/ UNCHANGED <<providers, keyless>> /\ request[w].step \notin {"readKey", "insertKey"}
            \/ HandlesKeys(w) \/ FailRequest(w)
<1>1. CASE Arrives(w)
  <2>1. UNCHANGED <<tableVars, keyVars>> /\ request[w] = Idle
    BY <1>1 DEF Arrives, OpensTicket, OpensType, CreateUser, CreateEvent, UpdateEvent, Open
  <2> QED
    BY <2>1 DEF Idle, tableVars, ticketVars, keyVars
<1>2. CASE Searches(w)
  BY <1>2 DEF Searches, FindUser, InsertUser, InsertPhone, FindEvent, InsertEvent, FindTicketType, FindKey,
              LockEvents, tableVars, ticketVars, keyVars
<1>3. CASE Commits(w)
  BY <1>3 DEF Commits, CommitTicket, CommitUser, CommitEvent, CommitUpdate, CommitTicketType,
              ticketVars, keyVars
<1>4. CASE HandlesKeys(w)
  BY <1>4 DEF HandlesKeys, CreateProvider, CreateKey, ReadVersion, tableVars, ticketVars, keyVars,
              InsertKey
<1>5. CASE FailRequest(w)
  BY <1>5 DEF FailRequest, tableVars, ticketVars
<1> QED
  BY <1>1, <1>2, <1>3, <1>4, <1>5 DEF RequestStep

-----------------------------------------------------------------------------
(* The keys.                                                                *)

TicketsEncrypted == \A t \in 1..ticketRows : Encrypted(ticket[t])

LEMMA InsertKeyFacts ==
  ASSUME Typed, NEW w \in Requests, InsertKey(w)
  PROVE  \E p \in Providers, v \in Versions :
           /\ p = request[w].provider
           /\ \A i \in 1..(v - 1) : keys[p][i] # None
           /\ keys' = IF keys[p][v] = None THEN [keys EXCEPT ![p][v] = w] ELSE keys
<1>1. request[w] \in Request /\ WholeProgress(request[w]) /\ WholeFindings(request[w])
  BY RequestOf
<1>2. request[w].step = "insertKey"
  BY DEF InsertKey
<1>3. request[w].provider \in Providers
  BY <1>1, <1>2 DEF WholeProgress
<1>4. /\ request[w].version \in Versions
      /\ \A i \in 1..(request[w].version - 1) : keys[request[w].provider][i] # None
  BY <1>1, <1>2 DEF WholeFindings
<1>5. keys' = IF keys[request[w].provider][request[w].version] = None
              THEN [keys EXCEPT ![request[w].provider][request[w].version] = w] ELSE keys
  BY DEF InsertKey
<1> QED
  BY <1>3, <1>4, <1>5

LEMMA GapsStep ==
  ASSUME Typed, NoGaps, NEW w \in Requests, RequestStep(w)
  PROVE  NoGaps'
<1>1. CASE UNCHANGED keys
  BY <1>1 DEF NoGaps
<1>2. CASE InsertKey(w)
  <2>1. PICK p \in Providers, v \in Versions :
           /\ p = request[w].provider
           /\ \A i \in 1..(v - 1) : keys[p][i] # None
           /\ keys' = IF keys[p][v] = None THEN [keys EXCEPT ![p][v] = w] ELSE keys
    BY <1>2, InsertKeyFacts
  <2>2. CASE keys[p][v] # None
    BY <2>1, <2>2 DEF NoGaps
  <2>3. CASE keys[p][v] = None
    <3>1. keys \in EncryptionKeyTable /\ keys' = [keys EXCEPT ![p][v] = w] /\ w # None
      BY <2>1, <2>3, CatalogAssumption DEF Typed, Tables
    <3>2. /\ keys'[p][v] = w
          /\ \A o \in Providers, i \in Versions :
               o # p \/ i # v => keys'[o][i] = keys[o][i]
      BY <3>1
    <3>3. ASSUME NEW o \in Providers, NEW i \in Versions, keys'[o][i] # None, NEW j \in 1..i
          PROVE  keys'[o][j] # None
      <4>1. j \in Versions
        BY CatalogAssumption
      <4>2. CASE o = p /\ j = v
        BY <3>1, <3>2, <4>2
      <4>3. CASE o = p /\ i = v /\ j # v
        <5>1. j \in 1..(v - 1)
          BY <4>3, CatalogAssumption
        <5> QED
          BY <2>1, <3>2, <4>1, <4>3, <5>1
      <4>4. CASE o # p \/ i # v
        <5>1. keys[o][i] # None
          BY <3>2, <3>3, <4>4
        <5>2. keys[o][j] # None
          BY <5>1 DEF NoGaps
        <5> QED
          BY <3>1, <3>2, <4>1, <5>2
      <4> QED
        BY <4>2, <4>3, <4>4
    <3> QED
      BY <3>3 DEF NoGaps
  <2> QED
    BY <2>2, <2>3
<1> QED
  BY <1>1, <1>2, KeysAndTickets

LEMMA EncryptedStays ==
  ASSUME Grows, NEW r, r.version \in Versions \cup {0}, Encrypted(r)
  PROVE  Encrypted(r)'
BY CatalogAssumption DEF Encrypted, Grows

\* The tickets that were there are still there, and at most one is new.
LEMMA OldTickets ==
  ASSUME Typed, NEW w \in Requests, RequestStep(w), NEW t \in 1..ticketRows'
  PROVE  /\ ticketRows \in Nat
         /\ \/ t \in 1..ticketRows /\ ticket'[t] = ticket[t] /\ ticket[t] \in TicketRow
            \/ t = ticketRows + 1 /\ CommitTicket(w)
<1>1. ticketRows \in Nat /\ ticketRows \in 0..MaxTickets /\ MaxTickets \in Nat
      /\ ticket \in TicketTable
  BY CatalogAssumption DEF Typed, Tables
<1>2. \A i \in 1..ticketRows : ticket[i] \in TicketRow
  BY <1>1
<1>3. CASE UNCHANGED <<ticketRows, ticket>>
  BY <1>1, <1>2, <1>3
<1>4. CASE CommitTicket(w)
  <2>1. ticketRows' = ticketRows + 1 /\ \A i \in 1..ticketRows : ticket'[i] = ticket[i]
    BY <1>4, NewTicket
  <2> QED
    BY <1>1, <1>2, <1>4, <2>1
<1> QED
  BY <1>3, <1>4, KeysAndTickets

LEMMA EncryptedStep ==
  ASSUME Typed, Grows, TicketsEncrypted, NEW w \in Requests, RequestStep(w)
  PROVE  TicketsEncrypted'
<1>1. SUFFICES ASSUME NEW t \in 1..ticketRows'
               PROVE  Encrypted(ticket[t])'
  BY DEF TicketsEncrypted
<1>2. PICK r : r = ticket'[t]
  OBVIOUS
<1>3. r.version \in Versions \cup {0} /\ Encrypted(r)
  <2>1. CASE t \in 1..ticketRows /\ r = ticket[t] /\ ticket[t] \in TicketRow
    BY <2>1 DEF TicketsEncrypted, TicketRow
  <2>2. CASE t = ticketRows + 1 /\ CommitTicket(w)
    <3>1. PICK q : q = request[w]
      OBVIOUS
    <3>2. q \in Request /\ WholeFindings(q) /\ q.step = "commitTicket"
      BY <2>2, <3>1, RequestOf DEF CommitTicket
    <3>3. Encrypted(q) /\ q.version \in Versions \cup {0}
      BY <3>2 DEF WholeFindings, Request
    <3>4. r.provider = q.provider /\ r.version = q.version /\ r.secret = q.secret
      BY <1>2, <2>2, <3>1, NewTicket
    <3> QED
      BY <3>3, <3>4 DEF Encrypted
  <2> QED
    BY <1>1, <1>2, <2>1, <2>2, OldTickets
<1>4. Encrypted(r)'
  BY <1>3, EncryptedStays
<1> QED
  BY <1>2, <1>4 DEF Encrypted

\* A provider without a key.
LEMMA KeylessStep ==
  ASSUME Typed, Grows, KeylessProviderHasFailed, NEW w \in Requests, RequestStep(w)
  PROVE  KeylessProviderHasFailed'
<1>1. SUFFICES ASSUME NEW p \in providers', VersionsOf(p)' = {}
               PROVE  \/ p \in keyless'
                      \/ \E v \in Requests : /\ request'[v].step \in {"readKey", "insertKey"}
                                             /\ request'[v].provider = p
  BY DEF KeylessProviderHasFailed
<1>2. /\ providers \subseteq Providers /\ request \in [Requests -> Request]
      /\ \A v \in Requests : v # w => request'[v] = request[v]
  BY OneRequest DEF Typed, Tables
<1>3. PICK r : r = request[w]
  OBVIOUS
<1>4. r \in Request /\ WholeProgress(r) /\ WholeFindings(r)
  BY <1>3, RequestOf
<1>5. ASSUME p \in providers
      PROVE  VersionsOf(p) = {}
  BY <1>1, <1>2, <1>5 DEF VersionsOf, Grows
<1>6. CASE UNCHANGED <<providers, keyless>> /\ request[w].step \notin {"readKey", "insertKey"}
  BY <1>1, <1>2, <1>5, <1>6 DEF KeylessProviderHasFailed
<1>7. CASE FailRequest(w)
  <2>1. /\ providers' = providers /\ keyless \subseteq keyless'
        /\ ~InTransaction(w) /\ VersionsOf(r.provider) = {} => r.provider \in keyless'
    BY <1>3, <1>7 DEF FailRequest
  <2>2. ASSUME NEW v \in Requests, request[v].step \in {"readKey", "insertKey"},
               request[v].provider = p
        PROVE  v # w \/ p \in keyless'
    BY <1>1, <1>3, <1>5, <2>1, <2>2 DEF InTransaction
  <2> QED
    BY <1>1, <1>2, <1>5, <2>1, <2>2 DEF KeylessProviderHasFailed
<1>8. ASSUME NEW o \in Providers, CreateProvider(w, o)
      PROVE  \/ p \in keyless'
             \/ \E v \in Requests : /\ request'[v].step \in {"readKey", "insertKey"}
                                    /\ request'[v].provider = p
  <2>1. /\ providers' = providers \cup {o} /\ UNCHANGED keyless /\ request[w] = Idle
        /\ request'[w] = [Idle EXCEPT !.step = "readKey", !.provider = o]
    BY <1>2, <1>8 DEF CreateProvider, Continue
  <2>2. request'[w].step = "readKey" /\ request'[w].provider = o
    BY <2>1 DEF Idle
  <2>3. CASE p = o
    BY <2>2, <2>3
  <2>4. CASE p \in providers
    BY <1>1, <1>2, <1>5, <2>1, <2>4 DEF KeylessProviderHasFailed, Idle
  <2> QED
    BY <1>1, <2>1, <2>3, <2>4
<1>9. ASSUME NEW o \in Providers, CreateKey(w, o)
      PROVE  \/ p \in keyless'
             \/ \E v \in Requests : /\ request'[v].step \in {"readKey", "insertKey"}
                                    /\ request'[v].provider = p
  <2>1. UNCHANGED <<providers, keyless>> /\ request[w] = Idle
    BY <1>9 DEF CreateKey, keyVars
  <2> QED
    BY <1>1, <1>2, <1>5, <2>1 DEF KeylessProviderHasFailed, Idle
<1>10. CASE ReadVersion(w)
  <2>1. PICK n : request'[w] = [r EXCEPT !.step = "insertKey", !.version = n]
    BY <1>2, <1>3, <1>10 DEF ReadVersion, Continue
  <2>2. request'[w].step = "insertKey" /\ request'[w].provider = r.provider
    BY <1>4, <2>1 DEF Request
  <2>3. UNCHANGED <<providers, keyless>>
    BY <1>10 DEF ReadVersion, keyVars
  <2> QED
    BY <1>1, <1>2, <1>3, <1>5, <2>2, <2>3 DEF KeylessProviderHasFailed
<1>11. CASE InsertKey(w)
  <2>1. UNCHANGED <<providers, keyless>>
    BY <1>11 DEF InsertKey
  <2>2. PICK o \in Providers, v \in Versions :
           /\ o = request[w].provider
           /\ keys' = IF keys[o][v] = None THEN [keys EXCEPT ![o][v] = w] ELSE keys
    BY <1>11, InsertKeyFacts
  <2>3. keys \in EncryptionKeyTable /\ w # None
    BY CatalogAssumption DEF Typed, Tables
  <2>4. keys'[o][v] # None
    BY <2>2, <2>3
  <2>5. o # p
    BY <1>1, <2>2, <2>4 DEF VersionsOf
  <2> QED
    BY <1>1, <1>2, <1>5, <2>1, <2>2, <2>5 DEF KeylessProviderHasFailed
<1> QED
  BY <1>6, <1>7, <1>8, <1>9, <1>10, <1>11, KeysAndTickets DEF HandlesKeys

-----------------------------------------------------------------------------
(* What the rows of a ticket belong to.                                     *)

LEMMA RefersStep ==
  ASSUME Typed, Typed', Grows, TicketRefersToItsProvider, NEW w \in Requests, RequestStep(w)
  PROVE  TicketRefersToItsProvider'
<1>1. /\ userRows \in Nat /\ eventRows \in Nat /\ typeRows \in Nat
      /\ userRows' \in Nat /\ eventRows' \in Nat /\ typeRows' \in Nat
      /\ userRows <= userRows' /\ eventRows <= eventRows' /\ typeRows <= typeRows'
      /\ \A i \in 1..typeRows : type[i].event \in 1..eventRows
  BY CatalogAssumption DEF Typed, Tables, Grows, RowsAreWhole, TypesAreWhole
<1>2. SUFFICES ASSUME NEW t \in 1..ticketRows',
                      NEW r, r = ticket'[t]
               PROVE  /\ r.user \in 1..userRows' /\ user'[r.user].provider = r.provider
                      /\ r.event \in 1..eventRows' /\ event'[r.event].provider = r.provider
                      /\ r.type \in 1..typeRows'
                      /\ event'[type'[r.type].event].provider = r.provider
  BY DEF TicketRefersToItsProvider
<1>3. CASE t \in 1..ticketRows /\ r = ticket[t]
  <2>1. /\ r.user \in 1..userRows /\ user[r.user].provider = r.provider
        /\ r.event \in 1..eventRows /\ event[r.event].provider = r.provider
        /\ r.type \in 1..typeRows /\ event[type[r.type].event].provider = r.provider
    BY <1>3 DEF TicketRefersToItsProvider
  <2>2. r.user \in 1..userRows' /\ user'[r.user].provider = r.provider
    BY <1>1, <2>1 DEF Grows
  <2>3. r.event \in 1..eventRows' /\ event'[r.event].provider = r.provider
    BY <1>1, <2>1 DEF Grows
  <2>4. r.type \in 1..typeRows' /\ event'[type'[r.type].event].provider = r.provider
    BY <1>1, <2>1 DEF Grows
  <2> QED
    BY <2>2, <2>3, <2>4
<1>4. CASE t = ticketRows + 1 /\ CommitTicket(w)
  BY <1>2, <1>4, NewTicket
<1> QED
  BY <1>2, <1>3, <1>4, OldTickets

-----------------------------------------------------------------------------
(* What the searches, and the inserts, leave of their requests.             *)

\* q goes on with the work of r, at the step s.
Proceeds(r, q, s) ==
  /\ q.provider = r.provider /\ q.user = r.user /\ q.phone = r.phone
  /\ q.event = r.event /\ q.type = r.type
  /\ q.inserted = r.inserted /\ q.typeId = r.typeId /\ q.step = s

LEMMA SearchFields ==
  ASSUME NEW r \in Request, NEW s
  PROVE  /\ Proceeds(r, [r EXCEPT !.step = s], s)
         /\ \A i : Proceeds(r, [r EXCEPT !.step = s, !.userId = i], s)
         /\ \A i : Proceeds(r, [r EXCEPT !.step = s, !.eventId = i], s)
         /\ \A v, k : Proceeds(r, [r EXCEPT !.step = s, !.version = v, !.secret = k], s)
BY DEF Request, Proceeds

LEMMA SearchEffect ==
  ASSUME Typed, NEW w \in Requests, Searches(w),
         NEW q, q = request'[w], NEW r, r = request[w], q # Idle
  PROVE  /\ q.provider = r.provider /\ q.user = r.user /\ q.phone = r.phone
         /\ q.event = r.event /\ q.type = r.type
         /\ q.step = "insertPhone" => InsertUser(w)
         /\ "user" \in q.inserted => "user" \in r.inserted \/ InsertPhone(w)
         /\ "event" \in q.inserted => "event" \in r.inserted \/ InsertEvent(w)
         /\ q.step \in {"findKey", "commitTicket", "commitType"} /\ q.typeId = 0 =>
              (r.step = "findKey" /\ r.typeId = 0) \/ TypesWith(r.type, r.provider) = {}
<1>1. r \in Request /\ request \in [Requests -> Request]
  BY RequestOf DEF Typed
<1>2. CASE FindUser(w)
  <2>1. \/ \E i : q = [r EXCEPT !.step = "findEvent", !.userId = i]
        \/ q = [r EXCEPT !.step = "insertUser"]
    BY <1>1, <1>2 DEF FindUser, Continue
  <2>2. Proceeds(r, q, "findEvent") \/ Proceeds(r, q, "insertUser")
    <3>1. /\ \A i : Proceeds(r, [r EXCEPT !.step = "findEvent", !.userId = i], "findEvent")
          /\ Proceeds(r, [r EXCEPT !.step = "insertUser"], "insertUser")
      BY <1>1, SearchFields
    <3>2. ASSUME NEW i, q = [r EXCEPT !.step = "findEvent", !.userId = i]
          PROVE  Proceeds(r, q, "findEvent")
      BY <3>1, <3>2, Zenon
    <3>3. ASSUME q = [r EXCEPT !.step = "insertUser"]
          PROVE  Proceeds(r, q, "insertUser")
      BY <3>1, <3>3, Zenon
    <3> QED
      BY <2>1, <3>2, <3>3, Zenon
  <2> QED
    BY <2>2 DEF Proceeds
<1>3. CASE FindEvent(w)
  <2>1. \/ \E i : q = [r EXCEPT !.step = "findType", !.eventId = i]
        \/ q = [r EXCEPT !.step = "insertEvent"]
    BY <1>1, <1>3 DEF FindEvent, Continue
  <2>2. Proceeds(r, q, "findType") \/ Proceeds(r, q, "insertEvent")
    <3>1. /\ \A i : Proceeds(r, [r EXCEPT !.step = "findType", !.eventId = i], "findType")
          /\ Proceeds(r, [r EXCEPT !.step = "insertEvent"], "insertEvent")
      BY <1>1, SearchFields
    <3>2. ASSUME NEW i, q = [r EXCEPT !.step = "findType", !.eventId = i]
          PROVE  Proceeds(r, q, "findType")
      BY <3>1, <3>2, Zenon
    <3>3. ASSUME q = [r EXCEPT !.step = "insertEvent"]
          PROVE  Proceeds(r, q, "insertEvent")
      BY <3>1, <3>3, Zenon
    <3> QED
      BY <2>1, <3>2, <3>3, Zenon
  <2> QED
    BY <2>2 DEF Proceeds
<1>4. CASE InsertUser(w)
  <2>1. q = [r EXCEPT !.step = "insertPhone"]
    BY <1>1, <1>4 DEF InsertUser, Continue, Close
  <2>2. Proceeds(r, [r EXCEPT !.step = "insertPhone"], "insertPhone")
    BY <1>1, SearchFields
  <2>3. Proceeds(r, q, "insertPhone")
    BY <2>1, <2>2, Zenon
  <2> QED
    BY <1>4, <2>3 DEF Proceeds
<1>9. CASE InsertPhone(w)
  <2>1. PICK s : s = IF r.type = None THEN "commitUser" ELSE "findEvent"
    OBVIOUS
  <2>2. q = [r EXCEPT !.step = s, !.inserted = {"user"}]
    BY <1>1, <1>9, <2>1 DEF InsertPhone, Continue, Close
  <2>3. /\ q.provider = r.provider /\ q.user = r.user /\ q.phone = r.phone
        /\ q.event = r.event /\ q.type = r.type
        /\ q.inserted = {"user"} /\ q.step = s
    BY <1>1, <2>2 DEF Request
  <2> QED
    BY <1>9, <2>1, <2>3
<1>5. CASE InsertEvent(w)
  <2>1. PICK s, new : /\ s = IF r.type = None THEN "commitEvent" ELSE "findType"
                      /\ new = r.inserted \cup {"event"}
    OBVIOUS
  <2>2. q = [r EXCEPT !.step = s, !.inserted = new]
    BY <1>1, <1>5, <2>1 DEF InsertEvent, Continue, Close
  <2>3. /\ q.provider = r.provider /\ q.user = r.user /\ q.phone = r.phone
        /\ q.event = r.event /\ q.type = r.type
        /\ q.inserted = new /\ q.step = s
    BY <1>1, <2>2 DEF Request
  <2> QED
    BY <1>5, <2>1, <2>3
<1>6. CASE FindTicketType(w)
  <2>1. PICK s : s = IF r.provider \in Level2 THEN "findKey" ELSE "commitTicket"
    OBVIOUS
  <2>2. \/ \E i \in TypesWith(r.type, r.provider) : q = [r EXCEPT !.step = s, !.typeId = i]
        \/ TypesWith(r.type, r.provider) = {} /\ q = [r EXCEPT !.step = s]
    BY <1>1, <1>6, <2>1 DEF FindTicketType, Continue
  <2>3. ASSUME NEW i \in TypesWith(r.type, r.provider), q = [r EXCEPT !.step = s, !.typeId = i]
        PROVE  /\ q.provider = r.provider /\ q.user = r.user /\ q.phone = r.phone
               /\ q.event = r.event /\ q.type = r.type /\ q.step = s
               /\ q.inserted = r.inserted /\ q.typeId # 0
    <3>1. i # 0
      BY CatalogAssumption DEF TypesWith, Typed, Tables
    <3> QED
      BY <1>1, <2>3, <3>1 DEF Request
  <2>4. ASSUME q = [r EXCEPT !.step = s]
        PROVE  /\ q.provider = r.provider /\ q.user = r.user /\ q.phone = r.phone
               /\ q.event = r.event /\ q.type = r.type /\ q.step = s
               /\ q.inserted = r.inserted
    BY <1>1, <2>4 DEF Request
  <2> QED
    BY <2>1, <2>2, <2>3, <2>4
<1>7. CASE FindKey(w)
  <2>1. PICK v, k : v = CurrentVersion(r.provider) /\ k = keys[r.provider][v]
    OBVIOUS
  <2>2. q = [r EXCEPT !.step = "commitTicket", !.version = v, !.secret = k]
    BY <1>1, <1>7, <2>1 DEF FindKey, Continue, Close
  <2>3. Proceeds(r, [r EXCEPT !.step = "commitTicket", !.version = v, !.secret = k], "commitTicket")
    BY <1>1, SearchFields
  <2>4. Proceeds(r, q, "commitTicket") /\ r.step = "findKey"
    BY <1>7, <2>2, <2>3 DEF FindKey
  <2> QED
    BY <2>4 DEF Proceeds
<1>8. CASE LockEvents(w)
  <2>1. q = [r EXCEPT !.step = "commitUpdate"]
    BY <1>1, <1>8 DEF LockEvents, Continue
  <2>2. Proceeds(r, [r EXCEPT !.step = "commitUpdate"], "commitUpdate")
    BY <1>1, SearchFields
  <2>3. Proceeds(r, q, "commitUpdate")
    BY <2>1, <2>2, Zenon
  <2> QED
    BY <2>3 DEF Proceeds
<1> QED
  BY <1>2, <1>3, <1>4, <1>5, <1>6, <1>7, <1>8, <1>9 DEF Searches

LEMMA StillSearches ==
  ASSUME NEW w \in Requests, Searches(w)
  PROVE  UNCHANGED <<tableVars, keyVars>>
BY DEF Searches, FindUser, InsertUser, InsertPhone, FindEvent, InsertEvent, FindTicketType, FindKey,
       LockEvents

LEMMA CommitsEnd ==
  ASSUME Typed, NEW w \in Requests, Commits(w)
  PROVE  request'[w] = Idle
BY DEF Commits, CommitTicket, CommitUser, CommitEvent, CommitUpdate, CommitTicketType, Close, Typed

\* The requests that come in, and those about keys, have nothing inserted.
LEMMA OthersInsertNothing ==
  ASSUME Typed, NEW w \in Requests, Arrives(w) \/ HandlesKeys(w) \/ FailRequest(w)
  PROVE  /\ UNCHANGED tableVars
         /\ request'[w].inserted = {} /\ request'[w].step # "insertPhone"
         /\ \/ request'[w].step \notin {"findKey", "commitTicket", "commitType"}
            \/ \E p \in Providers, y \in TicketTypes, i \in 1..eventRows : OpensType(w, p, y, i)
<1> USE DEF Typed
<1>1. CASE Arrives(w)
  <2>1. PICK p \in Providers :
          \/ \E u \in Users \cup {None}, n \in Phones, e \in Events, y \in TicketTypes :
               OpensTicket(w, p, u, n, e, y)
          \/ \E dto \in CreateUserDto : CreateUser(w, p, dto)
          \/ \E dto \in CreateEventDto : CreateEvent(w, p, dto)
          \/ \E dto \in UpdateEventDto : UpdateEvent(w, p, dto)
          \/ \E y \in TicketTypes, i \in 1..eventRows : OpensType(w, p, y, i)
    BY <1>1 DEF Arrives
  <2>2. CASE \E u \in Users \cup {None}, n \in Phones, e \in Events, y \in TicketTypes :
               OpensTicket(w, p, u, n, e, y)
    BY <2>2 DEF OpensTicket, Open, Idle
  <2>3. CASE \E dto \in CreateUserDto : CreateUser(w, p, dto)
    BY <2>3 DEF CreateUser, Open, Idle
  <2>4. CASE \E dto \in CreateEventDto : CreateEvent(w, p, dto)
    BY <2>4 DEF CreateEvent, Open, Idle
  <2>5. CASE \E dto \in UpdateEventDto : UpdateEvent(w, p, dto)
    BY <2>5 DEF UpdateEvent, Open, Idle
  <2>6. CASE \E y \in TicketTypes, i \in 1..eventRows : OpensType(w, p, y, i)
    BY <2>6 DEF OpensType, Open, Idle
  <2> QED
    BY <2>1, <2>2, <2>3, <2>4, <2>5, <2>6
<1>2. CASE HandlesKeys(w)
  <2>1. CASE \E p \in Providers : CreateProvider(w, p) \/ CreateKey(w, p)
    BY <2>1 DEF CreateProvider, CreateKey, Continue, Idle
  <2>2. CASE ReadVersion(w)
    <3>1. PICK r : r = request[w]
      OBVIOUS
    <3>2. r \in Request /\ WholeProgress(r) /\ r.step = "readKey"
      BY <2>2, <3>1, RequestOf DEF ReadVersion
    <3>3. \E v : request'[w] = [r EXCEPT !.step = "insertKey", !.version = v]
      BY <2>2, <3>1 DEF ReadVersion, Continue
    <3>4. request'[w].step = "insertKey" /\ request'[w].inserted = r.inserted
      BY <3>2, <3>3 DEF Request
    <3>5. r.inserted = {}
      BY <3>2 DEF WholeProgress, Request
    <3> QED
      BY <2>2, <3>4, <3>5 DEF ReadVersion
  <2>3. CASE InsertKey(w)
    BY <2>3 DEF InsertKey, Continue, Idle
  <2> QED
    BY <1>2, <2>1, <2>2, <2>3 DEF HandlesKeys
<1>3. CASE FailRequest(w)
  BY <1>3 DEF FailRequest, Close, Continue, Idle
<1> QED
  BY <1>1, <1>2, <1>3

-----------------------------------------------------------------------------
(* Requests wait for each other along the order in which they insert.       *)

LEMMA StuckByThePool ==
  ASSUME Typed
  PROVE  StuckOnlyByThePool
<1>1. SUFFICES ASSUME NEW w \in Active, \A v \in Active : Waiting(v),
                      ~(Cardinality({v \in Requests : InTransaction(v)}) >= PoolSize)
               PROVE  FALSE
  BY DEF StuckOnlyByThePool
<1>2. Free
  BY <1>1, CatalogAssumption DEF Free, Typed, OpenConnections
<1>3. ASSUME NEW v \in Requests, request[v].step # "idle"
      PROVE  \E x \in Requests : WaitsFor(v, x)
  BY <1>1, <1>2, <1>3 DEF Active, Waiting
<1>4. \A v \in Requests : WholeProgress(request[v]) /\ request[v] \in Request
  BY RequestOf
<1>5. \A v \in Requests : request[v].step = "idle" => request[v].inserted = {}
  BY <1>4 DEF WholeProgress, Idle
<1>6. ASSUME NEW v \in Requests, "event" \in request[v].inserted \/ Updating(v)
      PROVE  FALSE
  <2>1. PICK x \in Requests : WaitsFor(v, x)
    BY <1>3, <1>5, <1>6 DEF Updating
  <2>2. request[v].step \in {"findType", "findKey", "commitTicket", "commitEvent", "commitUpdate"}
    BY <1>4, <1>6 DEF WholeProgress, Updating
  <2> QED
    BY <2>1, <2>2 DEF WaitsFor
<1>7. ASSUME NEW v \in Requests, "user" \in request[v].inserted
      PROVE  FALSE
  <2>1. PICK x \in Requests : WaitsFor(v, x)
    BY <1>3, <1>5, <1>7
  <2>2. request[v].step \in
          {"findEvent", "insertEvent", "findType", "findKey", "commitTicket", "commitUser"}
    BY <1>4, <1>7 DEF WholeProgress
  <2>3. "event" \in request[x].inserted \/ Updating(x)
    BY <2>1, <2>2 DEF WaitsFor
  <2> QED
    BY <1>6, <2>3
<1>8. ASSUME NEW v \in Requests, request[v].step = "insertPhone"
      PROVE  FALSE
  <2>1. PICK x \in Requests : WaitsFor(v, x)
    BY <1>3, <1>8
  <2> QED
    BY <1>7, <1>8, <2>1 DEF WaitsFor
<1>9. PICK x \in Requests : WaitsFor(w, x)
  BY <1>1, <1>3 DEF Active
<1> QED
  BY <1>6, <1>7, <1>8, <1>9 DEF WaitsFor, HoldsUuid

-----------------------------------------------------------------------------
(* The indexes of users and events.                                         *)

UniqueUsers ==
  \A i, j \in 1..userRows :
    \/ user[i].uuid = user[j].uuid /\ user[i].uuid # None
    \/ user[i].provider = user[j].provider /\ user[i].phone = user[j].phone
    => i = j

\* q has inserted a user with a uuid of a client's, or is about to go on with it.
TakesUuid(q, u) ==
  u # None /\ (q.step = "insertPhone" \/ "user" \in q.inserted) /\ q.user = u

TakesPhone(q, p, n) == "user" \in q.inserted /\ q.provider = p /\ q.phone = n

NoUuid(u) == \A i \in 1..userRows : user[i].uuid # u
NoPhone(p, n) == \A i \in 1..userRows : ~(user[i].provider = p /\ user[i].phone = n)

\* The user of an open transaction is not there, and nobody else inserts it.
PendingUsers ==
  /\ \A u \in Users, w \in Requests : TakesUuid(request[w], u) =>
       NoUuid(u) /\ \A v \in Requests : TakesUuid(request[v], u) => v = w
  /\ \A p \in Providers, n \in Phones, w \in Requests : TakesPhone(request[w], p, n) =>
       NoPhone(p, n) /\ \A v \in Requests : TakesPhone(request[v], p, n) => v = w

UniqueEvents == \A i, j \in 1..eventRows : event[i].uuid = event[j].uuid => i = j

InsertsEvent(q, e) == "event" \in q.inserted /\ q.event = e

NoEventOf(e) == \A i \in 1..eventRows : event[i].uuid # e

PendingEvents ==
  \A e \in Events, w \in Requests : InsertsEvent(request[w], e) =>
    NoEventOf(e) /\ \A v \in Requests : InsertsEvent(request[v], e) => v = w

\* What a step does to the users: it takes keys that nobody has, or commits its own.
LEMMA UserEffect ==
  ASSUME Typed, NEW w \in Requests, RequestStep(w)
  PROVE  \/ /\ UNCHANGED <<userRows, user>>
            /\ \A u \in Users : TakesUuid(request'[w], u) =>
                 \/ TakesUuid(request[w], u)
                 \/ NoUuid(u) /\ \A v \in Requests : ~TakesUuid(request[v], u)
            /\ \A p \in Providers, n \in Phones : TakesPhone(request'[w], p, n) =>
                 \/ TakesPhone(request[w], p, n)
                 \/ NoPhone(p, n) /\ \A v \in Requests : ~TakesPhone(request[v], p, n)
         \/ /\ "user" \in request[w].inserted
            /\ request'[w] = Idle
            /\ userRows' = userRows + 1
            /\ user'[userRows + 1] = [uuid |-> request[w].user, provider |-> request[w].provider,
                                      phone |-> request[w].phone]
            /\ \A i \in 1..userRows : user'[i] = user[i]
<1>1. PICK r : r = request[w]
  OBVIOUS
<1>2. r \in Request /\ WholeProgress(r) /\ request \in [Requests -> Request]
  BY <1>1, RequestOf DEF Typed
<1>3. PICK q : q = request'[w]
  OBVIOUS
<1>4. CASE q.inserted = {} /\ q.step # "insertPhone" /\ UNCHANGED <<userRows, user>>
  BY <1>3, <1>4 DEF TakesUuid, TakesPhone
<1>5. CASE Searches(w)
  <2>1. UNCHANGED <<userRows, user>>
    BY <1>5, StillSearches DEF tableVars, userVars
  <2>2. ASSUME NEW u \in Users, TakesUuid(q, u), ~TakesUuid(r, u)
        PROVE  NoUuid(u) /\ \A v \in Requests : ~TakesUuid(request[v], u)
    <3>1. q # Idle
      BY <2>2 DEF TakesUuid, Idle
    <3>2. /\ q.user = r.user
          /\ q.step = "insertPhone" => InsertUser(w)
          /\ "user" \in q.inserted => "user" \in r.inserted \/ InsertPhone(w)
      BY <1>1, <1>3, <1>5, <3>1, SearchEffect
    <3>3. InsertPhone(w) => r.step = "insertPhone"
      BY <1>1 DEF InsertPhone
    <3>4. InsertUser(w) /\ r.user = u /\ u # None
      BY <2>2, <3>2, <3>3 DEF TakesUuid
    <3>5. r.step = "insertUser" /\ \A v \in Requests : ~WaitsFor(w, v)
      BY <1>1, <3>4 DEF InsertUser, Waiting
    <3>6. ~UuidTaken(w)
      BY <1>2, <1>3, <3>1, <3>4 DEF InsertUser, Close
    <3>7. NoUuid(u)
      BY <1>1, <3>4, <3>6 DEF UuidTaken, NoUuid
    <3> QED
      BY <1>1, <3>4, <3>5, <3>7 DEF WaitsFor, HoldsUuid, TakesUuid
  <2>3. ASSUME NEW p \in Providers, NEW n \in Phones, TakesPhone(q, p, n), ~TakesPhone(r, p, n)
        PROVE  NoPhone(p, n) /\ \A v \in Requests : ~TakesPhone(request[v], p, n)
    <3>1. q # Idle
      BY <2>3 DEF TakesPhone, Idle
    <3>2. InsertPhone(w) /\ r.provider = p /\ r.phone = n
      BY <1>1, <1>3, <1>5, <2>3, <3>1, SearchEffect DEF TakesPhone
    <3>3. r.step = "insertPhone" /\ \A v \in Requests : ~WaitsFor(w, v)
      BY <1>1, <3>2 DEF InsertPhone, Waiting
    <3>4. ~PhoneTaken(w)
      BY <1>2, <1>3, <3>1, <3>2 DEF InsertPhone, Close
    <3>5. NoPhone(p, n)
      BY <1>1, <3>2, <3>4 DEF PhoneTaken, NoPhone
    <3> QED
      BY <1>1, <3>2, <3>3, <3>5 DEF WaitsFor, TakesPhone
  <2> QED
    BY <1>1, <1>3, <2>1, <2>2, <2>3
<1>6. CASE Commits(w)
  <2>1. q = Idle
    BY <1>3, <1>6, CommitsEnd
  <2>2. CASE CommitTicket(w) \/ CommitUser(w)
    <3>1. AddUser(w) /\ request[w].provider \in Providers
      BY <1>1, <1>2, <2>2 DEF CommitTicket, CommitUser, WholeProgress
    <3>2. CASE "user" \in r.inserted
      <4>1. /\ userRows' = userRows + 1
            /\ user'[userRows + 1] = [uuid |-> r.user, provider |-> r.provider, phone |-> r.phone]
            /\ \A i \in 1..userRows : user'[i] = user[i]
        BY <1>1, <3>1, <3>2, NewUser
      <4> QED
        BY <1>1, <1>3, <2>1, <3>2, <4>1
    <3>3. CASE "user" \notin r.inserted
      BY <1>1, <1>4, <2>1, <3>1, <3>3, NewUser DEF Idle
    <3> QED
      BY <3>2, <3>3
  <2>3. CASE CommitEvent(w) \/ CommitUpdate(w) \/ CommitTicketType(w)
    BY <1>4, <2>1, <2>3 DEF CommitEvent, CommitUpdate, CommitTicketType, userVars, Idle
  <2> QED
    BY <1>6, <2>2, <2>3 DEF Commits
<1>7. CASE Arrives(w) \/ HandlesKeys(w) \/ FailRequest(w)
  BY <1>3, <1>4, <1>7, OthersInsertNothing DEF tableVars, userVars
<1> QED
  BY <1>5, <1>6, <1>7 DEF RequestStep

LEMMA UsersStep ==
  ASSUME Typed, UniqueUsers, PendingUsers, NEW w \in Requests, RequestStep(w)
  PROVE  UniqueUsers' /\ PendingUsers'
<1>1. /\ userRows \in Nat
      /\ \A v \in Requests : v # w => request'[v] = request[v]
  BY OneRequest, CatalogAssumption DEF Typed, Tables
<1>2. ASSUME UNCHANGED <<userRows, user>>,
             \A u \in Users : TakesUuid(request'[w], u) =>
               \/ TakesUuid(request[w], u)
               \/ NoUuid(u) /\ \A v \in Requests : ~TakesUuid(request[v], u),
             \A p \in Providers, n \in Phones : TakesPhone(request'[w], p, n) =>
               \/ TakesPhone(request[w], p, n)
               \/ NoPhone(p, n) /\ \A v \in Requests : ~TakesPhone(request[v], p, n)
      PROVE  UniqueUsers' /\ PendingUsers'
  <2>1. UniqueUsers'
    BY <1>2 DEF UniqueUsers
  <2>2. ASSUME NEW u \in Users, NEW x \in Requests, TakesUuid(request'[x], u)
        PROVE  NoUuid(u) /\ \A v \in Requests : TakesUuid(request'[v], u) => v = x
    BY <1>1, <1>2, <2>2 DEF PendingUsers
  <2>3. ASSUME NEW p \in Providers, NEW n \in Phones, NEW x \in Requests,
               TakesPhone(request'[x], p, n)
        PROVE  NoPhone(p, n) /\ \A v \in Requests : TakesPhone(request'[v], p, n) => v = x
    BY <1>1, <1>2, <2>3 DEF PendingUsers
  <2>4. PendingUsers'
    BY <1>2, <2>2, <2>3 DEF PendingUsers, TakesUuid, TakesPhone, NoUuid, NoPhone
  <2> QED
    BY <2>1, <2>4
<1>3. ASSUME /\ "user" \in request[w].inserted
             /\ request'[w] = Idle
             /\ userRows' = userRows + 1
             /\ user'[userRows + 1] = [uuid |-> request[w].user, provider |-> request[w].provider,
                                       phone |-> request[w].phone]
             /\ \A i \in 1..userRows : user'[i] = user[i]
      PROVE  UniqueUsers' /\ PendingUsers'
  <2>1. PICK u, p, n : u = request[w].user /\ p = request[w].provider /\ n = request[w].phone
    OBVIOUS
  <2>2. u \in Users \cup {None} /\ p \in Providers /\ n \in Phones
    BY <1>3, <2>1, RequestOf DEF Request, WholeProgress, Idle
  <2>3. /\ user'[userRows + 1].uuid = u
        /\ user'[userRows + 1].provider = p /\ user'[userRows + 1].phone = n
    BY <1>3, <2>1
  <2>4. u # None => /\ \A i \in 1..userRows : user[i].uuid # u
                    /\ \A v \in Requests : TakesUuid(request[v], u) => v = w
    BY <1>3, <2>1, <2>2 DEF PendingUsers, TakesUuid, NoUuid
  <2>5. /\ \A i \in 1..userRows : ~(user[i].provider = p /\ user[i].phone = n)
        /\ \A v \in Requests : TakesPhone(request[v], p, n) => v = w
    BY <1>3, <2>1, <2>2 DEF PendingUsers, TakesPhone, NoPhone
  <2>6. \A i \in 1..userRows' : i \in 1..userRows \/ i = userRows + 1
    BY <1>1, <1>3
  <2>7. UniqueUsers'
    <3>1. ASSUME NEW i \in 1..userRows', NEW j \in 1..userRows',
                 \/ user'[i].uuid = user'[j].uuid /\ user'[i].uuid # None
                 \/ user'[i].provider = user'[j].provider /\ user'[i].phone = user'[j].phone
          PROVE  i = j
      BY <1>3, <2>3, <2>4, <2>5, <2>6, <3>1 DEF UniqueUsers
    <3> QED
      BY <3>1 DEF UniqueUsers
  <2>8. ASSUME NEW a \in Users, NEW x \in Requests, TakesUuid(request'[x], a)
        PROVE  /\ \A i \in 1..userRows' : user'[i].uuid # a
               /\ \A v \in Requests : TakesUuid(request'[v], a) => v = x
    <3>1. \A v \in Requests : TakesUuid(request'[v], a) => v # w /\ TakesUuid(request[v], a)
      BY <1>1, <1>3 DEF TakesUuid, Idle
    <3>2. a # u
      <4>1. x # w /\ TakesUuid(request[x], a)
        BY <2>8, <3>1
      <4> QED
        BY <2>4, <4>1 DEF TakesUuid
    <3>3. /\ \A i \in 1..userRows : user[i].uuid # a
          /\ \A v \in Requests : TakesUuid(request[v], a) => v = x
      BY <2>8, <3>1 DEF PendingUsers, NoUuid
    <3> QED
      BY <1>3, <2>3, <2>6, <3>1, <3>2, <3>3
  <2>9. ASSUME NEW o \in Providers, NEW a \in Phones, NEW x \in Requests,
               TakesPhone(request'[x], o, a)
        PROVE  /\ \A i \in 1..userRows' : ~(user'[i].provider = o /\ user'[i].phone = a)
               /\ \A v \in Requests : TakesPhone(request'[v], o, a) => v = x
    <3>1. \A v \in Requests :
            TakesPhone(request'[v], o, a) => v # w /\ TakesPhone(request[v], o, a)
      BY <1>1, <1>3 DEF TakesPhone, Idle
    <3>2. o # p \/ a # n
      BY <2>5, <2>9, <3>1
    <3>3. /\ \A i \in 1..userRows : ~(user[i].provider = o /\ user[i].phone = a)
          /\ \A v \in Requests : TakesPhone(request[v], o, a) => v = x
      BY <2>9, <3>1 DEF PendingUsers, NoPhone
    <3> QED
      BY <1>3, <2>3, <2>6, <3>1, <3>2, <3>3
  <2>10. PendingUsers'
    BY <2>8, <2>9 DEF PendingUsers, TakesUuid, TakesPhone, NoUuid, NoPhone
  <2> QED
    BY <2>7, <2>10
<1> QED
  BY <1>2, <1>3, UserEffect

\* What a step does to the uuids and the providers of the events.
LEMMA EventEffect ==
  ASSUME Typed, NEW w \in Requests, RequestStep(w)
  PROVE  \/ /\ UNCHANGED eventRows
            /\ UNCHANGED event \/ CommitUpdate(w)
            /\ \A e \in Events : InsertsEvent(request'[w], e) =>
                 \/ InsertsEvent(request[w], e)
                 \/ NoEventOf(e) /\ \A v \in Requests : ~InsertsEvent(request[v], e)
         \/ /\ "event" \in request[w].inserted
            /\ request'[w] = Idle
            /\ eventRows' = eventRows + 1
            /\ event'[eventRows + 1] =
                 [uuid |-> request[w].event, provider |-> request[w].provider,
                  content |-> request[w].content, announced |-> request[w].content,
                  writer |-> request[w].provider]
            /\ \A i \in 1..eventRows : event'[i] = event[i]
<1>1. PICK r : r = request[w]
  OBVIOUS
<1>2. r \in Request /\ WholeProgress(r) /\ request \in [Requests -> Request]
  BY <1>1, RequestOf DEF Typed
<1>3. PICK q : q = request'[w]
  OBVIOUS
<1>4. CASE q.inserted = {} /\ UNCHANGED <<eventRows, event>>
  BY <1>3, <1>4 DEF InsertsEvent
<1>5. CASE Searches(w)
  <2>1. UNCHANGED <<eventRows, event>>
    BY <1>5, StillSearches DEF tableVars, eventVars
  <2>2. SUFFICES ASSUME NEW e \in Events, InsertsEvent(q, e), ~InsertsEvent(r, e)
                 PROVE  NoEventOf(e) /\ \A v \in Requests : ~InsertsEvent(request[v], e)
    BY <1>1, <1>3, <2>1
  <2>3. q # Idle
    BY <2>2 DEF InsertsEvent, Idle
  <2>4. InsertEvent(w) /\ r.event = e
    BY <1>1, <1>3, <1>5, <2>2, <2>3, SearchEffect DEF InsertsEvent
  <2>5. r.step = "insertEvent" /\ \A v \in Requests : ~WaitsFor(w, v)
    BY <1>1, <2>4 DEF InsertEvent, Waiting
  <2>6. ~EventKeyTaken(w)
    BY <1>2, <1>3, <2>3, <2>4 DEF InsertEvent, Close
  <2> QED
    BY <1>1, <2>4, <2>5, <2>6 DEF EventKeyTaken, WaitsFor, InsertsEvent, NoEventOf
<1>6. CASE Commits(w)
  <2>1. q = Idle
    BY <1>3, <1>6, CommitsEnd
  <2>2. CASE CommitTicket(w) \/ CommitEvent(w)
    <3>1. AddEvent(w) /\ request[w].provider \in Providers
      BY <1>1, <1>2, <2>2 DEF CommitTicket, CommitEvent, WholeProgress
    <3>2. CASE "event" \in r.inserted
      <4>1. /\ eventRows' = eventRows + 1
            /\ event'[eventRows + 1] =
                 [uuid |-> request[w].event, provider |-> request[w].provider,
                  content |-> request[w].content, announced |-> request[w].content,
                  writer |-> request[w].provider]
            /\ \A i \in 1..eventRows : event'[i] = event[i]
        BY <1>1, <3>1, <3>2, NewEvent
      <4> QED
        BY <1>1, <1>3, <2>1, <3>2, <4>1
    <3>3. CASE "event" \notin r.inserted
      BY <1>1, <1>4, <2>1, <3>1, <3>3, NewEvent DEF Idle
    <3> QED
      BY <3>2, <3>3
  <2>3. CASE CommitUser(w) \/ CommitTicketType(w)
    BY <1>4, <2>1, <2>3 DEF CommitUser, CommitTicketType, eventVars, Idle
  <2>4. CASE CommitUpdate(w)
    <3>1. UNCHANGED eventRows
      BY <2>4 DEF CommitUpdate
    <3>2. \A e : ~InsertsEvent(q, e)
      BY <2>1 DEF InsertsEvent, Idle
    <3> QED
      BY <1>3, <2>4, <3>1, <3>2
  <2> QED
    BY <1>6, <2>2, <2>3, <2>4 DEF Commits
<1>7. CASE Arrives(w) \/ HandlesKeys(w) \/ FailRequest(w)
  BY <1>3, <1>4, <1>7, OthersInsertNothing DEF tableVars, eventVars
<1> QED
  BY <1>5, <1>6, <1>7 DEF RequestStep

LEMMA EventsStep ==
  ASSUME Typed, Grows, UniqueEvents, PendingEvents, NEW w \in Requests, RequestStep(w)
  PROVE  UniqueEvents' /\ PendingEvents'
<1>1. /\ eventRows \in Nat
      /\ \A v \in Requests : v # w => request'[v] = request[v]
      /\ \A i \in 1..eventRows : event'[i].uuid = event[i].uuid
  BY OneRequest, CatalogAssumption DEF Typed, Tables, Grows
<1>2. ASSUME UNCHANGED eventRows,
             \A e \in Events : InsertsEvent(request'[w], e) =>
               \/ InsertsEvent(request[w], e)
               \/ NoEventOf(e) /\ \A v \in Requests : ~InsertsEvent(request[v], e)
      PROVE  UniqueEvents' /\ PendingEvents'
  <2>1. UniqueEvents'
    BY <1>1, <1>2 DEF UniqueEvents
  <2>2. ASSUME NEW e \in Events, NEW x \in Requests, InsertsEvent(request'[x], e)
        PROVE  /\ \A i \in 1..eventRows' : event'[i].uuid # e
               /\ \A v \in Requests : InsertsEvent(request'[v], e) => v = x
    <3>1. NoEventOf(e) /\ \A v \in Requests : InsertsEvent(request'[v], e) => v = x
      BY <1>1, <1>2, <2>2 DEF PendingEvents
    <3> QED
      BY <1>1, <1>2, <3>1 DEF NoEventOf
  <2>3. PendingEvents'
    BY <2>2 DEF PendingEvents, InsertsEvent, NoEventOf
  <2> QED
    BY <2>1, <2>3
<1>3. ASSUME /\ "event" \in request[w].inserted
             /\ request'[w] = Idle
             /\ eventRows' = eventRows + 1
             /\ event'[eventRows + 1].uuid = request[w].event
      PROVE  UniqueEvents' /\ PendingEvents'
  <2>1. PICK e : e = request[w].event
    OBVIOUS
  <2>2. e \in Events
    BY <1>3, <2>1, RequestOf DEF WholeProgress
  <2>3. /\ \A i \in 1..eventRows : event[i].uuid # e
        /\ \A v \in Requests : InsertsEvent(request[v], e) => v = w
    BY <1>3, <2>1, <2>2 DEF PendingEvents, InsertsEvent, NoEventOf
  <2>4. \A i \in 1..eventRows' : i \in 1..eventRows \/ i = eventRows + 1
    BY <1>1, <1>3
  <2>5. ASSUME NEW i \in 1..eventRows', NEW j \in 1..eventRows', event'[i].uuid = event'[j].uuid
        PROVE  i = j
    BY <1>1, <1>3, <2>1, <2>3, <2>4, <2>5 DEF UniqueEvents
  <2>6. ASSUME NEW a \in Events, NEW x \in Requests, InsertsEvent(request'[x], a)
        PROVE  /\ \A i \in 1..eventRows' : event'[i].uuid # a
               /\ \A v \in Requests : InsertsEvent(request'[v], a) => v = x
    <3>1. \A v \in Requests :
            InsertsEvent(request'[v], a) => v # w /\ InsertsEvent(request[v], a)
      BY <1>1, <1>3 DEF InsertsEvent, Idle
    <3>2. a # e
      BY <2>3, <2>6, <3>1
    <3>3. /\ \A i \in 1..eventRows : event[i].uuid # a
          /\ \A v \in Requests : InsertsEvent(request[v], a) => v = x
      BY <2>6, <3>1 DEF PendingEvents, NoEventOf
    <3> QED
      BY <1>1, <1>3, <2>1, <2>4, <3>1, <3>2, <3>3
  <2>7. UniqueEvents' /\ PendingEvents'
    BY <2>5, <2>6 DEF UniqueEvents, PendingEvents, InsertsEvent, NoEventOf
  <2> QED
    BY <2>7
<1>4. CASE /\ "event" \in request[w].inserted
           /\ request'[w] = Idle
           /\ eventRows' = eventRows + 1
           /\ event'[eventRows + 1] =
                [uuid |-> request[w].event, provider |-> request[w].provider,
                 content |-> request[w].content, announced |-> request[w].content,
                 writer |-> request[w].provider]
  <2>1. event'[eventRows + 1].uuid = request[w].event
    BY <1>4
  <2> QED
    BY <1>3, <1>4, <2>1
<1> QED
  BY <1>2, <1>4, EventEffect

-----------------------------------------------------------------------------
(* The events are written, and told of, by their own providers' requests.   *)

\* A provider that has an event of a uuid has the event of this uuid.
LEMMA OwnEvent ==
  ASSUME UniqueEvents, NEW i \in 1..eventRows, NEW p, EventsWith(event[i].uuid, p) # {}
  PROVE  event[i].provider = p
BY DEF EventsWith, UniqueEvents

OwnWriters == \A i \in 1..eventRows : event[i].writer = event[i].provider

OwnMakers == \A i \in 1..typeRows : type[i].maker = event[type[i].event].provider

LEMMA UpdateFacts ==
  ASSUME Typed, UniqueEvents, NEW w \in Requests, CommitUpdate(w)
  PROVE  /\ UNCHANGED eventRows
         /\ \A i \in 1..eventRows :
              \/ event'[i] = event[i]
              \/ event'[i].writer = event'[i].provider /\ event'[i].announced = event'[i].content
<1>1. PICK r : r = request[w]
  OBVIOUS
<1>2. UNCHANGED eventRows
  BY DEF CommitUpdate
<1>3. PICK i \in 1..eventRows :
        /\ event[i].uuid = r.event
        /\ event' = [event EXCEPT ![i] =
                       [@ EXCEPT !.content = r.content, !.announced = r.content,
                                 !.writer = r.provider]]
  BY <1>1 DEF CommitUpdate
<1>4. event[i].provider = r.provider
  <2>1. EventsWith(event[i].uuid, r.provider) # {}
    BY <1>1, <1>3, RequestOf DEF WholeFindings, CommitUpdate
  <2> QED
    BY <2>1, OwnEvent
<1>5. event[i] \in EventRow /\ i \in EventIds /\ event \in [EventIds -> EventRow]
  BY <1>3, EventAt DEF Typed
<1>6. event'[i] = [event[i] EXCEPT !.content = r.content, !.announced = r.content,
                                   !.writer = r.provider]
  BY <1>3, <1>5
<1>7. event'[i].writer = event'[i].provider /\ event'[i].announced = event'[i].content
  BY <1>4, <1>5, <1>6 DEF EventRow
<1>8. \A j \in 1..eventRows : j # i => event'[j] = event[j]
  BY <1>3, <1>5, CatalogAssumption DEF Typed, Tables
<1> QED
  BY <1>2, <1>7, <1>8

LEMMA WritersStep ==
  ASSUME Typed, UniqueEvents, OwnWriters, AnnouncedEventIsCurrent,
         NEW w \in Requests, RequestStep(w)
  PROVE  OwnWriters' /\ AnnouncedEventIsCurrent'
<1>1. eventRows \in Nat
  BY CatalogAssumption DEF Typed, Tables
<1>2. ASSUME \A i \in 1..eventRows' :
               \/ i \in 1..eventRows /\ event'[i] = event[i]
               \/ event'[i].writer = event'[i].provider /\ event'[i].announced = event'[i].content
      PROVE  OwnWriters' /\ AnnouncedEventIsCurrent'
  BY <1>2 DEF OwnWriters, AnnouncedEventIsCurrent
<1>3. CASE CommitUpdate(w)
  BY <1>2, <1>3, UpdateFacts
<1>4. CASE UNCHANGED <<eventRows, event>>
  BY <1>2, <1>4
<1>5. CASE /\ eventRows' = eventRows + 1
           /\ event'[eventRows + 1] =
                [uuid |-> request[w].event, provider |-> request[w].provider,
                 content |-> request[w].content, announced |-> request[w].content,
                 writer |-> request[w].provider]
           /\ \A i \in 1..eventRows : event'[i] = event[i]
  <2>1. \A i \in 1..eventRows' : i \in 1..eventRows \/ i = eventRows + 1
    BY <1>1, <1>5
  <2>2. /\ event'[eventRows + 1].writer = event'[eventRows + 1].provider
        /\ event'[eventRows + 1].announced = event'[eventRows + 1].content
    BY <1>5
  <2> QED
    BY <1>2, <1>5, <2>1, <2>2
<1> QED
  BY <1>3, <1>4, <1>5, EventEffect

\* What a step does to the ticket types.
LEMMA TypeEffect ==
  ASSUME Typed, NEW w \in Requests, RequestStep(w), NEW r, r = request[w]
  PROVE  \/ UNCHANGED <<typeRows, type>>
         \/ /\ r.typeId = 0 /\ r.step \in {"commitTicket", "commitType"} /\ request'[w] = Idle
            /\ typeRows' = typeRows + 1
            /\ \A i \in 1..typeRows : type'[i] = type[i]
            /\ \E e \in 1..eventRows' :
                 /\ type'[typeRows + 1] = [uuid |-> r.type, event |-> e, maker |-> r.provider]
                 /\ \/ event'[e].provider = r.provider
                    \/ e \in 1..eventRows /\ EventsWith(event[e].uuid, r.provider) # {}
<1>1. r \in Request /\ WholeProgress(r) /\ WholeFindings(r)
  BY RequestOf
<1>2. CASE Searches(w)
  BY <1>2, StillSearches DEF tableVars, typeVars
<1>3. CASE Arrives(w) \/ HandlesKeys(w) \/ FailRequest(w)
  BY <1>3, OthersInsertNothing DEF tableVars, typeVars
<1>4. CASE CommitUser(w) \/ CommitEvent(w) \/ CommitUpdate(w)
  BY <1>4 DEF CommitUser, CommitEvent, CommitUpdate, typeVars
<1>5. CASE CommitTicket(w)
  <2>1. PICK e : e = ticket'[ticketRows + 1].event
    OBVIOUS
  <2>2. /\ e \in 1..eventRows' /\ event'[e].provider = r.provider
        /\ IF r.typeId = 0
           THEN /\ typeRows' = typeRows + 1
                /\ type'[typeRows + 1] = [uuid |-> r.type, event |-> e, maker |-> r.provider]
           ELSE UNCHANGED <<typeRows, type>>
        /\ \A i \in 1..typeRows : type'[i] = type[i]
    BY <1>5, <2>1, NewTicket DEF Grows
  <2>3. r.step = "commitTicket" /\ request'[w] = Idle
    BY <1>5, CommitsEnd DEF Commits, CommitTicket
  <2> QED
    BY <2>2, <2>3
<1>6. CASE CommitTicketType(w)
  <2>1. PICK e : e = r.eventId
    OBVIOUS
  <2>2. /\ r.step = "commitType" /\ AddType(w, e) /\ UNCHANGED <<eventRows, event>>
        /\ request'[w] = Idle
    BY <1>6, <2>1, CommitsEnd DEF Commits, CommitTicketType, eventVars
  <2>3. /\ e \in 1..eventRows /\ EventsWith(event[e].uuid, r.provider) # {}
        /\ request[w].provider \in Providers /\ r.typeId = 0
    BY <1>1, <2>1, <2>2 DEF WholeProgress, WholeFindings
  <2>4. eventRows' \in 0..MaxEvents /\ eventRows <= eventRows' /\ e \in 1..eventRows'
    BY CatalogAssumption, <2>2, <2>3 DEF Typed, Tables
  <2>5. /\ typeRows' = typeRows + 1
        /\ type'[typeRows + 1] =
             [uuid |-> request[w].type, event |-> e, maker |-> request[w].provider]
        /\ \A i \in 1..typeRows : type'[i] = type[i]
    BY <2>2, <2>3, <2>4, NewType
  <2> QED
    BY <2>2, <2>3, <2>4, <2>5
<1> QED
  BY <1>2, <1>3, <1>4, <1>5, <1>6 DEF RequestStep, Commits

LEMMA MakersStep ==
  ASSUME Typed, Typed', Grows, UniqueEvents, OwnMakers, NEW w \in Requests, RequestStep(w)
  PROVE  OwnMakers'
<1>1. /\ typeRows \in Nat /\ eventRows \in Nat
      /\ \A i \in 1..typeRows : type[i].event \in 1..eventRows
      /\ \A i \in 1..eventRows : event'[i].provider = event[i].provider
  <2>1. typeRows \in Nat /\ eventRows \in Nat
    BY CatalogAssumption DEF Typed, Tables
  <2>2. \A i \in 1..typeRows : type[i].event \in 1..eventRows
    BY DEF Typed, RowsAreWhole, TypesAreWhole
  <2>3. \A i \in 1..eventRows : event'[i].provider = event[i].provider
    BY DEF Grows
  <2> QED
    BY <2>1, <2>2, <2>3
<1>2. PICK r : r = request[w]
  OBVIOUS
<1>3. ASSUME NEW i \in 1..typeRows, type'[i] = type[i]
      PROVE  type'[i].maker = event'[type'[i].event].provider
  BY <1>1, <1>3 DEF OwnMakers
<1>4. CASE UNCHANGED <<typeRows, type>>
  BY <1>3, <1>4 DEF OwnMakers
<1>5. ASSUME typeRows' = typeRows + 1, \A i \in 1..typeRows : type'[i] = type[i],
             NEW e \in 1..eventRows',
             type'[typeRows + 1] = [uuid |-> r.type, event |-> e, maker |-> r.provider],
             \/ event'[e].provider = r.provider
             \/ e \in 1..eventRows /\ EventsWith(event[e].uuid, r.provider) # {}
      PROVE  OwnMakers'
  <2>1. event'[e].provider = r.provider
    BY <1>1, <1>5, OwnEvent
  <2>2. type'[typeRows + 1].maker = event'[type'[typeRows + 1].event].provider
    BY <1>5, <2>1
  <2>3. \A i \in 1..typeRows' : i \in 1..typeRows \/ i = typeRows + 1
    BY <1>1, <1>5
  <2>4. ASSUME NEW i \in 1..typeRows'
        PROVE  type'[i].maker = event'[type'[i].event].provider
    BY <1>3, <1>5, <2>2, <2>3
  <2> QED
    BY <2>4 DEF OwnMakers
<1> QED
  BY <1>2, <1>4, <1>5, TypeEffect

-----------------------------------------------------------------------------
(* Ticket types created twice.                                              *)

\* A set grows by one only if one of a set of requests leaves it.
LEMMA BoundStep ==
  ASSUME NEW S, NEW H, NEW S2, NEW H2, IsFiniteSet(S), H \subseteq Requests, H2 \subseteq Requests,
         Cardinality(S) + Cardinality(H) <= Cardinality(Requests),
         \/ S2 \subseteq S /\ H2 \subseteq H
         \/ S2 = {}
         \/ \E x : \E w \in H : S2 \subseteq S \cup {x} /\ H2 \subseteq H \ {w}
  PROVE  Cardinality(S2) + Cardinality(H2) <= Cardinality(Requests)
<1>1. IsFiniteSet(Requests) /\ IsFiniteSet(H) /\ IsFiniteSet(H2)
  BY CatalogAssumption, FS_Subset
<1>2. /\ Cardinality(Requests) \in Nat /\ Cardinality(S) \in Nat
      /\ Cardinality(H) \in Nat /\ Cardinality(H2) \in Nat
      /\ Cardinality(H2) <= Cardinality(Requests)
  BY <1>1, FS_CardinalityType, FS_Subset
<1>3. CASE S2 \subseteq S /\ H2 \subseteq H
  <2>1. /\ Cardinality(S2) <= Cardinality(S) /\ Cardinality(H2) <= Cardinality(H)
        /\ IsFiniteSet(S2)
    BY <1>1, <1>3, FS_Subset
  <2>2. Cardinality(S2) \in Nat
    BY <2>1, FS_CardinalityType
  <2> QED
    BY <1>2, <2>1, <2>2
<1>4. CASE S2 = {}
  <2>1. Cardinality(S2) = 0
    BY <1>4, FS_EmptySet
  <2> QED
    BY <1>2, <2>1
<1>5. ASSUME NEW x, NEW w \in H, S2 \subseteq S \cup {x}, H2 \subseteq H \ {w}
      PROVE  Cardinality(S2) + Cardinality(H2) <= Cardinality(Requests)
  <2>1. IsFiniteSet(S \cup {x}) /\ Cardinality(S \cup {x}) <= Cardinality(S) + 1
    <3>1. /\ IsFiniteSet(S \cup {x})
          /\ \/ Cardinality(S \cup {x}) = Cardinality(S)
             \/ Cardinality(S \cup {x}) = Cardinality(S) + 1
      BY FS_AddElement
    <3> QED
      BY <3>1, <1>2
  <2>2. IsFiniteSet(S2) /\ Cardinality(S2) <= Cardinality(S \cup {x})
    BY <1>5, <2>1, FS_Subset
  <2>3. IsFiniteSet(H \ {w}) /\ Cardinality(H \ {w}) = Cardinality(H) - 1
    BY <1>1, FS_RemoveElement
  <2>4. Cardinality(H2) <= Cardinality(H \ {w})
    BY <1>5, <2>3, FS_Subset
  <2>5. Cardinality(S2) \in Nat /\ Cardinality(S \cup {x}) \in Nat
    BY <2>1, <2>2, FS_CardinalityType
  <2> QED
    BY <1>2, <2>1, <2>2, <2>3, <2>4, <2>5
<1> QED
  BY <1>3, <1>4, <1>5

\* The types of a uuid that a provider's requests have created, and are about to create.
Made(y, p) == {i \in TypesWith(y, p) : type[i].maker = p}

WillMake(q, y, p) ==
  /\ q.step \in {"findKey", "commitTicket", "commitType"}
  /\ q.type = y /\ q.provider = p /\ q.typeId = 0

Making(y, p) == {w \in Requests : WillMake(request[w], y, p)}

TypesBounded ==
  \A y \in TicketTypes, p \in Providers :
    Cardinality(Made(y, p)) + Cardinality(Making(y, p)) <= Cardinality(Requests)

\* A request that is about to create a type has been, or has found none.
LEMMA MakingStep ==
  ASSUME Typed, NEW w \in Requests, RequestStep(w), NEW y, NEW p, WillMake(request'[w], y, p)
  PROVE  WillMake(request[w], y, p) \/ TypesWith(y, p) = {}
<1>1. PICK q, r : q = request'[w] /\ r = request[w]
  OBVIOUS
<1>2. q # Idle
  BY <1>1 DEF WillMake, Idle
<1>3. CASE Searches(w)
  <2>1. /\ q.type = r.type /\ q.provider = r.provider
        /\ (r.step = "findKey" /\ r.typeId = 0) \/ TypesWith(r.type, r.provider) = {}
    BY <1>1, <1>2, <1>3, SearchEffect DEF WillMake
  <2> QED
    BY <1>1, <2>1 DEF WillMake
<1>4. CASE Commits(w)
  BY <1>1, <1>2, <1>4, CommitsEnd
<1>5. CASE Arrives(w) \/ HandlesKeys(w) \/ FailRequest(w)
  <2>1. PICK o \in Providers, t \in TicketTypes, i \in 1..eventRows : OpensType(w, o, t, i)
    BY <1>1, <1>5, OthersInsertNothing DEF WillMake
  <2>2. q = [Idle EXCEPT !.step = "commitType", !.provider = o, !.type = t, !.eventId = i]
    BY <1>1, <2>1 DEF OpensType, Open, Typed
  <2>3. q.type = t /\ q.provider = o
    BY <2>2 DEF Idle
  <2> QED
    BY <1>1, <2>1, <2>3 DEF OpensType, WillMake
<1> QED
  BY <1>3, <1>4, <1>5 DEF RequestStep

LEMMA TypesStep ==
  ASSUME Typed, Typed', Grows, TypesBounded, NEW w \in Requests, RequestStep(w)
  PROVE  TypesBounded'
<1>1. /\ typeRows \in Nat /\ typeRows' \in Nat /\ eventRows \in Nat
      /\ \A i \in 1..typeRows : type[i].event \in 1..eventRows
      /\ \A v \in Requests : v # w => request'[v] = request[v]
  BY CatalogAssumption, OneRequest DEF Typed, Tables, RowsAreWhole, TypesAreWhole
<1>2. SUFFICES ASSUME NEW y \in TicketTypes, NEW p \in Providers
               PROVE  Cardinality(Made(y, p)') + Cardinality(Making(y, p)') <= Cardinality(Requests)
  BY DEF TypesBounded
<1>3. PICK S, H, S2, H2 : /\ S = Made(y, p) /\ H = Making(y, p)
                          /\ S2 = Made(y, p)' /\ H2 = Making(y, p)'
  OBVIOUS
<1>4. /\ H \subseteq Requests /\ H2 \subseteq Requests
      /\ Cardinality(S) + Cardinality(H) <= Cardinality(Requests)
  BY <1>3 DEF Making, TypesBounded
<1>5. IsFiniteSet(S)
  <2>1. 1 \in Int /\ typeRows \in Int
    BY <1>1
  <2>2. IsFiniteSet(1..typeRows)
    BY <2>1, FS_Interval
  <2>3. S \subseteq 1..typeRows
    BY <1>3 DEF Made, TypesWith
  <2> QED
    BY <2>2, <2>3, FS_Subset
<1>6. \A v \in Requests : v \in H2 => v \in H \/ (v = w /\ TypesWith(y, p) = {})
  <2>1. ASSUME NEW v \in Requests, WillMake(request'[v], y, p)
        PROVE  WillMake(request[v], y, p) \/ (v = w /\ TypesWith(y, p) = {})
    BY <1>1, <2>1, MakingStep
  <2> QED
    BY <1>3, <2>1 DEF Making, WillMake
<1>7. ASSUME NEW i \in 1..typeRows, type'[i] = type[i]
      PROVE  i \in S2 <=> i \in S
  <2>1. event'[type[i].event].provider = event[type[i].event].provider
    BY <1>1 DEF Grows
  <2>2. i \in 1..typeRows'
    BY <1>1 DEF Grows
  <2> QED
    BY <1>3, <1>7, <2>1, <2>2 DEF Made, TypesWith
<1>8. \A i \in S2 : i \in 1..typeRows'
  BY <1>3 DEF Made, TypesWith
<1>9. CASE UNCHANGED <<typeRows, type>>
  <2>1. S2 = S
    BY <1>5, <1>3, <1>7, <1>8, <1>9 DEF Made, TypesWith
  <2>2. TypesWith(y, p) = {} => S = {}
    BY <1>3 DEF Made
  <2>3. (S2 \subseteq S /\ H2 \subseteq H) \/ S2 = {}
    BY <1>4, <1>6, <2>1, <2>2
  <2> QED
    BY <1>3, <1>4, <1>5, <2>3, BoundStep
<1>10. ASSUME NEW r, r = request[w],
              r.typeId = 0, r.step \in {"commitTicket", "commitType"}, request'[w] = Idle,
              typeRows' = typeRows + 1,
              \A i \in 1..typeRows : type'[i] = type[i],
              NEW e, type'[typeRows + 1] = [uuid |-> r.type, event |-> e, maker |-> r.provider]
       PROVE  Cardinality(S2) + Cardinality(H2) <= Cardinality(Requests)
  <2>1. H2 \subseteq H \ {w}
    BY <1>4, <1>3, <1>6, <1>10 DEF Making, WillMake, Idle
  <2>2. S2 \subseteq S \cup {typeRows + 1}
    BY <1>1, <1>7, <1>8, <1>10
  <2>3. CASE w \in H
    BY <1>4, <1>5, <2>1, <2>2, <2>3, BoundStep
  <2>4. CASE w \notin H
    <3>1. typeRows + 1 \notin S2
      <4>1. r.type # y \/ r.provider # p
        BY <1>3, <1>10, <2>4 DEF Making, WillMake
      <4>2. type'[typeRows + 1].uuid # y \/ type'[typeRows + 1].maker # p
        BY <1>10, <4>1
      <4> QED
        BY <1>3, <4>2 DEF Made, TypesWith
    <3>2. S2 \subseteq S /\ H2 \subseteq H
      BY <2>1, <2>2, <3>1
    <3> QED
      BY <1>4, <1>5, <3>2, BoundStep
  <2> QED
    BY <2>3, <2>4
<1>11. PICK r : r = request[w]
  OBVIOUS
<1>12. \/ UNCHANGED <<typeRows, type>>
       \/ /\ r.typeId = 0 /\ r.step \in {"commitTicket", "commitType"} /\ request'[w] = Idle
          /\ typeRows' = typeRows + 1
          /\ \A i \in 1..typeRows : type'[i] = type[i]
          /\ \E e : type'[typeRows + 1] = [uuid |-> r.type, event |-> e, maker |-> r.provider]
  BY <1>11, TypeEffect
<1>13. CASE ~UNCHANGED <<typeRows, type>>
  <2>1. Cardinality(S2) + Cardinality(H2) <= Cardinality(Requests)
    BY <1>10, <1>11, <1>12, <1>13
  <2> QED
    BY <1>3, <2>1
<1> QED
  BY <1>9, <1>13

-----------------------------------------------------------------------------
(* The theorems.                                                            *)

\* What holds of every state that can be reached.
CatalogInv ==
  /\ Typed
  /\ NoGaps /\ TicketsEncrypted /\ KeylessProviderHasFailed
  /\ TicketRefersToItsProvider
  /\ UniqueUsers /\ PendingUsers
  /\ UniqueEvents /\ PendingEvents
  /\ TypesBounded
  /\ OwnWriters /\ OwnMakers /\ AnnouncedEventIsCurrent

LEMMA InitTyped ==
  ASSUME Init
  PROVE  Typed
<1>1. Tables
  <2>1. /\ NoUser \in UserRow /\ NoEvent \in EventRow
        /\ NoType \in TicketTypeRow /\ NoTicket \in TicketRow
    BY DEF NoUser, NoEvent, NoType, NoTicket, UserRow, EventRow, TicketTypeRow, TicketRow
  <2>2. user \in UserTable /\ event \in EventTable /\ type \in TicketTypeTable
        /\ ticket \in TicketTable
    BY <2>1 DEF Init
  <2> QED
    BY <2>2, CatalogAssumption DEF Init, Tables
<1>2. RowsAreWhole
  BY DEF Init, RowsAreWhole, UsersAreWhole, EventsAreWhole, TypesAreWhole
<1>3. request \in [Requests -> Request] /\ RequestsAreWhole
  BY IdleIsWhole DEF Init, RequestsAreWhole, WholeRequest
<1>4. connections \in 0..PoolSize /\ OpenConnections
  <2>1. {w \in Requests : InTransaction(w)} = {}
    BY DEF Init, InTransaction, Idle
  <2> QED
    <3>1. connections = 0 /\ PoolSize \in Nat /\ 0 \in 0..PoolSize
      BY CatalogAssumption DEF Init
    <3>2. Cardinality({w \in Requests : InTransaction(w)}) = 0
      BY <2>1, FS_EmptySet
    <3> QED
      BY <3>1, <3>2 DEF OpenConnections
<1> QED
  BY <1>1, <1>2, <1>3, <1>4 DEF Typed

LEMMA InitInv ==
  ASSUME Init
  PROVE  CatalogInv
<1>1. Typed
  BY InitTyped
<1>2. NoGaps
  BY DEF Init, NoGaps
<1>3. TicketsEncrypted /\ TicketRefersToItsProvider /\ KeylessProviderHasFailed
  BY DEF Init, TicketsEncrypted, TicketRefersToItsProvider, KeylessProviderHasFailed
<1>4. UniqueUsers /\ PendingUsers /\ UniqueEvents /\ PendingEvents
  BY DEF Init, UniqueUsers, PendingUsers, UniqueEvents, PendingEvents, TakesUuid, TakesPhone,
         InsertsEvent, Idle
<1>5. OwnWriters /\ OwnMakers /\ AnnouncedEventIsCurrent
  BY DEF Init, OwnWriters, OwnMakers, AnnouncedEventIsCurrent
<1>6. TypesBounded
  <2>1. SUFFICES ASSUME NEW y \in TicketTypes, NEW p \in Providers
                 PROVE  Cardinality(Made(y, p)) + Cardinality(Making(y, p)) <= Cardinality(Requests)
    BY DEF TypesBounded
  <2>2. Made(y, p) = {} /\ Making(y, p) = {}
    BY DEF Init, Made, TypesWith, Making, WillMake, Idle
  <2>3. Cardinality({}) = 0 /\ Cardinality(Requests) \in Nat
    BY CatalogAssumption, FS_EmptySet, FS_CardinalityType
  <2> QED
    BY <2>2, <2>3
<1> QED
  BY <1>1, <1>2, <1>3, <1>4, <1>5, <1>6 DEF CatalogInv

LEMMA NextInv ==
  ASSUME CatalogInv, [Next]_vars
  PROVE  CatalogInv'
<1>1. CASE UNCHANGED vars
  <2>1. /\ UNCHANGED <<providers, keys, keyless, userRows, user, eventRows, event>>
        /\ UNCHANGED <<typeRows, type, ticketRows, ticket, connections, request>>
    BY <1>1 DEF vars, tableVars, userVars, eventVars, typeVars, ticketVars, keyVars
  <2>2. Tables' /\ RowsAreWhole' /\ OpenConnections'
    BY <2>1 DEF CatalogInv, Typed, Tables, RowsAreWhole, UsersAreWhole, EventsAreWhole,
                TypesAreWhole, OpenConnections, InTransaction
  <2>3. RequestsAreWhole'
    <3>1. UNCHANGED <<tableVars, providers, keys>> /\ keyless' \subseteq Providers
      BY <1>1 DEF vars, keyVars, CatalogInv, Typed, Tables
    <3>2. Tables /\ RowsAreWhole
      BY DEF CatalogInv, Typed
    <3>3. Grows
      BY <3>1, <3>2, StillIsTyped
    <3>4. ASSUME NEW v \in Requests, NEW r, r = request[v]
          PROVE  r \in Request /\ WholeProgress(r) /\ WholeFindings(r)'
      <4>1. r \in Request /\ WholeProgress(r) /\ WholeFindings(r)
        BY <3>4, RequestOf DEF CatalogInv
      <4> QED
        BY <2>2, <3>2, <3>3, <4>1, FindingsStay
    <3>5. ASSUME NEW v \in Requests
          PROVE  WholeRequest(request[v])'
      <4>1. PICK r : r = request[v] /\ r = request'[v]
        BY <2>1
      <4>2. WholeRequest(r)'
        BY <3>4, <4>1 DEF WholeRequest, WholeProgress
      <4> QED
        BY <4>1, <4>2
    <3> QED
      BY <3>5 DEF RequestsAreWhole
  <2>4. Typed'
    BY <2>1, <2>2, <2>3 DEF CatalogInv, Typed
  <2>5. NoGaps' /\ TicketsEncrypted' /\ KeylessProviderHasFailed' /\ TicketRefersToItsProvider'
    BY <2>1 DEF CatalogInv, NoGaps, TicketsEncrypted, Encrypted, KeylessProviderHasFailed,
                VersionsOf, TicketRefersToItsProvider
  <2>6. UniqueUsers' /\ PendingUsers' /\ UniqueEvents' /\ PendingEvents'
    BY <2>1 DEF CatalogInv, UniqueUsers, PendingUsers, UniqueEvents, PendingEvents, NoUuid,
                NoPhone, NoEventOf, TakesUuid, TakesPhone, InsertsEvent
  <2>7. TypesBounded'
    <3>1. ASSUME NEW y, NEW p
          PROVE  Made(y, p)' = Made(y, p) /\ Making(y, p)' = Making(y, p)
      BY <2>1 DEF Made, TypesWith, Making, WillMake
    <3> QED
      BY <3>1 DEF CatalogInv, TypesBounded
  <2>8. OwnWriters' /\ OwnMakers' /\ AnnouncedEventIsCurrent'
    BY <2>1 DEF CatalogInv, OwnWriters, OwnMakers, AnnouncedEventIsCurrent
  <2> QED
    BY <2>4, <2>5, <2>6, <2>7, <2>8 DEF CatalogInv
<1>2. CASE Next
  <2>1. PICK w \in Requests : RequestStep(w)
    BY <1>2, NextSteps DEF CatalogInv
  <2>2. Typed' /\ Grows
    BY <2>1, StepGrows DEF CatalogInv
  <2>3. NoGaps' /\ TicketsEncrypted' /\ KeylessProviderHasFailed'
    BY <2>1, <2>2, GapsStep, EncryptedStep, KeylessStep DEF CatalogInv
  <2>4. TicketRefersToItsProvider'
    BY <2>1, <2>2, RefersStep DEF CatalogInv
  <2>5. UniqueUsers' /\ PendingUsers' /\ UniqueEvents' /\ PendingEvents'
    BY <2>1, <2>2, UsersStep, EventsStep DEF CatalogInv
  <2>6. TypesBounded'
    BY <2>1, <2>2, TypesStep DEF CatalogInv
  <2>7. OwnWriters' /\ OwnMakers' /\ AnnouncedEventIsCurrent'
    BY <2>1, <2>2, WritersStep, MakersStep DEF CatalogInv
  <2> QED
    BY <2>2, <2>3, <2>4, <2>5, <2>6, <2>7 DEF CatalogInv
<1> QED
  BY <1>1, <1>2

LEMMA CatalogIsSound == Spec => []CatalogInv
BY InitInv, NextInv, PTL DEF Spec

\* Every row, key and request has its type, and the connections of the pool are
\* those of the open transactions.
THEOREM TypeCorrect == Spec => []TypeOK
<1>1. CatalogInv => TypeOK
  BY DEF CatalogInv, Typed, Tables, TypeOK
<1> QED
  BY <1>1, CatalogIsSound, PTL

\* Requests that create users, events, ticket types and tickets wait for each
\* other's keys and rows, but they never all wait, unless the connections of the
\* pool are used up by transactions.
THEOREM WaitsEnd == Spec => []StuckOnlyByThePool
<1>1. CatalogInv => StuckOnlyByThePool
  BY StuckByThePool DEF CatalogInv
<1> QED
  BY <1>1, CatalogIsSound, PTL

\* TicketService.create gives a ticket a user, an event and a ticket type that
\* are committed and belong to its provider.
THEOREM TicketsRefer == Spec => []TicketRefersToItsProvider
<1>1. CatalogInv => TicketRefersToItsProvider
  BY DEF CatalogInv
<1> QED
  BY <1>1, CatalogIsSound, PTL

\* However many requests look for a row at once, a user is created once for its
\* uuid and for its phone number with a provider, and an event once for its uuid;
\* a provider has no more ticket types of a uuid than there are requests.
THEOREM RowsBounded == Spec => []RowsOfOneUuidBounded
<1>1. CatalogInv => RowsOfOneUuidBounded
  <2>1. SUFFICES ASSUME CatalogInv
                 PROVE  RowsOfOneUuidBounded
    OBVIOUS
  <2>2. ASSUME NEW y \in TicketTypes, NEW p \in Providers
        PROVE  Cardinality(TypesWith(y, p))
               + Cardinality({w \in Requests :
                                /\ request[w].step \in {"findKey", "commitTicket", "commitType"}
                                /\ request[w].type = y
                                /\ request[w].provider = p
                                /\ request[w].typeId = 0})
               <= Cardinality(Requests)
    <3>1. Cardinality(Made(y, p)) + Cardinality(Making(y, p)) <= Cardinality(Requests)
      BY <2>1 DEF CatalogInv, TypesBounded
    <3>2. TypesWith(y, p) = Made(y, p)
      BY <2>1 DEF CatalogInv, OwnMakers, Made, TypesWith
    <3> QED
      BY <3>1, <3>2 DEF Making, WillMake
  <2> QED
    BY <2>1, <2>2 DEF RowsOfOneUuidBounded, CatalogInv, UniqueUsers, UniqueEvents
<1> QED
  BY <1>1, CatalogIsSound, PTL

\* An event is written, and gets ticket types, for its own provider only: the
\* statements that go by the uuid of an event find no other one.
THEOREM WritesAreOwn == Spec => []OnlyItsProviderWrites
<1>1. CatalogInv => OnlyItsProviderWrites
  BY DEF CatalogInv, OwnWriters, OwnMakers, OnlyItsProviderWrites
<1> QED
  BY <1>1, CatalogIsSound, PTL

\* The last message about an event carries what its row holds.
THEOREM AnnouncementsCurrent == Spec => []AnnouncedEventIsCurrent
<1>1. CatalogInv => AnnouncedEventIsCurrent
  BY DEF CatalogInv
<1> QED
  BY <1>1, CatalogIsSound, PTL

\* The versions of a provider's keys have no gaps, and the key that a message
\* of a ticket has been encrypted with is never replaced.
THEOREM KeysStay == Spec => []KeysOfMessagesStay
<1>1. CatalogInv => KeysOfMessagesStay
  BY DEF CatalogInv, NoGaps, TicketsEncrypted, Encrypted, KeysOfMessagesStay
<1> QED
  BY <1>1, CatalogIsSound, PTL

\* A provider has no key only while the request that creates it goes on, or
\* after it has failed between the two statements.
THEOREM KeylessHasFailed == Spec => []KeylessProviderHasFailed
<1>1. CatalogInv => KeylessProviderHasFailed
  BY DEF CatalogInv
<1> QED
  BY <1>1, CatalogIsSound, PTL
=============================================================================
