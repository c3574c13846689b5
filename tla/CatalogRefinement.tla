-------------------------- MODULE CatalogRefinement -------------------------
(***************************************************************************)
(* Proof that Catalog implements Registry: requests that search and write  *)
(* in several statements have the effect of requests made at once.         *)
(***************************************************************************)
EXTENDS CatalogProofs

USE DEF UserIds, EventIds, TypeIds, TicketIds, Versions, ProviderTable, UserTable, EventTable,
        TicketTypeTable, EncryptionKeyTable, TicketTable, SecretKey

(***************************************************************************)
(* The invariant, beside CatalogInv: the rows that a request has found are *)
(* those it was to look for, and it still does what it came for.           *)
(***************************************************************************)
HoldsUser(q) ==
  \/ q.step \in {"findEvent", "findType", "findKey", "commitTicket"}
  \/ q.step = "insertEvent" /\ q.type # None

FoundAsNamed(q) ==
  /\ HoldsUser(q) /\ q.userId # 0 /\ q.user # None => user[q.userId].uuid = q.user
  /\ q.step \in {"findType", "findKey", "commitTicket"} /\ q.eventId # 0
       => event[q.eventId].uuid = q.event
  /\ q.step \in {"findKey", "commitTicket"} /\ q.typeId # 0 => type[q.typeId].uuid = q.type

Intended(q) ==
  /\ q.type # None => q.content = None
  /\ HoldsUser(q) => q.phone \in Phones
  /\ q.step \in {"insertUser", "insertPhone", "commitUser"} /\ q.type = None => q.user = None
  /\ q.step = "commitUser" => q.type = None
  /\ q.step = "insertEvent" /\ q.type = None => q.content \in Contents
  /\ q.step \in {"commitEvent", "lockEvents", "commitUpdate"} => q.content \in Contents

RequestsAreTrue == \A w \in Requests : FoundAsNamed(request[w]) /\ Intended(request[w])

\* Rows keep their uuids, so what has been found stays as named.
LEMMA FoundStays ==
  ASSUME Typed, Grows, NEW q \in Request, WholeProgress(q), WholeFindings(q), FoundAsNamed(q)
  PROVE  FoundAsNamed(q)'
<1>1. HoldsUser(q) /\ q.userId # 0 => user'[q.userId] = user[q.userId]
  BY DEF HoldsUser, WholeFindings, HasUser, Grows
<1>2. q.step \in {"findType", "findKey", "commitTicket"} /\ q.eventId # 0
        => event'[q.eventId].uuid = event[q.eventId].uuid
  BY DEF WholeFindings, HasEvent, Grows
<1>3. q.step \in {"findKey", "commitTicket"} /\ q.typeId # 0 => type'[q.typeId] = type[q.typeId]
  BY DEF WholeFindings, HasType, Grows
<1> QED
  BY <1>1, <1>2, <1>3 DEF FoundAsNamed

LEMMA IdleIsTrue == FoundAsNamed(Idle) /\ FoundAsNamed(Idle)' /\ Intended(Idle)
BY DEF FoundAsNamed, Intended, HoldsUser, Idle

\* What the fields of the next request are; r goes on at the step s.
Same(r, q) ==
  /\ q.user = r.user /\ q.phone = r.phone /\ q.event = r.event /\ q.type = r.type
  /\ q.content = r.content

LEMMA SearchIsTrue ==
  ASSUME Typed, NEW w \in Requests, Searches(w),
         NEW r, r = request[w], NEW q, q = request'[w], FoundAsNamed(r), Intended(r)
  PROVE  FoundAsNamed(q) /\ Intended(q)
<1>0. r \in Request /\ WholeProgress(r) /\ request \in [Requests -> Request]
  BY RequestOf DEF Typed
<1>1. /\ r.step \in {"findUser", "findEvent", "findType", "findKey"} => r.type # None
      /\ r.step \in {"findUser", "insertUser", "insertPhone"} => r.phone \in Phones
      /\ r.step \in {"findEvent", "findType", "findKey"} => r.phone \in Phones
  BY <1>0, CatalogAssumption DEF WholeProgress, Intended, HoldsUser
<1>2. CASE q = Idle
  BY <1>2, IdleIsTrue
<1>3. CASE FindUser(w)
  <2>1. r.step = "findUser" /\ r.eventId = 0 /\ r.typeId = 0
    BY <1>0, <1>3 DEF FindUser, WholeProgress
  <2>2. ASSUME NEW i \in UsersWith(r.user, r.provider),
               q = [r EXCEPT !.step = "findEvent", !.userId = i]
        PROVE  FoundAsNamed(q) /\ Intended(q)
    <3>1. /\ Same(r, q) /\ q.step = "findEvent"
          /\ q.userId = i /\ q.eventId = r.eventId /\ q.typeId = r.typeId
      BY <1>0, <2>2 DEF Request, Same
    <3> QED
      BY <1>1, <2>1, <2>2, <3>1 DEF FoundAsNamed, Intended, Same, UsersWith
  <2>3. ASSUME q = [r EXCEPT !.step = "insertUser"]
        PROVE  FoundAsNamed(q) /\ Intended(q)
    <3>1. Same(r, q) /\ q.step = "insertUser"
      BY <1>0, <2>3 DEF Request, Same
    <3> QED
      BY <1>1, <2>1, <3>1 DEF FoundAsNamed, Intended, Same, HoldsUser
  <2> QED
    BY <1>0, <1>3, <2>2, <2>3 DEF FindUser, Continue
<1>4. CASE InsertUser(w) /\ q # Idle
  <2>1. q = [r EXCEPT !.step = "insertPhone"] /\ r.step = "insertUser"
    BY <1>0, <1>4 DEF InsertUser, Continue, Close
  <2>2. Same(r, q) /\ q.step = "insertPhone"
    BY <1>0, <2>1 DEF Request, Same
  <2> QED
    BY <2>1, <2>2 DEF FoundAsNamed, Intended, Same, HoldsUser
<1>5. CASE FindEvent(w)
  <2>1. r.step = "findEvent"
    BY <1>5 DEF FindEvent
  <2>2. ASSUME NEW i \in EventsWith(r.event, r.provider),
               q = [r EXCEPT !.step = "findType", !.eventId = i]
        PROVE  FoundAsNamed(q) /\ Intended(q)
    <3>1. Same(r, q) /\ q.step = "findType" /\ q.userId = r.userId /\ q.eventId = i
      BY <1>0, <2>2 DEF Request, Same
    <3> QED
      BY <1>1, <2>1, <2>2, <3>1 DEF FoundAsNamed, Intended, Same, HoldsUser, EventsWith
  <2>3. ASSUME q = [r EXCEPT !.step = "insertEvent"]
        PROVE  FoundAsNamed(q) /\ Intended(q)
    <3>1. Same(r, q) /\ q.step = "insertEvent" /\ q.userId = r.userId
      BY <1>0, <2>3 DEF Request, Same
    <3> QED
      BY <1>1, <2>1, <3>1 DEF FoundAsNamed, Intended, Same, HoldsUser
  <2> QED
    BY <1>0, <1>5, <2>2, <2>3 DEF FindEvent, Continue
<1>6. CASE InsertEvent(w) /\ q # Idle
  <2>1. PICK s, new : /\ s = IF r.type = None THEN "commitEvent" ELSE "findType"
                      /\ new = r.inserted \cup {"event"}
    OBVIOUS
  <2>2. q = [r EXCEPT !.step = s, !.inserted = new]
    BY <1>0, <1>6, <2>1 DEF InsertEvent, Continue, Close
  <2>3. Same(r, q) /\ q.step = s /\ q.userId = r.userId /\ q.eventId = r.eventId
    BY <1>0, <2>2 DEF Request, Same
  <2>4. r.step = "insertEvent" /\ r.eventId = 0
    BY <1>0, <1>6 DEF InsertEvent, WholeProgress
  <2> QED
    BY <2>1, <2>3, <2>4 DEF FoundAsNamed, Intended, Same, HoldsUser
<1>7. CASE FindTicketType(w)
  <2>1. r.step = "findType" /\ r.typeId = 0
    BY <1>0, <1>7 DEF FindTicketType, WholeProgress
  <2>2. PICK s : s = IF r.provider \in Level2 THEN "findKey" ELSE "commitTicket"
    OBVIOUS
  <2>3. ASSUME NEW i \in TypesWith(r.type, r.provider), q = [r EXCEPT !.step = s, !.typeId = i]
        PROVE  FoundAsNamed(q) /\ Intended(q)
    <3>1. /\ Same(r, q) /\ q.step = s
          /\ q.userId = r.userId /\ q.eventId = r.eventId /\ q.typeId = i
      BY <1>0, <2>3 DEF Request, Same
    <3> QED
      BY <1>1, <2>1, <2>2, <2>3, <3>1 DEF FoundAsNamed, Intended, Same, HoldsUser, TypesWith
  <2>4. ASSUME q = [r EXCEPT !.step = s]
        PROVE  FoundAsNamed(q) /\ Intended(q)
    <3>1. /\ Same(r, q) /\ q.step = s
          /\ q.userId = r.userId /\ q.eventId = r.eventId /\ q.typeId = r.typeId
      BY <1>0, <2>4 DEF Request, Same
    <3> QED
      BY <1>1, <2>1, <2>2, <3>1 DEF FoundAsNamed, Intended, Same, HoldsUser
  <2> QED
    BY <1>0, <1>7, <2>2, <2>3, <2>4 DEF FindTicketType, Continue
<1>8. CASE FindKey(w) /\ q # Idle
  <2>1. PICK v, k : v = CurrentVersion(r.provider) /\ k = keys[r.provider][v]
    OBVIOUS
  <2>2. q = [r EXCEPT !.step = "commitTicket", !.version = v, !.secret = k]
    BY <1>0, <1>8, <2>1 DEF FindKey, Continue, Close
  <2>3. /\ Same(r, q) /\ q.step = "commitTicket"
        /\ q.userId = r.userId /\ q.eventId = r.eventId /\ q.typeId = r.typeId
    BY <1>0, <2>2 DEF Request, Same
  <2>4. r.step = "findKey"
    BY <1>8 DEF FindKey
  <2> QED
    BY <2>3, <2>4 DEF FoundAsNamed, Intended, Same, HoldsUser
<1>9. CASE LockEvents(w)
  <2>1. q = [r EXCEPT !.step = "commitUpdate"] /\ r.step = "lockEvents"
    BY <1>0, <1>9 DEF LockEvents, Continue
  <2>2. Same(r, q) /\ q.step = "commitUpdate"
    BY <1>0, <2>1 DEF Request, Same
  <2> QED
    BY <2>1, <2>2 DEF FoundAsNamed, Intended, Same, HoldsUser
<1>10. CASE InsertPhone(w) /\ q # Idle
  <2>1. PICK s : s = IF r.type = None THEN "commitUser" ELSE "findEvent"
    OBVIOUS
  <2>2. q = [r EXCEPT !.step = s, !.inserted = {"user"}]
    BY <1>0, <1>10, <2>1 DEF InsertPhone, Continue, Close
  <2>3. Same(r, q) /\ q.step = s /\ q.userId = r.userId
    BY <1>0, <2>2 DEF Request, Same
  <2>4. r.step = "insertPhone" /\ r.userId = 0
    BY <1>0, <1>10 DEF InsertPhone, WholeProgress
  <2> QED
    BY <1>1, <2>1, <2>3, <2>4 DEF FoundAsNamed, Intended, Same, HoldsUser
<1> QED
  BY <1>2, <1>3, <1>4, <1>5, <1>6, <1>7, <1>8, <1>9, <1>10 DEF Searches

LEMMA ArrivalIsTrue ==
  ASSUME Typed, NEW w \in Requests, Arrives(w)
  PROVE  FoundAsNamed(request'[w]) /\ Intended(request'[w])
<1> USE DEF FoundAsNamed, Intended, HoldsUser, Open, Idle, Typed
<1>1. PICK p \in Providers :
        \/ \E u \in Users \cup {None}, n \in Phones, e \in Events, y \in TicketTypes :
             OpensTicket(w, p, u, n, e, y)
        \/ \E dto \in CreateUserDto : CreateUser(w, p, dto)
        \/ \E dto \in CreateEventDto : CreateEvent(w, p, dto)
        \/ \E dto \in UpdateEventDto : UpdateEvent(w, p, dto)
        \/ \E y \in TicketTypes, i \in 1..eventRows : OpensType(w, p, y, i)
  BY DEF Arrives
<1>2. CASE \E u \in Users \cup {None}, n \in Phones, e \in Events, y \in TicketTypes :
             OpensTicket(w, p, u, n, e, y)
  BY <1>2 DEF OpensTicket
<1>3. CASE \E dto \in CreateUserDto : CreateUser(w, p, dto)
  BY <1>3 DEF CreateUser
<1>4. CASE \E dto \in CreateEventDto : CreateEvent(w, p, dto)
  BY <1>4 DEF CreateEvent, CreateEventDto
<1>5. CASE \E dto \in UpdateEventDto : UpdateEvent(w, p, dto)
  BY <1>5 DEF UpdateEvent, UpdateEventDto
<1>6. CASE \E y \in TicketTypes, i \in 1..eventRows : OpensType(w, p, y, i)
  BY <1>6 DEF OpensType
<1> QED
  BY <1>1, <1>2, <1>3, <1>4, <1>5, <1>6

LEMMA KeyStepIsTrue ==
  ASSUME Typed, NEW w \in Requests, HandlesKeys(w), Intended(request[w])
  PROVE  FoundAsNamed(request'[w]) /\ Intended(request'[w])
<1>1. request \in [Requests -> Request]
  BY DEF Typed
<1>2. ASSUME NEW p \in Providers, CreateProvider(w, p) \/ CreateKey(w, p)
      PROVE  FoundAsNamed(request'[w]) /\ Intended(request'[w])
  <2>1. request'[w] = [Idle EXCEPT !.step = "readKey", !.provider = p]
    BY <1>1, <1>2 DEF CreateProvider, CreateKey, Continue
  <2>2. request'[w].step = "readKey" /\ request'[w].type = None
    BY <2>1 DEF Idle
  <2> QED
    BY <2>2 DEF FoundAsNamed, Intended, HoldsUser
<1>3. CASE ReadVersion(w)
  <2>1. PICK r : r = request[w]
    OBVIOUS
  <2>2. PICK v, q : q = request'[w] /\ q = [r EXCEPT !.step = "insertKey", !.version = v]
    BY <1>1, <1>3, <2>1 DEF ReadVersion, Continue
  <2>3. Same(r, q) /\ q.step = "insertKey"
    BY <1>1, <2>1, <2>2 DEF Request, Same
  <2> QED
    BY <2>1, <2>2, <2>3 DEF FoundAsNamed, Intended, HoldsUser, Same
<1>4. CASE InsertKey(w)
  <2>1. request'[w] = Idle
    BY <1>1, <1>4 DEF InsertKey, Continue
  <2> QED
    BY <2>1, IdleIsTrue
<1> QED
  BY <1>2, <1>3, <1>4 DEF HandlesKeys

LEMMA TrueNext ==
  ASSUME CatalogInv, RequestsAreTrue, [Next]_vars
  PROVE  RequestsAreTrue'
<1>1. CASE UNCHANGED vars
  BY <1>1 DEF vars, tableVars, userVars, eventVars, typeVars, RequestsAreTrue, FoundAsNamed
<1>2. ASSUME NEW w \in Requests, RequestStep(w)
      PROVE  RequestsAreTrue'
  <2>1. Typed /\ Typed' /\ Grows
    BY <1>2, StepGrows DEF CatalogInv
  <2>2. ASSUME NEW v \in Requests, v # w
        PROVE  FoundAsNamed(request[v])' /\ Intended(request[v])'
    <3>1. PICK r : r = request[v] /\ r = request'[v]
      BY <1>2, <2>1, <2>2, OneRequest
    <3>2. FoundAsNamed(r) /\ Intended(r) /\ r \in Request /\ WholeProgress(r) /\ WholeFindings(r)
      BY <2>1, <3>1, RequestOf DEF RequestsAreTrue
    <3>3. FoundAsNamed(r)'
      BY <2>1, <3>2, FoundStays
    <3> QED
      BY <3>1, <3>2, <3>3 DEF FoundAsNamed, HoldsUser, Intended
  <2>3. PICK q : q = request'[w]
    OBVIOUS
  <2>4. ASSUME UNCHANGED tableVars, FoundAsNamed(q), Intended(q)
        PROVE  FoundAsNamed(request[w])' /\ Intended(request[w])'
    BY <2>3, <2>4 DEF FoundAsNamed, HoldsUser, Intended, tableVars, userVars, eventVars, typeVars
  <2>5. ASSUME q = Idle
        PROVE  FoundAsNamed(request[w])' /\ Intended(request[w])'
    BY <2>3, <2>5, IdleIsTrue DEF FoundAsNamed, HoldsUser, Intended
  <2>6. ASSUME Searches(w)
        PROVE  FoundAsNamed(request[w])' /\ Intended(request[w])'
    BY <2>1, <2>3, <2>4, <2>6, SearchIsTrue, StillSearches DEF RequestsAreTrue
  <2>7. ASSUME Arrives(w)
        PROVE  FoundAsNamed(request[w])' /\ Intended(request[w])'
    BY <2>1, <2>3, <2>4, <2>7, ArrivalIsTrue, OthersInsertNothing
  <2>8. ASSUME HandlesKeys(w)
        PROVE  FoundAsNamed(request[w])' /\ Intended(request[w])'
    BY <2>1, <2>3, <2>4, <2>8, KeyStepIsTrue, OthersInsertNothing DEF RequestsAreTrue
  <2>9. ASSUME Commits(w)
        PROVE  FoundAsNamed(request[w])' /\ Intended(request[w])'
    BY <2>1, <2>3, <2>5, <2>9, CommitsEnd
  <2>10. ASSUME FailRequest(w)
        PROVE  FoundAsNamed(request[w])' /\ Intended(request[w])'
    BY <2>1, <2>3, <2>5, <2>10 DEF FailRequest, Close, Continue, Typed
  <2> QED
    BY <1>2, <2>2, <2>6, <2>7, <2>8, <2>9, <2>10 DEF RequestStep, RequestsAreTrue
<1> QED
  BY <1>1, <1>2, NextSteps DEF CatalogInv

-----------------------------------------------------------------------------
(* The registry as Registry sees it.                                        *)

UserTab == [i \in 1..userRows |-> user[i]]
EventTab == [i \in 1..eventRows |->
               [uuid |-> event[i].uuid, provider |-> event[i].provider,
                content |-> event[i].content]]
TypeTab == [i \in 1..typeRows |-> [uuid |-> type[i].uuid, event |-> type[i].event]]
TicketTab == [i \in 1..ticketRows |->
                [provider |-> ticket[i].provider, user |-> ticket[i].user,
                 event |-> ticket[i].event, type |-> ticket[i].type]]

LEMMA UserAdded ==
  ASSUME Typed, PendingUsers, NEW w \in Requests, NEW r, r = request[w], r.provider \in Providers,
         AddUser(w), NEW id, id = userRows + 1
  PROVE  IF "user" \in r.inserted
         THEN id \in UserIds /\ Promise!NewUser(r.provider, r.user, r.phone, id)
         ELSE UserTab' = UserTab
<1>1. userRows \in Nat /\ MaxUsers \in Nat /\ r \in Request /\ WholeProgress(r)
  BY CatalogAssumption, RequestOf DEF Typed, Tables
<1>2. CASE "user" \notin r.inserted
  BY <1>2 DEF AddUser, userVars, UserTab
<1>3. CASE "user" \in r.inserted
  <2>1. PICK row : row = [uuid |-> r.user, provider |-> r.provider, phone |-> r.phone]
    OBVIOUS
  <2>2. /\ userRows < MaxUsers /\ userRows' = userRows + 1
        /\ \A i \in 1..userRows : user'[i] = user[i]
        /\ user'[userRows + 1] = row
    BY <1>3, <2>1, NewUser DEF AddUser
  <2>3. UserTab' = Promise!Insert(UserTab, userRows + 1, row)
    <3>1. PICK f, g : f = UserTab /\ g = UserTab'
      OBVIOUS
    <3>2. f = [i \in 1..userRows |-> f[i]] /\ g = [i \in 1..(userRows + 1) |-> g[i]]
      BY <2>2, <3>1 DEF UserTab
    <3>3. /\ \A i \in 1..userRows : g[i] = f[i]
          /\ g[userRows + 1] = row
      BY <1>1, <2>2, <3>1 DEF UserTab
    <3>4. 1..(userRows + 1) = 1..userRows \cup {userRows + 1} /\ DOMAIN f = 1..userRows
      BY <1>1, <3>2
    <3>5. g = Promise!Insert(f, userRows + 1, g[userRows + 1])
      BY <1>1, <3>2, <3>3, <3>4 DEF Promise!Insert
    <3> QED
      BY <3>1, <3>3, <3>5
  <2>4. DOMAIN UserTab = 1..userRows /\ \A j \in 1..userRows : UserTab[j] = user[j]
    BY DEF UserTab
  <2>5. r.user # None => \A j \in DOMAIN UserTab : UserTab[j].uuid # r.user
    BY <1>1, <1>3, <2>4 DEF PendingUsers, TakesUuid, NoUuid, Request
  <2>6. \A j \in DOMAIN UserTab : UserTab[j].provider = r.provider => UserTab[j].phone # r.phone
    <3>1. TakesPhone(request[w], r.provider, r.phone) /\ r.phone \in Phones
      BY <1>1, <1>3 DEF TakesPhone, WholeProgress
    <3>2. NoPhone(r.provider, r.phone)
      BY <3>1 DEF PendingUsers
    <3> QED
      BY <2>4, <3>2 DEF NoPhone
  <2>7. userRows + 1 \in UserIds \ DOMAIN UserTab
    BY <1>1, <2>2, <2>4
  <2> QED
    BY <1>3, <2>1, <2>3, <2>5, <2>7, <2>6 DEF Promise!NewUser, UserTab
<1> QED
  BY <1>2, <1>3

LEMMA EventAdded ==
  ASSUME Typed, PendingEvents, NEW w \in Requests, NEW r, r = request[w], r.provider \in Providers,
         AddEvent(w), NEW id, id = eventRows + 1
  PROVE  IF "event" \in r.inserted
         THEN /\ id \in EventIds
              /\ Promise!NewEvent(r.provider, r.event, r.content, id)
         ELSE EventTab' = EventTab
<1>1. eventRows \in Nat /\ MaxEvents \in Nat /\ r \in Request /\ WholeProgress(r)
  BY CatalogAssumption, RequestOf DEF Typed, Tables
<1>2. CASE "event" \notin r.inserted
  BY <1>2 DEF AddEvent, eventVars, EventTab
<1>3. CASE "event" \in r.inserted
  <2>1. /\ eventRows < MaxEvents /\ eventRows' = eventRows + 1
        /\ \A i \in 1..eventRows : event'[i] = event[i]
    BY <1>3, NewEvent DEF AddEvent
  <2>2. event'[eventRows + 1] =
          [uuid |-> r.event, provider |-> r.provider, content |-> r.content,
           announced |-> r.content, writer |-> r.provider]
    BY <1>3, NewEvent
  <2>3. PICK row : row = [uuid |-> r.event, provider |-> r.provider, content |-> r.content]
    OBVIOUS
  <2>4. EventTab' = Promise!Insert(EventTab, eventRows + 1, row)
    <3>1. PICK f, g : f = EventTab /\ g = EventTab'
      OBVIOUS
    <3>2. f = [i \in 1..eventRows |-> f[i]] /\ g = [i \in 1..(eventRows + 1) |-> g[i]]
      BY <2>1, <3>1 DEF EventTab
    <3>3. (\A i \in 1..eventRows : g[i] = f[i]) /\ g[eventRows + 1] = row
      BY <1>1, <2>1, <2>2, <2>3, <3>1 DEF EventTab
    <3>4. 1..(eventRows + 1) = 1..eventRows \cup {eventRows + 1} /\ DOMAIN f = 1..eventRows
      BY <1>1, <3>2
    <3>5. g = Promise!Insert(f, eventRows + 1, g[eventRows + 1])
      BY <1>1, <3>2, <3>3, <3>4 DEF Promise!Insert
    <3> QED
      BY <3>1, <3>3, <3>5
  <2>5. /\ DOMAIN EventTab = 1..eventRows
        /\ \A j \in 1..eventRows :
             EventTab[j].uuid = event[j].uuid /\ EventTab[j].provider = event[j].provider
    BY DEF EventTab
  <2>6. NoEventOf(r.event)
    BY <1>1, <1>3 DEF PendingEvents, InsertsEvent, WholeProgress
  <2>7. \A j \in DOMAIN EventTab : EventTab[j].uuid # r.event
    BY <2>5, <2>6 DEF NoEventOf
  <2>8. eventRows + 1 \in EventIds \ DOMAIN EventTab
    BY <1>1, <2>1, <2>5
  <2> QED
    BY <1>3, <2>3, <2>4, <2>7, <2>8 DEF Promise!NewEvent, EventTab
<1> QED
  BY <1>2, <1>3

LEMMA TypeAdded ==
  ASSUME Typed, NEW w \in Requests, NEW r, r = request[w], r.provider \in Providers,
         eventRows' \in 0..MaxEvents, eventRows <= eventRows', NEW e \in 1..eventRows',
         AddType(w, e), NEW id, id = typeRows + 1
  PROVE  IF r.typeId = 0
         THEN id \in TypeIds /\ Promise!NewType(r.type, e, id)
         ELSE TypeTab' = TypeTab
<1>1. typeRows \in Nat /\ MaxTypes \in Nat
  BY CatalogAssumption DEF Typed, Tables
<1>2. CASE r.typeId # 0
  BY <1>2 DEF AddType, typeVars, TypeTab
<1>3. CASE r.typeId = 0
  <2>1. typeRows < MaxTypes /\ typeRows' = typeRows + 1
    BY <1>3 DEF AddType
  <2>2. /\ \A i \in 1..typeRows : type'[i] = type[i]
        /\ type'[typeRows + 1] = [uuid |-> r.type, event |-> e, maker |-> r.provider]
    BY <1>3, NewType
  <2>3. TypeTab' = Promise!Insert(TypeTab, typeRows + 1, [uuid |-> r.type, event |-> e])
    <3>1. PICK f, g : f = TypeTab /\ g = TypeTab'
      OBVIOUS
    <3>2. f = [i \in 1..typeRows |-> f[i]] /\ g = [i \in 1..(typeRows + 1) |-> g[i]]
      BY <2>1, <3>1 DEF TypeTab
    <3>3. (\A i \in 1..typeRows : g[i] = f[i]) /\ g[typeRows + 1] = [uuid |-> r.type, event |-> e]
      BY <1>1, <2>1, <2>2, <3>1 DEF TypeTab
    <3>4. 1..(typeRows + 1) = 1..typeRows \cup {typeRows + 1} /\ DOMAIN f = 1..typeRows
      BY <1>1, <3>2
    <3>5. g = Promise!Insert(f, typeRows + 1, g[typeRows + 1])
      BY <1>1, <3>2, <3>3, <3>4 DEF Promise!Insert
    <3> QED
      BY <3>1, <3>3, <3>5
  <2>4. typeRows + 1 \in TypeIds \ (1..typeRows) /\ DOMAIN TypeTab = 1..typeRows
    BY <1>1, <2>1 DEF TypeTab
  <2> QED
    BY <1>3, <2>3, <2>4 DEF Promise!NewType, TypeTab
<1> QED
  BY <1>2, <1>3

LEMMA TicketAdded ==
  ASSUME Typed, NEW w \in Requests, NEW r, r = request[w], CommitTicket(w),
         NEW u, u = IdOf(r.userId, userRows), NEW e, e = IdOf(r.eventId, eventRows),
         NEW y, y = IdOf(r.typeId, typeRows)
  PROVE  /\ ticketRows + 1 \in TicketIds \ DOMAIN TicketTab
         /\ TicketTab' = Promise!Insert(TicketTab, ticketRows + 1,
                           [provider |-> r.provider, user |-> u, event |-> e, type |-> y])
<1>1. ticketRows \in Nat /\ MaxTickets \in Nat /\ ticket \in TicketTable
  BY CatalogAssumption DEF Typed, Tables
<1>2. PICK row : row = [provider |-> r.provider, user |-> u, event |-> e, type |-> y,
                        version |-> r.version, secret |-> r.secret]
  OBVIOUS
<1>3. /\ ticketRows < MaxTickets /\ ticketRows' = ticketRows + 1
      /\ ticket' = [ticket EXCEPT ![ticketRows + 1] = row]
  BY <1>2 DEF CommitTicket
<1>4. (\A i \in 1..ticketRows : ticket'[i] = ticket[i]) /\ ticket'[ticketRows + 1] = row
  BY <1>1, <1>3
<1>5. PICK f, g : f = TicketTab /\ g = TicketTab'
  OBVIOUS
<1>6. f = [i \in 1..ticketRows |-> f[i]] /\ g = [i \in 1..(ticketRows + 1) |-> g[i]]
  BY <1>3, <1>5 DEF TicketTab
<1>7. /\ \A i \in 1..ticketRows : g[i] = f[i]
      /\ g[ticketRows + 1] = [provider |-> r.provider, user |-> u, event |-> e, type |-> y]
  BY <1>1, <1>2, <1>3, <1>4, <1>5 DEF TicketTab
<1>8. 1..(ticketRows + 1) = 1..ticketRows \cup {ticketRows + 1} /\ DOMAIN f = 1..ticketRows
  BY <1>1, <1>6
<1>9. g = Promise!Insert(f, ticketRows + 1, g[ticketRows + 1])
  BY <1>1, <1>6, <1>7, <1>8 DEF Promise!Insert
<1>10. ticketRows + 1 \in TicketIds \ DOMAIN f
  BY <1>1, <1>3, <1>8
<1> QED
  BY <1>5, <1>7, <1>9, <1>10

-----------------------------------------------------------------------------
(* Each commit is a step of the registry.                                   *)

LEMMA TicketCommits ==
  ASSUME CatalogInv, RequestsAreTrue, NEW w \in Requests, NEW r, r = request[w], CommitTicket(w)
  PROVE  Promise!CreateTicket(r.provider, r.user, r.phone, r.event, r.type)
<1>1. /\ Typed /\ PendingUsers /\ PendingEvents
      /\ r \in Request /\ WholeProgress(r) /\ WholeFindings(r) /\ r.step = "commitTicket"
      /\ FoundAsNamed(r) /\ Intended(r)
  BY RequestOf DEF CatalogInv, RequestsAreTrue, CommitTicket
<1>2. /\ r.provider \in Providers /\ r.type \in TicketTypes
      /\ HasUser(r) /\ HasEvent(r) /\ HasType(r)
  BY <1>1 DEF WholeProgress, WholeFindings
<1>3. /\ r.userId # 0 /\ r.user # None => user[r.userId].uuid = r.user
      /\ r.eventId # 0 => event[r.eventId].uuid = r.event
      /\ r.typeId # 0 => type[r.typeId].uuid = r.type
      /\ r.content = None
  BY <1>1, <1>2, CatalogAssumption DEF FoundAsNamed, HoldsUser, Intended
<1>4. PICK u, e, y : u = IdOf(r.userId, userRows) /\ e = IdOf(r.eventId, eventRows)
                     /\ y = IdOf(r.typeId, typeRows)
  OBVIOUS
<1>5. AddUser(w) /\ AddEvent(w) /\ AddType(w, e)
  BY <1>4 DEF CommitTicket
<1>6. /\ userRows \in 0..MaxUsers /\ eventRows \in 0..MaxEvents /\ typeRows \in 0..MaxTypes
      /\ MaxUsers \in Nat /\ MaxEvents \in Nat /\ MaxTypes \in Nat
      /\ \A i \in 1..typeRows : type[i].event \in 1..eventRows
  BY <1>1, CatalogAssumption DEF Typed, Tables, RowsAreWhole, TypesAreWhole
<1>7. /\ u \in UserIds
      /\ Promise!FindUser(r.provider, r.user, u) \/ Promise!NewUser(r.provider, r.user, r.phone, u)
  <2>1. CASE r.userId = 0
    BY <1>1, <1>2, <1>4, <1>5, <2>1, UserAdded DEF HasUser, IdOf
  <2>2. CASE r.userId # 0
    <3>1. /\ u = r.userId /\ u \in 1..userRows /\ user[u].provider = r.provider
          /\ r.user # None => user[u].uuid = r.user
          /\ "user" \notin r.inserted
      BY <1>2, <1>3, <1>4, <2>2 DEF HasUser, IdOf
    <3>2. UserTab' = UserTab
      BY <1>1, <1>2, <1>5, <3>1, UserAdded
    <3>3. Promise!FindUser(r.provider, r.user, u)
      BY <3>1, <3>2 DEF Promise!FindUser, UserTab
    <3> QED
      BY <1>6, <3>1, <3>3
  <2> QED
    BY <2>1, <2>2
<1>8. /\ e \in EventIds
      /\ Promise!FindEvent(r.provider, r.event, e) \/ Promise!NewEvent(r.provider, r.event, None, e)
  <2>1. CASE r.eventId = 0
    BY <1>1, <1>2, <1>3, <1>4, <1>5, <2>1, EventAdded DEF HasEvent, IdOf
  <2>2. CASE r.eventId # 0
    <3>1. /\ e = r.eventId /\ e \in 1..eventRows /\ event[e].provider = r.provider
          /\ event[e].uuid = r.event
          /\ "event" \notin r.inserted
      BY <1>2, <1>3, <1>4, <2>2 DEF HasEvent, IdOf
    <3>2. EventTab' = EventTab
      BY <1>1, <1>2, <1>5, <3>1, EventAdded
    <3>3. Promise!FindEvent(r.provider, r.event, e)
      BY <3>1, <3>2 DEF Promise!FindEvent, Promise!Has, EventTab
    <3> QED
      BY <1>6, <3>1, <3>3
  <2> QED
    BY <2>1, <2>2
<1>9. /\ y \in TypeIds
      /\ Promise!FindType(r.provider, r.type, y) \/ Promise!NewType(r.type, e, y)
  <2>1. e \in 1..eventRows' /\ eventRows' \in 0..MaxEvents /\ eventRows <= eventRows'
    <3>1. /\ eventRows' \in 0..MaxEvents /\ eventRows <= eventRows'
          /\ "event" \in r.inserted => eventRows' = eventRows + 1
      BY <1>1, <1>2, <1>5, NewEvent
    <3> QED
      BY <1>2, <1>4, <1>6, <3>1 DEF HasEvent, IdOf
  <2>2. \A i : i = typeRows + 1 =>
          IF r.typeId = 0
          THEN i \in TypeIds /\ Promise!NewType(r.type, e, i)
          ELSE TypeTab' = TypeTab
    BY <1>1, <1>2, <1>5, <2>1, TypeAdded
  <2>3. CASE r.typeId = 0
    BY <1>4, <2>2, <2>3 DEF IdOf
  <2>4. CASE r.typeId # 0
    <3>1. /\ y = r.typeId /\ y \in 1..typeRows /\ type[y].uuid = r.type
          /\ event[type[y].event].provider = r.provider /\ type[y].event \in 1..eventRows
      BY <1>2, <1>3, <1>4, <1>6, <2>4 DEF HasType, IdOf
    <3>2. Promise!FindType(r.provider, r.type, y)
      BY <2>2, <2>4, <3>1 DEF Promise!FindType, TypeTab, EventTab
    <3> QED
      BY <1>6, <3>1, <3>2
  <2> QED
    BY <2>3, <2>4
<1>10. /\ ticketRows + 1 \in TicketIds \ DOMAIN TicketTab
       /\ TicketTab' = Promise!Insert(TicketTab, ticketRows + 1,
                         [provider |-> r.provider, user |-> u, event |-> e, type |-> y])
  BY <1>1, <1>4, TicketAdded
<1> QED
  BY <1>7, <1>8, <1>9, <1>10 DEF Promise!CreateTicket, TicketTab

LEMMA UserCommits ==
  ASSUME CatalogInv, RequestsAreTrue, NEW w \in Requests, CommitUser(w)
  PROVE  Promise!Next \/ UNCHANGED Promise!registryVars
<1>1. PICK r : r = request[w]
  OBVIOUS
<1>2. /\ Typed /\ PendingUsers /\ r.step = "commitUser" /\ r \in Request
      /\ WholeProgress(r) /\ Intended(r) /\ AddUser(w)
      /\ UNCHANGED <<eventVars, typeVars, ticketVars>>
  BY <1>1, RequestOf DEF CatalogInv, RequestsAreTrue, CommitUser
<1>3. r.provider \in Providers
  BY <1>2 DEF WholeProgress
<1>4. UNCHANGED <<EventTab, TypeTab, TicketTab>>
  BY <1>2 DEF EventTab, TypeTab, TicketTab, eventVars, typeVars, ticketVars
<1>5. CASE "user" \notin r.inserted
  <2>1. UserTab' = UserTab
    BY <1>1, <1>2, <1>3, <1>5, UserAdded
  <2> QED
    BY <1>4, <2>1 DEF Promise!registryVars, UserTab, EventTab, TypeTab, TicketTab
<1>6. CASE "user" \in r.inserted
  <2>1. PICK i : i = userRows + 1
    OBVIOUS
  <2>2. i \in UserIds /\ Promise!NewUser(r.provider, r.user, r.phone, i)
    BY <1>1, <1>2, <1>3, <1>6, <2>1, UserAdded
  <2>3. r.user = None /\ r.phone \in Phones
    BY <1>2, <1>6 DEF Intended, WholeProgress
  <2>4. Promise!CreateUser(r.provider, r.phone, i)
    BY <1>4, <2>2, <2>3 DEF Promise!CreateUser, EventTab, TypeTab, TicketTab
  <2> QED
    BY <1>3, <2>2, <2>3, <2>4 DEF Promise!Next
<1> QED
  BY <1>5, <1>6

LEMMA EventCommits ==
  ASSUME CatalogInv, RequestsAreTrue, NEW w \in Requests, CommitEvent(w)
  PROVE  Promise!Next \/ UNCHANGED Promise!registryVars
<1>1. PICK r : r = request[w]
  OBVIOUS
<1>2. /\ Typed /\ PendingEvents /\ r.step = "commitEvent" /\ r \in Request
      /\ WholeProgress(r) /\ Intended(r) /\ AddEvent(w)
      /\ UNCHANGED <<userVars, typeVars, ticketVars>>
  BY <1>1, RequestOf DEF CatalogInv, RequestsAreTrue, CommitEvent
<1>3. r.provider \in Providers /\ r.event \in Events /\ r.content \in Contents
  BY <1>2 DEF WholeProgress, Intended
<1>4. UNCHANGED <<UserTab, TypeTab, TicketTab>>
  BY <1>2 DEF UserTab, TypeTab, TicketTab, userVars, typeVars, ticketVars
<1>5. CASE "event" \notin r.inserted
  <2>1. EventTab' = EventTab
    BY <1>1, <1>2, <1>3, <1>5, EventAdded
  <2> QED
    BY <1>4, <2>1 DEF Promise!registryVars, UserTab, EventTab, TypeTab, TicketTab
<1>6. CASE "event" \in r.inserted
  <2>1. PICK i : i = eventRows + 1
    OBVIOUS
  <2>2. i \in EventIds /\ Promise!NewEvent(r.provider, r.event, r.content, i)
    BY <1>1, <1>2, <1>3, <1>6, <2>1, EventAdded
  <2>3. Promise!CreateEvent(r.provider, r.event, r.content, i)
    BY <1>4, <2>2 DEF Promise!CreateEvent, UserTab, TypeTab, TicketTab
  <2> QED
    BY <1>3, <2>2, <2>3 DEF Promise!Next
<1> QED
  BY <1>5, <1>6

\* The event that has the uuid is the provider's, which is looked at before.
LEMMA UpdateCommits ==
  ASSUME CatalogInv, RequestsAreTrue, NEW w \in Requests, CommitUpdate(w)
  PROVE  Promise!Next \/ UNCHANGED Promise!registryVars
<1>1. PICK r : r = request[w]
  OBVIOUS
<1>2. /\ Typed /\ UniqueEvents /\ r.step = "commitUpdate" /\ r \in Request
      /\ WholeProgress(r) /\ WholeFindings(r) /\ Intended(r)
      /\ UNCHANGED <<eventRows, userVars, typeVars, ticketVars>>
  BY <1>1, RequestOf DEF CatalogInv, RequestsAreTrue, CommitUpdate
<1>3. r.provider \in Providers /\ r.event \in Events /\ r.content \in Contents
  BY <1>2 DEF WholeProgress, Intended
<1>4. UNCHANGED <<UserTab, TypeTab, TicketTab>>
  BY <1>2 DEF UserTab, TypeTab, TicketTab, userVars, typeVars, ticketVars
<1>5. PICK i \in 1..eventRows :
        /\ event[i].uuid = r.event
        /\ event' = [event EXCEPT ![i] =
                       [@ EXCEPT !.content = r.content, !.announced = r.content,
                                 !.writer = r.provider]]
  BY <1>1 DEF CommitUpdate
<1>6. event[i].provider = r.provider
  <2>1. EventsWith(event[i].uuid, r.provider) # {}
    BY <1>2, <1>5 DEF WholeFindings
  <2> QED
    BY <1>2, <2>1, OwnEvent
<1>7. event[i] \in EventRow /\ i \in EventIds /\ event \in [EventIds -> EventRow]
  BY <1>2, <1>5, EventAt DEF Typed
<1>8. /\ event'[i].uuid = event[i].uuid /\ event'[i].provider = event[i].provider
      /\ event'[i].content = r.content
  <2>1. event'[i] = [event[i] EXCEPT !.content = r.content, !.announced = r.content,
                                     !.writer = r.provider]
    BY <1>5, <1>7
  <2> QED
    BY <1>7, <2>1 DEF EventRow
<1>9. \A j \in 1..eventRows : j # i => event'[j] = event[j]
  <2>1. ASSUME NEW j \in 1..eventRows, j # i
        PROVE  event'[j] = event[j]
    <3>1. j \in EventIds
      BY <1>2, EventAt DEF Typed
    <3> QED
      BY <1>5, <1>7, <2>1, <3>1
  <2> QED
    BY <2>1
<1>10. PICK f, g : f = EventTab /\ g = EventTab'
  OBVIOUS
<1>11. /\ f = [j \in 1..eventRows |-> f[j]] /\ g = [j \in 1..eventRows |-> g[j]]
       /\ DOMAIN f = 1..eventRows
       /\ \A j \in 1..eventRows :
            /\ f[j] = [uuid |-> event[j].uuid, provider |-> event[j].provider,
                       content |-> event[j].content]
            /\ g[j] = [uuid |-> event'[j].uuid, provider |-> event'[j].provider,
                       content |-> event'[j].content]
  BY <1>2, <1>10 DEF EventTab
<1>12. g[i] = [f[i] EXCEPT !.content = r.content]
  <2>1. g[i] = [uuid |-> event[i].uuid, provider |-> event[i].provider, content |-> r.content]
    BY <1>8, <1>11
  <2>2. [f[i] EXCEPT !.content = r.content] =
          [uuid |-> event[i].uuid, provider |-> event[i].provider, content |-> r.content]
    BY <1>11
  <2> QED
    BY <2>1, <2>2
<1>13. \A j \in 1..eventRows : j # i => g[j] = f[j]
  BY <1>9, <1>11
<1>14. g = [f EXCEPT ![i].content = r.content]
  BY <1>11, <1>12, <1>13
<1>15. Promise!Has(r.provider, r.event, i)
  BY <1>5, <1>6, <1>10, <1>11 DEF Promise!Has, EventTab
<1>16. Promise!UpdateEvent(r.provider, r.event, r.content)
  BY <1>4, <1>10, <1>11, <1>14, <1>15
     DEF Promise!UpdateEvent, UserTab, EventTab, TypeTab, TicketTab
<1> QED
  BY <1>3, <1>16 DEF Promise!Next

LEMMA TypeCommits ==
  ASSUME CatalogInv, NEW w \in Requests, CommitTicketType(w)
  PROVE  Promise!Next \/ UNCHANGED Promise!registryVars
<1>1. PICK r, e, i : r = request[w] /\ e = r.eventId /\ i = typeRows + 1
  OBVIOUS
<1>2. /\ Typed /\ UniqueEvents /\ r.step = "commitType" /\ r \in Request
      /\ WholeProgress(r) /\ WholeFindings(r)
      /\ AddType(w, e) /\ UNCHANGED <<userVars, eventVars, ticketVars>>
  BY <1>1, RequestOf DEF CatalogInv, CommitTicketType
<1>3. /\ r.provider \in Providers /\ r.type \in TicketTypes /\ r.typeId = 0
      /\ e \in 1..eventRows /\ EventsWith(event[e].uuid, r.provider) # {}
  BY <1>1, <1>2 DEF WholeProgress, WholeFindings
<1>4. UNCHANGED <<UserTab, EventTab, TicketTab>>
  BY <1>2 DEF UserTab, EventTab, TicketTab, userVars, eventVars, ticketVars
<1>5. /\ eventRows' \in 0..MaxEvents /\ eventRows <= eventRows' /\ e \in 1..eventRows'
      /\ e \in EventIds
  BY <1>2, <1>3, CatalogAssumption DEF eventVars, Typed, Tables
<1>6. i \in TypeIds /\ Promise!NewType(r.type, e, i)
  BY <1>1, <1>2, <1>3, <1>5, TypeAdded
<1>7. event[e].provider = r.provider
  BY <1>2, <1>3, OwnEvent
<1>8. e \in DOMAIN EventTab /\ EventTab[e].provider = r.provider
  BY <1>3, <1>7 DEF EventTab
<1>9. Promise!CreateType(r.provider, r.type, e, i)
  BY <1>4, <1>6, <1>8 DEF Promise!CreateType, UserTab, EventTab, TicketTab
<1> QED
  BY <1>3, <1>5, <1>6, <1>9 DEF Promise!Next

\* Nothing else changes the tables.
LEMMA Stutters ==
  ASSUME UNCHANGED tableVars
  PROVE  UNCHANGED Promise!registryVars
BY DEF tableVars, userVars, eventVars, typeVars, ticketVars, Promise!registryVars

LEMMA StepImplements ==
  ASSUME CatalogInv, RequestsAreTrue, [Next]_vars
  PROVE  [Promise!Next]_Promise!registryVars
<1>1. CASE UNCHANGED vars
  BY <1>1, Stutters DEF vars
<1>2. ASSUME NEW w \in Requests, RequestStep(w)
      PROVE  Promise!Next \/ UNCHANGED Promise!registryVars
  <2>1. CASE CommitTicket(w)
    <3>1. PICK r : r = request[w]
      OBVIOUS
    <3>2. r \in Request /\ WholeProgress(r) /\ r.step = "commitTicket"
      BY <2>1, <3>1, RequestOf DEF CatalogInv, CommitTicket
    <3>3. /\ r.provider \in Providers /\ r.user \in Users \cup {None} /\ r.event \in Events
          /\ r.type \in TicketTypes
      BY <3>2 DEF WholeProgress, Request
    <3>4. r.phone \in Phones
      BY <3>1, <3>2 DEF RequestsAreTrue, Intended, HoldsUser
    <3>5. Promise!CreateTicket(r.provider, r.user, r.phone, r.event, r.type)
      BY <2>1, <3>1, TicketCommits
    <3> QED
      BY <3>3, <3>4, <3>5 DEF Promise!Next
  <2>2. CASE Commits(w)
    BY <2>1, <2>2, UserCommits, EventCommits, UpdateCommits, TypeCommits DEF Commits
  <2>3. CASE Searches(w)
    BY <2>3, StillSearches, Stutters
  <2>4. CASE Arrives(w) \/ HandlesKeys(w) \/ FailRequest(w)
    BY <2>4, OthersInsertNothing, Stutters DEF CatalogInv
  <2> QED
    BY <1>2, <2>2, <2>3, <2>4 DEF RequestStep
<1> QED
  BY <1>1, <1>2, NextSteps DEF CatalogInv

LEMMA InitImplements ==
  ASSUME Init
  PROVE  Promise!Init /\ RequestsAreTrue
<1>1. userRows = 0 /\ eventRows = 0 /\ typeRows = 0 /\ ticketRows = 0 /\ 1..0 = {}
  BY DEF Init
<1>2. Promise!Init
  BY <1>1 DEF Promise!Init, Promise!Empty
<1>3. RequestsAreTrue
  BY DEF Init, RequestsAreTrue, FoundAsNamed, Intended, HoldsUser, Idle
<1> QED
  BY <1>2, <1>3

\* TicketService.create and its siblings look for rows one statement at a time,
\* outside of their transactions and beside each other; what their commits leave
\* behind is what they would have left had each been made at once.
THEOREM CreationIsARegistry == Spec => ImplementsRegistry
<1>1. CatalogInv /\ RequestsAreTrue /\ [Next]_vars => RequestsAreTrue'
  BY TrueNext
<1>2. CatalogInv /\ RequestsAreTrue /\ [Next]_vars => [Promise!Next]_Promise!registryVars
  BY StepImplements
<1>3. Init => Promise!Init /\ RequestsAreTrue
  BY InitImplements
<1> QED
  BY <1>1, <1>2, <1>3, CatalogIsSound, PTL DEF Spec, ImplementsRegistry, Promise!Spec
=============================================================================
