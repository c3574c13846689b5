---------------------------- MODULE RedeemsProofs ----------------------------
(***************************************************************************)
(* Proofs about Redeems: the type invariant, whom the gate admits, what    *)
(* the validators that hold no lock can miss, and the limit of redeems.    *)
(***************************************************************************)
EXTENDS Redeems, FiniteSetTheorems, TLAPS

\* The name of a type, always expanded.
USE DEF TicketStatus

\* The rows that have been created, and only they, have a purchase and a mode.
RowsAreWhole ==
  \A r \in RedeemIds :
    IF r <= redeemRows
    THEN redeem[r].status # "none" /\ redeem[r].purchase \in Purchases /\ redeem[r].mode \in RedeemMode
    ELSE redeem[r] = NoRedeem

\* What the validators of a request have accepted is still there.
RequestsAreWhole ==
  \A w \in Requests :
    LET q == request[w] IN
    /\ q.step \in {"counted", "create"} => q.purchase \in Purchases /\ q.mode \in RedeemMode
    /\ q.step \in {"verify", "display", "show", "admit"} => q.id \in 1..redeemRows
    /\ q.step \in {"admit", "list"} => q.ticket \in Tickets
    /\ q.step = "cancel" => q.id \in ListingIds
    /\ q.seen <= redeemRows

TypeInv == TypeOK /\ RowsAreWhole /\ RequestsAreWhole /\ displayed \subseteq 1..redeemRows

LEMMA IdFacts ==
  ASSUME TypeOK
  PROVE  /\ redeemRows \in Nat /\ 1..redeemRows \subseteq RedeemIds
         /\ \A r \in RedeemIds : r \in Nat /\ r # 0
         /\ \A r \in 1..redeemRows : r <= redeemRows
  BY RedeemsAssumption DEF TypeOK, RedeemIds

LEMMA RowFields ==
  ASSUME NEW row \in RedeemRow
  PROVE  /\ [row EXCEPT !.status = "redeemed"] \in RedeemRow
         /\ [row EXCEPT !.expired = TRUE] \in RedeemRow
         /\ [row EXCEPT !.expired = TRUE, !.recent = FALSE] \in RedeemRow
  BY DEF RedeemRow, RedeemStatus

LEMMA TypeInit == Init => TypeInv
  BY RedeemsAssumption
  DEF Init, TypeInv, TypeOK, RowsAreWhole, RequestsAreWhole, RedeemIds, ListingIds, NoRedeem,
      NoListing, Idle, Request, Step, RedeemTable, RedeemRow, ListingTable, ListingRow, QrHash,
      PurchaseId

\* A request that begins, goes on or ends leaves the others as they are.
LEMMA RequestType ==
  ASSUME TypeInv, NEW w \in Requests, NEW q \in Request, request' = [request EXCEPT ![w] = q],
         redeemRows' \in Nat, redeemRows <= redeemRows',
         q.step \in {"counted", "create"} => q.purchase \in Purchases /\ q.mode \in RedeemMode,
         q.step \in {"verify", "display", "show", "admit"} => q.id \in 1..redeemRows',
         q.step \in {"admit", "list"} => q.ticket \in Tickets,
         q.step = "cancel" => q.id \in ListingIds,
         q.seen <= redeemRows'
  PROVE  request' \in [Requests -> Request] /\ RequestsAreWhole'
<1>1. request' \in [Requests -> Request]
  BY DEF TypeInv, TypeOK
<1>2. ASSUME NEW v \in Requests, v # w
      PROVE  /\ request'[v] = request[v]
             /\ request[v].seen <= redeemRows'
             /\ request[v].id \in 1..redeemRows => request[v].id \in 1..redeemRows'
  <2>1. request'[v] = request[v] /\ request[v].seen \in Nat /\ redeemRows \in Nat
        /\ request[v].seen <= redeemRows
    BY <1>2, RedeemsAssumption DEF TypeInv, TypeOK, Request, RequestsAreWhole, RedeemIds
  <2> QED
    BY <2>1
<1>3. request'[w] = q
  BY DEF TypeInv, TypeOK
<1> QED
  BY <1>1, <1>2, <1>3 DEF TypeInv, RequestsAreWhole

LEMMA SameRowsType ==
  ASSUME TypeInv, NEW w \in Requests, NEW q \in Request, request' = [request EXCEPT ![w] = q],
         redeemRows' = redeemRows,
         q.step \in {"counted", "create"} => q.purchase \in Purchases /\ q.mode \in RedeemMode,
         q.step \in {"verify", "display", "show", "admit"} => q.id \in 1..redeemRows,
         q.step \in {"admit", "list"} => q.ticket \in Tickets,
         q.step = "cancel" => q.id \in ListingIds,
         q.seen <= redeemRows
  PROVE  request' \in [Requests -> Request] /\ RequestsAreWhole'
<1>1. redeemRows \in Nat /\ redeemRows <= redeemRows'
  BY IdFacts DEF TypeInv
<1> QED
  BY <1>1, RequestType

LEMMA IdleType == Idle \in Request
  BY DEF Idle, Request, Step, PurchaseId

LEMMA EndType ==
  ASSUME TypeInv, NEW w \in Requests, End(w), redeemRows' \in Nat, redeemRows <= redeemRows'
  PROVE  request' \in [Requests -> Request] /\ RequestsAreWhole'
<1>1. request' = [request EXCEPT ![w] = Idle]
  BY DEF End
<1>2. /\ Idle.step = "idle" /\ Idle.seen = 0 /\ 0 <= redeemRows'
  BY DEF Idle
<1> QED
  BY <1>1, <1>2, IdleType, RequestType

LEMMA RedeemControllerType ==
  ASSUME TypeInv, NEW w \in Requests, RedeemController(w)
  PROVE  TypeInv'
<1> USE IdFacts DEF tableVars, redisVars, historyVars
<1>1. ASSUME NEW dto \in CreateRedeemDto, CountRedeems(w, dto)
      PROVE  TypeInv'
  <2> DEFINE q == [Idle EXCEPT !.step = "counted", !.purchase = dto.purchase, !.mode = dto.mode]
  <2>1. /\ q \in Request /\ q.step = "counted" /\ q.seen = 0
        /\ q.purchase \in Purchases /\ q.mode \in RedeemMode
    BY DEF CreateRedeemDto, Idle, Request, Step, PurchaseId
  <2>2. request' = [request EXCEPT ![w] = q]
    BY <1>1 DEF CountRedeems, Begin
  <2> HIDE DEF q
  <2>3. request' \in [Requests -> Request] /\ RequestsAreWhole'
    <3>1. redeemRows' = redeemRows /\ 0 <= redeemRows
      BY <1>1 DEF CountRedeems, TypeInv
    <3> QED
      BY <2>1, <2>2, <3>1, SameRowsType
  <2> QED
    BY <1>1, <2>3 DEF CountRedeems, TypeInv, TypeOK, RowsAreWhole
<1>2. CASE AcceptCreate(w)
  <2> DEFINE q == [request[w] EXCEPT !.step = "create", !.seen = redeemRows]
  <2>1. request' = [request EXCEPT ![w] = q]
    BY <1>2 DEF AcceptCreate, TypeInv, TypeOK
  <2>2. redeemRows \in RedeemIds \cup {0} /\ redeemRows \in Nat
    BY RedeemsAssumption DEF TypeInv, TypeOK, RedeemIds
  <2>3. request[w] \in Request /\ request[w].purchase \in Purchases /\ request[w].mode \in RedeemMode
    BY <1>2 DEF AcceptCreate, TypeInv, TypeOK, RequestsAreWhole
  <2>4. /\ q \in Request /\ q.step = "create" /\ q.seen = redeemRows
        /\ q.purchase \in Purchases /\ q.mode \in RedeemMode
    BY <2>2, <2>3 DEF Request, Step
  <2> HIDE DEF q
  <2>5. request' \in [Requests -> Request] /\ RequestsAreWhole'
    <3>1. redeemRows' = redeemRows /\ redeemRows <= redeemRows
      BY <1>2, <2>2 DEF AcceptCreate
    <3> QED
      BY <2>1, <2>4, <3>1, SameRowsType
  <2> QED
    BY <1>2, <2>5 DEF AcceptCreate, TypeInv, TypeOK, RowsAreWhole
<1>3. CASE CreateRedeem(w)
  <2> DEFINE new == redeemRows + 1
             row == [status |-> "notRedeemed", purchase |-> request[w].purchase,
                     mode |-> request[w].mode, expired |-> FALSE, recent |-> TRUE]
  <2>1. /\ redeemRows \in Nat /\ redeemRows' = new /\ redeemRows' \in 0..MaxRedeems
        /\ new \in RedeemIds
    BY <1>3, RedeemsAssumption DEF CreateRedeem, TypeInv, TypeOK, RedeemIds
  <2>2. row.purchase \in Purchases /\ row.mode \in RedeemMode /\ row \in RedeemRow
    BY <1>3 DEF CreateRedeem, TypeInv, RequestsAreWhole, RedeemRow, RedeemStatus, PurchaseId
  <2>3. redeem' = [redeem EXCEPT ![new] = row]
    BY <1>3 DEF CreateRedeem
  <2>4. row.status # "none"
    OBVIOUS
  <2> HIDE DEF row
  <2>5. redeem' \in RedeemTable
    BY <2>1, <2>2, <2>3 DEF TypeInv, TypeOK, RedeemTable
  <2>6. RowsAreWhole'
    <3> SUFFICES ASSUME NEW r \in RedeemIds
                 PROVE  IF r <= redeemRows'
                        THEN /\ redeem'[r].status # "none"
                             /\ redeem'[r].purchase \in Purchases
                             /\ redeem'[r].mode \in RedeemMode
                        ELSE redeem'[r] = NoRedeem
      BY DEF RowsAreWhole
    <3>1. CASE r = new
      BY <3>1, <2>1, <2>2, <2>3, <2>4 DEF TypeInv, TypeOK, RedeemTable
    <3>2. CASE r # new
      <4>1. redeem'[r] = redeem[r]
        BY <3>2, <2>3 DEF TypeInv, TypeOK, RedeemTable
      <4>2. r <= redeemRows' <=> r <= redeemRows
        BY <3>2, <2>1 DEF RedeemIds
      <4> QED
        BY <4>1, <4>2 DEF TypeInv, RowsAreWhole
    <3> QED
      BY <3>1, <3>2
  <2>7. request' \in [Requests -> Request] /\ RequestsAreWhole'
    <3>1. redeemRows' \in Nat /\ redeemRows <= redeemRows'
      BY <2>1
    <3> QED
      BY <1>3, <3>1, EndType DEF CreateRedeem
  <2>8. displayed' \subseteq 1..redeemRows'
    BY <1>3, <2>1 DEF CreateRedeem, TypeInv
  <2> QED
    BY <1>3, <2>1, <2>5, <2>6, <2>7, <2>8 DEF CreateRedeem, TypeInv, TypeOK
<1>4. ASSUME NEW r \in RedeemIds, AcceptVerify(w, r) \/ AcceptShow(w, r)
      PROVE  TypeInv'
  <2>1. PICK s \in {"verify", "show"} :
          request' = [request EXCEPT ![w] = [Idle EXCEPT !.step = s, !.id = r]]
    BY <1>4 DEF AcceptVerify, AcceptShow, Begin
  <2> DEFINE q == [Idle EXCEPT !.step = s, !.id = r]
  <2>2. r \in 1..redeemRows
    BY <1>4 DEF AcceptVerify, AcceptShow, TypeInv, RowsAreWhole, RedeemIds, NoRedeem, TypeOK
  <2>3. q \in Request /\ q.step = s /\ q.seen = 0 /\ q.id \in 1..redeemRows
    BY <2>2 DEF Idle, Request, Step, PurchaseId
  <2>4. request' = [request EXCEPT ![w] = q] /\ redeemRows' = redeemRows
    BY <1>4, <2>1 DEF AcceptVerify, AcceptShow
  <2> HIDE DEF q
  <2>5. request' \in [Requests -> Request] /\ RequestsAreWhole'
    <3>1. 0 <= redeemRows
      BY DEF TypeInv
    <3> QED
      BY <2>3, <2>4, <3>1, SameRowsType
  <2> QED
    BY <1>4, <2>5 DEF AcceptVerify, AcceptShow, TypeInv, TypeOK, RowsAreWhole
<1>5. CASE UseRedeem(w)
  <2> DEFINE q == [request[w] EXCEPT !.step = "display"]
  <2>1. request' = [request EXCEPT ![w] = q] /\ redeemRows' = redeemRows
    BY <1>5 DEF UseRedeem, TypeInv, TypeOK
  <2>2. request[w] \in Request /\ request[w].id \in 1..redeemRows /\ request[w].seen <= redeemRows
    BY <1>5 DEF UseRedeem, TypeInv, TypeOK, RequestsAreWhole
  <2>3. q \in Request /\ q.step = "display" /\ q.id \in 1..redeemRows /\ q.seen <= redeemRows
    BY <2>2 DEF Request, Step
  <2> HIDE DEF q
  <2>4. request' \in [Requests -> Request] /\ RequestsAreWhole'
    BY <2>1, <2>3, SameRowsType
  <2>5. redeem' = [redeem EXCEPT ![request[w].id] = [@ EXCEPT !.status = "redeemed"]]
    BY <1>5 DEF UseRedeem
  <2>6. request[w].id \in RedeemIds /\ redeem \in [RedeemIds -> RedeemRow]
    BY <2>2 DEF TypeInv, TypeOK, RedeemTable
  <2>7. redeem' \in RedeemTable
    BY <2>5, <2>6, RowFields DEF RedeemTable
  <2>8. ASSUME NEW r \in RedeemIds
        PROVE  /\ redeem'[r].purchase = redeem[r].purchase /\ redeem'[r].mode = redeem[r].mode
               /\ r = request[w].id => redeem'[r].status = "redeemed" /\ r <= redeemRows
               /\ r # request[w].id => redeem'[r] = redeem[r]
    BY <2>2, <2>5, <2>6 DEF RedeemRow, TypeInv
  <2>9. RowsAreWhole'
    BY <2>1, <2>8 DEF TypeInv, RowsAreWhole
  <2> QED
    BY <1>5, <2>1, <2>4, <2>7, <2>9 DEF UseRedeem, TypeInv, TypeOK
<1>6. CASE GenerateDisplayToken(w)
  <2>1. request[w].id \in 1..redeemRows /\ request[w].id \in RedeemIds
    BY <1>6 DEF GenerateDisplayToken, TypeInv, RequestsAreWhole
  <2>2. request' \in [Requests -> Request] /\ RequestsAreWhole'
    BY <1>6, EndType DEF GenerateDisplayToken, TypeInv
  <2> QED
    BY <1>6, <2>1, <2>2 DEF GenerateDisplayToken, TypeInv, TypeOK, RowsAreWhole
<1>7. CASE ShowQrCodes(w)
  <2>1. request[w].id \in 1..redeemRows /\ request[w].id \in RedeemIds
    BY <1>7 DEF ShowQrCodes, TypeInv, RequestsAreWhole
  <2>2. Shown(request[w].id) \subseteq Tickets \cup Purchases
    BY <2>1 DEF Shown, RedeemTicket, TicketsOf, TypeInv, RowsAreWhole
  <2>3. hashes' \subseteq QrHash
    BY <1>7, <2>1, <2>2 DEF ShowQrCodes, TypeInv, TypeOK, QrHash
  <2>4. request' \in [Requests -> Request] /\ RequestsAreWhole'
    BY <1>7, EndType DEF ShowQrCodes, TypeInv
  <2> QED
    BY <1>7, <2>3, <2>4 DEF ShowQrCodes, TypeInv, TypeOK, RowsAreWhole
<1> QED
  BY <1>1, <1>2, <1>3, <1>4, <1>5, <1>6, <1>7 DEF RedeemController

LEMMA ListingControllerType ==
  ASSUME TypeInv, NEW w \in Requests, ListingController(w)
  PROVE  TypeInv'
<1> USE IdFacts DEF tableVars, redisVars, historyVars
<1>1. ASSUME NEW t \in Tickets, AcceptListing(w, t)
      PROVE  TypeInv'
  <2> DEFINE q == [Idle EXCEPT !.step = "list", !.ticket = t, !.seen = redeemRows]
  <2>1. redeemRows \in RedeemIds \cup {0} /\ redeemRows <= redeemRows
    BY RedeemsAssumption DEF TypeInv, TypeOK, RedeemIds
  <2>2. q \in Request /\ q.step = "list" /\ q.ticket = t /\ q.seen = redeemRows
    BY <2>1 DEF Idle, Request, Step, PurchaseId
  <2>3. request' = [request EXCEPT ![w] = q] /\ redeemRows' = redeemRows
    BY <1>1 DEF AcceptListing, Begin
  <2> HIDE DEF q
  <2>4. request' \in [Requests -> Request] /\ RequestsAreWhole'
    BY <2>1, <2>2, <2>3, SameRowsType
  <2> QED
    BY <1>1, <2>4 DEF AcceptListing, TypeInv, TypeOK, RowsAreWhole
<1>2. ASSUME NEW dto \in ListingCreateValidateDto, CreateListing(w, dto)
      PROVE  TypeInv'
  <2>1. listingRows + 1 \in ListingIds /\ listingRows' \in 0..MaxListings
    BY <1>2, RedeemsAssumption DEF CreateListing, TypeInv, TypeOK, ListingIds
  <2>2. listing' \in ListingTable
    BY <1>2, <2>1
    DEF CreateListing, TypeInv, TypeOK, ListingTable, ListingRow, ListingCreateValidateDto
  <2>3. request' \in [Requests -> Request] /\ RequestsAreWhole'
    BY <1>2, EndType DEF CreateListing, TypeInv
  <2> QED
    BY <1>2, <2>1, <2>2, <2>3 DEF CreateListing, TypeInv, TypeOK, RowsAreWhole
<1>3. ASSUME NEW l \in ListingIds, AcceptCancel(w, l)
      PROVE  TypeInv'
  <2> DEFINE q == [Idle EXCEPT !.step = "cancel", !.id = l]
  <2>1. q \in Request /\ q.step = "cancel" /\ q.id = l /\ q.seen = 0
    BY DEF Idle, Request, Step, PurchaseId
  <2>2. /\ request' = [request EXCEPT ![w] = q] /\ redeemRows' = redeemRows
        /\ 0 <= redeemRows
    BY <1>3 DEF AcceptCancel, Begin, TypeInv
  <2> HIDE DEF q
  <2>3. request' \in [Requests -> Request] /\ RequestsAreWhole'
    BY <2>1, <2>2, SameRowsType
  <2> QED
    BY <1>3, <2>3 DEF AcceptCancel, TypeInv, TypeOK, RowsAreWhole
<1>4. CASE CancelListing(w)
  <2>1. request[w].id \in ListingIds /\ listing \in [ListingIds -> ListingRow]
    BY <1>4 DEF CancelListing, TypeInv, TypeOK, RequestsAreWhole, ListingTable
  <2>2. \A row \in ListingRow : [row EXCEPT !.status = "canceled"] \in ListingRow
    BY DEF ListingRow, ListingStatus
  <2>3. listing' = [listing EXCEPT ![request[w].id] = [@ EXCEPT !.status = "canceled"]]
    BY <1>4 DEF CancelListing
  <2>4. listing' \in ListingTable
    BY <2>1, <2>2, <2>3 DEF ListingTable
  <2>5. request' \in [Requests -> Request] /\ RequestsAreWhole'
    BY <1>4, EndType DEF CancelListing, TypeInv
  <2> QED
    BY <1>4, <2>4, <2>5 DEF CancelListing, TypeInv, TypeOK, RowsAreWhole
<1> QED
  BY <1>1, <1>2, <1>3, <1>4 DEF ListingController

\* A hash names tickets and purchases of redeems that have been created.
HashesNameRows == \A h \in hashes : h.redeem \in 1..redeemRows

LEMMA TicketControllerType ==
  ASSUME TypeInv, HashesNameRows, NEW w \in Requests, TicketController(w)
  PROVE  TypeInv'
<1> USE IdFacts DEF tableVars, redisVars, historyVars
<1>1. ASSUME NEW h \in hashes, AcceptHash(w, h)
      PROVE  TypeInv'
  <2> DEFINE q == [Idle EXCEPT !.step = "admit", !.id = h.redeem, !.ticket = h.names]
  <2>1. h.redeem \in RedeemIds /\ h.redeem \in 1..redeemRows /\ h.names \in Tickets
    BY <1>1 DEF AcceptHash, HashesNameRows, TypeInv
  <2>2. /\ q \in Request /\ q.step = "admit" /\ q.id \in 1..redeemRows /\ q.ticket \in Tickets
        /\ q.seen = 0
    BY <2>1 DEF Idle, Request, Step, PurchaseId
  <2>3. /\ request' = [request EXCEPT ![w] = q] /\ redeemRows' = redeemRows
        /\ 0 <= redeemRows
    BY <1>1 DEF AcceptHash, Begin, TypeInv
  <2> HIDE DEF q
  <2>4. request' \in [Requests -> Request] /\ RequestsAreWhole'
    BY <2>2, <2>3, SameRowsType
  <2> QED
    BY <1>1, <2>4 DEF AcceptHash, TypeInv, TypeOK, RowsAreWhole
<1>2. CASE Admit(w)
  <2>1. request[w].id \in RedeemIds
    BY <1>2 DEF Admit, TypeInv, RequestsAreWhole
  <2>2. request' \in [Requests -> Request] /\ RequestsAreWhole'
    BY <1>2, EndType DEF Admit, TypeInv
  <2> QED
    BY <1>2, <2>1, <2>2 DEF Admit, TypeInv, TypeOK, RowsAreWhole
<1> QED
  BY <1>1, <1>2 DEF TicketController

\* What the environment does: requests fail, tickets change, codes and keys expire.
Environment ==
  \/ \E w \in Requests : FailRequest(w)
  \/ \E t \in Tickets, status \in TicketStatus : ChangeTicket(t, status) \/ UpdateTicket(t, status)
  \/ \E r \in RedeemIds : CodeExpires(r) \/ HourPasses(r)
  \/ KeyExpires

LEMMA ExpiryKeeps ==
  ASSUME TypeInv, NEW r \in RedeemIds, CodeExpires(r) \/ HourPasses(r)
  PROVE  /\ redeem' \in RedeemTable
         /\ \A i \in RedeemIds :
              /\ redeem'[i].status = redeem[i].status
              /\ redeem'[i].purchase = redeem[i].purchase
              /\ redeem'[i].mode = redeem[i].mode
              /\ redeem'[i].recent => redeem[i].recent
              /\ ~redeem'[i].expired => ~redeem[i].expired
              /\ redeem'[i] # redeem[i] => i <= redeemRows
<1>1. PICK row \in {[redeem[r] EXCEPT !.expired = TRUE],
                    [redeem[r] EXCEPT !.expired = TRUE, !.recent = FALSE]} :
        redeem' = [redeem EXCEPT ![r] = row]
  <2>1. CASE CodeExpires(r)
    <3>1. redeem' = [redeem EXCEPT ![r] = [redeem[r] EXCEPT !.expired = TRUE]]
      BY <2>1 DEF CodeExpires, TypeInv, TypeOK, RedeemTable
    <3> QED
      BY <3>1
  <2>2. CASE HourPasses(r)
    <3>1. redeem' = [redeem EXCEPT ![r] = [redeem[r] EXCEPT !.expired = TRUE, !.recent = FALSE]]
      BY <2>2 DEF HourPasses, TypeInv, TypeOK, RedeemTable
    <3> QED
      BY <3>1
  <2> QED
    BY <2>1, <2>2
<1>2. redeem \in [RedeemIds -> RedeemRow] /\ row \in RedeemRow
  <2>1. redeem \in [RedeemIds -> RedeemRow] /\ redeem[r] \in RedeemRow
    BY DEF TypeInv, TypeOK, RedeemTable
  <2> QED
    BY <1>1, <2>1, RowFields
<1>3. r <= redeemRows
  BY DEF CodeExpires, HourPasses, TypeInv, RowsAreWhole, NoRedeem
<1>4. /\ row.status = redeem[r].status /\ row.purchase = redeem[r].purchase
      /\ row.mode = redeem[r].mode /\ row.expired
      /\ row.recent => redeem[r].recent
  BY <1>2 DEF RedeemRow
<1>5. redeem' \in RedeemTable
  BY <1>1, <1>2 DEF RedeemTable
<1>6. ASSUME NEW i \in RedeemIds
      PROVE  redeem'[i] = IF i = r THEN row ELSE redeem[i]
  BY <1>1, <1>2
<1>7. ASSUME NEW i \in RedeemIds
      PROVE  /\ redeem'[i].status = redeem[i].status
             /\ redeem'[i].purchase = redeem[i].purchase
             /\ redeem'[i].mode = redeem[i].mode
             /\ redeem'[i].recent => redeem[i].recent
             /\ ~redeem'[i].expired => ~redeem[i].expired
             /\ redeem'[i] # redeem[i] => i <= redeemRows
  <2>1. CASE i = r
    BY <2>1, <1>3, <1>4, <1>6, Zenon
  <2>2. CASE i # r
    BY <2>2, <1>6
  <2> QED
    BY <2>1, <2>2
<1> QED
  BY <1>5, <1>7

LEMMA EnvironmentType == TypeInv /\ Environment => TypeInv'
<1> SUFFICES ASSUME TypeInv, Environment PROVE TypeInv'
  OBVIOUS
<1> USE IdFacts DEF tableVars, redisVars, historyVars
<1>1. ASSUME NEW w \in Requests, FailRequest(w)
      PROVE  TypeInv'
  <2>1. request[w].step = "display" => request[w].id \in RedeemIds
    BY DEF TypeInv, RequestsAreWhole
  <2>2. request' \in [Requests -> Request] /\ RequestsAreWhole'
    BY <1>1, EndType DEF FailRequest, TypeInv
  <2>3. disturbances' \in 0..MaxDisturbances
    BY <1>1, RedeemsAssumption DEF FailRequest, Disturbance, TypeInv, TypeOK
  <2>4. lost' \subseteq RedeemIds
    BY <1>1, <2>1 DEF FailRequest, TypeInv, TypeOK
  <2> QED
    BY <1>1, <2>2, <2>3, <2>4 DEF FailRequest, TypeInv, TypeOK, RowsAreWhole
<1>2. ASSUME NEW t \in Tickets, NEW status \in TicketStatus,
             ChangeTicket(t, status) \/ UpdateTicket(t, status)
      PROVE  TypeInv'
  <2>1. /\ ticketStatus' \in [Tickets -> TicketStatus]
        /\ disturbances' \in 0..MaxDisturbances
    BY <1>2, RedeemsAssumption DEF ChangeTicket, UpdateTicket, Disturbance, TypeInv, TypeOK
  <2>2. UNCHANGED <<redeemRows, redeem, listingRows, listing, redisVars, request, historyVars>>
    BY <1>2 DEF ChangeTicket, UpdateTicket
  <2> QED
    BY <2>1, <2>2
       DEF redisVars, historyVars, TypeInv, TypeOK, RowsAreWhole, RequestsAreWhole
<1>3. ASSUME NEW r \in RedeemIds, CodeExpires(r) \/ HourPasses(r)
      PROVE  TypeInv'
  <2>1. /\ redeem' \in RedeemTable
        /\ \A i \in RedeemIds :
             /\ redeem'[i].status = redeem[i].status
             /\ redeem'[i].purchase = redeem[i].purchase
             /\ redeem'[i].mode = redeem[i].mode
             /\ redeem'[i] # redeem[i] => i <= redeemRows
    BY <1>3, ExpiryKeeps
  <2>2. /\ redeemRows' = redeemRows /\ request' = request /\ displayed' = displayed
        /\ disturbances' \in 0..MaxDisturbances
    BY <1>3, RedeemsAssumption DEF CodeExpires, HourPasses, Disturbance, TypeInv, TypeOK
  <2>3. RowsAreWhole' /\ RequestsAreWhole'
    BY <2>1, <2>2 DEF TypeInv, RowsAreWhole, RequestsAreWhole
  <2> QED
    BY <1>3, <2>1, <2>2, <2>3 DEF CodeExpires, HourPasses, TypeInv, TypeOK
<1>4. CASE KeyExpires
  <2>1. displayed' \subseteq displayed /\ hashes' \subseteq hashes
    BY <1>4 DEF KeyExpires
  <2> QED
    BY <1>4, <2>1, RedeemsAssumption
    DEF KeyExpires, Disturbance, TypeInv, TypeOK, RowsAreWhole, RequestsAreWhole
<1> QED
  BY <1>1, <1>2, <1>3, <1>4 DEF Environment

-----------------------------------------------------------------------------
(* Whom the gate admits.                                                    *)

Used(r) == r \in 1..redeemRows /\ redeem[r].status = "redeemed"

Admits(r, t) ==
  /\ Used(r)
  /\ redeem[r].purchase = PurchaseOf[t]
  /\ redeem[r].mode = "individual"

HashesAdmit ==
  \A h \in hashes : Used(h.redeem) /\ (h.names \in Tickets => Admits(h.redeem, h.names))

RequestsAdmit ==
  \A w \in Requests :
    /\ request[w].step \in {"display", "show"} => Used(request[w].id)
    /\ request[w].step = "admit" => Admits(request[w].id, request[w].ticket)

\* What a verified code leads to, from the display key to the gate.
AdmissionInv ==
  /\ \A r \in displayed : Used(r)
  /\ HashesAdmit
  /\ RequestsAdmit
  /\ \A t \in Tickets : admittedBy[t] # 0 => Admits(admittedBy[t], t)

\* The redeems stay the same, except that they may expire.
Faded ==
  /\ redeemRows' = redeemRows
  /\ \A i \in RedeemIds :
       /\ redeem'[i].status = redeem[i].status
       /\ redeem'[i].purchase = redeem[i].purchase
       /\ redeem'[i].mode = redeem[i].mode
       /\ redeem'[i].recent => redeem[i].recent
       /\ ~redeem'[i].expired => ~redeem[i].expired

LEMMA RowsChange ==
  ASSUME TypeInv, Next
  PROVE  Faded \/ (\E w \in Requests : CreateRedeem(w)) \/ (\E w \in Requests : UseRedeem(w))
<1> SUFFICES ASSUME ~(\E w \in Requests : CreateRedeem(w)), ~(\E w \in Requests : UseRedeem(w))
             PROVE  Faded
  OBVIOUS
<1>1. CASE redeem' = redeem /\ redeemRows' = redeemRows
  BY <1>1 DEF Faded
<1>2. ASSUME NEW w \in Requests, RedeemController(w)
      PROVE  redeem' = redeem /\ redeemRows' = redeemRows
  BY <1>2 DEF RedeemController, CountRedeems, AcceptCreate, AcceptVerify, GenerateDisplayToken,
              AcceptShow, ShowQrCodes, tableVars
<1>3. ASSUME NEW w \in Requests, ListingController(w)
      PROVE  redeem' = redeem /\ redeemRows' = redeemRows
  BY <1>3 DEF ListingController, AcceptListing, CreateListing, AcceptCancel, CancelListing, tableVars
<1>4. ASSUME NEW w \in Requests, TicketController(w)
      PROVE  redeem' = redeem /\ redeemRows' = redeemRows
  BY <1>4 DEF TicketController, AcceptHash, Admit, tableVars
<1>5. CASE Environment
  <2>1. CASE \E r \in RedeemIds : CodeExpires(r) \/ HourPasses(r)
    <3>1. redeemRows' = redeemRows
      BY <2>1 DEF CodeExpires, HourPasses
    <3> QED
      BY <2>1, <3>1, ExpiryKeeps DEF Faded
  <2>2. CASE ~ \E r \in RedeemIds : CodeExpires(r) \/ HourPasses(r)
    <3>1. redeem' = redeem /\ redeemRows' = redeemRows
      BY <1>5, <2>2 DEF Environment, FailRequest, ChangeTicket, UpdateTicket, KeyExpires, tableVars
    <3> QED
      BY <1>1, <3>1
  <2> QED
    BY <2>1, <2>2
<1> QED
  BY <1>1, <1>2, <1>3, <1>4, <1>5 DEF Next, Environment

LEMMA CreateRedeemRow ==
  ASSUME TypeInv, NEW w \in Requests, CreateRedeem(w)
  PROVE  /\ redeemRows \in Nat /\ redeemRows' = redeemRows + 1 /\ redeemRows + 1 \in RedeemIds
         /\ redeem'[redeemRows + 1].status = "notRedeemed"
         /\ redeem'[redeemRows + 1].purchase = request[w].purchase
         /\ redeem'[redeemRows + 1].recent
         /\ \A i \in RedeemIds : i # redeemRows + 1 => redeem'[i] = redeem[i]
<1> DEFINE row == [status |-> "notRedeemed", purchase |-> request[w].purchase,
                   mode |-> request[w].mode, expired |-> FALSE, recent |-> TRUE]
           new == redeemRows + 1
<1>1. redeemRows \in Nat /\ redeemRows' = new /\ new \in RedeemIds
  BY RedeemsAssumption DEF CreateRedeem, TypeInv, TypeOK, RedeemIds
<1>2. redeem' = [redeem EXCEPT ![new] = row]
  BY DEF CreateRedeem
<1>3. row.status = "notRedeemed" /\ row.purchase = request[w].purchase /\ row.recent
  OBVIOUS
<1>4. redeem \in [RedeemIds -> RedeemRow]
  BY DEF TypeInv, TypeOK, RedeemTable
<1> HIDE DEF row, new
<1>5. redeem'[new] = row /\ \A i \in RedeemIds : i # new => redeem'[i] = redeem[i]
  BY <1>1, <1>2, <1>4
<1> QED
  BY <1>1, <1>3, <1>5 DEF new

LEMMA UseRedeemRow ==
  ASSUME TypeInv, NEW w \in Requests, UseRedeem(w)
  PROVE  /\ redeemRows' = redeemRows
         /\ request[w].id \in 1..redeemRows
         /\ \A i \in RedeemIds :
              /\ redeem'[i].purchase = redeem[i].purchase
              /\ redeem'[i].mode = redeem[i].mode
              /\ redeem'[i].recent = redeem[i].recent
              /\ redeem'[i].expired = redeem[i].expired
              /\ redeem'[i].status = IF i = request[w].id THEN "redeemed" ELSE redeem[i].status
<1>1. request[w].id \in 1..redeemRows /\ request[w].id \in RedeemIds
  BY IdFacts DEF UseRedeem, TypeInv, RequestsAreWhole
<1>2. redeem \in [RedeemIds -> RedeemRow]
  BY DEF TypeInv, TypeOK, RedeemTable
<1>3. redeem' = [redeem EXCEPT ![request[w].id] = [@ EXCEPT !.status = "redeemed"]]
  BY DEF UseRedeem
<1>4. ASSUME NEW i \in RedeemIds
      PROVE  redeem'[i] = IF i = request[w].id THEN [redeem[i] EXCEPT !.status = "redeemed"]
                                               ELSE redeem[i]
  BY <1>1, <1>2, <1>3
<1>5. redeemRows' = redeemRows
  BY DEF UseRedeem
<1>6. ASSUME NEW i \in RedeemIds
      PROVE  /\ redeem'[i].purchase = redeem[i].purchase
             /\ redeem'[i].mode = redeem[i].mode
             /\ redeem'[i].recent = redeem[i].recent
             /\ redeem'[i].expired = redeem[i].expired
             /\ redeem'[i].status = IF i = request[w].id THEN "redeemed" ELSE redeem[i].status
  <2>1. CASE i = request[w].id
    <3>1. redeem'[i] = [redeem[i] EXCEPT !.status = "redeemed"] /\ redeem[i] \in RedeemRow
      BY <2>1, <1>2, <1>4
    <3> QED
      BY <2>1, <3>1 DEF RedeemRow
  <2>2. CASE i # request[w].id
    BY <2>2, <1>4
  <2> QED
    BY <2>1, <2>2
<1> QED
  BY <1>1, <1>5, <1>6

\* Whatever happens next, a used redeem is used and a ticket it admits is one it admits.
LEMMA AdmitsPersists ==
  ASSUME TypeInv, Next
  PROVE  \A r : (Used(r) => Used(r)') /\ \A t \in Tickets : Admits(r, t) => Admits(r, t)'
<1> SUFFICES ASSUME NEW r \in 1..redeemRows
             PROVE  /\ r \in 1..redeemRows'
                    /\ redeem[r].status = "redeemed" => redeem'[r].status = "redeemed"
                    /\ redeem'[r].purchase = redeem[r].purchase
                    /\ redeem'[r].mode = redeem[r].mode
  BY DEF Used, Admits
<1>1. r \in RedeemIds /\ r \in Nat /\ r <= redeemRows /\ redeemRows \in Nat
  BY IdFacts DEF TypeInv
<1>2. CASE Faded
  BY <1>1, <1>2 DEF Faded
<1>3. ASSUME NEW w \in Requests, CreateRedeem(w)
      PROVE  /\ r \in 1..redeemRows' /\ redeem'[r] = redeem[r]
  <2>1. /\ redeemRows' = redeemRows + 1
        /\ \A i \in RedeemIds : i # redeemRows + 1 => redeem'[i] = redeem[i]
    BY <1>3, CreateRedeemRow
  <2>2. r # redeemRows + 1 /\ r \in 1..(redeemRows + 1)
    BY <1>1
  <2> QED
    BY <1>1, <2>1, <2>2
<1>4. ASSUME NEW w \in Requests, UseRedeem(w)
      PROVE  /\ r \in 1..redeemRows'
             /\ redeem[r].status = "redeemed" => redeem'[r].status = "redeemed"
             /\ redeem'[r].purchase = redeem[r].purchase
             /\ redeem'[r].mode = redeem[r].mode
  BY <1>1, <1>4, UseRedeemRow
<1> QED
  BY <1>2, <1>3, <1>4, RowsChange

LEMMA AdmissionInit == Init => AdmissionInv
  BY DEF Init, AdmissionInv, HashesAdmit, RequestsAdmit, Idle

\* The step of one request.
LEMMA RequestAdmits ==
  ASSUME TypeInv, AdmissionInv, Next, NEW w \in Requests, NEW q,
         request' = [request EXCEPT ![w] = q],
         q.step \in {"display", "show"} => Used(q.id)',
         q.step = "admit" => q.ticket \in Tickets /\ Admits(q.id, q.ticket)'
  PROVE  RequestsAdmit'
<1> SUFFICES ASSUME NEW v \in Requests
             PROVE  /\ request'[v].step \in {"display", "show"} => Used(request[v].id)'
                    /\ request'[v].step = "admit" => Admits(request[v].id, request[v].ticket)'
  BY DEF RequestsAdmit
<1>1. request'[v] = IF v = w THEN q ELSE request[v]
  BY DEF TypeInv, TypeOK
<1>2. CASE v = w
  BY <1>1, <1>2 DEF Used, Admits
<1>3. CASE v # w
  <2>1. request'[v] = request[v]
    BY <1>1, <1>3
  <2>2. request[v].step = "admit" => request[v].ticket \in Tickets
    BY DEF TypeInv, RequestsAreWhole
  <2>3. /\ request[v].step \in {"display", "show"} => Used(request[v].id)
        /\ request[v].step = "admit" => Admits(request[v].id, request[v].ticket)
    BY DEF AdmissionInv, RequestsAdmit
  <2> DEFINE id == request[v].id  t == request[v].ticket
  <2>4. Used(id) => redeem'[id].status = "redeemed" /\ id \in 1..redeemRows'
    BY AdmitsPersists DEF Used
  <2>5. t \in Tickets /\ Admits(id, t) => /\ redeem'[id].purchase = PurchaseOf[t]
                                         /\ redeem'[id].mode = "individual"
    BY AdmitsPersists DEF Admits
  <2> QED
    BY <2>1, <2>2, <2>3, <2>4, <2>5 DEF Used, Admits
<1> QED
  BY <1>2, <1>3

LEMMA EndAdmits ==
  ASSUME TypeInv, AdmissionInv, Next, NEW w \in Requests, End(w)
  PROVE  RequestsAdmit'
<1>1. request' = [request EXCEPT ![w] = Idle] /\ Idle.step = "idle"
  BY DEF End, Idle
<1> QED
  BY <1>1, RequestAdmits

LEMMA DisplayedAdmit ==
  ASSUME TypeInv, AdmissionInv, Next, displayed' \subseteq displayed
  PROVE  (\A r \in displayed : Used(r))'
  BY AdmitsPersists DEF AdmissionInv, Used

LEMMA HashesKeepAdmitting ==
  ASSUME TypeInv, AdmissionInv, Next, hashes' \subseteq hashes
  PROVE  HashesAdmit'
<1> SUFFICES ASSUME NEW h \in hashes', h \in hashes
             PROVE  Used(h.redeem)' /\ (h.names \in Tickets => Admits(h.redeem, h.names)')
  BY DEF HashesAdmit
<1>1. Used(h.redeem) /\ (h.names \in Tickets => Admits(h.redeem, h.names))
  BY DEF AdmissionInv, HashesAdmit
<1> DEFINE r == h.redeem  t == h.names
<1>2. Used(r) => Used(r)'
  BY AdmitsPersists
<1>3. t \in Tickets /\ Admits(r, t) => Admits(r, t)'
  BY AdmitsPersists
<1> QED
  BY <1>1, <1>2, <1>3

LEMMA AdmittedStay ==
  ASSUME TypeInv, AdmissionInv, Next, admittedBy' = admittedBy
  PROVE  (\A t \in Tickets : admittedBy[t] # 0 => Admits(admittedBy[t], t))'
<1> SUFFICES ASSUME NEW t \in Tickets, admittedBy[t] # 0
             PROVE  Admits(admittedBy[t], t)'
  OBVIOUS
<1> DEFINE r == admittedBy[t]
<1>1. Admits(r, t) /\ r' = r
  BY DEF AdmissionInv
<1>2. Admits(r, t) => /\ r \in 1..redeemRows' /\ redeem'[r].status = "redeemed"
                      /\ redeem'[r].purchase = PurchaseOf[t] /\ redeem'[r].mode = "individual"
  BY AdmitsPersists DEF Admits, Used
<1> QED
  BY <1>1, <1>2 DEF Admits, Used

LEMMA RedeemControllerAdmits ==
  ASSUME TypeInv, AdmissionInv, Next, NEW w \in Requests, RedeemController(w)
  PROVE  AdmissionInv'
<1> USE DEF tableVars, redisVars, historyVars
<1>1. admittedBy' = admittedBy
  BY DEF RedeemController, CountRedeems, AcceptCreate, CreateRedeem, AcceptVerify, AcceptShow,
         UseRedeem, GenerateDisplayToken, ShowQrCodes
<1>2. displayed' \subseteq displayed \/ GenerateDisplayToken(w)
  BY DEF RedeemController, CountRedeems, AcceptCreate, CreateRedeem, AcceptVerify, AcceptShow,
         UseRedeem, ShowQrCodes
<1>3. hashes' \subseteq hashes \/ ShowQrCodes(w)
  BY DEF RedeemController, CountRedeems, AcceptCreate, CreateRedeem, AcceptVerify, AcceptShow,
         UseRedeem, GenerateDisplayToken
<1>4. RequestsAdmit'
  <2>1. ASSUME NEW dto \in CreateRedeemDto, CountRedeems(w, dto)
        PROVE  RequestsAdmit'
    <3> DEFINE q == [Idle EXCEPT !.step = "counted", !.purchase = dto.purchase, !.mode = dto.mode]
    <3>1. request' = [request EXCEPT ![w] = q] /\ q.step = "counted"
      BY <2>1 DEF CountRedeems, Begin, Idle
    <3> HIDE DEF q
    <3> QED
      BY <3>1, RequestAdmits
  <2>2. CASE AcceptCreate(w)
    <3> DEFINE q == [request[w] EXCEPT !.step = "create", !.seen = redeemRows]
    <3>1. request' = [request EXCEPT ![w] = q] /\ q.step = "create"
      BY <2>2 DEF AcceptCreate, TypeInv, TypeOK, Request
    <3> HIDE DEF q
    <3> QED
      BY <3>1, RequestAdmits
  <2>3. CASE CreateRedeem(w) \/ GenerateDisplayToken(w) \/ ShowQrCodes(w)
    BY <2>3, EndAdmits DEF CreateRedeem, GenerateDisplayToken, ShowQrCodes
  <2>4. ASSUME NEW r \in RedeemIds, AcceptVerify(w, r)
        PROVE  RequestsAdmit'
    <3> DEFINE q == [Idle EXCEPT !.step = "verify", !.id = r]
    <3>1. request' = [request EXCEPT ![w] = q] /\ q.step = "verify"
      BY <2>4 DEF AcceptVerify, Begin, Idle
    <3> HIDE DEF q
    <3> QED
      BY <3>1, RequestAdmits
  <2>5. ASSUME NEW r \in RedeemIds, AcceptShow(w, r)
        PROVE  RequestsAdmit'
    <3> DEFINE q == [Idle EXCEPT !.step = "show", !.id = r]
    <3>1. request' = [request EXCEPT ![w] = q] /\ q.step = "show" /\ q.id = r
      BY <2>5 DEF AcceptShow, Begin, Idle
    <3>2. Used(r)'
      BY <2>5, AdmitsPersists DEF AcceptShow, AdmissionInv
    <3> HIDE DEF q
    <3>3. Used(q.id)'
      BY <3>1, <3>2 DEF Used
    <3> QED
      BY <3>1, <3>3, RequestAdmits
  <2>6. CASE UseRedeem(w)
    <3>1. PICK q : q = [request[w] EXCEPT !.step = "display"]
      OBVIOUS
    <3>2. request' = [request EXCEPT ![w] = q] /\ q.step = "display" /\ q.id = request[w].id
      BY <2>6, <3>1 DEF UseRedeem, TypeInv, TypeOK, Request
    <3>3. Used(q.id)'
      BY <2>6, <3>2, UseRedeemRow, IdFacts DEF Used, TypeInv
    <3> QED
      BY <3>2, <3>3, RequestAdmits
  <2> QED
    BY <2>1, <2>2, <2>3, <2>4, <2>5, <2>6 DEF RedeemController
<1>5. (\A r \in displayed : Used(r))'
  <2>1. CASE GenerateDisplayToken(w)
    <3>1. Used(request[w].id) /\ displayed' = displayed \cup {request[w].id}
      BY <2>1 DEF GenerateDisplayToken, AdmissionInv, RequestsAdmit
    <3>2. \A r \in displayed' : Used(r)
      BY <3>1 DEF AdmissionInv
    <3> QED
      BY <3>2, AdmitsPersists DEF Used
  <2> QED
    BY <1>2, <2>1, DisplayedAdmit
<1>6. HashesAdmit'
  <2>1. CASE ShowQrCodes(w)
    <3>1. PICK r : r = request[w].id
      OBVIOUS
    <3>2. /\ Used(r) /\ r \in RedeemIds /\ redeemRows' = redeemRows /\ redeem' = redeem
          /\ hashes' = hashes \cup {[redeem |-> r, names |-> x] : x \in Shown(r)}
      BY <2>1, <3>1, IdFacts DEF ShowQrCodes, AdmissionInv, RequestsAdmit, Used, TypeInv
    <3>3. ASSUME NEW x \in Shown(r), x \in Tickets
          PROVE  Admits(r, x)
      <4>1. redeem[r].purchase \in Purchases
        BY <3>2, IdFacts DEF Used, TypeInv, RowsAreWhole
      <4>2. redeem[r].mode = "individual" /\ x \in TicketsOf(redeem[r].purchase)
        BY <3>3, <4>1, RedeemsAssumption DEF Shown, RedeemTicket
      <4> QED
        BY <3>2, <4>2 DEF Admits, TicketsOf
    <3>4. ASSUME NEW h \in hashes'
          PROVE  Used(h.redeem) /\ (h.names \in Tickets => Admits(h.redeem, h.names))
      <4>1. CASE h \in hashes
        BY <4>1 DEF AdmissionInv, HashesAdmit
      <4>2. ASSUME NEW x \in Shown(r), h = [redeem |-> r, names |-> x]
            PROVE  h.redeem = r /\ h.names = x
        BY <4>2
      <4> QED
        BY <3>2, <3>3, <4>1, <4>2
    <3> QED
      BY <3>2, <3>4 DEF HashesAdmit, Used, Admits
  <2> QED
    BY <1>3, <2>1, HashesKeepAdmitting
<1> QED
  BY <1>1, <1>4, <1>5, <1>6, AdmittedStay DEF AdmissionInv

LEMMA OthersAdmit ==
  ASSUME TypeInv, AdmissionInv, Next, NEW w \in Requests,
         ListingController(w) \/ TicketController(w)
  PROVE  AdmissionInv'
<1> USE DEF tableVars, redisVars, historyVars
<1>1. displayed' = displayed /\ hashes' = hashes
  BY DEF ListingController, TicketController, AcceptListing, CreateListing, AcceptCancel,
         CancelListing, AcceptHash, Admit
<1>2. admittedBy' = admittedBy \/ Admit(w)
  BY DEF ListingController, TicketController, AcceptListing, CreateListing, AcceptCancel,
         CancelListing, AcceptHash
<1>3. RequestsAdmit'
  <2>1. ASSUME NEW t \in Tickets, AcceptListing(w, t)
        PROVE  RequestsAdmit'
    <3> DEFINE q == [Idle EXCEPT !.step = "list", !.ticket = t, !.seen = redeemRows]
    <3>1. request' = [request EXCEPT ![w] = q] /\ q.step = "list"
      BY <2>1 DEF AcceptListing, Begin, Idle
    <3> HIDE DEF q
    <3> QED
      BY <3>1, RequestAdmits
  <2>2. ASSUME NEW l \in ListingIds, AcceptCancel(w, l)
        PROVE  RequestsAdmit'
    <3> DEFINE q == [Idle EXCEPT !.step = "cancel", !.id = l]
    <3>1. request' = [request EXCEPT ![w] = q] /\ q.step = "cancel"
      BY <2>2 DEF AcceptCancel, Begin, Idle
    <3> HIDE DEF q
    <3> QED
      BY <3>1, RequestAdmits
  <2>3. CASE \/ CancelListing(w) \/ Admit(w)
             \/ \E dto \in ListingCreateValidateDto : CreateListing(w, dto)
    BY <2>3, EndAdmits DEF CreateListing, CancelListing, Admit
  <2>4. ASSUME NEW h \in hashes, AcceptHash(w, h)
        PROVE  RequestsAdmit'
    <3> DEFINE q == [Idle EXCEPT !.step = "admit", !.id = h.redeem, !.ticket = h.names]
    <3>1. /\ request' = [request EXCEPT ![w] = q] /\ q.step = "admit"
          /\ q.id = h.redeem /\ q.ticket = h.names
      BY <2>4 DEF AcceptHash, Begin, Idle
    <3>2. h.names \in Tickets /\ Admits(h.redeem, h.names)
      BY <2>4 DEF AcceptHash, AdmissionInv, HashesAdmit
    <3> HIDE DEF q
    <3>3. q.ticket \in Tickets /\ Admits(q.id, q.ticket)
      BY <3>1, <3>2
    <3>4. redeem' = redeem /\ redeemRows' = redeemRows
      BY <2>4 DEF AcceptHash
    <3>5. Admits(q.id, q.ticket)'
      BY <3>3, <3>4 DEF Admits, Used
    <3> QED
      BY <3>1, <3>3, <3>5, RequestAdmits
  <2> QED
    BY <2>1, <2>2, <2>3, <2>4 DEF ListingController, TicketController
<1>4. (\A t \in Tickets : admittedBy[t] # 0 => Admits(admittedBy[t], t))'
  <2>1. CASE Admit(w)
    <3> DEFINE r == request[w].id  t == request[w].ticket
    <3>1. Admits(r, t) /\ redeem' = redeem /\ redeemRows' = redeemRows
      BY <2>1 DEF Admit, AdmissionInv, RequestsAdmit
    <3>2. admittedBy' = [admittedBy EXCEPT ![t] = r]
      BY <2>1 DEF Admit
    <3>3. ASSUME NEW x \in Tickets, admittedBy'[x] # 0
          PROVE  Admits(admittedBy'[x], x)
      <4>1. admittedBy'[x] = IF x = t THEN r ELSE admittedBy[x]
        BY <3>2 DEF TypeInv, TypeOK
      <4> HIDE DEF r, t
      <4> QED
        BY <3>1, <3>3, <4>1 DEF AdmissionInv
    <3> QED
      BY <3>1, <3>3 DEF Admits, Used
  <2> QED
    BY <1>2, <2>1, AdmittedStay
<1> QED
  BY <1>1, <1>3, <1>4, DisplayedAdmit, HashesKeepAdmitting DEF AdmissionInv

LEMMA EnvironmentAdmits ==
  ASSUME TypeInv, AdmissionInv, Next, Environment
  PROVE  AdmissionInv'
<1> USE DEF tableVars, redisVars, historyVars
<1>1. admittedBy' = admittedBy /\ displayed' \subseteq displayed /\ hashes' \subseteq hashes
  BY DEF Environment, FailRequest, ChangeTicket, UpdateTicket, CodeExpires, HourPasses, KeyExpires
<1>2. RequestsAdmit'
  <2>1. ASSUME NEW w \in Requests, FailRequest(w)
        PROVE  RequestsAdmit'
    BY <2>1, EndAdmits DEF FailRequest
  <2>2. CASE request' = request
    BY <2>2, AdmitsPersists
    DEF AdmissionInv, RequestsAdmit, TypeInv, RequestsAreWhole, Used, Admits
  <2> QED
    BY <2>1, <2>2 DEF Environment, ChangeTicket, UpdateTicket, CodeExpires, HourPasses, KeyExpires
<1> QED
  BY <1>1, <1>2, DisplayedAdmit, HashesKeepAdmitting, AdmittedStay DEF AdmissionInv

-----------------------------------------------------------------------------
(* What the validators can miss.                                            *)

\* How a step changes one request.
LEMMA RequestChange ==
  ASSUME TypeInv, Next, NEW w \in Requests
  PROVE  \/ request'[w] = request[w]
         \/ request'[w].step \in {"idle", "verify", "show", "admit", "cancel"}
         \/ \E dto \in CreateRedeemDto : CountRedeems(w, dto)
         \/ AcceptCreate(w)
         \/ UseRedeem(w)
         \/ \E t \in Tickets : AcceptListing(w, t)
<1> DEFINE Change == \/ request'[w] = request[w]
                     \/ request'[w].step \in {"idle", "verify", "show", "admit", "cancel"}
                     \/ \E dto \in CreateRedeemDto : CountRedeems(w, dto)
                     \/ AcceptCreate(w)
                     \/ UseRedeem(w)
                     \/ \E t \in Tickets : AcceptListing(w, t)
<1> SUFFICES Change
  OBVIOUS
<1> HIDE DEF Change
<1>1. request \in [Requests -> Request]
  BY DEF TypeInv, TypeOK
<1>2. CASE request' = request
  BY <1>2 DEF Change
<1>3. ASSUME NEW v \in Requests, End(v)
      PROVE  Change
  BY <1>1, <1>3 DEF Change, End, Idle
<1>4. ASSUME NEW v \in Requests, RedeemController(v)
      PROVE  Change
  <2>1. CASE v = w
    <3>1. ASSUME NEW r \in RedeemIds, AcceptVerify(w, r) \/ AcceptShow(w, r)
          PROVE  request'[w].step \in {"verify", "show"}
      BY <1>1, <3>1 DEF AcceptVerify, AcceptShow, Begin, Idle
    <3>2. CreateRedeem(w) \/ GenerateDisplayToken(w) \/ ShowQrCodes(w) => End(w)
      BY DEF CreateRedeem, GenerateDisplayToken, ShowQrCodes
    <3> QED
      BY <1>3, <1>4, <2>1, <3>1, <3>2 DEF RedeemController, Change
  <2>2. CASE v # w
    <3>1. request'[w] = request[w]
      BY <1>1, <1>4, <2>2
      DEF RedeemController, CountRedeems, AcceptCreate, CreateRedeem, AcceptVerify, AcceptShow,
          UseRedeem, GenerateDisplayToken, ShowQrCodes, Begin, End
    <3> QED
      BY <3>1 DEF Change
  <2> QED
    BY <2>1, <2>2
<1>5. ASSUME NEW v \in Requests, ListingController(v) \/ TicketController(v)
      PROVE  Change
  <2>1. CASE v = w
    <3>1. ASSUME NEW l \in ListingIds, AcceptCancel(w, l)
          PROVE  request'[w].step = "cancel"
      BY <1>1, <3>1 DEF AcceptCancel, Begin, Idle
    <3>2. ASSUME NEW h \in hashes, AcceptHash(w, h)
          PROVE  request'[w].step = "admit"
      BY <1>1, <3>2 DEF AcceptHash, Begin, Idle
    <3>3. (\E dto \in ListingCreateValidateDto : CreateListing(w, dto)) \/ CancelListing(w) \/ Admit(w)
          => End(w)
      BY DEF CreateListing, CancelListing, Admit
    <3> QED
      BY <1>3, <1>5, <2>1, <3>1, <3>2, <3>3 DEF ListingController, TicketController, Change
  <2>2. CASE v # w
    <3>1. request'[w] = request[w]
      BY <1>1, <1>5, <2>2
      DEF ListingController, TicketController, AcceptListing, CreateListing, AcceptCancel,
          CancelListing, AcceptHash, Admit, Begin, End
    <3> QED
      BY <3>1 DEF Change
  <2> QED
    BY <2>1, <2>2
<1>6. CASE Environment
  BY <1>2, <1>3, <1>6
  DEF Environment, FailRequest, ChangeTicket, UpdateTicket, CodeExpires, HourPasses, KeyExpires
<1> QED
  BY <1>4, <1>5, <1>6 DEF Next, Environment

\* A redeem that becomes active is a new one.
LEMMA NewActive ==
  ASSUME TypeInv, Next, NEW p, NEW modes, NEW r \in RedeemIds,
         redeem'[r].purchase = p, redeem'[r].status = "notRedeemed", redeem'[r].mode \in modes,
         ~redeem'[r].expired
  PROVE  r \in ActiveRedeems(p, modes) \/ r > redeemRows
<1>1. r \in Nat /\ redeemRows \in Nat
  BY IdFacts DEF TypeInv
<1>2. CASE Faded
  BY <1>2 DEF Faded, ActiveRedeems
<1>3. ASSUME NEW w \in Requests, CreateRedeem(w)
      PROVE  r \in ActiveRedeems(p, modes) \/ r > redeemRows
  <2>1. CASE r = redeemRows + 1
    BY <1>1, <2>1
  <2>2. CASE r # redeemRows + 1
    BY <1>3, <2>2, CreateRedeemRow DEF ActiveRedeems
  <2> QED
    BY <2>1, <2>2
<1>4. ASSUME NEW w \in Requests, UseRedeem(w)
      PROVE  r \in ActiveRedeems(p, modes)
  BY <1>4, UseRedeemRow DEF ActiveRedeems
<1> QED
  BY <1>2, <1>3, <1>4, RowsChange

LEMMA CreateMissesStep ==
  ASSUME TypeInv, Next, CreateMissesOnlyNewRedeems
  PROVE  CreateMissesOnlyNewRedeems'
<1> SUFFICES ASSUME NEW w \in Requests, request'[w].step = "create",
                    NEW r \in RedeemIds, redeem'[r].purchase = request'[w].purchase,
                    redeem'[r].status = "notRedeemed", redeem'[r].mode = request'[w].mode,
                    ~redeem'[r].expired
             PROVE  r > request'[w].seen
  BY DEF CreateMissesOnlyNewRedeems, ActiveRedeems
<1> DEFINE p == request'[w].purchase  m == request'[w].mode
<1>1. r \in ActiveRedeems(p, {m}) \/ r > redeemRows
  BY NewActive
<1>2. CASE request'[w] = request[w]
  <2>1. request[w].seen <= redeemRows /\ request[w].seen \in Nat
    BY RedeemsAssumption DEF TypeInv, TypeOK, Request, RequestsAreWhole, RedeemIds
  <2>2. redeemRows \in Nat /\ r \in Nat
    BY IdFacts DEF TypeInv
  <2>3. r \in ActiveRedeems(p, {m}) => r > request[w].seen
    BY <1>2 DEF CreateMissesOnlyNewRedeems
  <2> QED
    BY <1>1, <1>2, <2>1, <2>2, <2>3
<1>3. CASE AcceptCreate(w)
  <2>1. /\ request'[w].seen = redeemRows /\ p = request[w].purchase /\ m = request[w].mode
        /\ redeemRows' = redeemRows
    BY <1>3 DEF AcceptCreate, TypeInv, TypeOK, Request, tableVars
  <2>2. ActiveRedeems(p, {m}) = {}
    BY <1>3, <2>1 DEF AcceptCreate
  <2> QED
    BY <1>1, <2>1, <2>2
<1>4. request'[w] = request[w] \/ AcceptCreate(w)
  <2>1. request \in [Requests -> Request]
    BY DEF TypeInv, TypeOK
  <2>2. ~ UseRedeem(w)
    BY <2>1 DEF UseRedeem, Request
  <2>3. /\ ~ \E dto \in CreateRedeemDto : CountRedeems(w, dto)
        /\ ~ \E t \in Tickets : AcceptListing(w, t)
    BY <2>1 DEF CountRedeems, AcceptListing, Begin, Idle
  <2> QED
    BY <2>2, <2>3, RequestChange
<1> QED
  BY <1>2, <1>3, <1>4

LEMMA ListingMissesStep ==
  ASSUME TypeInv, Next, ListingMissesOnlyNewRedeems
  PROVE  ListingMissesOnlyNewRedeems'
<1> SUFFICES ASSUME NEW w \in Requests, request'[w].step = "list",
                    NEW r \in RedeemIds, redeem'[r].purchase = PurchaseOf[request'[w].ticket],
                    redeem'[r].status = "notRedeemed", redeem'[r].mode \in RedeemMode,
                    ~redeem'[r].expired
             PROVE  r > request'[w].seen
  BY DEF ListingMissesOnlyNewRedeems, ActiveRedeems
<1> DEFINE p == PurchaseOf[request'[w].ticket]
<1>1. r \in ActiveRedeems(p, RedeemMode) \/ r > redeemRows
  BY NewActive
<1>2. CASE request'[w] = request[w]
  <2>1. request[w].seen <= redeemRows /\ request[w].seen \in Nat
    BY RedeemsAssumption DEF TypeInv, TypeOK, Request, RequestsAreWhole, RedeemIds
  <2>2. redeemRows \in Nat /\ r \in Nat
    BY IdFacts DEF TypeInv
  <2>3. r \in ActiveRedeems(p, RedeemMode) => r > request[w].seen
    BY <1>2 DEF ListingMissesOnlyNewRedeems
  <2> QED
    BY <1>1, <1>2, <2>1, <2>2, <2>3
<1>3. ASSUME NEW t \in Tickets, AcceptListing(w, t)
      PROVE  r > request'[w].seen
  <2>1. request'[w].seen = redeemRows /\ request'[w].ticket = t
    BY <1>3 DEF AcceptListing, Begin, Idle, TypeInv, TypeOK
  <2>2. ActiveRedeems(p, RedeemMode) = {}
    BY <1>3, <2>1 DEF AcceptListing
  <2> QED
    BY <1>1, <2>1, <2>2
<1>4. request'[w] = request[w] \/ \E t \in Tickets : AcceptListing(w, t)
  <2>1. request \in [Requests -> Request]
    BY DEF TypeInv, TypeOK
  <2>2. ~ AcceptCreate(w) /\ ~ UseRedeem(w)
    BY <2>1 DEF AcceptCreate, UseRedeem, Request
  <2>3. ~ \E dto \in CreateRedeemDto : CountRedeems(w, dto)
    BY <2>1 DEF CountRedeems, Begin, Idle
  <2> QED
    BY <2>2, <2>3, RequestChange
<1> QED
  BY <1>2, <1>3, <1>4
-----------------------------------------------------------------------------
(* A redeem whose code is used up has been shown.                           *)

LEMMA RequestDisplays ==
  ASSUME TypeInv, Next, NEW w \in Requests, request[w].step = "display"
  PROVE  request'[w] = request[w] \/ request[w].id \in shown' \cup lost'
<1> DEFINE Displays == request'[w] = request[w] \/ request[w].id \in shown' \cup lost'
<1> SUFFICES Displays
  OBVIOUS
<1> HIDE DEF Displays
<1>1. request \in [Requests -> Request] /\ request[w] # Idle
  BY DEF TypeInv, TypeOK, Idle
<1>2. ASSUME NEW v \in Requests, RedeemController(v) \/ ListingController(v) \/ TicketController(v)
      PROVE  Displays
  <2>1. CASE GenerateDisplayToken(w)
    BY <2>1 DEF GenerateDisplayToken, Displays
  <2>2. CASE ~ GenerateDisplayToken(w)
    <3>1. request'[w] = request[w]
      BY <1>1, <1>2, <2>2
      DEF RedeemController, CountRedeems, AcceptCreate, CreateRedeem, AcceptVerify, AcceptShow,
          UseRedeem, GenerateDisplayToken, ShowQrCodes, ListingController, TicketController,
          AcceptListing, CreateListing, AcceptCancel, CancelListing, AcceptHash, Admit, Begin, End
    <3> QED
      BY <3>1 DEF Displays
  <2> QED
    BY <2>1, <2>2
<1>3. CASE Environment
  <2>1. CASE FailRequest(w)
    BY <2>1 DEF FailRequest, Displays
  <2>2. CASE ~ FailRequest(w)
    <3>1. request'[w] = request[w]
      BY <1>1, <1>3, <2>2
      DEF Environment, FailRequest, ChangeTicket, UpdateTicket, CodeExpires, HourPasses, KeyExpires, End
    <3> QED
      BY <3>1 DEF Displays
  <2> QED
    BY <2>1, <2>2
<1> QED
  BY <1>2, <1>3 DEF Next, Environment

LEMMA ShownGrows ==
  ASSUME Next
  PROVE  shown \subseteq shown' /\ lost \subseteq lost'
<1> USE DEF historyVars
<1>1. ASSUME NEW w \in Requests, RedeemController(w)
      PROVE  shown \subseteq shown' /\ lost \subseteq lost'
  BY <1>1 DEF RedeemController, CountRedeems, AcceptCreate, CreateRedeem, AcceptVerify, AcceptShow,
              UseRedeem, GenerateDisplayToken, ShowQrCodes
<1>2. ASSUME NEW w \in Requests, ListingController(w) \/ TicketController(w)
      PROVE  shown \subseteq shown' /\ lost \subseteq lost'
  BY <1>2 DEF ListingController, TicketController, AcceptListing, CreateListing, AcceptCancel,
              CancelListing, AcceptHash, Admit
<1>3. CASE Environment
  BY <1>3 DEF Environment, FailRequest, ChangeTicket, UpdateTicket, CodeExpires, HourPasses, KeyExpires
<1> QED
  BY <1>1, <1>2, <1>3 DEF Next, Environment

LEMMA ShownStep ==
  ASSUME TypeInv, Next, RedeemedIsShown
  PROVE  RedeemedIsShown'
<1> DEFINE Accounted(r) == \/ r \in shown' \cup lost'
                           \/ \E w \in Requests : request'[w].step = "display" /\ request'[w].id = r
<1> SUFFICES ASSUME NEW r \in RedeemIds, redeem'[r].status = "redeemed"
             PROVE  Accounted(r)
  BY DEF RedeemedIsShown
<1>1. redeem[r].status = "redeemed" => Accounted(r)
  <2>1. ASSUME NEW w \in Requests, request[w].step = "display", request[w].id = r
        PROVE  Accounted(r)
    BY <2>1, RequestDisplays
  <2> QED
    BY <2>1, ShownGrows DEF RedeemedIsShown
<1>2. CASE Faded
  BY <1>1, <1>2 DEF Faded
<1>3. ASSUME NEW w \in Requests, CreateRedeem(w)
      PROVE  Accounted(r)
  <2>1. redeem'[redeemRows + 1].status = "notRedeemed"
    BY <1>3, CreateRedeemRow
  <2>2. \A i \in RedeemIds : i # redeemRows + 1 => redeem'[i] = redeem[i]
    BY <1>3, CreateRedeemRow
  <2>3. redeem'[r] = redeem[r]
    BY <2>1, <2>2
  <2> HIDE DEF Accounted
  <2> QED
    BY <1>1, <2>3
<1>4. ASSUME NEW w \in Requests, UseRedeem(w)
      PROVE  Accounted(r)
  <2>1. CASE r = request[w].id
    <3>1. request'[w].step = "display" /\ request'[w].id = r
      BY <1>4, <2>1 DEF UseRedeem, TypeInv, TypeOK, Request
    <3> QED
      BY <3>1
  <2>2. CASE r # request[w].id
    BY <1>1, <1>4, <2>2, UseRedeemRow
  <2> QED
    BY <2>1, <2>2
<1> HIDE DEF Accounted
<1> QED
  BY <1>2, <1>3, <1>4, RowsChange

-----------------------------------------------------------------------------
(* The limit of redeems per hour.                                           *)

Creating(p) == Pending({"counted", "create"}, p)

LEMMA CountedSets ==
  ASSUME NEW p
  PROVE  /\ IsFiniteSet(InLastHour(p)) /\ Cardinality(InLastHour(p)) \in Nat
         /\ IsFiniteSet(Creating(p)) /\ Cardinality(Creating(p)) \in Nat
         /\ Cardinality(Creating(p)) <= Cardinality(Requests)
         /\ Cardinality(Requests) \in Nat
<1>1. IsFiniteSet(RedeemIds)
  BY RedeemsAssumption, FS_Interval DEF RedeemIds
<1>2. InLastHour(p) \subseteq RedeemIds /\ Creating(p) \subseteq Requests
  BY DEF InLastHour, Creating, Pending
<1>3. IsFiniteSet(InLastHour(p))
  BY <1>1, <1>2, FS_Subset
<1>4. IsFiniteSet(Creating(p)) /\ Cardinality(Creating(p)) <= Cardinality(Requests)
  BY <1>2, RedeemsAssumption, FS_Subset
<1> QED
  BY <1>3, <1>4, RedeemsAssumption, FS_CardinalityType

LEMMA CountShrinks ==
  ASSUME TypeInv, Next, NEW p \in Purchases, RedeemsWithinLimit,
         InLastHour(p)' \subseteq InLastHour(p), Creating(p)' \subseteq Creating(p)
  PROVE  Cardinality(InLastHour(p)') + Cardinality(Creating(p)')
           <= Limit - 1 + Cardinality(Requests)
<1> DEFINE h == InLastHour(p)  c == Creating(p)
<1>1. Cardinality(h) + Cardinality(c) <= Limit - 1 + Cardinality(Requests)
  BY DEF RedeemsWithinLimit, Creating
<1>2. /\ IsFiniteSet(h) /\ Cardinality(h) \in Nat /\ IsFiniteSet(c) /\ Cardinality(c) \in Nat
      /\ Cardinality(Requests) \in Nat
  BY CountedSets
<1> HIDE DEF h, c
<1>3. Cardinality(h') <= Cardinality(h) /\ IsFiniteSet(h')
  BY <1>2, FS_Subset DEF h
<1>4. Cardinality(c') <= Cardinality(c) /\ IsFiniteSet(c')
  BY <1>2, FS_Subset DEF c
<1>5. Cardinality(h') \in Nat /\ Cardinality(c') \in Nat
  BY <1>3, <1>4, FS_CardinalityType
<1>6. Cardinality(h') + Cardinality(c') <= Limit - 1 + Cardinality(Requests)
  BY <1>1, <1>2, <1>3, <1>4, <1>5, RedeemsAssumption
<1> QED
  BY <1>6 DEF h, c
LEMMA CreatingChange ==
  ASSUME TypeInv, Next, NEW p \in Purchases, NEW w \in Creating(p)'
  PROVE  \/ w \in Creating(p)
         \/ \E dto \in CreateRedeemDto : dto.purchase = p /\ CountRedeems(w, dto)
<1>1. /\ w \in Requests /\ request'[w].step \in {"counted", "create"}
      /\ request'[w].purchase = p
  BY DEF Creating, Pending
<1>2. request \in [Requests -> Request]
  BY DEF TypeInv, TypeOK
<1>3. CASE request'[w] = request[w]
  BY <1>1, <1>3 DEF Creating, Pending
<1>4. ASSUME NEW dto \in CreateRedeemDto, CountRedeems(w, dto)
      PROVE  dto.purchase = p
  BY <1>1, <1>2, <1>4 DEF CountRedeems, Begin, Idle
<1>5. CASE AcceptCreate(w)
  BY <1>1, <1>2, <1>5 DEF AcceptCreate, Creating, Pending, Request
<1>6. ~ UseRedeem(w)
  BY <1>1, <1>2 DEF UseRedeem, Request
<1>7. ~ \E t \in Tickets : AcceptListing(w, t)
  BY <1>1, <1>2 DEF AcceptListing, Begin, Idle
<1> QED
  BY <1>1, <1>3, <1>4, <1>5, <1>6, <1>7, RequestChange

LEMMA LimitStep ==
  ASSUME TypeInv, Next, RedeemsWithinLimit
  PROVE  RedeemsWithinLimit'
<1> SUFFICES ASSUME NEW p \in Purchases
             PROVE  Cardinality(InLastHour(p)') + Cardinality(Creating(p)')
                      <= Limit - 1 + Cardinality(Requests)
  BY DEF RedeemsWithinLimit, Creating
<1>1. ASSUME NEW w \in Requests, NEW dto \in CreateRedeemDto, dto.purchase = p, CountRedeems(w, dto)
      PROVE  Cardinality(InLastHour(p)') + Cardinality(Creating(p)')
               <= Limit - 1 + Cardinality(Requests)
  <2>1. InLastHour(p)' = InLastHour(p)
    BY <1>1 DEF CountRedeems, InLastHour, tableVars
  <2>2. Cardinality(InLastHour(p)) < Limit
    BY <1>1 DEF CountRedeems
  <2>3. /\ IsFiniteSet(Creating(p)') /\ Cardinality(Creating(p)') \in Nat
        /\ Cardinality(Creating(p)') <= Cardinality(Requests)
    <3>1. Creating(p)' \subseteq Requests
      BY DEF Creating, Pending
    <3> QED
      BY <3>1, RedeemsAssumption, FS_Subset, FS_CardinalityType
  <2> QED
    BY <2>1, <2>2, <2>3, CountedSets, RedeemsAssumption
<1>2. ASSUME ~ \E w \in Requests, dto \in CreateRedeemDto : dto.purchase = p /\ CountRedeems(w, dto)
      PROVE  Creating(p)' \subseteq Creating(p)
  BY <1>2, CreatingChange DEF Creating, Pending
<1>3. ASSUME NEW w \in Requests, CreateRedeem(w), request[w].purchase = p,
             Creating(p)' \subseteq Creating(p)
      PROVE  Cardinality(InLastHour(p)') + Cardinality(Creating(p)')
               <= Limit - 1 + Cardinality(Requests)
  <2> DEFINE new == redeemRows + 1
  <2>1. /\ redeemRows' = new /\ new \in RedeemIds
        /\ redeem'[new].purchase = p /\ redeem'[new].recent
        /\ \A i \in RedeemIds : i # new => redeem'[i] = redeem[i]
    BY <1>3, CreateRedeemRow
  <2>2. new \notin InLastHour(p)
    <3>1. ~ (new <= redeemRows)
      BY IdFacts DEF TypeInv
    <3> QED
      BY <2>1, <3>1 DEF InLastHour, TypeInv, RowsAreWhole, NoRedeem
  <2> HIDE DEF new
  <2>3. InLastHour(p)' = InLastHour(p) \cup {new}
    BY <2>1 DEF InLastHour
  <2>4. w \in Creating(p) /\ w \notin Creating(p)'
    BY <1>3 DEF CreateRedeem, End, Creating, Pending, TypeInv, TypeOK, Idle
  <2>5. Creating(p)' \subseteq Creating(p) \ {w}
    BY <1>3, <2>4
  <2>6. Cardinality(InLastHour(p)') = Cardinality(InLastHour(p)) + 1
    BY <2>2, <2>3, CountedSets, FS_AddElement
  <2>7. /\ IsFiniteSet(Creating(p) \ {w})
        /\ Cardinality(Creating(p) \ {w}) = Cardinality(Creating(p)) - 1
    BY <2>4, CountedSets, FS_RemoveElement
  <2>8. /\ Cardinality(Creating(p)') <= Cardinality(Creating(p)) - 1
        /\ Cardinality(Creating(p)') \in Nat
    BY <2>5, <2>7, FS_Subset, FS_CardinalityType
  <2>9. Cardinality(InLastHour(p)) + Cardinality(Creating(p)) <= Limit - 1 + Cardinality(Requests)
    BY DEF RedeemsWithinLimit, Creating
  <2> QED
    BY <2>6, <2>8, <2>9, CountedSets, RedeemsAssumption
<1>4. ASSUME ~ \E w \in Requests : CreateRedeem(w) /\ request[w].purchase = p
      PROVE  InLastHour(p)' \subseteq InLastHour(p)
  <2> SUFFICES ASSUME NEW r \in RedeemIds, redeem'[r].purchase = p, redeem'[r].recent
               PROVE  redeem[r].purchase = p /\ redeem[r].recent
    BY DEF InLastHour
  <2>1. CASE Faded
    BY <2>1 DEF Faded
  <2>2. ASSUME NEW w \in Requests, CreateRedeem(w)
        PROVE  redeem'[r] = redeem[r]
    <3>1. redeem'[redeemRows + 1].purchase = request[w].purchase
      BY <2>2, CreateRedeemRow
    <3>2. \A i \in RedeemIds : i # redeemRows + 1 => redeem'[i] = redeem[i]
      BY <2>2, CreateRedeemRow
    <3> QED
      BY <1>4, <2>2, <3>1, <3>2
  <2>3. ASSUME NEW w \in Requests, UseRedeem(w)
        PROVE  redeem'[r].purchase = redeem[r].purchase /\ redeem'[r].recent = redeem[r].recent
    BY <2>3, UseRedeemRow
  <2> QED
    BY <2>1, <2>2, <2>3, RowsChange
<1>5. CASE \E w \in Requests, dto \in CreateRedeemDto : dto.purchase = p /\ CountRedeems(w, dto)
  BY <1>1, <1>5
<1>6. CASE ~ \E w \in Requests, dto \in CreateRedeemDto : dto.purchase = p /\ CountRedeems(w, dto)
  <2>1. Creating(p)' \subseteq Creating(p)
    BY <1>2, <1>6
  <2>2. CASE \E w \in Requests : CreateRedeem(w) /\ request[w].purchase = p
    BY <1>3, <2>1, <2>2
  <2>3. CASE ~ \E w \in Requests : CreateRedeem(w) /\ request[w].purchase = p
    BY <1>4, <2>1, <2>3, CountShrinks
  <2> QED
    BY <2>2, <2>3
<1> QED
  BY <1>5, <1>6

-----------------------------------------------------------------------------
(* The theorems.                                                            *)

IInv ==
  /\ TypeInv
  /\ AdmissionInv
  /\ CreateMissesOnlyNewRedeems
  /\ ListingMissesOnlyNewRedeems
  /\ RedeemedIsShown
  /\ RedeemsWithinLimit

LEMMA InitHolds == Init => IInv
<1> SUFFICES ASSUME Init PROVE IInv
  OBVIOUS
<1>1. CreateMissesOnlyNewRedeems /\ ListingMissesOnlyNewRedeems /\ RedeemedIsShown
  BY DEF Init, CreateMissesOnlyNewRedeems, ListingMissesOnlyNewRedeems, RedeemedIsShown, Idle, NoRedeem
<1>2. RedeemsWithinLimit
  <2>1. ASSUME NEW p \in Purchases
        PROVE  InLastHour(p) = {} /\ Pending({"counted", "create"}, p) = {}
    BY DEF Init, InLastHour, Pending, NoRedeem, Idle
  <2>2. Cardinality({}) = 0 /\ Cardinality(Requests) \in Nat
    BY FS_EmptySet, FS_CardinalityType, RedeemsAssumption
  <2>3. Limit - 1 + Cardinality(Requests) >= 0 + 0
    BY <2>2, RedeemsAssumption
  <2> QED
    BY <2>1, <2>2, <2>3 DEF RedeemsWithinLimit
<1> QED
  BY <1>1, <1>2, TypeInit, AdmissionInit DEF IInv

LEMMA StepHolds == IInv /\ [Next]_vars => IInv'
<1> SUFFICES ASSUME IInv, [Next]_vars PROVE IInv'
  OBVIOUS
<1>1. CASE Next
  <2>1. HashesNameRows
    BY <1>1 DEF IInv, AdmissionInv, HashesAdmit, Used, HashesNameRows
  <2>2. TypeInv'
    BY <1>1, <2>1, RedeemControllerType, ListingControllerType, TicketControllerType, EnvironmentType
    DEF Next, Environment, IInv
  <2>3. AdmissionInv'
    BY <1>1, RedeemControllerAdmits, OthersAdmit, EnvironmentAdmits DEF Next, Environment, IInv
  <2> QED
    BY <1>1, <2>2, <2>3, CreateMissesStep, ListingMissesStep, ShownStep, LimitStep DEF IInv
<1>2. CASE UNCHANGED vars
  <2> USE <1>2 DEF vars, tableVars, redisVars, historyVars
  <2>1. TypeInv'
    BY DEF IInv, TypeInv, TypeOK, RowsAreWhole, RequestsAreWhole
  <2>2. AdmissionInv'
    BY DEF IInv, AdmissionInv, HashesAdmit, RequestsAdmit, Used, Admits
  <2>3. CreateMissesOnlyNewRedeems' /\ ListingMissesOnlyNewRedeems' /\ RedeemedIsShown'
    BY DEF IInv, CreateMissesOnlyNewRedeems, ListingMissesOnlyNewRedeems, RedeemedIsShown,
           ActiveRedeems
  <2>4. RedeemsWithinLimit'
    BY DEF IInv, RedeemsWithinLimit, InLastHour, Pending
  <2> QED
    BY <2>1, <2>2, <2>3, <2>4 DEF IInv
<1> QED
  BY <1>1, <1>2

LEMMA Invariance == Spec => []IInv
  BY InitHolds, StepHolds, PTL DEF Spec

\* Tables, keys and requests have their types in every state.
THEOREM TypeCorrect == Spec => []TypeOK
<1>1. IInv => TypeOK
  BY DEF IInv, TypeInv
<1> QED
  BY <1>1, Invariance, PTL

\* A ticket that the gate has let in was shown under a redeem of its purchase,
\* in the mode individual, whose code had been verified.
THEOREM AdmissionIsVerified == Spec => []AdmissionNeedsVerifiedRedeem
<1>1. IInv => AdmissionNeedsVerifiedRedeem
  BY DEF IInv, AdmissionInv, AdmissionNeedsVerifiedRedeem, Admits, Used
<1> QED
  BY <1>1, Invariance, PTL

\* The validator of a new redeem misses no active redeem but those created
\* after it had read the table.
THEOREM CreateMisses == Spec => []CreateMissesOnlyNewRedeems
<1>1. IInv => CreateMissesOnlyNewRedeems
  BY DEF IInv
<1> QED
  BY <1>1, Invariance, PTL

\* Neither does the validator of a listing.
THEOREM ListingMisses == Spec => []ListingMissesOnlyNewRedeems
<1>1. IInv => ListingMissesOnlyNewRedeems
  BY DEF IInv
<1> QED
  BY <1>1, Invariance, PTL

\* A used code has led to a display key, or leads to one, unless its request failed.
THEOREM UsedIsShown == Spec => []RedeemedIsShown
<1>1. IInv => RedeemedIsShown
  BY DEF IInv
<1> QED
  BY <1>1, Invariance, PTL

\* In an hour a purchase gets less redeems than the limit and the requests at work.
THEOREM LimitOfRedeems == Spec => []RedeemsWithinLimit
<1>1. IInv => RedeemsWithinLimit
  BY DEF IInv
<1> QED
  BY <1>1, Invariance, PTL
=============================================================================
