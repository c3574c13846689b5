------------------------------- MODULE Redeems -------------------------------
(***************************************************************************)
(* Redeeming the tickets of a purchase, from the code sent to their buyer  *)
(* to the QR codes scanned at the gate, and the listings of tickets on     *)
(* sale, which a redeem in progress keeps out.                             *)
(*                                                                         *)
(* Three stores take part: the tables of MySQL, the keys of Redis, which   *)
(* expire, and the requests at work on both.  A validator reads the tables *)
(* in a request, the handler writes them later.  Time is abstracted to     *)
(* what it ends: a code, a key of Redis, the hour in which redeems count.  *)
(***************************************************************************)
EXTENDS Naturals, FiniteSets

CONSTANTS
  Tickets,     \* tickets of paid orders
  Purchases,   \* values of ticket.purchase_id
  PurchaseOf,  \* the purchase of each ticket
  Requests,    \* concurrent requests
  Limit,       \* redeemConfig.redeemLimitPerHour
  MaxRedeems,  \* most redeem rows
  MaxListings, \* most listing rows
  MaxDisturbances, \* bound of what expires and of the requests that fail
  None         \* no purchase, no ticket, no mode

ASSUME RedeemsAssumption ==
  /\ PurchaseOf \in [Tickets -> Purchases]
  /\ IsFiniteSet(Requests)
  /\ Limit \in Nat \ {0}
  /\ MaxRedeems \in Nat
  /\ MaxListings \in Nat
  /\ MaxDisturbances \in Nat
  /\ Tickets \cap Purchases = {}
  /\ None \notin Tickets \cup Purchases

VARIABLES
  ticketStatus, \* ticket.status
  redeemRows,   \* the last id of the redeem table
  redeem,       \* the redeem rows
  listingRows,  \* the last id of the listing table
  listing,      \* the listing rows
  displayed,    \* Redis: redeems with a display key
  hashes,       \* Redis: the hashes of QR codes, and what each of them names
  request,      \* the requests, and what their validators have read
  shown,        \* history: redeems whose display key has been set
  lost,         \* history: redeems used by a request that failed before it set the key
  admittedBy,   \* history: the redeem whose QR code has admitted the ticket, 0 for none
  disturbances  \* how many codes, keys and hours have ended, and requests failed

tableVars == <<ticketStatus, redeemRows, redeem, listingRows, listing>>
redisVars == <<displayed, hashes>>
historyVars == <<shown, lost, admittedBy>>
vars == <<tableVars, redisVars, request, historyVars, disturbances>>

RedeemIds == 1..MaxRedeems
ListingIds == 1..MaxListings

TicketStatus == {"creating", "active", "validated", "deleted"}
RedeemMode == {"individual", "all"}
RedeemStatus == {"notRedeemed", "redeemed"}
ListingStatus == {"active", "sold", "canceled"}

\* The column purchase_id, of the tables ticket and redeem.
PurchaseId == Purchases \cup {None}

\* A redeem row.  expire_at and created_at are abstracted to whether the code
\* has expired and whether the row is less than an hour old.
RedeemRow == [status : RedeemStatus \cup {"none"}, purchase : PurchaseId,
              mode : RedeemMode \cup {None}, expired : BOOLEAN, recent : BOOLEAN]
RedeemTable == [RedeemIds -> RedeemRow]
NoRedeem == [status |-> "none", purchase |-> None, mode |-> None,
             expired |-> FALSE, recent |-> FALSE]

ListingRow == [status : ListingStatus \cup {"none"}, ticket : Tickets \cup {None}]
ListingTable == [ListingIds -> ListingRow]
NoListing == [status |-> "none", ticket |-> None]

\* The bodies of POST /redeem and POST /listings: prices, dates and markets left out.
CreateRedeemDto == [purchase : Purchases, mode : RedeemMode]
ListingCreateValidateDto == [ticket : Tickets, status : ListingStatus]

\* A hash of a QR code: what it names, and history, the redeem it is shown for.
QrHash == [redeem : RedeemIds, names : Tickets \cup Purchases]

\* What a request is about to do, with the redeem or listing id and the other
\* parameters its validators have accepted.  seen is history: the last id of
\* the redeem table when the request last read it.
Step == {"idle", "counted", "create", "verify", "display", "show", "admit", "list", "cancel"}
Request == [step : Step, purchase : PurchaseId, mode : RedeemMode \cup {None},
            id : RedeemIds \cup ListingIds \cup {0}, ticket : Tickets \cup {None},
            seen : RedeemIds \cup {0}]
Idle == [step |-> "idle", purchase |-> None, mode |-> None, id |-> 0, ticket |-> None, seen |-> 0]

TypeOK ==
  /\ ticketStatus \in [Tickets -> TicketStatus]
  /\ redeemRows \in 0..MaxRedeems
  /\ redeem \in RedeemTable
  /\ listingRows \in 0..MaxListings
  /\ listing \in ListingTable
  /\ displayed \subseteq RedeemIds
  /\ hashes \subseteq QrHash
  /\ request \in [Requests -> Request]
  /\ shown \subseteq RedeemIds
  /\ lost \subseteq RedeemIds
  /\ admittedBy \in [Tickets -> RedeemIds \cup {0}]
  /\ disturbances \in 0..MaxDisturbances

Init ==
  /\ ticketStatus = [t \in Tickets |-> "creating"]
  /\ redeemRows = 0
  /\ redeem = [r \in RedeemIds |-> NoRedeem]
  /\ listingRows = 0
  /\ listing = [l \in ListingIds |-> NoListing]
  /\ displayed = {}
  /\ hashes = {}
  /\ request = [w \in Requests |-> Idle]
  /\ shown = {}
  /\ lost = {}
  /\ admittedBy = [t \in Tickets |-> 0]
  /\ disturbances = 0

Disturbance == disturbances < MaxDisturbances /\ disturbances' = disturbances + 1

Begin(w, step) == /\ request[w] = Idle
                  /\ request' = [request EXCEPT ![w] = step]
End(w) == request' = [request EXCEPT ![w] = Idle]

-----------------------------------------------------------------------------
(* What the queries find.                                                   *)

TicketsOf(p) == {t \in Tickets : PurchaseOf[t] = p}

\* The rows of redeem_ticket: a redeem has all tickets of its purchase.
RedeemTicket(r) == TicketsOf(redeem[r].purchase)

\* TicketRepository.findAllRedeemableByPurchaseId: a left join with the
\* listings, so that one listing that is not active is enough.
Redeemable(t) ==
  /\ ticketStatus[t] \in {"active", "creating"}
  /\ \/ \E l \in ListingIds : listing[l].ticket = t /\ listing[l].status # "active"
     \/ \A l \in ListingIds : listing[l].ticket # t

InLastHour(p) == {r \in RedeemIds : redeem[r].purchase = p /\ redeem[r].recent}

\* RedeemRepository.getActivePurchaseRedeem: of one mode, or of any.
ActiveRedeems(p, modes) ==
  {r \in RedeemIds : /\ redeem[r].purchase = p
                     /\ redeem[r].status = "notRedeemed"
                     /\ redeem[r].mode \in modes
                     /\ ~redeem[r].expired}

-----------------------------------------------------------------------------
(* POST /redeem                                                             *)

Mutant_CountRedeems_OffByOne(w, dto) ==
  /\ \E t \in TicketsOf(dto.purchase) : Redeemable(t)
  /\ Cardinality(InLastHour(dto.purchase)) <= Limit
  /\ Begin(w, [Idle EXCEPT !.step = "counted", !.purchase = dto.purchase, !.mode = dto.mode])
  /\ UNCHANGED <<tableVars, redisVars, historyVars, disturbances>>

\* AtLeastOneTicketRedeemableValidator, up to the redeems of the last hour.
CountRedeems(w, dto) ==
  /\ \E t \in TicketsOf(dto.purchase) : Redeemable(t)
  /\ Cardinality(InLastHour(dto.purchase)) < Limit
  /\ Begin(w, [Idle EXCEPT !.step = "counted", !.purchase = dto.purchase, !.mode = dto.mode])
  /\ UNCHANGED <<tableVars, redisVars, historyVars, disturbances>>

Mutant_AcceptCreate_AnyActive(w) ==
  /\ request[w].step = "counted"
  /\ request' = [request EXCEPT ![w].step = "create", ![w].seen = redeemRows]
  /\ UNCHANGED <<tableVars, redisVars, historyVars, disturbances>>

\* The rest of the validator: no active redeem in the same mode.
AcceptCreate(w) ==
  /\ request[w].step = "counted"
  /\ ActiveRedeems(request[w].purchase, {request[w].mode}) = {}
  /\ request' = [request EXCEPT ![w].step = "create", ![w].seen = redeemRows]
  /\ UNCHANGED <<tableVars, redisVars, historyVars, disturbances>>

\* RedeemService.create: nothing is read again under its lock.  All tickets of
\* the purchase belong to the redeem, and its code is sent to the buyer.
CreateRedeem(w) ==
  /\ request[w].step = "create"
  /\ redeemRows < MaxRedeems
  /\ redeemRows' = redeemRows + 1
  /\ redeem' = [redeem EXCEPT ![redeemRows + 1] =
                  [status |-> "notRedeemed", purchase |-> request[w].purchase,
                   mode |-> request[w].mode, expired |-> FALSE, recent |-> TRUE]]
  /\ End(w)
  /\ UNCHANGED <<ticketStatus, listingRows, listing, redisVars, historyVars, disturbances>>

-----------------------------------------------------------------------------
(* POST /redeem/:uuid/verify                                                *)

\* RedeemCodeValidator: the request has the code that was sent for the redeem.
AcceptVerify(w, r) ==
  /\ redeem[r].status = "notRedeemed"
  /\ ~redeem[r].expired
  /\ Begin(w, [Idle EXCEPT !.step = "verify", !.id = r])
  /\ UNCHANGED <<tableVars, redisVars, historyVars, disturbances>>

Mutant_UseRedeem_NotAwaited(w) ==
  /\ request[w].step = "verify"
  /\ redeem' = [redeem EXCEPT ![request[w].id].status = "redeemed"]
  /\ End(w)
  /\ UNCHANGED <<ticketStatus, redeemRows, listingRows, listing, redisVars, historyVars,
                 disturbances>>

\* RedeemService.verify, in MySQL: by uuid alone.
UseRedeem(w) ==
  /\ request[w].step = "verify"
  /\ redeem' = [redeem EXCEPT ![request[w].id].status = "redeemed"]
  /\ request' = [request EXCEPT ![w].step = "display"]
  /\ UNCHANGED <<ticketStatus, redeemRows, listingRows, listing, redisVars, historyVars,
                 disturbances>>

\* RedeemService.verify, in Redis: QrService.generateDisplayToken.
GenerateDisplayToken(w) ==
  /\ request[w].step = "display"
  /\ displayed' = displayed \cup {request[w].id}
  /\ shown' = shown \cup {request[w].id}
  /\ End(w)
  /\ UNCHANGED <<tableVars, hashes, lost, admittedBy, disturbances>>

-----------------------------------------------------------------------------
(* POST /redeem/:uuid/qr                                                    *)

Mutant_AcceptShow_NotVerified(w, r) ==
  /\ redeem[r].status # "none"
  /\ Begin(w, [Idle EXCEPT !.step = "show", !.id = r])
  /\ UNCHANGED <<tableVars, redisVars, historyVars, disturbances>>

\* RedeemIsActiveValidator.
AcceptShow(w, r) ==
  /\ r \in displayed
  /\ Begin(w, [Idle EXCEPT !.step = "show", !.id = r])
  /\ UNCHANGED <<tableVars, redisVars, historyVars, disturbances>>

\* RedeemService.getRedeemQrCodes: a hash for each ticket, or one hash that
\* names the purchase of all of them.
Shown(r) == IF redeem[r].mode = "individual" THEN RedeemTicket(r) ELSE {redeem[r].purchase}

ShowQrCodes(w) ==
  /\ request[w].step = "show"
  /\ hashes' = hashes \cup {[redeem |-> request[w].id, names |-> x] : x \in Shown(request[w].id)}
  /\ End(w)
  /\ UNCHANGED <<tableVars, displayed, historyVars, disturbances>>

-----------------------------------------------------------------------------
(* POST /tickets/validate of the providers' API, at the gate                *)

\* TicketIsValidatableValidator: what the hash names is taken for a ticket.
AcceptHash(w, h) ==
  /\ h \in hashes
  /\ h.names \in Tickets
  /\ ticketStatus[h.names] = "active"
  /\ Begin(w, [Idle EXCEPT !.step = "admit", !.id = h.redeem, !.ticket = h.names])
  /\ UNCHANGED <<tableVars, redisVars, historyVars, disturbances>>

\* TicketService.validate: the row is locked, and read again.
Admit(w) ==
  /\ request[w].step = "admit"
  /\ ticketStatus[request[w].ticket] = "active"
  /\ ticketStatus' = [ticketStatus EXCEPT ![request[w].ticket] = "validated"]
  /\ admittedBy' = [admittedBy EXCEPT ![request[w].ticket] = request[w].id]
  /\ End(w)
  /\ UNCHANGED <<redeemRows, redeem, listingRows, listing, redisVars, shown, lost, disturbances>>

-----------------------------------------------------------------------------
(* The listings                                                             *)

Mutant_AcceptListing_OneMode(w, t) ==
  /\ ActiveRedeems(PurchaseOf[t], {"individual"}) = {}
  /\ Begin(w, [Idle EXCEPT !.step = "list", !.ticket = t, !.seen = redeemRows])
  /\ UNCHANGED <<tableVars, redisVars, historyVars, disturbances>>

\* TicketIsInRedeemingProcess: a redeem of any mode, but not a verified one.
AcceptListing(w, t) ==
  /\ ActiveRedeems(PurchaseOf[t], RedeemMode) = {}
  /\ Begin(w, [Idle EXCEPT !.step = "list", !.ticket = t, !.seen = redeemRows])
  /\ UNCHANGED <<tableVars, redisVars, historyVars, disturbances>>

\* ListingService.createListing: the status is the client's.
CreateListing(w, dto) ==
  /\ request[w].step = "list"
  /\ dto.ticket = request[w].ticket
  /\ listingRows < MaxListings
  /\ listingRows' = listingRows + 1
  /\ listing' = [listing EXCEPT ![listingRows + 1] =
                   [status |-> dto.status, ticket |-> dto.ticket]]
  /\ End(w)
  /\ UNCHANGED <<ticketStatus, redeemRows, redeem, redisVars, historyVars, disturbances>>

\* IsUserActiveListingValidator.
AcceptCancel(w, l) ==
  /\ listing[l].status = "active"
  /\ Begin(w, [Idle EXCEPT !.step = "cancel", !.id = l])
  /\ UNCHANGED <<tableVars, redisVars, historyVars, disturbances>>

Mutant_CancelListing_WrongStatus(w) ==
  /\ request[w].step = "cancel"
  /\ listing' = [listing EXCEPT ![request[w].id].status = "cancelled"]
  /\ End(w)
  /\ UNCHANGED <<ticketStatus, redeemRows, redeem, listingRows, redisVars, historyVars, disturbances>>

\* ListingService.cancel.
CancelListing(w) ==
  /\ request[w].step = "cancel"
  /\ listing' = [listing EXCEPT ![request[w].id].status = "canceled"]
  /\ End(w)
  /\ UNCHANGED <<ticketStatus, redeemRows, redeem, listingRows, redisVars, historyVars, disturbances>>

-----------------------------------------------------------------------------
(* The requests of the marketplace and of the gate.                         *)

RedeemController(w) ==
  \/ \E dto \in CreateRedeemDto : CountRedeems(w, dto)
  \/ AcceptCreate(w) \/ CreateRedeem(w)
  \/ \E r \in RedeemIds : AcceptVerify(w, r) \/ AcceptShow(w, r)
  \/ UseRedeem(w) \/ GenerateDisplayToken(w) \/ ShowQrCodes(w)

ListingController(w) ==
  \/ \E t \in Tickets : AcceptListing(w, t)
  \/ \E dto \in ListingCreateValidateDto : CreateListing(w, dto)
  \/ \E l \in ListingIds : AcceptCancel(w, l)
  \/ CancelListing(w)

TicketController(w) ==
  \/ \E h \in hashes : AcceptHash(w, h)
  \/ Admit(w)

-----------------------------------------------------------------------------
(* What else happens.                                                       *)

\* A request fails, or the process it runs in stops.  What it has written stays.
FailRequest(w) ==
  /\ request[w].step # "idle"
  /\ Disturbance
  /\ lost' = IF request[w].step = "display" THEN lost \cup {request[w].id} ELSE lost
  /\ End(w)
  /\ UNCHANGED <<tableVars, redisVars, shown, admittedBy>>

\* What else sets the status of a ticket, which the module Tickets has in full: the
\* reply that activates it and the deletions, whatever its status is by then ...
ChangeTicket(t, status) ==
  /\ status \in {"active", "deleted"}
  /\ ticketStatus' = [ticketStatus EXCEPT ![t] = status]
  /\ UNCHANGED <<redeemRows, redeem, listingRows, listing, redisVars, request, historyVars,
                 disturbances>>

\* ... and the update of the administrators, to any status.
UpdateTicket(t, status) ==
  /\ ticketStatus' = [ticketStatus EXCEPT ![t] = status]
  /\ Disturbance
  /\ UNCHANGED <<redeemRows, redeem, listingRows, listing, redisVars, request, historyVars>>

CodeExpires(r) ==
  /\ Disturbance
  /\ redeem[r].status # "none"
  /\ ~redeem[r].expired
  /\ redeem' = [redeem EXCEPT ![r].expired = TRUE]
  /\ UNCHANGED <<ticketStatus, redeemRows, listingRows, listing, redisVars, request, historyVars>>

\* The code has expired long before: redeemCodeExpireMinutes is 3.
HourPasses(r) ==
  /\ Disturbance
  /\ redeem[r].recent
  /\ redeem' = [redeem EXCEPT ![r].expired = TRUE, ![r].recent = FALSE]
  /\ UNCHANGED <<ticketStatus, redeemRows, listingRows, listing, redisVars, request, historyVars>>

KeyExpires ==
  /\ Disturbance
  /\ \/ \E r \in displayed : displayed' = displayed \ {r} /\ UNCHANGED hashes
     \/ \E h \in hashes : hashes' = hashes \ {h} /\ UNCHANGED displayed
  /\ UNCHANGED <<tableVars, request, historyVars>>

Next ==
  \/ \E w \in Requests : RedeemController(w) \/ ListingController(w) \/ TicketController(w)
  \/ \E w \in Requests : FailRequest(w)
  \/ \E t \in Tickets, status \in TicketStatus : ChangeTicket(t, status) \/ UpdateTicket(t, status)
  \/ \E r \in RedeemIds : CodeExpires(r) \/ HourPasses(r)
  \/ KeyExpires

Spec == Init /\ [][Next]_vars

-----------------------------------------------------------------------------
(* Properties                                                               *)

Pending(steps, p) == {w \in Requests : request[w].step \in steps /\ request[w].purchase = p}

\* The limit of redeems per hour is checked before the redeem is created, by a
\* validator that holds no lock: in an hour a purchase gets less than the limit,
\* and at most one more for each request at work.
RedeemsWithinLimit ==
  \A p \in Purchases :
    Cardinality(InLastHour(p)) + Cardinality(Pending({"counted", "create"}, p))
      <= Limit - 1 + Cardinality(Requests)

\* "Purchase is already being redeemed": a redeem is created beside an active
\* one of its mode only when the active one was created after the validator
\* of the request had read the table.  The lock of the transaction reads
\* nothing, so it does not close the gap.
CreateMissesOnlyNewRedeems ==
  \A w \in Requests : request[w].step = "create" =>
    \A r \in ActiveRedeems(request[w].purchase, {request[w].mode}) : r > request[w].seen

\* A ticket is put on sale while its purchase is being redeemed, in whatever
\* mode, only when the redeem was created after the validator had read the table.
ListingMissesOnlyNewRedeems ==
  \A w \in Requests : request[w].step = "list" =>
    \A r \in ActiveRedeems(PurchaseOf[request[w].ticket], RedeemMode) : r > request[w].seen

\* The gate admits a ticket only by the QR code of a redeem of its purchase,
\* in the mode individual, whose code has been verified: the hash of a redeem
\* of the mode all names the purchase, and admits no ticket.
AdmissionNeedsVerifiedRedeem ==
  \A t \in Tickets : admittedBy[t] # 0 =>
    /\ redeem[admittedBy[t]].status = "redeemed"
    /\ redeem[admittedBy[t]].purchase = PurchaseOf[t]
    /\ redeem[admittedBy[t]].mode = "individual"

\* verify writes MySQL first and Redis next: a redeem whose code is used up has
\* had its display key, or a request is about to set it, or the request that
\* used it failed in between; then the code is not valid again.
RedeemedIsShown ==
  \A r \in RedeemIds : redeem[r].status = "redeemed" =>
    \/ r \in shown \cup lost
    \/ \E w \in Requests : request[w].step = "display" /\ request[w].id = r
=============================================================================
