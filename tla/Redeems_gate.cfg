\* One purchase of two tickets, two requests at a time; one redeem an hour is the
\* limit, so that the second redeem is the one too many.
CONSTANTS
  t1 = t1
  t2 = t2
  p1 = p1
  w1 = w1
  w2 = w2
  None = None
  Tickets = {t1, t2}
  Purchases = {p1}
  PurchaseOf <- MCPurchaseOf
  Requests = {w1, w2}
  Limit = 1
  MaxRedeems = 2
  MaxListings = 1
  MaxDisturbances = 1
SPECIFICATION Spec
SYMMETRY Symmetry
INVARIANTS
  TypeOK
  RedeemsWithinLimit
  CreateMissesOnlyNewRedeems
  ListingMissesOnlyNewRedeems
  AdmissionNeedsVerifiedRedeem
  RedeemedIsShown
CHECK_DEADLOCK FALSE
