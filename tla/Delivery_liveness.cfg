\* Liveness of the outbox and of the inbox, batches of one.
CONSTANTS
  Messages = {m1, m2}
  Runs = {r1, r2}
  Consumers = {c1}
  BatchSize = 1
  Delays <- NowOrLater
  MaxTime = 1
  MaxFaults = 1
  None = None
SPECIFICATION FairSpec
PROPERTIES EveryMessageIsPublished EveryMessageIsHandled
