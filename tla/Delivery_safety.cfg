\* Two overlapping runs, two consumers, and one failure of any kind; a message
\* may be due at once or later.
CONSTANTS
  Messages = {m1, m2}
  Runs = {r1, r2}
  Consumers = {c1, c2}
  BatchSize = 2
  Delays <- NowOrLater
  MaxTime = 1
  MaxFaults = 1
  None = None
SPECIFICATION Spec
SYMMETRY Symmetry
INVARIANTS TypeOK SendsBounded EffectsBoundedByConcurrency
PROPERTY ImplementsRelay
