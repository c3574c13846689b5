------------------------------- MODULE Relay --------------------------------
(***************************************************************************)
(* What the outbox promises to the services behind Kafka: a message stored *)
(* with a transaction is published at some time after it is due, is marked *)
(* as sent only when it has been published, and is never taken back.       *)
(***************************************************************************)
CONSTANTS Messages

VARIABLES
  stored,    \* messages whose transaction has committed
  due,       \* stored messages whose time to be sent has come
  published, \* messages Kafka has accepted, once or more
  marked     \* messages marked as sent

relayVars == <<stored, due, published, marked>>

Init ==
  /\ stored = {}
  /\ due = {}
  /\ published = {}
  /\ marked = {}

\* A message may be due when it is stored.
Store(m) ==
  /\ m \notin stored
  /\ stored' = stored \cup {m}
  /\ due' \in {due, due \cup {m}}
  /\ UNCHANGED <<published, marked>>

ComeDue(S) ==
  /\ S \subseteq stored
  /\ due' = due \cup S
  /\ UNCHANGED <<stored, published, marked>>

Publish(S) ==
  /\ S \subseteq due
  /\ published' = published \cup S
  /\ UNCHANGED <<stored, due, marked>>

Mark(S) ==
  /\ S \subseteq published
  /\ marked' = marked \cup S
  /\ UNCHANGED <<stored, due, published>>

Next ==
  \/ \E m \in Messages : Store(m)
  \/ \E S \in SUBSET Messages : ComeDue(S) \/ Publish(S) \/ Mark(S)

Spec == Init /\ [][Next]_relayVars

\* Every stored message is published in the end.
StoredIsPublished == \A m \in Messages : m \in stored ~> m \in published
=============================================================================
