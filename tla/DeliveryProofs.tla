--------------------------- MODULE DeliveryProofs ---------------------------
(***************************************************************************)
(* Proofs about Delivery, for every number of messages, overlapping runs,  *)
(* consumers and failures.                                                 *)
(***************************************************************************)
EXTENDS Delivery, FiniteSetTheorems, TLAPS

\* Names of types, always expanded.
USE DEF OutboxStatus, OutboxTable, InboxTable

(***************************************************************************)
(* A consumer at work has a message; a run has read stored, due messages;  *)
(* it, or the row marked as sent, is behind what Kafka has accepted.       *)
(***************************************************************************)
ConsumersHaveMessages ==
  \A c \in Consumers :
    /\ consumer[c].pc # "idle" => consumer[c].message \in Messages
    /\ consumer[c].pc = "started" => consumer[c].message \in inbox

RunsHaveRows ==
  \A r \in Runs, m \in Messages : m \in run[r].batch => row[m] # "none" /\ sendAfter[m] <= now

SentIsAccepted ==
  /\ \A r \in Runs, m \in Messages : run[r].pc = "sent" /\ m \in run[r].batch => sends[m] > 0
  /\ \A m \in Messages : row[m] = "sent" => sends[m] > 0

Typed == TypeOK /\ ConsumersHaveMessages /\ RunsHaveRows /\ SentIsAccepted

LEMMA TypedInit == Init => Typed
BY DeliveryAssumption
   DEF Init, Typed, TypeOK, ConsumersHaveMessages, RunsHaveRows, SentIsAccepted, IdleRun,
   IdleConsumer

LEMMA TypedStore ==
  ASSUME Typed, NEW m \in Messages, NEW delay \in Delays, Store(m, delay)
  PROVE  Typed'
<1>1. delay \in Nat /\ now + delay \in Nat
  BY DeliveryAssumption DEF Typed, TypeOK
<1>2. TypeOK'
  BY <1>1 DEF Store, handlerVars, Typed, TypeOK
<1>3. RunsHaveRows'
  BY DEF Store, RunsHaveRows, Typed, TypeOK
<1> QED
  BY <1>2, <1>3
     DEF Store, handlerVars, Typed, TypeOK, ConsumersHaveMessages, SentIsAccepted

LEMMA TypedProducer ==
  ASSUME Typed, ProducerStep
  PROVE  Typed'
<1> USE DEF Typed, TypeOK, outboxVars, handlerVars, IdleRun
<1>1. ASSUME NEW r \in Runs, NEW batch \in SUBSET Messages, FindDue(r, batch)
      PROVE  Typed'
  <2>1. TypeOK'
    BY <1>1 DEF FindDue
  <2>2. RunsHaveRows'
    BY <1>1 DEF FindDue, Due, RunsHaveRows
  <2>3. ConsumersHaveMessages' /\ SentIsAccepted'
    BY <1>1 DEF FindDue, ConsumersHaveMessages, SentIsAccepted
  <2> QED
    BY <2>1, <2>2, <2>3
<1>2. ASSUME NEW r \in Runs, SendBatch(r)
      PROVE  Typed'
  <2>1. TypeOK'
    BY <1>2 DEF SendBatch, Accept
  <2>2. RunsHaveRows'
    BY <1>2 DEF SendBatch, RunsHaveRows
  <2>3. ConsumersHaveMessages'
    BY <1>2 DEF SendBatch, ConsumersHaveMessages
  <2>4. SentIsAccepted'
    <3>1. \A m \in Messages : /\ sends'[m] = IF m \in run[r].batch THEN sends[m] + 1 ELSE sends[m]
                              /\ sends[m] \in Nat
      BY <1>2 DEF SendBatch, Accept
    <3>2. \A q \in Runs : run'[q].batch = run[q].batch /\ (q # r => run'[q].pc = run[q].pc)
      BY <1>2 DEF SendBatch
    <3>3. row' = row
      BY <1>2 DEF SendBatch
    <3>4. \A m \in Messages : m \in run[r].batch \/ sends[m] > 0 => sends'[m] > 0
      BY <3>1
    <3>5. ASSUME NEW q \in Runs, NEW m \in Messages, run'[q].pc = "sent", m \in run'[q].batch
          PROVE  m \in run[r].batch \/ sends[m] > 0
      BY <3>2, <3>5 DEF SentIsAccepted
    <3>6. \A m \in Messages : row'[m] = "sent" => sends[m] > 0
      BY <3>3 DEF SentIsAccepted
    <3> QED
      BY <3>4, <3>5, <3>6 DEF SentIsAccepted
  <2> QED
    BY <2>1, <2>2, <2>3, <2>4
<1>3. ASSUME NEW r \in Runs, SetAsSent(r)
      PROVE  Typed'
  <2>1. TypeOK'
    BY <1>3 DEF SetAsSent
  <2>2. RunsHaveRows'
    BY <1>3 DEF SetAsSent, RunsHaveRows
  <2>3. ConsumersHaveMessages' /\ SentIsAccepted'
    BY <1>3 DEF SetAsSent, ConsumersHaveMessages, SentIsAccepted
  <2> QED
    BY <2>1, <2>2, <2>3
<1>4. ASSUME NEW r \in Runs, NEW S \in SUBSET Messages, SendFails(r, S)
      PROVE  Typed'
  <2>1. TypeOK'
    BY <1>4, DeliveryAssumption DEF SendFails, Accept, Fault
  <2>2. RunsHaveRows'
    BY <1>4 DEF SendFails, RunsHaveRows
  <2>3. ConsumersHaveMessages' /\ SentIsAccepted'
    BY <1>4 DEF SendFails, Accept, ConsumersHaveMessages, SentIsAccepted
  <2> QED
    BY <2>1, <2>2, <2>3
<1>5. ASSUME ProducerDies
      PROVE  Typed'
  BY <1>5, DeliveryAssumption
     DEF ProducerDies, Fault, RunsHaveRows, ConsumersHaveMessages, SentIsAccepted
<1> QED
  BY <1>1, <1>2, <1>3, <1>4, <1>5 DEF ProducerStep

LEMMA TypedConsumer ==
  ASSUME Typed, ConsumerStep
  PROVE  Typed'
<1> USE DEF Typed, TypeOK, outboxVars, handlerVars, IdleConsumer
<1>1. PICK c \in Consumers :
        \/ \E m \in Messages : FetchCopy(c, m)
        \/ SkipOperation(c)
        \/ FindOperation(c)
        \/ SaveOperation(c)
        \/ DoWork(c)
        \/ HandlerFails(c)
        \/ ConsumerDies(c)
        \/ Rebalance(c)
  BY DEF ConsumerStep
<1>2. RunsHaveRows' /\ SentIsAccepted'
  BY <1>1 DEF FetchCopy, SkipOperation, FindOperation, SaveOperation, DoWork, HandlerFails,
     ConsumerDies, Rebalance, RunsHaveRows, SentIsAccepted
<1>3. ASSUME NEW m \in Messages, FetchCopy(c, m)
      PROVE  TypeOK' /\ ConsumersHaveMessages'
  BY <1>3 DEF FetchCopy, ConsumersHaveMessages
<1>4. CASE SkipOperation(c)
  BY <1>2, <1>4 DEF SkipOperation, ConsumersHaveMessages
<1>5. CASE FindOperation(c)
  BY <1>2, <1>5 DEF FindOperation, ConsumersHaveMessages
<1>6. CASE SaveOperation(c)
  <2>1. consumer[c].message \in Messages
    BY <1>6 DEF SaveOperation, ConsumersHaveMessages
  <2>2. TypeOK'
    BY <1>6, <2>1 DEF SaveOperation
  <2>3. ConsumersHaveMessages'
    BY <1>6, <2>1 DEF SaveOperation, ConsumersHaveMessages
  <2> QED
    BY <1>2, <2>2, <2>3
<1>7. CASE DoWork(c)
  BY <1>2, <1>7 DEF DoWork, ConsumersHaveMessages
<1>8. CASE HandlerFails(c)
  BY <1>2, <1>8, DeliveryAssumption DEF HandlerFails, Fault, ConsumersHaveMessages
<1>9. CASE ConsumerDies(c)
  <2>1. consumer[c].message \in Messages
    BY <1>9 DEF ConsumerDies, ConsumersHaveMessages
  <2>2. TypeOK'
    BY <1>9, <2>1, DeliveryAssumption DEF ConsumerDies, Fault
  <2>3. ConsumersHaveMessages'
    BY <1>9 DEF ConsumerDies, ConsumersHaveMessages
  <2> QED
    BY <1>2, <2>2, <2>3
<1>10. CASE Rebalance(c)
  BY <1>2, <1>10, DeliveryAssumption DEF Rebalance, Fault, ConsumersHaveMessages
<1> QED
  BY <1>1, <1>2, <1>3, <1>4, <1>5, <1>6, <1>7, <1>8, <1>9, <1>10

LEMMA TypedNext == Typed /\ [Next]_vars => Typed'
<1> SUFFICES ASSUME Typed, [Next]_vars PROVE Typed'
  OBVIOUS
<1>1. CASE Tick
  BY <1>1 DEF Tick, outboxVars, handlerVars, Typed, TypeOK, ConsumersHaveMessages, RunsHaveRows,
     SentIsAccepted
<1>2. CASE UNCHANGED vars
  BY <1>2 DEF vars, outboxVars, handlerVars, Typed, TypeOK, ConsumersHaveMessages, RunsHaveRows,
     SentIsAccepted
<1> QED
  BY <1>1, <1>2, TypedStore, TypedProducer, TypedConsumer DEF Next, Quiet

\* The variables keep their types, whatever the order of the steps: a run in
\* flight holds stored, due messages, a handler at work has a message.
THEOREM TypeCorrect == Spec => []TypeOK
<1>1. Spec => []Typed
  BY TypedInit, TypedNext, PTL DEF Spec
<1>2. Typed => TypeOK
  BY DEF Typed
<1> QED
  BY <1>1, <1>2, PTL

-----------------------------------------------------------------------------
(***************************************************************************)
(* The refinement: every step of the producer is a step of Relay on the    *)
(* mapped variables, or leaves them as they are.                           *)
(***************************************************************************)
Stored == {m \in Messages : row[m] # "none"}
DueSet == {m \in Messages : row[m] # "none" /\ sendAfter[m] <= now}
Marked == {m \in Messages : row[m] = "sent"}

RelaySame == Stored' = Stored /\ DueSet' = DueSet /\ Published' = Published /\ Marked' = Marked

LEMMA RelayStutter == RelaySame => UNCHANGED Promise!relayVars
BY DEF RelaySame, Promise!relayVars, Stored, DueSet, Marked

LEMMA StoreRefines ==
  ASSUME Typed, NEW m \in Messages, NEW delay \in Delays, Store(m, delay)
  PROVE  Promise!Store(m)
<1>1. /\ m \notin Stored
      /\ Stored' = Stored \cup {m}
      /\ Published' = Published
      /\ Marked' = Marked
  BY DEF Store, Stored, Published, Marked, Typed, TypeOK
<1>2. DueSet' = DueSet \/ DueSet' = DueSet \cup {m}
  BY DEF Store, DueSet, Typed, TypeOK
<1> QED
  BY <1>1, <1>2 DEF Promise!Store, Stored, DueSet, Marked

LEMMA TickRefines ==
  ASSUME Typed, Tick
  PROVE  \E S \in SUBSET Messages : Promise!ComeDue(S)
<1>1. /\ Stored' = Stored
      /\ Published' = Published
      /\ Marked' = Marked
  BY DEF Tick, outboxVars, Stored, Published, Marked
<1>2. DueSet' \in SUBSET Messages /\ DueSet' \subseteq Stored
  BY DEF Tick, outboxVars, Stored, DueSet
<1>3. DueSet' = DueSet \cup DueSet'
  <2>1. \A m \in Messages : sendAfter[m] \in Nat /\ now \in Nat /\ now' = now + 1
    BY DEF Tick, Typed, TypeOK
  <2>2. DueSet \subseteq DueSet'
    BY <2>1 DEF Tick, outboxVars, DueSet
  <2> QED
    BY <2>2
<1>4. PICK S : S = DueSet'
  OBVIOUS
<1>5. Promise!ComeDue(S)
  BY <1>1, <1>2, <1>3, <1>4, Zenon DEF Promise!ComeDue, Stored, DueSet, Marked
<1> QED
  BY <1>2, <1>4, <1>5

LEMMA AcceptRefines ==
  ASSUME Typed, NEW r \in Runs, NEW S \in SUBSET run[r].batch, Accept(S),
         UNCHANGED <<now, outboxVars>>
  PROVE  \E T \in SUBSET Messages : Promise!Publish(T)
<1>1. S \in SUBSET Messages /\ S \subseteq DueSet
  BY DEF Typed, TypeOK, RunsHaveRows, DueSet
<1>2. Stored' = Stored /\ DueSet' = DueSet /\ Marked' = Marked
  BY DEF outboxVars, Stored, DueSet, Marked
<1>3. Published' = Published \cup S
  BY DEF Accept, Published, Typed, TypeOK
<1>4. Promise!Publish(S)
  BY <1>1, <1>2, <1>3, Zenon DEF Promise!Publish, Stored, DueSet, Marked
<1> QED
  BY <1>1, <1>4

LEMMA SetAsSentRefines ==
  ASSUME Typed, NEW r \in Runs, SetAsSent(r)
  PROVE  \E S \in SUBSET Messages : Promise!Mark(S)
<1>1. run[r].batch \in SUBSET Messages /\ run[r].batch \subseteq Published
  BY DEF SetAsSent, Typed, TypeOK, SentIsAccepted, Published
<1>2. Stored' = Stored /\ DueSet' = DueSet
  BY DEF SetAsSent, Typed, TypeOK, RunsHaveRows, Stored, DueSet
<1>3. Published' = Published /\ Marked' = Marked \cup run[r].batch
  BY DEF SetAsSent, Typed, TypeOK, Published, Marked
<1>4. PICK S : S = run[r].batch
  OBVIOUS
<1>5. Promise!Mark(S)
  BY <1>1, <1>2, <1>3, <1>4, Zenon DEF Promise!Mark, Stored, DueSet, Marked
<1> QED
  BY <1>1, <1>4, <1>5

LEMMA NextRefines == Typed /\ [Next]_vars => [Promise!Next]_(Promise!relayVars)
<1> SUFFICES ASSUME Typed, [Next]_vars
             PROVE  Promise!Next \/ UNCHANGED Promise!relayVars
  OBVIOUS
<1>1. ASSUME NEW m \in Messages, NEW delay \in Delays, Store(m, delay)
      PROVE  Promise!Next
  BY <1>1, StoreRefines DEF Promise!Next
<1>2. CASE Tick
  BY <1>2, TickRefines DEF Promise!Next
<1>3. ASSUME NEW r \in Runs, SendBatch(r)
      PROVE  Promise!Next
  <2>1. Accept(run[r].batch) /\ UNCHANGED <<now, outboxVars>>
    BY <1>3 DEF SendBatch
  <2>2. \E T \in SUBSET Messages : Promise!Publish(T)
    BY <2>1, AcceptRefines
  <2> QED
    BY <2>2 DEF Promise!Next
<1>4. ASSUME NEW r \in Runs, NEW S \in SUBSET Messages, SendFails(r, S)
      PROVE  Promise!Next
  <2>1. S \in SUBSET run[r].batch /\ Accept(S) /\ UNCHANGED <<now, outboxVars>>
    BY <1>4 DEF SendFails
  <2>2. \E T \in SUBSET Messages : Promise!Publish(T)
    BY <2>1, AcceptRefines
  <2> QED
    BY <2>2 DEF Promise!Next
<1>5. ASSUME NEW r \in Runs, SetAsSent(r)
      PROVE  Promise!Next
  BY <1>5, SetAsSentRefines DEF Promise!Next
<1>6. ASSUME UNCHANGED <<now, outboxVars, sends>>
      PROVE  UNCHANGED Promise!relayVars
  <2>1. RelaySame
    BY <1>6 DEF outboxVars, RelaySame, Stored, DueSet, Published, Marked
  <2> QED
    BY <2>1, RelayStutter
<1>7. ASSUME NEW r \in Runs, NEW batch \in SUBSET Messages, FindDue(r, batch)
      PROVE  UNCHANGED <<now, outboxVars, sends>>
  BY <1>7 DEF FindDue
<1>8. ASSUME ProducerDies
      PROVE  UNCHANGED <<now, outboxVars, sends>>
  BY <1>8 DEF ProducerDies
<1>9. ASSUME ConsumerStep
      PROVE  UNCHANGED <<now, outboxVars, sends>>
  BY <1>9 DEF ConsumerStep, FetchCopy, SkipOperation, FindOperation, SaveOperation, DoWork,
     HandlerFails, ConsumerDies, Rebalance
<1>10. ASSUME UNCHANGED vars
       PROVE  UNCHANGED <<now, outboxVars, sends>>
  BY <1>10 DEF vars
<1> QED
  BY <1>1, <1>2, <1>3, <1>4, <1>5, <1>6, <1>7, <1>8, <1>9, <1>10
     DEF Next, ProducerStep, Quiet

\* The outbox, the cron job and Kafka keep the promise of the outbox, however
\* many runs overlap and whenever the process ends.
THEOREM KeepsThePromise == Spec => ImplementsRelay
<1>1. Init => Promise!Init
  BY DEF Init, Promise!Init, Published
<1>2. Spec => []Typed
  BY TypedInit, TypedNext, PTL DEF Spec
<1> QED
  BY <1>1, <1>2, NextRefines, PTL DEF Spec, ImplementsRelay, Promise!Spec
-----------------------------------------------------------------------------
(***************************************************************************)
(* The inbox.  A handler past the lookup of startOperation has its place   *)
(* among the consumers; once the operation is saved no other gets past it, *)
(* so each time the work is done one of those handlers is used up.         *)
(***************************************************************************)
Past(m) == {c \in Consumers : consumer[c].pc \in {"found", "started"} /\ consumer[c].message = m}

EffectsAndHandlers ==
  \A m \in Messages :
    /\ m \notin inbox => effects[m] = 0
    /\ effects[m] + Cardinality(Past(m)) <= Cardinality(Consumers)

LEMMA PastFinite ==
  ASSUME NEW m
  PROVE  /\ Cardinality(Consumers) \in Nat
         /\ IsFiniteSet(Past(m)) /\ Cardinality(Past(m)) \in Nat
         /\ Cardinality(Past(m)') \in Nat
         /\ Cardinality(Past(m)') <= Cardinality(Consumers)
<1>1. Past(m) \in SUBSET Consumers /\ Past(m)' \in SUBSET Consumers
  BY DEF Past
<1> QED
  BY <1>1, DeliveryAssumption, FS_Subset, FS_CardinalityType

LEMMA PastShrinks ==
  ASSUME NEW m, Past(m)' \subseteq Past(m)
  PROVE  Cardinality(Past(m)') <= Cardinality(Past(m))
BY PastFinite, FS_Subset

LEMMA EffectsNext ==
  ASSUME Typed, EffectsAndHandlers, [Next]_vars
  PROVE  EffectsAndHandlers'
<1> SUFFICES ASSUME NEW m \in Messages
             PROVE  /\ m \notin inbox' => effects'[m] = 0
                    /\ effects'[m] + Cardinality(Past(m)') <= Cardinality(Consumers)
  BY DEF EffectsAndHandlers
<1> USE DEF outboxVars, handlerVars
<1>0. /\ effects[m] \in Nat
      /\ m \notin inbox => effects[m] = 0
      /\ effects[m] + Cardinality(Past(m)) <= Cardinality(Consumers)
  BY DEF EffectsAndHandlers, Typed, TypeOK
<1>1. ASSUME NEW c \in Consumers, FindOperation(c)
      PROVE  /\ m \notin inbox' => effects'[m] = 0
             /\ effects'[m] + Cardinality(Past(m)') <= Cardinality(Consumers)
  <2>1. inbox' = inbox /\ effects' = effects
    BY <1>1 DEF FindOperation
  <2>2. CASE consumer[c].message = m
    <3>1. effects[m] = 0
      BY <1>0, <1>1, <2>2 DEF FindOperation
    <3> QED
      BY <2>1, <3>1, PastFinite
  <2>3. CASE consumer[c].message # m
    <3>1. Past(m)' \subseteq Past(m)
      BY <1>1, <2>3 DEF FindOperation, Past, Typed, TypeOK
    <3> QED
      BY <1>0, <2>1, <3>1, PastFinite, PastShrinks
  <2> QED
    BY <2>2, <2>3
<1>2. ASSUME NEW c \in Consumers, DoWork(c)
      PROVE  /\ m \notin inbox' => effects'[m] = 0
             /\ effects'[m] + Cardinality(Past(m)') <= Cardinality(Consumers)
  <2>1. inbox' = inbox /\ consumer[c].message \in inbox
    BY <1>2 DEF DoWork, Typed, ConsumersHaveMessages
  <2>2. Past(m)' \subseteq Past(m) \ {c}
    BY <1>2 DEF DoWork, Past, IdleConsumer, Typed, TypeOK
  <2>3. CASE consumer[c].message = m
    <3>1. effects'[m] = effects[m] + 1
      BY <1>2, <2>3 DEF DoWork, Typed, TypeOK
    <3>2. c \in Past(m)
      BY <1>2, <2>3 DEF DoWork, Past
    <3>3. /\ IsFiniteSet(Past(m) \ {c})
          /\ Cardinality(Past(m) \ {c}) = Cardinality(Past(m)) - 1
      BY <3>2, PastFinite, FS_RemoveElement
    <3>4. Cardinality(Past(m)') <= Cardinality(Past(m)) - 1
      BY <2>2, <3>3, FS_Subset
    <3> QED
      BY <1>0, <2>1, <2>3, <3>1, <3>4, PastFinite
  <2>4. CASE consumer[c].message # m
    <3>1. effects'[m] = effects[m]
      BY <1>2, <2>4 DEF DoWork, Typed, TypeOK
    <3> QED
      BY <1>0, <2>1, <2>2, <3>1, PastFinite, PastShrinks
  <2> QED
    BY <2>3, <2>4
<1>3. ASSUME inbox \subseteq inbox', effects' = effects, Past(m)' \subseteq Past(m)
      PROVE  /\ m \notin inbox' => effects'[m] = 0
             /\ effects'[m] + Cardinality(Past(m)') <= Cardinality(Consumers)
  BY <1>0, <1>3, PastFinite, PastShrinks
<1>4. ASSUME UNCHANGED <<consumer, inbox, effects>>
      PROVE  inbox \subseteq inbox' /\ effects' = effects /\ Past(m)' \subseteq Past(m)
  BY <1>4 DEF Past
<1>5. ASSUME NEW c \in Consumers,
             \/ \E n \in Messages : FetchCopy(c, n)
             \/ SkipOperation(c)
             \/ SaveOperation(c)
             \/ HandlerFails(c)
             \/ ConsumerDies(c)
      PROVE  inbox \subseteq inbox' /\ effects' = effects /\ Past(m)' \subseteq Past(m)
  BY <1>5 DEF FetchCopy, SkipOperation, SaveOperation, HandlerFails, ConsumerDies, Past,
     IdleConsumer, Typed, TypeOK
<1>6. \/ UNCHANGED <<consumer, inbox, effects>>
      \/ \E c \in Consumers : \/ \E n \in Messages : FetchCopy(c, n)
                              \/ SkipOperation(c)
                              \/ FindOperation(c)
                              \/ SaveOperation(c)
                              \/ DoWork(c)
                              \/ HandlerFails(c)
                              \/ ConsumerDies(c)
  BY DEF Next, vars, Tick, Quiet, Store, ProducerStep, FindDue, SendBatch, SendFails, SetAsSent,
     ProducerDies, ConsumerStep, Rebalance
<1> QED
  BY <1>1, <1>2, <1>3, <1>4, <1>5, <1>6

\* InboxService.startOperation lets at most as many handlers do the work of a
\* message as there are consumers, however often the message is delivered.
THEOREM EffectsBounded == Spec => []EffectsBoundedByConcurrency
<1>1. Init => EffectsAndHandlers
  <2> SUFFICES ASSUME Init, NEW m \in Messages
               PROVE  effects[m] = 0 /\ effects[m] + Cardinality(Past(m)) <= Cardinality(Consumers)
    BY DEF EffectsAndHandlers
  <2>1. Past(m) = {}
    BY DEF Init, IdleConsumer, Past
  <2>2. Cardinality(Past(m)) = 0 /\ Cardinality(Consumers) \in Nat
    BY <2>1, PastFinite, FS_EmptySet
  <2> QED
    BY <2>2 DEF Init
<1>2. Typed /\ EffectsAndHandlers => EffectsBoundedByConcurrency
  <2> SUFFICES ASSUME Typed, EffectsAndHandlers, NEW m \in Messages
               PROVE  effects[m] <= Cardinality(Consumers)
    BY DEF EffectsBoundedByConcurrency
  <2>1. effects[m] \in Nat /\ effects[m] + Cardinality(Past(m)) <= Cardinality(Consumers)
    BY DEF EffectsAndHandlers, Typed, TypeOK
  <2> QED
    BY <2>1, PastFinite
<1>3. Spec => []Typed
  BY TypedInit, TypedNext, PTL DEF Spec
<1>4. Typed /\ EffectsAndHandlers /\ [Next]_vars => EffectsAndHandlers'
  BY EffectsNext
<1> QED
  BY <1>1, <1>2, <1>3, <1>4, PTL DEF Spec

-----------------------------------------------------------------------------
(***************************************************************************)
(* The copies in Kafka.  While a row is not marked, the copies sent since  *)
(* the last failure are those of runs that are about to mark it; once it   *)
(* is marked, only runs that had read it before can send it again.         *)
(***************************************************************************)
Holding(m) == {r \in Runs : run[r].pc = "sent" /\ m \in run[r].batch}

Sending(m) == {r \in Runs : run[r].pc = "found" /\ m \in run[r].batch}

R == Cardinality(Runs)

LEMMA DisjointRuns ==
  ASSUME NEW A \in SUBSET Runs, NEW B \in SUBSET Runs, A \cap B = {}
  PROVE  /\ R \in Nat
         /\ IsFiniteSet(A) /\ Cardinality(A) \in Nat
         /\ IsFiniteSet(B) /\ Cardinality(B) \in Nat
         /\ Cardinality(A) + Cardinality(B) <= R
<1>1. /\ R \in Nat
      /\ IsFiniteSet(A) /\ Cardinality(A) \in Nat
      /\ IsFiniteSet(B) /\ Cardinality(B) \in Nat
      /\ Cardinality(A \cup B) <= R
  BY DeliveryAssumption, FS_Subset, FS_CardinalityType DEF R
<1>2. Cardinality(A \cup B) = Cardinality(A) + Cardinality(B) - Cardinality(A \cap B)
  BY <1>1, FS_Union
<1>3. Cardinality(A \cap B) = 0
  BY FS_EmptySet
<1> QED
  BY <1>1, <1>2, <1>3

\* The same for the runs of a message, before and after a step.
LEMMA RunsFinite ==
  ASSUME NEW m
  PROVE  /\ R \in Nat
         /\ IsFiniteSet(Holding(m)) /\ Cardinality(Holding(m)) \in Nat
         /\ IsFiniteSet(Sending(m)) /\ Cardinality(Sending(m)) \in Nat
         /\ Cardinality(Holding(m)) + Cardinality(Sending(m)) <= R
         /\ IsFiniteSet(Holding(m)') /\ Cardinality(Holding(m)') \in Nat
         /\ IsFiniteSet(Sending(m)') /\ Cardinality(Sending(m)') \in Nat
         /\ Cardinality(Holding(m)') + Cardinality(Sending(m)') <= R
<1>1. /\ Holding(m) \in SUBSET Runs /\ Sending(m) \in SUBSET Runs
      /\ Holding(m) \cap Sending(m) = {}
  BY DEF Holding, Sending
<1>2. /\ Holding(m)' \in SUBSET Runs /\ Sending(m)' \in SUBSET Runs
      /\ Holding(m)' \cap Sending(m)' = {}
  BY DEF Holding, Sending
<1>3. /\ IsFiniteSet(Holding(m)) /\ Cardinality(Holding(m)) \in Nat
      /\ IsFiniteSet(Sending(m)) /\ Cardinality(Sending(m)) \in Nat
      /\ Cardinality(Holding(m)) + Cardinality(Sending(m)) <= R
  BY <1>1, DisjointRuns
<1>4. /\ IsFiniteSet(Holding(m)') /\ Cardinality(Holding(m)') \in Nat
      /\ IsFiniteSet(Sending(m)') /\ Cardinality(Sending(m)') \in Nat
      /\ Cardinality(Holding(m)') + Cardinality(Sending(m)') <= R
  BY <1>2, DisjointRuns
<1>5. R \in Nat
  BY <1>1, DisjointRuns
<1> QED
  BY <1>3, <1>4, <1>5

\* What a failure adds to the bound.
LEMMA OneMoreFault ==
  ASSUME NEW n \in Nat
  PROVE  /\ R * n \in Nat
         /\ R * (n + 1) = R * n + R
         /\ R * (1 + n) = R * n + R
<1>1. R \in Nat
  BY RunsFinite
<1> QED
  BY <1>1 DEF R

LEMMA SendsFacts ==
  ASSUME Typed, NEW m \in Messages
  PROVE  /\ sends[m] \in Nat /\ faults \in Nat /\ R \in Nat
         /\ R * faults \in Nat
         /\ R * (faults + 1) = R * faults + R
         /\ R * (1 + faults) = R * faults + R
<1>1. sends[m] \in Nat /\ faults \in Nat
  BY DeliveryAssumption DEF Typed, TypeOK
<1>2. R \in Nat
  BY RunsFinite
<1> HIDE DEF R
<1> QED
  BY <1>1, <1>2, OneMoreFault

SendsAndRunsOf(m) ==
  /\ row[m] # "sent" => sends[m] <= R * faults + Cardinality(Holding(m))
  /\ row[m] = "sent" => sends[m] + Cardinality(Sending(m)) <= R * faults + R

\* A step that sends nothing and marks nothing: a run that reads the row comes to
\* those that may send it only if the row is not marked.
LEMMA QuietSends ==
  ASSUME Typed, NEW m \in Messages, SendsAndRunsOf(m),
         sends'[m] = sends[m], row[m] = "sent" <=> row'[m] = "sent",
         faults' = faults \/ faults' = faults + 1,
         row[m] # "sent" => Holding(m) \subseteq Holding(m)',
         row[m] = "sent" => Sending(m)' \subseteq Sending(m)
  PROVE  SendsAndRunsOf(m)'
<1>1. /\ sends[m] \in Nat /\ faults \in Nat /\ R \in Nat
      /\ R * faults \in Nat /\ R * (faults + 1) = R * faults + R
  BY SendsFacts
<1>2. R * faults <= R * faults' /\ R * faults' \in Nat
  BY <1>1
<1>3. R' = R
  BY DEF R
<1>4. CASE row[m] # "sent"
  <2>1. Cardinality(Holding(m)) <= Cardinality(Holding(m)')
    BY <1>4, RunsFinite, FS_Subset
  <2> QED
    BY <1>1, <1>2, <1>3, <1>4, <2>1, RunsFinite DEF SendsAndRunsOf
<1>5. CASE row[m] = "sent"
  <2>1. Cardinality(Sending(m)') <= Cardinality(Sending(m))
    BY <1>5, RunsFinite, FS_Subset
  <2> QED
    BY <1>1, <1>2, <1>3, <1>5, <2>1, RunsFinite DEF SendsAndRunsOf
<1> QED
  BY <1>4, <1>5

LEMMA SendBatchSends ==
  ASSUME Typed, NEW m \in Messages, SendsAndRunsOf(m), NEW r \in Runs, SendBatch(r)
  PROVE  SendsAndRunsOf(m)'
<1>1. row' = row /\ faults' = faults /\ R' = R
  BY DEF SendBatch, outboxVars, R
<1>2. /\ \A q \in Runs : q # r => run'[q] = run[q]
      /\ run'[r].pc = "sent" /\ run'[r].batch = run[r].batch
  BY DEF SendBatch, Typed, TypeOK
<1>3. sends[m] \in Nat /\ R \in Nat /\ R * faults \in Nat
  BY SendsFacts
<1>4. CASE m \in run[r].batch
  <2>1. sends'[m] = sends[m] + 1
    BY <1>4 DEF SendBatch, Accept, Typed, TypeOK
  <2>2. Holding(m)' = Holding(m) \cup {r} /\ r \notin Holding(m)
    BY <1>2, <1>4 DEF SendBatch, Holding
  <2>3. Sending(m)' = Sending(m) \ {r} /\ r \in Sending(m)
    BY <1>2, <1>4 DEF SendBatch, Sending
  <2>4. Cardinality(Holding(m)') = Cardinality(Holding(m)) + 1
    BY <2>2, RunsFinite, FS_AddElement
  <2>5. Cardinality(Sending(m)') = Cardinality(Sending(m)) - 1
    BY <2>3, RunsFinite, FS_RemoveElement
  <2> QED
    BY <1>1, <1>3, <2>1, <2>4, <2>5, RunsFinite DEF SendsAndRunsOf
<1>5. CASE m \notin run[r].batch
  <2>1. sends'[m] = sends[m]
    BY <1>5 DEF SendBatch, Accept, Typed, TypeOK
  <2>2. Holding(m)' = Holding(m) /\ Sending(m)' = Sending(m)
    BY <1>2, <1>5 DEF Holding, Sending
  <2> QED
    BY <1>1, <2>1, <2>2, QuietSends
<1> QED
  BY <1>4, <1>5

LEMMA SetAsSentSends ==
  ASSUME Typed, NEW m \in Messages, SendsAndRunsOf(m), NEW r \in Runs, SetAsSent(r)
  PROVE  SendsAndRunsOf(m)'
<1>1. sends' = sends /\ faults' = faults /\ R' = R
  BY DEF SetAsSent, R
<1>2. /\ \A q \in Runs : q # r => run'[q] = run[q]
      /\ run[r].pc = "sent" /\ run'[r].pc = "idle"
  BY DEF SetAsSent, IdleRun, Typed, TypeOK
<1>3. /\ sends[m] \in Nat /\ R \in Nat /\ R * faults \in Nat
  BY SendsFacts
<1>4. Sending(m)' = Sending(m)
  BY <1>2 DEF Sending
<1>5. CASE m \in run[r].batch
  <2>1. row'[m] = "sent"
    BY <1>5 DEF SetAsSent, Typed, TypeOK
  <2> QED
    BY <1>1, <1>3, <1>4, <2>1, RunsFinite DEF SendsAndRunsOf
<1>6. CASE m \notin run[r].batch
  <2>1. row'[m] = row[m]
    BY <1>6 DEF SetAsSent, Typed, TypeOK
  <2>2. Holding(m)' = Holding(m)
    BY <1>2, <1>6 DEF Holding
  <2> QED
    BY <1>1, <1>4, <2>1, <2>2, QuietSends
<1> QED
  BY <1>5, <1>6

LEMMA ExitSends ==
  ASSUME Typed, NEW m \in Messages, SendsAndRunsOf(m),
         row' = row, faults' = faults + 1, run' = [r \in Runs |-> IdleRun],
         \/ sends'[m] = sends[m]
         \/ sends'[m] = sends[m] + 1 /\ Sending(m) # {}
  PROVE  SendsAndRunsOf(m)'
<1>1. Holding(m)' = {} /\ Sending(m)' = {}
  BY DEF Holding, Sending, IdleRun
<1>2. Cardinality(Holding(m)') = 0 /\ Cardinality(Sending(m)') = 0
  BY <1>1, FS_EmptySet
<1>3. /\ sends[m] \in Nat /\ R \in Nat /\ R * faults \in Nat
      /\ R * faults' = R * faults + R
  BY SendsFacts
<1>4. R' = R
  BY DEF R
<1>5. Sending(m) # {} => Cardinality(Sending(m)) > 0
  BY RunsFinite, FS_EmptySet
<1> QED
  BY <1>2, <1>3, <1>4, <1>5, RunsFinite DEF SendsAndRunsOf

LEMMA SendsNext ==
  ASSUME Typed, NEW m \in Messages, SendsAndRunsOf(m), [Next]_vars
  PROVE  SendsAndRunsOf(m)'
<1>1. ASSUME NEW r \in Runs, NEW batch \in SUBSET Messages, FindDue(r, batch)
      PROVE  SendsAndRunsOf(m)'
  <2>1. row' = row /\ sends' = sends /\ faults' = faults
    BY <1>1 DEF FindDue, outboxVars
  <2>2. /\ \A q \in Runs : q # r => run'[q] = run[q]
        /\ run[r].pc = "idle" /\ run'[r].batch = batch
    BY <1>1 DEF FindDue, Typed, TypeOK
  <2>3. row[m] = "sent" => m \notin batch
    BY <1>1 DEF FindDue, Due
  <2>4. Holding(m) \subseteq Holding(m)'
    BY <2>2 DEF Holding
  <2>5. row[m] = "sent" => Sending(m)' \subseteq Sending(m)
    BY <2>2, <2>3 DEF Sending
  <2> QED
    BY <2>1, <2>4, <2>5, QuietSends
<1>2. ASSUME NEW r \in Runs, NEW S \in SUBSET Messages, SendFails(r, S)
      PROVE  SendsAndRunsOf(m)'
  <2>1. row' = row /\ faults' = faults + 1 /\ run' = [q \in Runs |-> IdleRun]
    BY <1>2 DEF SendFails, Fault, outboxVars
  <2>2. sends'[m] = IF m \in S THEN sends[m] + 1 ELSE sends[m]
    BY <1>2 DEF SendFails, Accept
  <2>3. m \in S => r \in Sending(m)
    BY <1>2 DEF SendFails, Sending
  <2> QED
    BY <2>1, <2>2, <2>3, ExitSends
<1>3. CASE ProducerDies
  BY <1>3, ExitSends DEF ProducerDies, Fault, outboxVars
<1>4. ASSUME NEW n \in Messages, NEW delay \in Delays, Store(n, delay)
      PROVE  SendsAndRunsOf(m)'
  <2>1. sends' = sends /\ faults' = faults /\ (row[m] = "sent" <=> row'[m] = "sent")
    BY <1>4 DEF Store, Typed, TypeOK
  <2>2. Holding(m)' = Holding(m) /\ Sending(m)' = Sending(m)
    BY <1>4 DEF Store, Holding, Sending
  <2> QED
    BY <2>1, <2>2, QuietSends
<1>5. ASSUME UNCHANGED <<outboxVars, run, sends>>, faults' = faults \/ faults' = faults + 1
      PROVE  SendsAndRunsOf(m)'
  <2>1. /\ sends' = sends /\ row' = row
        /\ Holding(m)' = Holding(m) /\ Sending(m)' = Sending(m)
    BY <1>5 DEF outboxVars, Holding, Sending
  <2> QED
    BY <1>5, <2>1, QuietSends
<1>6. ASSUME ConsumerStep
      PROVE  UNCHANGED <<outboxVars, run, sends>> /\ (faults' = faults \/ faults' = faults + 1)
  BY <1>6 DEF ConsumerStep, FetchCopy, SkipOperation, FindOperation, SaveOperation, DoWork,
     HandlerFails, ConsumerDies, Rebalance, Fault
<1>7. CASE Tick \/ UNCHANGED vars
  BY <1>5, <1>7 DEF Tick, vars
<1> QED
  BY <1>1, <1>2, <1>3, <1>4, <1>5, <1>6, <1>7, SendBatchSends, SetAsSentSends
     DEF Next, ProducerStep, Quiet

\* Overlapping runs of the cron job and failures multiply a message by no more
\* than the number of runs for each life of the process.
THEOREM SendsAreBounded == Spec => []SendsBounded
<1> DEFINE AllBounded == \A m \in Messages : SendsAndRunsOf(m)
<1>1. Init => AllBounded
  <2> SUFFICES ASSUME Init, NEW m \in Messages
               PROVE  SendsAndRunsOf(m)
    OBVIOUS
  <2>1. row[m] = "none" /\ sends[m] = 0 /\ faults = 0
    BY DEF Init
  <2>2. R * 0 \in Nat
    BY OneMoreFault
  <2> QED
    BY <2>1, <2>2, RunsFinite DEF SendsAndRunsOf
<1>2. Typed /\ AllBounded /\ [Next]_vars => AllBounded'
  BY SendsNext
<1>3. Typed /\ AllBounded => SendsBounded
  <2> SUFFICES ASSUME Typed, AllBounded, NEW m \in Messages
               PROVE  sends[m] <= R * (1 + faults)
    BY DEF SendsBounded, R
  <2>1. SendsAndRunsOf(m)
    OBVIOUS
  <2> QED
    BY <2>1, SendsFacts, RunsFinite DEF SendsAndRunsOf
<1>4. Spec => []Typed
  BY TypedInit, TypedNext, PTL DEF Spec
<1> QED
  BY <1>1, <1>2, <1>3, <1>4, PTL DEF Spec
-----------------------------------------------------------------------------
(***************************************************************************)
(* Where a published message is.  EveryMessageIsHandled leads from         *)
(* published to handled or lost; what keeps it from failing in between is  *)
(* that a copy never leaves the topic without a handler, and no handler    *)
(* its message, before the one or the other has happened.                  *)
(***************************************************************************)
AtWork(m) == \E c \in Consumers : consumer[c].pc # "idle" /\ consumer[c].message = m

Settled(m) == effects[m] > 0 \/ m \in lost

PublishedIsAccountedFor ==
  \A m \in Published : Settled(m) \/ copies[m] > 0 \/ AtWork(m)

\* A copy may be dropped as already processed: the handler that has saved the
\* operation answers for it.
SavedIsAccountedFor ==
  \A m \in inbox :
    Settled(m) \/ \E c \in Consumers : consumer[c].pc = "started" /\ consumer[c].message = m

Accounts == PublishedIsAccountedFor /\ SavedIsAccountedFor

LEMMA AccountsProducer ==
  ASSUME Typed, Accounts, NEW S \in SUBSET Messages, Accept(S), UNCHANGED handlerVars
  PROVE  Accounts'
<1>1. \A m \in Messages : /\ sends[m] \in Nat /\ copies[m] \in Nat
                          /\ sends'[m] = IF m \in S THEN sends[m] + 1 ELSE sends[m]
                          /\ copies'[m] = IF m \in S THEN copies[m] + 1 ELSE copies[m]
  BY DEF Accept, Typed, TypeOK
<1>2. \A m \in Messages : /\ copies[m] > 0 => copies'[m] > 0
                          /\ sends'[m] > 0 => sends[m] > 0 \/ copies'[m] > 0
  BY <1>1
<1> QED
  BY <1>2 DEF handlerVars, Accounts, PublishedIsAccountedFor, SavedIsAccountedFor, Published, AtWork,
     Settled

LEMMA AccountsConsumer ==
  ASSUME Typed, Accounts, ConsumerStep
  PROVE  Accounts'
<1> USE DEF Typed, TypeOK, handlerVars, IdleConsumer
<1>1. PICK c \in Consumers :
        \/ \E m \in Messages : FetchCopy(c, m)
        \/ SkipOperation(c)
        \/ FindOperation(c)
        \/ SaveOperation(c)
        \/ DoWork(c)
        \/ HandlerFails(c)
        \/ ConsumerDies(c)
        \/ Rebalance(c)
  BY DEF ConsumerStep
<1>2. sends' = sends
  BY <1>1 DEF FetchCopy, SkipOperation, FindOperation, SaveOperation, DoWork, HandlerFails,
     ConsumerDies, Rebalance
<1>3. \A d \in Consumers \ {c} : consumer'[d] = consumer[d]
  BY <1>1 DEF FetchCopy, SkipOperation, FindOperation, SaveOperation, DoWork, HandlerFails,
     ConsumerDies, Rebalance
\* What a step has to do for the message of its handler, and for the others.
<1>4. ASSUME NEW m \in Messages,
             Settled(m) => Settled(m)',
             copies[m] > 0 => copies'[m] > 0 \/ AtWork(m)',
             consumer[c].pc # "idle" /\ consumer[c].message = m
               => Settled(m)' \/ copies'[m] > 0 \/ AtWork(m)'
      PROVE  sends'[m] > 0 => Settled(m)' \/ copies'[m] > 0 \/ AtWork(m)'
  <2> SUFFICES ASSUME sends[m] > 0
               PROVE  Settled(m)' \/ copies'[m] > 0 \/ AtWork(m)'
    BY <1>2
  <2>1. Settled(m) \/ copies[m] > 0 \/ AtWork(m)
    BY DEF Accounts, PublishedIsAccountedFor, Published
  <2>2. ASSUME NEW d \in Consumers \ {c}, consumer[d].pc # "idle", consumer[d].message = m
        PROVE  AtWork(m)'
    BY <1>3, <2>2 DEF AtWork
  <2> QED
    BY <1>4, <2>1, <2>2 DEF AtWork
<1>5. ASSUME NEW m \in Messages, m \in inbox,
             Settled(m) => Settled(m)',
             consumer[c].pc = "started" /\ consumer[c].message = m
               => Settled(m)' \/ (consumer'[c].pc = "started" /\ consumer'[c].message = m)
      PROVE  \/ Settled(m)'
             \/ \E d \in Consumers : consumer'[d].pc = "started" /\ consumer'[d].message = m
  <2>1. \/ Settled(m)
        \/ \E d \in Consumers : consumer[d].pc = "started" /\ consumer[d].message = m
    BY <1>5 DEF Accounts, SavedIsAccountedFor
  <2> QED
    BY <1>3, <1>5, <2>1
<1>6. ASSUME NEW m \in Messages,
             /\ Settled(m) => Settled(m)'
             /\ copies[m] > 0 => copies'[m] > 0 \/ AtWork(m)'
             /\ consumer[c].pc # "idle" /\ consumer[c].message = m
                  => Settled(m)' \/ copies'[m] > 0 \/ AtWork(m)'
             /\ consumer[c].pc = "started" /\ consumer[c].message = m
                  => Settled(m)' \/ (consumer'[c].pc = "started" /\ consumer'[c].message = m)
             /\ m \in inbox' => \/ m \in inbox
                                \/ consumer'[c].pc = "started" /\ consumer'[c].message = m
      PROVE  /\ sends'[m] > 0 => Settled(m)' \/ copies'[m] > 0 \/ AtWork(m)'
             /\ m \in inbox' =>
                  \/ Settled(m)'
                  \/ \E d \in Consumers : consumer'[d].pc = "started" /\ consumer'[d].message = m
  BY <1>4, <1>5, <1>6
<1> SUFFICES ASSUME NEW m \in Messages
             PROVE  /\ Settled(m) => Settled(m)'
                    /\ copies[m] > 0 => copies'[m] > 0 \/ AtWork(m)'
                    /\ consumer[c].pc # "idle" /\ consumer[c].message = m
                         => Settled(m)' \/ copies'[m] > 0 \/ AtWork(m)'
                    /\ consumer[c].pc = "started" /\ consumer[c].message = m
                         => Settled(m)' \/ (consumer'[c].pc = "started" /\ consumer'[c].message = m)
                    /\ m \in inbox' => \/ m \in inbox
                                       \/ consumer'[c].pc = "started" /\ consumer'[c].message = m
  <2>1. inbox' \subseteq Messages
    BY TypedConsumer
  <2> QED
    BY <1>6, <2>1 DEF Accounts, PublishedIsAccountedFor, SavedIsAccountedFor, Published
<1>7. ASSUME NEW n \in Messages, FetchCopy(c, n)
      PROVE  /\ effects' = effects /\ lost' = lost /\ inbox' = inbox
             /\ consumer[c].pc = "idle"
             /\ n = m => AtWork(m)'
             /\ n # m => copies'[m] = copies[m]
  BY <1>7 DEF FetchCopy, AtWork
<1>8. CASE SkipOperation(c)
  <2>1. /\ effects' = effects /\ lost' = lost /\ inbox' = inbox /\ copies' = copies
        /\ consumer[c].pc = "fetched" /\ consumer[c].message \in inbox
    BY <1>8 DEF SkipOperation
  <2>2. ASSUME NEW d \in Consumers, consumer[d].pc = "started", consumer[d].message = m
        PROVE  AtWork(m)'
    BY <1>3, <2>1, <2>2 DEF AtWork
  <2> QED
    BY <2>1, <2>2 DEF Accounts, SavedIsAccountedFor, Settled
<1>9. CASE FindOperation(c)
  BY <1>9 DEF FindOperation, Settled, AtWork
<1>10. CASE SaveOperation(c)
  BY <1>10 DEF SaveOperation, Settled, AtWork
<1>11. CASE DoWork(c)
  <2>1. /\ lost' = lost /\ inbox' = inbox /\ copies' = copies
        /\ effects'[m] = IF consumer[c].message = m THEN effects[m] + 1 ELSE effects[m]
        /\ effects[m] \in Nat
    BY <1>11 DEF DoWork
  <2> QED
    BY <2>1 DEF Settled
<1>12. CASE HandlerFails(c)
  BY <1>12 DEF HandlerFails, Settled
<1>13. CASE ConsumerDies(c)
  <2>1. /\ effects' = effects /\ inbox' = inbox /\ lost \subseteq lost'
        /\ consumer[c].pc = "started" => consumer[c].message \in lost'
        /\ copies'[m] = IF consumer[c].message = m THEN copies[m] + 1 ELSE copies[m]
        /\ copies[m] \in Nat
    BY <1>13 DEF ConsumerDies
  <2> QED
    BY <2>1 DEF Settled
<1>14. CASE Rebalance(c)
  <2>1. /\ effects' = effects /\ inbox' = inbox /\ lost' = lost /\ consumer' = consumer
        /\ copies'[m] = IF consumer[c].message = m THEN copies[m] + 1 ELSE copies[m]
        /\ copies[m] \in Nat
    BY <1>14 DEF Rebalance
  <2> QED
    BY <2>1 DEF Settled, AtWork
<1> QED
  BY <1>1, <1>7, <1>8, <1>9, <1>10, <1>11, <1>12, <1>13, <1>14 DEF Settled

LEMMA AccountsNext ==
  ASSUME Typed, Accounts, [Next]_vars
  PROVE  Accounts'
<1>1. ASSUME UNCHANGED <<sends, copies, handlerVars>>
      PROVE  Accounts'
  BY <1>1 DEF handlerVars, Accounts, PublishedIsAccountedFor, SavedIsAccountedFor, Published, AtWork,
     Settled
<1>2. ASSUME NEW r \in Runs, SendBatch(r)
      PROVE  Accounts'
  <2>1. run[r].batch \in SUBSET Messages
    BY DEF Typed, TypeOK
  <2> QED
    BY <1>2, <2>1, AccountsProducer DEF SendBatch
<1>3. ASSUME NEW r \in Runs, NEW S \in SUBSET Messages, SendFails(r, S)
      PROVE  Accounts'
  BY <1>3, AccountsProducer DEF SendFails
<1>4. ASSUME NEW r \in Runs, \/ \E batch \in SUBSET Messages : FindDue(r, batch)
                             \/ SetAsSent(r)
      PROVE  UNCHANGED <<sends, copies, handlerVars>>
  BY <1>4 DEF FindDue, SetAsSent
<1>5. CASE ProducerDies
  BY <1>1, <1>5 DEF ProducerDies
<1>6. ASSUME NEW m \in Messages, NEW delay \in Delays, Store(m, delay)
      PROVE  UNCHANGED <<sends, copies, handlerVars>>
  BY <1>6 DEF Store
<1>7. CASE Tick \/ UNCHANGED vars
  BY <1>1, <1>7 DEF Tick, vars
<1> QED
  BY <1>1, <1>2, <1>3, <1>4, <1>5, <1>6, <1>7, AccountsConsumer DEF Next, ProducerStep, Quiet

\* A message that Kafka has accepted is in the topic, with a handler, handled,
\* or lost with a handler that failed: neither a crash of the consumer, nor a
\* rebalance, nor the lookup in the inbox drops it before.
THEOREM PublishedAccounted == Spec => []PublishedIsAccountedFor
<1>1. Init => Accounts
  BY DEF Init, Accounts, PublishedIsAccountedFor, SavedIsAccountedFor, Published
<1>2. Spec => []Typed
  BY TypedInit, TypedNext, PTL DEF Spec
<1>3. Typed /\ Accounts /\ [Next]_vars => Accounts'
  BY AccountsNext
<1>4. Accounts => PublishedIsAccountedFor
  BY DEF Accounts
<1> QED
  BY <1>1, <1>2, <1>3, <1>4, PTL DEF Spec
=============================================================================
