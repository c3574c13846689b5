------------------------------ MODULE Delivery ------------------------------
(***************************************************************************)
(* The way of a message from the transaction that stores it to the handler *)
(* it is for: the outbox table, the producer's cron job, Kafka, the        *)
(* consumer and the inbox table.                                           *)
(*                                                                         *)
(* The job is started every second, whether or not an earlier run has      *)
(* ended: Runs are the runs in flight in the one producer process.  An     *)
(* error in a run ends the process and with it every run.                  *)
(***************************************************************************)
EXTENDS Naturals, FiniteSets

CONSTANTS
  Messages,  \* outbox rows; a message is known by its operation uuid
  Runs,      \* runs of the cron job that can overlap
  Consumers, \* handlers that can be at work at the same time
  BatchSize, \* most rows a run reads (100)
  Delays,    \* how long after its transaction a message may be due
  MaxTime,   \* bound of the clock
  MaxFaults, \* bound of the failures
  None       \* no message

ASSUME DeliveryAssumption ==
  /\ IsFiniteSet(Messages)
  /\ IsFiniteSet(Runs)
  /\ IsFiniteSet(Consumers)
  /\ BatchSize \in Nat \ {0}
  /\ Delays \subseteq Nat
  /\ MaxTime \in Nat
  /\ MaxFaults \in Nat
  /\ None \notin Messages

VARIABLES
  now,       \* the clock of the services
  row,       \* outbox.status, "none" for a row that does not exist
  sendAfter, \* outbox.send_after
  run,       \* ProducerService.produceMessages in flight
  sends,     \* how many times Kafka has accepted the message
  copies,    \* copies in the topic that no consumer has taken
  consumer,  \* an event handler that calls InboxService.startOperation
  inbox,     \* the operation uuids of the inbox table
  effects,   \* how many times the handler has done its work
  lost,      \* history: messages a handler gave up, or died on after startOperation
  faults     \* how many failures there have been

outboxVars == <<row, sendAfter>>
handlerVars == <<consumer, inbox, effects, lost>>
vars == <<now, outboxVars, run, sends, copies, handlerVars, faults>>

\* Of a row of the outbox the model keeps the status and send_after, of a row of
\* the inbox the operation uuid, however many rows have it.
OutboxStatus == {"none", "created", "sent"}
OutboxTable == [Messages -> OutboxStatus]
InboxTable == SUBSET Messages

TypeOK ==
  /\ now \in Nat
  /\ row \in OutboxTable
  /\ sendAfter \in [Messages -> Nat]
  /\ run \in [Runs -> [pc : {"idle", "found", "sent"}, batch : SUBSET Messages]]
  /\ sends \in [Messages -> Nat]
  /\ copies \in [Messages -> Nat]
  /\ consumer \in [Consumers -> [pc : {"idle", "fetched", "found", "started"},
                                 message : Messages \cup {None}]]
  /\ inbox \in InboxTable
  /\ effects \in [Messages -> Nat]
  /\ lost \subseteq Messages
  /\ faults \in 0..MaxFaults

IdleRun == [pc |-> "idle", batch |-> {}]

IdleConsumer == [pc |-> "idle", message |-> None]

Init ==
  /\ now = 0
  /\ row = [m \in Messages |-> "none"]
  /\ sendAfter = [m \in Messages |-> 0]
  /\ run = [r \in Runs |-> IdleRun]
  /\ sends = [m \in Messages |-> 0]
  /\ copies = [m \in Messages |-> 0]
  /\ consumer = [c \in Consumers |-> IdleConsumer]
  /\ inbox = {}
  /\ effects = [m \in Messages |-> 0]
  /\ lost = {}
  /\ faults = 0

Fault == faults < MaxFaults /\ faults' = faults + 1

-----------------------------------------------------------------------------
(* The outbox and the producer. *)

\* The mutants of a definition are plausible mistakes in the code it models;
\* each of them breaks a property below.
Mutant_Store_NoDefaultStatus(m, delay) ==
  /\ row[m] = "none"
  /\ now + delay <= MaxTime
  /\ row' = [row EXCEPT ![m] = "null"]
  /\ sendAfter' = [sendAfter EXCEPT ![m] = now + delay]
  /\ UNCHANGED <<now, run, sends, copies, handlerVars, faults>>

\* OutboxService.create, seen when its transaction commits.
Store(m, delay) ==
  /\ row[m] = "none"
  /\ now + delay <= MaxTime
  /\ row' = [row EXCEPT ![m] = "created"]
  /\ sendAfter' = [sendAfter EXCEPT ![m] = now + delay]
  /\ UNCHANGED <<now, run, sends, copies, handlerVars, faults>>

Mutant_Due_AnyTime == {m \in Messages : row[m] = "created"}

Due == {m \in Messages : row[m] = "created" /\ sendAfter[m] <= now}

\* OutboxRepository.findAll: no order is asked for, so any BatchSize of the due
\* rows.
FindDue(r, batch) ==
  /\ run[r].pc = "idle"
  /\ batch # {}
  /\ batch \subseteq Due
  /\ Cardinality(batch) = BatchSize \/ (batch = Due /\ Cardinality(Due) <= BatchSize)
  /\ run' = [run EXCEPT ![r] = [pc |-> "found", batch |-> batch]]
  /\ UNCHANGED <<now, outboxVars, sends, copies, handlerVars, faults>>

\* Kafka takes one more copy of every message of S.
Accept(S) ==
  /\ sends' = [m \in Messages |-> IF m \in S THEN sends[m] + 1 ELSE sends[m]]
  /\ copies' = [m \in Messages |-> IF m \in S THEN copies[m] + 1 ELSE copies[m]]

SendBatch(r) ==
  /\ run[r].pc = "found"
  /\ Accept(run[r].batch)
  /\ run' = [run EXCEPT ![r].pc = "sent"]
  /\ UNCHANGED <<now, outboxVars, handlerVars, faults>>

Mutant_SetAsSent_NotAwaited(r) ==
  /\ run[r].pc \in {"found", "sent"}
  /\ row' = [m \in Messages |-> IF m \in run[r].batch THEN "sent" ELSE row[m]]
  /\ run' = [run EXCEPT ![r] = IdleRun]
  /\ UNCHANGED <<now, sendAfter, sends, copies, handlerVars, faults>>

Mutant_SetAsSent_FirstOnly(r) ==
  /\ run[r].pc = "sent"
  /\ row' = [row EXCEPT ![CHOOSE m \in run[r].batch : TRUE] = "sent"]
  /\ run' = [run EXCEPT ![r] = IdleRun]
  /\ UNCHANGED <<now, sendAfter, sends, copies, handlerVars, faults>>

SetAsSent(r) ==
  /\ run[r].pc = "sent"
  /\ row' = [m \in Messages |-> IF m \in run[r].batch THEN "sent" ELSE row[m]]
  /\ run' = [run EXCEPT ![r] = IdleRun]
  /\ UNCHANGED <<now, sendAfter, sends, copies, handlerVars, faults>>

\* Kafka takes a part of the batch and answers with an error, or not at all:
\* process.exit, in the middle of the other runs.
SendFails(r, S) ==
  /\ run[r].pc = "found"
  /\ S \subseteq run[r].batch
  /\ Accept(S)
  /\ run' = [q \in Runs |-> IdleRun]
  /\ Fault
  /\ UNCHANGED <<now, outboxVars, handlerVars>>

\* The process ends at any other point: setAsSent fails, a deployment, a crash.
ProducerDies ==
  /\ \E r \in Runs : run[r].pc # "idle"
  /\ run' = [r \in Runs |-> IdleRun]
  /\ Fault
  /\ UNCHANGED <<now, outboxVars, sends, copies, handlerVars>>

-----------------------------------------------------------------------------
(* Kafka, the consumer and the inbox: handlePaymentPaywallCancel and       *)
(* handleMessageSendReply of ConsumerService.  Messages have no key: the   *)
(* copies of one may be in different partitions, hence in any order and    *)
(* with different consumers.                                               *)

FetchCopy(c, m) ==
  /\ consumer[c].pc = "idle"
  /\ copies[m] > 0
  /\ copies' = [copies EXCEPT ![m] = @ - 1]
  /\ consumer' = [consumer EXCEPT ![c] = [pc |-> "fetched", message |-> m]]
  /\ UNCHANGED <<now, outboxVars, run, sends, inbox, effects, lost, faults>>

Mutant_SkipOperation_Always(c) ==
  /\ consumer[c].pc = "fetched"
  /\ consumer' = [consumer EXCEPT ![c] = IdleConsumer]
  /\ UNCHANGED <<now, outboxVars, run, sends, copies, inbox, effects, lost, faults>>

\* startOperation finds the operation uuid: "is already processed".
SkipOperation(c) ==
  /\ consumer[c].pc = "fetched"
  /\ consumer[c].message \in inbox
  /\ consumer' = [consumer EXCEPT ![c] = IdleConsumer]
  /\ UNCHANGED <<now, outboxVars, run, sends, copies, inbox, effects, lost, faults>>

\* startOperation does not find it ...
FindOperation(c) ==
  /\ consumer[c].pc = "fetched"
  /\ consumer[c].message \notin inbox
  /\ consumer' = [consumer EXCEPT ![c].pc = "found"]
  /\ UNCHANGED <<now, outboxVars, run, sends, copies, inbox, effects, lost, faults>>

Mutant_SaveOperation_Forgotten(c) ==
  /\ consumer[c].pc = "found"
  /\ inbox' = inbox
  /\ consumer' = [consumer EXCEPT ![c].pc = "started"]
  /\ UNCHANGED <<now, outboxVars, run, sends, copies, effects, lost, faults>>

\* ... and inserts it; the column has no unique index.
SaveOperation(c) ==
  /\ consumer[c].pc = "found"
  /\ inbox' = inbox \cup {consumer[c].message}
  /\ consumer' = [consumer EXCEPT ![c].pc = "started"]
  /\ UNCHANGED <<now, outboxVars, run, sends, copies, effects, lost, faults>>

\* The work itself, in transactions of its own.
DoWork(c) ==
  /\ consumer[c].pc = "started"
  /\ effects' = [effects EXCEPT ![consumer[c].message] = @ + 1]
  /\ consumer' = [consumer EXCEPT ![c] = IdleConsumer]
  /\ UNCHANGED <<now, outboxVars, run, sends, copies, inbox, lost, faults>>

\* The handler throws: the framework logs the error and goes on to the next
\* message.
HandlerFails(c) ==
  /\ consumer[c].pc # "idle"
  /\ lost' = lost \cup {consumer[c].message}
  /\ consumer' = [consumer EXCEPT ![c] = IdleConsumer]
  /\ Fault
  /\ UNCHANGED <<now, outboxVars, run, sends, copies, inbox, effects>>

\* The consumer dies before its offset is committed: the copy is delivered
\* again, in vain if its operation has been saved.
ConsumerDies(c) ==
  /\ consumer[c].pc # "idle"
  /\ copies' = [copies EXCEPT ![consumer[c].message] = @ + 1]
  /\ lost' = IF consumer[c].pc = "started" THEN lost \cup {consumer[c].message} ELSE lost
  /\ consumer' = [consumer EXCEPT ![c] = IdleConsumer]
  /\ Fault
  /\ UNCHANGED <<now, outboxVars, run, sends, inbox, effects>>

\* A slow consumer loses its partition to another one and works on.
Rebalance(c) ==
  /\ consumer[c].pc # "idle"
  /\ copies' = [copies EXCEPT ![consumer[c].message] = @ + 1]
  /\ Fault
  /\ UNCHANGED <<now, outboxVars, run, sends, handlerVars>>

-----------------------------------------------------------------------------
Tick ==
  /\ now < MaxTime
  /\ now' = now + 1
  /\ UNCHANGED <<outboxVars, run, sends, copies, handlerVars, faults>>

\* Every message has been stored, sent and handled: only then nothing happens.
Quiet ==
  /\ now = MaxTime
  /\ \A m \in Messages : row[m] = "sent" /\ copies[m] = 0
  /\ \A r \in Runs : run[r] = IdleRun
  /\ \A c \in Consumers : consumer[c] = IdleConsumer
  /\ UNCHANGED vars

ProducerStep ==
  \/ \E r \in Runs :
       \/ \E batch \in SUBSET Messages : FindDue(r, batch) \/ SendFails(r, batch)
       \/ SendBatch(r)
       \/ SetAsSent(r)
  \/ ProducerDies

ConsumerStep ==
  \E c \in Consumers :
    \/ \E m \in Messages : FetchCopy(c, m)
    \/ SkipOperation(c)
    \/ FindOperation(c)
    \/ SaveOperation(c)
    \/ DoWork(c)
    \/ HandlerFails(c)
    \/ ConsumerDies(c)
    \/ Rebalance(c)

Next ==
  \/ Tick
  \/ \E m \in Messages, delay \in Delays : Store(m, delay)
  \/ ProducerStep
  \/ ConsumerStep
  \/ Quiet

Spec == Init /\ [][Next]_vars

\* The cron job is started again and again, also by the next process; the
\* consumer takes every copy of the topic; no step takes for ever.
Fairness ==
  /\ WF_vars(Tick)
  /\ \A r \in Runs :
       /\ WF_vars(\E batch \in SUBSET Messages : FindDue(r, batch))
       /\ WF_vars(SendBatch(r))
       /\ WF_vars(SetAsSent(r))
  /\ \A m \in Messages : WF_vars(\E c \in Consumers : FetchCopy(c, m))
  /\ \A c \in Consumers :
       WF_vars(SkipOperation(c) \/ FindOperation(c) \/ SaveOperation(c) \/ DoWork(c))

FairSpec == Spec /\ Fairness

-----------------------------------------------------------------------------
(* Properties. *)

Published == {m \in Messages : sends[m] > 0}

\* What the outbox promises, in terms of the tables and of Kafka.
Promise == INSTANCE Relay WITH
  stored    <- {m \in Messages : row[m] # "none"},
  due       <- {m \in Messages : row[m] # "none" /\ sendAfter[m] <= now},
  published <- Published,
  marked    <- {m \in Messages : row[m] = "sent"}

\* The producer keeps the promise of the outbox, with overlapping runs and when
\* the process ends between the two writes: a message is published only when it
\* is due, and marked as sent only when it has been published.
ImplementsRelay == Promise!Spec

\* Every message of a committed transaction is published in the end, if the
\* process is restarted when it dies.
EveryMessageIsPublished == Promise!StoredIsPublished

\* A message is published once by each overlapping run, and once more by each
\* for every time the process has ended.
SendsBounded ==
  \A m \in Messages : sends[m] <= Cardinality(Runs) * (1 + faults)

\* startOperation lets through only handlers that were past its lookup together.
EffectsBoundedByConcurrency ==
  \A m \in Messages : effects[m] <= Cardinality(Consumers)

\* A published message is handled in the end, unless a handler has failed or has
\* died between startOperation and its work: then it is skipped for ever.
EveryMessageIsHandled ==
  \A m \in Messages : m \in Published ~> (effects[m] > 0 \/ m \in lost)
=============================================================================
