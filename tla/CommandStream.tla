---------------------------- MODULE CommandStream ----------------------------
(***************************************************************************)
(* The order command stream of TradeCO and the consumer group that reads   *)
(* it: apps/execution-service/src/redisOrderStreamConsumer.js.             *)
(*                                                                         *)
(* The backend appends commands with XADD.  Every instance of the          *)
(* execution service runs one loop that alternates XAUTOCLAIM (take over   *)
(* what has been pending for claimIdleMs) and XREADGROUP (take what nobody *)
(* was given yet), handles the returned batch one message after another    *)
(* and answers each with XACK, or with an XADD to the dead-letter stream   *)
(* followed by XACK.  An `await' separates any two Redis calls, so         *)
(* instances interleave between them, an instance may die between them,    *)
(* and any call may fail with or without having taken effect.              *)
(*                                                                         *)
(* Abstractions.  Entries are numbered in stream order.  What a command    *)
(* does (orderCommandProcessor.js) is reduced to success or failure.       *)
(* Idle time is the set of entries that have been pending long enough.     *)
(***************************************************************************)
EXTENDS Integers, FiniteSets, Sequences

CONSTANTS
    Consumers,       \* instances of the execution service
    MaxEntry,        \* bound on the number of entries appended
    ReadCount,       \* ORDER_COMMAND_READ_COUNT
    MaxAttempts,     \* ORDER_COMMAND_MAX_ATTEMPTS
    MaxFaults        \* bound on crashes and failed Redis calls

ASSUME StreamAssumption ==
    /\ IsFiniteSet(Consumers)
    /\ MaxEntry \in Nat
    /\ ReadCount \in Nat \ {0}
    /\ MaxAttempts \in Nat \ {0}
    /\ MaxFaults \in Nat

Entries == 1..MaxEntry
NoEntry == 0

VARIABLES
    length,          \* entries on the stream: 1..length
    malformed,       \* entries parseOrderCommandStreamEntry rejects
    group,           \* the consumer group: not created yet, or ready
    lastDelivered,   \* the group's last-delivered entry
    pending,         \* the group's pending entries list
    deliveries,      \* the delivery counter of each pending entry
    idle,            \* pending entries older than claimIdleMs
    dlq,             \* the dead-letter stream
    pc,              \* where each instance is in its loop
    phase,           \* the call its current batch comes from
    batch,           \* entries of the batch not handled yet
    current,         \* the entry being handled
    attempts,        \* the delivery count getDeliveryCount returned
    tries,           \* history: how often handling of an entry began
    completions,     \* history: how often processCommand succeeded on an entry
    faults           \* history: crashes and failed calls so far

redis == <<length, malformed, group, lastDelivered, pending, deliveries, idle, dlq>>
instance == <<pc, phase, batch, current, attempts>>
history == <<tries, completions, faults>>
vars == <<redis, instance, history>>

PC == {"down", "group", "call", "handle", "process", "ack", "count", "dlq", "dlqAck"}

\* What buildOrderCommandDeadLetterEntry keeps of an entry.
DeadLetterEntry == [entry: Entries, attempts: Nat, reason: {"invalid", "max-attempts"}]

RedisTypeOK ==
    /\ length \in 0..MaxEntry
    /\ malformed \subseteq Entries
    /\ group \in {"absent", "ready"}
    /\ lastDelivered \in 0..MaxEntry
    /\ pending \subseteq Entries
    /\ deliveries \in [Entries -> Nat]
    /\ idle \subseteq pending
    /\ dlq \in Seq(DeadLetterEntry)

InstanceTypeOK ==
    /\ pc \in [Consumers -> PC]
    /\ phase \in [Consumers -> {"claim", "read"}]
    /\ batch \in [Consumers -> SUBSET Entries]
    /\ current \in [Consumers -> Entries \union {NoEntry}]
    /\ attempts \in [Consumers -> Nat]

HistoryTypeOK ==
    /\ tries \in [Entries -> Nat]
    /\ completions \in [Entries -> Nat]
    /\ faults \in 0..MaxFaults

TypeOK == RedisTypeOK /\ InstanceTypeOK /\ HistoryTypeOK

Init ==
    /\ length = 0
    /\ malformed = {}
    /\ group = "absent"
    /\ lastDelivered = 0
    /\ pending = {}
    /\ deliveries = [e \in Entries |-> 0]
    /\ idle = {}
    /\ dlq = <<>>
    /\ pc = [c \in Consumers |-> "group"]
    /\ phase = [c \in Consumers |-> "claim"]
    /\ batch = [c \in Consumers |-> {}]
    /\ current = [c \in Consumers |-> NoEntry]
    /\ attempts = [c \in Consumers |-> 0]
    /\ tries = [e \in Entries |-> 0]
    /\ completions = [e \in Entries |-> 0]
    /\ faults = 0

Goto(c, label) == pc' = [pc EXCEPT ![c] = label]

\* handleOrderStreamMessage is over: its local variables are gone.
Release(c) ==
    /\ Goto(c, "handle")
    /\ current' = [current EXCEPT ![c] = NoEntry]
    /\ attempts' = [attempts EXCEPT ![c] = 0]

DeadEntries == {dlq[i].entry : i \in DOMAIN dlq}

Retired == {e \in 1..lastDelivered : e \notin pending}

Completed == {e \in Entries : completions[e] > 0}

Attempted == {e \in Entries : tries[e] > 0}

------------------------------------------------------------------------------
(* The effects of the Redis commands.                                      *)

\* The first `count' entries of S in stream order, or all of S.
FirstOf(S, count) ==
    {e \in S : Cardinality({f \in S : f < e}) < count}

\* XREADGROUP ... COUNT ReadCount >: entries the group was never given.
NextDelivered ==
    IF lastDelivered + ReadCount <= length THEN lastDelivered + ReadCount ELSE length

Fresh == (lastDelivered + 1)..NextDelivered

DeliverFresh ==
    /\ group = "ready"
    /\ lastDelivered' = NextDelivered
    /\ pending' = pending \union Fresh
    /\ deliveries' = [e \in Entries |-> IF e \in Fresh THEN 1 ELSE deliveries[e]]
    /\ UNCHANGED <<length, malformed, group, idle, dlq>>

\* XAUTOCLAIM from 0-0 COUNT ReadCount: the oldest entries pending long enough.
Claimable == FirstOf(idle, ReadCount)

ClaimIdle ==
    /\ group = "ready"
    /\ deliveries' = [e \in Entries |-> deliveries[e] + (IF e \in Claimable THEN 1 ELSE 0)]
    /\ idle' = idle \ Claimable
    /\ UNCHANGED <<length, malformed, group, lastDelivered, pending, dlq>>

\* XACK: the entry leaves the pending list, whoever acknowledges it.
Acknowledge(e) ==
    /\ pending' = pending \ {e}
    /\ idle' = idle \ {e}
    /\ UNCHANGED <<length, malformed, group, lastDelivered, deliveries, dlq>>

\* XADD to the dead-letter stream.
AddDeadLetter(c) ==
    /\ dlq' = Append(dlq, [entry    |-> current[c],
                           attempts |-> attempts[c],
                           reason   |-> IF current[c] \in malformed
                                        THEN "invalid" ELSE "max-attempts"])
    /\ UNCHANGED <<length, malformed, group, lastDelivered, pending, deliveries, idle>>

\* XPENDING for one entry; an entry that is no longer pending counts as 1.
DeliveryCount(e) == IF e \in pending THEN deliveries[e] ELSE 1

------------------------------------------------------------------------------
(* The environment: the backend's XADD and the passing of time.            *)

AppendCommand ==
    /\ length < MaxEntry
    /\ length' = length + 1
    /\ malformed' \in {malformed, malformed \union {length + 1}}
    /\ UNCHANGED <<group, lastDelivered, pending, deliveries, idle, dlq, instance, history>>

BecomeIdle(e) ==
    /\ e \in pending \ idle
    /\ idle' = idle \union {e}
    /\ UNCHANGED <<length, malformed, group, lastDelivered, pending, deliveries, dlq,
                   instance, history>>

------------------------------------------------------------------------------
(* The loop of one instance.                                               *)

EnsureGroup(c) ==
    /\ pc[c] = "group"
    /\ group' = "ready"
    /\ Goto(c, "call")
    /\ UNCHANGED <<length, malformed, lastDelivered, pending, deliveries, idle, dlq,
                   phase, batch, current, attempts, history>>

ClaimBatch(c) ==
    /\ pc[c] = "call" /\ phase[c] = "claim"
    /\ ClaimIdle
    /\ batch' = [batch EXCEPT ![c] = Claimable]
    /\ Goto(c, "handle")
    /\ UNCHANGED <<phase, current, attempts, history>>

ReadBatch(c) ==
    /\ pc[c] = "call" /\ phase[c] = "read"
    /\ DeliverFresh
    /\ batch' = [batch EXCEPT ![c] = Fresh]
    /\ Goto(c, "handle")
    /\ UNCHANGED <<phase, current, attempts, history>>

\* handleMessages takes the next message of the batch and parses it.
StartMessage(c) ==
    /\ pc[c] = "handle"
    /\ \E e \in batch[c] :
        /\ \A f \in batch[c] : e <= f
        /\ batch' = [batch EXCEPT ![c] = @ \ {e}]
        /\ current' = [current EXCEPT ![c] = e]
        /\ tries' = [tries EXCEPT ![e] = @ + 1]
        /\ Goto(c, IF e \in malformed THEN "count" ELSE "process")
    /\ UNCHANGED <<redis, phase, attempts, completions, faults>>

\* Mutant: idle entries are claimed when the loop starts, and never again.
EndBatchClaimsOnce(c) ==
    /\ pc[c] = "handle" /\ batch[c] = {}
    /\ phase' = [phase EXCEPT ![c] = "read"]
    /\ Goto(c, "call")
    /\ UNCHANGED <<redis, batch, current, attempts, history>>

\* The batch is done: a read follows a claim, a claim follows a read.
EndBatch(c) ==
    /\ pc[c] = "handle" /\ batch[c] = {}
    /\ phase' = [phase EXCEPT ![c] = IF @ = "claim" THEN "read" ELSE "claim"]
    /\ Goto(c, "call")
    /\ UNCHANGED <<redis, batch, current, attempts, history>>

ProcessSucceeds(c) ==
    /\ pc[c] = "process"
    /\ completions' = [completions EXCEPT ![current[c]] = @ + 1]
    /\ Goto(c, "ack")
    /\ UNCHANGED <<redis, phase, batch, current, attempts, tries, faults>>

\* Mutant: the acknowledgement follows whether or not the command succeeded.
ProcessFailsAcked(c) ==
    /\ pc[c] = "process"
    /\ Goto(c, "ack")
    /\ UNCHANGED <<redis, phase, batch, current, attempts, history>>

ProcessFails(c) ==
    /\ pc[c] = "process"
    /\ Goto(c, "count")
    /\ UNCHANGED <<redis, phase, batch, current, attempts, history>>

\* Mutant: the XACK is missing.
AckForgotten(c) ==
    /\ pc[c] = "ack"
    /\ Release(c)
    /\ UNCHANGED <<redis, phase, batch, history>>

Ack(c) ==
    /\ pc[c] = "ack"
    /\ Acknowledge(current[c])
    /\ Release(c)
    /\ UNCHANGED <<phase, batch, history>>

\* Mutants: the limit is off by one in either direction.
CountDeliveriesUpTo(c, limit) ==
    LET count == DeliveryCount(current[c])
    IN  /\ pc[c] = "count"
        /\ IF current[c] \in malformed \/ count >= limit
           THEN /\ attempts' = [attempts EXCEPT ![c] = count]
                /\ Goto(c, "dlq")
                /\ UNCHANGED current
           ELSE Release(c)
        /\ UNCHANGED <<redis, phase, batch, history>>

CountDeliveriesEarly(c) == CountDeliveriesUpTo(c, MaxAttempts - 1)

CountDeliveriesLate(c) == CountDeliveriesUpTo(c, MaxAttempts + 1)

\* getDeliveryCount, and the choice between a retry and the dead-letter stream.
CountDeliveries(c) ==
    LET count == DeliveryCount(current[c])
    IN  /\ pc[c] = "count"
        /\ IF current[c] \in malformed \/ count >= MaxAttempts
           THEN /\ attempts' = [attempts EXCEPT ![c] = count]
                /\ Goto(c, "dlq")
                /\ UNCHANGED current
           ELSE Release(c)
        /\ UNCHANGED <<redis, phase, batch, history>>

\* Mutant: the entry is acknowledged where it should be kept.
WriteDeadLetterAcksFirst(c) ==
    /\ pc[c] = "dlq"
    /\ Acknowledge(current[c])
    /\ Goto(c, "dlqAck")
    /\ UNCHANGED <<phase, batch, current, attempts, history>>

WriteDeadLetter(c) ==
    /\ pc[c] = "dlq"
    /\ AddDeadLetter(c)
    /\ Goto(c, "dlqAck")
    /\ UNCHANGED <<phase, batch, current, attempts, history>>

AckDeadLetter(c) ==
    /\ pc[c] = "dlqAck"
    /\ Acknowledge(current[c])
    /\ Release(c)
    /\ UNCHANGED <<phase, batch, history>>

------------------------------------------------------------------------------
(* Faults.                                                                 *)

Fault ==
    /\ faults < MaxFaults
    /\ faults' = faults + 1

\* Where an instance goes on when a Redis call rejects: the loop restarts, a
\* failed acknowledgement is handled like a failed command, and every other
\* error leaves the message pending.
Recover(c) ==
    \/ /\ pc[c] = "group"
       /\ UNCHANGED instance
    \/ /\ pc[c] = "call"
       /\ phase' = [phase EXCEPT ![c] = "claim"]
       /\ UNCHANGED <<pc, batch, current, attempts>>
    \/ /\ pc[c] = "ack"
       /\ Goto(c, "count")
       /\ UNCHANGED <<phase, batch, current, attempts>>
    \/ /\ pc[c] \in {"count", "dlq", "dlqAck"}
       /\ Release(c)
       /\ UNCHANGED <<phase, batch>>

CallFails(c) ==
    /\ Fault
    /\ Recover(c)
    /\ UNCHANGED <<redis, tries, completions>>

\* The call takes effect but its reply is lost, so the instance sees an error.
ReplyLost(c) ==
    /\ Fault
    /\ \/ pc[c] = "call" /\ phase[c] = "claim" /\ ClaimIdle
       \/ pc[c] = "call" /\ phase[c] = "read" /\ DeliverFresh
       \/ pc[c] \in {"ack", "dlqAck"} /\ Acknowledge(current[c])
       \/ pc[c] = "dlq" /\ AddDeadLetter(c)
    /\ Recover(c)
    /\ UNCHANGED <<tries, completions>>

Crash(c) ==
    /\ Fault
    /\ pc[c] # "down"
    /\ Goto(c, "down")
    /\ phase' = [phase EXCEPT ![c] = "claim"]
    /\ batch' = [batch EXCEPT ![c] = {}]
    /\ current' = [current EXCEPT ![c] = NoEntry]
    /\ attempts' = [attempts EXCEPT ![c] = 0]
    /\ UNCHANGED <<redis, tries, completions>>

Restart(c) ==
    /\ pc[c] = "down"
    /\ Goto(c, "group")
    /\ UNCHANGED <<redis, phase, batch, current, attempts, history>>

------------------------------------------------------------------------------
Step(c) ==
    \/ EnsureGroup(c) \/ ClaimBatch(c) \/ ReadBatch(c)
    \/ StartMessage(c) \/ EndBatch(c)
    \/ ProcessSucceeds(c) \/ ProcessFails(c)
    \/ Ack(c) \/ CountDeliveries(c) \/ WriteDeadLetter(c) \/ AckDeadLetter(c)
    \/ Restart(c)

Next ==
    \/ AppendCommand
    \/ \E e \in Entries : BecomeIdle(e)
    \/ \E c \in Consumers :
        Step(c) \/ CallFails(c) \/ ReplyLost(c) \/ Crash(c)

Spec == Init /\ [][Next]_vars

\* Time passes, every instance keeps running and is restarted after a crash
\* (restart: unless-stopped), and every command call returns.
Fairness ==
    /\ \A e \in Entries : WF_vars(BecomeIdle(e))
    /\ \A c \in Consumers : WF_vars(Step(c))

FairSpec == Spec /\ Fairness

------------------------------------------------------------------------------
(* What must hold of the protocol.                                         *)

\* No command is dropped: an entry that left the pending list was executed to
\* the end or is on the dead-letter stream, whatever crashed or failed between
\* processing, the dead-letter XADD and the XACK (handleOrderStreamMessage).
SettledBeforeRetired == Retired \subseteq Completed \union DeadEntries

\* A command goes to the dead-letter stream only if it does not parse, or after
\* it was tried and its delivery counter had reached ORDER_COMMAND_MAX_ATTEMPTS.
DeadLetterJustified ==
    \A i \in DOMAIN dlq :
        /\ tries[dlq[i].entry] > 0
        /\ dlq[i].attempts <= deliveries[dlq[i].entry]
        /\ dlq[i].reason = "invalid" <=> dlq[i].entry \in malformed
        /\ dlq[i].reason = "max-attempts" => dlq[i].attempts >= MaxAttempts

\* The retries of a failing command end: beyond MaxAttempts an entry is
\* delivered once more only because another instance still held it, or because
\* a crash or a failed Redis call kept it pending.
RedeliveryBounded ==
    \A e \in Entries :
        deliveries[e] <= MaxAttempts + (Cardinality(Consumers) - 1) + faults

\* A command is executed to the end more than once only if several instances
\* held it at once, or a crash or a failed Redis call came before its XACK.
ExecutionsBounded ==
    \A e \in Entries : completions[e] <= Cardinality(Consumers) + faults

Delivery == INSTANCE CommandDelivery WITH
    accepted     <- 1..length,
    unreadable   <- malformed,
    completed    <- Completed,
    attempted    <- Attempted,
    deadLettered <- DeadEntries,
    retired      <- Retired

\* The consumer-group protocol implements at-least-once delivery.
ImplementsDelivery == Delivery!Spec

\* Every appended command is retired in the end, if instances keep running and
\* crashes and failed calls are finitely many: no entry is forgotten on the
\* pending list and none is redelivered for ever.
EventuallyRetired == Delivery!Progress
==============================================================================
