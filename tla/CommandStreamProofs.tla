------------------------- MODULE CommandStreamProofs -------------------------
(***************************************************************************)
(* Proofs about CommandStream, for every number of instances, entries,     *)
(* attempts and faults.                                                    *)
(*                                                                         *)
(* Inv is the inductive invariant.  Next to the types it orders the marks  *)
(* on the stream (Order) and says what each instance has established about *)
(* the message it is handling (KnowledgeOf).  What an instance knows is    *)
(* stable: every counter it relies on only grows (Grows), so the steps of  *)
(* the others leave its knowledge intact (KnowledgeKept).                  *)
(*                                                                         *)
(* The bounds on deliveries and executions count who holds an entry        *)
(* (Bounded): once it was delivered MaxAttempts times, an instance lets go *)
(* of it only by retiring it or in a fault.                                *)
(***************************************************************************)
EXTENDS CommandStream, FiniteSetTheorems, TLAPS

Handling == {"process", "ack", "count", "dlq", "dlqAck"}

StreamOrder ==
    /\ lastDelivered <= length
    /\ malformed \subseteq 1..length
    /\ pending \subseteq 1..lastDelivered
    /\ \A e \in 1..lastDelivered : deliveries[e] >= 1
    /\ \A i \in DOMAIN dlq : dlq[i].entry \in 1..lastDelivered

BatchOrder == \A c \in Consumers : batch[c] \subseteq 1..lastDelivered

Order == StreamOrder /\ BatchOrder

\* What instance c has established about its current message.
KnowledgeOf(c) ==
    /\ pc[c] \in Handling =>
         /\ current[c] \in 1..lastDelivered
         /\ tries[current[c]] > 0
    /\ pc[c] \in {"process", "ack"} => current[c] \notin malformed
    /\ pc[c] = "ack" => completions[current[c]] > 0
    /\ pc[c] = "dlq" =>
         /\ attempts[c] <= deliveries[current[c]]
         /\ current[c] \notin malformed => attempts[c] >= MaxAttempts
    /\ pc[c] = "dlqAck" => current[c] \in DeadEntries

Knowledge == \A c \in Consumers : KnowledgeOf(c)

Inv ==
    /\ TypeOK
    /\ Order
    /\ Knowledge
    /\ SettledBeforeRetired
    /\ DeadLetterJustified

\* No step takes back what was delivered, tried, completed or dead-lettered.
StreamGrows ==
    /\ lastDelivered <= lastDelivered'
    /\ \A e \in 1..lastDelivered :
        /\ e \in malformed' <=> e \in malformed
        /\ deliveries[e] <= deliveries'[e]
        /\ e \in DeadEntries => e \in DeadEntries'

HistoryGrows ==
    \A e \in Entries :
        /\ tries[e] <= tries'[e]
        /\ completions[e] <= completions'[e]

Grows == StreamGrows /\ HistoryGrows

------------------------------------------------------------------------------
\* The invariant holds before any instance has started (startOrderStreamConsumer).
LEMMA InitInv == Init => Inv
<1> SUFFICES ASSUME Init PROVE Inv
    OBVIOUS
<1>1. RedisTypeOK
    <2>1. dlq \in Seq(DeadLetterEntry)
        BY DEF Init
    <2>2. QED
        BY <2>1, StreamAssumption DEF Init, RedisTypeOK
<1>2. InstanceTypeOK
    BY DEF Init, InstanceTypeOK, PC
<1>3. HistoryTypeOK
    BY StreamAssumption DEF Init, HistoryTypeOK
<1>4. DOMAIN dlq = {}
    BY DEF Init
<1>5. Order /\ Knowledge /\ SettledBeforeRetired /\ DeadLetterJustified
    BY <1>4 DEF Init, Order, StreamOrder, BatchOrder, Knowledge, KnowledgeOf, Handling, SettledBeforeRetired,
        Retired, DeadLetterJustified
<1>6. QED
    BY <1>1, <1>2, <1>3, <1>5 DEF Inv, TypeOK

------------------------------------------------------------------------------
(* Stability.                                                              *)

\* What an instance knows of its entry stays true while the group only moves forward.
LEMMA KnowledgeKept ==
    ASSUME TypeOK, TypeOK', Order, Grows, NEW c \in Consumers, KnowledgeOf(c),
           pc'[c] = pc[c], current'[c] = current[c], attempts'[c] = attempts[c]
    PROVE  KnowledgeOf(c)'
<1>1. CASE pc[c] \notin Handling
    BY <1>1 DEF KnowledgeOf, Handling
<1>2. CASE pc[c] \in Handling
    <2> DEFINE e == current[c]
    <2>1. e \in 1..lastDelivered /\ e \in Entries
        BY <1>2, StreamAssumption DEF KnowledgeOf, TypeOK, RedisTypeOK, Entries
    <2>0. e \in 1..lastDelivered'
        BY <2>1, StreamAssumption DEF TypeOK, RedisTypeOK, Grows, StreamGrows
    <2>2. /\ deliveries[e] \in Nat /\ deliveries'[e] \in Nat
          /\ tries[e] \in Nat /\ tries'[e] \in Nat
          /\ completions[e] \in Nat /\ completions'[e] \in Nat
          /\ attempts[c] \in Nat
        BY <2>1 DEF TypeOK, RedisTypeOK, InstanceTypeOK, HistoryTypeOK
    <2>3. /\ e \in malformed' <=> e \in malformed
          /\ deliveries[e] <= deliveries'[e]
          /\ e \in DeadEntries => e \in DeadEntries'
          /\ tries[e] <= tries'[e]
          /\ completions[e] <= completions'[e]
        BY <2>1 DEF Grows, StreamGrows, HistoryGrows
    <2> HIDE DEF e
    <2>5. /\ tries[e] > 0
          /\ pc[c] \in {"process", "ack"} => e \notin malformed
          /\ pc[c] = "ack" => completions[e] > 0
          /\ pc[c] = "dlq" =>
               /\ attempts[c] <= deliveries[e]
               /\ e \notin malformed => attempts[c] >= MaxAttempts
          /\ pc[c] = "dlqAck" => e \in DeadEntries
        BY <1>2 DEF KnowledgeOf, e
    <2>6. /\ pc[c] \in Handling => e \in 1..lastDelivered' /\ tries'[e] > 0
          /\ pc[c] \in {"process", "ack"} => e \notin malformed'
          /\ pc[c] = "ack" => completions'[e] > 0
          /\ pc[c] = "dlq" =>
               /\ attempts[c] <= deliveries'[e]
               /\ e \notin malformed' => attempts[c] >= MaxAttempts
          /\ pc[c] = "dlqAck" => e \in DeadEntries'
        BY <2>0, <2>1, <2>2, <2>3, <2>5
    <2>7. QED
        BY <2>6 DEF KnowledgeOf, e
<1>3. QED
    BY <1>1, <1>2

\* Rows on the dead-letter stream stay justified.
LEMMA JustificationKept ==
    ASSUME TypeOK, TypeOK', Order, Grows, DeadLetterJustified, dlq' = dlq
    PROVE  DeadLetterJustified'
<1> SUFFICES ASSUME NEW i \in DOMAIN dlq
             PROVE  /\ tries'[dlq[i].entry] > 0
                    /\ dlq[i].attempts <= deliveries'[dlq[i].entry]
                    /\ dlq[i].reason = "invalid" <=> dlq[i].entry \in malformed'
                    /\ dlq[i].reason = "max-attempts" => dlq[i].attempts >= MaxAttempts
    BY DEF DeadLetterJustified
<1> DEFINE e == dlq[i].entry
<1>1. e \in 1..lastDelivered /\ e \in Entries
    BY StreamAssumption DEF Order, StreamOrder, TypeOK, RedisTypeOK, Entries
<1>2. dlq[i].attempts \in Nat
    <2>1. dlq[i] \in DeadLetterEntry
        BY DEF TypeOK, RedisTypeOK
    <2>2. QED
        BY <2>1 DEF DeadLetterEntry
<1>3. /\ deliveries[e] \in Nat /\ deliveries'[e] \in Nat
      /\ tries[e] \in Nat /\ tries'[e] \in Nat
    BY <1>1 DEF TypeOK, RedisTypeOK, HistoryTypeOK
<1>4. /\ e \in malformed' <=> e \in malformed
      /\ deliveries[e] <= deliveries'[e]
      /\ tries[e] <= tries'[e]
    BY <1>1 DEF Grows, StreamGrows, HistoryGrows
<1>5. QED
    BY <1>1, <1>2, <1>3, <1>4 DEF DeadLetterJustified

\* An entry that is retired in both states stays settled.
LEMMA SettledKept ==
    ASSUME TypeOK, TypeOK', Order, Grows, SettledBeforeRetired,
           \A e \in Retired' : e \in Retired \/ e \in Completed' \/ e \in DeadEntries'
    PROVE  SettledBeforeRetired'
<1> SUFFICES ASSUME NEW e \in Retired
             PROVE  e \in Completed' \/ e \in DeadEntries'
    BY DEF SettledBeforeRetired
<1>1. e \in 1..lastDelivered /\ e \in Entries
    BY StreamAssumption DEF Retired, TypeOK, RedisTypeOK, Entries
<1>2. e \in Completed \/ e \in DeadEntries
    BY DEF SettledBeforeRetired
<1>3. e \in Completed => e \in Completed'
    BY <1>1 DEF Completed, Grows, HistoryGrows, TypeOK, HistoryTypeOK
<1>4. QED
    BY <1>1, <1>2, <1>3 DEF Grows, StreamGrows

------------------------------------------------------------------------------
(* What the Redis commands keep, and what they retire.                     *)

\* What XAUTOCLAIM, XACK and the dead-letter XADD leave of the stream itself.
LEMMA StreamUntouched ==
    ASSUME RedisTypeOK, StreamOrder, UNCHANGED redis
    PROVE  RedisTypeOK' /\ StreamOrder' /\ StreamGrows /\ Retired' = Retired
<1> USE DEF redis
<1>1. RedisTypeOK'
    BY DEF RedisTypeOK
<1>2. StreamOrder'
    BY DEF StreamOrder
<1>3. StreamGrows
    BY StreamAssumption DEF StreamGrows, RedisTypeOK, DeadEntries, Entries
<1>4. QED
    BY <1>1, <1>2, <1>3 DEF Retired

\* XAUTOCLAIM keeps Redis well typed and only raises delivery counters.
LEMMA ClaimIdleEffect ==
    ASSUME RedisTypeOK, StreamOrder, ClaimIdle
    PROVE  /\ RedisTypeOK' /\ StreamOrder' /\ StreamGrows /\ Retired' = Retired
           /\ Claimable \subseteq Entries /\ Claimable \subseteq 1..lastDelivered'
<1> USE DEF ClaimIdle
<1>1. Claimable \subseteq pending
    BY DEF Claimable, FirstOf, RedisTypeOK
<1>2. \A e \in Entries : deliveries'[e] \in Nat /\ deliveries[e] <= deliveries'[e]
    BY DEF RedisTypeOK
<1>3. deliveries' \in [Entries -> Nat]
    BY <1>2
<1>4. RedisTypeOK'
    BY <1>3 DEF RedisTypeOK
<1>5. \A e \in 1..lastDelivered : e \in Entries
    BY StreamAssumption DEF RedisTypeOK, Entries
<1>6. StreamOrder'
    BY <1>2, <1>5 DEF StreamOrder, RedisTypeOK
<1>7. StreamGrows
    BY <1>2, <1>5 DEF StreamGrows, RedisTypeOK, DeadEntries
<1>8. QED
    BY <1>1, <1>4, <1>6, <1>7 DEF Retired, StreamOrder, RedisTypeOK

\* XREADGROUP keeps Redis well typed and gives out entries beyond the last delivered one.
LEMMA DeliverFreshEffect ==
    ASSUME RedisTypeOK, StreamOrder, DeliverFresh
    PROVE  /\ RedisTypeOK' /\ StreamOrder' /\ StreamGrows /\ Retired' = Retired
           /\ Fresh \subseteq Entries /\ Fresh \subseteq 1..lastDelivered'
<1> USE DEF DeliverFresh
<1>1. /\ lastDelivered' \in 0..length
      /\ lastDelivered <= lastDelivered'
      /\ Fresh = (lastDelivered + 1)..lastDelivered'
    BY StreamAssumption DEF RedisTypeOK, StreamOrder, NextDelivered, Fresh
<1>2. /\ lastDelivered \in Nat /\ lastDelivered' \in Nat /\ length \in 0..MaxEntry
      /\ MaxEntry \in Nat
    BY StreamAssumption, <1>1 DEF RedisTypeOK
<1>3. /\ 1..lastDelivered' = (1..lastDelivered) \union Fresh
      /\ (1..lastDelivered) \cap Fresh = {}
      /\ 1..lastDelivered' \subseteq Entries
    BY <1>1, <1>2 DEF Entries
<1> HIDE DEF DeliverFresh
<1>4. /\ pending' = pending \union Fresh
      /\ deliveries' = [e \in Entries |-> IF e \in Fresh THEN 1 ELSE deliveries[e]]
      /\ UNCHANGED <<length, malformed, group, idle, dlq>>
    BY DEF DeliverFresh
<1>5. RedisTypeOK'
    <2>1. deliveries' \in [Entries -> Nat]
        BY <1>4 DEF RedisTypeOK
    <2>2. lastDelivered' \in 0..MaxEntry
        BY <1>1, <1>2
    <2>3. QED
        BY <1>3, <1>4, <2>1, <2>2 DEF RedisTypeOK
<1>6. StreamOrder'
    <2>1. \A e \in 1..lastDelivered' : deliveries'[e] >= 1
        BY <1>3, <1>4 DEF StreamOrder
    <2>2. pending' \subseteq 1..lastDelivered'
        BY <1>3, <1>4 DEF StreamOrder
    <2>3. lastDelivered' <= length' /\ malformed' \subseteq 1..length'
        BY <1>1, <1>2, <1>4 DEF StreamOrder
    <2>4. \A i \in DOMAIN dlq' : dlq'[i].entry \in 1..lastDelivered'
        BY <1>3, <1>4 DEF StreamOrder
    <2>5. QED
        BY <2>1, <2>2, <2>3, <2>4 DEF StreamOrder
<1>7. StreamGrows
    <2>1. \A e \in 1..lastDelivered : deliveries'[e] = deliveries[e]
        BY <1>3, <1>4
    <2>2. \A e \in 1..lastDelivered : deliveries[e] \in Nat
        BY <1>3 DEF RedisTypeOK
    <2>3. QED
        BY <1>1, <1>4, <2>1, <2>2 DEF StreamGrows, DeadEntries
<1>8. Retired' = Retired
    BY <1>3, <1>4 DEF Retired
<1>9. QED
    BY <1>3, <1>5, <1>6, <1>7, <1>8

\* XACK keeps Redis well typed and takes no other entry off the pending list.
LEMMA AcknowledgeEffect ==
    ASSUME RedisTypeOK, StreamOrder, NEW e, Acknowledge(e)
    PROVE  /\ RedisTypeOK' /\ StreamOrder' /\ StreamGrows
           /\ Retired' \subseteq Retired \union {e}
<1> USE DEF Acknowledge
<1>1. RedisTypeOK'
    BY DEF RedisTypeOK
<1>2. StreamOrder'
    BY DEF StreamOrder
<1>3. StreamGrows
    BY StreamAssumption DEF StreamGrows, RedisTypeOK, DeadEntries, Entries
<1>4. QED
    BY <1>1, <1>2, <1>3 DEF Retired

\* The dead-letter XADD keeps Redis well typed and only adds one row.
LEMMA AddDeadLetterEffect ==
    ASSUME RedisTypeOK, StreamOrder, NEW c \in Consumers, AddDeadLetter(c),
           current[c] \in 1..lastDelivered, attempts[c] \in Nat
    PROVE  /\ RedisTypeOK' /\ StreamOrder' /\ StreamGrows /\ Retired' = Retired
           /\ DeadEntries' = DeadEntries \union {current[c]}
<1> DEFINE row == [entry |-> current[c], attempts |-> attempts[c],
                   reason |-> IF current[c] \in malformed THEN "invalid" ELSE "max-attempts"]
<1>1. /\ dlq' = Append(dlq, row)
      /\ UNCHANGED <<length, malformed, group, lastDelivered, pending, deliveries, idle>>
    BY DEF AddDeadLetter
<1>2. current[c] \in Entries
    BY StreamAssumption DEF RedisTypeOK, Entries
<1>3. row \in DeadLetterEntry
    BY <1>2 DEF DeadLetterEntry
<1>4. row.entry = current[c]
    OBVIOUS
<1> HIDE DEF row
<1>5. dlq \in Seq(DeadLetterEntry)
    BY DEF RedisTypeOK
<1>6. /\ dlq' \in Seq(DeadLetterEntry)
      /\ DOMAIN dlq' = DOMAIN dlq \union {Len(dlq) + 1}
      /\ dlq'[Len(dlq) + 1] = row
      /\ \A i \in DOMAIN dlq : dlq'[i] = dlq[i]
    BY <1>1, <1>3, <1>5
<1>7. RedisTypeOK'
    BY <1>1, <1>6 DEF RedisTypeOK
<1>8. StreamOrder'
    BY <1>1, <1>4, <1>6 DEF StreamOrder
<1>9. DeadEntries' = DeadEntries \union {current[c]}
    BY <1>4, <1>6 DEF DeadEntries
<1>10. StreamGrows
    BY <1>1, <1>9, StreamAssumption DEF StreamGrows, RedisTypeOK, Entries
<1>11. QED
    BY <1>1, <1>7, <1>8, <1>9, <1>10 DEF Retired

------------------------------------------------------------------------------
(* One step of one instance.                                               *)

\* A step of instance c touches nobody else's local state.
OthersKeep(c) ==
    \A d \in Consumers \ {c} :
        /\ pc'[d] = pc[d] /\ current'[d] = current[d]
        /\ attempts'[d] = attempts[d] /\ batch'[d] = batch[d]

\* A step that leaves the counters alone keeps their types.
LEMMA HistoryUntouched ==
    ASSUME HistoryTypeOK, UNCHANGED <<tries, completions>>, faults' \in 0..MaxFaults
    PROVE  HistoryTypeOK' /\ HistoryGrows
BY DEF HistoryTypeOK, HistoryGrows

\* A step of instance c keeps Inv if it keeps c's part of it.
LEMMA Assemble ==
    ASSUME Inv, NEW c \in Consumers, OthersKeep(c),
           RedisTypeOK', InstanceTypeOK', HistoryTypeOK', StreamOrder',
           StreamGrows, HistoryGrows,
           batch'[c] \subseteq 1..lastDelivered', KnowledgeOf(c)',
           \A e \in Retired' : e \in Retired \/ e \in Completed' \/ e \in DeadEntries',
           DeadLetterJustified' \/ dlq' = dlq
    PROVE  Inv'
<1>1. TypeOK /\ TypeOK' /\ Order /\ Grows
    BY DEF Inv, TypeOK, Grows
<1>2. BatchOrder'
    <2> SUFFICES ASSUME NEW d \in Consumers PROVE batch'[d] \subseteq 1..lastDelivered'
        BY DEF BatchOrder
    <2>1. CASE d = c
        BY <2>1
    <2>2. CASE d # c
        <3>1. batch'[d] = batch[d] /\ batch[d] \subseteq 1..lastDelivered
            BY <2>2, <1>1 DEF OthersKeep, Order, BatchOrder
        <3>2. lastDelivered \in Nat /\ lastDelivered' \in Nat /\ lastDelivered <= lastDelivered'
            BY <1>1, StreamAssumption DEF TypeOK, RedisTypeOK, StreamGrows
        <3>3. QED
            BY <3>1, <3>2
    <2>3. QED
        BY <2>1, <2>2
<1>3. Knowledge'
    <2> SUFFICES ASSUME NEW d \in Consumers PROVE KnowledgeOf(d)'
        BY DEF Knowledge
    <2>1. CASE d # c
        BY <2>1, <1>1, KnowledgeKept DEF OthersKeep, Inv, Knowledge
    <2>2. QED
        BY <2>1
<1>4. DeadLetterJustified'
    BY <1>1, JustificationKept DEF Inv
<1>5. SettledBeforeRetired'
    BY <1>1, SettledKept DEF Inv
<1>6. QED
    BY <1>1, <1>2, <1>3, <1>4, <1>5 DEF Inv, Order

\* Outside Handling an instance claims to know nothing.
LEMMA NothingKnown ==
    ASSUME NEW c \in Consumers, pc'[c] \notin Handling
    PROVE  KnowledgeOf(c)'
BY DEF KnowledgeOf, Handling

\* The end of handleOrderStreamMessage keeps the instances well typed.
LEMMA ReleaseEffect ==
    ASSUME InstanceTypeOK, NEW c \in Consumers, Release(c), UNCHANGED <<phase, batch>>
    PROVE  InstanceTypeOK' /\ OthersKeep(c) /\ pc'[c] = "handle" /\ batch'[c] = batch[c]
<1>1. pc' \in [Consumers -> PC]
    BY DEF InstanceTypeOK, Release, Goto, PC
<1>2. current' \in [Consumers -> Entries \union {NoEntry}] /\ attempts' \in [Consumers -> Nat]
    BY DEF InstanceTypeOK, Release
<1>3. QED
    BY <1>1, <1>2 DEF InstanceTypeOK, Release, Goto, OthersKeep

\* Moving on in the loop keeps the instances well typed.
LEMMA GotoEffect ==
    ASSUME InstanceTypeOK, NEW c \in Consumers, NEW label \in PC, Goto(c, label),
           UNCHANGED <<current, attempts>>, phase' \in [Consumers -> {"claim", "read"}],
           UNCHANGED batch
    PROVE  InstanceTypeOK' /\ OthersKeep(c) /\ pc'[c] = label /\ batch'[c] = batch[c]
BY DEF InstanceTypeOK, Goto, OthersKeep

------------------------------------------------------------------------------
(* Every action keeps Inv.                                                 *)

\* The backend's XADD keeps the invariant.
LEMMA AppendKeepsInv ==
    ASSUME Inv, AppendCommand PROVE Inv'
<1> USE DEF AppendCommand, instance, history
<1>1. RedisTypeOK' /\ InstanceTypeOK' /\ HistoryTypeOK'
    <2>1. length + 1 \in Entries
        BY StreamAssumption DEF Inv, TypeOK, RedisTypeOK, Entries
    <2>2. RedisTypeOK'
        BY <2>1, StreamAssumption DEF Inv, TypeOK, RedisTypeOK, Entries
    <2>3. InstanceTypeOK' /\ HistoryTypeOK'
        BY DEF Inv, TypeOK, InstanceTypeOK, HistoryTypeOK
    <2>4. QED
        BY <2>2, <2>3
<1>2. /\ length \in Nat /\ lastDelivered \in Nat /\ lastDelivered <= length
      /\ length' = length + 1
    BY StreamAssumption DEF Inv, TypeOK, RedisTypeOK, Order, StreamOrder
<1>3. Order'
    <2>1. malformed' \subseteq 1..length'
        BY <1>2 DEF Inv, Order, StreamOrder
    <2>2. QED
        BY <1>2, <2>1 DEF Inv, Order, StreamOrder, BatchOrder
<1>4. Grows
    <2>1. \A e \in 1..lastDelivered : e \in malformed' <=> e \in malformed
        BY <1>2
    <2>2. \A e \in 1..lastDelivered : deliveries[e] <= deliveries'[e]
        BY StreamAssumption DEF Inv, TypeOK, RedisTypeOK, Entries
    <2>3. HistoryGrows
        BY DEF Inv, TypeOK, HistoryTypeOK, HistoryGrows
    <2>4. QED
        BY <1>2, <2>1, <2>2, <2>3 DEF Grows, StreamGrows, DeadEntries
<1>5. TypeOK /\ TypeOK' /\ Order
    BY <1>1 DEF Inv, TypeOK
<1>6. Knowledge'
    BY <1>4, <1>5, KnowledgeKept DEF Inv, Knowledge
<1>7. SettledBeforeRetired'
    BY <1>4, <1>5, SettledKept DEF Inv, Retired
<1>8. DeadLetterJustified'
    BY <1>4, <1>5, JustificationKept DEF Inv
<1>9. QED
    BY <1>3, <1>5, <1>6, <1>7, <1>8 DEF Inv

\* The passing of claimIdleMs keeps the invariant.
LEMMA BecomeIdleKeepsInv ==
    ASSUME Inv, NEW e \in Entries, BecomeIdle(e) PROVE Inv'
<1> USE DEF BecomeIdle, instance, history
<1>1. RedisTypeOK' /\ InstanceTypeOK' /\ HistoryTypeOK'
    BY DEF Inv, TypeOK, RedisTypeOK, InstanceTypeOK, HistoryTypeOK
<1>2. Order' /\ Knowledge'
    BY DEF Inv, Order, StreamOrder, BatchOrder, Knowledge, KnowledgeOf, DeadEntries
<1>3. SettledBeforeRetired' /\ DeadLetterJustified'
    BY DEF Inv, SettledBeforeRetired, Retired, Completed, DeadEntries, DeadLetterJustified
<1>4. QED
    BY <1>1, <1>2, <1>3 DEF Inv, TypeOK

\* Steps that leave Redis and the history alone.
LEMMA LocalStepKeepsInv ==
    ASSUME Inv, NEW c \in Consumers, UNCHANGED <<redis, tries, completions>>,
           faults' \in 0..MaxFaults, InstanceTypeOK', OthersKeep(c),
           batch'[c] \subseteq batch[c], KnowledgeOf(c)'
    PROVE  Inv'
<1>1. RedisTypeOK' /\ StreamOrder' /\ StreamGrows /\ Retired' = Retired
    BY StreamUntouched DEF Inv, TypeOK, Order
<1>2. HistoryTypeOK' /\ HistoryGrows
    BY HistoryUntouched DEF Inv, TypeOK
<1>3. batch'[c] \subseteq 1..lastDelivered' /\ dlq' = dlq
    BY DEF Inv, Order, BatchOrder, redis
<1>4. QED
    BY <1>1, <1>2, <1>3, Assemble

\* ensureOrderConsumerGroup keeps the invariant.
LEMMA EnsureGroupKeepsInv ==
    ASSUME Inv, NEW c \in Consumers, EnsureGroup(c) PROVE Inv'
<1> USE DEF EnsureGroup, history
<1>1. InstanceTypeOK' /\ OthersKeep(c) /\ pc'[c] = "call" /\ batch'[c] = batch[c]
    <2>1. "call" \in PC
        BY DEF PC
    <2>2. QED
        BY <2>1, GotoEffect DEF Inv, TypeOK, InstanceTypeOK
<1>2. RedisTypeOK' /\ StreamOrder' /\ StreamGrows /\ Retired' = Retired /\ dlq' = dlq
    BY StreamAssumption DEF Inv, TypeOK, RedisTypeOK, Order, StreamOrder, StreamGrows,
        Retired, DeadEntries, Entries
<1>3. HistoryTypeOK' /\ HistoryGrows
    BY HistoryUntouched DEF Inv, TypeOK, HistoryTypeOK
<1>4. KnowledgeOf(c)' /\ batch'[c] \subseteq 1..lastDelivered'
    BY <1>1, NothingKnown DEF Handling, Inv, Order, BatchOrder
<1>5. QED
    BY <1>1, <1>2, <1>3, <1>4, Assemble

\* claimIdleOrderStreamMessages keeps the invariant.
LEMMA ClaimBatchKeepsInv ==
    ASSUME Inv, NEW c \in Consumers, ClaimBatch(c) PROVE Inv'
<1> USE DEF ClaimBatch, history
<1>1. /\ RedisTypeOK' /\ StreamOrder' /\ StreamGrows /\ Retired' = Retired
      /\ Claimable \subseteq Entries /\ Claimable \subseteq 1..lastDelivered'
    BY ClaimIdleEffect DEF Inv, TypeOK, Order
<1>2. /\ InstanceTypeOK' /\ OthersKeep(c) /\ pc'[c] = "handle"
      /\ batch'[c] = Claimable
    BY <1>1 DEF Inv, TypeOK, InstanceTypeOK, Goto, PC, OthersKeep
<1>3. HistoryTypeOK' /\ HistoryGrows
    BY HistoryUntouched DEF Inv, TypeOK, HistoryTypeOK
<1>4. KnowledgeOf(c)' /\ dlq' = dlq
    BY <1>2, NothingKnown DEF Handling, ClaimIdle
<1>5. QED
    BY <1>1, <1>2, <1>3, <1>4, Assemble

\* readNewOrderStreamMessages keeps the invariant.
LEMMA ReadBatchKeepsInv ==
    ASSUME Inv, NEW c \in Consumers, ReadBatch(c) PROVE Inv'
<1> USE DEF ReadBatch, history
<1>1. /\ RedisTypeOK' /\ StreamOrder' /\ StreamGrows /\ Retired' = Retired
      /\ Fresh \subseteq Entries /\ Fresh \subseteq 1..lastDelivered'
    BY DeliverFreshEffect DEF Inv, TypeOK, Order
<1>2. /\ InstanceTypeOK' /\ OthersKeep(c) /\ pc'[c] = "handle"
      /\ batch'[c] = Fresh
    BY <1>1 DEF Inv, TypeOK, InstanceTypeOK, Goto, PC, OthersKeep
<1>3. HistoryTypeOK' /\ HistoryGrows
    BY HistoryUntouched DEF Inv, TypeOK, HistoryTypeOK
<1>4. KnowledgeOf(c)' /\ dlq' = dlq
    BY <1>2, NothingKnown DEF Handling, DeliverFresh
<1>5. QED
    BY <1>1, <1>2, <1>3, <1>4, Assemble

\* Taking the next message of a batch keeps the invariant.
LEMMA StartMessageKeepsInv ==
    ASSUME Inv, NEW c \in Consumers, StartMessage(c) PROVE Inv'
<1>1. PICK e \in batch[c] :
        /\ batch' = [batch EXCEPT ![c] = @ \ {e}]
        /\ current' = [current EXCEPT ![c] = e]
        /\ tries' = [tries EXCEPT ![e] = @ + 1]
        /\ Goto(c, IF e \in malformed THEN "count" ELSE "process")
        /\ UNCHANGED <<redis, phase, attempts, completions, faults>>
    BY DEF StartMessage
<1>2. e \in Entries /\ e \in 1..lastDelivered
    BY DEF Inv, TypeOK, InstanceTypeOK, Order, BatchOrder
<1>3. RedisTypeOK' /\ StreamOrder' /\ StreamGrows /\ Retired' = Retired /\ dlq' = dlq
    BY <1>1, StreamUntouched DEF Inv, TypeOK, Order, redis
<1>4. /\ InstanceTypeOK' /\ OthersKeep(c)
      /\ pc'[c] = IF e \in malformed THEN "count" ELSE "process"
      /\ current'[c] = e /\ batch'[c] = batch[c] \ {e}
    BY <1>1, <1>2 DEF Inv, TypeOK, InstanceTypeOK, Goto, PC, OthersKeep
<1>5. HistoryTypeOK' /\ HistoryGrows /\ tries'[e] > 0
    BY <1>1, <1>2 DEF Inv, TypeOK, HistoryTypeOK, HistoryGrows
<1>6. KnowledgeOf(c)'
    BY <1>1, <1>2, <1>4, <1>5 DEF KnowledgeOf, Handling, redis
<1>7. batch'[c] \subseteq 1..lastDelivered'
    BY <1>1, <1>4 DEF Inv, Order, BatchOrder, redis
<1>8. QED
    BY <1>3, <1>4, <1>5, <1>6, <1>7, Assemble

\* The end of handleMessages keeps the invariant.
LEMMA EndBatchKeepsInv ==
    ASSUME Inv, NEW c \in Consumers, EndBatch(c) PROVE Inv'
<1> USE DEF EndBatch, history
<1>1. InstanceTypeOK' /\ OthersKeep(c) /\ pc'[c] = "call" /\ batch'[c] = batch[c]
    BY DEF Inv, TypeOK, InstanceTypeOK, Goto, PC, OthersKeep
<1>2. faults' \in 0..MaxFaults
    BY DEF Inv, TypeOK, HistoryTypeOK
<1>3. QED
    BY <1>1, <1>2, NothingKnown, LocalStepKeepsInv DEF Handling

\* A processCommand that returns keeps the invariant.
LEMMA ProcessSucceedsKeepsInv ==
    ASSUME Inv, NEW c \in Consumers, ProcessSucceeds(c) PROVE Inv'
<1> USE DEF ProcessSucceeds
<1> DEFINE e == current[c]
<1>1. /\ e \in 1..lastDelivered /\ e \in Entries
      /\ tries[e] > 0 /\ e \notin malformed
    BY StreamAssumption
    DEF Inv, Knowledge, KnowledgeOf, Handling, TypeOK, RedisTypeOK, Entries
<1>2. RedisTypeOK' /\ StreamOrder' /\ StreamGrows /\ Retired' = Retired /\ dlq' = dlq
    BY StreamUntouched DEF Inv, TypeOK, Order, redis
<1>3. /\ InstanceTypeOK' /\ OthersKeep(c) /\ pc'[c] = "ack" /\ batch'[c] = batch[c]
      /\ current'[c] = e
    BY DEF Inv, TypeOK, InstanceTypeOK, Goto, PC, OthersKeep
<1>4. HistoryTypeOK' /\ HistoryGrows /\ completions'[e] > 0
    BY <1>1 DEF Inv, TypeOK, HistoryTypeOK, HistoryGrows
<1>5. KnowledgeOf(c)'
    BY <1>1, <1>3, <1>4 DEF KnowledgeOf, Handling, redis
<1>6. batch'[c] \subseteq 1..lastDelivered'
    BY <1>3 DEF Inv, Order, BatchOrder, redis
<1>7. QED
    BY <1>2, <1>3, <1>4, <1>5, <1>6, Assemble

\* A processCommand that throws keeps the invariant.
LEMMA ProcessFailsKeepsInv ==
    ASSUME Inv, NEW c \in Consumers, ProcessFails(c) PROVE Inv'
<1> USE DEF ProcessFails, history
<1>1. InstanceTypeOK' /\ OthersKeep(c) /\ pc'[c] = "count" /\ batch'[c] = batch[c]
    BY DEF Inv, TypeOK, InstanceTypeOK, Goto, PC, OthersKeep
<1>2. faults' \in 0..MaxFaults
    BY DEF Inv, TypeOK, HistoryTypeOK
<1>3. KnowledgeOf(c)'
    BY <1>1 DEF Inv, Knowledge, KnowledgeOf, Handling, redis
<1>4. QED
    BY <1>1, <1>2, <1>3, LocalStepKeepsInv

\* Acknowledging a message that is completed or dead-lettered, from `ack' or
\* `dlqAck', retires nothing unsettled.
LEMMA AcknowledgeSettled ==
    ASSUME Inv, NEW c \in Consumers, pc[c] \in {"ack", "dlqAck"},
           Acknowledge(current[c]), UNCHANGED <<tries, completions>>
    PROVE  /\ RedisTypeOK' /\ StreamOrder' /\ StreamGrows /\ dlq' = dlq
           /\ \A e \in Retired' : e \in Retired \/ e \in Completed' \/ e \in DeadEntries'
           /\ batch[c] \subseteq 1..lastDelivered'
<1>1. /\ RedisTypeOK' /\ StreamOrder' /\ StreamGrows
      /\ Retired' \subseteq Retired \union {current[c]}
    BY AcknowledgeEffect DEF Inv, TypeOK, Order
<1>2. dlq' = dlq /\ lastDelivered' = lastDelivered
    BY DEF Acknowledge
<1>3. current[c] \in Completed' \/ current[c] \in DeadEntries'
    <2>1. CASE pc[c] = "ack"
        BY <2>1, StreamAssumption
        DEF Inv, Knowledge, KnowledgeOf, Handling, Completed, TypeOK, RedisTypeOK, Entries
    <2>2. CASE pc[c] = "dlqAck"
        BY <2>2, <1>2 DEF Inv, Knowledge, KnowledgeOf, DeadEntries
    <2>3. QED
        BY <2>1, <2>2
<1>4. QED
    BY <1>1, <1>2, <1>3 DEF Inv, Order, BatchOrder

\* The XACK after a processed command keeps the invariant.
LEMMA AckKeepsInv ==
    ASSUME Inv, NEW c \in Consumers, Ack(c) \/ AckDeadLetter(c) PROVE Inv'
<1>1. /\ pc[c] \in {"ack", "dlqAck"} /\ Acknowledge(current[c]) /\ Release(c)
      /\ UNCHANGED <<phase, batch>> /\ UNCHANGED <<tries, completions>>
      /\ faults' \in 0..MaxFaults
    BY DEF Ack, AckDeadLetter, history, Inv, TypeOK, HistoryTypeOK
<1>2. InstanceTypeOK' /\ OthersKeep(c) /\ pc'[c] = "handle" /\ batch'[c] = batch[c]
    BY <1>1, ReleaseEffect DEF Inv, TypeOK
<1>3. HistoryTypeOK' /\ HistoryGrows
    BY <1>1, HistoryUntouched DEF Inv, TypeOK
<1>4. KnowledgeOf(c)'
    BY <1>2, NothingKnown DEF Handling
<1>5. QED
    BY <1>1, <1>2, <1>3, <1>4, AcknowledgeSettled, Assemble

\* getDeliveryCount and the choice after it keep the invariant.
LEMMA CountDeliveriesKeepsInv ==
    ASSUME Inv, NEW c \in Consumers, CountDeliveries(c) PROVE Inv'
<1> DEFINE count == DeliveryCount(current[c])
<1>1. /\ current[c] \in 1..lastDelivered /\ current[c] \in Entries
      /\ tries[current[c]] > 0
    BY StreamAssumption
    DEF CountDeliveries, Inv, Knowledge, KnowledgeOf, Handling, TypeOK, RedisTypeOK, Entries
<1>2. count \in Nat /\ count <= deliveries[current[c]]
    BY <1>1 DEF DeliveryCount, Inv, TypeOK, RedisTypeOK, Order, StreamOrder
<1>3. pc[c] = "count" /\ UNCHANGED <<redis, phase, batch, history>>
    BY DEF CountDeliveries
<1>4. UNCHANGED <<redis, tries, completions>> /\ faults' \in 0..MaxFaults
    BY <1>3 DEF history, Inv, TypeOK, HistoryTypeOK
<1>5. CASE current[c] \in malformed \/ count >= MaxAttempts
    <2>1. /\ attempts' = [attempts EXCEPT ![c] = count]
          /\ Goto(c, "dlq") /\ UNCHANGED current
        BY <1>5 DEF CountDeliveries
    <2> HIDE DEF count
    <2>2. /\ InstanceTypeOK' /\ OthersKeep(c) /\ pc'[c] = "dlq" /\ batch'[c] = batch[c]
          /\ attempts'[c] = count /\ current'[c] = current[c]
        BY <2>1, <1>2, <1>3 DEF Inv, TypeOK, InstanceTypeOK, Goto, PC, OthersKeep
    <2>3. KnowledgeOf(c)'
        BY <1>1, <1>2, <1>3, <1>4, <1>5, <2>2 DEF KnowledgeOf, Handling, redis
    <2>4. QED
        BY <1>4, <2>2, <2>3, LocalStepKeepsInv
<1>6. CASE ~(current[c] \in malformed \/ count >= MaxAttempts)
    <2>1. Release(c)
        BY <1>6 DEF CountDeliveries
    <2>2. InstanceTypeOK' /\ OthersKeep(c) /\ pc'[c] = "handle" /\ batch'[c] = batch[c]
        BY <2>1, <1>3, ReleaseEffect DEF Inv, TypeOK
    <2>3. QED
        BY <1>4, <2>2, NothingKnown, LocalStepKeepsInv DEF Handling
<1>7. QED
    BY <1>5, <1>6

\* The new row is justified by what the instance knows at `dlq'.
LEMMA AddDeadLetterJustified ==
    ASSUME Inv, NEW c \in Consumers, pc[c] = "dlq", AddDeadLetter(c),
           UNCHANGED <<tries, completions>>
    PROVE  /\ RedisTypeOK' /\ StreamOrder' /\ StreamGrows /\ Retired' = Retired
           /\ DeadLetterJustified' /\ current[c] \in DeadEntries'
           /\ batch[c] \subseteq 1..lastDelivered'
           /\ current[c] \in 1..lastDelivered' /\ tries'[current[c]] > 0
<1>1. /\ current[c] \in 1..lastDelivered /\ tries[current[c]] > 0
      /\ attempts[c] \in Nat /\ attempts[c] <= deliveries[current[c]]
      /\ current[c] \notin malformed => attempts[c] >= MaxAttempts
    BY DEF Inv, Knowledge, KnowledgeOf, Handling, TypeOK, InstanceTypeOK
<1>2. /\ RedisTypeOK' /\ StreamOrder' /\ StreamGrows /\ Retired' = Retired
      /\ DeadEntries' = DeadEntries \union {current[c]}
    BY <1>1, AddDeadLetterEffect DEF Inv, TypeOK, Order
<1>3. UNCHANGED <<malformed, deliveries, lastDelivered>>
    BY DEF AddDeadLetter
<1>4. DeadLetterJustified'
    <2> DEFINE row == [entry |-> current[c], attempts |-> attempts[c],
                       reason |-> IF current[c] \in malformed
                                  THEN "invalid" ELSE "max-attempts"]
    <2>1. dlq' = Append(dlq, row)
        BY DEF AddDeadLetter
    <2>2. /\ row.entry = current[c] /\ row.attempts = attempts[c]
          /\ row.reason = IF current[c] \in malformed THEN "invalid" ELSE "max-attempts"
        OBVIOUS
    <2> HIDE DEF row
    <2>3. \A i \in DOMAIN dlq' : (i \in DOMAIN dlq /\ dlq'[i] = dlq[i]) \/ dlq'[i] = row
        BY <2>1 DEF Inv, TypeOK, RedisTypeOK
    <2> SUFFICES ASSUME NEW i \in DOMAIN dlq'
                 PROVE  /\ tries[dlq'[i].entry] > 0
                        /\ dlq'[i].attempts <= deliveries[dlq'[i].entry]
                        /\ dlq'[i].reason = "invalid" <=> dlq'[i].entry \in malformed
                        /\ dlq'[i].reason = "max-attempts" => dlq'[i].attempts >= MaxAttempts
        BY <1>3 DEF DeadLetterJustified
    <2>4. CASE i \in DOMAIN dlq /\ dlq'[i] = dlq[i]
        BY <2>4 DEF Inv, DeadLetterJustified
    <2>5. CASE dlq'[i] = row
        BY <2>5, <2>2, <1>1
    <2>6. QED
        BY <2>3, <2>4, <2>5
<1>5. QED
    BY <1>1, <1>2, <1>3, <1>4 DEF Inv, Order, BatchOrder

\* The dead-letter XADD keeps the invariant.
LEMMA WriteDeadLetterKeepsInv ==
    ASSUME Inv, NEW c \in Consumers, WriteDeadLetter(c) PROVE Inv'
<1> USE DEF WriteDeadLetter, history
<1>1. /\ RedisTypeOK' /\ StreamOrder' /\ StreamGrows /\ Retired' = Retired
      /\ DeadLetterJustified' /\ current[c] \in DeadEntries'
      /\ batch[c] \subseteq 1..lastDelivered'
      /\ current[c] \in 1..lastDelivered' /\ tries'[current[c]] > 0
    BY AddDeadLetterJustified
<1>2. /\ InstanceTypeOK' /\ OthersKeep(c) /\ pc'[c] = "dlqAck" /\ batch'[c] = batch[c]
      /\ current'[c] = current[c]
    BY DEF Inv, TypeOK, InstanceTypeOK, Goto, PC, OthersKeep
<1>3. HistoryTypeOK' /\ HistoryGrows
    BY HistoryUntouched DEF Inv, TypeOK, HistoryTypeOK
<1>4. KnowledgeOf(c)'
    BY <1>1, <1>2 DEF KnowledgeOf, Handling
<1>5. QED
    BY <1>1, <1>2, <1>3, <1>4, Assemble

\* The restart of an instance keeps the invariant.
LEMMA RestartKeepsInv ==
    ASSUME Inv, NEW c \in Consumers, Restart(c) PROVE Inv'
<1> USE DEF Restart, history
<1>1. InstanceTypeOK' /\ OthersKeep(c) /\ pc'[c] = "group" /\ batch'[c] = batch[c]
    BY DEF Inv, TypeOK, InstanceTypeOK, Goto, PC, OthersKeep
<1>2. faults' \in 0..MaxFaults
    BY DEF Inv, TypeOK, HistoryTypeOK
<1>3. QED
    BY <1>1, <1>2, NothingKnown, LocalStepKeepsInv DEF Handling

\* A fault stays within MaxFaults.
LEMMA FaultCounted ==
    ASSUME Inv, Fault PROVE faults' \in 0..MaxFaults
BY StreamAssumption DEF Inv, TypeOK, HistoryTypeOK, Fault

\* The death of an instance keeps the invariant.
LEMMA CrashKeepsInv ==
    ASSUME Inv, NEW c \in Consumers, Crash(c) PROVE Inv'
<1> USE DEF Crash
<1>1. /\ InstanceTypeOK' /\ OthersKeep(c) /\ pc'[c] = "down" /\ batch'[c] = {}
    BY DEF Inv, TypeOK, InstanceTypeOK, Goto, PC, OthersKeep
<1>2. faults' \in 0..MaxFaults
    BY FaultCounted
<1>3. QED
    BY <1>1, <1>2, NothingKnown, LocalStepKeepsInv DEF Handling

\* After a failed call an instance has lost its message or, when the failed
\* call was the acknowledgement, knows no more than that it was tried.
LEMMA RecoverEffect ==
    ASSUME Inv, NEW c \in Consumers, Recover(c)
    PROVE  /\ InstanceTypeOK' /\ OthersKeep(c) /\ batch'[c] = batch[c]
           /\ \/ pc'[c] \notin Handling
              \/ pc[c] = "ack" /\ pc'[c] = "count" /\ current'[c] = current[c]
<1>1. CASE pc[c] = "group" /\ UNCHANGED instance
    BY <1>1 DEF Inv, TypeOK, InstanceTypeOK, OthersKeep, Handling, instance
<1>2. CASE /\ pc[c] = "call"
           /\ phase' = [phase EXCEPT ![c] = "claim"]
           /\ UNCHANGED <<pc, batch, current, attempts>>
    BY <1>2 DEF Inv, TypeOK, InstanceTypeOK, OthersKeep, Handling
<1>3. CASE pc[c] = "ack" /\ Goto(c, "count") /\ UNCHANGED <<phase, batch, current, attempts>>
    BY <1>3 DEF Inv, TypeOK, InstanceTypeOK, Goto, PC, OthersKeep
<1>4. CASE pc[c] \in {"count", "dlq", "dlqAck"} /\ Release(c) /\ UNCHANGED <<phase, batch>>
    BY <1>4, ReleaseEffect DEF Inv, TypeOK, Handling
<1>5. QED
    BY <1>1, <1>2, <1>3, <1>4 DEF Recover

\* The part of the proof that CallFails and ReplyLost share.
LEMMA RecoverKnowledge ==
    ASSUME Inv, NEW c \in Consumers, Recover(c), StreamGrows, RedisTypeOK',
           UNCHANGED tries
    PROVE  KnowledgeOf(c)'
<1>1. CASE pc'[c] \notin Handling
    BY <1>1, NothingKnown
<1>2. CASE pc[c] = "ack" /\ pc'[c] = "count" /\ current'[c] = current[c]
    <2>1. current[c] \in 1..lastDelivered /\ tries[current[c]] > 0
        BY <1>2 DEF Inv, Knowledge, KnowledgeOf, Handling
    <2>2. current[c] \in 1..lastDelivered'
        BY <2>1, StreamAssumption DEF Inv, TypeOK, RedisTypeOK, StreamGrows
    <2>3. QED
        BY <1>2, <2>1, <2>2 DEF KnowledgeOf
<1>3. QED
    BY <1>1, <1>2, RecoverEffect

\* A Redis call that rejects without effect keeps the invariant.
LEMMA CallFailsKeepsInv ==
    ASSUME Inv, NEW c \in Consumers, CallFails(c) PROVE Inv'
<1>1. Recover(c) /\ UNCHANGED <<redis, tries, completions>> /\ faults' \in 0..MaxFaults
    BY FaultCounted DEF CallFails
<1>2. RedisTypeOK' /\ StreamGrows
    BY <1>1, StreamUntouched DEF Inv, TypeOK, Order
<1>3. InstanceTypeOK' /\ OthersKeep(c) /\ batch'[c] = batch[c] /\ KnowledgeOf(c)'
    BY <1>1, <1>2, RecoverEffect, RecoverKnowledge
<1>4. QED
    BY <1>1, <1>3, LocalStepKeepsInv

\* A Redis call that takes effect and rejects keeps the invariant.
LEMMA ReplyLostKeepsInv ==
    ASSUME Inv, NEW c \in Consumers, ReplyLost(c) PROVE Inv'
<1>1. Recover(c) /\ UNCHANGED <<tries, completions>> /\ faults' \in 0..MaxFaults
    BY FaultCounted DEF ReplyLost
<1>2. /\ RedisTypeOK' /\ StreamOrder' /\ StreamGrows
      /\ DeadLetterJustified' \/ dlq' = dlq
      /\ \A e \in Retired' : e \in Retired \/ e \in Completed' \/ e \in DeadEntries'
      /\ batch[c] \subseteq 1..lastDelivered'
    <2>1. CASE ClaimIdle
        BY <2>1, ClaimIdleEffect DEF Inv, TypeOK, Order, BatchOrder, ClaimIdle
    <2>2. CASE DeliverFresh
        <3>1. RedisTypeOK' /\ StreamOrder' /\ StreamGrows /\ Retired' = Retired /\ dlq' = dlq
            BY <2>2, DeliverFreshEffect DEF Inv, TypeOK, Order, DeliverFresh
        <3>2. batch[c] \subseteq 1..lastDelivered
            BY DEF Inv, Order, BatchOrder
        <3>3. QED
            BY <3>1, <3>2, StreamAssumption DEF Inv, TypeOK, RedisTypeOK, StreamGrows
    <2>3. CASE pc[c] \in {"ack", "dlqAck"} /\ Acknowledge(current[c])
        BY <2>3, <1>1, AcknowledgeSettled
    <2>4. CASE pc[c] = "dlq" /\ AddDeadLetter(c)
        BY <2>4, <1>1, AddDeadLetterJustified
    <2>5. QED
        BY <2>1, <2>2, <2>3, <2>4 DEF ReplyLost
<1>3. HistoryTypeOK' /\ HistoryGrows
    BY <1>1, HistoryUntouched DEF Inv, TypeOK
<1>4. InstanceTypeOK' /\ OthersKeep(c) /\ batch'[c] = batch[c] /\ KnowledgeOf(c)'
    BY <1>1, <1>2, RecoverEffect, RecoverKnowledge
<1>5. QED
    BY <1>2, <1>3, <1>4, Assemble

\* The invariant is inductive: one case per action of the protocol.
LEMMA StepKeepsInv == Inv /\ [Next]_vars => Inv'
<1> SUFFICES ASSUME Inv, [Next]_vars PROVE Inv'
    OBVIOUS
<1>1. CASE AppendCommand
    BY <1>1, AppendKeepsInv
<1>2. CASE \E e \in Entries : BecomeIdle(e)
    BY <1>2, BecomeIdleKeepsInv
<1>3. ASSUME NEW c \in Consumers, Step(c) PROVE Inv'
    BY <1>3, EnsureGroupKeepsInv, ClaimBatchKeepsInv, ReadBatchKeepsInv,
        StartMessageKeepsInv, EndBatchKeepsInv, ProcessSucceedsKeepsInv,
        ProcessFailsKeepsInv, AckKeepsInv, CountDeliveriesKeepsInv,
        WriteDeadLetterKeepsInv, RestartKeepsInv
    DEF Step
<1>4. ASSUME NEW c \in Consumers, CallFails(c) \/ ReplyLost(c) \/ Crash(c) PROVE Inv'
    BY <1>4, CallFailsKeepsInv, ReplyLostKeepsInv, CrashKeepsInv
<1>5. CASE UNCHANGED vars
    <2> USE <1>5 DEF vars, redis, instance, history
    <2>1. RedisTypeOK' /\ InstanceTypeOK' /\ HistoryTypeOK'
        BY DEF Inv, TypeOK, RedisTypeOK, InstanceTypeOK, HistoryTypeOK
    <2>2. Order' /\ Knowledge'
        BY DEF Inv, Order, StreamOrder, BatchOrder, Knowledge, KnowledgeOf, DeadEntries
    <2>3. SettledBeforeRetired' /\ DeadLetterJustified'
        BY DEF Inv, SettledBeforeRetired, Retired, Completed, DeadEntries, DeadLetterJustified
    <2>4. QED
        BY <2>1, <2>2, <2>3 DEF Inv, TypeOK
<1>6. QED
    BY <1>1, <1>2, <1>3, <1>4, <1>5 DEF Next

------------------------------------------------------------------------------
(* How often an entry is delivered, and how often it is executed.          *)
(*                                                                         *)
(* Neither bound is inductive: both follow from counting the instances     *)
(* that hold the entry.  From MaxAttempts on, an instance lets an entry go *)
(* only by retiring it or in a fault, so every later delivery is that of   *)
(* an instance which still holds it, or was paid for with a fault.         *)

\* The instances that have e in their batch or are handling it.
Holders(e) == {c \in Consumers : e \in batch[c] \/ (pc[c] \in Handling /\ current[c] = e)}

\* Those that are executing e or will.
Executing(e) == {c \in Consumers : e \in batch[c] \/ (pc[c] = "process" /\ current[c] = e)}

\* Those that have executed e and not acknowledged it.
Finishing(e) == {c \in Consumers : pc[c] = "ack" /\ current[c] = e}

\* No instance holds an entry twice, or any before its first call.
HeldOnceBy(c) ==
    /\ pc[c] \in {"down", "group", "call"} => batch[c] = {}
    /\ pc[c] \in Handling => current[c] \notin batch[c]

HeldOnce == \A c \in Consumers : HeldOnceBy(c)

RedeliveryOf(e) ==
    /\ e \notin Retired => deliveries[e] <= (MaxAttempts - 1) + Cardinality(Holders(e)) + faults
    /\ deliveries[e] <= MaxAttempts + (Cardinality(Consumers) - 1) + faults

ExecutionOf(e) ==
    /\ e \notin Retired => completions[e] <= Cardinality(Finishing(e)) + faults
    /\ completions[e] + Cardinality(Executing(e)) <= Cardinality(Consumers) + faults

Bounded == HeldOnce /\ \A e \in Entries : RedeliveryOf(e) /\ ExecutionOf(e)

\* One member more or less changes a cardinality by one.
LEMMA OneMember ==
    ASSUME NEW S, NEW T, NEW c, IsFiniteSet(S), IsFiniteSet(T), \A d : d # c => (d \in S <=> d \in T)
    PROVE  /\ Cardinality(S) \in Nat /\ Cardinality(T) \in Nat
           /\ (c \in S <=> c \in T) => Cardinality(T) = Cardinality(S)
           /\ c \in S /\ c \notin T => Cardinality(T) = Cardinality(S) - 1
           /\ c \notin S /\ c \in T => Cardinality(T) = Cardinality(S) + 1
<1>1. Cardinality(S) \in Nat /\ Cardinality(T) \in Nat
    BY FS_CardinalityType
<1>2. (c \in S <=> c \in T) => T = S
    OBVIOUS
<1>3. ASSUME c \in S, c \notin T PROVE Cardinality(T) = Cardinality(S) - 1
    <2>1. T = S \ {c}
        BY <1>3
    <2>2. QED
        BY <1>3, <2>1, FS_RemoveElement
<1>4. ASSUME c \notin S, c \in T PROVE Cardinality(T) = Cardinality(S) + 1
    <2>1. T = S \union {c}
        BY <1>4
    <2>2. QED
        BY <1>4, <2>1, FS_AddElement
<1>5. QED
    BY <1>1, <1>2, <1>3, <1>4

\* A set of instances has at most all of them, two disjoint ones together too.
LEMMA SomeConsumers ==
    ASSUME NEW S \in SUBSET Consumers
    PROVE  /\ IsFiniteSet(S) /\ Cardinality(S) \in Nat /\ Cardinality(Consumers) \in Nat
           /\ Cardinality(S) <= Cardinality(Consumers)
           /\ \A T \in SUBSET Consumers :
                S \cap T = {} => Cardinality(S) + Cardinality(T) <= Cardinality(Consumers)
<1>1. /\ IsFiniteSet(S) /\ Cardinality(S) \in Nat /\ Cardinality(Consumers) \in Nat
      /\ Cardinality(S) <= Cardinality(Consumers)
    BY StreamAssumption, FS_Subset, FS_CardinalityType
<1>2. ASSUME NEW T \in SUBSET Consumers, S \cap T = {}
      PROVE  Cardinality(S) + Cardinality(T) <= Cardinality(Consumers)
    <2>1. IsFiniteSet(T) /\ IsFiniteSet(S \union T) /\ Cardinality(S \union T) <= Cardinality(Consumers)
        BY StreamAssumption, FS_Subset
    <2>2. Cardinality(S \union T) = Cardinality(S) + Cardinality(T)
        <3>1. Cardinality(S \cap T) = 0
            BY <1>2, FS_EmptySet
        <3>2. Cardinality(S \union T) = Cardinality(S) + Cardinality(T) - Cardinality(S \cap T)
            BY <1>1, <2>1, FS_Union
        <3>3. Cardinality(S) \in Nat /\ Cardinality(T) \in Nat
            BY <1>1, <2>1, FS_CardinalityType
        <3>4. QED
            BY <3>1, <3>2, <3>3
    <2>3. QED
        BY <2>1, <2>2
<1>3. QED
    BY <1>1, <1>2

\* A step of c counts at most c itself in or out.
LEMMA CountsMove ==
    ASSUME NEW c \in Consumers, OthersKeep(c), NEW e
    PROVE  LET H == Holders(e)
               E == Executing(e)
               F == Finishing(e)
           IN  /\ H \in SUBSET Consumers /\ E \in SUBSET Consumers /\ F \in SUBSET Consumers
               /\ H' \in SUBSET Consumers /\ E' \in SUBSET Consumers /\ F' \in SUBSET Consumers
               /\ \A d : d # c => (d \in H' <=> d \in H) /\ (d \in E' <=> d \in E) /\ (d \in F' <=> d \in F)
BY DEF Holders, Executing, Finishing, OthersKeep

\* The numbers are numbers, before a step of c and after it.
LEMMA Numbers ==
    ASSUME Inv, Inv', NEW e \in Entries
    PROVE  /\ deliveries[e] \in Nat /\ deliveries'[e] \in Nat /\ faults \in Nat /\ faults' \in Nat
           /\ completions[e] \in Nat /\ completions'[e] \in Nat
           /\ MaxAttempts \in Nat \ {0} /\ Cardinality(Consumers) \in Nat
BY StreamAssumption, FS_CardinalityType DEF Inv, TypeOK, RedisTypeOK, HistoryTypeOK

\* A step of c keeps the bound on deliveries, if c lets e go only for one of the
\* three reasons the code has, and takes it only as one delivery of its own.
LEMMA RedeliveryStep ==
    ASSUME Inv, Inv', NEW c \in Consumers, OthersKeep(c), NEW e \in Entries, RedeliveryOf(e),
           faults' \in {faults, faults + 1},
           e \in Retired => e \in Retired' /\ deliveries'[e] = deliveries[e],
           \/ /\ deliveries'[e] = deliveries[e]
              /\ c \in Holders(e) /\ c \notin Holders(e)' =>
                   faults' = faults + 1 \/ e \in Retired' \/ deliveries[e] < MaxAttempts
           \/ /\ deliveries'[e] <= deliveries[e] + 1
              /\ c \notin Holders(e)
              /\ faults' = faults + 1 \/ c \in Holders(e)'
    PROVE  RedeliveryOf(e)'
<1> DEFINE H == Cardinality(Holders(e))
           I == Cardinality(Holders(e)')
<1>1. /\ H \in Nat /\ I \in Nat /\ I <= Cardinality(Consumers)
      /\ (c \in Holders(e) <=> c \in Holders(e)') => I = H
      /\ c \in Holders(e) /\ c \notin Holders(e)' => I = H - 1
      /\ c \notin Holders(e) /\ c \in Holders(e)' => I = H + 1
    BY CountsMove, SomeConsumers, OneMember
<1> HIDE DEF H, I
<1>2. /\ e \notin Retired => deliveries[e] <= (MaxAttempts - 1) + H + faults
      /\ deliveries[e] <= MaxAttempts + (Cardinality(Consumers) - 1) + faults
    BY DEF RedeliveryOf, H
<1>3. e \notin Retired' => deliveries'[e] <= (MaxAttempts - 1) + I + faults'
    BY <1>1, <1>2, Numbers
<1>4. deliveries'[e] <= MaxAttempts + (Cardinality(Consumers) - 1) + faults'
    <2>1. CASE e \notin Retired'
        BY <1>1, <1>3, <2>1, Numbers
    <2>2. CASE e \in Retired' /\ deliveries'[e] = deliveries[e]
        BY <1>2, <2>2, Numbers
    <2>3. CASE e \notin Retired /\ deliveries'[e] <= deliveries[e] + 1 /\ c \notin Holders(e)
               /\ (faults' = faults + 1 \/ c \in Holders(e)')
        BY <1>1, <1>2, <2>3, Numbers
    <2>4. QED
        BY <2>1, <2>2, <2>3
<1>5. QED
    BY <1>3, <1>4 DEF RedeliveryOf, I

\* A step of c keeps the bound on executions, if c stops waiting to acknowledge e
\* only by retiring it or in a fault, and nobody takes up a retired entry.
LEMMA ExecutionStep ==
    ASSUME Inv, Inv', HeldOnce', NEW c \in Consumers, OthersKeep(c), NEW e \in Entries, ExecutionOf(e),
           faults' \in {faults, faults + 1},
           e \in Retired => e \in Retired',
           e \in Retired' => (c \in Executing(e)' => c \in Executing(e)),
           c \in Finishing(e) /\ c \notin Finishing(e)' => faults' = faults + 1 \/ e \in Retired',
           \/ completions'[e] = completions[e]
           \/ /\ completions'[e] = completions[e] + 1
              /\ c \in Executing(e) /\ c \notin Executing(e)'
              /\ c \notin Finishing(e) /\ c \in Finishing(e)'
    PROVE  ExecutionOf(e)'
<1> DEFINE F == Cardinality(Finishing(e))
           G == Cardinality(Finishing(e)')
           X == Cardinality(Executing(e))
           Y == Cardinality(Executing(e)')
<1>1. /\ F \in Nat /\ G \in Nat
      /\ (c \in Finishing(e) <=> c \in Finishing(e)') => G = F
      /\ c \in Finishing(e) /\ c \notin Finishing(e)' => G = F - 1
      /\ c \notin Finishing(e) /\ c \in Finishing(e)' => G = F + 1
    BY CountsMove, SomeConsumers, OneMember
<1>2. /\ X \in Nat /\ Y \in Nat
      /\ (c \in Executing(e) <=> c \in Executing(e)') => Y = X
      /\ c \in Executing(e) /\ c \notin Executing(e)' => Y = X - 1
    BY CountsMove, SomeConsumers, OneMember
<1>3. G + Y <= Cardinality(Consumers)
    <2>1. Finishing(e)' \cap Executing(e)' = {}
        BY DEF Finishing, Executing, HeldOnce, HeldOnceBy, Handling
    <2>2. QED
        BY <2>1, CountsMove, SomeConsumers
<1> HIDE DEF F, G, X, Y
<1>4. /\ e \notin Retired => completions[e] <= F + faults
      /\ completions[e] + X <= Cardinality(Consumers) + faults
    BY DEF ExecutionOf, F, X
<1>5. e \notin Retired' => completions'[e] <= G + faults'
    BY <1>1, <1>4, Numbers
<1>6. completions'[e] + Y <= Cardinality(Consumers) + faults'
    <2>1. CASE e \notin Retired'
        BY <1>1, <1>2, <1>3, <1>5, <2>1, Numbers
    <2>2. CASE e \in Retired'
        BY <1>2, <1>4, <2>2, Numbers
    <2>3. QED
        BY <2>1, <2>2
<1>7. QED
    BY <1>5, <1>6 DEF ExecutionOf, G, Y

\* The actions of instance c, faults included.
Acts(c) == Step(c) \/ CallFails(c) \/ ReplyLost(c) \/ Crash(c)

\* An instance changes its own variables only.
LEMMA ActsAlone ==
    ASSUME Inv, NEW c \in Consumers, Acts(c)
    PROVE  OthersKeep(c)
<1>1. CASE Step(c)
    <2>1. CASE StartMessage(c)
        BY <2>1 DEF StartMessage, Goto, OthersKeep, Inv, TypeOK, InstanceTypeOK
    <2>2. CASE CountDeliveries(c)
        BY <2>2 DEF CountDeliveries, Release, Goto, OthersKeep, Inv, TypeOK, InstanceTypeOK
    <2>3. CASE Ack(c) \/ AckDeadLetter(c)
        BY <2>3 DEF Ack, AckDeadLetter, Release, Goto, OthersKeep, Inv, TypeOK, InstanceTypeOK
    <2>4. QED
        BY <1>1, <2>1, <2>2, <2>3
        DEF Step, EnsureGroup, ClaimBatch, ReadBatch, EndBatch, ProcessSucceeds, ProcessFails, WriteDeadLetter,
            Restart, Goto, OthersKeep, Inv, TypeOK, InstanceTypeOK
<1>2. CASE CallFails(c) \/ ReplyLost(c)
    BY <1>2, RecoverEffect DEF CallFails, ReplyLost
<1>3. CASE Crash(c)
    BY <1>3 DEF Crash, Goto, OthersKeep, Inv, TypeOK, InstanceTypeOK
<1>4. QED
    BY <1>1, <1>2, <1>3 DEF Acts

\* Where an instance has gone, and what of its batch and its message it has left.
LEMMA LocalEffect ==
    ASSUME Inv, NEW c \in Consumers, Acts(c)
    PROVE  \* it waits for its first call or for the next
           \/ /\ pc[c] \in {"down", "group", "call", "handle"} /\ pc'[c] \in {"group", "call"}
              /\ pc[c] = "handle" => batch[c] = {}
              /\ batch'[c] = batch[c]
           \* it has its batch
           \/ pc[c] = "call" /\ pc'[c] = "handle"
           \* it has taken a message
           \/ /\ pc[c] = "handle" /\ pc'[c] \in {"process", "count"}
              /\ current'[c] \in batch[c] /\ batch'[c] = batch[c] \ {current'[c]}
           \* it goes on with the message
           \/ /\ pc[c] \in Handling /\ pc'[c] \in Handling \ {"process"}
              /\ current'[c] = current[c] /\ batch'[c] = batch[c]
           \* it is done with the message
           \/ pc[c] \in Handling /\ pc'[c] = "handle" /\ batch'[c] = batch[c]
           \* it has died
           \/ pc'[c] = "down" /\ batch'[c] = {}
<1>0. Inv => /\ pc \in [Consumers -> PC] /\ current \in [Consumers -> Entries \union {NoEntry}]
             /\ batch \in [Consumers -> SUBSET Entries]
    BY DEF Inv, TypeOK, InstanceTypeOK
<1> USE DEF Goto, Handling
<1>1. CASE EnsureGroup(c) \/ EndBatch(c) \/ Restart(c)
    BY <1>0, <1>1 DEF EnsureGroup, EndBatch, Restart
<1>2. CASE ClaimBatch(c) \/ ReadBatch(c)
    BY <1>0, <1>2 DEF ClaimBatch, ReadBatch
<1>3. CASE StartMessage(c)
    BY <1>0, <1>3 DEF StartMessage
<1>4. CASE ProcessSucceeds(c) \/ ProcessFails(c) \/ WriteDeadLetter(c)
    BY <1>0, <1>4 DEF ProcessSucceeds, ProcessFails, WriteDeadLetter
<1>5. CASE Ack(c) \/ AckDeadLetter(c)
    BY <1>0, <1>5 DEF Ack, AckDeadLetter, Release
<1>6. CASE CountDeliveries(c)
    BY <1>0, <1>6 DEF CountDeliveries, Release
<1>7. CASE CallFails(c) \/ ReplyLost(c)
    <2>1. Recover(c)
        BY <1>7 DEF CallFails, ReplyLost
    <2>2. QED
        BY <1>0, <2>1 DEF Recover, Release, instance
<1>8. CASE Crash(c)
    BY <1>0, <1>8 DEF Crash
<1>9. QED
    BY <1>1, <1>2, <1>3, <1>4, <1>5, <1>6, <1>7, <1>8 DEF Acts, Step

\* No instance ever holds an entry twice.
LEMMA HeldOnceKept ==
    ASSUME Inv, HeldOnce, [Next]_vars
    PROVE  HeldOnce'
<1>1. ASSUME UNCHANGED instance PROVE HeldOnce'
    BY <1>1 DEF HeldOnce, HeldOnceBy, instance
<1>2. ASSUME NEW c \in Consumers, Acts(c) PROVE HeldOnce'
    <2>1. HeldOnceBy(c)'
        BY <1>2, LocalEffect DEF HeldOnce, HeldOnceBy, Handling
    <2>2. \A d \in Consumers \ {c} : HeldOnceBy(d)'
        BY <1>2, ActsAlone DEF HeldOnce, HeldOnceBy, OthersKeep
    <2>3. QED
        BY <2>1, <2>2 DEF HeldOnce
<1>3. QED
    BY <1>1, <1>2 DEF Next, AppendCommand, BecomeIdle, Acts, vars

\* What the calls to Redis do to one entry: nothing takes a retired entry back,
\* or counts another delivery of it.
LEMMA CallEffect ==
    ASSUME Inv, NEW e \in Entries
    PROVE  /\ UNCHANGED <<lastDelivered, pending, deliveries>> =>
                /\ Retired' = Retired /\ deliveries'[e] = deliveries[e]
           /\ ClaimIdle => /\ Retired' = Retired
                           /\ deliveries'[e] = deliveries[e] + (IF e \in Claimable THEN 1 ELSE 0)
                           /\ e \in Retired => e \notin Claimable
           /\ DeliverFresh => /\ Retired' = Retired
                              /\ deliveries'[e] = IF e \in Fresh THEN 1 ELSE deliveries[e]
                              /\ e \in Retired => e \notin Fresh
           /\ \A f : Acknowledge(f) => /\ e \in Retired => e \in Retired'
                                       /\ e = f /\ e \in 1..lastDelivered => e \in Retired'
                                       /\ deliveries'[e] = deliveries[e]
<1>1. RedisTypeOK /\ StreamOrder /\ lastDelivered \in Nat
    BY StreamAssumption DEF Inv, TypeOK, Order, RedisTypeOK
<1>2. ASSUME ClaimIdle
      PROVE  /\ Retired' = Retired
             /\ deliveries'[e] = deliveries[e] + (IF e \in Claimable THEN 1 ELSE 0)
             /\ e \in Retired => e \notin Claimable
    <2>1. Claimable \subseteq pending
        BY <1>1 DEF Claimable, FirstOf, RedisTypeOK
    <2>2. QED
        BY <1>1, <1>2, <2>1, ClaimIdleEffect DEF ClaimIdle, Retired
<1>3. ASSUME DeliverFresh
      PROVE  /\ Retired' = Retired
             /\ deliveries'[e] = IF e \in Fresh THEN 1 ELSE deliveries[e]
             /\ e \in Retired => e \notin Fresh
    <2>1. e \in 1..lastDelivered => e \notin Fresh
        BY <1>1 DEF Fresh
    <2>2. QED
        BY <1>1, <1>3, <2>1, DeliverFreshEffect DEF DeliverFresh, Retired
<1>4. ASSUME NEW f, Acknowledge(f)
      PROVE  /\ e \in Retired => e \in Retired'
             /\ e = f /\ e \in 1..lastDelivered => e \in Retired'
             /\ deliveries'[e] = deliveries[e]
    BY <1>4 DEF Acknowledge, Retired
<1>5. QED
    BY <1>2, <1>3, <1>4 DEF Retired

\* An instance that does not hold e does not wait to acknowledge it, nor executes it.
LEMMA OnlyHolders ==
    ASSUME NEW c \in Consumers, NEW e, c \notin Holders(e)
    PROVE  c \notin Finishing(e) /\ c \notin Executing(e)
BY DEF Holders, Finishing, Executing, Handling

\* A fault pays for the delivery it adds, and for the entry it lets go.
LEMMA FaultBounded ==
    ASSUME Inv, Inv', HeldOnce, HeldOnce', NEW c \in Consumers, CallFails(c) \/ ReplyLost(c) \/ Crash(c),
           NEW e \in Entries, RedeliveryOf(e), ExecutionOf(e)
    PROVE  RedeliveryOf(e)' /\ ExecutionOf(e)'
<1>1. OthersKeep(c) /\ faults' = faults + 1 /\ completions' = completions
    BY ActsAlone DEF Acts, CallFails, ReplyLost, Crash, Fault
<1>2. c \in Executing(e)' => c \in Executing(e)
    <2>1. CASE Recover(c)
        BY <2>1, RecoverEffect DEF Executing, Handling
    <2>2. CASE Crash(c)
        BY <2>2 DEF Crash, Goto, Executing, Inv, TypeOK, InstanceTypeOK
    <2>3. QED
        BY <2>1, <2>2 DEF CallFails, ReplyLost
<1>3. CASE Retired' = Retired /\ deliveries'[e] = deliveries[e]
    BY <1>1, <1>2, <1>3, RedeliveryStep, ExecutionStep
<1>4. CASE pc[c] = "call" /\ (ClaimIdle \/ DeliverFresh)
    <2>1. c \notin Holders(e)
        BY <1>4 DEF HeldOnce, HeldOnceBy, Holders, Handling
    <2>2. /\ Retired' = Retired /\ deliveries'[e] <= deliveries[e] + 1
          /\ e \in Retired => deliveries'[e] = deliveries[e]
        BY <1>4, CallEffect, Numbers
    <2>3. QED
        BY <1>1, <1>2, <2>1, <2>2, RedeliveryStep, ExecutionStep
<1>5. CASE Acknowledge(current[c])
    <2>1. deliveries'[e] = deliveries[e] /\ (e \in Retired => e \in Retired')
        BY <1>5, CallEffect
    <2>2. QED
        BY <1>1, <1>2, <2>1, RedeliveryStep, ExecutionStep
<1>6. CASE UNCHANGED <<lastDelivered, pending, deliveries>>
    BY <1>3, <1>6, CallEffect
<1>7. QED
    BY <1>4, <1>5, <1>6 DEF CallFails, ReplyLost, Crash, AddDeadLetter, redis

\* A batch that c has claimed or read counts one delivery more, to c itself.
LEMMA BatchBounded ==
    ASSUME Inv, Inv', HeldOnce, HeldOnce', NEW c \in Consumers, ClaimBatch(c) \/ ReadBatch(c),
           NEW e \in Entries, RedeliveryOf(e), ExecutionOf(e)
    PROVE  RedeliveryOf(e)' /\ ExecutionOf(e)'
<1>1. OthersKeep(c) /\ faults' = faults /\ completions' = completions
    BY ActsAlone DEF Acts, Step, ClaimBatch, ReadBatch, history
<1>2. c \notin Holders(e) /\ c \notin Finishing(e) /\ c \notin Executing(e)
    BY OnlyHolders DEF ClaimBatch, ReadBatch, HeldOnce, HeldOnceBy, Holders, Handling
<1>3. PICK B \in {Claimable, Fresh} :
        /\ batch' = [batch EXCEPT ![c] = B] /\ pc'[c] = "handle" /\ Retired' = Retired
        /\ e \in Retired => e \notin B
        /\ e \notin B => deliveries'[e] = deliveries[e]
        /\ deliveries'[e] <= deliveries[e] + 1
    BY CallEffect, Numbers DEF ClaimBatch, ReadBatch, Goto, Inv, TypeOK, InstanceTypeOK
<1>4. c \in Holders(e)' <=> e \in B
    BY <1>3 DEF Holders, Handling, Inv, TypeOK, InstanceTypeOK
<1>5. c \in Executing(e)' <=> e \in B
    BY <1>3 DEF Executing, Inv, TypeOK, InstanceTypeOK
<1>6. RedeliveryOf(e)'
    BY <1>1, <1>2, <1>3, <1>4, RedeliveryStep
<1>7. ExecutionOf(e)'
    BY <1>1, <1>2, <1>3, <1>5, ExecutionStep
<1>8. QED
    BY <1>6, <1>7

\* The other steps of an instance: it lets an entry go only below MaxAttempts, or retired.
LEMMA StepBounded ==
    ASSUME Inv, Inv', HeldOnce, HeldOnce', NEW c \in Consumers, Step(c),
           NEW e \in Entries, RedeliveryOf(e), ExecutionOf(e)
    PROVE  RedeliveryOf(e)' /\ ExecutionOf(e)'
<1>1. OthersKeep(c)
    BY ActsAlone DEF Acts
<1>2. /\ pc \in [Consumers -> PC] /\ current \in [Consumers -> Entries \union {NoEntry}]
      /\ batch \in [Consumers -> SUBSET Entries] /\ completions \in [Entries -> Nat]
    BY DEF Inv, TypeOK, InstanceTypeOK, HistoryTypeOK
<1>3. HeldOnceBy(c) /\ (pc[c] \in Handling => current[c] \in 1..lastDelivered)
    BY DEF HeldOnce, Inv, Knowledge, KnowledgeOf
\* Redis and the history as they were.
<1>4. ASSUME UNCHANGED <<lastDelivered, pending, deliveries, completions, faults>>,
             c \in Holders(e) /\ c \notin Holders(e)' => e \in Retired \/ deliveries[e] < MaxAttempts,
             c \in Executing(e)' => c \in Executing(e),
             c \in Finishing(e) => c \in Finishing(e)'
      PROVE  RedeliveryOf(e)' /\ ExecutionOf(e)'
    BY <1>1, <1>4, CallEffect, RedeliveryStep, ExecutionStep
<1>5. CASE EnsureGroup(c) \/ Restart(c) \/ EndBatch(c)
    <2>1. UNCHANGED <<lastDelivered, pending, deliveries, completions, faults>>
        BY <1>5 DEF EnsureGroup, Restart, EndBatch, redis, history
    <2>2. c \notin Holders(e)
        BY <1>3, <1>5 DEF EnsureGroup, Restart, EndBatch, HeldOnceBy, Holders, Handling
    <2>3. c \notin Executing(e)'
        BY <1>2, <1>3, <1>5 DEF EnsureGroup, Restart, EndBatch, HeldOnceBy, Executing, Goto
    <2>4. QED
        BY <1>4, <2>1, <2>2, <2>3, OnlyHolders
<1>6. CASE StartMessage(c)
    <2>1. PICK f \in batch[c] :
            /\ batch' = [batch EXCEPT ![c] = batch[c] \ {f}] /\ current' = [current EXCEPT ![c] = f]
            /\ Goto(c, IF f \in malformed THEN "count" ELSE "process")
            /\ UNCHANGED <<redis, completions, faults>>
        BY <1>6 DEF StartMessage
    <2>2. c \in Holders(e) => c \in Holders(e)'
        BY <1>2, <1>6, <2>1 DEF StartMessage, Holders, Handling, Goto
    <2>3. (c \in Executing(e)' => c \in Executing(e)) /\ c \notin Finishing(e)
        BY <1>2, <1>6, <2>1 DEF StartMessage, Executing, Finishing, Goto
    <2>4. QED
        BY <1>4, <2>1, <2>2, <2>3 DEF redis
<1>7. CASE ProcessSucceeds(c)
    <2>1. /\ pc[c] = "process" /\ pc'[c] = "ack"
          /\ UNCHANGED <<lastDelivered, pending, deliveries, faults, batch, current>>
          /\ completions' = [completions EXCEPT ![current[c]] = completions[current[c]] + 1]
        BY <1>2, <1>7 DEF ProcessSucceeds, Goto, redis
    <2>2. c \in Holders(e) <=> c \in Holders(e)'
        BY <2>1 DEF Holders, Handling
    <2>3. CASE current[c] = e
        <3>1. completions'[e] = completions[e] + 1
            BY <1>2, <2>1, <2>3
        <3>2. c \in Executing(e) /\ c \notin Executing(e)' /\ c \notin Finishing(e) /\ c \in Finishing(e)'
            BY <1>3, <2>1, <2>3 DEF Executing, Finishing, HeldOnceBy, Handling
        <3>3. QED
            BY <1>1, <2>1, <2>2, <3>1, <3>2, CallEffect, RedeliveryStep, ExecutionStep
    <2>4. CASE current[c] # e
        <3>1. completions'[e] = completions[e]
            BY <1>2, <2>1, <2>4
        <3>2. (c \in Executing(e)' => c \in Executing(e)) /\ c \notin Finishing(e)
            BY <2>1, <2>4 DEF Executing, Finishing
        <3>3. QED
            BY <1>1, <2>1, <2>2, <3>1, <3>2, CallEffect, RedeliveryStep, ExecutionStep
    <2>5. QED
        BY <2>3, <2>4
<1>8. CASE ProcessFails(c) \/ WriteDeadLetter(c)
    <2>1. /\ pc[c] \in {"process", "dlq"} /\ pc'[c] \in {"count", "dlqAck"} /\ UNCHANGED <<batch, current>>
          /\ UNCHANGED <<lastDelivered, pending, deliveries, completions, faults>>
        BY <1>2, <1>8 DEF ProcessFails, WriteDeadLetter, AddDeadLetter, Goto, redis, history
    <2>2. /\ c \in Holders(e) => c \in Holders(e)'
          /\ c \in Executing(e)' => c \in Executing(e)
          /\ c \notin Finishing(e)
        BY <2>1 DEF Holders, Executing, Finishing, Handling
    <2>3. QED
        BY <1>4, <2>1, <2>2
<1>9. CASE Ack(c) \/ AckDeadLetter(c)
    <2>1. /\ pc[c] \in Handling /\ pc'[c] = "handle" /\ UNCHANGED <<batch, completions, faults>>
          /\ Acknowledge(current[c])
        BY <1>2, <1>9 DEF Ack, AckDeadLetter, Release, Goto, Handling, history
    <2>2. c \in Executing(e)' => c \in Executing(e)
        BY <2>1 DEF Executing
    <2>3. /\ deliveries'[e] = deliveries[e] /\ (e \in Retired => e \in Retired')
          /\ current[c] = e => e \in Retired'
        BY <1>3, <2>1, CallEffect
    <2>4. current[c] # e => (c \in Holders(e) <=> c \in Holders(e)') /\ c \notin Finishing(e)
        BY <2>1 DEF Holders, Finishing, Handling
    <2>5. QED
        BY <1>1, <2>1, <2>2, <2>3, <2>4, RedeliveryStep, ExecutionStep
<1>10. CASE CountDeliveries(c)
    <2>1. /\ pc[c] = "count" /\ pc'[c] \in {"dlq", "handle"} /\ UNCHANGED batch
          /\ UNCHANGED <<lastDelivered, pending, deliveries, completions, faults>>
          /\ pc'[c] = "handle" => DeliveryCount(current[c]) < MaxAttempts
          /\ pc'[c] = "dlq" => current'[c] = current[c]
        BY <1>2, <1>10, StreamAssumption
        DEF CountDeliveries, DeliveryCount, Release, Goto, redis, history, Inv, TypeOK, RedisTypeOK
    <2>2. (c \in Executing(e)' => c \in Executing(e)) /\ c \notin Finishing(e)
        BY <2>1 DEF Executing, Finishing
    <2>3. c \in Holders(e) /\ c \notin Holders(e)' => e = current[c] /\ pc'[c] = "handle"
        BY <2>1 DEF Holders, Handling
    <2>4. e = current[c] /\ pc'[c] = "handle" => e \in Retired \/ deliveries[e] < MaxAttempts
        BY <1>3, <2>1 DEF DeliveryCount, Retired, Handling
    <2>5. QED
        BY <1>4, <2>1, <2>2, <2>3, <2>4
<1>11. QED
    BY <1>5, <1>6, <1>7, <1>8, <1>9, <1>10, BatchBounded DEF Step

\* The counts are bounded in the first state, and stay so.
LEMMA BoundedInit == Init => Bounded
<1> SUFFICES ASSUME Init PROVE Bounded
    OBVIOUS
<1>1. HeldOnce
    BY DEF Init, HeldOnce, HeldOnceBy, Handling
<1>2. ASSUME NEW e \in Entries PROVE RedeliveryOf(e) /\ ExecutionOf(e)
    <2>1. Executing(e) = {}
        BY DEF Init, Executing
    <2>2. Holders(e) \in SUBSET Consumers /\ Finishing(e) \in SUBSET Consumers
        BY DEF Holders, Finishing
    <2>3. /\ Cardinality(Executing(e)) = 0 /\ Cardinality(Holders(e)) \in Nat
          /\ Cardinality(Finishing(e)) \in Nat /\ Cardinality(Consumers) \in Nat
        BY <2>1, <2>2, SomeConsumers, FS_EmptySet
    <2>4. deliveries[e] = 0 /\ completions[e] = 0 /\ faults = 0 /\ MaxAttempts \in Nat \ {0}
        BY StreamAssumption DEF Init
    <2>5. QED
        BY <2>3, <2>4 DEF RedeliveryOf, ExecutionOf
<1>3. QED
    BY <1>1, <1>2 DEF Bounded

LEMMA BoundedKept ==
    ASSUME Inv, Inv', Bounded, [Next]_vars
    PROVE  Bounded'
<1>1. HeldOnce /\ HeldOnce'
    BY HeldOnceKept DEF Bounded
<1>2. ASSUME NEW e \in Entries PROVE RedeliveryOf(e)' /\ ExecutionOf(e)'
    <2>0. RedeliveryOf(e) /\ ExecutionOf(e)
        BY DEF Bounded
    <2>1. CASE UNCHANGED <<lastDelivered, pending, deliveries, instance, history>>
        BY <2>0, <2>1 DEF RedeliveryOf, ExecutionOf, Retired, Holders, Executing, Finishing, instance, history
    <2>2. ASSUME NEW c \in Consumers, Acts(c) PROVE RedeliveryOf(e)' /\ ExecutionOf(e)'
        BY <1>1, <2>0, <2>2, StepBounded, FaultBounded DEF Acts
    <2>3. QED
        BY <2>1, <2>2 DEF Next, AppendCommand, BecomeIdle, Acts, vars, redis
<1>3. QED
    BY <1>1, <1>2 DEF Bounded

------------------------------------------------------------------------------
(* The theorems.                                                           *)

\* Inv holds in every reachable state: the stream's marks are in order, and
\* what an instance has established about its message stays true while the
\* others run (redisOrderStreamConsumer.js).
THEOREM Invariance == Spec => []Inv
BY InitInv, StepKeepsInv, PTL DEF Spec

\* Every variable keeps its type, for any number of instances, entries,
\* attempts and faults.
THEOREM TypeCorrect == Spec => []TypeOK
<1>1. Inv => TypeOK
    BY DEF Inv
<1>2. QED
    BY <1>1, Invariance, PTL

\* No command is dropped: whatever crashes or fails between processing, the
\* dead-letter XADD and the XACK of handleOrderStreamMessage, an entry leaves
\* the pending list only after it was completed or written to the dead-letter
\* stream.
THEOREM NothingDropped == Spec => []SettledBeforeRetired
<1>1. Inv => SettledBeforeRetired
    BY DEF Inv
<1>2. QED
    BY <1>1, Invariance, PTL

\* Every row of the dead-letter stream has its reason: the command did not
\* parse, or it was tried and its delivery counter had reached
\* ORDER_COMMAND_MAX_ATTEMPTS.
THEOREM DeadLettersJustified == Spec => []DeadLetterJustified
<1>1. Inv => DeadLetterJustified
    BY DEF Inv
<1>2. QED
    BY <1>1, Invariance, PTL

\* The retries of a failing command end: beyond ORDER_COMMAND_MAX_ATTEMPTS an entry
\* is delivered once more only to an instance while another still holds it, or
\* because a crash or a failed Redis call kept it pending (getDeliveryCount and
\* the choice after it, against XAUTOCLAIM of every other instance).
THEOREM RedeliveryEnds == Spec => []RedeliveryBounded
<1>1. Bounded => RedeliveryBounded
    BY DEF Bounded, RedeliveryOf, RedeliveryBounded
<1>2. QED
    BY <1>1, InitInv, StepKeepsInv, BoundedInit, BoundedKept, PTL DEF Spec

\* A command is executed to the end at most once by each instance, but for the
\* crashes and the failed Redis calls that came before its XACK.
THEOREM ExecutionsEnd == Spec => []ExecutionsBounded
<1>1. Bounded /\ Inv => ExecutionsBounded
    <2> SUFFICES ASSUME Bounded, Inv, NEW e \in Entries
                 PROVE  completions[e] <= Cardinality(Consumers) + faults
        BY DEF ExecutionsBounded
    <2>1. Cardinality(Executing(e)) \in Nat /\ Cardinality(Consumers) \in Nat
        BY SomeConsumers DEF Executing
    <2>2. completions[e] \in Nat /\ faults \in Nat
        BY StreamAssumption DEF Inv, TypeOK, HistoryTypeOK
    <2>3. completions[e] + Cardinality(Executing(e)) <= Cardinality(Consumers) + faults
        BY DEF Bounded, ExecutionOf
    <2>4. QED
        BY <2>1, <2>2, <2>3
<1>2. QED
    BY <1>1, InitInv, StepKeepsInv, BoundedInit, BoundedKept, PTL DEF Spec

------------------------------------------------------------------------------
(* The protocol implements CommandDelivery.                                *)

\* Each Redis effect, seen through the refinement mapping.
LEMMA RedisMaps ==
    ASSUME Inv, NEW c \in Consumers, UNCHANGED <<tries, completions>>,
           \/ UNCHANGED redis
           \/ ClaimIdle
           \/ DeliverFresh
           \/ pc[c] \in {"ack", "dlqAck"} /\ Acknowledge(current[c])
           \/ pc[c] = "dlq" /\ AddDeadLetter(c)
    PROVE  [Delivery!Next]_(Delivery!vars)
<1> USE DEF Delivery!Next, Delivery!vars
<1>1. Completed' = Completed /\ Attempted' = Attempted
    BY DEF Completed, Attempted
<1>2. CASE UNCHANGED redis \/ ClaimIdle \/ DeliverFresh
    <2>1. Retired' = Retired
        BY <1>2, StreamUntouched, ClaimIdleEffect, DeliverFreshEffect DEF Inv, TypeOK, Order
    <2>2. UNCHANGED <<length, malformed, dlq>>
        BY <1>2 DEF redis, ClaimIdle, DeliverFresh
    <2>3. QED
        BY <1>1, <2>1, <2>2 DEF DeadEntries
<1>3. CASE pc[c] \in {"ack", "dlqAck"} /\ Acknowledge(current[c])
    <2>1. /\ current[c] \in Entries /\ current[c] \in 1..lastDelivered
          /\ current[c] \in Completed \union DeadEntries
        <3>1. current[c] \in 1..lastDelivered /\ current[c] \in Entries
            BY <1>3, StreamAssumption
            DEF Inv, Knowledge, KnowledgeOf, Handling, TypeOK, RedisTypeOK, Entries
        <3>2. QED
            BY <1>3, <3>1 DEF Inv, Knowledge, KnowledgeOf, Completed
    <2>2. Retired' = Retired \union {current[c]} /\ UNCHANGED <<length, malformed, dlq>>
        BY <1>3, <2>1 DEF Acknowledge, Retired
    <2>3. Delivery!Retire(current[c])
        BY <1>1, <2>1, <2>2 DEF Delivery!Retire, DeadEntries
    <2>4. QED
        BY <2>1, <2>3 DEF Delivery!Entries, Entries
<1>4. CASE pc[c] = "dlq" /\ AddDeadLetter(c)
    <2>1. current[c] \in Entries /\ current[c] \in 1..lastDelivered /\ current[c] \in Attempted
        BY <1>4, StreamAssumption
        DEF Inv, Knowledge, KnowledgeOf, Handling, TypeOK, RedisTypeOK, Entries, Attempted
    <2>2. Retired' = Retired /\ DeadEntries' = DeadEntries \union {current[c]}
        BY <1>4, <2>1, AddDeadLetterEffect DEF Inv, TypeOK, InstanceTypeOK, Order
    <2>3. Delivery!DeadLetter(current[c])
        BY <1>1, <1>4, <2>1, <2>2 DEF Delivery!DeadLetter, AddDeadLetter
    <2>4. QED
        BY <2>1, <2>3 DEF Delivery!Entries, Entries
<1>5. QED
    BY <1>2, <1>3, <1>4

\* The backend's XADD is Accept.
LEMMA AppendMaps ==
    ASSUME Inv, AppendCommand PROVE [Delivery!Next]_(Delivery!vars)
<1>1. length + 1 \in Entries /\ length \in Nat
    BY StreamAssumption DEF Inv, TypeOK, RedisTypeOK, AppendCommand, Entries
<1>2. 1..length' = (1..length) \union {length + 1} /\ length + 1 \notin 1..length
    BY <1>1 DEF AppendCommand
<1>3. /\ malformed' \in {malformed, malformed \union {length + 1}}
      /\ Completed' = Completed /\ Attempted' = Attempted
      /\ DeadEntries' = DeadEntries /\ Retired' = Retired
    BY DEF AppendCommand, history, Completed, Attempted, DeadEntries, Retired
<1>4. Delivery!Accept(length + 1)
    BY <1>2, <1>3 DEF Delivery!Accept
<1>5. QED
    BY <1>1, <1>4 DEF Delivery!Next, Delivery!Entries, Entries

\* Taking a message is Attempt.
LEMMA StartMessageMaps ==
    ASSUME Inv, NEW c \in Consumers, StartMessage(c) PROVE [Delivery!Next]_(Delivery!vars)
<1>1. PICK e \in batch[c] :
        tries' = [tries EXCEPT ![e] = @ + 1] /\ UNCHANGED <<redis, completions>>
    BY DEF StartMessage
<1>2. e \in Entries /\ e \in 1..lastDelivered
    BY DEF Inv, TypeOK, InstanceTypeOK, Order, BatchOrder
<1>3. e \in 1..length
    BY <1>2, StreamAssumption DEF Inv, TypeOK, RedisTypeOK, Order, StreamOrder
<1>4. Attempted' = Attempted \union {e}
    BY <1>1, <1>2 DEF Attempted, Inv, TypeOK, HistoryTypeOK
<1>5. Delivery!Attempt(e)
    BY <1>1, <1>3, <1>4 DEF Delivery!Attempt, redis, Completed, DeadEntries, Retired
<1>6. QED
    BY <1>2, <1>5 DEF Delivery!Next, Delivery!Entries, Entries

\* A processCommand that returns is Complete.
LEMMA ProcessSucceedsMaps ==
    ASSUME Inv, NEW c \in Consumers, ProcessSucceeds(c) PROVE [Delivery!Next]_(Delivery!vars)
<1> DEFINE e == current[c]
<1>1. e \in Entries /\ e \in Attempted /\ e \notin malformed
    BY StreamAssumption
    DEF ProcessSucceeds, Inv, Knowledge, KnowledgeOf, Handling, TypeOK, RedisTypeOK,
        Entries, Attempted
<1>2. completions' = [completions EXCEPT ![e] = @ + 1] /\ UNCHANGED <<redis, tries>>
    BY DEF ProcessSucceeds
<1> HIDE DEF e
<1>3. Completed' = Completed \union {e}
    BY <1>1, <1>2 DEF Completed, Inv, TypeOK, HistoryTypeOK
<1>4. Delivery!Complete(e)
    BY <1>1, <1>2, <1>3 DEF Delivery!Complete, redis, Attempted, DeadEntries, Retired
<1>5. QED
    BY <1>1, <1>4 DEF Delivery!Next, Delivery!Entries, Entries

\* The initial states map to the initial state of at-least-once delivery.
LEMMA InitMaps == Init => Delivery!Init
<1> SUFFICES ASSUME Init PROVE Delivery!Init
    OBVIOUS
<1>1. 1..length = {} /\ 1..lastDelivered = {} /\ DOMAIN dlq = {}
    BY DEF Init
<1>2. Completed = {} /\ Attempted = {}
    BY DEF Init, Completed, Attempted
<1>3. QED
    BY <1>1, <1>2 DEF Init, Delivery!Init, DeadEntries, Retired

\* Every step of the protocol is a step of at-least-once delivery, or a stutter.
LEMMA StepMaps == Inv /\ [Next]_vars => [Delivery!Next]_(Delivery!vars)
<1> SUFFICES ASSUME Inv, [Next]_vars PROVE [Delivery!Next]_(Delivery!vars)
    OBVIOUS
<1>1. CASE AppendCommand
    BY <1>1, AppendMaps
<1>2. CASE (\E e \in Entries : BecomeIdle(e)) \/ UNCHANGED vars
    <2>1. /\ UNCHANGED <<length, malformed, lastDelivered, pending, dlq, tries, completions>>
        BY <1>2 DEF BecomeIdle, history, vars, redis
    <2>2. QED
        BY <2>1 DEF Delivery!vars, Completed, Attempted, DeadEntries, Retired
<1>3. ASSUME NEW c \in Consumers, Step(c) \/ CallFails(c) \/ ReplyLost(c) \/ Crash(c)
      PROVE  [Delivery!Next]_(Delivery!vars)
    <2>1. CASE EnsureGroup(c)
        BY <2>1 DEF EnsureGroup, history, Delivery!vars, Completed, Attempted,
            DeadEntries, Retired
    <2>2. CASE StartMessage(c) \/ ProcessSucceeds(c)
        BY <2>2, StartMessageMaps, ProcessSucceedsMaps
    <2>3. CASE EndBatch(c) \/ ProcessFails(c) \/ CountDeliveries(c) \/ Restart(c)
        BY <2>3, RedisMaps DEF EndBatch, ProcessFails, CountDeliveries, Restart, history
    <2>4. CASE ClaimBatch(c) \/ ReadBatch(c)
        BY <2>4, RedisMaps DEF ClaimBatch, ReadBatch, history
    <2>5. CASE Ack(c) \/ AckDeadLetter(c) \/ WriteDeadLetter(c)
        BY <2>5, RedisMaps DEF Ack, AckDeadLetter, WriteDeadLetter, history
    <2>6. CASE CallFails(c) \/ Crash(c)
        BY <2>6, RedisMaps DEF CallFails, Crash
    <2>7. CASE ReplyLost(c)
        BY <2>7, RedisMaps DEF ReplyLost
    <2>8. QED
        BY <1>3, <2>1, <2>2, <2>3, <2>4, <2>5, <2>6, <2>7 DEF Step
<1>4. QED
    BY <1>1, <1>2, <1>3 DEF Next

\* The consumer group implements at-least-once delivery: every step of the
\* protocol, its faults included, accepts, attempts, completes, dead-letters
\* or retires one command as CommandDelivery allows, or changes nothing that
\* the services on its two ends can see.
THEOREM Implementation == Spec => ImplementsDelivery
BY InitMaps, InitInv, StepKeepsInv, StepMaps, PTL
DEF Spec, ImplementsDelivery, Delivery!Spec
==============================================================================
