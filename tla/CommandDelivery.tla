--------------------------- MODULE CommandDelivery ---------------------------
(***************************************************************************)
(* What the order command stream promises to the services on its two ends: *)
(* at-least-once delivery.  A command that the backend appended stays with *)
(* the execution service until it is retired, and it is retired only after *)
(* it has been completed or kept as a dead letter.  Nothing is promised    *)
(* about how often, or by how many instances, a command is executed.       *)
(*                                                                         *)
(* CommandStream, the consumer-group protocol of the execution service, is *)
(* shown to implement this specification.                                  *)
(***************************************************************************)
EXTENDS Naturals

CONSTANT MaxEntry            \* bound on the number of appended commands

Entries == 1..MaxEntry

VARIABLES
    accepted,                \* commands the backend has appended
    unreadable,              \* those of them that do not parse
    completed,               \* commands executed to the end at least once
    attempted,               \* commands whose handling has begun
    deadLettered,            \* commands kept on the dead-letter stream
    retired                  \* commands that will not be delivered again

vars == <<accepted, unreadable, completed, attempted, deadLettered, retired>>

Init ==
    /\ accepted = {} /\ unreadable = {} /\ completed = {}
    /\ attempted = {} /\ deadLettered = {} /\ retired = {}

Accept(e) ==
    /\ e \notin accepted
    /\ accepted' = accepted \union {e}
    /\ unreadable' \in {unreadable, unreadable \union {e}}
    /\ UNCHANGED <<completed, attempted, deadLettered, retired>>

Attempt(e) ==
    /\ e \in accepted
    /\ attempted' = attempted \union {e}
    /\ UNCHANGED <<accepted, unreadable, completed, deadLettered, retired>>

Complete(e) ==
    /\ e \in attempted \ unreadable
    /\ completed' = completed \union {e}
    /\ UNCHANGED <<accepted, unreadable, attempted, deadLettered, retired>>

DeadLetter(e) ==
    /\ e \in attempted
    /\ deadLettered' = deadLettered \union {e}
    /\ UNCHANGED <<accepted, unreadable, completed, attempted, retired>>

Retire(e) ==
    /\ e \in completed \union deadLettered
    /\ retired' = retired \union {e}
    /\ UNCHANGED <<accepted, unreadable, completed, attempted, deadLettered>>

Next ==
    \E e \in Entries :
        Accept(e) \/ Attempt(e) \/ Complete(e) \/ DeadLetter(e) \/ Retire(e)

\* Every accepted command is retired in the end.
Progress == \A e \in Entries : (e \in accepted) ~> (e \in retired)

Spec == Init /\ [][Next]_vars

FairSpec == Spec /\ Progress
==============================================================================
