------------------------------ MODULE AccountRequests ------------------------------
(***************************************************************************)
(* Requests for a user's balances: the page asks the event service over    *)
(* HTTP, which asks the execution service over two Redis channels, keeps   *)
(* the promise of each request in a map until it is answered or its timer  *)
(* fires, and has a cache like the execution service's, which asks Binance.*)
(*                                                                         *)
(* A promise that is rejected while its request is still being published,  *)
(* or after that publication failed, has no handler yet: Node then ends    *)
(* the process.  Whoever was waiting gets no answer, and the process is    *)
(* started again.                                                          *)
(*                                                                         *)
(* Abstractions.  A snapshot of the balances is the number of trades it    *)
(* reflects.  An entry of a cache may turn out too old whenever it is used.*)
(* A request is sent once, and a request that nobody hears just times out. *)
(* Where not even an error can be published, the execution service ends    *)
(* (ExecutionEnds).                                                        *)
(***************************************************************************)
EXTENDS UserStream

CONSTANTS
    Calls,         \* the page's requests
    MaxLoad,       \* bound on the requests and the trades together
    NoData         \* a cache has no entry

ASSUME CallsAssumption == IsFiniteSet(Calls) /\ MaxLoad \in Nat /\ NoData \notin Nat

VARIABLES
    calls,         \* the page's requests, as the event service knows them
    orphans,       \* pending: promises whose publication failed
    work,          \* what the execution service does for each request
    gatewayCache,  \* accountCache of the event service
    executionCache \* accountCache of the execution service

requests == <<calls, orphans, work, gatewayCache, executionCache>>

NoCall == [stage |-> "none", data |-> 0]
NoWork == [stage |-> "none", data |-> 0]
Asked == {n \in Calls : calls[n].stage # "none"}
HasRoom == Cardinality(Asked) + trades < MaxLoad
Outstanding == {n \in Calls : calls[n].stage \in {"publishing", "pending"}}

\* The page shows other balances, and only these requests were alone.
Show(version, still) == shown' = version /\ alone' = alone \intersect still

------------------------------------------------------------------------------
(* the event service                                                       *)

\* requestAccountInfo: from the cache, or registered, with a timer, before it
\* is published.  Nobody may hear the publication.
Ask(n) ==
    /\ calls[n].stage = "none" /\ HasRoom
    /\ \/ /\ gatewayCache # NoData
          /\ calls' = [calls EXCEPT ![n] = [stage |-> "answered", data |-> gatewayCache]]
          /\ UNCHANGED <<work, alone>>
       \/ /\ calls' = [calls EXCEPT ![n] = [stage |-> "publishing", data |-> 0]]
          /\ work' = [work EXCEPT ![n] = [stage |-> "requested", data |-> 0]]
          /\ alone' = alone \union {n}
    /\ UNCHANGED <<stream, shown, faults, slips, orphans, gatewayCache, executionCache>>

\* The publication returns, and the promise is awaited.
Published(n) ==
    /\ calls[n].stage = "publishing"
    /\ calls' = [calls EXCEPT ![n].stage = "pending"]
    /\ UNCHANGED <<stream, shown, alone, faults, slips, orphans, work, gatewayCache, executionCache>>

\* It fails, whether it was heard or not: the request is answered with an
\* error and its promise stays in the map.
PublishFails(n) ==
    /\ calls[n].stage = "publishing"
    /\ Fault
    /\ calls' = [calls EXCEPT ![n].stage = "failed"]
    /\ orphans' = orphans \union {n}
    /\ \/ UNCHANGED work
       \/ work[n].stage = "requested" /\ work' = [work EXCEPT ![n] = NoWork]
    /\ slips' = slips \union {"publish"}
    /\ UNCHANGED <<stream, shown, alone, gatewayCache, executionCache>>

\* Mutant: no promise has a handler.
HandledNever(n) == FALSE

\* The promise of a request has been awaited.
Handled(n) == calls[n].stage = "pending"

\* A promise is rejected.  With a handler its request fails; without one the
\* process ends, and with it every request, promise and cache entry.
Reject(n) ==
    IF Handled(n)
    THEN /\ calls' = [calls EXCEPT ![n].stage = "failed"]
         /\ UNCHANGED <<orphans, gatewayCache>>
    ELSE /\ calls' = [m \in Calls |-> IF m \in Outstanding \/ calls[m].stage = "answered"
                THEN [NoCall EXCEPT !.stage = "lost"] ELSE calls[m]]
         /\ orphans' = {} /\ gatewayCache' = NoData

\* Mutant: the timer is cleared when the publication returns.
ArmedUntilPublished(n) == n \in orphans

\* The timer runs until the promise is settled.
Armed(n) == calls[n].stage = "pending" \/ n \in orphans

\* The timer of a promise fires; while the publication is under way only if
\* that takes very long.
TimesOut(n) ==
    /\ \/ Armed(n) /\ UNCHANGED <<faults, slips>>
       \/ calls[n].stage = "publishing" /\ Fault /\ slips' = slips \union {"publish"}
    /\ Reject(n)
    /\ UNCHANGED <<stream, shown, alone, work, executionCache>>

\* Whose promise an answer settles: its id's.
Addressees(n) == (Outstanding \union orphans) \intersect {n}

\* An answer that is an error.
Refuse(n) ==
    IF Addressees(n) = {} THEN UNCHANGED <<calls, orphans, gatewayCache>> ELSE Reject(n)

\* Mutant: data is given to every request of the user.
ReceiversOfUser(n) == Outstanding

\* Which requests an answer with data ends.
Receivers(n) == Addressees(n) \intersect Outstanding

\* An answer with data: it is given to the request that waits for it, if one
\* still does, and it warms the cache in any case.
Answer(n, data) ==
    /\ calls' = [m \in Calls |-> IF m \in Receivers(n)
          THEN [stage |-> "answered", data |-> data] ELSE calls[m]]
    /\ orphans' = orphans \ Addressees(n)
    /\ gatewayCache' = data

------------------------------------------------------------------------------
(* the execution service                                                   *)

\* The request is answered from the cache; then the stream is started.
AnswerCached(n) ==
    /\ work[n].stage = "requested" /\ executionCache # NoData
    /\ Answer(n, executionCache)
    /\ work' = [work EXCEPT ![n] = NoWork]
    /\ alone' = alone \ {n}
    /\ Start
    /\ UNCHANGED <<trades, due, timers, reports, position, shown, faults, slips, executionCache>>

\* The stream is started, and Binance is asked.
BeginFetch(n) ==
    /\ work[n].stage = "requested"
    /\ work' = [work EXCEPT ![n].stage = "fetching"]
    /\ Start
    /\ UNCHANGED <<trades, due, timers, reports, position, shown, alone, faults, slips,
                   calls, orphans, gatewayCache, executionCache>>

\* Binance answers with what is true now.
Fetched(n) ==
    /\ work[n].stage = "fetching"
    /\ work' = [work EXCEPT ![n] = [stage |-> "fetched", data |-> trades]]
    /\ UNCHANGED <<stream, shown, alone, faults, slips, calls, orphans, gatewayCache, executionCache>>

\* The credential is missing, Binance fails, or the answer is not published once
\* its data is cached: an error is published instead.  It may overtake the return
\* of the publication that asked for it.
FetchFails(n) ==
    /\ \/ work[n].stage \in {"requested", "fetching"} /\ UNCHANGED executionCache
       \/ work[n].stage = "fetched" /\ executionCache' = work[n].data
    /\ Fault
    /\ work' = [work EXCEPT ![n] = NoWork]
    /\ Refuse(n)
    /\ slips' = slips \union (IF calls[n].stage = "publishing" THEN {"publish"} ELSE {})
    /\ UNCHANGED <<stream, shown, alone>>

\* The answer is published, and after it all balances, which the page hears
\* before its answer if it hears them.
Reply(n) ==
    /\ work[n].stage = "fetched"
    /\ work' = [work EXCEPT ![n] = NoWork]
    /\ executionCache' = work[n].data
    /\ Answer(n, work[n].data)
    /\ Show(work[n].data, {n}) \/ UNCHANGED <<shown, alone>>
    /\ UNCHANGED <<stream, faults, slips>>

\* A reconciliation cycle that touched the user publishes all balances, as
\* it fetched them a while ago.
ReconcilePublish ==
    /\ \E version \in 0..trades : Show(version, {})
    /\ UNCHANGED <<stream, faults, slips, requests>>

------------------------------------------------------------------------------
(* the page                                                                *)

\* fetchBalances gets its answer, or an error, which empties the list.
TakeAnswer(n) ==
    /\ calls[n].stage \in {"answered", "failed", "lost"}
    /\ calls' = [calls EXCEPT ![n] = [NoCall EXCEPT !.stage = "done"]]
    /\ Show(IF calls[n].stage = "answered" THEN calls[n].data ELSE 0, {})
    /\ UNCHANGED <<stream, faults, slips, orphans, work, gatewayCache, executionCache>>

RequestStep ==
    \/ \E n \in Calls :
          \/ Ask(n) \/ Published(n) \/ PublishFails(n) \/ TimesOut(n) \/ TakeAnswer(n)
          \/ AnswerCached(n) \/ BeginFetch(n) \/ Fetched(n) \/ FetchFails(n) \/ Reply(n)
    \/ ReconcilePublish

================================================================================
