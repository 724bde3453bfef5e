-------------------------- MODULE MarketStreamsProofs --------------------------
(***************************************************************************)
(* Proofs about MarketStreams, for any pages, entries and bound.           *)
(*                                                                         *)
(* The count of the registry is compared with two other numbers: the pages *)
(* that watch, which change one page at a time, and the posts on their     *)
(* way.  Inv is inductive because each action either keeps the two sides   *)
(* of both comparisons apart by the same amount or records the slip that   *)
(* excuses it; the bound on Claims keeps the three counters in their type. *)
(***************************************************************************)
EXTENDS MarketStreams, FiniteSetTheorems, TLAPS

ClaimsBounded == Claims <= MaxClaims

Inv ==
    /\ TypeOK
    /\ ClaimsBounded
    /\ RegisteredIsServed
    /\ OpenSocketsAreRegistered
    /\ WatchersAreCounted
    /\ WatchersAreReleased

------------------------------------------------------------------------------
(* counting the pages that watch                                           *)

\* The pages that watch can be counted, since there are finitely many pages.
LEMMA WatchersFinite ==
    IsFiniteSet(Watchers) /\ Cardinality(Watchers) \in Nat
<1>1. Watchers \subseteq Pages
  BY DEF Watchers
<1>2. IsFiniteSet(Watchers)
  BY <1>1, FS_Subset, StreamsAssumption
<1> QED
  BY <1>2, FS_CardinalityType

\* A page that begins to watch adds one to the count.
LEMMA WatcherJoins ==
    ASSUME TypeOK, NEW p \in Pages, p \notin Watchers, Move(p, "watching")
    PROVE  Cardinality(Watchers') = Cardinality(Watchers) + 1
<1>1. Watchers' = Watchers \union {p}
  BY DEF Watchers, Move, TypeOK
<1> QED
  BY <1>1, FS_AddElement, WatchersFinite

\* A page that leaves takes one from it, if it was watching.
LEMMA WatcherLeaves ==
    ASSUME TypeOK, NEW p \in Pages, Move(p, "away")
    PROVE  Cardinality(Watchers') =
             Cardinality(Watchers) - (IF p \in Watchers THEN 1 ELSE 0)
<1>1. Watchers' = Watchers \ {p}
  BY DEF Watchers, Move, TypeOK
<1>2. CASE p \in Watchers
  BY <1>1, <1>2, FS_RemoveElement, WatchersFinite
<1>3. CASE p \notin Watchers
  <2>1. Watchers' = Watchers
    BY <1>1, <1>3
  <2> QED
    BY <2>1, <1>3, WatchersFinite
<1> QED
  BY <1>2, <1>3

\* A page that moves between other states leaves the count alone.
LEMMA WatchersStay ==
    ASSUME TypeOK, NEW p \in Pages, NEW s, Move(p, s),
           p \in Watchers <=> s \in {"watching", "reconnecting"}
    PROVE  Watchers' = Watchers
  BY DEF Watchers, Move, TypeOK

------------------------------------------------------------------------------
(* the pages' actions                                                      *)

\* What an action of the pages keeps: the service does not move with it.
LEMMA ServiceUnchanged ==
    ASSUME Inv, UNCHANGED service, slips \subseteq slips'
    PROVE  /\ RegisteredIsServed'
           /\ OpenSocketsAreRegistered'
           /\ References' = References
  BY DEF Inv, RegisteredIsServed, OpenSocketsAreRegistered, service, References

\* References is a number no greater than the bound.
LEMMA ReferencesType ==
    ASSUME TypeOK PROVE References \in 0..MaxClaims
  BY StreamsAssumption DEF TypeOK, References, Entry

\* A post adds one to the posts of its kind; for a subscription this is a claim.
LEMMA PostCounts ==
    ASSUME Inv, NEW type \in {"subscribe", "unsubscribe"}, Post(type),
           UNCHANGED service
    PROVE  /\ posts' \in [{"subscribe", "unsubscribe"} -> 0..MaxClaims]
           /\ posts'["unsubscribe"] =
                posts["unsubscribe"] + (IF type = "unsubscribe" THEN 1 ELSE 0)
           /\ Claims' = Claims + (IF type = "subscribe" THEN 1 ELSE 0)
           /\ ClaimsBounded'
<1>1. References' = References /\ fetching' = fetching
  BY DEF References, service
<1>2. References \in Nat /\ fetching \in Nat
  BY ReferencesType, StreamsAssumption DEF Inv, TypeOK
<1>3. /\ posts \in [{"subscribe", "unsubscribe"} -> 0..MaxClaims]
      /\ posts[type] < MaxClaims
      /\ posts' = [posts EXCEPT ![type] = @ + 1]
      /\ type = "subscribe" => Claims < MaxClaims
  BY DEF Inv, TypeOK, Post
<1>4. posts' \in [{"subscribe", "unsubscribe"} -> 0..MaxClaims]
  BY <1>3, StreamsAssumption
<1>5. Claims' = Claims + (IF type = "subscribe" THEN 1 ELSE 0)
  BY <1>1, <1>2, <1>3 DEF Claims
<1>6. ClaimsBounded'
  <2>1. Claims \in Nat /\ Claims <= MaxClaims
    BY <1>2, <1>3 DEF Inv, ClaimsBounded, Claims
  <2> QED
    BY <2>1, <1>3, <1>5, StreamsAssumption DEF ClaimsBounded
<1> QED
  BY <1>3, <1>4, <1>5, <1>6

\* Every action of a page keeps the invariant.
LEMMA PageStepKeepsInv ==
    ASSUME Inv, NEW p \in Pages, PageStep(p)
    PROVE  Inv'
<1> DEFINE W == Cardinality(Watchers)
           U == posts["unsubscribe"]
<1>1. /\ TypeOK /\ ClaimsBounded /\ RegisteredIsServed
      /\ OpenSocketsAreRegistered /\ WatchersAreCounted /\ WatchersAreReleased
  BY DEF Inv
<1>2. W \in Nat /\ U \in Nat /\ Claims \in Nat
  BY <1>1, WatchersFinite, ReferencesType, StreamsAssumption
     DEF TypeOK, Claims
<1>3. /\ UNCHANGED <<kind, service>>
      /\ slips \subseteq slips'
      /\ slips' \subseteq {"under", "over", "orphan"}
      /\ page' \in [Pages -> PageStates]
  BY <1>1 DEF PageStep, OpenChart, ChartSocketOpens, ChartSocketCloses,
       ChartSocketReopens, Resubscribe, OpenDetail, Leave, PageDies, Slip,
       Move, TypeOK, PageStates
<1>4. RegisteredIsServed' /\ OpenSocketsAreRegistered' /\ References' = References
  BY <1>3, ServiceUnchanged DEF Inv
<1>5. ASSUME UNCHANGED posts
      PROVE  /\ posts' \in [{"subscribe", "unsubscribe"} -> 0..MaxClaims]
             /\ Claims' = Claims /\ U' = U /\ ClaimsBounded'
  BY <1>1, <1>3, <1>4, <1>5 DEF Claims, ClaimsBounded, TypeOK, service
<1>6. ASSUME posts' \in [{"subscribe", "unsubscribe"} -> 0..MaxClaims],
             ClaimsBounded', WatchersAreCounted', WatchersAreReleased'
      PROVE  Inv'
  BY <1>1, <1>3, <1>4, <1>6 DEF Inv, TypeOK, service
<1>7. CASE OpenChart(p) \/ ChartSocketCloses(p)
  <2>1. UNCHANGED <<posts, slips>>
    BY <1>7 DEF OpenChart, ChartSocketCloses
  <2>2. Watchers' = Watchers
    BY <1>1, <1>7, WatchersStay
       DEF OpenChart, ChartSocketCloses, Watchers
  <2> QED
    BY <1>1, <1>5, <1>6, <2>1, <2>2
       DEF WatchersAreCounted, WatchersAreReleased
<1>8. CASE ChartSocketOpens(p) \/ OpenDetail(p)
  <2>1. UNCHANGED slips /\ Post("subscribe")
    BY <1>8 DEF ChartSocketOpens, OpenDetail
  <2>2. Cardinality(Watchers') = W + 1
    BY <1>1, <1>8, WatcherJoins DEF ChartSocketOpens, OpenDetail, Watchers
  <2>3. U' = U /\ Claims' = Claims + 1 /\ ClaimsBounded'
        /\ posts' \in [{"subscribe", "unsubscribe"} -> 0..MaxClaims]
    BY <1>2, <1>3, <2>1, PostCounts
  <2> QED
    BY <1>1, <1>2, <1>6, <2>1, <2>2, <2>3
       DEF WatchersAreCounted, WatchersAreReleased
<1>9. CASE ChartSocketReopens(p) \/ Resubscribe(p)
  <2>1. slips' = slips \union {"over"} /\ Post("subscribe")
    BY <1>9 DEF ChartSocketReopens, Resubscribe, Slip
  <2>2. Watchers' = Watchers
    BY <1>1, <1>9, WatchersStay
       DEF ChartSocketReopens, Resubscribe, Watchers
  <2>3. U' = U /\ Claims' = Claims + 1 /\ ClaimsBounded'
        /\ posts' \in [{"subscribe", "unsubscribe"} -> 0..MaxClaims]
    BY <1>2, <1>3, <2>1, PostCounts
  <2> QED
    BY <1>1, <1>2, <1>6, <2>1, <2>2, <2>3
       DEF WatchersAreCounted, WatchersAreReleased
<1>10. CASE Leave(p)
  <2>1. /\ slips' = slips \union (IF page[p] = "opening" THEN {"under"} ELSE {})
        /\ Post("unsubscribe")
        /\ p \notin Watchers => page[p] = "opening"
    BY <1>1, <1>10 DEF Leave, Slip, Watchers, TypeOK, PageStates
  <2>2. Cardinality(Watchers') = W - (IF p \in Watchers THEN 1 ELSE 0)
    BY <1>1, <1>10, WatcherLeaves DEF Leave
  <2>3. U' = U + 1 /\ Claims' = Claims /\ ClaimsBounded'
        /\ posts' \in [{"subscribe", "unsubscribe"} -> 0..MaxClaims]
    BY <1>2, <1>3, <2>1, PostCounts
  <2> QED
    BY <1>1, <1>2, <1>6, <2>1, <2>2, <2>3
       DEF WatchersAreCounted, WatchersAreReleased
<1>11. CASE PageDies(p)
  <2>1. /\ slips' = slips \union (IF p \in Watchers THEN {"over"} ELSE {})
        /\ UNCHANGED posts
    BY <1>11 DEF PageDies, Slip
  <2>2. Cardinality(Watchers') = W - (IF p \in Watchers THEN 1 ELSE 0)
    BY <1>1, <1>11, WatcherLeaves DEF PageDies
  <2> QED
    BY <1>1, <1>2, <1>5, <1>6, <2>1, <2>2
       DEF WatchersAreCounted, WatchersAreReleased
<1> QED
  BY <1>7, <1>8, <1>9, <1>10, <1>11 DEF PageStep

------------------------------------------------------------------------------
(* the service's actions                                                   *)

\* What the three comparisons need of a step that no page takes.
LEMMA CountsFollow ==
    ASSUME Inv, TypeOK', UNCHANGED page,
           \/ /\ Claims' = Claims
              /\ \/ posts'["unsubscribe"] = posts["unsubscribe"]
                 \/ /\ posts'["unsubscribe"] = posts["unsubscribe"] - 1
                    /\ "over" \in slips'
           \/ /\ Claims' = Claims - 1
              /\ posts'["unsubscribe"] = posts["unsubscribe"] - 1
           \/ /\ Claims' <= Claims
              /\ posts'["unsubscribe"] = posts["unsubscribe"]
              /\ "under" \in slips',
           slips \subseteq slips'
    PROVE  ClaimsBounded' /\ WatchersAreCounted' /\ WatchersAreReleased'
<1>1. /\ TypeOK /\ ClaimsBounded /\ WatchersAreCounted /\ WatchersAreReleased
  BY DEF Inv
<1>2. /\ Watchers' = Watchers
      /\ Cardinality(Watchers) \in Nat
  BY WatchersFinite DEF Watchers
<1>3. Claims \in Nat /\ posts["unsubscribe"] \in Nat /\ MaxClaims \in Nat
  BY <1>1, ReferencesType, StreamsAssumption DEF TypeOK, Claims
<1>4. Claims' \in Nat /\ posts'["unsubscribe"] \in Nat
  <2>1. References' \in 0..MaxClaims
    BY StreamsAssumption DEF TypeOK, References, Entry
  <2> QED
    BY <2>1, <1>3 DEF TypeOK, Claims
<1>5. Claims' <= Claims
  BY <1>3
<1>6. ClaimsBounded'
  BY <1>1, <1>3, <1>4, <1>5 DEF ClaimsBounded
<1>7. WatchersAreCounted'
  BY <1>1, <1>2, <1>3, <1>4 DEF WatchersAreCounted
<1>8. WatchersAreReleased'
  BY <1>1, <1>2, <1>3, <1>4 DEF WatchersAreReleased
<1> QED
  BY <1>6, <1>7, <1>8

\* A lost post takes a claim or an unsubscription with it.
LEMMA PostIsLostKeepsInv ==
    ASSUME Inv, NEW type \in {"subscribe", "unsubscribe"}, PostIsLost(type)
    PROVE  Inv'
<1>1. /\ TypeOK /\ UNCHANGED <<kind, page, service>>
      /\ References' = References
  BY DEF Inv, PostIsLost, References, service
<1>2. posts' \in [{"subscribe", "unsubscribe"} -> 0..MaxClaims]
  BY <1>1, StreamsAssumption DEF PostIsLost, TypeOK
<1>3. TypeOK' /\ slips \subseteq slips'
  BY <1>1, <1>2 DEF PostIsLost, TypeOK, Slip, service
<1>4. RegisteredIsServed' /\ OpenSocketsAreRegistered'
  BY <1>1, <1>3, ServiceUnchanged
<1>5. fetching \in Nat /\ References \in Nat /\ posts[type] \in Nat
  BY <1>1, ReferencesType, StreamsAssumption DEF TypeOK
<1>6. CASE type = "subscribe"
  <2>1. /\ Claims' <= Claims /\ "under" \in slips'
        /\ posts'["unsubscribe"] = posts["unsubscribe"]
    BY <1>1, <1>5, <1>6 DEF PostIsLost, Claims, Slip, TypeOK, service
  <2> QED
    BY <1>1, <1>3, <1>4, <2>1, CountsFollow DEF Inv
<1>7. CASE type = "unsubscribe"
  <2>1. /\ Claims' = Claims /\ "over" \in slips'
        /\ posts'["unsubscribe"] = posts["unsubscribe"] - 1
    BY <1>1, <1>5, <1>7 DEF PostIsLost, Claims, Slip, TypeOK, service
  <2> QED
    BY <1>1, <1>3, <1>4, <2>1, CountsFollow DEF Inv
<1> QED
  BY <1>6, <1>7

\* A subscription that arrives becomes a snapshot that is awaited.
LEMMA SubscribeKeepsInv ==
    ASSUME Inv, Subscribe
    PROVE  Inv'
<1>1. /\ TypeOK /\ ClaimsBounded /\ UNCHANGED <<kind, page, registry, entry, slips>>
      /\ References' = References
  BY DEF Inv, Subscribe, References
<1>2. fetching \in Nat /\ References \in Nat /\ posts["subscribe"] \in Nat
  BY <1>1, ReferencesType, StreamsAssumption DEF TypeOK
<1>3. /\ fetching' \in 0..MaxClaims
      /\ Claims' = Claims
      /\ posts'["unsubscribe"] = posts["unsubscribe"]
      /\ posts' \in [{"subscribe", "unsubscribe"} -> 0..MaxClaims]
  BY <1>1, <1>2, StreamsAssumption
     DEF Subscribe, TypeOK, Claims, ClaimsBounded
<1>4. TypeOK'
  BY <1>1, <1>3 DEF TypeOK
<1>5. RegisteredIsServed' /\ OpenSocketsAreRegistered'
  BY <1>1 DEF Inv, RegisteredIsServed, OpenSocketsAreRegistered
<1> QED
  BY <1>1, <1>3, <1>4, <1>5, CountsFollow DEF Inv

\* Starting a stream turns the snapshot into a reference.
LEMMA StartStreamKeepsInv ==
    ASSUME Inv, StartStream
    PROVE  Inv'
<1>1. /\ TypeOK /\ ClaimsBounded /\ RegisteredIsServed /\ OpenSocketsAreRegistered
      /\ UNCHANGED <<kind, page, posts, slips>>
      /\ fetching' = fetching - 1 /\ fetching > 0
  BY DEF Inv, StartStream
<1>2. /\ fetching \in Nat /\ References \in Nat /\ posts["subscribe"] \in Nat
      /\ MaxClaims \in Nat /\ NoEntry \notin Entries
      /\ References + 1 <= MaxClaims
  BY <1>1, ReferencesType, StreamsAssumption DEF TypeOK, Claims, ClaimsBounded
<1>3. /\ entry' \in [Entries -> Entry]
      /\ registry' \in Entries
      /\ References' = References + 1
      /\ RegisteredIsServed' /\ OpenSocketsAreRegistered'
  <2>1. CASE CountReference
    <3>1. /\ registry' = registry /\ registry \in Entries
          /\ entry' = [entry EXCEPT ![registry].ref = @ + 1]
          /\ References = entry[registry].ref
      BY <1>1, <2>1 DEF CountReference, TypeOK, References
    <3>2. entry[registry].ref + 1 \in 0..MaxClaims
      BY <1>2, <3>1
    <3>3. entry' \in [Entries -> Entry]
      BY <1>1, <3>1, <3>2 DEF TypeOK, Entry
    <3>4. References' = References + 1
      BY <1>1, <1>2, <3>1 DEF References, TypeOK, Entry
    <3>5. RegisteredIsServed'
      BY <1>1, <1>2, <3>1 DEF RegisteredIsServed, TypeOK, Entry
    <3>6. OpenSocketsAreRegistered'
      BY <1>1, <3>1 DEF OpenSocketsAreRegistered, TypeOK, Entry
    <3> QED
      BY <3>1, <3>3, <3>4, <3>5, <3>6
  <2>2. CASE OpenStream
    <3>1. PICK e \in Entries :
            /\ registry = NoEntry /\ registry' = e
            /\ entry' = [entry EXCEPT ![e] =
                           [ref |-> 1, ws |-> "up", closedByRequest |-> FALSE,
                            reconnectTimer |-> FALSE]]
      BY <2>2 DEF OpenStream
    <3>2. /\ entry' \in [Entries -> Entry]
          /\ entry'[e] = [ref |-> 1, ws |-> "up", closedByRequest |-> FALSE,
                          reconnectTimer |-> FALSE]
          /\ \A d \in Entries : d # e => entry'[d] = entry[d]
      <4>1. 1 \in 0..MaxClaims
        BY <1>2
      <4> QED
        BY <1>1, <3>1, <4>1 DEF TypeOK, Entry
    <3>3. References = 0 /\ References' = 1
      BY <1>2, <3>1, <3>2 DEF References
    <3>4. RegisteredIsServed'
      <4>1. /\ entry'[registry'].ws = "up" /\ entry'[registry'].ref = 1
            /\ ~entry'[registry'].closedByRequest
        BY <3>1, <3>2
      <4> QED
        BY <4>1 DEF RegisteredIsServed
    <3>5. OpenSocketsAreRegistered'
      BY <1>1, <1>2, <3>1, <3>2 DEF OpenSocketsAreRegistered
    <3> QED
      BY <3>1, <3>2, <3>3, <3>4, <3>5
  <2> QED
    BY <2>1, <2>2 DEF StartStream
<1>4. TypeOK'
  BY <1>1, <1>2, <1>3 DEF TypeOK
<1>5. Claims' = Claims
  BY <1>1, <1>2, <1>3 DEF Claims
<1> QED
  BY <1>1, <1>3, <1>4, <1>5, CountsFollow DEF Inv

\* A dropped entry is one, whatever the bound.
LEMMA DroppedType == Dropped \in Entry
  BY StreamsAssumption DEF Dropped, Entry

\* An unsubscription takes a reference, or finds nothing to stop.
LEMMA UnsubscribeKeepsInv ==
    ASSUME Inv, Unsubscribe
    PROVE  Inv'
<1>1. /\ TypeOK /\ RegisteredIsServed /\ OpenSocketsAreRegistered
      /\ UNCHANGED <<kind, page, fetching>>
      /\ posts["unsubscribe"] > 0
      /\ posts' = [posts EXCEPT !["unsubscribe"] = @ - 1]
  BY DEF Inv, Unsubscribe
<1>2. /\ fetching \in Nat /\ References \in 0..MaxClaims
      /\ MaxClaims \in Nat /\ NoEntry \notin Entries
      /\ posts \in [{"subscribe", "unsubscribe"} -> 0..MaxClaims]
  BY <1>1, ReferencesType, StreamsAssumption DEF TypeOK
<1>3. /\ posts' \in [{"subscribe", "unsubscribe"} -> 0..MaxClaims]
      /\ posts'["unsubscribe"] = posts["unsubscribe"] - 1
      /\ posts'["subscribe"] = posts["subscribe"]
  BY <1>1, <1>2
<1>4. CASE registry = NoEntry
  <2>1. UNCHANGED <<registry, entry>> /\ slips' = slips \union {"over"}
    BY <1>2, <1>4 DEF Unsubscribe, StopStream, Slip, References
  <2>2. TypeOK' /\ RegisteredIsServed' /\ OpenSocketsAreRegistered'
    BY <1>1, <1>3, <2>1 DEF TypeOK, RegisteredIsServed, OpenSocketsAreRegistered
  <2>3. Claims' = Claims
    BY <1>1, <1>3, <2>1 DEF Claims, References
  <2> QED
    BY <1>1, <1>3, <2>1, <2>2, <2>3, CountsFollow DEF Inv
<1>5. CASE registry # NoEntry
  <2>0. registry \in Entries /\ References = entry[registry].ref
    BY <1>1, <1>5 DEF TypeOK, References
  <2>1. CASE References > 1
    <3>1. /\ entry' = [entry EXCEPT ![registry].ref = @ - 1]
          /\ UNCHANGED <<registry, slips>>
      BY <1>2, <1>5, <2>1 DEF Unsubscribe, StopStream
    <3>2. entry[registry].ref - 1 \in 0..MaxClaims
      BY <1>2, <2>0, <2>1
    <3>3. TypeOK'
      BY <1>1, <1>3, <2>0, <3>1, <3>2 DEF TypeOK, Entry
    <3>4. References' = References - 1
      BY <1>1, <1>5, <2>0, <3>1 DEF References, TypeOK, Entry
    <3>5. RegisteredIsServed'
      BY <1>1, <1>2, <2>0, <2>1, <3>1 DEF RegisteredIsServed, TypeOK, Entry
    <3>6. OpenSocketsAreRegistered'
      BY <1>1, <3>1 DEF OpenSocketsAreRegistered, TypeOK, Entry
    <3>7. Claims' = Claims - 1
      BY <1>1, <1>2, <1>3, <3>4 DEF Claims
    <3> QED
      BY <1>1, <1>3, <3>1, <3>3, <3>5, <3>6, <3>7, CountsFollow DEF Inv
  <2>2. CASE ~(References > 1)
    <3>1. References = 1 /\ CloseStream(registry) /\ UNCHANGED slips
      BY <1>2, <1>5, <2>2 DEF Unsubscribe, StopStream
    <3>2. /\ registry' = NoEntry
          /\ entry' \in [Entries -> Entry]
          /\ \A e \in Entries : entry'[e].ws = "up" =>
                                  e # registry /\ entry[e].ws = "up"
      <4> DEFINE rec == [ref |-> 0,
                         ws |-> IF entry[registry].ws = "up"
                                  THEN "closing" ELSE entry[registry].ws,
                         closedByRequest |-> kind = "detail",
                         reconnectTimer |-> FALSE]
                 new == Settled(registry, rec, NoEntry)
      <4>1. registry' = NoEntry /\ entry' = [entry EXCEPT ![registry] = new]
        BY <3>1 DEF CloseStream
      <4>2. rec \in Entry /\ rec.ws # "up"
        BY <1>1, <1>2, <2>0 DEF TypeOK, Entry
      <4>3. new \in Entry /\ new.ws # "up"
        <5>1. new = rec \/ new = Dropped
          BY DEF Settled
        <5> QED
          BY <4>2, <5>1, DroppedType DEF Dropped
      <4> QED
        BY <1>1, <2>0, <4>1, <4>3 DEF TypeOK
    <3>3. TypeOK'
      BY <1>1, <1>3, <3>1, <3>2 DEF TypeOK
    <3>4. RegisteredIsServed' /\ OpenSocketsAreRegistered'
      BY <1>1, <3>1, <3>2 DEF RegisteredIsServed, OpenSocketsAreRegistered
    <3>5. References' = References - 1
      BY <3>1, <3>2 DEF References
    <3>6. Claims' = Claims - 1
      BY <1>1, <1>2, <1>3, <3>5 DEF Claims
    <3> QED
      BY <1>1, <1>3, <3>1, <3>3, <3>4, <3>6, CountsFollow DEF Inv
  <2> QED
    BY <2>1, <2>2
<1> QED
  BY <1>4, <1>5

\* The end of a socket that leaves the registry loses what was registered.
LEMMA UnregisterKeepsInv ==
    ASSUME Inv, NEW e \in Entries, Unregister(e),
           UNCHANGED <<kind, page, posts, fetching>>
    PROVE  Inv'
<1>1. /\ TypeOK /\ RegisteredIsServed /\ OpenSocketsAreRegistered
      /\ fetching \in Nat /\ posts["subscribe"] \in Nat
      /\ References \in Nat /\ NoEntry \notin Entries
  BY ReferencesType, StreamsAssumption DEF Inv, TypeOK
<1>2. /\ registry' = NoEntry
      /\ slips' = slips \union SlipsOfClose(e)
      /\ entry' = [entry EXCEPT ![e] =
                     Settled(e, [entry[e] EXCEPT !.ws = "gone"], NoEntry)]
  BY DEF Unregister, Slip
<1>3. /\ entry' \in [Entries -> Entry]
      /\ \A d \in Entries : entry'[d].ws = "up" => d # e /\ entry[d].ws = "up"
  <2> DEFINE rec == [entry[e] EXCEPT !.ws = "gone"]
             new == Settled(e, rec, NoEntry)
  <2>1. rec \in Entry /\ rec.ws = "gone"
    BY <1>1 DEF TypeOK, Entry
  <2>2. new \in Entry /\ new.ws = "gone"
    <3>1. new = rec \/ new = Dropped
      BY DEF Settled
    <3>2. Dropped \in Entry /\ Dropped.ws = "gone"
      BY DroppedType DEF Dropped
    <3> HIDE DEF rec, new
    <3> QED
      BY <2>1, <3>1, <3>2
  <2>3. entry' = [entry EXCEPT ![e] = new]
    BY <1>2
  <2> QED
    BY <1>1, <2>2, <2>3 DEF TypeOK
<1>4. SlipsOfClose(e) = IF registry = NoEntry THEN {}
                        ELSE IF registry = e THEN {"under"}
                        ELSE {"under", "orphan"}
  BY <1>1 DEF SlipsOfClose
<1>5. TypeOK' /\ slips \subseteq slips'
  BY <1>1, <1>2, <1>3, <1>4 DEF TypeOK
<1>6. RegisteredIsServed'
  BY <1>2 DEF RegisteredIsServed
<1>7. OpenSocketsAreRegistered'
  BY <1>1, <1>2, <1>3, <1>4 DEF OpenSocketsAreRegistered
<1>8. References' = 0
  BY <1>2 DEF References
<1>9. CASE registry = NoEntry
  <2>1. Claims' = Claims
    BY <1>8, <1>9 DEF Claims, References
  <2> QED
    BY <1>5, <1>6, <1>7, <2>1, CountsFollow DEF Inv
<1>10. CASE registry # NoEntry
  <2>1. Claims' <= Claims
    BY <1>1, <1>8 DEF Claims
  <2>2. "under" \in slips'
    BY <1>2, <1>4, <1>10
  <2> QED
    BY <1>5, <1>6, <1>7, <2>1, <2>2, CountsFollow DEF Inv
<1> QED
  BY <1>9, <1>10

\* A registered entry is the only one a timer reopens, and it keeps its count.
LEMMA SocketKeepsInv ==
    ASSUME Inv, NEW e \in Entries, SocketCloses(e) \/ Reconnect(e)
    PROVE  Inv'
<1>1. /\ TypeOK /\ RegisteredIsServed /\ OpenSocketsAreRegistered
      /\ UNCHANGED <<kind, page, posts, fetching>>
      /\ NoEntry \notin Entries
  BY StreamsAssumption DEF Inv, SocketCloses, Reconnect
<1>2. ASSUME UNCHANGED <<registry, slips>>, TypeOK', References' = References,
             RegisteredIsServed', OpenSocketsAreRegistered'
      PROVE  Inv'
  <2>1. Claims' = Claims
    BY <1>1, <1>2 DEF Claims
  <2> QED
    BY <1>1, <1>2, <2>1, CountsFollow DEF Inv
<1>3. CASE SocketCloses(e)
  <2>1. CASE ChartCloses(e) \/ DetailEnds(e)
    BY <1>1, <2>1, UnregisterKeepsInv DEF ChartCloses, DetailEnds
  <2>2. CASE DetailDrops(e)
    <3>1. /\ registry = e /\ UNCHANGED <<registry, slips>>
          /\ entry' = [entry EXCEPT ![e].ws = "gone", ![e].reconnectTimer = TRUE]
      BY <2>2 DEF DetailDrops, Abandoned
    <3>2. /\ entry'[e] = [entry[e] EXCEPT !.ws = "gone", !.reconnectTimer = TRUE]
          /\ \A d \in Entries : d # e => entry'[d] = entry[d]
      BY <1>1, <3>1 DEF TypeOK, Entry
    <3>3. /\ entry' \in [Entries -> Entry]
          /\ entry'[e].ref = entry[e].ref /\ entry'[e].ws = "gone"
          /\ entry'[e].closedByRequest = entry[e].closedByRequest
          /\ entry'[e].reconnectTimer = TRUE
      BY <1>1, <3>1 DEF TypeOK, Entry
    <3>4. TypeOK' /\ References' = References
      BY <1>1, <3>1, <3>3 DEF TypeOK, References
    <3>5. RegisteredIsServed'
      BY <1>1, <3>1, <3>3 DEF RegisteredIsServed
    <3>6. OpenSocketsAreRegistered'
      BY <1>1, <3>1, <3>2, <3>3 DEF OpenSocketsAreRegistered
    <3> QED
      BY <1>2, <3>1, <3>4, <3>5, <3>6
  <2> QED
    BY <1>3, <2>1, <2>2 DEF SocketCloses
<1>4. CASE Reconnect(e)
  <2> DEFINE off == [entry[e] EXCEPT !.reconnectTimer = FALSE]
             on == [entry[e] EXCEPT !.reconnectTimer = FALSE, !.ws = "up"]
  <2>1. /\ UNCHANGED <<registry, slips>>
        /\ entry' = [entry EXCEPT ![e] = Reopened(e)]
    BY <1>4 DEF Reconnect
  <2>2. off \in Entry /\ on \in Entry
    BY <1>1 DEF TypeOK, Entry
  <2>3. CASE registry = e
    <3>1. ~Abandoned(e)
      BY <1>1, <2>3 DEF Abandoned, RegisteredIsServed, TypeOK, Entry
    <3>2. entry' = [entry EXCEPT ![e] = on]
      BY <2>1, <3>1 DEF Reopened
    <3>3. /\ entry' \in [Entries -> Entry]
          /\ entry'[e].ref = entry[e].ref /\ entry'[e].ws = "up"
          /\ entry'[e].closedByRequest = entry[e].closedByRequest
          /\ \A d \in Entries : d # e => entry'[d] = entry[d]
      BY <1>1, <2>2, <3>2 DEF TypeOK, Entry
    <3>4. TypeOK' /\ References' = References
      BY <1>1, <2>1, <2>3, <3>3 DEF TypeOK, References
    <3>5. RegisteredIsServed' /\ OpenSocketsAreRegistered'
      BY <1>1, <2>1, <2>3, <3>3
         DEF RegisteredIsServed, OpenSocketsAreRegistered
    <3> QED
      BY <1>2, <2>1, <3>4, <3>5
  <2>4. CASE registry # e
    <3>1. Reopened(e) = off \/ Reopened(e) = Dropped
      BY <2>4 DEF Reopened, Abandoned, Settled
    <3>2. /\ Reopened(e) \in Entry
          /\ Reopened(e).ws = "up" => entry[e].ws = "up"
      BY <1>1, <2>2, <3>1, DroppedType DEF Dropped, TypeOK, Entry
    <3>3. /\ entry' \in [Entries -> Entry]
          /\ \A d \in Entries : entry'[d].ws = "up" => entry[d].ws = "up"
          /\ \A d \in Entries : d # e => entry'[d] = entry[d]
      BY <1>1, <2>1, <3>2 DEF TypeOK
    <3>4. TypeOK' /\ References' = References
      BY <1>1, <2>1, <2>4, <3>3 DEF TypeOK, References
    <3>5. RegisteredIsServed' /\ OpenSocketsAreRegistered'
      BY <1>1, <2>1, <2>4, <3>3
         DEF RegisteredIsServed, OpenSocketsAreRegistered, TypeOK
    <3> QED
      BY <1>2, <2>1, <3>4, <3>5
  <2> QED
    BY <2>3, <2>4
<1> QED
  BY <1>3, <1>4

\* A restart forgets every reference and says so.
LEMMA RestartKeepsInv ==
    ASSUME Inv, Restart
    PROVE  Inv'
<1>1. /\ TypeOK /\ UNCHANGED <<kind, page, posts>>
      /\ fetching' = 0 /\ registry' = NoEntry
      /\ entry' = [e \in Entries |-> Dropped]
      /\ slips' = slips \union {"under"}
  BY DEF Inv, Restart, Slip
<1>2. TypeOK'
  BY <1>1, DroppedType, StreamsAssumption DEF TypeOK
<1>3. RegisteredIsServed' /\ OpenSocketsAreRegistered'
  BY <1>1 DEF RegisteredIsServed, OpenSocketsAreRegistered, Dropped
<1>4. Claims' <= Claims
  <2>1. References' = 0
    BY <1>1 DEF References
  <2>2. References \in Nat /\ fetching \in Nat /\ posts["subscribe"] \in Nat
    BY <1>1, ReferencesType, StreamsAssumption DEF TypeOK
  <2> QED
    BY <1>1, <2>1, <2>2 DEF Claims
<1> QED
  BY <1>1, <1>2, <1>3, <1>4, CountsFollow DEF Inv

------------------------------------------------------------------------------
(* the invariant and what follows from it                                  *)

\* At first nobody watches and nothing is registered.
LEMMA InitEstablishesInv == Init => Inv
<1> SUFFICES ASSUME Init PROVE Inv
  OBVIOUS
<1>1. TypeOK
  BY DroppedType, StreamsAssumption DEF Init, TypeOK, PageStates
<1>2. References = 0 /\ Claims = 0
  BY DEF Init, References, Claims
<1>3. ClaimsBounded
  BY <1>2, StreamsAssumption DEF ClaimsBounded
<1>4. RegisteredIsServed /\ OpenSocketsAreRegistered
  BY DEF Init, RegisteredIsServed, OpenSocketsAreRegistered, Dropped
<1>5. WatchersAreCounted /\ WatchersAreReleased
  <2>1. Watchers = {}
    BY DEF Init, Watchers
  <2>2. Cardinality(Watchers) = 0
    BY <2>1, FS_EmptySet
  <2> QED
    BY <1>2, <2>2 DEF Init, WatchersAreCounted, WatchersAreReleased
<1> QED
  BY <1>1, <1>3, <1>4, <1>5 DEF Inv

\* Every step keeps the invariant.
LEMMA NextKeepsInv == Inv /\ [Next]_vars => Inv'
<1> SUFFICES ASSUME Inv, [Next]_vars PROVE Inv'
  OBVIOUS
<1>1. CASE \E p \in Pages : PageStep(p)
  BY <1>1, PageStepKeepsInv
<1>2. CASE \E type \in {"subscribe", "unsubscribe"} : PostIsLost(type)
  BY <1>2, PostIsLostKeepsInv
<1>3. CASE Subscribe
  BY <1>3, SubscribeKeepsInv
<1>4. CASE Unsubscribe
  BY <1>4, UnsubscribeKeepsInv
<1>5. CASE StartStream
  BY <1>5, StartStreamKeepsInv
<1>6. CASE \E e \in Entries : SocketCloses(e) \/ Reconnect(e)
  BY <1>6, SocketKeepsInv
<1>7. CASE Restart
  BY <1>7, RestartKeepsInv
<1>8. CASE UNCHANGED vars
  BY <1>8 DEF Inv, vars, service, TypeOK, ClaimsBounded, RegisteredIsServed,
       OpenSocketsAreRegistered, WatchersAreCounted, WatchersAreReleased,
       Watchers, Claims, References
<1> QED
  BY <1>1, <1>2, <1>3, <1>4, <1>5, <1>6, <1>7, <1>8 DEF Next

\* The invariant holds in every reachable state.
THEOREM Invariance == Spec => []Inv
  BY InitEstablishesInv, NextKeepsInv, PTL DEF Spec

\* Every variable keeps its type, and the counters their bound.
THEOREM TypeCorrect == Spec => []TypeOK
<1>1. Inv => TypeOK
  BY DEF Inv
<1> QED
  BY <1>1, Invariance, PTL

\* No registered stream is left without a socket or a timer, so starting one
\* that is registered may merely count (startKlineStream).
THEOREM RegisteredStreamsAreServed == Spec => []RegisteredIsServed
<1>1. Inv => RegisteredIsServed
  BY DEF Inv
<1> QED
  BY <1>1, Invariance, PTL

\* The reference count never falls below the pages that watch, except by one
\* of the named slips.
THEOREM StreamsOutliveWatchers == Spec => []WatchersAreCounted
<1>1. Inv => WatchersAreCounted
  BY DEF Inv
<1> QED
  BY <1>1, Invariance, PTL

\* The reference count never exceeds the pages that watch, except by one of
\* the named slips.
THEOREM StreamsEndWithWatchers == Spec => []WatchersAreReleased
<1>1. Inv => WatchersAreReleased
  BY DEF Inv
<1> QED
  BY <1>1, Invariance, PTL

\* An open socket that is not registered has lost its registration to the close
\* event of a predecessor.
THEOREM OnlyLateClosesOrphan == Spec => []OpenSocketsAreRegistered
<1>1. Inv => OpenSocketsAreRegistered
  BY DEF Inv
<1> QED
  BY <1>1, Invariance, PTL

=============================================================================
