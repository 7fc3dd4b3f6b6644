----------------------------- MODULE StatusCache -----------------------------
(***************************************************************************)
(* The API's cache of the status topics (api/mqtt_handlers.py).  The       *)
(* network thread of the API's client writes what arrives; a request that  *)
(* finds the cache incomplete opens a client of its own, collects what the *)
(* broker retains until it has everything or a second is over, and writes  *)
(* that over the cache.  The request blocks the event loop while it        *)
(* collects, so that one is under way at most.                             *)
(*                                                                         *)
(* The broker sends a new subscriber what it retains and then what is      *)
(* published, topic by topic in the order of publication; a lost           *)
(* connection loses what was on its way.  A value is the number of its     *)
(* publication.  The cache of day-ahead prices is beside it: the newest    *)
(* day is shown, a payload that is no list of prices is ignored.           *)
(***************************************************************************)
EXTENDS Integers, Sequences, FiniteSetsExt

CONSTANTS
    StatusTopics,
    RequiredStatus,   \* the topics that a complete cache has
    PriceDays,        \* the days prices are published for
    MaxPublished, MaxInFlight, MaxReconnects

Missing == 0

VARIABLES
    retained,        \* the broker's retained values
    attached,        \* the API's client is connected
    inbound,         \* what is on its way to it, per topic
    cache,           \* MQTT_STATUS
    collecting,      \* a request collects
    collected,       \* its retained_status
    collectable,     \* what is on its way to its client, per topic
    prices,          \* TRADE_PRICE_CACHE, Missing or the number of the publication
    older,           \* the topics that a collection wrote an older value of
    reconnects

cacheVars == <<retained, attached, inbound, cache, collecting, collected, collectable, prices, older, reconnects>>

Nought == [t \in StatusTopics |-> Missing]
Silent == [t \in StatusTopics |-> <<>>]
Replayed == [t \in StatusTopics |-> IF retained[t] = Missing THEN <<>> ELSE <<retained[t]>>]

\* cached_status_is_incomplete
Incomplete == \E t \in RequiredStatus : cache[t] = Missing

Delivered1(box, listening, topic, value) == [box EXCEPT ![topic] = IF listening THEN Append(@, value) ELSE @]

Publication ==
    \E topic \in StatusTopics :
        /\ retained[topic] < MaxPublished
        /\ Len(inbound[topic]) < MaxInFlight /\ Len(collectable[topic]) < MaxInFlight
        /\ retained' = [retained EXCEPT ![topic] = @ + 1]
        /\ inbound' = Delivered1(inbound, attached, topic, retained'[topic])
        /\ collectable' = Delivered1(collectable, collecting, topic, retained'[topic])
        /\ UNCHANGED <<attached, cache, collecting, collected, prices, older, reconnects>>

(***************************************************************************)
(* The network thread of the API's client.                                 *)
(***************************************************************************)
HandleStatus ==
    \E topic \in StatusTopics :
        /\ inbound[topic] # <<>>
        /\ inbound' = [inbound EXCEPT ![topic] = Tail(@)]
        /\ cache' = [cache EXCEPT ![topic] = Head(inbound[topic])]
        /\ older' = older \ {topic}
        /\ UNCHANGED <<retained, attached, collecting, collected, collectable, prices, reconnects>>

HandleTradePrice ==
    \E day \in PriceDays :
        /\ attached /\ prices[day] < MaxPublished
        /\ prices' = [prices EXCEPT ![day] = @ + 1]
        /\ UNCHANGED <<retained, attached, inbound, cache, collecting, collected, collectable, older, reconnects>>

\* Every subscription is made again, and the broker replays.
Attach ==
    /\ ~attached /\ reconnects < MaxReconnects
    /\ attached' = TRUE /\ inbound' = Replayed
    /\ reconnects' = reconnects + 1
    /\ UNCHANGED <<retained, cache, collecting, collected, collectable, prices, older>>

Detach ==
    /\ attached
    /\ attached' = FALSE /\ inbound' = Silent
    /\ UNCHANGED <<retained, cache, collecting, collected, collectable, prices, older, reconnects>>

(***************************************************************************)
(* A request that collects.                                                *)
(***************************************************************************)
BeginCollecting ==
    /\ ~collecting /\ Incomplete
    /\ collecting' = TRUE
    /\ collected' = Nought /\ collectable' = Replayed
    /\ UNCHANGED <<retained, attached, inbound, cache, prices, older, reconnects>>

Collect ==
    \E topic \in StatusTopics :
        /\ collectable[topic] # <<>>
        /\ collectable' = [collectable EXCEPT ![topic] = Tail(@)]
        /\ collected' = [collected EXCEPT ![topic] = Head(collectable[topic])]
        /\ UNCHANGED <<retained, attached, inbound, cache, collecting, prices, older, reconnects>>

\* Mutant: what was collected replaces the cache.
FinishCollectingAlone ==
    /\ collecting /\ collecting' = FALSE
    /\ collectable' = Silent /\ collected' = Nought
    /\ cache' = collected
    /\ older' = older \cup {t \in StatusTopics : collected[t] # Missing /\ collected[t] < cache[t]}
    /\ UNCHANGED <<retained, attached, inbound, prices, reconnects>>

\* With everything, or with what a second brought.
FinishCollecting ==
    /\ collecting /\ collecting' = FALSE
    /\ collectable' = Silent /\ collected' = Nought
    /\ cache' = [t \in StatusTopics |-> IF collected[t] = Missing THEN cache[t] ELSE collected[t]]
    /\ older' = older \cup {t \in StatusTopics : collected[t] # Missing /\ collected[t] < cache[t]}
    /\ UNCHANGED <<retained, attached, inbound, prices, reconnects>>

\* The connection fails: what the cache has is shown.
CollectingFails ==
    /\ collecting /\ collected = Nought
    /\ collecting' = FALSE /\ collectable' = Silent
    /\ UNCHANGED <<retained, attached, inbound, cache, collected, prices, older, reconnects>>

CacheInit ==
    /\ retained = Nought /\ cache = Nought /\ collected = Nought
    /\ inbound = Silent /\ collectable = Silent
    /\ attached = FALSE /\ collecting = FALSE
    /\ prices = [d \in PriceDays |-> Missing]
    /\ older = {} /\ reconnects = 0

CacheNext ==
    \/ Publication \/ HandleStatus \/ HandleTradePrice \/ Attach \/ Detach
    \/ BeginCollecting \/ Collect \/ FinishCollecting \/ CollectingFails

CacheSpec == CacheInit /\ [][CacheNext]_cacheVars

(***************************************************************************)
(* Properties.                                                             *)
(***************************************************************************)

\* While the API is connected and nothing is on its way to it, the cache
\* shows what the broker retains, whatever was lost with a connection and
\* whenever a request collected (mqtt_handlers.py:117, :195).  One topic may
\* be behind: a request that gave up before it saw a publication writes the
\* value before it over the one that the network thread had.
StatusIsCurrent ==
    attached /\ inbound = Silent /\ ~collecting =>
        \A t \in StatusTopics \ older : cache[t] = retained[t]
=============================================================================
