------------------------------ MODULE DryadViews ------------------------------
(***************************************************************************)
(* Dryad's answers (api/dryad.py) and the cache before them                *)
(* (api/routers/dashboard.py:288).  A request takes the time, looks into   *)
(* the cache, awaits the database, then takes what the status cache and    *)
(* the prices are by then, and puts its answer into the cache under the    *)
(* time it took first.  Requests run side by side, and a slow one may put  *)
(* an older answer in the place of a newer one.                            *)
(*                                                                         *)
(* An item of an answer is left out when one of its sources has been       *)
(* silent for too long.  The price penalty says how much of what was paid  *)
(* for the imports, hour by hour, waiting would have saved, each hour      *)
(* weighted with what was imported in it; the prices are those of the      *)
(* newest day that was published (mqtt_handlers.py).  It is told in whole  *)
(* percents here.                                                          *)
(***************************************************************************)
EXTENDS Integers, FiniteSetsExt, Functions

CONSTANTS
    DryadRequests,
    DatabaseSources,   \* curves, plan: read from the database
    StatusSources,     \* soc: from the status cache
    MaxAges,           \* [source |-> the age at which it is stale]
    ItemSources,       \* [item |-> its sources]
    CacheTime,         \* DRYAD_CACHE_SECONDS
    CurveSource,       \* the database source that tells the imports
    Imports,           \* what the household may import in an hour
    Tariffs,           \* [hour |-> price], of every day
    DayLength,         \* how many hours make a day
    ThresholdPercent,  \* dryad.import_price_penalty_pct
    LookAhead,         \* 6 hours
    LastInstant1       \* bound of the clock; an instant is an hour

VARIABLES
    oclock,      \* the time
    spoken,      \* when each source was last written, NeverSpoken before
    working,     \* the requests: Done, or [began, loaded, found, imports]
    kept,        \* DRYAD_CACHE: [began, shown], or Done
    imported,    \* [hour |-> what was imported], from the curves
    priced,      \* TRADE_PRICE_CACHE: the days that were published
    tariff

dryadVars == <<oclock, spoken, working, kept, imported, priced, tariff>>

NeverSpoken == -1
Done == [began |-> -1]
DrSources == DatabaseSources \cup StatusSources

ASSUME DryadConstants ==
    /\ CurveSource \in DatabaseSources /\ Imports \subseteq Nat
    /\ CacheTime \in Int /\ MaxAges \in [DrSources -> Int]
    /\ \A item \in DOMAIN ItemSources : ItemSources[item] \subseteq DrSources
    /\ \A prices \in Tariffs :
         IsFiniteSet(DOMAIN prices) /\ \A h \in DOMAIN prices : h \in Nat /\ prices[h] \in Int
    /\ DayLength \in Nat \ {0} /\ ThresholdPercent \in Nat /\ LookAhead \in Nat \ {0}

(***************************************************************************)
(* The penalty, in percent, Unpriced without a list.  An hour costs what   *)
(* its price is above the cheapest one in sight and the threshold.         *)
(***************************************************************************)
Unpriced == -1
DayOf(hour) == hour \div DayLength

\* The list of the newest day is all there is.
LatestTradePrices == {h \in DOMAIN tariff : priced # {} /\ DayOf(h) = Max(priced)}

Clamp100(n) == Max({0, Min({100, n})})

\* Mutant: what is behind can still be waited for.
InSightBothWays(hour, list) == list

InSight(hour, list) == {h \in list : hour <= h /\ h < hour + LookAhead}

\* The cheapest price in sight, with the threshold, times a hundred.
CheapestWithThreshold(hour, list) ==
    Min({tariff[h] : h \in InSight(hour, list)}) * (100 + ThresholdPercent)

HourPenaltySeverity(hour, list) ==
    LET wait == CheapestWithThreshold(hour, list) IN
    CASE 100 * tariff[hour] < wait -> 0
      [] 100 * tariff[hour] >= wait /\ tariff[hour] <= 0 -> 100
      [] OTHER -> Clamp100((100 * tariff[hour] - wait) \div tariff[hour])

ComputeImportPricePenalty(imports, list) ==
    LET counted == {h \in DOMAIN imports \cap list : imports[h] > 0} IN
    CASE list = {} -> Unpriced
      [] list # {} /\ counted = {} -> 0
      [] OTHER -> MapThenSumSet(LAMBDA h : imports[h] * HourPenaltySeverity(h, list), counted)
                    \div MapThenSumSet(LAMBDA h : imports[h], counted)

(***************************************************************************)
(* An answer: the items that are not stale, with when their sources spoke, *)
(* and the penalty, which is an item of the curves.  The code rounds an    *)
(* age to whole seconds, so that it takes up to half a second more for     *)
(* fresh; an instant is too long to tell.                                  *)
(***************************************************************************)
AgeAt(began, at) == Max({0, began - at})

SourceStale(source, began, stamps) ==
    stamps[source] = NeverSpoken \/ AgeAt(began, stamps[source]) > MaxAges[source]

Items(began, stamps) ==
    {item \in DOMAIN ItemSources : \A s \in ItemSources[item] : ~SourceStale(s, began, stamps)}

BuildDryadPayload(began, stamps, imports, list) ==
    [items |-> {<<i, Restrict(stamps, ItemSources[i])>> : i \in Items(began, stamps)},
     penalty |-> IF SourceStale(CurveSource, began, stamps) THEN Unpriced
                 ELSE ComputeImportPricePenalty(imports, list)]

(***************************************************************************)
(* A request.                                                              *)
(***************************************************************************)
\* An answer from the cache changes nothing.
Cached == kept # Done /\ oclock - kept.began < CacheTime

ApiV1Dryad ==
    \E r \in DryadRequests :
        /\ working[r] = Done /\ ~Cached
        /\ working' = [working EXCEPT ![r] =
               [began |-> oclock, loaded |-> FALSE, found |-> [s \in DatabaseSources |-> NeverSpoken], imports |-> <<>>]]
        /\ UNCHANGED <<oclock, spoken, kept, imported, priced, tariff>>

LoadDryadInputs ==
    \E r \in DryadRequests :
        /\ working[r] # Done /\ ~working[r].loaded
        /\ working' = [working EXCEPT ![r] = [@ EXCEPT !.loaded = TRUE, !.imports = imported,
                    !.found = [s \in DatabaseSources |-> spoken[s]]]]
        /\ UNCHANGED <<oclock, spoken, kept, imported, priced, tariff>>

\* The answer takes the status cache and the prices as they are by now.
Found(r) == [s \in DrSources |-> IF s \in StatusSources THEN spoken[s] ELSE working[r].found[s]]

Payload(r) == BuildDryadPayload(working[r].began, Found(r), working[r].imports, LatestTradePrices)

\* Mutant: the cache has the time at which the answer was ready.
AnswerDryadLate ==
    \E r \in DryadRequests :
        /\ working[r] # Done /\ working[r].loaded
        /\ working' = [working EXCEPT ![r] = Done]
        /\ kept' = [began |-> oclock, shown |-> Payload(r)]
        /\ UNCHANGED <<oclock, spoken, imported, priced, tariff>>

AnswerDryad ==
    \E r \in DryadRequests :
        /\ working[r] # Done /\ working[r].loaded
        /\ working' = [working EXCEPT ![r] = Done]
        /\ kept' = [began |-> working[r].began, shown |-> Payload(r)]
        /\ UNCHANGED <<oclock, spoken, imported, priced, tariff>>

\* The database fails.
DryadFails ==
    \E r \in DryadRequests :
        /\ working[r] # Done /\ ~working[r].loaded
        /\ working' = [working EXCEPT ![r] = Done]
        /\ UNCHANGED <<oclock, spoken, kept, imported, priced, tariff>>

(***************************************************************************)
(* The others: the bridges, the curves and the collector of the prices.    *)
(***************************************************************************)
\* Of the grid, a sample tells what is imported in the hour.
ImportIs(kwh) == imported' = [h \in DOMAIN imported \cup {oclock} |-> IF h = oclock THEN kwh ELSE imported[h]]

SourceSpeaks ==
    \E s \in DrSources :
        /\ spoken[s] # oclock
        /\ spoken' = [spoken EXCEPT ![s] = oclock]
        /\ \/ s = CurveSource /\ \E kwh \in Imports : ImportIs(kwh)
           \/ s # CurveSource /\ UNCHANGED imported
        /\ UNCHANGED <<oclock, working, kept, priced, tariff>>

\* The prices of today, or of tomorrow before the day is over.
PricesArrive ==
    \E day \in {DayOf(oclock), DayOf(oclock) + 1} \ priced :
        /\ day \in {DayOf(h) : h \in DOMAIN tariff}
        /\ priced' = priced \cup {day}
        /\ UNCHANGED <<oclock, spoken, working, kept, imported, tariff>>

MomentPasses ==
    /\ oclock < LastInstant1 /\ oclock' = oclock + 1
    /\ UNCHANGED <<spoken, working, kept, imported, priced, tariff>>

DryadInit ==
    /\ oclock = 0 /\ spoken = [s \in DrSources |-> NeverSpoken]
    /\ working = [r \in DryadRequests |-> Done] /\ kept = Done
    /\ imported = <<>> /\ priced = {} /\ tariff \in Tariffs

DryadNext ==
    \/ ApiV1Dryad \/ LoadDryadInputs \/ AnswerDryad \/ DryadFails
    \/ SourceSpeaks \/ PricesArrive \/ MomentPasses

DryadSpec == DryadInit /\ [][DryadNext]_dryadVars

(***************************************************************************)
(* Properties.                                                             *)
(***************************************************************************)

\* However the requests overtake each other, what the cache still answers
\* is, when it is given, no older than its source may get and the time the
\* cache may keep it (dashboard.py:299).
AnswersAreRecent ==
    Cached =>
        \A item \in kept.shown.items : \A s \in ItemSources[item[1]] :
            item[2][s] # NeverSpoken /\ oclock - item[2][s] < MaxAges[s] + CacheTime

\* What is paid is never blamed for more than the share of the price that
\* waiting saves, and not at all in the cheapest hour that is left
\* (dryad.py:178).  Where the prices are above nothing: of a price below
\* it, all is blamed.
ChargedForWhatWaitingSaves ==
    \A h \in LatestTradePrices :
        LET list == LatestTradePrices
            later == {k \in list : h <= k /\ k < h + LookAhead}
            charged == HourPenaltySeverity(h, list)
        IN  (\A k \in list : tariff[k] > 0) =>
                /\ (\A k \in later : tariff[k] >= tariff[h]) => charged = 0
                /\ \E k \in later : charged * tariff[h] <= 100 * (tariff[h] - tariff[k])

DryadIsRecent == AnswersAreRecent /\ ChargedForWhatWaitingSaves
=============================================================================
