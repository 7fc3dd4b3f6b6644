---------------------------- MODULE SettingsRoutes ----------------------------
(***************************************************************************)
(* The routes of the other settings: asset steering, trade and the agent   *)
(* (api/routers/settings.py) and the system (api/routers/health.py).  They *)
(* share the table settings, whose rows they write one by one in one       *)
(* transaction; the value of each is looked at just before it is written,  *)
(* so that one that is refused finds others written already.  Rows stay    *)
(* locked until the transaction ends, and the request waits for a locked   *)
(* row.  A request asks for settings of one group, and they are written in *)
(* the order in which the model of the group declares them.                *)
(*                                                                         *)
(* Two effects reach beyond the table: the settings of the trade group are *)
(* read back after the commit and, when the answer of the database has     *)
(* come, published, retained and with QoS 0; and the log level is applied  *)
(* before it is committed, while a task of its own reads it now and then   *)
(* and applies what it read (api/state.py).                                *)
(*                                                                         *)
(* Keys and values are numbers; Default of a key is shown while it has no  *)
(* row.  Null is a null that a request asks for.  A number is refused for  *)
(* it, since it cannot be compared with its limits, but the routes of a    *)
(* text store the word "None" in its place; the log level is not asked for *)
(* with a null.                                                            *)
(***************************************************************************)
EXTENDS Integers, FiniteSetsExt

CONSTANTS
    Requests,     \* the requests that may run side by side
    SettingKeys,  \* the keys, numbered in the order of their declaration
    TradeKeys,    \* those of the trade group
    TextKeys,     \* the texts, and the settings of the agent, which has no
                  \* limits of its own: the keys that a null reaches
    DebugKey,     \* system.debug_logging
    Changes,      \* what a request asks for: a function of some keys
    Limits,       \* [key |-> <<least, most>>]
    Default       \* [key |-> what is shown without a row]

ASSUME SettingConstants ==
    /\ SettingKeys \subseteq Nat /\ TradeKeys \subseteq SettingKeys /\ TradeKeys # {}
    /\ TextKeys \subseteq SettingKeys /\ DebugKey \in SettingKeys \ (TradeKeys \cup TextKeys)
    /\ \A change \in Changes : DOMAIN change \subseteq SettingKeys
    /\ \A k \in SettingKeys : Limits[k][1] \in Nat /\ Limits[k][2] \in Nat

NoRow == -1
Null == -2
NoChange == [k \in {} |-> NoRow]

VARIABLES
    rows,        \* settings
    asked,       \* what each request asks for
    upserted,    \* the keys it has written
    atWork,      \* "idle", "writing", "committed", "answering"
    answer,      \* the trade settings that each request has read back
    announced,   \* what the broker retains of the trade group
    unheard,     \* the last publication of it was lost, or never made
    overtaken,   \* what was published last had been read back before a commit
    logLevel,    \* _debug_enabled
    debugRead,   \* what the refresh read and has yet to apply, or NoRow
    amiss        \* the row of the applied level was rolled back, or the refresh
                 \* applied what an update had overtaken

requests == <<asked, upserted, atWork, answer>>
announcement == <<announced, unheard, overtaken>>
level == <<logLevel, debugRead, amiss>>
settingVars == <<rows, requests, announcement, level>>

Left1(r) == DOMAIN asked[r] \ upserted[r]

\* Mutant: the order of the request, which may be any.
NextKeyAsAsked(r) == IF r = Max(Requests) THEN Max(Left1(r)) ELSE Min(Left1(r))

NextKey(r) == Min(Left1(r))

Holds(r, key) == atWork[r] = "writing" /\ key \in upserted[r]

WaitsFor(r, other) ==
    /\ r # other /\ atWork[r] = "writing" /\ Left1(r) # {}
    /\ Holds(other, NextKey(r))

\* A time in its form, a number within its limits.
Valid(key, value) == value \in Limits[key][1]..Limits[key][2]

Storable(key, value) == Valid(key, value) \/ (value = Null /\ key \in TextKeys)

Shown == [k \in SettingKeys |-> IF rows[k] = NoRow THEN Default[k] ELSE rows[k]]
ShownTrade == [k \in TradeKeys |-> Shown[k]]

(***************************************************************************)
(* A request.  One that asks for nothing may be of any group.              *)
(***************************************************************************)
OfTrade(r) == DOMAIN asked[r] \cap TradeKeys # {}

UpdateArrives ==
    \E r \in Requests, change \in Changes :
        /\ atWork[r] = "idle"
        /\ atWork' = [atWork EXCEPT ![r] = "writing"]
        /\ asked' = [asked EXCEPT ![r] = change]
        /\ UNCHANGED <<rows, upserted, answer, announcement, level>>

UpsertSetting ==
    \E r \in Requests :
        /\ atWork[r] = "writing" /\ Left1(r) # {}
        /\ \A other \in Requests : ~WaitsFor(r, other)
        /\ Storable(NextKey(r), asked[r][NextKey(r)])
        /\ upserted' = [upserted EXCEPT ![r] = @ \cup {NextKey(r)}]
        /\ IF NextKey(r) = DebugKey
           THEN logLevel' = asked[r][DebugKey] /\ amiss' = FALSE
           ELSE UNCHANGED <<logLevel, amiss>>
        /\ UNCHANGED <<rows, asked, atWork, answer, announcement, debugRead>>

Ended(r) ==
    /\ atWork' = [atWork EXCEPT ![r] = "idle"]
    /\ asked' = [asked EXCEPT ![r] = NoChange]
    /\ upserted' = [upserted EXCEPT ![r] = {}]
    /\ answer' = [answer EXCEPT ![r] = NoChange]

\* A value out of its limits, or a database that fails: nothing is stored.
UpdateFails ==
    \E r \in Requests :
        /\ atWork[r] = "writing" /\ Ended(r)
        /\ amiss' = (amiss \/ DebugKey \in upserted[r])
        /\ UNCHANGED <<rows, announcement, logLevel, debugRead>>

CommitUpdate ==
    \E r \in Requests :
        /\ atWork[r] = "writing" /\ Left1(r) = {}
        /\ atWork' = [atWork EXCEPT ![r] = "committed"]
        /\ rows' = [k \in SettingKeys |-> IF k \in DOMAIN asked[r] THEN asked[r][k] ELSE rows[k]]
        /\ UNCHANGED <<asked, upserted, answer, announcement, level>>

\* The settings are read back.  Other requests go on until the coroutine has
\* the answer.
ReadBack ==
    \E r \in Requests :
        /\ atWork[r] = "committed"
        /\ \/ /\ OfTrade(r) \/ asked[r] = NoChange
              /\ atWork' = [atWork EXCEPT ![r] = "answering"]
              /\ answer' = [answer EXCEPT ![r] = ShownTrade]
              /\ UNCHANGED <<asked, upserted>>
           \/ ~OfTrade(r) /\ Ended(r)
        /\ UNCHANGED <<rows, announcement, level>>

\* A database that fails only then: the change stays and is not published.
ReadBackFails ==
    \E r \in Requests :
        /\ atWork[r] = "committed" /\ Ended(r)
        /\ unheard' = (unheard \/ OfTrade(r))
        /\ UNCHANGED <<rows, announced, overtaken, level>>

PublishTradeSettings(settings, connected) ==
    /\ announced' = IF connected THEN settings ELSE announced
    /\ unheard' = ~connected
    /\ overtaken' = IF connected THEN settings # ShownTrade ELSE overtaken

\* The whole trade group is published as it was read back, or lost.
AnswerUpdate ==
    \E r \in Requests, connected \in BOOLEAN :
        /\ atWork[r] = "answering" /\ Ended(r)
        /\ PublishTradeSettings(answer[r], connected)
        /\ UNCHANGED <<rows, level>>

\* The task reads the row while other requests are at work.
ReadDebugSetting ==
    /\ debugRead = NoRow
    /\ debugRead' = Shown[DebugKey]
    /\ UNCHANGED <<rows, requests, announcement, logLevel, amiss>>

RefreshDebugSetting ==
    /\ debugRead # NoRow /\ debugRead' = NoRow
    /\ logLevel' = debugRead
    /\ amiss' = (debugRead # Shown[DebugKey] \/ \E r \in Requests : Holds(r, DebugKey))
    /\ UNCHANGED <<rows, requests, announcement>>

\* The API ends at any moment, and what was not committed with it.  A start
\* takes the log level from the table and publishes the trade settings.
ApiRestarts ==
    \E connected \in BOOLEAN :
        /\ asked' = [r \in Requests |-> NoChange] /\ upserted' = [r \in Requests |-> {}]
        /\ atWork' = [r \in Requests |-> "idle"] /\ answer' = [r \in Requests |-> NoChange]
        /\ logLevel' = Shown[DebugKey] /\ debugRead' = NoRow /\ amiss' = FALSE
        /\ PublishTradeSettings(ShownTrade, connected)
        /\ UNCHANGED rows

SettingInit ==
    /\ rows = [k \in SettingKeys |-> NoRow]
    /\ asked = [r \in Requests |-> NoChange] /\ upserted = [r \in Requests |-> {}]
    /\ atWork = [r \in Requests |-> "idle"] /\ answer = [r \in Requests |-> NoChange]
    /\ announced = [k \in TradeKeys |-> NoRow] /\ unheard = TRUE /\ overtaken = FALSE
    /\ logLevel = Default[DebugKey] /\ debugRead = NoRow /\ amiss = FALSE

SettingNext ==
    \/ UpdateArrives \/ UpsertSetting \/ UpdateFails \/ CommitUpdate
    \/ ReadBack \/ ReadBackFails \/ AnswerUpdate
    \/ ReadDebugSetting \/ RefreshDebugSetting \/ ApiRestarts

SettingSpec == SettingInit /\ [][SettingNext]_settingVars

(***************************************************************************)
(* Properties.                                                             *)
(***************************************************************************)
AllAnswered == \A r \in Requests : atWork[r] \notin {"committed", "answering"}

\* Updates side by side never wait for each other in a circle, since every
\* one takes the rows in one order (settings.py:210).
NeverInACircle == \A r, other \in Requests : ~(WaitsFor(r, other) /\ WaitsFor(other, r))

\* No row has a value out of its limits, although the values of a request
\* are looked at between its writes, except for a null that took the place
\* of a text (settings.py:212, :325).
RowsAreInLimits == \A k \in SettingKeys : rows[k] # NoRow => Storable(k, rows[k])

\* With nothing left to publish the broker has the trade settings of the
\* table, unless the last publication was lost, or was of settings that had
\* been read back before another update was committed (settings.py:337).
TradeIsAnnounced == AllAnswered /\ ~unheard /\ ~overtaken => announced = ShownTrade

\* Between the requests the log level is the table's, unless a level was
\* applied whose commit failed, or the refresh applied what it had read
\* before a commit (health.py:128, state.py:138).
LevelIsStored == (\A r \in Requests : atWork[r] = "idle") /\ ~amiss => logLevel = Shown[DebugKey]

\* Whatever requests run side by side, and wherever they or the API end: all
\* of the above.
SettingsAreSettled == NeverInACircle /\ RowsAreInLimits /\ TradeIsAnnounced /\ LevelIsStored
=============================================================================
