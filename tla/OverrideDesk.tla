----------------------------- MODULE OverrideDesk -----------------------------
(***************************************************************************)
(* The API's override and settings routes (api/routers/battery.py) and     *)
(* the two services they speak to.  Three copies of an override exist: the *)
(* row in the database, which the API and the strategy service both write, *)
(* the strategy's own and the controller's.  A message reaches the two     *)
(* services with QoS 0 and unretained, or does not.                        *)
(*                                                                         *)
(* A request is a coroutine: it reads the settings and waits for the       *)
(* database before it commits, and other requests run in between.  The     *)
(* services themselves have modules of their own; what they do with an     *)
(* override message and at their start is what is kept of them here.       *)
(***************************************************************************)
EXTENDS Integers, Sequences, FiniteSetsExt

CONSTANTS
    Orders,           \* the override requests [mode, watts, lasts, exempt]
    Updates,          \* the settings requests, records of some settings
    FirstSettings,    \* the settings at the start
    Ranges,           \* BATTERY_KEYS, the interval of each setting
    SocCache,         \* what the SoC may be when a request looks
    MaxPending, MaxSent, MaxQueue, LastHour   \* bounds

NoEnd == -1
NoSoc == -1
Consumers == {"strategy", "control"}
Cleared == [mode |-> "none", watts |-> 0, lasts |-> NoEnd, exempt |-> FALSE]
Copied(order, until) ==
    [mode |-> order.mode, watts |-> order.watts, exempt |-> order.exempt, until |-> until]
NoCopy == Copied(Cleared, NoEnd)

VARIABLES
    hour,            \* the clock
    row, rowLasts,   \* battery_override, its column duration_seconds
    saved, stale,    \* the settings battery.*; strategy.bridge_stale_seconds
    pending,         \* the requests that wait for the database
    queue,           \* the messages on their way to each service
    held,            \* the strategy's current override
    storing,         \* it waits to be persisted
    controlled,      \* the controller's override, or Crashed
    sent, apart, crossed   \* messages sent; see the properties

deskVars == <<hour, row, rowLasts, saved, stale, pending, queue, held, storing, controlled, sent, apart, crossed>>

Crashed == [mode |-> "crashed", until |-> NoEnd]
Reload == [mode |-> "reload_settings", watts |-> 0, lasts |-> NoEnd, exempt |-> FALSE]
Timed(order) == IF order.lasts = NoEnd THEN NoEnd ELSE hour + order.lasts

\* A message reaches the services that are connected, if the API is.
Send(message) ==
    \E reached \in SUBSET Consumers :
        /\ sent < MaxSent
        /\ \A c \in reached : Len(queue[c]) < MaxQueue
        /\ queue' = [c \in Consumers |-> IF c \in reached THEN Append(queue[c], message) ELSE queue[c]]
        /\ sent' = sent + 1
        /\ apart' = (reached # Consumers)

(***************************************************************************)
(* Overrides.                                                              *)
(***************************************************************************)
ChargeLimit(s) == Min({s.max_charge_w, s.max_charge_a * s.nominal_v})

\* An override within the limits, or one that may leave the SoC limits.
Permitted(order, s, soc) ==
    /\ ~order.exempt /\ soc # NoSoc =>
        /\ ~(order.mode = "force_discharge" /\ soc <= s.soc_floor)
        /\ ~(order.mode = "force_charge" /\ soc >= s.soc_ceiling)
    /\ order.watts <= (IF order.mode = "force_discharge" THEN s.max_discharge_w ELSE ChargeLimit(s))

Accept(request) ==
    /\ Cardinality(pending) < MaxPending
    /\ pending' = pending \cup {request}
    /\ UNCHANGED <<hour, row, rowLasts, saved, stale, queue, held, storing, controlled, sent, apart, crossed>>

SetBatteryOverride ==
    \E order \in Orders, soc \in SocCache :
        /\ Permitted(order, saved, soc)
        /\ Accept([route |-> "override", order |-> order, seen |-> saved])

InForce == row.mode # "none" /\ (row.until = NoEnd \/ hour < row.until)

\* The agent's hold ends what is over already, and keeps what is in force.
ApiHold ==
    /\ ~InForce
    /\ Accept([route |-> "override", order |-> Cleared, seen |-> saved])

Committed(order) ==
    /\ row' = Copied(order, Timed(order))
    /\ rowLasts' = order.lasts
    /\ Send(order)

CommitOverride ==
    \E request \in pending :
        /\ request.route = "override"
        /\ pending' = pending \ {request}
        /\ Committed(request.order)
        /\ UNCHANGED <<hour, saved, stale, held, storing, controlled, crossed>>

ClearBatteryOverride ==
    /\ Committed(Cleared)
    /\ UNCHANGED <<hour, saved, stale, pending, held, storing, controlled, crossed>>

(***************************************************************************)
(* Settings.                                                               *)
(***************************************************************************)
Merged(s, data) == [key \in DOMAIN s |-> IF key \in DOMAIN data THEN data[key] ELSE s[key]]
Derived(s) == s.inverter_poll_interval_s + s.goodwe_poll_interval_grace_s
InRange(data) == \A key \in DOMAIN data : data[key] \in Ranges[key][1]..Ranges[key][2]
Ordered(s) == s.stop_w <= s.start_w /\ s.soc_floor < s.soc_ceiling

\* The migrations fill the table with settings in order.
ASSUME DeskConstants == Ordered(FirstSettings)

\* Mutant: only what is sent is compared.
AcceptableAlone(s, data) ==
    /\ InRange(data)
    /\ {"stop_w", "start_w"} \subseteq DOMAIN data => data.stop_w <= data.start_w
    /\ {"soc_floor", "soc_ceiling"} \subseteq DOMAIN data => data.soc_floor < data.soc_ceiling

Acceptable(s, data) == InRange(data) /\ Ordered(Merged(s, data))

UpdateBatterySettings ==
    \E data \in Updates :
        /\ Acceptable(saved, data)
        /\ Accept([route |-> "settings", data |-> data, seen |-> saved])

\* What is derived comes from the settings that were read.
CommitSettings ==
    \E request \in pending :
        /\ request.route = "settings"
        /\ pending' = pending \ {request}
        /\ saved' = Merged(saved, request.data)
        /\ stale' = Derived(Merged(request.seen, request.data))
        /\ crossed' = (crossed \/ request.seen # saved)
        /\ Send(Reload)
        /\ UNCHANGED <<hour, row, rowLasts, held, storing, controlled>>

(***************************************************************************)
(* The strategy service: whatever the mode, a message replaces its         *)
(* override, and only a pause has an end.  The row is written a little     *)
(* later, with what is current then.                                       *)
(***************************************************************************)
Takes(copy) == held' = copy /\ storing' = TRUE

PauseEnd(order) == IF order.mode = "pause" THEN Timed(order) ELSE NoEnd

StrategyReceives ==
    /\ queue["strategy"] # <<>>
    /\ queue' = [queue EXCEPT !["strategy"] = Tail(@)]
    /\ Takes(Copied(Head(queue["strategy"]), PauseEnd(Head(queue["strategy"]))))
    /\ UNCHANGED <<hour, row, rowLasts, saved, stale, pending, controlled, sent, apart, crossed>>

\* Mutant: an end that the row has is kept.
StrategyPersistsOver ==
    /\ storing /\ storing' = FALSE
    /\ row' = [held EXCEPT !.until = IF row.until # NoEnd THEN row.until ELSE @]
    /\ UNCHANGED <<hour, rowLasts, saved, stale, pending, queue, held, controlled, sent, apart, crossed>>

StrategyPersists ==
    /\ storing /\ storing' = FALSE
    /\ row' = held
    /\ UNCHANGED <<hour, rowLasts, saved, stale, pending, queue, held, controlled, sent, apart, crossed>>

StrategyExpires ==
    /\ held.until # NoEnd /\ hour >= held.until
    /\ Takes(NoCopy)
    /\ UNCHANGED <<hour, row, rowLasts, saved, stale, pending, queue, controlled, sent, apart, crossed>>

\* An exempt override ends when the battery turned away from it.
StrategyCycleEnds ==
    /\ held.exempt /\ held.mode \in {"force_charge", "force_discharge"}
    /\ Takes(NoCopy)
    /\ UNCHANGED <<hour, row, rowLasts, saved, stale, pending, queue, controlled, sent, apart, crossed>>

StrategyRestarts ==
    /\ held' = row /\ storing' = FALSE
    /\ queue' = [queue EXCEPT !["strategy"] = <<>>]
    /\ apart' = (apart \/ queue["strategy"] # <<>> \/ storing)
    /\ UNCHANGED <<hour, row, rowLasts, saved, stale, pending, controlled, sent, crossed>>

(***************************************************************************)
(* The control service.                                                    *)
(***************************************************************************)
Readable == {"none", "force_on", "force_charge", "force_off", "force_idle", "force_discharge", "pause"}

Running == controlled # Crashed

ControlReceives ==
    /\ Running /\ queue["control"] # <<>>
    /\ queue' = [queue EXCEPT !["control"] = Tail(@)]
    /\ LET order == Head(queue["control"]) IN
       controlled' = IF order = Reload THEN [mode |-> "none", until |-> NoEnd]
                     ELSE [mode |-> order.mode, until |-> PauseEnd(order)]
    /\ UNCHANGED <<hour, row, rowLasts, saved, stale, pending, held, storing, sent, apart, crossed>>

ControlPauseEnds ==
    /\ controlled.mode = "pause" /\ controlled.until # NoEnd /\ hour >= controlled.until
    /\ controlled' = [mode |-> "none", until |-> NoEnd]
    /\ UNCHANGED <<hour, row, rowLasts, saved, stale, pending, queue, held, storing, sent, apart, crossed>>

\* The start takes the row for a command, with its whole duration, and
\* fails with a mode it does not know.
ControlRestarts ==
    /\ Running
    /\ controlled' = IF row.mode \notin Readable THEN Crashed
                     ELSE [mode |-> row.mode,
                           until |-> IF row.mode = "pause" /\ rowLasts # NoEnd THEN hour + rowLasts ELSE NoEnd]
    /\ queue' = [queue EXCEPT !["control"] = <<>>]
    /\ apart' = (apart \/ queue # [c \in Consumers |-> <<>>] \/ storing)
    /\ UNCHANGED <<hour, row, rowLasts, saved, stale, pending, held, storing, sent, crossed>>

Hour ==
    /\ hour < LastHour
    /\ hour' = hour + 1
    /\ UNCHANGED <<row, rowLasts, saved, stale, pending, queue, held, storing, controlled, sent, apart, crossed>>

DeskInit ==
    /\ hour = 0 /\ row = NoCopy /\ rowLasts = NoEnd
    /\ saved = FirstSettings /\ stale = Derived(FirstSettings)
    /\ pending = {} /\ queue = [c \in Consumers |-> <<>>]
    /\ held = NoCopy /\ storing = FALSE
    /\ controlled = [mode |-> "none", until |-> NoEnd]
    /\ sent = 0 /\ apart = FALSE /\ crossed = FALSE

DeskNext ==
    \/ SetBatteryOverride \/ ApiHold \/ CommitOverride \/ ClearBatteryOverride
    \/ UpdateBatterySettings \/ CommitSettings
    \/ StrategyReceives \/ StrategyPersists \/ StrategyExpires \/ StrategyCycleEnds \/ StrategyRestarts
    \/ ControlReceives \/ ControlPauseEnds \/ ControlRestarts
    \/ Hour

DeskSpec == DeskInit /\ [][DeskNext]_deskVars

(***************************************************************************)
(* Properties.                                                             *)
(***************************************************************************)
Quiet == queue = [c \in Consumers |-> <<>>] /\ ~storing

\* When nothing is on its way the row is the strategy's copy, whatever the
\* API wrote there (override.py:67), and the controller has the mode of the
\* strategy unless one of them ended it alone: the strategy an exempt or
\* paused one, the controller a paused one, or one that a settings reload
\* took away.  Only a lost message and a service that restarted with
\* messages on their way leave the copies apart.
OverridesAgree ==
    Quiet /\ ~apart /\ Running =>
        /\ row = held
        /\ \/ controlled.mode = held.mode
           \/ held.mode = "none"
           \/ controlled.mode = "none" /\ held.mode \in {"pause", "reload_settings"}

\* The settings are in order, and the stale time is the sum of its two parts,
\* unless two updates overlapped: each was validated and derived against
\* what it had read (battery.py:426).
SettingsInOrder == ~crossed => Ordered(saved) /\ stale = Derived(saved)

\* The control service can start with whatever override is stored: the row
\* holds a mode that it reads.
ControlStarts == Running
=============================================================================
