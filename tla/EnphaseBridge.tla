---------------------------- MODULE EnphaseBridge ----------------------------
(***************************************************************************)
(* The bridge from the solar gateway to MQTT                               *)
(* (host-services/enphase_bridge.py): two asyncio loops poll the gateway,  *)
(* one for the production and one for the inverters, and share the status  *)
(* topic and the last production.  A poll runs in a thread of its own; the *)
(* network thread of the client reports the connection.                    *)
(*                                                                         *)
(* An inverter's report is [serial, array, watts]; the gateway answers     *)
(* with a production (or without one), with a list of reports, with an     *)
(* error of the request or of the authorisation, or with something that    *)
(* cannot be read.                                                         *)
(***************************************************************************)
EXTENDS Integers, FiniteSetsExt

CONSTANTS
    Productions,       \* the productions the gateway may answer, NoWatts among them
    InverterReports,   \* the sets of reports it may answer
    PollIntervals,     \* [production, inverter], the intervals of success
    MaxBackoff,        \* 60 s
    LastMoment         \* bound of the clock

NoWatts == -1
NoSerial == "no serial"
Loops == {"production", "inverter"}

VARIABLES
    moment,                       \* the clock
    polling,                      \* the loops that wait for an answer
    nextPoll, backoff,            \* when each loop polls again, its backoff
    lastProduction,               \* last_production_w
    link, sunStatus, sunWatts,    \* the connection, the retained topics status and production_w
    shutdown, ended, closed,      \* shutdown_event, the loops that returned, the client stopped
    revived                       \* connected after the end was told

enphaseVars == <<moment, polling, nextPoll, backoff, lastProduction, link, sunStatus, sunWatts,
                 shutdown, ended, closed, revived>>

(***************************************************************************)
(* The answers.                                                            *)
(***************************************************************************)
ProductionOf(answer) == IF answer = NoWatts THEN lastProduction ELSE answer

Counted(reports) == {r \in reports : r.serial # NoSerial}
Arrays(reports) == {r.array : r \in Counted(reports)}
ArrayTotal(reports, array) ==
    MapThenSumSet(LAMBDA r : r.watts, {r \in Counted(reports) : r.array = array})
TotalProduction(reports) ==
    MapThenSumSet(LAMBDA a : ArrayTotal(reports, a), Arrays(reports))

(***************************************************************************)
(* The end of a poll.                                                      *)
(***************************************************************************)
Sent(old, new) == IF link THEN new ELSE old

Rested(loop, after) ==
    /\ polling' = polling \ {loop}
    /\ nextPoll' = [nextPoll EXCEPT ![loop] = moment + after]

Produced(watts) ==
    /\ lastProduction' = watts
    /\ sunWatts' = Sent(sunWatts, watts)

Succeeded(loop) ==
    /\ sunStatus' = Sent(sunStatus, "online")
    /\ backoff' = [backoff EXCEPT ![loop] = 1]
    /\ Rested(loop, PollIntervals[loop])
    /\ UNCHANGED <<moment, link, shutdown, ended, closed, revived>>

ProductionRead ==
    \E answer \in Productions :
        /\ "production" \in polling
        /\ IF ProductionOf(answer) = NoWatts THEN UNCHANGED <<lastProduction, sunWatts>>
           ELSE Produced(ProductionOf(answer))
        /\ Succeeded("production")

InvertersRead ==
    \E reports \in InverterReports :
        /\ "inverter" \in polling
        /\ Produced(TotalProduction(reports))
        /\ Succeeded("inverter")

Failed(loop) ==
    /\ loop \in polling
    /\ sunStatus' = Sent(sunStatus, "error")
    /\ UNCHANGED <<moment, lastProduction, link, sunWatts, shutdown, ended, closed, revived>>

\* A failed request is retried soon, then later and later.
RequestFails ==
    \E loop \in Loops :
        /\ Failed(loop)
        /\ backoff' = [backoff EXCEPT ![loop] = Min({2 * @, MaxBackoff})]
        /\ Rested(loop, Min({backoff[loop], MaxBackoff}))

\* Other errors keep the interval and the backoff.
OtherwiseFails ==
    \E loop \in Loops :
        /\ Failed(loop)
        /\ Rested(loop, PollIntervals[loop])
        /\ UNCHANGED backoff

(***************************************************************************)
(* The loops, the connection and the shutdown.                             *)
(***************************************************************************)
Poll ==
    \E loop \in Loops \ (polling \cup ended) :
        /\ ~shutdown /\ moment >= nextPoll[loop]
        /\ polling' = polling \cup {loop}
        /\ UNCHANGED <<moment, nextPoll, backoff, lastProduction, link, sunStatus, sunWatts,
                       shutdown, ended, closed, revived>>

\* A poll in progress ends before its loop does.
LoopEnds ==
    \E loop \in Loops \ (polling \cup ended) :
        /\ shutdown
        /\ ended' = ended \cup {loop}
        /\ UNCHANGED <<moment, polling, nextPoll, backoff, lastProduction, link, sunStatus, sunWatts,
                       shutdown, closed, revived>>

Connect ==
    /\ ~link /\ closed # "yes"
    /\ link' = TRUE
    /\ sunStatus' = "online"
    /\ revived' = (closed = "told")
    /\ UNCHANGED <<moment, polling, nextPoll, backoff, lastProduction, sunWatts,
                   shutdown, ended, closed>>

\* The broker publishes the will.
ConnectionLost ==
    /\ link
    /\ link' = FALSE
    /\ sunStatus' = "error"
    /\ UNCHANGED <<moment, polling, nextPoll, backoff, lastProduction, sunWatts,
                   shutdown, ended, closed, revived>>

RequestShutdown ==
    /\ ~shutdown
    /\ shutdown' = TRUE
    /\ UNCHANGED <<moment, polling, nextPoll, backoff, lastProduction, link, sunStatus, sunWatts,
                   ended, closed, revived>>

\* Mutant: the bridge leaves as soon as one loop has ended.
LeftEarly ==
    /\ ended # {} /\ closed = "no"
    /\ closed' = "told"
    /\ sunStatus' = Sent(sunStatus, "error")
    /\ UNCHANGED <<moment, polling, nextPoll, backoff, lastProduction, link, sunWatts,
                   shutdown, ended, revived>>

Left ==
    /\ ended = Loops /\ closed = "no"
    /\ closed' = "told"
    /\ sunStatus' = Sent(sunStatus, "error")
    /\ UNCHANGED <<moment, polling, nextPoll, backoff, lastProduction, link, sunWatts,
                   shutdown, ended, revived>>

Closed ==
    /\ closed = "told"
    /\ closed' = "yes" /\ link' = FALSE
    /\ UNCHANGED <<moment, polling, nextPoll, backoff, lastProduction, sunStatus, sunWatts,
                   shutdown, ended, revived>>

Moment ==
    /\ moment < LastMoment
    /\ moment' = moment + 1
    /\ UNCHANGED <<polling, nextPoll, backoff, lastProduction, link, sunStatus, sunWatts,
                   shutdown, ended, closed, revived>>

EnphaseInit ==
    /\ moment = 0
    /\ polling = {} /\ ended = {} /\ shutdown = FALSE /\ closed = "no"
    /\ nextPoll = [l \in Loops |-> 0] /\ backoff = [l \in Loops |-> 1]
    /\ lastProduction = NoWatts
    /\ link = FALSE /\ sunStatus = "error" /\ sunWatts = NoWatts
    /\ revived = FALSE

EnphaseNext ==
    \/ Poll \/ ProductionRead \/ InvertersRead \/ RequestFails \/ OtherwiseFails
    \/ LoopEnds \/ Connect \/ ConnectionLost \/ RequestShutdown \/ Left \/ Closed \/ Moment

\* A request has a timeout, so every poll ends; the event ends every wait.
EnphaseFairness ==
    /\ WF_enphaseVars(ProductionRead \/ RequestFails \/ OtherwiseFails \/ InvertersRead)
    /\ WF_enphaseVars(LoopEnds) /\ WF_enphaseVars(Left) /\ WF_enphaseVars(Closed)

EnphaseSpec == EnphaseInit /\ [][EnphaseNext]_enphaseVars /\ EnphaseFairness

(***************************************************************************)
(* Properties.                                                             *)
(***************************************************************************)

\* A shutdown ends both loops and leaves an error status behind
\* (enphase_bridge.py:382), whatever they publish to the topic they share
\* while they end: only a connection made between that word and the end of
\* the client revives it.
ShutdownEnds == shutdown ~> (closed = "yes" /\ (sunStatus = "error" \/ revived))
=============================================================================
