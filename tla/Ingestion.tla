------------------------------ MODULE Ingestion ------------------------------
(***************************************************************************)
(* The ingestion service (ingestion/main.py, sensors/dsmr.py): the network *)
(* thread of the meter's client collects readings and, once every required *)
(* topic was heard, hands every sample to the service, which publishes it  *)
(* and then creates a task that would store it in the database.            *)
(*                                                                         *)
(* The task is created in that network thread, where no event loop runs:   *)
(* asyncio.create_task raises there, the client does not suppress what a   *)
(* callback raises, and the thread ends.  Nothing starts it again, and the *)
(* code that would store a sample is never reached.                        *)
(***************************************************************************)
EXTENDS Integers

CONSTANTS
    RequiredTopics, DeliveredTopic, ReturnedTopic,   \* the topics of the meter
    MeterReadings                                    \* what it says of them

VARIABLES
    meter,       \* what the meter said last of each topic
    reader,      \* the network thread of the meter's client: "running", "dead"
    values,      \* _values
    uplink,      \* the connection to the Minyad broker
    net,         \* the power published last
    sampled      \* the values of the sample that was processed last

ingestionVars == <<meter, reader, values, uplink, net, sampled>>

Absent == -1
NothingSaid == [t \in RequiredTopics |-> Absent]

Ready(v) == \A t \in RequiredTopics : v[t] # Absent
NetOf(v) == v[DeliveredTopic] - v[ReturnedTopic]

\* Without a connection the publications of a sample are lost.
PublishUpdate(v) ==
    /\ sampled' = v
    /\ net' = IF uplink THEN NetOf(v) ELSE net

\* create_task raises when the sample has been counted and published.
Emit(v) ==
    /\ PublishUpdate(v)
    /\ reader' = "dead"

\* A payload that is no number is dropped, a timestamp that is none replaced.
OnMessage(topic, reading) ==
    /\ values' = [values EXCEPT ![topic] = reading]
    /\ IF Ready(values') THEN Emit(values') ELSE UNCHANGED <<reader, net, sampled>>

MeterMessage ==
    \E topic \in RequiredTopics, reading \in MeterReadings :
        /\ meter' = [meter EXCEPT ![topic] = reading]
        /\ IF reader = "running" THEN OnMessage(topic, reading) ELSE UNCHANGED <<values, reader, net, sampled>>
        /\ UNCHANGED uplink

Uplink ==
    /\ uplink' = ~uplink
    /\ UNCHANGED <<meter, reader, values, net, sampled>>

IngestionInit ==
    /\ reader = "running" /\ uplink = FALSE
    /\ meter = NothingSaid /\ values = NothingSaid /\ sampled = NothingSaid
    /\ net = Absent

IngestionNext == MeterMessage \/ Uplink

IngestionSpec == IngestionInit /\ [][IngestionNext]_ingestionVars

(***************************************************************************)
(* Properties.                                                             *)
(***************************************************************************)

\* Once the meter has spoken on every topic, what it says is processed: the
\* time of "the most recent processed sensor sample" is the "primary
\* staleness signal" of the ingestion (docs/monitoring.md:30), which counts
\* every sample (ingestion/main.py:139).
SamplesGoOn == Ready(meter) => sampled = meter
=============================================================================
