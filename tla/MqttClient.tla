------------------------------ MODULE MqttClient ------------------------------
(***************************************************************************)
(* The client that every service talks to the broker with                  *)
(* (shared/mqtt_client.py).  A thread connects and runs the network loop;  *)
(* the service subscribes from a thread of its own.  A subscription is     *)
(* written down under the lock first and requested then; the network       *)
(* thread requests again everything that is written down, one topic after  *)
(* the other, whenever a connection is accepted.                           *)
(*                                                                         *)
(* The sessions are clean: the broker forgets the subscriptions of a lost  *)
(* connection, and a request without a socket is lost.                     *)
(***************************************************************************)
EXTENDS Naturals

CONSTANTS Topics, MaxConnections

VARIABLES
    network,        \* the connection thread: "none", "running", "dead"
    session,        \* "closed", "opening", "open", "refused"
    connected,      \* _connected
    registered,     \* _subscriptions
    requesting,     \* the topics written down and not yet requested
    resubscribing,  \* what the callback of the connection has still to request
    subscribed,     \* what the broker delivers
    connections     \* _connect_count

mqttVars == <<network, session, connected, registered, requesting, resubscribing, subscribed, connections>>

HasSocket == session # "closed"

MqttStart ==
    /\ network # "running"
    /\ network' = "running"
    /\ session' = "closed" /\ subscribed' = {}
    /\ UNCHANGED <<connected, registered, requesting, resubscribing, connections>>

(***************************************************************************)
(* The service's thread.                                                   *)
(***************************************************************************)
Register ==
    \E topic \in Topics \ registered :
        /\ requesting = {}
        /\ registered' = registered \cup {topic}
        /\ requesting' = {topic}
        /\ UNCHANGED <<network, session, connected, resubscribing, subscribed, connections>>

Request ==
    \E topic \in requesting :
        /\ requesting' = {}
        /\ subscribed' = IF HasSocket THEN subscribed \cup {topic} ELSE subscribed
        /\ UNCHANGED <<network, session, connected, registered, resubscribing, connections>>

(***************************************************************************)
(* The network thread.                                                     *)
(***************************************************************************)
Open ==
    /\ network = "running" /\ session = "closed" /\ connections < MaxConnections
    /\ session' = "opening"
    /\ UNCHANGED <<network, connected, registered, requesting, resubscribing, subscribed, connections>>

\* The callback does not look at the answer of the broker.
Answered(answer) ==
    /\ network = "running" /\ session = "opening"
    /\ session' = answer
    /\ connected' = TRUE
    /\ connections' = connections + 1
    /\ resubscribing' = registered

\* Mutant: a broker that knows the client is not asked again.
AcceptedOnce ==
    /\ network = "running" /\ session = "opening"
    /\ session' = "open" /\ connected' = TRUE /\ connections' = connections + 1
    /\ resubscribing' = IF connections = 0 THEN registered ELSE {}
    /\ UNCHANGED <<network, registered, requesting, subscribed>>

Accepted ==
    /\ Answered("open")
    /\ UNCHANGED <<network, registered, requesting, subscribed>>

Refused ==
    /\ Answered("refused")
    /\ UNCHANGED <<network, registered, requesting, subscribed>>

Resubscribe ==
    \E topic \in resubscribing :
        /\ network = "running"
        /\ resubscribing' = resubscribing \ {topic}
        /\ subscribed' = IF HasSocket THEN subscribed \cup {topic} ELSE subscribed
        /\ UNCHANGED <<network, session, connected, registered, requesting, connections>>

\* The loss is seen, and reported, between two callbacks.
SessionLost ==
    /\ network = "running" /\ HasSocket /\ resubscribing = {}
    /\ session' = "closed" /\ subscribed' = {}
    /\ connected' = FALSE
    /\ UNCHANGED <<network, registered, requesting, resubscribing, connections>>

\* A handler that raises ends the thread, which reports nothing any more.
HandlerRaises ==
    /\ network = "running" /\ session = "open" /\ resubscribing = {}
    /\ subscribed \cap registered # {}
    /\ network' = "dead"
    /\ UNCHANGED <<session, connected, registered, requesting, resubscribing, subscribed, connections>>

\* Without the thread nothing keeps the session alive.
BrokerForgets ==
    /\ network = "dead" /\ subscribed # {}
    /\ subscribed' = {}
    /\ UNCHANGED <<network, session, connected, registered, requesting, resubscribing, connections>>

MqttInit ==
    /\ network = "none" /\ session = "closed" /\ connected = FALSE /\ connections = 0
    /\ registered = {} /\ requesting = {} /\ resubscribing = {} /\ subscribed = {}

MqttNext ==
    \/ MqttStart \/ Register \/ Request
    \/ Open \/ Accepted \/ Refused \/ Resubscribe \/ SessionLost \/ HandlerRaises \/ BrokerForgets

MqttSpec == MqttInit /\ [][MqttNext]_mqttVars

(***************************************************************************)
(* Properties.                                                             *)
(***************************************************************************)

\* Whichever side of the connection a subscription was made on, and however
\* often the connection was lost: while the thread runs, an open session whose
\* callback is through delivers every topic that is written down
\* (mqtt_client.py:76, :168).
RegisteredIsSubscribed ==
    network = "running" /\ session = "open" /\ resubscribing = {} => registered \subseteq subscribed \cup requesting
=============================================================================
