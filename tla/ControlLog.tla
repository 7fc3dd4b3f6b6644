------------------------------ MODULE ControlLog ------------------------------
(***************************************************************************)
(* setpoint_log: the strategy service and the GoodWe bridge write it, each *)
(* in a transaction of its own, and the API shows it in pages              *)
(* (api/routers/settings.py:259) and in windows of time, as it does the    *)
(* other logs (api/routers/agent.py:150).                                  *)
(*                                                                         *)
(* The database stamps a row with the time its transaction began, so that  *)
(* a row may appear behind others that are newer.  Nobody deletes or       *)
(* changes a row.  A row has the setpoint and its difference to the one    *)
(* that was noted before: the bridge notes what it tried to write, the     *)
(* strategy what was written.                                              *)
(***************************************************************************)
EXTENDS Integers, FiniteSetsExt

CONSTANTS
    LogTargets,   \* the pairs <<charge, discharge>> the bridge decides on
    Setpoints,    \* of the strategy
    PageSizes,    \* what a reader asks for
    MostRows,     \* the largest page and window the API allows
    LastMinute, MaxRows   \* bounds

ASSUME LogConstants ==
    /\ MostRows \in Nat \ {0} /\ PageSizes \subseteq Nat \ {0}
    /\ LogTargets \subseteq Int \X Int /\ Setpoints \subseteq Int

Sources == {"strategy_v2", "goodwe_bridge"}
NotOpen == [at |-> -1, setpoint |-> 0]

VARIABLES
    minute,
    logged,     \* the rows [id, at, source, setpoint, delta, broken, late]
    opened,     \* the transaction of a writer, or NotOpen
    noted,      \* the setpoint a writer noted last
    broken,     \* a writer noted another setpoint than it wrote, or restarted
    consumer,     \* "pages" or "windows": who reads
    offset,     \* of the next page
    owed,       \* the ids there were at the first page that no page showed
    until,      \* the end of the last window
    caught      \* the ids the windows showed, or left out for newer ones

logVars == <<minute, logged, opened, noted, broken, consumer, offset, owed, until, caught>>
readerVars == <<consumer, offset, owed, until, caught>>

Idents(some) == {r.id : r \in some}

(***************************************************************************)
(* The writers.                                                            *)
(***************************************************************************)
\* What the bridge says it did: the direction of its targets, or without
\* one the direction the control service is in, as a signed setpoint.
LoggedSetpoint(targets, control) ==
    CASE targets[1] > 0 /\ targets[2] <= 0 -> targets[1]
      [] targets[2] > 0 /\ targets[1] <= 0 -> -targets[2]
      [] (targets[1] > 0) = (targets[2] > 0) /\ control = "CHARGING" -> targets[1]
      [] (targets[1] > 0) = (targets[2] > 0) /\ control = "DISCHARGING" -> -targets[2]
      [] OTHER -> 0

Decided(source) ==
    IF source = "strategy_v2" THEN Setpoints
    ELSE {LoggedSetpoint(t, c) : t \in LogTargets, c \in {"IDLE", "CHARGING", "DISCHARGING"}}

OpenTransaction ==
    \E source \in Sources : \E setpoint \in Decided(source) :
        /\ opened[source] = NotOpen
        /\ Cardinality(logged) < MaxRows
        /\ opened' = [opened EXCEPT ![source] = [at |-> minute, setpoint |-> setpoint]]
        /\ UNCHANGED <<minute, logged, noted, broken, readerVars>>

Row(source) ==
    [id |-> Cardinality(logged) + 1, at |-> opened[source].at, source |-> source,
     setpoint |-> opened[source].setpoint, delta |-> opened[source].setpoint - noted[source],
     broken |-> broken[source], late |-> opened[source].at < until]

InsertSetpointLog ==
    \E source \in Sources :
        /\ opened[source] # NotOpen
        /\ logged' = logged \cup {Row(source)}
        /\ opened' = [opened EXCEPT ![source] = NotOpen]
        /\ noted' = [noted EXCEPT ![source] = opened[source].setpoint]
        /\ broken' = [broken EXCEPT ![source] = FALSE]
        /\ UNCHANGED <<minute, readerVars>>

InsertFails ==
    \E source \in Sources :
        /\ opened[source] # NotOpen
        /\ opened' = [opened EXCEPT ![source] = NotOpen]
        /\ IF source = "goodwe_bridge"
           THEN /\ noted' = [noted EXCEPT ![source] = opened[source].setpoint]
                /\ broken' = [broken EXCEPT ![source] = TRUE]
           ELSE UNCHANGED <<noted, broken>>
        /\ UNCHANGED <<minute, logged, readerVars>>

\* One that ends in a transaction has failed to write before.
WriterRestarts ==
    \E source \in Sources :
        /\ opened[source] = NotOpen /\ noted[source] # 0
        /\ noted' = [noted EXCEPT ![source] = 0]
        /\ broken' = [broken EXCEPT ![source] = TRUE]
        /\ UNCHANGED <<minute, logged, opened, readerVars>>

(***************************************************************************)
(* The pages: newest first, the later row of one moment before the earlier *)
(***************************************************************************)
Before(a, b) == a.at > b.at \/ (a.at = b.at /\ a.id > b.id)

Behind(r) == Cardinality({other \in logged : Before(other, r)})

Rows(from, size) == {r \in logged : Behind(r) \in from..(from + size - 1)}

\* Mutant: a page that is too large is cut to the largest there is.
ReportingDecisionsCut(size) == Rows(offset, Min({size, MostRows}))

\* A page that is too large is refused, before anything is read.
ReportingDecisions(size) == IF size <= MostRows THEN Rows(offset, size) ELSE {}

ReadPage ==
    \E size \in PageSizes :
        /\ consumer = "pages"
        /\ offset < Cardinality(logged)
        /\ ReportingDecisions(size) # {}
        /\ owed' = (IF offset = 0 THEN Idents(logged) ELSE owed) \ Idents(ReportingDecisions(size))
        /\ offset' = offset + size
        /\ UNCHANGED <<minute, logged, opened, noted, broken, consumer, until, caught>>

(***************************************************************************)
(* The windows: of the rows of a time, the ends included, the newest.  The *)
(* reader asks for the time since its last window.                         *)
(***************************************************************************)
AgentOperationalLogs(since) == {r \in logged : r.at \in since..minute}

Newest1(some, limit) == {r \in some : Cardinality({other \in some : Before(other, r)}) < limit}

ReadLogs ==
    /\ consumer = "windows"
    /\ LET window == AgentOperationalLogs(Max({until, 0}))
           shown == Newest1(window, MostRows)
       IN  caught' = caught \cup Idents(shown)
             \cup Idents({r \in window \ shown : \A other \in shown : Before(other, r)})
    /\ until' = minute
    /\ UNCHANGED <<minute, logged, opened, noted, broken, consumer, offset, owed>>

MinutePasses ==
    /\ minute < LastMinute /\ minute' = minute + 1
    /\ UNCHANGED <<logged, opened, noted, broken, readerVars>>

LogInit ==
    /\ minute = 0 /\ logged = {}
    /\ opened = [w \in Sources |-> NotOpen] /\ noted = [w \in Sources |-> 0] /\ broken = [w \in Sources |-> FALSE]
    /\ consumer \in {"pages", "windows"}
    /\ offset = 0 /\ owed = {} /\ until = -1 /\ caught = {}

LogNext ==
    \/ OpenTransaction \/ InsertSetpointLog \/ InsertFails \/ WriterRestarts
    \/ ReadPage \/ ReadLogs \/ MinutePasses

LogSpec == LogInit /\ [][LogNext]_logVars

(***************************************************************************)
(* Properties.                                                             *)
(***************************************************************************)

\* The row of a writer before this one, and what it set.
Earlier(r) == {other \in logged : other.source = r.source /\ other.id < r.id}
SetBefore(r) ==
    IF Earlier(r) = {} THEN 0
    ELSE (CHOOSE p \in Earlier(r) : \A q \in Earlier(r) : q.id <= p.id).setpoint

\* Who reads page after page misses no row that was there at the first page,
\* although rows appear before and between the pages meanwhile
\* (settings.py:271); who asks for the time since the last answer misses
\* only rows beyond the limit and rows whose transaction had begun but not
\* ended by then (agent.py:171); and the differences of a writer add up from
\* row to row unless it restarted or the bridge failed to write one
\* (goodwe_bridge.py:653).
LogsAreWhole ==
    /\ \A r \in logged : r.id \in owed => Behind(r) >= offset
    /\ \A r \in logged : r.at < until => r.id \in caught \/ r.late
    /\ \A r \in logged : ~r.broken => r.setpoint - r.delta = SetBefore(r)
=============================================================================
