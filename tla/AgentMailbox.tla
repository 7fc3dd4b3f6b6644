---------------------------- MODULE AgentMailbox ----------------------------
(***************************************************************************)
(* The mailbox of the agent and the operator (api/routers/agent.py,        *)
(* migrate/alembic/versions/0013_agent_messages.py).  A message answers    *)
(* another one, its thread, or starts a thread of its own; the database    *)
(* refuses an answer to nothing and the deletion of what was answered.     *)
(* Each request is one statement and its commit.                           *)
(***************************************************************************)
EXTENDS Integers, FiniteSetsExt

CONSTANTS MaxMessages, ListLimit   \* a bound; the limit of a list

ASSUME MailConstants == MaxMessages \in Nat /\ ListLimit \in Nat

Actors == {"agent", "operator"}
NoThread == 0
Ids == 1..MaxMessages

VARIABLES
    inbox,      \* agent_messages: the ids that exist
    letters,    \* what was written under an id
    written     \* the ids given away

mailVars == <<inbox, letters, written>>

Unwritten == [sender |-> "agent", thread |-> NoThread, read |-> FALSE, archived |-> FALSE, acks |-> {}]

CreateAgentMessage ==
    \E sender \in Actors, thread \in inbox \cup {NoThread} :
        /\ written < MaxMessages
        /\ written' = written + 1
        /\ inbox' = inbox \cup {written + 1}
        /\ letters' = [letters EXCEPT ![written + 1] =
                         [Unwritten EXCEPT !.sender = sender, !.thread = thread, !.acks = {sender}]]

\* What the operator wrote is acknowledged by the agent that reads it.
MarkAgentMessageRead ==
    \E id \in inbox :
        /\ letters' = [letters EXCEPT ![id].read = TRUE,
                         ![id].acks = IF letters[id].sender = "operator" THEN @ \cup {"agent"} ELSE @]
        /\ UNCHANGED <<inbox, written>>

ArchiveAgentMessage ==
    \E id \in inbox :
        /\ letters' = [letters EXCEPT ![id].archived = TRUE]
        /\ UNCHANGED <<inbox, written>>

AcknowledgeAgentMessage ==
    \E id \in inbox, actor \in Actors :
        /\ letters' = [letters EXCEPT ![id].acks = @ \cup {actor}]
        /\ UNCHANGED <<inbox, written>>

\* Mutant: the database lets an answered message go.
DeleteAnsweredMessage ==
    \E id \in inbox :
        /\ inbox' = inbox \ {id}
        /\ UNCHANGED <<letters, written>>

\* A message that was answered stays: the request fails.
DeleteAgentMessage ==
    \E id \in inbox :
        /\ \A other \in inbox : letters[other].thread # id
        /\ inbox' = inbox \ {id}
        /\ UNCHANGED <<letters, written>>

(***************************************************************************)
(* The views.                                                              *)
(***************************************************************************)
RootOf(id) == IF letters[id].thread = NoThread THEN id ELSE letters[id].thread

GetAgentMessage(id) ==
    LET root == RootOf(id) IN {other \in inbox : other = root \/ letters[other].thread = root}

Newest(ids) == {id \in ids : Cardinality({other \in ids : other > id}) < ListLimit}

\* What is unread and not archived, of one sender.
ListAgentMessages(sender) ==
    Newest({id \in inbox : letters[id].sender = sender /\ ~letters[id].read /\ ~letters[id].archived})

AgentMessagesUnreadCount(sender) ==
    Cardinality({id \in inbox : ~letters[id].read /\ ~letters[id].archived /\ letters[id].sender = sender})

MailInit == inbox = {} /\ letters = [id \in Ids |-> Unwritten] /\ written = 0

MailNext ==
    \/ CreateAgentMessage \/ MarkAgentMessageRead \/ ArchiveAgentMessage
    \/ AcknowledgeAgentMessage \/ DeleteAgentMessage

MailSpec == MailInit /\ [][MailNext]_mailVars

(***************************************************************************)
(* Properties.                                                             *)
(***************************************************************************)

\* Every message is found in its own thread beside the message it answers,
\* in the same view for all that answer that one, however the two mail and
\* delete (agent.py:334, :400); and the count of the unread is the length of
\* their list, up to its limit (agent.py:320).
ThreadsAreWhole ==
    /\ \A id \in inbox :
         /\ {id, RootOf(id)} \subseteq GetAgentMessage(id)
         /\ \A other \in inbox : letters[other].thread = id =>
              other \in GetAgentMessage(other) /\ id \in GetAgentMessage(other)
    /\ \A sender \in Actors :
         Cardinality(ListAgentMessages(sender)) = Min({ListLimit, AgentMessagesUnreadCount(sender)})
=============================================================================
