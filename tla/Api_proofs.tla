---------------------------- MODULE Api_proofs ----------------------------
(***************************************************************************)
(* Theorems about the HTTP API, for any number of requests, messages,      *)
(* plans and publications: the overrides and the settings, the status      *)
(* cache, the mailbox of the agent, and what the views compute.            *)
(***************************************************************************)
EXTENDS OverrideDesk, SettingsRoutes, StatusCache, AgentMailbox, EnergyViews, PlanViews, DryadViews,
        Field_proofs, SequenceTheorems, WellFoundedInduction

(***************************************************************************)
(* The copies of an override.  What the strategy and the controller will   *)
(* have once they read all that is on its way is settled by the last       *)
(* message to each; the two agree on it from the moment a message reached  *)
(* both.                                                                   *)
(***************************************************************************)
Messages == Orders \cup {Cleared, Reload}

LastSent(c) == queue[c][Len(queue[c])]

HeldNext == IF queue["strategy"] = <<>> THEN held.mode ELSE LastSent("strategy").mode

ModeTaken(message) == IF message = Reload THEN "none" ELSE message.mode

ControlledNext == IF queue["control"] = <<>> THEN controlled.mode ELSE ModeTaken(LastSent("control"))

Agreeing(theirs, ours) ==
    \/ theirs = ours
    \/ ours = "none"
    \/ theirs = "none" /\ ours \in {"pause", "reload_settings"}

DeskTypes ==
    /\ queue \in [Consumers -> Seq(Messages)]
    /\ storing \in BOOLEAN /\ apart \in BOOLEAN
    /\ \A r \in pending : r.route = "override" => r.order \in Messages

CopiesInv ==
    ~apart =>
        /\ queue["strategy"] = <<>> /\ ~storing => row = held
        /\ Running => Agreeing(ControlledNext, HeldNext)

SettingsInv ==
    /\ SettingsInOrder
    /\ \A r \in pending : r.route = "settings" => Ordered(Merged(r.seen, r.data))

DeskInv == DeskTypes /\ CopiesInv /\ SettingsInv

LEMMA BoxAppend ==
    ASSUME NEW M, NEW box \in Seq(M), NEW m \in M
    PROVE  /\ Append(box, m) \in Seq(M) /\ Append(box, m) # <<>>
           /\ Append(box, m)[Len(Append(box, m))] = m
OBVIOUS

LEMMA BoxTail ==
    ASSUME NEW M, NEW box \in Seq(M), box # <<>>
    PROVE  /\ Tail(box) \in Seq(M) /\ Head(box) \in M
           /\ Tail(box) # <<>> => Tail(box)[Len(Tail(box))] = box[Len(box)]
           /\ Tail(box) = <<>> => Head(box) = box[Len(box)]
<1>1. Len(box) \in Nat /\ Len(box) >= 1 /\ Tail(box) \in Seq(M) /\ Head(box) \in M
      OBVIOUS
<1>2. Len(Tail(box)) = Len(box) - 1 /\ Head(box) = box[1]
      OBVIOUS
<1>3. \A i \in 1..Len(Tail(box)) : Tail(box)[i] = box[i + 1]
      OBVIOUS
<1> DEFINE n == Len(box)
           k == Len(Tail(box))
<1>4. k = 0 <=> Tail(box) = <<>>
  <2> DEFINE rest == Tail(box)
  <2>1. rest \in Seq(M)
        BY <1>1
  <2> HIDE DEF rest
  <2>2. Len(rest) = 0 <=> rest = <<>>
        BY <2>1
  <2>3. QED BY <2>2 DEF rest
<1>5. n \in Nat /\ n >= 1 /\ k = n - 1
      BY <1>1, <1>2
<1> HIDE DEF n, k
<1>6. ASSUME k # 0 PROVE Tail(box)[k] = box[n]
  <2>1. k \in 1..k /\ k + 1 = n
        BY <1>5, <1>6
  <2>2. Tail(box)[k] = box[k + 1]
        BY <1>3, <2>1 DEF k
  <2>3. QED BY <2>1, <2>2
<1>7. k = 0 => n = 1
      BY <1>5
<1>8. QED BY <1>1, <1>2, <1>4, <1>6, <1>7 DEF n, k

LEMMA DeskInvInit == DeskInit => DeskInv
<1> SUFFICES ASSUME DeskInit PROVE DeskInv
    OBVIOUS
<1>1. /\ queue = [c \in Consumers |-> <<>>] /\ held.mode = "none" /\ row = held
      /\ pending = {} /\ storing = FALSE /\ apart = FALSE
      /\ saved = FirstSettings /\ stale = Derived(FirstSettings)
      BY DEF DeskInit, NoCopy, Copied, Cleared
<1>2. queue["strategy"] = <<>>
      BY <1>1 DEF Consumers
<1>3. HeldNext = "none"
      BY <1>1, <1>2 DEF HeldNext
<1>4. queue \in [Consumers -> Seq(Messages)]
      BY <1>1
<1>5. DeskTypes
      BY <1>1, <1>4 DEF DeskTypes
<1>6. CopiesInv
      BY <1>1, <1>3 DEF CopiesInv, Agreeing
<1>7. SettingsInv
      BY <1>1, DeskConstants DEF SettingsInv, SettingsInOrder
<1>8. QED BY <1>5, <1>6, <1>7 DEF DeskInv

\* After a message that was sent the invariant holds, whatever held before.
LEMMA SendAgrees ==
    ASSUME DeskTypes, NEW m \in Messages, Send(m), UNCHANGED <<storing, controlled, held>>
    PROVE  /\ queue' \in [Consumers -> Seq(Messages)] /\ apart' \in BOOLEAN
           /\ CopiesInv'
<1>1. PICK reached \in SUBSET Consumers :
        /\ queue' = [c \in Consumers |-> IF c \in reached THEN Append(queue[c], m) ELSE queue[c]]
        /\ apart' = (reached # Consumers)
      BY DEF Send
<1>2. \A c \in Consumers : queue[c] \in Seq(Messages) /\ Append(queue[c], m) \in Seq(Messages)
      BY BoxAppend DEF DeskTypes
<1>3. queue' \in [Consumers -> Seq(Messages)]
      BY <1>1, <1>2
<1>4. CopiesInv'
  <2> SUFFICES ASSUME ~apart' PROVE CopiesInv'
      BY DEF CopiesInv
  <2>1. \A c \in Consumers : queue'[c] = Append(queue[c], m)
        BY <1>1
  <2>2. \A c \in Consumers : queue'[c] # <<>> /\ LastSent(c)' = m
        BY <1>2, <2>1, BoxAppend DEF LastSent
  <2>3. /\ queue'["strategy"] # <<>> /\ queue'["control"] # <<>>
        /\ LastSent("strategy")' = m /\ LastSent("control")' = m
        BY <2>2 DEF Consumers
  <2>4. HeldNext' = m.mode /\ ControlledNext' = ModeTaken(m)
        BY <2>3 DEF HeldNext, ControlledNext
  <2>5. Agreeing(ControlledNext', HeldNext')
        BY <2>4 DEF Agreeing, ModeTaken, Reload
  <2>6. QED BY <2>3, <2>5 DEF CopiesInv, Agreeing
<1>5. apart' \in BOOLEAN
      BY <1>1
<1>6. QED BY <1>3, <1>4, <1>5

\* A request that arrives was compared with the settings it read.
LEMMA ArrivalKeepsDesk ==
    ASSUME DeskInv, SetBatteryOverride \/ ApiHold \/ UpdateBatterySettings
    PROVE  DeskInv'
<1>1. ASSUME NEW request, Accept(request),
             request.route = "override" => request.order \in Messages,
             request.route = "settings" => Ordered(Merged(request.seen, request.data))
      PROVE  DeskInv'
  <2>1. /\ pending' = pending \cup {request}
        /\ UNCHANGED <<hour, row, rowLasts, saved, stale, queue, held, storing, controlled, sent, apart, crossed>>
        BY <1>1 DEF Accept
  <2>2. DeskTypes'
        BY <1>1, <2>1 DEF DeskInv, DeskTypes
  <2>3. CopiesInv'
        BY <2>1 DEF DeskInv, CopiesInv, Running, ControlledNext, HeldNext, LastSent
  <2>4. SettingsInv'
        BY <1>1, <2>1 DEF DeskInv, SettingsInv, SettingsInOrder
  <2>5. QED BY <2>2, <2>3, <2>4 DEF DeskInv
<1>2. CASE SetBatteryOverride
  <2>1. PICK order \in Orders : Accept([route |-> "override", order |-> order, seen |-> saved])
        BY <1>2 DEF SetBatteryOverride
  <2> DEFINE request == [route |-> "override", order |-> order, seen |-> saved]
  <2>2. request.route = "override" /\ request.order \in Messages /\ Accept(request)
        BY <2>1 DEF Messages
  <2> HIDE DEF request
  <2>3. QED BY <1>1, <2>2
<1>3. CASE ApiHold
  <2> DEFINE request == [route |-> "override", order |-> Cleared, seen |-> saved]
  <2>1. request.route = "override" /\ request.order \in Messages /\ Accept(request)
        BY <1>3 DEF ApiHold, Messages
  <2> HIDE DEF request
  <2>2. QED BY <1>1, <2>1
<1>4. CASE UpdateBatterySettings
  <2>1. PICK data \in Updates :
          Acceptable(saved, data) /\ Accept([route |-> "settings", data |-> data, seen |-> saved])
        BY <1>4 DEF UpdateBatterySettings
  <2> DEFINE request == [route |-> "settings", data |-> data, seen |-> saved]
  <2>2. request.route = "settings" /\ request.seen = saved /\ request.data = data /\ Accept(request)
        BY <2>1
  <2> HIDE DEF request
  <2>3. Ordered(Merged(request.seen, request.data))
        BY <2>1, <2>2 DEF Acceptable
  <2>4. QED BY <1>1, <2>2, <2>3
<1>5. QED BY <1>2, <1>3, <1>4

\* A commit of an override.
LEMMA OverrideKeepsDesk ==
    ASSUME DeskInv, CommitOverride \/ ClearBatteryOverride
    PROVE  DeskInv'
<1>1. PICK order \in Messages :
        /\ Committed(order)
        /\ pending' \subseteq pending
        /\ UNCHANGED <<saved, stale, held, storing, controlled, crossed>>
  <2>1. CASE CommitOverride
        BY <2>1 DEF CommitOverride, DeskInv, DeskTypes
  <2>2. CASE ClearBatteryOverride
        BY <2>2 DEF ClearBatteryOverride, Messages
  <2>3. QED BY <2>1, <2>2
<1>2. Send(order)
      BY <1>1 DEF Committed
<1>3. queue' \in [Consumers -> Seq(Messages)] /\ apart' \in BOOLEAN /\ CopiesInv'
      BY <1>1, <1>2, SendAgrees DEF DeskInv
<1>4. DeskTypes'
      BY <1>1, <1>3 DEF DeskInv, DeskTypes
<1>5. SettingsInv'
      BY <1>1 DEF DeskInv, SettingsInv, SettingsInOrder
<1>6. QED BY <1>3, <1>4, <1>5 DEF DeskInv

\* A commit of settings: if nobody was between, they are the ones that were
\* compared.
LEMMA SettingsKeepDesk ==
    ASSUME DeskInv, CommitSettings
    PROVE  DeskInv'
<1>1. PICK request \in pending :
        /\ request.route = "settings"
        /\ pending' = pending \ {request}
        /\ saved' = Merged(saved, request.data)
        /\ stale' = Derived(Merged(request.seen, request.data))
        /\ crossed' = (crossed \/ request.seen # saved)
        /\ Send(Reload)
        /\ UNCHANGED <<hour, row, rowLasts, held, storing, controlled>>
      BY DEF CommitSettings
<1>2. queue' \in [Consumers -> Seq(Messages)] /\ apart' \in BOOLEAN /\ CopiesInv'
      BY <1>1, SendAgrees DEF DeskInv, Messages
<1>3. DeskTypes'
      BY <1>1, <1>2 DEF DeskInv, DeskTypes
<1>4. SettingsInOrder'
  <2> SUFFICES ASSUME ~crossed' PROVE Ordered(saved') /\ stale' = Derived(saved')
      BY DEF SettingsInOrder
  <2>1. request.seen = saved
        BY <1>1
  <2>2. Ordered(Merged(request.seen, request.data))
        BY <1>1 DEF DeskInv, SettingsInv
  <2>3. QED BY <1>1, <2>1, <2>2
<1>5. SettingsInv'
      BY <1>1, <1>4 DEF DeskInv, SettingsInv
<1>6. QED BY <1>2, <1>3, <1>5 DEF DeskInv

\* The strategy service.
LEMMA StrategyKeepsDesk ==
    ASSUME DeskInv,
           StrategyReceives \/ StrategyPersists \/ StrategyExpires \/ StrategyCycleEnds \/ StrategyRestarts
    PROVE  DeskInv'
<1>0. DeskTypes /\ CopiesInv /\ SettingsInv
      BY DEF DeskInv
<1>1. CASE StrategyReceives
  <2> DEFINE box == queue["strategy"]
  <2>1. /\ box # <<>> /\ box \in Seq(Messages)
        /\ queue' = [queue EXCEPT !["strategy"] = Tail(box)]
        /\ held' = Copied(Head(box), PauseEnd(Head(box))) /\ storing' = TRUE
        /\ UNCHANGED <<hour, row, rowLasts, saved, stale, pending, controlled, sent, apart, crossed>>
        BY <1>0, <1>1 DEF StrategyReceives, Takes, DeskTypes, Consumers
  <2>2. queue'["strategy"] = Tail(box) /\ queue'["control"] = queue["control"]
        BY <1>0, <2>1 DEF DeskTypes, Consumers
  <2>3. HeldNext' = HeldNext
    <3>1. held'.mode = Head(box).mode
          BY <2>1 DEF Copied
    <3>2. HeldNext = box[Len(box)].mode
          BY <2>1 DEF HeldNext, LastSent
    <3>3. HeldNext' = IF Tail(box) = <<>> THEN Head(box).mode ELSE Tail(box)[Len(Tail(box))].mode
          BY <2>2, <3>1 DEF HeldNext, LastSent
    <3> HIDE DEF box
    <3>4. QED BY <2>1, <3>2, <3>3, BoxTail
  <2>4. ControlledNext' = ControlledNext
        BY <2>1, <2>2 DEF ControlledNext, LastSent
  <2>5. CopiesInv'
        BY <1>0, <2>1, <2>3, <2>4 DEF CopiesInv, Running, Agreeing
  <2>6. Tail(box) \in Seq(Messages)
        BY <2>1, BoxTail
  <2>7. DeskTypes'
        BY <1>0, <2>1, <2>6 DEF DeskTypes
  <2>8. SettingsInv'
        BY <1>0, <2>1 DEF SettingsInv, SettingsInOrder
  <2>9. QED BY <2>5, <2>7, <2>8 DEF DeskInv
<1>2. CASE StrategyPersists
  <2>1. DeskTypes' /\ SettingsInv'
        BY <1>0, <1>2 DEF StrategyPersists, DeskTypes, SettingsInv, SettingsInOrder
  <2>2. CopiesInv'
        BY <1>0, <1>2 DEF StrategyPersists, CopiesInv, Running, ControlledNext, HeldNext, LastSent
  <2>3. QED BY <2>1, <2>2 DEF DeskInv
<1>3. CASE StrategyExpires \/ StrategyCycleEnds
  <2>1. /\ held'.mode = "none" /\ storing' = TRUE
        /\ UNCHANGED <<saved, stale, pending, queue, controlled, apart, crossed>>
        BY <1>3 DEF StrategyExpires, StrategyCycleEnds, Takes, NoCopy, Copied, Cleared
  <2>2. DeskTypes' /\ SettingsInv'
        BY <1>0, <2>1 DEF DeskTypes, SettingsInv, SettingsInOrder
  <2>3. HeldNext' = HeldNext \/ HeldNext' = "none"
        BY <2>1 DEF HeldNext, LastSent
  <2>4. ControlledNext' = ControlledNext
        BY <2>1 DEF ControlledNext, LastSent
  <2>5. CopiesInv'
        BY <1>0, <2>1, <2>3, <2>4 DEF CopiesInv, Running, Agreeing
  <2>6. QED BY <2>2, <2>5 DEF DeskInv
<1>4. CASE StrategyRestarts
  <2>1. /\ held' = row /\ storing' = FALSE
        /\ queue' = [queue EXCEPT !["strategy"] = <<>>]
        /\ apart' = (apart \/ queue["strategy"] # <<>> \/ storing)
        /\ UNCHANGED <<row, saved, stale, pending, controlled, crossed>>
        BY <1>4 DEF StrategyRestarts
  <2>2. queue'["strategy"] = <<>> /\ queue'["control"] = queue["control"]
        BY <1>0, <2>1 DEF DeskTypes, Consumers
  <2>3. DeskTypes' /\ SettingsInv'
    <3>0. <<>> \in Seq(Messages)
          OBVIOUS
    <3>1. queue' \in [Consumers -> Seq(Messages)]
          BY <1>0, <2>1, <3>0 DEF DeskTypes
    <3>2. apart' \in BOOLEAN /\ storing' \in BOOLEAN
          BY <1>0, <2>1 DEF DeskTypes
    <3>3. QED BY <1>0, <2>1, <3>1, <3>2 DEF DeskTypes, SettingsInv, SettingsInOrder
  <2>4. CopiesInv'
    <3> SUFFICES ASSUME ~apart' PROVE CopiesInv'
        BY DEF CopiesInv
    <3>1. ~apart /\ queue["strategy"] = <<>> /\ ~storing
          BY <2>1
    <3>2. row = held
          BY <1>0, <3>1 DEF CopiesInv
    <3>3. HeldNext' = HeldNext
          BY <2>1, <2>2, <3>1, <3>2 DEF HeldNext
    <3>4. ControlledNext' = ControlledNext
          BY <2>1, <2>2 DEF ControlledNext, LastSent
    <3>5. QED BY <1>0, <2>1, <3>1, <3>2, <3>3, <3>4 DEF CopiesInv, Running, Agreeing
  <2>5. QED BY <2>3, <2>4 DEF DeskInv
<1>5. QED BY <1>1, <1>2, <1>3, <1>4

\* The control service.
LEMMA ControlKeepsDesk ==
    ASSUME DeskInv, ControlReceives \/ ControlPauseEnds \/ ControlRestarts
    PROVE  DeskInv'
<1>0. DeskTypes /\ CopiesInv /\ SettingsInv
      BY DEF DeskInv
<1>1. CASE ControlReceives
  <2> DEFINE box == queue["control"]
  <2>1. /\ box # <<>> /\ box \in Seq(Messages) /\ Running
        /\ queue' = [queue EXCEPT !["control"] = Tail(box)]
        /\ controlled' = IF Head(box) = Reload THEN [mode |-> "none", until |-> NoEnd]
                         ELSE [mode |-> Head(box).mode, until |-> PauseEnd(Head(box))]
        /\ UNCHANGED <<row, saved, stale, pending, held, storing, apart, crossed>>
        BY <1>0, <1>1 DEF ControlReceives, DeskTypes, Consumers
  <2>2. queue'["control"] = Tail(box) /\ queue'["strategy"] = queue["strategy"]
        BY <1>0, <2>1 DEF DeskTypes, Consumers
  <2>3. ControlledNext' = ControlledNext
    <3>1. controlled'.mode = ModeTaken(Head(box))
          BY <2>1 DEF ModeTaken
    <3>2. ControlledNext = ModeTaken(box[Len(box)])
          BY <2>1 DEF ControlledNext, LastSent
    <3>3. ControlledNext' = IF Tail(box) = <<>> THEN ModeTaken(Head(box)) ELSE ModeTaken(Tail(box)[Len(Tail(box))])
          BY <2>2, <3>1 DEF ControlledNext, LastSent
    <3> HIDE DEF box
    <3>4. QED BY <2>1, <3>2, <3>3, BoxTail
  <2>4. HeldNext' = HeldNext
        BY <2>1, <2>2 DEF HeldNext, LastSent
  <2>5. CopiesInv'
        BY <1>0, <2>1, <2>2, <2>3, <2>4 DEF CopiesInv, Running, Agreeing
  <2>6. Tail(box) \in Seq(Messages)
        BY <2>1, BoxTail
  <2>7. DeskTypes'
        BY <1>0, <2>1, <2>6 DEF DeskTypes
  <2>8. SettingsInv'
        BY <1>0, <2>1 DEF SettingsInv, SettingsInOrder
  <2>9. QED BY <2>5, <2>7, <2>8 DEF DeskInv
<1>2. CASE ControlPauseEnds
  <2>1. /\ controlled.mode = "pause" /\ controlled'.mode = "none"
        /\ UNCHANGED <<row, saved, stale, pending, queue, held, storing, apart, crossed>>
        BY <1>2 DEF ControlPauseEnds
  <2>2. DeskTypes' /\ SettingsInv'
        BY <1>0, <2>1 DEF DeskTypes, SettingsInv, SettingsInOrder
  <2>3. HeldNext' = HeldNext
        BY <2>1 DEF HeldNext, LastSent
  <2>4. \/ ControlledNext' = ControlledNext
        \/ ControlledNext = "pause" /\ ControlledNext' = "none"
        BY <2>1 DEF ControlledNext, LastSent
  <2>5. Running
        BY <2>1 DEF Running, Crashed
  <2>6. CopiesInv'
        BY <1>0, <2>1, <2>3, <2>4, <2>5 DEF CopiesInv, Agreeing
  <2>7. QED BY <2>2, <2>6 DEF DeskInv
<1>3. CASE ControlRestarts
  <2>1. /\ Running
        /\ controlled' = Crashed \/ controlled'.mode = row.mode
        /\ queue' = [queue EXCEPT !["control"] = <<>>]
        /\ apart' = (apart \/ queue # [c \in Consumers |-> <<>>] \/ storing)
        /\ UNCHANGED <<row, saved, stale, pending, held, storing, crossed>>
        BY <1>3 DEF ControlRestarts
  <2>2. queue'["control"] = <<>> /\ queue'["strategy"] = queue["strategy"]
        BY <1>0, <2>1 DEF DeskTypes, Consumers
  <2>3. DeskTypes' /\ SettingsInv'
    <3>0. <<>> \in Seq(Messages)
          OBVIOUS
    <3>1. queue' \in [Consumers -> Seq(Messages)]
          BY <1>0, <2>1, <3>0 DEF DeskTypes
    <3>2. apart' \in BOOLEAN /\ storing' \in BOOLEAN
          BY <1>0, <2>1 DEF DeskTypes
    <3>3. QED BY <1>0, <2>1, <3>1, <3>2 DEF DeskTypes, SettingsInv, SettingsInOrder
  <2>4. CopiesInv'
    <3> SUFFICES ASSUME ~apart' PROVE CopiesInv'
        BY DEF CopiesInv
    <3>1. ~apart /\ queue = [c \in Consumers |-> <<>>] /\ ~storing
          BY <2>1
    <3>2. queue["strategy"] = <<>>
          BY <3>1 DEF Consumers
    <3>3. row = held
          BY <1>0, <3>1, <3>2 DEF CopiesInv
    <3>4. HeldNext' = held.mode
          BY <2>1, <2>2, <3>2 DEF HeldNext
    <3>5. Running' => ControlledNext' = row.mode
          BY <2>1, <2>2 DEF ControlledNext, Running
    <3>6. QED BY <2>1, <3>3, <3>4, <3>5 DEF CopiesInv, Agreeing
  <2>5. QED BY <2>3, <2>4 DEF DeskInv
<1>4. QED BY <1>1, <1>2, <1>3

LEMMA HourKeepsDesk ==
    ASSUME DeskInv, Hour \/ UNCHANGED deskVars
    PROVE  DeskInv'
BY DEF Hour, deskVars, DeskInv, DeskTypes, CopiesInv, SettingsInv, SettingsInOrder, Running,
       ControlledNext, HeldNext, LastSent

LEMMA DeskInvStep == DeskInv /\ [DeskNext]_deskVars => DeskInv'
BY ArrivalKeepsDesk, OverrideKeepsDesk, SettingsKeepDesk, StrategyKeepsDesk, ControlKeepsDesk, HourKeepsDesk
   DEF DeskNext

\* When nothing is on its way the copies of the override agree, but for the
\* listed endings and losses (override.py:67), for any number of requests,
\* messages and restarts.
THEOREM CopiesCatchUp == DeskSpec => []OverridesAgree
<1>1. DeskInv => OverridesAgree
  <2> SUFFICES ASSUME DeskInv, Quiet, ~apart, Running
               PROVE  /\ row = held
                      /\ \/ controlled.mode = held.mode
                         \/ held.mode = "none"
                         \/ controlled.mode = "none" /\ held.mode \in {"pause", "reload_settings"}
      BY DEF OverridesAgree
  <2>1. queue["strategy"] = <<>> /\ queue["control"] = <<>> /\ ~storing
        BY DEF Quiet, Consumers
  <2>2. ControlledNext = controlled.mode /\ HeldNext = held.mode
        BY <2>1 DEF ControlledNext, HeldNext
  <2>3. QED BY <2>1, <2>2 DEF DeskInv, CopiesInv, Agreeing
<1>2. QED BY DeskInvInit, DeskInvStep, <1>1, PTL DEF DeskSpec

\* The settings are in order and the stale time is the sum of its parts,
\* unless two updates overlapped (battery.py:426).
THEOREM SettingsStayInOrder == DeskSpec => []SettingsInOrder
<1>1. DeskInv => SettingsInOrder
      BY DEF DeskInv, SettingsInv
<1>2. QED BY DeskInvInit, DeskInvStep, <1>1, PTL DEF DeskSpec

(***************************************************************************)
(* The routes of the settings.                                             *)
(*                                                                         *)
(* The invariant has a part for each of the four conjuncts of              *)
(* SettingsAreSettled. Requests hold the rows below those they have still  *)
(* to write, so that a request that waits waits for a smaller row than the *)
(* one it waits for will need; what they hold is in its limits and is held *)
(* by one of them only; what the broker has is the table's until a change  *)
(* of the trade group is committed, if the last publication reached it and *)
(* was not overtaken; and the level applied is that of the request which   *)
(* holds the row, or that of the table when none does.                     *)
(***************************************************************************)
RequestsOK ==
    /\ atWork \in [Requests -> {"idle", "writing", "committed", "answering"}]
    /\ rows \in [SettingKeys -> Int]
    /\ asked \in [Requests -> Changes \cup {NoChange}]
    /\ upserted \in [Requests -> SUBSET SettingKeys]
    /\ DOMAIN answer = Requests
    /\ amiss \in BOOLEAN /\ unheard \in BOOLEAN /\ overtaken \in BOOLEAN
    /\ \A r \in Requests : upserted[r] \subseteq DOMAIN asked[r]
    /\ \A r \in Requests : atWork[r] = "idle" => upserted[r] = {}
    /\ \A r \in Requests : atWork[r] \in {"committed", "answering"} => upserted[r] = DOMAIN asked[r]

\* Rows are locked in the order of the keys.
InOrder == \A r \in Requests : \A mine \in upserted[r], left \in Left1(r) : mine < left

HeldByOne == \A r, other \in Requests : \A k \in SettingKeys : Holds(r, k) /\ Holds(other, k) => r = other

HeldAreValid == \A r \in Requests : \A k \in upserted[r] : Storable(k, asked[r][k])

TradePending == \E r \in Requests : atWork[r] \in {"committed", "answering"} /\ OfTrade(r)

TradeInv == ~TradePending /\ ~unheard /\ ~overtaken => announced = ShownTrade

LevelInv ==
    ~amiss =>
      /\ \A r \in Requests : Holds(r, DebugKey) => logLevel = asked[r][DebugKey]
      /\ (\A r \in Requests : ~Holds(r, DebugKey)) => logLevel = Shown[DebugKey]

SettledInv == RequestsOK /\ InOrder /\ HeldByOne /\ HeldAreValid /\ RowsAreInLimits /\ TradeInv /\ LevelInv

(***************************************************************************)
(* The next key is the least of those left.                                *)
(***************************************************************************)
LEMMA MinIsLeast ==
    ASSUME NEW S, S \subseteq Nat, S # {}
    PROVE  Min(S) \in S /\ \A y \in S : Min(S) <= y
<1>1. PICK x \in S : \A y \in S : ~(<<y, x>> \in OpToRel(<, Nat))
      BY NatLessThanWellFounded, WFMin, Zenon
<1>2. \A y \in S : x <= y
  <2> TAKE y \in S
  <2>1. x \in Nat /\ y \in Nat
        OBVIOUS
  <2>2. ~(y < x)
        BY <1>1, <2>1, Zenon DEF OpToRel
  <2>3. QED BY <2>1, <2>2
<1>3. QED BY <1>2 DEF Min

LEMMA NextKeyIsLeast ==
    ASSUME RequestsOK, NEW r \in Requests, Left1(r) # {}
    PROVE  /\ NextKey(r) \in Left1(r) /\ NextKey(r) \in SettingKeys
           /\ \A k \in Left1(r) : NextKey(r) <= k
<1>1. DOMAIN asked[r] \subseteq SettingKeys
      BY SettingConstants DEF RequestsOK, NoChange
<1>2. Left1(r) \subseteq Nat
      BY <1>1, SettingConstants DEF Left1
<1>3. QED BY <1>1, <1>2, MinIsLeast DEF NextKey, Left1

LEMMA WaitingGoesUp ==
    ASSUME RequestsOK, InOrder, NEW r \in Requests, NEW other \in Requests, WaitsFor(r, other), Left1(other) # {}
    PROVE  NextKey(r) < NextKey(other)
BY NextKeyIsLeast DEF InOrder, WaitsFor, Holds

(***************************************************************************)
(* The steps of a request.                                                 *)
(***************************************************************************)
LEMMA SettledInit ==
    ASSUME SettingInit
    PROVE  SettledInv
<1>1. RequestsOK
  <2>1. /\ atWork \in [Requests -> {"idle", "writing", "committed", "answering"}]
        /\ amiss \in BOOLEAN /\ unheard \in BOOLEAN /\ overtaken \in BOOLEAN
        BY DEF SettingInit
  <2>2. rows \in [SettingKeys -> Int]
        BY DEF SettingInit, NoRow
  <2>3. /\ asked \in [Requests -> Changes \cup {NoChange}]
        /\ upserted \in [Requests -> SUBSET SettingKeys]
        /\ DOMAIN answer = Requests
        BY DEF SettingInit
  <2>4. \A r \in Requests : upserted[r] = {} /\ atWork[r] = "idle"
        BY DEF SettingInit
  <2>5. QED BY <2>1, <2>2, <2>3, <2>4 DEF RequestsOK
<1>2. InOrder /\ HeldByOne /\ HeldAreValid
      BY DEF SettingInit, InOrder, HeldByOne, HeldAreValid, Holds
<1>3. RowsAreInLimits
      BY DEF SettingInit, RowsAreInLimits
<1>4. TradeInv
      BY DEF SettingInit, TradeInv
<1>5. LevelInv
      BY SettingConstants DEF SettingInit, LevelInv, Holds, Shown
<1>6. QED BY <1>1, <1>2, <1>3, <1>4, <1>5 DEF SettledInv

LEMMA ArrivalKeeps ==
    ASSUME SettledInv, UpdateArrives
    PROVE  SettledInv'
<1> PICK r \in Requests, change \in Changes :
        /\ atWork[r] = "idle"
        /\ atWork' = [atWork EXCEPT ![r] = "writing"]
        /\ asked' = [asked EXCEPT ![r] = change]
        /\ UNCHANGED <<rows, upserted, answer, announcement, level>>
    BY DEF UpdateArrives
<1> USE DEF announcement, level
<1>1. upserted[r] = {}
      BY DEF SettledInv, RequestsOK
<1>2. RequestsOK' /\ InOrder' /\ HeldByOne' /\ HeldAreValid' /\ RowsAreInLimits'
      BY <1>1 DEF SettledInv, RequestsOK, InOrder, HeldByOne, HeldAreValid, RowsAreInLimits, Left1, Holds, Storable, Valid
<1>3. TradeInv'
  <2>1. TradePending => TradePending'
        BY DEF SettledInv, RequestsOK, TradePending, OfTrade
  <2>2. QED BY <2>1 DEF SettledInv, TradeInv, ShownTrade, Shown
<1>4. LevelInv'
  <2>1. \A q \in Requests : Holds(q, DebugKey)' <=> Holds(q, DebugKey)
        BY <1>1 DEF SettledInv, RequestsOK, Holds
  <2>2. \A q \in Requests : Holds(q, DebugKey) => asked'[q] = asked[q]
        BY <1>1 DEF SettledInv, RequestsOK, Holds
  <2>3. QED BY <2>1, <2>2 DEF SettledInv, LevelInv, Shown
<1>5. QED BY <1>2, <1>3, <1>4 DEF SettledInv

\* The row that is written is above those held already, and held by nobody
\* else: the request would wait.
LEMMA UpsertKeeps ==
    ASSUME SettledInv, UpsertSetting
    PROVE  SettledInv'
<1> PICK r \in Requests :
        /\ atWork[r] = "writing" /\ Left1(r) # {}
        /\ \A other \in Requests : ~WaitsFor(r, other)
        /\ Storable(NextKey(r), asked[r][NextKey(r)])
        /\ upserted' = [upserted EXCEPT ![r] = @ \cup {NextKey(r)}]
        /\ IF NextKey(r) = DebugKey
           THEN logLevel' = asked[r][DebugKey] /\ amiss' = FALSE
           ELSE UNCHANGED <<logLevel, amiss>>
        /\ UNCHANGED <<rows, asked, atWork, answer, announcement, debugRead>>
    BY DEF UpsertSetting
<1> USE DEF announcement
<1> DEFINE key == NextKey(r)
<1>1. /\ key \in Left1(r) /\ key \in SettingKeys
      /\ \A k \in Left1(r) : key <= k
      BY NextKeyIsLeast DEF SettledInv
<1> HIDE DEF key
<1>2. RequestsOK'
      BY <1>1 DEF SettledInv, RequestsOK, Left1, key
<1>3. InOrder'
  <2> SUFFICES ASSUME NEW q \in Requests, NEW mine \in upserted'[q], NEW left \in Left1(q)' PROVE mine < left
      BY DEF InOrder
  <2>1. (left \in Left1(q) /\ left # key) \/ (q # r /\ left \in Left1(q))
        BY DEF Left1, SettledInv, RequestsOK, key
  <2>2. DOMAIN asked[q] \subseteq SettingKeys /\ SettingKeys \subseteq Nat
        BY SettingConstants DEF SettledInv, RequestsOK, NoChange
  <2>3. CASE q = r /\ mine = key
        BY <1>1, <2>1, <2>2, <2>3 DEF Left1
  <2>4. CASE mine \in upserted[q]
        BY <2>1, <2>4 DEF SettledInv, InOrder
  <2>5. QED BY <2>3, <2>4 DEF SettledInv, RequestsOK, key
<1>4. \A other \in Requests : other # r => ~Holds(other, key)
      BY DEF WaitsFor, key
<1>5. HeldByOne'
      BY <1>1, <1>4 DEF SettledInv, RequestsOK, HeldByOne, Holds, key
<1>6. HeldAreValid' /\ RowsAreInLimits'
      BY <1>1 DEF SettledInv, RequestsOK, HeldAreValid, RowsAreInLimits, Storable, Valid, key
<1>7. TradeInv'
      BY DEF SettledInv, RequestsOK, TradeInv, TradePending, OfTrade, ShownTrade, Shown
<1>8. LevelInv'
  <2>1. CASE key = DebugKey
    <3>1. \A q \in Requests : Holds(q, DebugKey)' <=> q = r
          BY <1>4, <2>1 DEF SettledInv, RequestsOK, Holds, key
    <3>2. logLevel' = asked'[r][DebugKey]
          BY <2>1 DEF key
    <3>3. QED BY <3>1, <3>2 DEF LevelInv
  <2>2. CASE key # DebugKey
    <3>1. \A q \in Requests : Holds(q, DebugKey)' <=> Holds(q, DebugKey)
          BY <2>2 DEF SettledInv, RequestsOK, Holds, key
    <3>2. UNCHANGED <<logLevel, amiss, asked, rows>>
          BY <2>2 DEF key
    <3>3. QED BY <3>1, <3>2 DEF SettledInv, LevelInv, Shown
  <2>3. QED BY <2>1, <2>2
<1>9. QED BY <1>2, <1>3, <1>5, <1>6, <1>7, <1>8 DEF SettledInv

\* A request that ends holds nothing any more, and was not written over.
LEMMA EndingKeeps ==
    ASSUME SettledInv, NEW r \in Requests, Ended(r), UNCHANGED rows,
           amiss' \in BOOLEAN, unheard' \in BOOLEAN, overtaken' \in BOOLEAN
    PROVE  /\ RequestsOK' /\ InOrder' /\ HeldByOne' /\ HeldAreValid' /\ RowsAreInLimits'
           /\ \A q \in Requests : q # r => (Holds(q, DebugKey)' <=> Holds(q, DebugKey)) /\ asked'[q] = asked[q]
           /\ ~Holds(r, DebugKey)'
           /\ TradePending' <=> \E q \in Requests \ {r} : atWork[q] \in {"committed", "answering"} /\ OfTrade(q)
<1>1. /\ RequestsOK' /\ InOrder' /\ HeldByOne' /\ HeldAreValid' /\ RowsAreInLimits'
      BY DEF SettledInv, RequestsOK, InOrder, HeldByOne, HeldAreValid, RowsAreInLimits, Ended, Holds, Storable, Valid, Left1
<1>2. \A q \in Requests : q # r => (Holds(q, DebugKey)' <=> Holds(q, DebugKey)) /\ asked'[q] = asked[q]
      BY DEF SettledInv, RequestsOK, Holds, Ended
<1>3. ~Holds(r, DebugKey)'
      BY DEF SettledInv, RequestsOK, Holds, Ended
<1>4. TradePending' <=> \E q \in Requests \ {r} : atWork[q] \in {"committed", "answering"} /\ OfTrade(q)
      BY DEF SettledInv, RequestsOK, TradePending, OfTrade, Ended
<1>5. QED BY <1>1, <1>2, <1>3, <1>4

LEMMA FailureKeeps ==
    ASSUME SettledInv, UpdateFails
    PROVE  SettledInv'
<1> PICK r \in Requests :
        /\ atWork[r] = "writing" /\ Ended(r)
        /\ amiss' = (amiss \/ DebugKey \in upserted[r])
        /\ UNCHANGED <<rows, announcement, logLevel, debugRead>>
    BY DEF UpdateFails
<1> USE DEF announcement
<1>1. amiss' \in BOOLEAN /\ unheard' \in BOOLEAN /\ overtaken' \in BOOLEAN
      BY DEF SettledInv, RequestsOK
<1>2. /\ RequestsOK' /\ InOrder' /\ HeldByOne' /\ HeldAreValid' /\ RowsAreInLimits'
      BY <1>1, EndingKeeps
<1>3. TradeInv'
  <2>1. TradePending => TradePending'
        BY <1>1, EndingKeeps DEF TradePending
  <2>2. QED BY <2>1 DEF SettledInv, TradeInv, ShownTrade, Shown
<1>4. LevelInv'
  <2> SUFFICES ASSUME ~amiss' PROVE LevelInv'
      BY DEF LevelInv
  <2>1. ~amiss /\ ~Holds(r, DebugKey)
        BY DEF SettledInv, RequestsOK, Holds
  <2>2. QED BY <1>1, <2>1, EndingKeeps DEF SettledInv, LevelInv, Shown
<1>5. QED BY <1>2, <1>3, <1>4 DEF SettledInv

LEMMA CommitKeeps ==
    ASSUME SettledInv, CommitUpdate
    PROVE  SettledInv'
<1> PICK r \in Requests :
        /\ atWork[r] = "writing" /\ Left1(r) = {}
        /\ atWork' = [atWork EXCEPT ![r] = "committed"]
        /\ rows' = [k \in SettingKeys |-> IF k \in DOMAIN asked[r] THEN asked[r][k] ELSE rows[k]]
        /\ UNCHANGED <<asked, upserted, answer, announcement, level>>
    BY DEF CommitUpdate
<1> USE DEF announcement, level
<1>1. upserted[r] = DOMAIN asked[r]
      BY DEF SettledInv, RequestsOK, Left1
<1>2. \A k \in DOMAIN asked[r] : asked[r][k] \in Int /\ Storable(k, asked[r][k])
  <2> TAKE k \in DOMAIN asked[r]
  <2>1. k \in SettingKeys /\ Storable(k, asked[r][k])
        BY <1>1 DEF SettledInv, RequestsOK, HeldAreValid
  <2>2. QED BY <2>1, SettingConstants DEF Storable, Valid, Null
<1>3. RequestsOK'
      BY <1>1, <1>2 DEF SettledInv, RequestsOK
<1>4. InOrder' /\ HeldByOne' /\ HeldAreValid'
      BY DEF SettledInv, RequestsOK, InOrder, HeldByOne, HeldAreValid, Holds, Storable, Valid, Left1
<1>5. RowsAreInLimits'
      BY <1>2 DEF SettledInv, RowsAreInLimits, Storable, Valid
<1>6. TradeInv'
  <2>1. CASE OfTrade(r)
        BY <2>1 DEF SettledInv, RequestsOK, TradeInv, TradePending, OfTrade
  <2>2. CASE ~OfTrade(r)
    <3>1. \A k \in TradeKeys : Shown'[k] = Shown[k]
          BY <2>2, SettingConstants DEF Shown, SettledInv, RequestsOK, OfTrade
    <3>2. TradePending => TradePending'
          BY DEF TradePending, OfTrade, SettledInv, RequestsOK
    <3>3. QED BY <3>1, <3>2 DEF SettledInv, TradeInv, ShownTrade
  <2>3. QED BY <2>1, <2>2
<1>7. LevelInv'
  <2> SUFFICES ASSUME ~amiss' PROVE LevelInv'
      BY DEF LevelInv
  <2>1. CASE DebugKey \in upserted[r]
    <3>1. Holds(r, DebugKey) /\ \A q \in Requests : ~Holds(q, DebugKey)'
          BY <2>1, SettingConstants DEF SettledInv, RequestsOK, HeldByOne, Holds
    <3>2. logLevel = asked[r][DebugKey]
          BY <3>1 DEF SettledInv, LevelInv
    <3>3. asked[r][DebugKey] \in Nat
          BY <1>1, <1>2, <2>1, SettingConstants DEF Storable, Valid
    <3>4. Shown'[DebugKey] = asked[r][DebugKey]
          BY <1>1, <2>1, <3>3, SettingConstants DEF Shown, NoRow
    <3>5. QED BY <3>1, <3>2, <3>4 DEF LevelInv
  <2>2. CASE DebugKey \notin upserted[r]
    <3>1. \A q \in Requests : Holds(q, DebugKey)' <=> Holds(q, DebugKey)
          BY <2>2 DEF SettledInv, RequestsOK, Holds
    <3>2. Shown'[DebugKey] = Shown[DebugKey]
          BY <1>1, <2>2, SettingConstants DEF Shown
    <3>3. QED BY <3>1, <3>2 DEF SettledInv, LevelInv
  <2>3. QED BY <2>1, <2>2
<1>8. QED BY <1>3, <1>4, <1>5, <1>6, <1>7 DEF SettledInv

\* Reading back changes nothing that others see, unless it fails for a
\* change of the trade group, which then counts as not published.
LEMMA ReadingKeeps ==
    ASSUME SettledInv, ReadBack \/ ReadBackFails
    PROVE  SettledInv'
<1> PICK r \in Requests :
        /\ atWork[r] = "committed"
        /\ \/ /\ atWork' = [atWork EXCEPT ![r] = "answering"]
              /\ answer' = [answer EXCEPT ![r] = ShownTrade]
              /\ UNCHANGED <<asked, upserted, unheard>>
           \/ Ended(r) /\ unheard' = (unheard \/ OfTrade(r))
        /\ UNCHANGED <<rows, announced, overtaken, level>>
  <2>1. CASE ReadBack
    <3> PICK r \in Requests :
            /\ atWork[r] = "committed"
            /\ \/ /\ OfTrade(r) \/ asked[r] = NoChange
                  /\ atWork' = [atWork EXCEPT ![r] = "answering"]
                  /\ answer' = [answer EXCEPT ![r] = ShownTrade]
                  /\ UNCHANGED <<asked, upserted>>
               \/ ~OfTrade(r) /\ Ended(r)
            /\ UNCHANGED <<rows, announcement, level>>
        BY <2>1 DEF ReadBack
    <3>1. ~OfTrade(r) => unheard = (unheard \/ OfTrade(r))
          BY DEF SettledInv, RequestsOK
    <3>2. QED BY <3>1 DEF announcement
  <2>2. CASE ReadBackFails
        BY <2>2 DEF ReadBackFails
  <2>3. QED BY <2>1, <2>2
<1> USE DEF level
<1>1. CASE atWork' = [atWork EXCEPT ![r] = "answering"] /\ answer' = [answer EXCEPT ![r] = ShownTrade]
           /\ UNCHANGED <<asked, upserted, unheard>>
  <2>1. /\ RequestsOK' /\ InOrder' /\ HeldByOne' /\ HeldAreValid' /\ RowsAreInLimits'
        BY <1>1 DEF SettledInv, RequestsOK, InOrder, HeldByOne, HeldAreValid, RowsAreInLimits, Holds, Storable, Valid, Left1
  <2>2. TradePending' <=> TradePending
        BY <1>1 DEF SettledInv, RequestsOK, TradePending, OfTrade
  <2>3. \A q \in Requests : Holds(q, DebugKey)' <=> Holds(q, DebugKey)
        BY <1>1 DEF SettledInv, RequestsOK, Holds
  <2>4. TradeInv' /\ LevelInv'
        BY <1>1, <2>2, <2>3 DEF SettledInv, TradeInv, ShownTrade, Shown, LevelInv
  <2>5. QED BY <2>1, <2>4 DEF SettledInv
<1>2. CASE Ended(r) /\ unheard' = (unheard \/ OfTrade(r))
  <2>1. amiss' \in BOOLEAN /\ unheard' \in BOOLEAN /\ overtaken' \in BOOLEAN
        BY <1>2 DEF SettledInv, RequestsOK
  <2>2. /\ RequestsOK' /\ InOrder' /\ HeldByOne' /\ HeldAreValid' /\ RowsAreInLimits'
        BY <1>2, <2>1, EndingKeeps
  <2>3. ~OfTrade(r) => (TradePending => TradePending')
        BY <1>2, <2>1, EndingKeeps DEF TradePending
  <2>4. TradeInv'
        BY <1>2, <2>3 DEF SettledInv, TradeInv, ShownTrade, Shown
  <2>5. ~Holds(r, DebugKey)
        BY DEF Holds
  <2>6. LevelInv'
        BY <1>2, <2>1, <2>5, EndingKeeps DEF SettledInv, LevelInv, Shown
  <2>7. QED BY <2>2, <2>4, <2>6 DEF SettledInv
<1>3. QED BY <1>1, <1>2

LEMMA AnswerKeeps ==
    ASSUME SettledInv, AnswerUpdate
    PROVE  SettledInv'
<1> PICK r \in Requests, alive \in BOOLEAN :
        /\ atWork[r] = "answering" /\ Ended(r)
        /\ PublishTradeSettings(answer[r], alive)
        /\ UNCHANGED <<rows, level>>
    BY DEF AnswerUpdate
<1> USE DEF level
<1>1. amiss' \in BOOLEAN /\ unheard' \in BOOLEAN /\ overtaken' \in BOOLEAN
      BY DEF SettledInv, RequestsOK, PublishTradeSettings
<1>2. /\ RequestsOK' /\ InOrder' /\ HeldByOne' /\ HeldAreValid' /\ RowsAreInLimits'
      BY <1>1, EndingKeeps
<1>3. TradeInv'
  <2>1. ShownTrade' = ShownTrade
        BY DEF ShownTrade, Shown
  <2>2. CASE alive
    <3>1. announced' = answer[r] /\ (overtaken' <=> answer[r] # ShownTrade)
          BY <2>2 DEF PublishTradeSettings
    <3>2. QED BY <2>1, <3>1 DEF TradeInv
  <2>3. CASE ~alive
    <3>1. unheard'
          BY <2>3 DEF PublishTradeSettings
    <3>2. QED BY <3>1 DEF TradeInv
  <2>4. QED BY <2>2, <2>3
<1>4. ~Holds(r, DebugKey)
      BY DEF Holds
<1>5. LevelInv'
      BY <1>1, <1>4, EndingKeeps DEF SettledInv, LevelInv, Shown
<1>6. QED BY <1>2, <1>3, <1>5 DEF SettledInv

(***************************************************************************)
(* The task that reads the log level, and a start of the API.              *)
(***************************************************************************)
LEMMA RefreshKeeps ==
    ASSUME SettledInv, ReadDebugSetting \/ RefreshDebugSetting
    PROVE  SettledInv'
<1> UNCHANGED <<rows, asked, upserted, atWork, answer, announced, unheard, overtaken>> /\ amiss' \in BOOLEAN
    BY DEF ReadDebugSetting, RefreshDebugSetting, SettledInv, RequestsOK, requests, announcement
<1>1. /\ RequestsOK' /\ InOrder' /\ HeldByOne' /\ HeldAreValid' /\ RowsAreInLimits' /\ TradeInv'
      BY DEF SettledInv, RequestsOK, InOrder, HeldByOne, HeldAreValid, RowsAreInLimits,
             TradeInv, TradePending, OfTrade, Holds, Storable, Valid, Left1, ShownTrade, Shown
<1>2. CASE ReadDebugSetting
      BY <1>1, <1>2 DEF ReadDebugSetting, SettledInv, LevelInv, Holds, Shown
<1>3. CASE RefreshDebugSetting
  <2>1. LevelInv'
        BY <1>3 DEF RefreshDebugSetting, LevelInv, Holds, Shown
  <2>2. QED BY <1>1, <2>1 DEF SettledInv
<1>4. QED BY <1>2, <1>3

LEMMA RestartKeeps ==
    ASSUME SettledInv, ApiRestarts
    PROVE  SettledInv'
<1> PICK alive \in BOOLEAN :
        /\ asked' = [r \in Requests |-> NoChange] /\ upserted' = [r \in Requests |-> {}]
        /\ atWork' = [r \in Requests |-> "idle"] /\ answer' = [r \in Requests |-> NoChange]
        /\ logLevel' = Shown[DebugKey] /\ debugRead' = NoRow /\ amiss' = FALSE
        /\ PublishTradeSettings(ShownTrade, alive)
        /\ UNCHANGED rows
    BY DEF ApiRestarts
<1>1. RequestsOK'
  <2>1. /\ atWork' \in [Requests -> {"idle", "writing", "committed", "answering"}]
        /\ asked' \in [Requests -> Changes \cup {NoChange}]
        /\ upserted' \in [Requests -> SUBSET SettingKeys]
        /\ DOMAIN answer' = Requests
        OBVIOUS
  <2>2. amiss' \in BOOLEAN /\ unheard' \in BOOLEAN /\ overtaken' \in BOOLEAN
        BY DEF PublishTradeSettings, SettledInv, RequestsOK
  <2>3. \A r \in Requests : upserted'[r] = {} /\ atWork'[r] = "idle"
        OBVIOUS
  <2>4. QED BY <2>1, <2>2, <2>3 DEF SettledInv, RequestsOK
<1>2. /\ InOrder' /\ HeldByOne' /\ HeldAreValid' /\ RowsAreInLimits'
      BY DEF SettledInv, InOrder, HeldByOne, HeldAreValid, RowsAreInLimits, Holds, Storable, Valid
<1>3. TradeInv'
  <2>1. ShownTrade' = ShownTrade
        BY DEF ShownTrade, Shown
  <2>2. CASE alive
    <3>1. announced' = ShownTrade /\ (overtaken' <=> ShownTrade # ShownTrade)
          BY <2>2 DEF PublishTradeSettings
    <3>2. QED BY <2>1, <3>1 DEF TradeInv
  <2>3. CASE ~alive
    <3>1. unheard'
          BY <2>3 DEF PublishTradeSettings
    <3>2. QED BY <3>1 DEF TradeInv
  <2>4. QED BY <2>2, <2>3
<1>4. LevelInv'
      BY DEF LevelInv, Holds, Shown
<1>5. QED BY <1>1, <1>2, <1>3, <1>4 DEF SettledInv

\* Updates side by side never wait in a circle; no row leaves its limits but
\* for a null of a text; what the broker has of the trade settings is the
\* table's unless the last publication was lost or overtaken by a commit; and
\* the log level is the table's, up to the listed losses (settings.py:210,
\* :212, :337, health.py:128).
THEOREM SettingsStaySettled == SettingSpec => []SettingsAreSettled
<1>1. SettingInit => SettledInv
      BY SettledInit
<1>2. SettledInv /\ [SettingNext]_settingVars => SettledInv'
  <2> SUFFICES ASSUME SettledInv, [SettingNext]_settingVars PROVE SettledInv'
      OBVIOUS
  <2>1. CASE SettingNext
        BY <2>1, ArrivalKeeps, UpsertKeeps, FailureKeeps, CommitKeeps, ReadingKeeps, AnswerKeeps,
                   RefreshKeeps, RestartKeeps
           DEF SettingNext
  <2>2. CASE UNCHANGED settingVars
        BY <2>2 DEF settingVars, requests, announcement, level, SettledInv, RequestsOK, InOrder, HeldByOne,
                    HeldAreValid, RowsAreInLimits, TradeInv, LevelInv, TradePending, OfTrade, Left1, Holds,
                    ShownTrade, Shown, Storable, Valid
  <2>3. QED BY <2>1, <2>2
<1>3. SettledInv => SettingsAreSettled
  <2> SUFFICES ASSUME SettledInv PROVE SettingsAreSettled
      OBVIOUS
  <2>1. ASSUME NEW r \in Requests, NEW other \in Requests, WaitsFor(r, other), WaitsFor(other, r)
        PROVE  FALSE
    <3>1. NextKey(r) < NextKey(other) /\ NextKey(other) < NextKey(r)
          BY <2>1, WaitingGoesUp DEF SettledInv, WaitsFor
    <3>2. NextKey(r) \in Nat /\ NextKey(other) \in Nat
          BY <2>1, NextKeyIsLeast, SettingConstants DEF SettledInv, WaitsFor
    <3>3. QED BY <3>1, <3>2
  <2>2. NeverInACircle
        BY <2>1 DEF NeverInACircle
  <2>3. TradeIsAnnounced
        BY DEF SettledInv, TradeInv, TradePending, TradeIsAnnounced, AllAnswered
  <2>4. LevelIsStored
        BY DEF SettledInv, LevelInv, Holds, LevelIsStored
  <2>5. QED BY <2>2, <2>3, <2>4 DEF SettingsAreSettled, SettledInv
<1>4. QED BY <1>1, <1>2, <1>3, PTL DEF SettingSpec

(***************************************************************************)
(* The status cache.  What is on its way to the API's client ends with     *)
(* what the broker retains, so that the cache has that once all of it      *)
(* arrived; nothing anywhere is newer than what is retained, so that what  *)
(* a request collected is the same or older.                               *)
(***************************************************************************)
LEMMA AppendIs ==
    ASSUME NEW box \in Seq(Nat), NEW v \in Nat
    PROVE  /\ Append(box, v) \in Seq(Nat) /\ Append(box, v) # <<>>
           /\ Len(Append(box, v)) = Len(box) + 1 /\ Append(box, v)[Len(box) + 1] = v
           /\ \A i \in 1..Len(box) : Append(box, v)[i] = box[i]
OBVIOUS

LEMMA TailIs ==
    ASSUME NEW box \in Seq(Nat), box # <<>>
    PROVE  /\ Head(box) \in Nat /\ Tail(box) \in Seq(Nat) /\ Len(box) \in Nat /\ Len(box) >= 1
           /\ Head(box) = box[1] /\ Len(Tail(box)) = Len(box) - 1
           /\ \A i \in 1..Len(box) - 1 : Tail(box)[i] = box[i + 1]
OBVIOUS

LEMMA EmptyIs ==
    ASSUME NEW box \in Seq(Nat)
    PROVE  Len(box) \in Nat /\ (Len(box) = 0 <=> box = <<>>)
OBVIOUS

LEMMA SingleIs ==
    ASSUME NEW v \in Nat
    PROVE  <<v>> \in Seq(Nat) /\ Len(<<v>>) = 1 /\ <<v>>[1] = v /\ <<v>> # <<>>
OBVIOUS

CacheTypes ==
    /\ retained \in [StatusTopics -> Nat]
    /\ cache \in [StatusTopics -> Nat] /\ collected \in [StatusTopics -> Nat]
    /\ inbound \in [StatusTopics -> Seq(Nat)] /\ collectable \in [StatusTopics -> Seq(Nat)]
    /\ older \subseteq StatusTopics

NothingNewer(t) ==
    /\ cache[t] <= retained[t] /\ collected[t] <= retained[t]
    /\ \A i \in 1..Len(collectable[t]) : collectable[t][i] <= retained[t]
    /\ \A i \in 1..Len(inbound[t]) : inbound[t][i] <= retained[t]

EndsWithRetained(t) ==
    attached =>
        /\ inbound[t] # <<>> => inbound[t][Len(inbound[t])] = retained[t]
        /\ inbound[t] = <<>> /\ t \notin older => cache[t] = retained[t]

CacheInv == CacheTypes /\ \A t \in StatusTopics : NothingNewer(t) /\ EndsWithRetained(t)

LEMMA CacheInvInit == CacheInit => CacheInv
<1> SUFFICES ASSUME CacheInit PROVE CacheInv
    OBVIOUS
<1>1. CacheTypes
      BY DEF CacheInit, CacheTypes, Nought, Silent, Missing
<1>2. ASSUME NEW t \in StatusTopics PROVE NothingNewer(t) /\ EndsWithRetained(t)
      BY DEF CacheInit, NothingNewer, EndsWithRetained, Nought, Silent, Missing
<1>3. QED BY <1>1, <1>2 DEF CacheInv

LEMMA ReplayIs ==
    ASSUME CacheInv
    PROVE  /\ Replayed \in [StatusTopics -> Seq(Nat)]
           /\ \A t \in StatusTopics :
                /\ retained[t] = Missing => Replayed[t] = <<>>
                /\ retained[t] # Missing => Replayed[t] = <<retained[t]>>
                /\ \A i \in 1..Len(Replayed[t]) : Replayed[t][i] <= retained[t]
<1>1. ASSUME NEW t \in StatusTopics
      PROVE  /\ Replayed[t] = IF retained[t] = Missing THEN <<>> ELSE <<retained[t]>>
             /\ retained[t] \in Nat
      BY DEF Replayed, CacheInv, CacheTypes
<1>2. Replayed \in [StatusTopics -> Seq(Nat)]
      BY <1>1 DEF Replayed
<1>3. ASSUME NEW t \in StatusTopics
      PROVE  \A i \in 1..Len(Replayed[t]) : Replayed[t][i] <= retained[t]
  <2>1. CASE retained[t] = Missing
    <3>1. Replayed[t] = <<>> /\ Replayed[t] \in Seq(Nat)
          BY <1>1, <1>2, <2>1
    <3>2. Len(Replayed[t]) = 0
          BY <3>1, EmptyIs
    <3>3. QED BY <3>2
  <2>2. CASE retained[t] # Missing
    <3>1. Replayed[t] = <<retained[t]>> /\ retained[t] \in Nat
          BY <1>1, <2>2
    <3>2. Len(Replayed[t]) = 1 /\ Replayed[t][1] = retained[t]
          BY <3>1, SingleIs
    <3>3. \A i \in 1..1 : Replayed[t][i] <= retained[t]
          BY <3>1, <3>2
    <3>4. QED BY <3>2, <3>3
  <2>3. QED BY <2>1, <2>2
<1>4. QED BY <1>1, <1>2, <1>3

\* A publication goes to whoever listens.
LEMMA PublicationKeeps ==
    ASSUME CacheInv, Publication
    PROVE  CacheInv'
<1> PICK topic \in StatusTopics :
        /\ retained' = [retained EXCEPT ![topic] = @ + 1]
        /\ inbound' = Delivered1(inbound, attached, topic, retained'[topic])
        /\ collectable' = Delivered1(collectable, collecting, topic, retained'[topic])
        /\ UNCHANGED <<attached, cache, collecting, collected, prices, older, reconnects>>
    BY DEF Publication
<1>0. CacheTypes
      BY DEF CacheInv
<1>1. retained'[topic] = retained[topic] + 1 /\ retained'[topic] \in Nat
      BY <1>0 DEF CacheTypes
<1>2. CacheTypes'
      BY <1>0, <1>1 DEF CacheTypes, Delivered1
<1>3. ASSUME NEW t \in StatusTopics, t # topic
      PROVE  NothingNewer(t)' /\ EndsWithRetained(t)'
  <2>1. retained'[t] = retained[t] /\ inbound'[t] = inbound[t] /\ collectable'[t] = collectable[t]
        BY <1>0, <1>3 DEF CacheTypes, Delivered1
  <2>2. QED BY <2>1 DEF CacheInv, NothingNewer, EndsWithRetained
<1>4. ASSUME NEW box \in Seq(Nat), \A i \in 1..Len(box) : box[i] <= retained[topic]
      PROVE  /\ \A i \in 1..Len(box) : box[i] <= retained'[topic]
             /\ \A i \in 1..Len(Append(box, retained'[topic])) : Append(box, retained'[topic])[i] <= retained'[topic]
  <2> DEFINE v == retained'[topic]
  <2>1. v \in Nat /\ retained[topic] \in Nat /\ v = retained[topic] + 1
        BY <1>0, <1>1 DEF CacheTypes
  <2>2. \A i \in 1..Len(box) : box[i] <= v
        BY <1>4, <2>1
  <2> HIDE DEF v
  <2>3. \A i \in 1..Len(Append(box, v)) : Append(box, v)[i] <= v
        BY <2>1, <2>2, AppendIs
  <2>4. QED BY <2>2, <2>3 DEF v
<1>5. /\ inbound[topic] \in Seq(Nat) /\ inbound'[topic] \in Seq(Nat)
      /\ collectable[topic] \in Seq(Nat) /\ collectable'[topic] \in Seq(Nat)
      BY <1>0, <1>2 DEF CacheTypes
<1>6. inbound'[topic] = IF attached THEN Append(inbound[topic], retained'[topic]) ELSE inbound[topic]
      BY <1>0 DEF CacheTypes, Delivered1
<1>7. collectable'[topic] = IF collecting THEN Append(collectable[topic], retained'[topic]) ELSE collectable[topic]
      BY <1>0 DEF CacheTypes, Delivered1
<1>8. \A i \in 1..Len(inbound'[topic]) : inbound'[topic][i] <= retained'[topic]
  <2>1. \A i \in 1..Len(inbound[topic]) : inbound[topic][i] <= retained[topic]
        BY DEF CacheInv, NothingNewer
  <2>2. CASE inbound'[topic] = inbound[topic]
        BY <1>4, <1>5, <2>1, <2>2
  <2>3. CASE inbound'[topic] = Append(inbound[topic], retained'[topic])
        BY <1>4, <1>5, <2>1, <2>3
  <2>4. QED BY <1>6, <2>2, <2>3
<1>9. \A i \in 1..Len(collectable'[topic]) : collectable'[topic][i] <= retained'[topic]
  <2>1. \A i \in 1..Len(collectable[topic]) : collectable[topic][i] <= retained[topic]
        BY DEF CacheInv, NothingNewer
  <2>2. CASE collectable'[topic] = collectable[topic]
        BY <1>4, <1>5, <2>1, <2>2
  <2>3. CASE collectable'[topic] = Append(collectable[topic], retained'[topic])
        BY <1>4, <1>5, <2>1, <2>3
  <2>4. QED BY <1>7, <2>2, <2>3
<1>10. NothingNewer(topic)'
  <2>1. cache[topic] <= retained[topic] /\ collected[topic] <= retained[topic]
        BY DEF CacheInv, NothingNewer
  <2>2. cache'[topic] <= retained'[topic] /\ collected'[topic] <= retained'[topic]
        BY <1>0, <1>1, <2>1 DEF CacheTypes
  <2>3. QED BY <1>8, <1>9, <2>2 DEF NothingNewer
<1>11. EndsWithRetained(topic)'
  <2> SUFFICES ASSUME attached PROVE EndsWithRetained(topic)'
      BY DEF EndsWithRetained
  <2> DEFINE box == inbound[topic]
             v == retained'[topic]
  <2>1. inbound'[topic] = Append(box, v) /\ box \in Seq(Nat) /\ v \in Nat
        BY <1>1, <1>5, <1>6
  <2> HIDE DEF box, v
  <2>2. Append(box, v) # <<>> /\ Append(box, v)[Len(Append(box, v))] = v
        BY <2>1, AppendIs
  <2>3. inbound'[topic] # <<>> /\ inbound'[topic][Len(inbound'[topic])] = v
        BY <2>1, <2>2, Zenon
  <2>4. QED BY <2>3 DEF EndsWithRetained, v
<1>12. QED BY <1>2, <1>3, <1>10, <1>11 DEF CacheInv

\* The network thread of the API's client.
LEMMA StatusKeeps ==
    ASSUME CacheInv, HandleStatus
    PROVE  CacheInv'
<1> PICK topic \in StatusTopics :
        /\ inbound[topic] # <<>>
        /\ inbound' = [inbound EXCEPT ![topic] = Tail(@)]
        /\ cache' = [cache EXCEPT ![topic] = Head(inbound[topic])]
        /\ older' = older \ {topic}
        /\ UNCHANGED <<retained, attached, collecting, collected, collectable, prices, reconnects>>
    BY DEF HandleStatus
<1>0. CacheTypes
      BY DEF CacheInv
<1>1. inbound[topic] \in Seq(Nat) /\ Head(inbound[topic]) \in Nat /\ Tail(inbound[topic]) \in Seq(Nat)
      BY <1>0 DEF CacheTypes
<1>2. CacheTypes'
      BY <1>0, <1>1 DEF CacheTypes
<1>3. ASSUME NEW t \in StatusTopics, t # topic
      PROVE  NothingNewer(t)' /\ EndsWithRetained(t)'
  <2>1. cache'[t] = cache[t] /\ inbound'[t] = inbound[t] /\ (t \in older' <=> t \in older)
        BY <1>0, <1>3 DEF CacheTypes
  <2>2. QED BY <2>1 DEF CacheInv, NothingNewer, EndsWithRetained
<1>4n. /\ Len(inbound[topic]) \in Nat /\ Len(inbound[topic]) >= 1
       /\ Len(inbound'[topic]) = Len(inbound[topic]) - 1
  <2> DEFINE box == inbound[topic]
  <2>1. box \in Seq(Nat) /\ box # <<>> /\ inbound'[topic] = Tail(box)
        BY <1>0, <1>1 DEF CacheTypes
  <2> HIDE DEF box
  <2>2. Len(box) \in Nat /\ Len(box) >= 1 /\ Len(Tail(box)) = Len(box) - 1
        BY <2>1, TailIs
  <2>3. QED BY <2>1, <2>2 DEF box
<1>4. /\ cache'[topic] = inbound[topic][1] /\ inbound'[topic] = Tail(inbound[topic])
      /\ Len(inbound[topic]) >= 1
      /\ Len(inbound'[topic]) = Len(inbound[topic]) - 1
      /\ \A i \in 1..Len(inbound'[topic]) : inbound'[topic][i] = inbound[topic][i + 1]
      BY <1>0, <1>1 DEF CacheTypes
<1>5. \A i \in 1..Len(inbound[topic]) : inbound[topic][i] <= retained[topic]
      BY DEF CacheInv, NothingNewer
<1>6. NothingNewer(topic)'
  <2>1. cache'[topic] <= retained'[topic]
        BY <1>1, <1>4, <1>5
  <2>2. \A i \in 1..Len(inbound'[topic]) : inbound'[topic][i] <= retained'[topic]
        BY <1>1, <1>4, <1>5
  <2>3. QED BY <2>1, <2>2 DEF CacheInv, NothingNewer
<1>7. EndsWithRetained(topic)'
  <2> SUFFICES ASSUME attached PROVE EndsWithRetained(topic)'
      BY DEF EndsWithRetained
  <2>1. inbound[topic][Len(inbound[topic])] = retained[topic]
        BY DEF CacheInv, EndsWithRetained
  <2>2. CASE Len(inbound[topic]) = 1
    <3>1. cache'[topic] = retained'[topic]
          BY <1>4, <2>1, <2>2
    <3>2. inbound'[topic] = <<>>
          BY <1>1, <1>4, <2>2
    <3>3. QED BY <3>1, <3>2 DEF EndsWithRetained
  <2>3. CASE Len(inbound[topic]) # 1
    <3> DEFINE n == Len(inbound[topic])
               k == Len(inbound'[topic])
    <3>a. n \in Nat /\ n >= 1 /\ k = n - 1 /\ n # 1
          BY <1>4n, <2>3, Zenon
    <3>b. n \in 1..n /\ (k = 0 <=> inbound'[topic] = <<>>)
      <4>1. inbound'[topic] \in Seq(Nat)
            BY <1>1, <1>4
      <4> HIDE DEF n
      <4>2. n \in 1..n
            BY <3>a
      <4>3. QED BY <4>1, <4>2, EmptyIs, Zenon
    <3>c. \A i \in 1..k : inbound'[topic][i] = inbound[topic][i + 1]
          BY <1>4, Zenon
    <3> HIDE DEF n, k
    <3>1. k \in 1..k /\ k + 1 = n /\ k # 0
          BY <3>a
    <3>2. inbound'[topic][k] = inbound[topic][n]
          BY <3>1, <3>c, Zenon
    <3>3. inbound'[topic] # <<>>
          BY <3>1, <3>b, Zenon
    <3>4. QED BY <2>1, <3>2, <3>3 DEF EndsWithRetained, n, k
  <2>4. QED BY <2>2, <2>3
<1>8. QED BY <1>2, <1>3, <1>6, <1>7 DEF CacheInv

\* A connection replays what is retained; prices are beside all this.
LEMMA ConnectionKeepsCache ==
    ASSUME CacheInv, HandleTradePrice \/ Attach \/ Detach
    PROVE  CacheInv'
<1>1. CASE HandleTradePrice
      BY <1>1 DEF HandleTradePrice, CacheInv, CacheTypes, NothingNewer, EndsWithRetained
<1>2. CASE Attach
  <2>1. CacheTypes'
        BY <1>2, ReplayIs DEF Attach, CacheInv, CacheTypes
  <2>2. ASSUME NEW t \in StatusTopics PROVE NothingNewer(t)'
        BY <1>2, ReplayIs DEF Attach, CacheInv, NothingNewer
  <2>3. ASSUME NEW t \in StatusTopics PROVE EndsWithRetained(t)'
    <3>1. CASE retained[t] = Missing
      <4>1. inbound'[t] = <<>>
            BY <1>2, <3>1, ReplayIs DEF Attach
      <4>2. cache'[t] = retained'[t]
            BY <1>2, <3>1 DEF Attach, Missing, CacheInv, CacheTypes, NothingNewer
      <4>3. QED BY <4>1, <4>2 DEF EndsWithRetained
    <3>2. CASE retained[t] # Missing
      <4>1. inbound'[t] = <<retained[t]>> /\ retained'[t] = retained[t]
            BY <1>2, <3>2, ReplayIs DEF Attach
      <4>2. inbound'[t] # <<>> /\ inbound'[t][Len(inbound'[t])] = retained'[t]
            BY <4>1
      <4>3. QED BY <4>2 DEF EndsWithRetained
    <3>3. QED BY <3>1, <3>2
  <2>4. QED BY <2>1, <2>2, <2>3 DEF CacheInv
<1>3. CASE Detach
      BY <1>3 DEF Detach, Silent, CacheInv, CacheTypes, NothingNewer, EndsWithRetained
<1>4. QED BY <1>1, <1>2, <1>3

\* A request that collects: what it writes over the cache is what is
\* retained, or the topic is one of the older ones.
LEMMA CollectionKeeps ==
    ASSUME CacheInv, BeginCollecting \/ Collect \/ FinishCollecting \/ CollectingFails
    PROVE  CacheInv'
<1>0. CacheTypes
      BY DEF CacheInv
<1>1. CASE BeginCollecting
  <2>1. CacheTypes'
        BY <1>0, <1>1, ReplayIs DEF BeginCollecting, CacheTypes, Nought, Missing
  <2>2. ASSUME NEW t \in StatusTopics PROVE NothingNewer(t)'
        BY <1>0, <1>1, ReplayIs DEF BeginCollecting, CacheInv, CacheTypes, NothingNewer, Nought, Missing
  <2>3. ASSUME NEW t \in StatusTopics PROVE EndsWithRetained(t)'
        BY <1>1 DEF BeginCollecting, CacheInv, EndsWithRetained
  <2>4. QED BY <2>1, <2>2, <2>3 DEF CacheInv
<1>2. CASE Collect
  <2> PICK topic \in StatusTopics :
        /\ collectable[topic] # <<>>
        /\ collectable' = [collectable EXCEPT ![topic] = Tail(@)]
        /\ collected' = [collected EXCEPT ![topic] = Head(collectable[topic])]
        /\ UNCHANGED <<retained, attached, inbound, cache, collecting, prices, older, reconnects>>
      BY <1>2 DEF Collect
  <2>1. collectable[topic] \in Seq(Nat) /\ Head(collectable[topic]) \in Nat /\ Tail(collectable[topic]) \in Seq(Nat)
        BY <1>0 DEF CacheTypes
  <2>2. CacheTypes'
        BY <1>0, <2>1 DEF CacheTypes
  <2>3. /\ collected'[topic] = collectable[topic][1] /\ Len(collectable[topic]) >= 1
        /\ Len(collectable'[topic]) = Len(collectable[topic]) - 1
        /\ \A i \in 1..Len(collectable'[topic]) : collectable'[topic][i] = collectable[topic][i + 1]
        BY <1>0, <2>1 DEF CacheTypes
  <2>4. \A i \in 1..Len(collectable[topic]) : collectable[topic][i] <= retained[topic]
        BY DEF CacheInv, NothingNewer
  <2>5. NothingNewer(topic)'
    <3>1. collected'[topic] <= retained'[topic]
          BY <2>1, <2>3, <2>4
    <3>2. \A i \in 1..Len(collectable'[topic]) : collectable'[topic][i] <= retained'[topic]
          BY <2>1, <2>3, <2>4
    <3>3. QED BY <3>1, <3>2 DEF CacheInv, NothingNewer
  <2>6. ASSUME NEW t \in StatusTopics, t # topic PROVE NothingNewer(t)'
        BY <1>0, <2>6 DEF CacheInv, CacheTypes, NothingNewer
  <2>7. ASSUME NEW t \in StatusTopics PROVE EndsWithRetained(t)'
        BY DEF CacheInv, EndsWithRetained
  <2>8. QED BY <2>2, <2>5, <2>6, <2>7 DEF CacheInv
<1>3. CASE FinishCollecting
  <2>1. CacheTypes'
        BY <1>0, <1>3 DEF FinishCollecting, CacheTypes, Silent, Nought, Missing
  <2>2. ASSUME NEW t \in StatusTopics
        PROVE  cache'[t] = IF collected[t] = Missing THEN cache[t] ELSE collected[t]
        BY <1>3 DEF FinishCollecting
  <2>3. ASSUME NEW t \in StatusTopics PROVE NothingNewer(t)'
        BY <1>0, <1>3, <2>2 DEF FinishCollecting, CacheInv, CacheTypes, NothingNewer, Silent, Nought, Missing
  <2>4. ASSUME NEW t \in StatusTopics PROVE EndsWithRetained(t)'
    <3> SUFFICES ASSUME attached, inbound[t] = <<>>, t \notin older'
                 PROVE  cache'[t] = retained[t]
        BY <1>3 DEF FinishCollecting, CacheInv, EndsWithRetained
    <3>1. t \notin older /\ ~(collected[t] # Missing /\ collected[t] < cache[t])
          BY <1>3 DEF FinishCollecting
    <3>2. cache[t] = retained[t]
          BY <3>1 DEF CacheInv, EndsWithRetained
    <3>3. collected[t] # Missing => collected[t] = retained[t]
          BY <1>0, <3>1, <3>2 DEF CacheInv, CacheTypes, NothingNewer
    <3>4. QED BY <2>2, <3>2, <3>3
  <2>5. QED BY <2>1, <2>3, <2>4 DEF CacheInv
<1>4. CASE CollectingFails
      BY <1>0, <1>4 DEF CollectingFails, CacheInv, CacheTypes, NothingNewer, EndsWithRetained, Silent
<1>5. QED BY <1>1, <1>2, <1>3, <1>4

\* Once all that was on its way arrived, the cache shows what the broker
\* retains, whatever was lost with a connection and whenever a request
\* collected, but for the listed topics (mqtt_handlers.py:117, :195).
THEOREM CacheCatchesUp == CacheSpec => []StatusIsCurrent
<1>1. CacheInv /\ [CacheNext]_cacheVars => CacheInv'
  <2> SUFFICES ASSUME CacheInv, [CacheNext]_cacheVars PROVE CacheInv'
      OBVIOUS
  <2>1. CASE CacheNext
        BY <2>1, PublicationKeeps, StatusKeeps, ConnectionKeepsCache, CollectionKeeps DEF CacheNext
  <2>2. CASE UNCHANGED cacheVars
        BY <2>2 DEF cacheVars, CacheInv, CacheTypes, NothingNewer, EndsWithRetained
  <2>3. QED BY <2>1, <2>2
<1>2. CacheInv => StatusIsCurrent
      BY DEF CacheInv, EndsWithRetained, StatusIsCurrent, Silent
<1>3. QED BY CacheInvInit, <1>1, <1>2, PTL DEF CacheSpec

(***************************************************************************)
(* The mailbox.                                                            *)
(***************************************************************************)

\* The least element goes last into a list of the newest.
LEMMA LeastOfAll ==
    ASSUME NEW some \in SUBSET Nat, some # {}
    PROVE  \E least \in some : \A other \in some : least <= other
<1>1. PICK least \in some : \A other \in some : ~(<<other, least>> \in OpToRel(<, Nat))
      BY NatLessThanWellFounded, WFMin, Zenon
<1>2. ASSUME NEW other \in some PROVE least <= other
  <2>1. ~(<<other, least>> \in OpToRel(<, Nat))
        BY <1>1
  <2>2. other \in Nat /\ least \in Nat
        OBVIOUS
  <2>3. ~(other < least)
        BY <2>1, <2>2 DEF OpToRel
  <2>4. QED BY <2>2, <2>3
<1>3. QED BY <1>2

NewestCount(n) == IF ListLimit <= n THEN ListLimit ELSE n

LEMMA NewestOfMore ==
    ASSUME NEW ids \in SUBSET Nat, IsFiniteSet(ids), NEW least \in ids,
           \A other \in ids : least <= other,
           Cardinality(Newest(ids \ {least})) = NewestCount(Cardinality(ids) - 1)
    PROVE  Cardinality(Newest(ids)) = NewestCount(Cardinality(ids))
<1> DEFINE rest == ids \ {least}
           n == Cardinality(ids)
<1>0. ListLimit \in Nat
      BY MailConstants
<1>1. n \in Nat /\ n >= 1
  <2>1. n \in Nat
        BY FS_CardinalityType
  <2>2. n # 0
        BY FS_EmptySet
  <2>3. QED BY <2>1, <2>2
<1>2. IsFiniteSet(rest) /\ Cardinality(rest) = n - 1
      BY FS_RemoveElement
<1>3. ASSUME NEW id \in rest PROVE {other \in ids : other > id} = {other \in rest : other > id}
  <2>1. ~(least > id)
    <3>1. least \in Nat /\ id \in Nat /\ least <= id
          OBVIOUS
    <3>2. QED BY <3>1
  <2>2. QED BY <2>1
<1>4. {other \in ids : other > least} = rest
  <2>1. ASSUME NEW other \in ids PROVE other > least <=> other # least
    <3>1. other \in Nat /\ least \in Nat /\ least <= other
          OBVIOUS
    <3>2. QED BY <3>1
  <2>2. QED BY <2>1
<1>5. \A id \in rest : id \in Newest(ids) <=> id \in Newest(rest)
      BY <1>3 DEF Newest
<1>6. least \in Newest(ids) <=> n - 1 < ListLimit
      BY <1>2, <1>4 DEF Newest
<1>7. Newest(ids) \subseteq ids /\ Newest(rest) \subseteq rest
      BY DEF Newest
<1>8. IsFiniteSet(Newest(rest))
      BY <1>2, <1>7, FS_Subset
<1>9. Cardinality(Newest(rest)) = NewestCount(n - 1)
      OBVIOUS
<1>10. CASE n - 1 < ListLimit
  <2>1. Newest(ids) = Newest(rest) \cup {least} /\ least \notin Newest(rest)
        BY <1>5, <1>6, <1>7, <1>10
  <2>2. Cardinality(Newest(ids)) = Cardinality(Newest(rest)) + 1
        BY <1>8, <2>1, FS_AddElement
  <2>3. QED BY <1>0, <1>1, <1>9, <1>10, <2>2 DEF NewestCount
<1>11. CASE ~(n - 1 < ListLimit)
  <2>1. Newest(ids) = Newest(rest)
        BY <1>5, <1>6, <1>7, <1>11
  <2>2. QED BY <1>0, <1>1, <1>9, <1>11, <2>1 DEF NewestCount
<1>12. QED BY <1>10, <1>11

\* A list is as long as what it is made from, up to its limit.
LEMMA NewestLength ==
    ASSUME NEW ids \in SUBSET Nat, IsFiniteSet(ids)
    PROVE  Cardinality(Newest(ids)) = NewestCount(Cardinality(ids))
<1> DEFINE Wrong(n, some) ==
                IsFiniteSet(some) /\ Cardinality(some) = n /\ Cardinality(Newest(some)) # NewestCount(n)
           Bad == {n \in Nat : \E some \in SUBSET Nat : Wrong(n, some)}
<1>1. SUFFICES ASSUME Bad # {} PROVE FALSE
  <2>1. SUFFICES ASSUME Cardinality(Newest(ids)) # NewestCount(Cardinality(ids)) PROVE Bad # {}
        OBVIOUS
  <2>2. Cardinality(ids) \in Nat
        BY FS_CardinalityType
  <2>3. QED BY <2>1, <2>2
<1>2. PICK n \in Bad : \A m \in Bad : n <= m
      BY <1>1, LeastOfAll
<1>3. PICK some \in SUBSET Nat : Wrong(n, some)
      BY <1>2
<1>4. some # {}
  <2> SUFFICES ASSUME some = {} PROVE FALSE
      OBVIOUS
  <2>1. n = 0 /\ Newest(some) = {}
        BY <1>3, FS_EmptySet DEF Newest
  <2>2. QED BY <1>3, <2>1, FS_EmptySet, MailConstants DEF NewestCount
<1>5. PICK least \in some : \A other \in some : least <= other
      BY <1>4, LeastOfAll
<1> DEFINE rest == some \ {least}
<1>6. n \in Nat /\ n # 0
      BY <1>2, <1>3, <1>4, FS_EmptySet
<1>7. IsFiniteSet(rest) /\ Cardinality(rest) = n - 1 /\ rest \in SUBSET Nat
      BY <1>3, FS_RemoveElement
<1>8. n - 1 \in Nat /\ ~(n <= n - 1)
      BY <1>6
<1>9. n - 1 \notin Bad
      BY <1>2, <1>8
<1>10. ~Wrong(n - 1, rest)
      BY <1>7, <1>8, <1>9
<1>11. Cardinality(Newest(rest)) = NewestCount(n - 1)
      BY <1>7, <1>10
<1>12. Cardinality(Newest(some)) = NewestCount(n)
      BY <1>3, <1>5, <1>11, NewestOfMore
<1>13. QED BY <1>3, <1>12

\* What is answered is there, and ids are not given away twice.
MailInv ==
    /\ written \in Nat /\ written <= MaxMessages
    /\ inbox \subseteq 1..written
    /\ letters \in [Ids -> [sender : Actors, thread : Nat, read : BOOLEAN, archived : BOOLEAN, acks : SUBSET Actors]]
    /\ \A id \in inbox : letters[id].thread = NoThread \/ letters[id].thread \in inbox

LEMMA MailInvInit == MailInit => MailInv
<1> SUFFICES ASSUME MailInit PROVE MailInv
    OBVIOUS
<1>1. Unwritten \in [sender : Actors, thread : Nat, read : BOOLEAN, archived : BOOLEAN, acks : SUBSET Actors]
      BY DEF Unwritten, Actors, NoThread
<1>2. QED BY <1>1, MailConstants DEF MailInit, MailInv

LEMMA MailInvStep == MailInv /\ [MailNext]_mailVars => MailInv'
<1> SUFFICES ASSUME MailInv, [MailNext]_mailVars PROVE MailInv'
    OBVIOUS
<1> DEFINE Letters ==
        [sender : Actors, thread : Nat, read : BOOLEAN, archived : BOOLEAN, acks : SUBSET Actors]
<1>0. letters \in [Ids -> Letters] /\ inbox \subseteq Ids /\ inbox \subseteq Nat
      BY MailConstants DEF MailInv, Ids
<1>1. CASE CreateAgentMessage
  <2> PICK sender \in Actors, thread \in inbox \cup {NoThread} :
        /\ written < MaxMessages /\ written' = written + 1
        /\ inbox' = inbox \cup {written + 1}
        /\ letters' = [letters EXCEPT ![written + 1] =
                         [Unwritten EXCEPT !.sender = sender, !.thread = thread, !.acks = {sender}]]
      BY <1>1 DEF CreateAgentMessage
  <2> DEFINE letter == [Unwritten EXCEPT !.sender = sender, !.thread = thread, !.acks = {sender}]
  <2>0. thread \in Nat /\ {sender} \in SUBSET Actors
    <3>1. thread \in Nat
          BY <1>0 DEF NoThread
    <3>2. {sender} \in SUBSET Actors
          OBVIOUS
    <3>3. QED BY <3>1, <3>2
  <2>1. letter \in Letters /\ letter.thread = thread
    <3>1. Unwritten \in Letters
          BY DEF Unwritten, Actors, NoThread
    <3>2. \A u \in Letters :
            /\ [u EXCEPT !.sender = sender, !.thread = thread, !.acks = {sender}] \in Letters
            /\ [u EXCEPT !.sender = sender, !.thread = thread, !.acks = {sender}].thread = thread
          BY <2>0
    <3>3. QED BY <3>1, <3>2
  <2> HIDE DEF letter
  <2>2. written \in Nat /\ written + 1 \in Ids /\ written + 1 <= MaxMessages /\ written + 1 \notin inbox
        BY MailConstants DEF MailInv, Ids
  <2>3. letters' = [letters EXCEPT ![written + 1] = letter]
        BY DEF letter
  <2>4. letters' \in [Ids -> Letters]
        BY <1>0, <2>1, <2>2, <2>3
  <2>5. /\ letters'[written + 1].thread = thread
        /\ \A other \in inbox : letters'[other] = letters[other]
        BY <1>0, <2>1, <2>2, <2>3
  <2>6. inbox' \subseteq 1..written'
        BY <2>2 DEF MailInv
  <2>7. \A other \in inbox' : letters'[other].thread = NoThread \/ letters'[other].thread \in inbox'
        BY <2>5 DEF MailInv
  <2>8. QED BY <2>2, <2>4, <2>6, <2>7 DEF MailInv
<1>2. CASE MarkAgentMessageRead
  <2> PICK id \in inbox :
        /\ letters' = [letters EXCEPT ![id].read = TRUE,
                         ![id].acks = IF letters[id].sender = "operator" THEN @ \cup {"agent"} ELSE @]
        /\ UNCHANGED <<inbox, written>>
      BY <1>2 DEF MarkAgentMessageRead
  <2> DEFINE old == letters[id]
             seen == IF old.sender = "operator" THEN old.acks \cup {"agent"} ELSE old.acks
  <2>0. old \in Letters /\ seen \in SUBSET Actors
        BY <1>0 DEF Actors
  <2>1. letters' \in [Ids -> Letters]
    <3>1. \A u \in Letters, a \in SUBSET Actors : [u EXCEPT !.read = TRUE, !.acks = a] \in Letters
          OBVIOUS
    <3>2. [old EXCEPT !.read = TRUE, !.acks = seen] \in Letters
          BY <2>0, <3>1
    <3>3. \A other \in Ids : letters'[other] = IF other = id THEN [old EXCEPT !.read = TRUE, !.acks = seen] ELSE letters[other]
          BY <1>0
    <3>4. letters' = [other \in Ids |-> letters'[other]]
          BY <1>0
    <3>5. \A other \in Ids : letters'[other] \in Letters
      <4> HIDE DEF old, seen, Letters
      <4>1. letters \in [Ids -> Letters]
            BY <1>0
      <4>2. QED BY <4>1, <3>2, <3>3
    <3> HIDE DEF Letters
    <3>6. QED BY <3>4, <3>5, Zenon
  <2>2. \A other \in Ids : letters'[other].thread = letters[other].thread
        BY <1>0
  <2>3. QED BY <1>0, <2>1, <2>2 DEF MailInv
<1>3. CASE ArchiveAgentMessage
  <2> PICK id \in inbox : letters' = [letters EXCEPT ![id].archived = TRUE] /\ UNCHANGED <<inbox, written>>
      BY <1>3 DEF ArchiveAgentMessage
  <2>1. letters' \in [Ids -> Letters]
        BY <1>0
  <2>2. \A other \in Ids : letters'[other].thread = letters[other].thread
        BY <1>0
  <2>3. QED BY <1>0, <2>1, <2>2 DEF MailInv
<1>4. CASE AcknowledgeAgentMessage
  <2> PICK id \in inbox, actor \in Actors :
        letters' = [letters EXCEPT ![id].acks = @ \cup {actor}] /\ UNCHANGED <<inbox, written>>
      BY <1>4 DEF AcknowledgeAgentMessage
  <2>0. letters[id] \in Letters /\ letters[id].acks \cup {actor} \in SUBSET Actors
        BY <1>0
  <2>1. letters' \in [Ids -> Letters]
    <3> DEFINE old == letters[id]
               acks == old.acks \cup {actor}
    <3>1. \A u \in Letters, a \in SUBSET Actors : [u EXCEPT !.acks = a] \in Letters
          OBVIOUS
    <3>2. [old EXCEPT !.acks = acks] \in Letters
          BY <2>0, <3>1
    <3>3. \A other \in Ids : letters'[other] = IF other = id THEN [old EXCEPT !.acks = acks] ELSE letters[other]
          BY <1>0
    <3>4. letters' = [other \in Ids |-> letters'[other]]
          BY <1>0
    <3>5. \A other \in Ids : letters'[other] \in Letters
      <4> HIDE DEF old, acks, Letters
      <4>1. letters \in [Ids -> Letters]
            BY <1>0
      <4>2. QED BY <4>1, <3>2, <3>3
    <3> HIDE DEF Letters
    <3>6. QED BY <3>4, <3>5, Zenon
  <2>2. \A other \in Ids : letters'[other].thread = letters[other].thread
        BY <1>0
  <2>3. QED BY <1>0, <2>1, <2>2 DEF MailInv
<1>5. CASE DeleteAgentMessage
      BY <1>5 DEF DeleteAgentMessage, MailInv
<1>6. CASE UNCHANGED mailVars
      BY <1>6 DEF mailVars, MailInv
<1>7. QED BY <1>1, <1>2, <1>3, <1>4, <1>5, <1>6 DEF MailNext

\* Every message is found in its own thread beside the message it answers,
\* and the list of the unread is as long as their count, up to its limit
\* (agent.py:320, :334, :400), for any number of messages.
THEOREM ThreadsStayWhole == MailSpec => []ThreadsAreWhole
<1>1. MailInv => ThreadsAreWhole
  <2> SUFFICES ASSUME MailInv PROVE ThreadsAreWhole
      OBVIOUS
  <2>1. inbox \subseteq Nat /\ NoThread \notin inbox
        BY DEF MailInv, NoThread
  <2>2. ASSUME NEW id \in inbox
        PROVE  /\ {id, RootOf(id)} \subseteq GetAgentMessage(id)
               /\ \A other \in inbox : letters[other].thread = id =>
                    other \in GetAgentMessage(other) /\ id \in GetAgentMessage(other)
    <3>1. ASSUME NEW other \in inbox
          PROVE  other \in GetAgentMessage(other) /\ RootOf(other) \in GetAgentMessage(other)
      <4>1. RootOf(other) \in inbox
            BY DEF RootOf, MailInv
      <4>2. other = RootOf(other) \/ letters[other].thread = RootOf(other)
            BY DEF RootOf
      <4>3. QED BY <4>1, <4>2 DEF GetAgentMessage
    <3>2. ASSUME NEW other \in inbox, letters[other].thread = id PROVE RootOf(other) = id
          BY <2>1, <3>2 DEF RootOf
    <3>3. QED BY <3>1, <3>2
  <2>3. ASSUME NEW sender \in Actors
        PROVE  Cardinality(ListAgentMessages(sender)) = Min({ListLimit, AgentMessagesUnreadCount(sender)})
    <3> DEFINE unread == {id \in inbox : letters[id].sender = sender /\ ~letters[id].read /\ ~letters[id].archived}
    <3>1. AgentMessagesUnreadCount(sender) = Cardinality(unread)
      <4>1. {id \in inbox : ~letters[id].read /\ ~letters[id].archived /\ letters[id].sender = sender} = unread
            OBVIOUS
      <4>2. QED BY <4>1 DEF AgentMessagesUnreadCount
    <3>2. ListAgentMessages(sender) = Newest(unread)
          BY DEF ListAgentMessages
    <3>3. IsFiniteSet(inbox)
      <4>1. IsFiniteSet(1..written)
            BY FS_Interval DEF MailInv
      <4>2. QED BY <4>1, FS_Subset DEF MailInv
    <3>4. unread \in SUBSET inbox /\ unread \in SUBSET Nat
          BY <2>1
    <3> HIDE DEF unread
    <3>5. IsFiniteSet(unread) /\ Cardinality(unread) \in Nat
          BY <3>3, <3>4, FS_Subset, FS_CardinalityType
    <3>6. Cardinality(Newest(unread)) = NewestCount(Cardinality(unread))
          BY <3>4, <3>5, NewestLength
    <3>7. ListLimit \in Int /\ Cardinality(unread) \in Int
          BY <3>5, MailConstants
    <3>8. Min({ListLimit, Cardinality(unread)}) = NewestCount(Cardinality(unread))
          BY <3>7, MinOfTwo DEF NewestCount
    <3>9. QED BY <3>1, <3>2, <3>6, <3>8
  <2>4. QED BY <2>2, <2>3 DEF ThreadsAreWhole
<1>2. QED BY MailInvInit, MailInvStep, <1>1, PTL DEF MailSpec

(***************************************************************************)
(* The household.                                                          *)
(***************************************************************************)
LEMMA PositiveIs ==
    ASSUME NEW w \in Int
    PROVE  Positive(w) = IF w > 0 THEN w ELSE 0
<1>1. 0 \in Int
      OBVIOUS
<1>2. Max({0, w}) = IF 0 >= w THEN 0 ELSE w
      BY <1>1, MaxOfTwo
<1>3. QED BY <1>2 DEF Positive

LEMMA Or0IsNumber ==
    ASSUME NEW w \in Int \cup {None}
    PROVE  Or0(w) \in Int
BY DEF Or0

LEMMA BatteryIsNumber ==
    ASSUME NEW t \in Telemetries
    PROVE  BatteryCurvePower(t) \in Int \cup {None}
<1>1. t.power \in Int \cup {None} /\ t.discharge \in Int \cup {None} /\ t.setpoint \in Int \cup {None}
      BY ViewConstants
<1>2. ActiveBatterySetpoint(t) \in Int \cup {None}
  <2>1. CASE Or0(t.discharge) # 0
        BY <1>1, <2>1 DEF ActiveBatterySetpoint, Magn, Or0
  <2>2. CASE Or0(t.discharge) = 0 /\ Or0(t.setpoint) # 0
        BY <1>1, <2>2 DEF ActiveBatterySetpoint, Magn, Or0
  <2>3. CASE Or0(t.discharge) = 0 /\ Or0(t.setpoint) = 0
        BY <2>3 DEF ActiveBatterySetpoint
  <2>4. QED BY <2>1, <2>2, <2>3
<1>3. QED BY <1>1, <1>2 DEF BatteryCurvePower

\* The amounts that the views add up: the battery moves in one direction,
\* and none is negative.
LEMMA Amounts ==
    ASSUME NEW t \in Telemetries
    PROVE  /\ BatteryCharge(t) \in Nat /\ BatteryDischarge(t) \in Nat
           /\ GridImport(t) \in Nat /\ GridExport(t) \in Nat
           /\ Positive(Or0(t.solar)) \in Nat
<1>1. /\ t.delivered \in Nat \cup {None} /\ t.returned \in Nat \cup {None}
      /\ t.net \in Int \cup {None} /\ t.power \in Int \cup {None} /\ t.discharge \in Int \cup {None}
      /\ t.setpoint \in Int \cup {None} /\ t.solar \in Int \cup {None}
      BY ViewConstants
<1>3. BatteryCurvePower(t) \in Int \cup {None}
      BY BatteryIsNumber
<1>4. Or0(BatteryCurvePower(t)) \in Int /\ Or0(t.solar) \in Int /\ Or0(t.net) \in Int
      BY <1>1, <1>3, Or0IsNumber
<1>5. -Or0(BatteryCurvePower(t)) \in Int /\ -Or0(t.net) \in Int
      BY <1>4
<1>6. /\ BatteryCharge(t) \in Nat /\ BatteryDischarge(t) \in Nat
      /\ Positive(Or0(t.solar)) \in Nat /\ Positive(Or0(t.net)) \in Nat /\ Positive(-Or0(t.net)) \in Nat
      BY <1>4, <1>5, PositiveIs DEF BatteryCharge, BatteryDischarge
<1>7. QED BY <1>1, <1>6 DEF GridImport, GridExport

LEMMA LoadIs ==
    ASSUME NEW t \in Telemetries
    PROVE  /\ HouseholdLoad(t) \in Nat
           /\ HouseholdLoad(t) = Positive(Positive(Or0(t.solar)) + BatteryDischarge(t) - BatteryCharge(t)
                                            - GridExport(t) + GridImport(t))
<1> DEFINE sun == Positive(Or0(t.solar))
           out == BatteryDischarge(t)
           in == BatteryCharge(t)
           back == GridExport(t)
           from == GridImport(t)
<1>1. sun \in Nat /\ out \in Nat /\ in \in Nat /\ back \in Nat /\ from \in Nat
      BY Amounts
<1>2. HouseholdLoad(t) = Positive(sun + (out - in) - back + from)
      BY DEF HouseholdLoad, MethodA, BatteryNet
<1> HIDE DEF sun, out, in, back, from
<1>3. sun + (out - in) - back + from = sun + out - in - back + from
      BY <1>1
<1>4. sun + out - in - back + from \in Int
      BY <1>1
<1>5. HouseholdLoad(t) = Positive(sun + out - in - back + from)
      BY <1>2, <1>3
<1>6. HouseholdLoad(t) \in Nat
      BY <1>4, <1>5, PositiveIs
<1>7. QED BY <1>5, <1>6 DEF sun, out, in, back, from

\* What an idle battery moves.
LEMMA IdleIsStill ==
    ASSUME NEW t \in Telemetries
    PROVE  IdleMovesNothing(t)
<1> DEFINE out == BatteryDischarge(t)
           in == BatteryCharge(t)
<1>1. out \in Nat /\ in \in Nat
      BY Amounts
<1>2. CASE t.control = "COOLDOWN"
      BY <1>2 DEF BatteryPhase, IdleMovesNothing
<1>3. CASE t.control # "COOLDOWN" /\ ("CHARGING" \in {DeriveBatteryState(t, t.control), t.control} \/ in > 0)
      BY <1>3 DEF BatteryPhase, IdleMovesNothing
<1>4. CASE /\ t.control # "COOLDOWN" /\ "CHARGING" \notin {DeriveBatteryState(t, t.control), t.control} /\ in = 0
           /\ ("DISCHARGING" \in {DeriveBatteryState(t, t.control), t.control} \/ out > 0)
      BY <1>4 DEF BatteryPhase, IdleMovesNothing
<1>5. CASE in = 0 /\ out = 0
      BY <1>5 DEF IdleMovesNothing
<1>6. QED BY <1>1, <1>2, <1>3, <1>4, <1>5

(***************************************************************************)
(* Dryad's household: a row is only stored when there is something to      *)
(* store, so that what the rows of a minute that tells one moment lack is  *)
(* nothing.                                                                *)
(***************************************************************************)
RowsAreOfMoments ==
    \A point \in curve :
        /\ point.of \in Telemetries
        /\ point.source = "solar" => point.of.solar # None
        /\ point.source = "battery" => BatteryCurvePower(point.of) # None

\* The meter's row is read as the API reads the meter.
LEMMA MeterIsReadAlike ==
    ASSUME NEW t \in Telemetries, Coherent(t)
    PROVE  CurveImport(t) = GridImport(t) /\ CurveExport(t) = GridExport(t)
<1>1. /\ t.delivered \in Nat \cup {None} /\ t.returned \in Nat \cup {None}
      /\ t.net \in Int /\ -t.net \in Int
      BY ViewConstants DEF Coherent
<1>2. CASE t.delivered = None /\ t.returned = None
      BY <1>1, <1>2 DEF Coherent, CurveImport, CurveExport, GridImport, GridExport, Or0
<1>3. CASE /\ t.delivered # None /\ t.returned # None
           /\ t.net = t.delivered - t.returned
  <2> DEFINE from == t.delivered
             back == t.returned
  <2>1. from \in Nat /\ back \in Nat /\ t.net = from - back
        BY <1>1, <1>3
  <2>2. GridImport(t) = from /\ GridExport(t) = back /\ Or0(from) = from /\ Or0(back) = back
        BY <1>3 DEF GridImport, GridExport, Or0
  <2>3. CurveImport(t) = from
    <3>1. CurveImport(t) = Positive(IF from # 0 THEN from ELSE t.net)
          BY <2>2 DEF CurveImport
    <3> HIDE DEF from, back
    <3>2. QED BY <1>1, <2>1, <3>1, PositiveIs
  <2>4. CurveExport(t) = back
    <3>1. CurveExport(t) = Positive(IF back # 0 THEN back ELSE -t.net)
          BY <2>2 DEF CurveExport
    <3> HIDE DEF from, back
    <3>2. QED BY <1>1, <2>1, <3>1, PositiveIs
  <2>5. QED BY <2>2, <2>3, <2>4
<1>4. QED BY <1>2, <1>3 DEF Coherent

\* A minute that tells one moment is read as the API read that moment.
LEMMA MinuteIsReadAlike ==
    ASSUME RowsAreOfMoments, NEW m, Whole(m)
    PROVE  /\ ImportOf(m) = GridImport(Told(m, "grid"))
           /\ CurveLoad(m) = HouseholdLoad(Told(m, "grid"))
<1> DEFINE t == Told(m, "grid")
<1>1. ASSUME NEW s, Stored(m, s)
      PROVE  Told(m, s) = t /\ \E point \in curve : point.source = s /\ point.of = t
  <2>1. PICK point \in PointsOf(m, s) : Told(m, s) = point.of
        BY <1>1 DEF Stored, Told
  <2>2. point \in curve /\ point.minute = m /\ point.source = s
        BY DEF PointsOf
  <2>3. point.of = t
        BY <2>2 DEF Whole
  <2>4. QED BY <2>1, <2>2, <2>3
<1>2. Stored(m, "grid") /\ Coherent(t)
      BY DEF Whole
<1>3. t \in Telemetries
      BY <1>1, <1>2 DEF RowsAreOfMoments
<1> DEFINE sun == Positive(Or0(t.solar))
           moved == Or0(BatteryCurvePower(t))
           back == GridExport(t)
           from == GridImport(t)
<1>4. ImportOf(m) = from /\ ExportOf(m) = back
      BY <1>2, <1>3, MeterIsReadAlike DEF ImportOf, ExportOf
<1>5. CASE Stored(m, "household")
      BY <1>1, <1>4, <1>5 DEF CurveLoad
<1>6. CASE ~Stored(m, "household")
  <2>1. /\ t.solar # None => Stored(m, "solar")
        /\ BatteryCurvePower(t) # None => Stored(m, "battery")
        BY <1>6 DEF Whole
  <2>2. SolarOf(m) = sun
    <3>1. CASE Stored(m, "solar")
      <4>1. Told(m, "solar") = t /\ t.solar # None
            BY <1>1, <3>1 DEF RowsAreOfMoments
      <4>2. QED BY <3>1, <4>1 DEF SolarOf, Or0
    <3>2. CASE ~Stored(m, "solar")
      <4>1. t.solar = None /\ 0 \in Int
            BY <2>1, <3>2
      <4>2. sun = 0
            BY <4>1, PositiveIs DEF Or0
      <4>3. QED BY <3>2, <4>2 DEF SolarOf
    <3>3. QED BY <3>1, <3>2
  <2>3. BatteryOf(m) = moved
    <3>1. CASE Stored(m, "battery")
      <4>1. Told(m, "battery") = t /\ BatteryCurvePower(t) # None
            BY <1>1, <3>1 DEF RowsAreOfMoments
      <4>2. QED BY <3>1, <4>1 DEF BatteryOf, Or0
    <3>2. CASE ~Stored(m, "battery")
          BY <2>1, <3>2 DEF BatteryOf, Or0
    <3>3. QED BY <3>1, <3>2
  <2> DEFINE out == BatteryDischarge(t)
             in == BatteryCharge(t)
  <2>4. sun \in Nat /\ out \in Nat /\ in \in Nat /\ back \in Nat /\ from \in Nat
        BY <1>3, Amounts
  <2>5. CurveLoad(m) = Positive(from + sun - back - in + out)
        BY <1>4, <1>6, <2>2, <2>3 DEF CurveLoad, BatteryCharge, BatteryDischarge
  <2>6. HouseholdLoad(t) = Positive(sun + out - in - back + from)
        BY <1>3, LoadIs
  <2> HIDE DEF sun, out, in, back, from
  <2>7. from + sun - back - in + out = sun + out - in - back + from
        BY <2>4
  <2>8. CurveLoad(m) = HouseholdLoad(t)
        BY <2>5, <2>6, <2>7
  <2>9. QED BY <1>4, <2>8 DEF from
<1>7. QED BY <1>5, <1>6

LEMMA SharesAgree ==
    ASSUME RowsAreOfMoments
    PROVE  ShareIsOfTheLoad
<1> SUFFICES ASSUME \A m \in Minutes : Whole(m)
             PROVE  ComputeAutarky =
                        ShareNotBrought(SumFunction([m \in Minutes |-> GridImport(Told(m, "grid"))]),
                                        SumFunction([m \in Minutes |-> HouseholdLoad(Told(m, "grid"))]))
    BY DEF ShareIsOfTheLoad
<1>1. \A m \in Minutes : /\ ImportOf(m) = GridImport(Told(m, "grid"))
                         /\ CurveLoad(m) = HouseholdLoad(Told(m, "grid"))
      BY MinuteIsReadAlike
<1>2. /\ [m \in Minutes |-> ImportOf(m)] = [m \in Minutes |-> GridImport(Told(m, "grid"))]
      /\ [m \in Minutes |-> CurveLoad(m)] = [m \in Minutes |-> HouseholdLoad(Told(m, "grid"))]
      BY <1>1
<1>3. QED BY <1>2 DEF ComputeAutarky

(***************************************************************************)
(* The rolled up average.                                                  *)
(***************************************************************************)
LEMMA DivisionIs ==
    ASSUME NEW a \in Int, NEW b \in Nat, b > 0
    PROVE  a \div b \in Int /\ b * (a \div b) <= a /\ a < b * (a \div b) + b
OBVIOUS

LEMMA RoundedIsNear ==
    ASSUME NEW n \in Int, NEW d \in Nat, d > 0
    PROVE  Rounded(n, d) \in Int /\ 2 * Magn(Rounded(n, d) * d - n) <= d
<1>1. CASE n >= 0
  <2> DEFINE q == (2 * n + d) \div (2 * d)
  <2>1. q \in Int /\ (2 * d) * q <= 2 * n + d /\ 2 * n + d < (2 * d) * q + 2 * d
        BY DivisionIs
  <2>2. Rounded(n, d) = q
        BY <1>1 DEF Rounded
  <2> HIDE DEF q
  <2>3. q * d \in Int /\ (2 * d) * q = 2 * (q * d)
        BY <2>1
  <2>4. QED BY <2>1, <2>2, <2>3 DEF Magn
<1>2. CASE n < 0
  <2> DEFINE q == (d - 2 * n) \div (2 * d)
  <2>1. q \in Int /\ (2 * d) * q <= d - 2 * n /\ d - 2 * n < (2 * d) * q + 2 * d
        BY DivisionIs
  <2>2. Rounded(n, d) = -q
        BY <1>2 DEF Rounded
  <2> HIDE DEF q
  <2>3. q * d \in Int /\ (2 * d) * q = 2 * (q * d) /\ (-q) * d = -(q * d)
        BY <2>1
  <2>4. QED BY <2>1, <2>2, <2>3 DEF Magn
<1>3. QED BY <1>1, <1>2

HouseholdInv ==
    /\ reading \in Telemetries
    /\ RowsAreOfMoments
    /\ pooled \in Nat /\ rolled \in Int /\ measured \in Int
    /\ pooled = 0 => measured = 0
    /\ RollupsStayNear

\* One more sample: what was rounded away stays away, and half a watt per
\* sample of the bucket may be added to it.
LEMMA SampleStaysNear ==
    ASSUME HouseholdInv, NEW watts \in Int, StorePowerCurvePoint(watts)
    PROVE  pooled' \in Nat \ {0} /\ rolled' \in Int /\ measured' \in Int /\ RollupsStayNear'
<1>0. pooled \in Nat /\ rolled \in Int /\ measured \in Int
      BY DEF HouseholdInv
<1>1. CASE pooled = 0
  <2>1. pooled' = 1 /\ rolled' = watts /\ measured' = measured + watts
        BY <1>1 DEF StorePowerCurvePoint, Rolled
  <2>2. QED BY <1>0, <1>1, <2>1 DEF HouseholdInv, RollupsStayNear, Magn
<1>2. CASE pooled > 0
  <2> DEFINE c == pooled
             total == rolled * pooled
             next == Rounded(total + watts, c + 1)
             off == next * (c + 1)
  <2>1. c \in Nat /\ total \in Int
        BY <1>0
  <2>2. next \in Int /\ 2 * Magn(next * (c + 1) - (total + watts)) <= c + 1
        BY <2>1, RoundedIsNear
  <2>3. 4 * Magn(total - measured) <= c * (c + 1) - 2
        BY <1>2 DEF HouseholdInv, RollupsStayNear
  <2>4. rolled' = next /\ pooled' = c + 1 /\ measured' = measured + watts
        BY <1>2 DEF StorePowerCurvePoint, Rolled
  <2> HIDE DEF c, total, next
  <2>5. off \in Int /\ 2 * Magn(off - (total + watts)) <= c + 1
        BY <2>1, <2>2
  <2> DEFINE square == c * (c + 1)
  <2>6. (c + 1) * ((c + 1) + 1) = square + 2 * (c + 1) /\ square \in Int
        BY <2>1
  <2>7. 4 * Magn(total - measured) <= square - 2
        BY <2>3
  <2> HIDE DEF off, square
  <2>8. 4 * Magn(off - (measured + watts)) <= square + 2 * (c + 1) - 2
        BY <1>0, <2>1, <2>5, <2>6, <2>7 DEF Magn
  <2>9. 4 * Magn(rolled' * pooled' - measured') <= pooled' * (pooled' + 1) - 2
        BY <2>4, <2>6, <2>8 DEF off
  <2>10. QED BY <1>0, <2>1, <2>2, <2>4, <2>9 DEF RollupsStayNear
<1>3. QED BY <1>0, <1>1, <1>2

\* A page adds rows of the present telemetry, and only those that there is
\* something to store for.
LEMMA PagesStoreMoments ==
    ASSUME reading \in Telemetries, RowsAreOfMoments,
           NEW m, NEW added \in SUBSET (SolarRows(m) \cup GridRows \cup BatteryRows \cup {CurveRow(present, "household", reading)}),
           curve' = curve \cup added
    PROVE  RowsAreOfMoments'
<1>1. ASSUME NEW point \in SolarRows(m)
      PROVE  point.of = reading /\ point.source = "solar" /\ reading.solar # None
      BY <1>1 DEF SolarRows, CurveRow
<1>2. ASSUME NEW point \in GridRows
      PROVE  point.of = reading /\ point.source = "grid"
      BY <1>2 DEF GridRows, CurveRow
<1>3. ASSUME NEW point \in BatteryRows
      PROVE  point.of = reading /\ point.source = "battery" /\ BatteryCurvePower(reading) # None
      BY <1>3 DEF BatteryRows, CurveRow
<1>4. ASSUME NEW point \in {CurveRow(present, "household", reading)}
      PROVE  point.of = reading /\ point.source = "household"
      BY <1>4 DEF CurveRow
<1>5. ASSUME NEW point \in added
      PROVE  /\ point.of = reading
             /\ point.source = "solar" => reading.solar # None
             /\ point.source = "battery" => BatteryCurvePower(reading) # None
      BY <1>1, <1>2, <1>3, <1>4
<1>6. ASSUME NEW point \in curve'
      PROVE  /\ point.of \in Telemetries
             /\ point.source = "solar" => point.of.solar # None
             /\ point.source = "battery" => BatteryCurvePower(point.of) # None
  <2>1. CASE point \in curve
        BY <2>1 DEF RowsAreOfMoments
  <2>2. CASE point \in added
        BY <1>5, <2>2
  <2>3. QED BY <2>1, <2>2
<1>7. QED BY <1>6 DEF RowsAreOfMoments

\* For every telemetry, however the pages are asked for and however many
\* samples there are: a battery that is idle moves nothing, Dryad's share of
\* minutes that tell one moment is that of the load the API showed, and the
\* rolled up average stays near the mean (payload_helpers.py:606, dryad.py:95,
\* battery.py:243).
THEOREM HouseholdAddsUp == ViewSpec => []HouseholdIsAccounted
<1>1. ViewInit => HouseholdInv
      BY DEF ViewInit, HouseholdInv, RollupsStayNear, RowsAreOfMoments
<1>2. HouseholdInv /\ [ViewNext]_viewVars => HouseholdInv'
  <2> SUFFICES ASSUME HouseholdInv, [ViewNext]_viewVars PROVE HouseholdInv'
      OBVIOUS
  <2>0. reading \in Telemetries /\ RowsAreOfMoments
        BY DEF HouseholdInv
  <2>1. CASE GridStatus
    <3>1. PICK m \in {present - 1, present} :
              curve' = curve \cup SolarRows(m) \cup GridRows /\ UNCHANGED <<reading, bucket>>
          BY <2>1 DEF GridStatus
    <3>2. curve' = curve \cup (SolarRows(m) \cup GridRows)
          BY <3>1
    <3>3. RowsAreOfMoments'
          BY <2>0, <3>2, PagesStoreMoments
    <3>4. QED BY <3>1, <3>3 DEF HouseholdInv, bucket, RollupsStayNear
  <2>2. CASE BatteryStatus
    <3>1. RowsAreOfMoments'
          BY <2>0, <2>2, PagesStoreMoments DEF BatteryStatus
    <3>2. QED BY <2>2, <3>1 DEF BatteryStatus, HouseholdInv, bucket, RollupsStayNear
  <2>3. CASE HouseholdStatus
    <3>1. HouseholdLoad(reading) \in Int
          BY <2>0, LoadIs
    <3>2. pooled' \in Nat \ {0} /\ rolled' \in Int /\ measured' \in Int /\ RollupsStayNear'
          BY <2>3, <3>1, SampleStaysNear DEF HouseholdStatus
    <3>3. RowsAreOfMoments'
          BY <2>0, <2>3, PagesStoreMoments DEF HouseholdStatus
    <3>4. QED BY <2>0, <2>3, <3>2, <3>3 DEF HouseholdStatus, HouseholdInv
  <2>4. CASE TelemetryChanges
        BY <2>4 DEF TelemetryChanges, HouseholdInv, bucket, RollupsStayNear, RowsAreOfMoments
  <2>5. CASE NextMinute
    <3>1. CASE UNCHANGED bucket
          BY <2>5, <3>1 DEF NextMinute, HouseholdInv, bucket, RollupsStayNear, RowsAreOfMoments
    <3>2. CASE pooled' = 0 /\ rolled' = 0 /\ measured' = 0
          BY <2>5, <3>2 DEF NextMinute, HouseholdInv, RollupsStayNear, RowsAreOfMoments
    <3>3. QED BY <2>5, <3>1, <3>2 DEF NextMinute
  <2>6. CASE UNCHANGED viewVars
        BY <2>6 DEF viewVars, bucket, HouseholdInv, RollupsStayNear, RowsAreOfMoments
  <2>7. QED BY <2>1, <2>2, <2>3, <2>4, <2>5, <2>6 DEF ViewNext
<1>3. HouseholdInv => HouseholdIsAccounted
      BY IdleIsStill, SharesAgree DEF HouseholdInv, HouseholdIsAccounted
<1>4. QED BY <1>1, <1>2, <1>3, PTL DEF ViewSpec

(***************************************************************************)
(* Sums over a finite set: the fold of the community modules takes the     *)
(* elements in an order of its own, and the sum does not depend on it.     *)
(***************************************************************************)
Choice(s) == CHOOSE x \in s : TRUE
SumStep(f, s, g) == IF s = {} THEN 0 ELSE f[Choice(s)] + g[s \ {Choice(s)}]
IsSum(f, S, g) == g = [s \in SUBSET S |-> SumStep(f, s, g)]
Sums(f, S) == CHOOSE g : IsSum(f, S, g)

\* Of subsets of a finite set that are not as they should be, there is one
\* without such a proper subset.
LEMMA SmallestSubset ==
    ASSUME NEW S, IsFiniteSet(S), NEW bad \in SUBSET SUBSET S, bad # {}
    PROVE  \E s \in bad : \A x \in s : s \ {x} \notin bad
<1> DEFINE sizes == {Cardinality(s) : s \in bad}
<1>1. \A s \in bad : IsFiniteSet(s) /\ Cardinality(s) \in Nat
      BY FS_Subset, FS_CardinalityType
<1>2. sizes \in SUBSET Nat /\ sizes # {}
      BY <1>1
<1>3. PICK least \in sizes : \A other \in sizes : least <= other
      BY <1>2, LeastOfAll
<1>4. PICK s \in bad : Cardinality(s) = least
      OBVIOUS
<1>5. ASSUME NEW x \in s PROVE s \ {x} \notin bad
  <2>1. Cardinality(s \ {x}) = Cardinality(s) - 1
        BY <1>1, FS_RemoveElement
  <2>2. Cardinality(s) \in Nat
        BY <1>1
  <2>3. s \ {x} \in bad => Cardinality(s) <= Cardinality(s \ {x})
        BY <1>3, <1>4
  <2>4. QED BY <2>1, <2>2, <2>3
<1>6. QED BY <1>5

Small(S, n) == {s \in SUBSET S : Cardinality(s) <= n}
IsSumTo(f, S, n, g) == g = [s \in Small(S, n) |-> SumStep(f, s, g)]

LEMMA SumGrows ==
    ASSUME NEW S, IsFiniteSet(S), NEW f, NEW n \in Nat, NEW g, IsSumTo(f, S, n, g)
    PROVE  \E h : IsSumTo(f, S, n + 1, h)
<1> DEFINE h == [s \in Small(S, n + 1) |-> IF s \in Small(S, n) THEN g[s] ELSE f[Choice(s)] + g[s \ {Choice(s)}]]
<1>1. ASSUME NEW s \in Small(S, n + 1) PROVE h[s] = SumStep(f, s, h)
  <2>1. IsFiniteSet(s) /\ Cardinality(s) \in Nat /\ s \in SUBSET S
        BY FS_Subset, FS_CardinalityType DEF Small
  <2>2. s = {} => s \in Small(S, n)
        BY FS_EmptySet DEF Small
  <2>3. s # {} => s \ {Choice(s)} \in Small(S, n) /\ s \ {Choice(s)} \in Small(S, n + 1)
    <3> SUFFICES ASSUME s # {} PROVE s \ {Choice(s)} \in Small(S, n) /\ s \ {Choice(s)} \in Small(S, n + 1)
        OBVIOUS
    <3>1. Choice(s) \in s
          BY DEF Choice
    <3>2. Cardinality(s \ {Choice(s)}) = Cardinality(s) - 1
          BY <2>1, <3>1, FS_RemoveElement
    <3>3. Cardinality(s) <= n + 1
          BY DEF Small
    <3>4. QED BY <2>1, <3>2, <3>3 DEF Small
  <2>4. s \in Small(S, n) => g[s] = SumStep(f, s, g)
        BY DEF IsSumTo
  <2>5. s # {} => h[s \ {Choice(s)}] = g[s \ {Choice(s)}]
        BY <2>3
  <2>6. h[s] = IF s \in Small(S, n) THEN g[s] ELSE f[Choice(s)] + g[s \ {Choice(s)}]
        OBVIOUS
  <2> HIDE DEF h
  <2>7. QED BY <2>2, <2>4, <2>5, <2>6, Zenon DEF SumStep
<1>2. h = [s \in Small(S, n + 1) |-> h[s]]
      OBVIOUS
<1> HIDE DEF h
<1>3. h = [s \in Small(S, n + 1) |-> SumStep(f, s, h)]
      BY <1>1, <1>2, Zenon
<1>4. QED BY <1>3 DEF IsSumTo

LEMMA SumExists ==
    ASSUME NEW S, IsFiniteSet(S), NEW f
    PROVE  IsSum(f, S, Sums(f, S))
<1> DEFINE bad == {n \in Nat : ~ \E g : IsSumTo(f, S, n, g)}
<1>1. 0 \notin bad
  <2> DEFINE g == [s \in Small(S, 0) |-> 0]
  <2>1. \A s \in Small(S, 0) : s = {}
    <3> SUFFICES ASSUME NEW s \in Small(S, 0) PROVE s = {}
        OBVIOUS
    <3>1. IsFiniteSet(s) /\ Cardinality(s) \in Nat /\ Cardinality(s) <= 0
          BY FS_Subset, FS_CardinalityType DEF Small
    <3>2. QED BY <3>1, FS_EmptySet
  <2>2. \A s \in Small(S, 0) : SumStep(f, s, g) = 0
        BY <2>1, Zenon DEF SumStep
  <2>3. g = [s \in Small(S, 0) |-> SumStep(f, s, g)]
        BY <2>2, Zenon
  <2> HIDE DEF g
  <2>4. IsSumTo(f, S, 0, g)
        BY <2>3 DEF IsSumTo
  <2>5. QED BY <2>4
<1>2. bad = {}
  <2> SUFFICES ASSUME bad # {} PROVE FALSE
      OBVIOUS
  <2>1. PICK least \in bad : \A other \in bad : least <= other
    <3>1. bad \in SUBSET Nat
          OBVIOUS
    <3> HIDE DEF bad
    <3>2. QED BY <3>1, LeastOfAll
  <2>2. least \in Nat /\ least # 0
        BY <1>1
  <2>3. least - 1 \in Nat /\ least - 1 \notin bad /\ (least - 1) + 1 = least
        BY <2>1, <2>2
  <2>4. \E g : IsSumTo(f, S, least - 1, g)
        BY <2>3
  <2>5. \E h : IsSumTo(f, S, least, h)
        BY <2>3, <2>4, SumGrows
  <2>6. QED BY <2>5
<1>3. Cardinality(S) \in Nat
      BY FS_CardinalityType
<1>4. Small(S, Cardinality(S)) = SUBSET S
      BY FS_Subset DEF Small
<1>5. \E g : IsSumTo(f, S, Cardinality(S), g)
      BY <1>2, <1>3
<1>6. \E g : IsSum(f, S, g)
      BY <1>4, <1>5 DEF IsSumTo, IsSum
<1>7. QED BY <1>6 DEF Sums

LEMMA SumOfNumbers ==
    ASSUME NEW S, IsFiniteSet(S), NEW f \in [S -> Int]
    PROVE  /\ Sums(f, S) \in [SUBSET S -> Int]
           /\ Sums(f, S)[{}] = 0
           /\ \A s \in SUBSET S : s # {} =>
                /\ Choice(s) \in s
                /\ Sums(f, S)[s] = f[Choice(s)] + Sums(f, S)[s \ {Choice(s)}]
<1> DEFINE g == Sums(f, S)
           bad == {s \in SUBSET S : g[s] \notin Int}
<1>1. g = [s \in SUBSET S |-> SumStep(f, s, g)]
      BY SumExists DEF IsSum
<1> HIDE DEF g
<1>2. \A s \in SUBSET S : g[s] = SumStep(f, s, g)
      BY <1>1
<1>3. g[{}] = 0
      BY <1>2 DEF SumStep
<1>4. \A s \in SUBSET S : s # {} => Choice(s) \in s /\ g[s] = f[Choice(s)] + g[s \ {Choice(s)}]
      BY <1>2 DEF SumStep, Choice
<1>5. bad = {}
  <2> SUFFICES ASSUME bad # {} PROVE FALSE
      OBVIOUS
  <2>1. PICK s \in bad : \A x \in s : s \ {x} \notin bad
    <3>1. bad \in SUBSET SUBSET S
          OBVIOUS
    <3> HIDE DEF bad
    <3>2. QED BY <3>1, SmallestSubset
  <2>2. s # {} /\ s \in SUBSET S
        BY <1>3
  <2>3. g[s \ {Choice(s)}] \in Int /\ f[Choice(s)] \in Int
        BY <1>4, <2>1, <2>2
  <2>4. g[s] \in Int
        BY <1>4, <2>2, <2>3
  <2>5. QED BY <2>4
<1>6. g \in [SUBSET S -> Int]
      BY <1>1, <1>5
<1>7. QED BY <1>3, <1>4, <1>6 DEF g

\* Any element may be taken first.
LEMMA SumInAnyOrder ==
    ASSUME NEW S, IsFiniteSet(S), NEW f \in [S -> Int], NEW s \in SUBSET S, NEW x \in s
    PROVE  Sums(f, S)[s] = f[x] + Sums(f, S)[s \ {x}]
<1> DEFINE g == Sums(f, S)
           Wrong(t) == \E y \in t : g[t] # f[y] + g[t \ {y}]
           bad == {t \in SUBSET S : Wrong(t)}
<1>1. /\ g \in [SUBSET S -> Int]
      /\ \A t \in SUBSET S : t # {} => Choice(t) \in t /\ g[t] = f[Choice(t)] + g[t \ {Choice(t)}]
      BY SumOfNumbers
<1> HIDE DEF g
<1>2. bad = {}
  <2> SUFFICES ASSUME bad # {} PROVE FALSE
      OBVIOUS
  <2>1. PICK t \in bad : \A y \in t : t \ {y} \notin bad
    <3>1. bad \in SUBSET SUBSET S
          OBVIOUS
    <3> HIDE DEF bad
    <3>2. QED BY <3>1, SmallestSubset
  <2>2. PICK y \in t : g[t] # f[y] + g[t \ {y}]
        OBVIOUS
  <2> DEFINE c == Choice(t)
  <2>3. t \in SUBSET S /\ c \in t /\ g[t] = f[c] + g[t \ {c}] /\ y # c
        BY <1>1, <2>2
  <2>4. t \ {c} \in SUBSET S /\ t \ {y} \in SUBSET S /\ y \in t \ {c} /\ c \in t \ {y}
        BY <2>3
  <2>5. (t \ {c}) \ {y} = (t \ {y}) \ {c} /\ (t \ {c}) \ {y} \in SUBSET S
        BY <2>3
  <2> HIDE DEF c
  <2>6. g[t \ {c}] = f[y] + g[(t \ {c}) \ {y}]
        BY <2>1, <2>3, <2>4
  <2>7. g[t \ {y}] = f[c] + g[(t \ {y}) \ {c}]
        BY <2>1, <2>4
  <2>8. f[c] \in Int /\ f[y] \in Int /\ g[(t \ {c}) \ {y}] \in Int
        BY <1>1, <2>3, <2>5
  <2> DEFINE rest == g[(t \ {c}) \ {y}]
             withoutY == g[t \ {y}]
  <2>9. g[t] = f[y] + withoutY
    <3>1. withoutY = f[c] + rest /\ g[t] = f[c] + (f[y] + rest) /\ rest \in Int
          BY <2>3, <2>5, <2>6, <2>7, <2>8
    <3> HIDE DEF rest, withoutY
    <3>2. QED BY <2>8, <3>1
  <2>10. QED BY <2>2, <2>9
<1>3. QED BY <1>2 DEF g

LEMMA FoldIsSum ==
    ASSUME NEW f
    PROVE  SumFunction(f) = Sums(f, DOMAIN f)[DOMAIN f]
BY DEF SumFunction, SumFunctionOnSet, FoldFunctionOnSet, MapThenFoldSet, Sums, IsSum, SumStep, Choice

\* What telescopes adds up to its ends, and the sums of two functions to the
\* sum of a third that is their sum.
LEMMA SumTelescopes ==
    ASSUME NEW lo \in Nat, lo >= 1, NEW hi \in Nat, NEW e \in [0..hi -> Int], NEW f \in [lo..hi -> Int],
           NEW watts \in Int, lo <= hi,
           \A i \in lo..hi : f[i] = (e[i - 1] - e[i]) * watts
    PROVE  SumFunction(f) = (e[lo - 1] - e[hi]) * watts
<1> DEFINE g == Sums(f, lo..hi)
           Wrong(k) == g[lo..k] # (e[lo - 1] - e[k]) * watts
           bad == {k \in (lo - 1)..hi : Wrong(k)}
<1>1. IsFiniteSet(lo..hi)
      BY FS_Interval
<1>2. g \in [SUBSET (lo..hi) -> Int] /\ g[{}] = 0
      BY <1>1, SumOfNumbers
<1>3. \A s \in SUBSET (lo..hi) : \A x \in s : g[s] = f[x] + g[s \ {x}]
      BY <1>1, SumInAnyOrder
<1> HIDE DEF g
<1>4. lo - 1 \notin bad
  <2>1. lo..(lo - 1) = {}
        OBVIOUS
  <2>2. e[lo - 1] \in Int
        OBVIOUS
  <2>3. (e[lo - 1] - e[lo - 1]) * watts = 0
        BY <2>2
  <2>4. QED BY <1>2, <2>1, <2>3
<1>5. bad = {}
  <2> SUFFICES ASSUME bad # {} PROVE FALSE
      OBVIOUS
  <2>1. PICK k \in bad : \A other \in bad : k <= other
    <3>1. bad \in SUBSET Nat
          OBVIOUS
    <3> HIDE DEF bad
    <3>2. QED BY <3>1, LeastOfAll
  <2>a. k # lo - 1 /\ k \in (lo - 1)..hi /\ Wrong(k)
        BY <1>4
  <2> HIDE DEF bad
  <2>2. k \in lo..hi /\ Wrong(k)
        BY <2>a
  <2>3. k - 1 \in (lo - 1)..hi /\ ~(k <= k - 1)
        BY <2>2
  <2>4. ~Wrong(k - 1)
        BY <2>1, <2>3 DEF bad
  <2>5. (lo..k) \ {k} = lo..(k - 1) /\ k \in lo..k /\ lo..k \in SUBSET (lo..hi)
    <3> HIDE DEF Wrong
    <3>1. k \in Nat /\ lo <= k /\ k <= hi
          BY <2>2
    <3>2. k \in lo..k /\ lo..k \in SUBSET (lo..hi)
          BY <3>1
    <3>3. lo..(k - 1) \subseteq (lo..k) \ {k}
          BY <3>1
    <3>4. (lo..k) \ {k} \subseteq lo..(k - 1)
          BY <3>1
    <3>5. (lo..k) \ {k} = lo..(k - 1)
          BY <3>3, <3>4, Zenon
    <3>6. QED BY <3>2, <3>5
  <2>6. g[lo..k] = f[k] + g[lo..(k - 1)]
        BY <1>3, <2>5
  <2>7. e[lo - 1] \in Int /\ e[k - 1] \in Int /\ e[k] \in Int
        BY <2>2
  <2>8. \A a, b, c \in Int : (b - c) * watts + (a - b) * watts = (a - c) * watts
        OBVIOUS
  <2>9. g[lo..(k - 1)] = (e[lo - 1] - e[k - 1]) * watts /\ f[k] = (e[k - 1] - e[k]) * watts
        BY <2>2, <2>4
  <2>10. g[lo..k] = (e[lo - 1] - e[k]) * watts
    <3>1. (e[k - 1] - e[k]) * watts + (e[lo - 1] - e[k - 1]) * watts = (e[lo - 1] - e[k]) * watts
          BY <2>7, <2>8
    <3>2. QED BY <2>6, <2>9, <3>1
  <2>11. QED BY <2>2, <2>10
<1>6. g[lo..hi] = (e[lo - 1] - e[hi]) * watts
  <2>1. hi \in (lo - 1)..hi
        OBVIOUS
  <2>2. hi \notin bad
        BY <1>5
  <2>3. ~Wrong(hi)
        BY <2>1, <2>2
  <2>4. QED BY <2>3
<1>7. SumFunction(f) = g[lo..hi]
  <2>1. DOMAIN f = lo..hi
        OBVIOUS
  <2>2. QED BY <2>1, FoldIsSum DEF g
<1>8. QED BY <1>6, <1>7

LEMMA SumsAddUp ==
    ASSUME NEW S, IsFiniteSet(S), NEW a \in [S -> Int], NEW b \in [S -> Int], NEW c \in [S -> Int],
           \A i \in S : a[i] + b[i] = c[i]
    PROVE  SumFunction(a) + SumFunction(b) = SumFunction(c)
<1> DEFINE A == Sums(a, S)
           B == Sums(b, S)
           C == Sums(c, S)
           bad == {s \in SUBSET S : A[s] + B[s] # C[s]}
<1>1. /\ A \in [SUBSET S -> Int] /\ A[{}] = 0
      /\ \A s \in SUBSET S : s # {} => Choice(s) \in s /\ A[s] = a[Choice(s)] + A[s \ {Choice(s)}]
      BY SumOfNumbers
<1>2. /\ B \in [SUBSET S -> Int] /\ B[{}] = 0
      /\ \A s \in SUBSET S : s # {} => Choice(s) \in s /\ B[s] = b[Choice(s)] + B[s \ {Choice(s)}]
      BY SumOfNumbers
<1>3. /\ C \in [SUBSET S -> Int] /\ C[{}] = 0
      /\ \A s \in SUBSET S : s # {} => Choice(s) \in s /\ C[s] = c[Choice(s)] + C[s \ {Choice(s)}]
      BY SumOfNumbers
<1> HIDE DEF A, B, C
<1>4. bad = {}
  <2> SUFFICES ASSUME bad # {} PROVE FALSE
      OBVIOUS
  <2>1. PICK s \in bad : \A x \in s : s \ {x} \notin bad
    <3>1. bad \in SUBSET SUBSET S
          OBVIOUS
    <3> HIDE DEF bad
    <3>2. QED BY <3>1, SmallestSubset
  <2>a. A[{}] + B[{}] = C[{}]
        BY <1>1, <1>2, <1>3
  <2>b. s \in SUBSET S /\ s # {}
        BY <2>a
  <2>2. s \in SUBSET S /\ s # {} /\ Choice(s) \in s
        BY <1>1, <2>b
  <2> DEFINE x == Choice(s)
              rest == s \ {x}
  <2>4. x \in S /\ rest \in SUBSET S /\ A[rest] + B[rest] = C[rest]
        BY <2>1, <2>2
  <2>5. A[s] = a[x] + A[rest] /\ B[s] = b[x] + B[rest] /\ C[s] = c[x] + C[rest]
        BY <1>1, <1>2, <1>3, <2>2
  <2>6. /\ a[x] \in Int /\ b[x] \in Int /\ a[x] + b[x] = c[x]
        /\ A[rest] \in Int /\ B[rest] \in Int
        BY <1>1, <1>2, <2>4
  <2> HIDE DEF x, rest
  <2>7. A[s] + B[s] = C[s]
        BY <2>4, <2>5, <2>6
  <2>8. QED BY <2>7
<1>5. A[S] + B[S] = C[S]
      BY <1>4
<1>6. DOMAIN a = S /\ DOMAIN b = S /\ DOMAIN c = S
      OBVIOUS
<1>7. QED BY <1>5, <1>6, FoldIsSum DEF A, B, C

(***************************************************************************)
(* The views of the plan.                                                  *)
(***************************************************************************)
PlanSlots == Seq([soc : Int, pv : Int, load : Int])
PlanRows == [real : BOOLEAN, first : Int, soc : Int, slots : PlanSlots]

PlanInv ==
    /\ slot \in Nat
    /\ published \in Seq(PlanRows)
    /\ \A i \in 1..Len(published) : published[i].first \in 0..slot

LEMMA MinIs ==
    ASSUME NEW some \in SUBSET Nat, some # {}
    PROVE  Min(some) \in some /\ \A other \in some : Min(some) <= other
<1>1. \E least \in some : \A other \in some : least <= other
      BY LeastOfAll
<1>2. QED BY <1>1 DEF Min

LEMMA PlanInvStep ==
    ASSUME PlanInv, [PlanNext]_planVars
    PROVE  PlanInv'
<1>0. slot \in Nat /\ published \in Seq(PlanRows) /\ \A i \in 1..Len(published) : published[i].first \in 0..slot
      BY DEF PlanInv
<1>1. CASE PlanPublished
  <2>1. PICK content \in SlotPlans, real \in BOOLEAN :
          /\ published' = <<[real |-> real, first |-> slot, soc |-> content.soc, slots |-> content.slots]>> \o published
          /\ UNCHANGED slot
        BY <1>1 DEF PlanPublished
  <2> DEFINE plan == [real |-> real, first |-> slot, soc |-> content.soc, slots |-> content.slots]
  <2>2. plan \in PlanRows
    <3>1. content.soc \in Int /\ content.slots \in PlanSlots
          BY PlanConstants DEF PlanSlots
    <3>2. slot \in Int
          BY <1>0
    <3>3. QED BY <3>1, <3>2 DEF PlanRows
  <2>3. plan.first = slot
        OBVIOUS
  <2>4. published' = <<plan>> \o published
        BY <2>1
  <2> HIDE DEF plan
  <2>5. <<plan>> \in Seq(PlanRows) /\ Len(<<plan>>) = 1 /\ <<plan>>[1] = plan
        BY <2>2
  <2> DEFINE head == <<plan>>
  <2> HIDE DEF head
  <2>6. head \in Seq(PlanRows) /\ Len(head) = 1 /\ head[1] = plan /\ published' = head \o published
        BY <2>4, <2>5 DEF head
  <2>7. /\ published' \in Seq(PlanRows)
        /\ Len(published') = Len(published) + 1
        /\ \A i \in 1..Len(published') : published'[i] = IF i = 1 THEN plan ELSE published[i - 1]
    <3>0. published \in Seq(PlanRows) /\ head \in Seq(PlanRows) /\ Len(head) = 1 /\ Len(published) \in Nat
          BY <1>0, <2>6
    <3> HIDE DEF PlanRows
    <3>1. head \o published \in Seq(PlanRows)
          BY <3>0, ConcatProperties, Zenon
    <3>a. Len(head \o published) = Len(head) + Len(published)
          BY <3>0, ConcatProperties, Zenon
    <3>2. Len(head \o published) = 1 + Len(published) /\ Len(published) \in Nat
          BY <3>0, <3>a
    <3>b. \A i \in 1..(Len(head) + Len(published)) :
            (head \o published)[i] = IF i <= Len(head) THEN head[i] ELSE published[i - Len(head)]
          BY <3>0, ConcatProperties, Zenon
    <3>3. \A i \in 1..(1 + Len(published)) :
            (head \o published)[i] = IF i <= 1 THEN head[i] ELSE published[i - 1]
          BY <3>0, <3>b
    <3>4. \A i \in 1..(1 + Len(published)) :
            (head \o published)[i] = IF i = 1 THEN plan ELSE published[i - 1]
          BY <2>6, <3>2, <3>3
    <3>5. QED BY <2>6, <3>1, <3>2, <3>4
  <2>8. \A i \in 1..Len(published') : published'[i].first \in 0..slot
    <3> SUFFICES ASSUME NEW i \in 1..Len(published') PROVE published'[i].first \in 0..slot
        OBVIOUS
    <3>1. CASE i = 1
          BY <1>0, <2>3, <2>7, <3>1
    <3>2. CASE i # 1
      <4>1. i - 1 \in 1..Len(published)
            BY <1>0, <2>7, <3>2
      <4>2. published'[i] = published[i - 1]
            BY <2>7, <3>2
      <4>3. QED BY <1>0, <4>1, <4>2
    <3>3. QED BY <3>1, <3>2
  <2>9. QED BY <1>0, <2>1, <2>7, <2>8 DEF PlanInv
<1>2. CASE SlotPasses
      BY <1>0, <1>2 DEF SlotPasses, PlanInv
<1>3. CASE UNCHANGED planVars
      BY <1>3 DEF planVars, PlanInv
<1>4. QED BY <1>1, <1>2, <1>3 DEF PlanNext

\* The plan that is shown is in the table, and Dryad compares with it.
LEMMA ShownPlan ==
    ASSUME PlanInv, ForecastStatus = "ok"
    PROVE  /\ CurrentForecastPlan = DryadPlan
           /\ CurrentForecastPlan \in PlanRows /\ CurrentForecastPlan.first \in 0..slot
<1> DEFINE all == {i \in DOMAIN published : TRUE \/ published[i].real}
           reals == {i \in DOMAIN published : published[i].real}
           n == Len(published)
<1>0. published \in Seq(PlanRows) /\ DOMAIN published = 1..n /\ n \in Nat
      BY DEF PlanInv
<1>1. CurrentForecastPlan # NoPlan
      BY DEF ForecastStatus
<1>2. ASSUME NEW some \in SUBSET DOMAIN published, NewestRow(some) # NoPlan
      PROVE  some # {} /\ Min(some) \in some /\ NewestRow(some) = published[Min(some)]
             /\ \A other \in some : Min(some) <= other
  <2>1. some # {} /\ some \in SUBSET Nat
        BY <1>0, <1>2 DEF NewestRow
  <2>2. QED BY <2>1, MinIs DEF NewestRow
<1>3. ASSUME NEW some \in SUBSET DOMAIN published, NewestRow(some) # NoPlan
      PROVE  NewestRow(some) \in PlanRows /\ NewestRow(some).first \in 0..slot
  <2>1. Min(some) \in 1..n /\ NewestRow(some) = published[Min(some)]
        BY <1>0, <1>2, <1>3
  <2>2. QED BY <1>0, <2>1 DEF PlanInv
<1>4. LatestSlotPlan(TRUE) = NewestRow(all) /\ LatestSlotPlan(FALSE) = NewestRow(reals) /\ DryadPlan = NewestRow(reals)
      BY DEF LatestSlotPlan, DryadPlan
<1>5. all \in SUBSET DOMAIN published /\ reals \in SUBSET DOMAIN published
      OBVIOUS
<1>6. CASE ~LatestSlotPlan(TRUE).real /\ LatestSlotPlan(TRUE) # NoPlan
  <2>1. CurrentForecastPlan = DryadPlan
        BY <1>4, <1>6 DEF CurrentForecastPlan
  <2>2. QED BY <1>1, <1>3, <1>4, <1>5, <2>1
<1>7. CASE ~(~LatestSlotPlan(TRUE).real /\ LatestSlotPlan(TRUE) # NoPlan)
  <2>1. CurrentForecastPlan = NewestRow(all) /\ NewestRow(all) # NoPlan
        BY <1>1, <1>4, <1>7 DEF CurrentForecastPlan
  <2>2. NewestRow(all).real
        BY <1>4, <1>7, <2>1
  <2>3. Min(all) \in all /\ NewestRow(all) = published[Min(all)] /\ \A other \in all : Min(all) <= other
        BY <1>2, <1>5, <2>1
  <2>4. Min(all) \in reals /\ reals \subseteq all
        BY <2>2, <2>3
  <2>5. reals # {} /\ reals \in SUBSET Nat
        BY <1>0, <2>4
  <2>6. Min(reals) \in reals /\ \A other \in reals : Min(reals) <= other
    <3> HIDE DEF reals
    <3>1. QED BY <2>5, MinIs
  <2>7. Min(reals) = Min(all)
    <3>1. Min(reals) \in Nat /\ Min(all) \in Nat
          BY <1>0, <2>3, <2>6
    <3>2. Min(reals) <= Min(all) /\ Min(all) <= Min(reals)
          BY <2>3, <2>4, <2>6
    <3>3. QED BY <3>1, <3>2
  <2>8. DryadPlan = published[Min(reals)]
        BY <1>4, <2>5 DEF NewestRow
  <2>9. CurrentForecastPlan = DryadPlan
        BY <2>1, <2>3, <2>7, <2>8
  <2>10. QED BY <1>3, <1>5, <2>1, <2>9
<1>8. QED BY <1>6, <1>7

\* The slots of a plan in sight are one after the other, the first of them
\* after the slot Dryad compares with.
LEMMA KeptIs ==
    ASSUME PlanInv, NEW plan \in PlanRows, plan.first \in 0..slot, Kept(plan) # {}
    PROVE  LET lo == slot - plan.first + 1
               hi == Max(Kept(plan))
           IN  /\ lo \in Nat /\ lo >= 1 /\ hi \in Nat /\ lo <= hi /\ hi <= Len(plan.slots)
               /\ Len(plan.slots) \in Nat
               /\ Kept(plan) = lo..hi
               /\ PlannedSoc(plan) = PlannedEnd(plan, lo - 1)
<1> DEFINE inSight == Kept(plan)
           n == Len(plan.slots)
           first == plan.first
           lo == slot - first + 1
           hi == Max(inSight)
<1>0. slot \in Nat /\ first \in Nat /\ first <= slot /\ n \in Nat /\ Horizon \in Int
      BY PlanConstants DEF PlanInv, PlanRows, PlanSlots
<1>1. inSight = {i \in 1..n : first + i > slot /\ first + i - 1 <= slot + Horizon}
      BY DEF Kept
<1> HIDE DEF inSight, n, first
<1>2. hi \in inSight /\ \A i \in inSight : hi >= i
  <2> DEFINE short == {n - i : i \in inSight}
  <2>1. short \in SUBSET Nat
        BY <1>0, <1>1
  <2>2. short # {}
        BY DEF inSight
  <2> HIDE DEF short
  <2>3. PICK least \in short : \A other \in short : least <= other
        BY <2>1, <2>2, LeastOfAll
  <2>4. PICK m \in inSight : least = n - m
        BY DEF short
  <2>5. \A i \in inSight : n - m <= n - i
        BY <2>3, <2>4 DEF short
  <2>6. \A i \in inSight : m >= i
    <3> SUFFICES ASSUME NEW i \in inSight PROVE m >= i
        OBVIOUS
    <3>1. n - m <= n - i /\ m \in Int /\ i \in Int
          BY <1>1, <2>5
    <3>2. QED BY <1>0, <3>1
  <2>7. QED BY <2>4, <2>6 DEF Max
<1> HIDE DEF hi
<1>3. hi \in Nat /\ hi >= 1 /\ hi <= n /\ first + hi > slot /\ first + hi - 1 <= slot + Horizon
      BY <1>0, <1>1, <1>2
<1>4. lo \in Nat /\ lo >= 1 /\ lo <= hi
      BY <1>0, <1>3
<1>5. inSight = lo..hi
  <2>1. ASSUME NEW i \in inSight PROVE i \in lo..hi
    <3>1. i \in Nat /\ first + i > slot /\ hi >= i
          BY <1>0, <1>1, <1>2
    <3>2. QED BY <1>0, <1>3, <3>1
  <2>2. ASSUME NEW i \in lo..hi PROVE i \in inSight
    <3>1. i \in Int /\ lo <= i /\ i <= hi
          BY <1>0, <1>3
    <3>2. i \in 1..n /\ first + i > slot /\ first + i - 1 <= slot + Horizon
          BY <1>0, <1>3, <3>1
    <3>3. QED BY <1>1, <3>2
  <2>3. QED BY <2>1, <2>2
<1>6. PlannedSoc(plan) = PlannedEnd(plan, lo - 1)
  <2>1. CASE slot <= first
        BY <1>0, <2>1 DEF PlannedSoc, PlannedEnd, first
  <2>2. CASE ~(slot <= first)
    <3>1. Min({slot - first, n}) = slot - first
      <4>1. slot - first \in Int /\ n \in Int /\ slot - first <= n
            BY <1>0, <1>3
      <4>2. QED BY <4>1, MinOfTwo
    <3>2. PlannedSoc(plan) = PlannedEnd(plan, Min({slot - first, n}))
          BY <2>2 DEF PlannedSoc, first, n
    <3>3. lo - 1 = slot - first
          BY <1>0
    <3>4. QED BY <3>1, <3>2, <3>3
  <2>3. QED BY <2>1, <2>2
<1>7. QED BY <1>0, <1>3, <1>4, <1>5, <1>6 DEF inSight, n, first, hi

LEMMA SlotsHaveNumbers ==
    ASSUME NEW slots \in Seq([soc : Int, pv : Int, load : Int])
    PROVE  \A i \in 1..Len(slots) : slots[i].soc \in Int /\ slots[i].pv \in Int /\ slots[i].load \in Int
<1> DEFINE R == [soc : Int, pv : Int, load : Int]
<1>1. \A r \in R : r.soc \in Int /\ r.pv \in Int /\ r.load \in Int
      OBVIOUS
<1>2. slots \in Seq(R)
      OBVIOUS
<1> HIDE DEF R
<1>3. \A i \in 1..Len(slots) : slots[i] \in R
      BY <1>2
<1>4. QED BY <1>1, <1>3

\* Two programs read a plan and agree on it: what the dashboard lets the
\* battery do takes it from the state of charge of now, which Dryad compares
\* with, to the end of the window, and the grid makes up for the rest
\* (payload_helpers.py:804, dryad.py:119), for all plans and any horizon.
THEOREM PlansStayAgreed == PlanSpec => []PlanViewsAgree
<1>1. PlanInit => PlanInv
      BY DEF PlanInit, PlanInv
<1>2. PlanInv => PlanViewsAgree
  <2> SUFFICES ASSUME PlanInv, ForecastStatus = "ok" PROVE PlanViewsAgree
      BY DEF PlanViewsAgree
  <2> DEFINE plan == CurrentForecastPlan
             curves == PlanCurves(plan)
             n == Len(plan.slots)
             lo == slot - plan.first + 1
             hi == Max(Kept(plan))
             fromBattery == [i \in DOMAIN curves |-> curves[i].battery]
             fromGrid == [i \in DOMAIN curves |-> curves[i].grid]
             demanded == [i \in DOMAIN curves |-> curves[i].load - curves[i].pv]
             e == [i \in 0..hi |-> PlannedEnd(plan, i)]
  <2>1. plan = DryadPlan /\ plan \in PlanRows /\ plan.first \in 0..slot
        BY ShownPlan
  <2> SUFFICES ASSUME Kept(plan) # {}
               PROVE  /\ BatterySum(curves) = SlotBattery(PlannedSoc(plan), PlannedEnd(plan, hi))
                      /\ GridSum(curves) + BatterySum(curves) = DemandSum(curves)
      BY <2>1 DEF PlanViewsAgree
  <2> HIDE DEF plan
  <2>2. /\ lo \in Nat /\ lo >= 1 /\ hi \in Nat /\ lo <= hi /\ hi <= n /\ n \in Nat
        /\ Kept(plan) = lo..hi /\ PlannedSoc(plan) = PlannedEnd(plan, lo - 1)
        BY <2>1, KeptIs
  <2>3. \A i \in 1..n : plan.slots[i].soc \in Int /\ plan.slots[i].pv \in Int /\ plan.slots[i].load \in Int
    <3>1. plan.slots \in Seq([soc : Int, pv : Int, load : Int])
          BY <2>1 DEF PlanRows, PlanSlots
    <3>2. QED BY <3>1, SlotsHaveNumbers
  <2> HIDE DEF n, lo, hi
  <2>4. \A i \in 0..n : PlannedEnd(plan, i) \in Int
    <3>1. plan.soc \in Int
          BY <2>1 DEF PlanRows
    <3>2. QED BY <2>2, <2>3, <3>1 DEF PlannedEnd
  <2>5. DOMAIN curves = lo..hi
        BY <2>2 DEF PlanCurves
  <2>6. ASSUME NEW i \in lo..hi
        PROVE  /\ curves[i].battery = (PlannedEnd(plan, i - 1) - PlannedEnd(plan, i)) * WattsPerPercent
               /\ curves[i].load = plan.slots[i].load /\ curves[i].pv = plan.slots[i].pv
               /\ curves[i].grid = plan.slots[i].load - plan.slots[i].pv - curves[i].battery
        BY <2>2 DEF PlanCurves, CurvePoint, SlotBattery
  <2> HIDE DEF curves
  <2>7. e \in [0..hi -> Int]
        BY <2>2, <2>4
  <2>8. ASSUME NEW i \in lo..hi
        PROVE  /\ i \in 1..n /\ e[i - 1] = PlannedEnd(plan, i - 1) /\ e[i] = PlannedEnd(plan, i)
               /\ e[i - 1] \in Int /\ e[i] \in Int
    <3>1. i \in 1..n /\ i - 1 \in 0..hi /\ i \in 0..hi
          BY <2>2
    <3>2. QED BY <2>7, <3>1
  <2>9. ASSUME NEW i \in lo..hi
        PROVE  /\ fromBattery[i] = (e[i - 1] - e[i]) * WattsPerPercent
               /\ fromBattery[i] \in Int /\ fromGrid[i] \in Int /\ demanded[i] \in Int
               /\ fromGrid[i] + fromBattery[i] = demanded[i]
    <3> HIDE DEF e
    <3>1. fromBattery[i] = (e[i - 1] - e[i]) * WattsPerPercent /\ fromBattery[i] \in Int
          BY <2>5, <2>6, <2>8, PlanConstants
    <3>2. plan.slots[i].load \in Int /\ plan.slots[i].pv \in Int
          BY <2>3, <2>8
    <3>3. /\ fromGrid[i] = plan.slots[i].load - plan.slots[i].pv - fromBattery[i]
          /\ demanded[i] = plan.slots[i].load - plan.slots[i].pv
          BY <2>5, <2>6
    <3> HIDE DEF fromBattery, fromGrid, demanded
    <3>4. QED BY <3>1, <3>2, <3>3
  <2>10. fromBattery \in [lo..hi -> Int] /\ fromGrid \in [lo..hi -> Int] /\ demanded \in [lo..hi -> Int]
        BY <2>5, <2>9
  <2>11. BatterySum(curves) = SumFunction(fromBattery) /\ GridSum(curves) = SumFunction(fromGrid)
         /\ DemandSum(curves) = SumFunction(demanded)
        BY DEF BatterySum, GridSum, DemandSum
  <2>12. e[lo - 1] = PlannedEnd(plan, lo - 1) /\ e[hi] = PlannedEnd(plan, hi)
    <3>1. lo - 1 \in 0..hi /\ hi \in 0..hi
          BY <2>2
    <3>2. QED BY <3>1
  <2> HIDE DEF fromBattery, fromGrid, demanded, e
  <2>13. SumFunction(fromBattery) = (e[lo - 1] - e[hi]) * WattsPerPercent
    <3>1. WattsPerPercent \in Int
          BY PlanConstants
    <3>2. \A i \in lo..hi : fromBattery[i] = (e[i - 1] - e[i]) * WattsPerPercent
          BY <2>9
    <3>3. \A g \in [lo..hi -> Int], h \in [0..hi -> Int] :
            (\A i \in lo..hi : g[i] = (h[i - 1] - h[i]) * WattsPerPercent)
              => SumFunction(g) = (h[lo - 1] - h[hi]) * WattsPerPercent
      <4>1. lo \in Nat /\ lo >= 1 /\ hi \in Nat /\ lo <= hi
            BY <2>2
      <4>2. QED BY <4>1, <3>1, SumTelescopes
    <3>4. QED BY <2>7, <2>10, <3>2, <3>3, Zenon
  <2>14. SumFunction(fromGrid) + SumFunction(fromBattery) = SumFunction(demanded)
    <3>1. IsFiniteSet(lo..hi)
          BY <2>2, FS_Interval
    <3>2. \A i \in lo..hi : fromGrid[i] + fromBattery[i] = demanded[i]
          BY <2>9
    <3> DEFINE S == lo..hi
    <3>3. \A a, b, c \in [S -> Int] :
            (\A i \in S : a[i] + b[i] = c[i]) => SumFunction(a) + SumFunction(b) = SumFunction(c)
      <4> HIDE DEF S
      <4>1. IsFiniteSet(S)
            BY <3>1 DEF S
      <4>2. QED BY <4>1, SumsAddUp
    <3> HIDE DEF S
    <3>4. /\ fromGrid \in [S -> Int] /\ fromBattery \in [S -> Int] /\ demanded \in [S -> Int]
          /\ \A i \in S : fromGrid[i] + fromBattery[i] = demanded[i]
          BY <2>10, <3>2 DEF S
    <3>5. QED BY <3>3, <3>4, Zenon
  <2>15. QED BY <2>2, <2>11, <2>12, <2>13, <2>14 DEF SlotBattery
<1>3. PlanInv /\ [PlanNext]_planVars => PlanInv'
      BY PlanInvStep
<1>4. QED BY <1>1, <1>2, <1>3, PTL DEF PlanSpec

(***************************************************************************)
(* Dryad's answers.                                                        *)
(***************************************************************************)
ImportsOfHours == UNION {[hours -> Nat] : hours \in SUBSET Nat}

DryadWork == [began : Int, loaded : BOOLEAN, found : [DatabaseSources -> Int], imports : ImportsOfHours]

RecentItems(began, items) ==
    \A item \in items : \A s \in ItemSources[item[1]] :
        /\ item[2][s] \in Int /\ item[2][s] # NeverSpoken
        /\ began - item[2][s] <= MaxAges[s] /\ MaxAges[s] \in Int

DryadInv ==
    /\ oclock \in Nat /\ tariff \in Tariffs /\ imported \in ImportsOfHours
    /\ spoken \in [DrSources -> Int]
    /\ working = [r \in DryadRequests |-> working[r]]
    /\ \A r \in DryadRequests : working[r] # Done => working[r] \in DryadWork
    /\ kept # Done => kept.began \in Int /\ RecentItems(kept.began, kept.shown.items)

LEMMA FoundIs ==
    ASSUME DryadInv, NEW r \in DryadRequests, working[r] # Done
    PROVE  Found(r) \in [DrSources -> Int]
<1>1. working[r].found \in [DatabaseSources -> Int] /\ spoken \in [DrSources -> Int]
      BY DEF DryadInv, DryadWork
<1>2. \A s \in DrSources : (IF s \in StatusSources THEN spoken[s] ELSE working[r].found[s]) \in Int
      BY <1>1 DEF DrSources
<1>3. QED BY <1>2 DEF Found

\* An answer has no stale item.
LEMMA AnswerIsRecent ==
    ASSUME NEW began \in Int, NEW stamps \in [DrSources -> Int], NEW imports, NEW list
    PROVE  RecentItems(began, BuildDryadPayload(began, stamps, imports, list).items)
<1> DEFINE items == {<<i, Restrict(stamps, ItemSources[i])>> : i \in Items(began, stamps)}
<1>1. BuildDryadPayload(began, stamps, imports, list).items = items
      BY DEF BuildDryadPayload
<1>2. ASSUME NEW item \in items, NEW s \in ItemSources[item[1]]
      PROVE  /\ item[2][s] \in Int /\ item[2][s] # NeverSpoken
             /\ began - item[2][s] <= MaxAges[s] /\ MaxAges[s] \in Int
  <2>1. PICK i \in Items(began, stamps) : item = <<i, Restrict(stamps, ItemSources[i])>>
        OBVIOUS
  <2>2. item[1] = i /\ item[2] = [x \in ItemSources[i] |-> stamps[x]]
        BY <2>1 DEF Restrict
  <2>3. i \in DOMAIN ItemSources /\ s \in ItemSources[i] /\ ~SourceStale(s, began, stamps)
        BY <2>2 DEF Items
  <2>4. s \in DrSources /\ item[2][s] = stamps[s] /\ stamps[s] \in Int /\ MaxAges[s] \in Int
        BY <2>2, <2>3, DryadConstants
  <2>5. stamps[s] # NeverSpoken /\ ~(Max({0, began - stamps[s]}) > MaxAges[s])
        BY <2>3 DEF SourceStale, AgeAt
  <2>6. Max({0, began - stamps[s]}) = IF 0 >= began - stamps[s] THEN 0 ELSE began - stamps[s]
    <3>1. 0 \in Int /\ began - stamps[s] \in Int
          BY <2>4
    <3>2. QED BY <3>1, MaxOfTwo
  <2> DEFINE stamp == stamps[s]
             age == MaxAges[s]
  <2>7. began - stamp <= age
    <3>1. stamp \in Int /\ age \in Int
          BY <2>4
    <3>2. ~((IF 0 >= began - stamp THEN 0 ELSE began - stamp) > age)
          BY <2>5, <2>6
    <3> HIDE DEF stamp, age
    <3>3. QED BY <3>1, <3>2
  <2>8. QED BY <2>4, <2>5, <2>7
<1>3. QED BY <1>1, <1>2 DEF RecentItems

LEMMA NothingImported == <<>> \in ImportsOfHours
<1>1. <<>> \in [{} -> Nat] /\ {} \in SUBSET Nat
      OBVIOUS
<1>2. QED BY <1>1 DEF ImportsOfHours

LEMMA DryadInvInit == DryadInit => DryadInv
<1> SUFFICES ASSUME DryadInit PROVE DryadInv
    OBVIOUS
<1>1. NeverSpoken \in Int
      BY DEF NeverSpoken
<1>2. spoken \in [DrSources -> Int]
      BY <1>1 DEF DryadInit
<1>3. QED BY <1>2, NothingImported DEF DryadInit, DryadInv

\* One request changes, and the cache stays or has its answer.
LEMMA DryadFrame ==
    ASSUME DryadInv, NEW r \in DryadRequests, NEW work, work # Done => work \in DryadWork,
           working' = [working EXCEPT ![r] = work],
           UNCHANGED <<oclock, spoken, imported, tariff>>,
           UNCHANGED kept \/ (kept'.began \in Int /\ RecentItems(kept'.began, kept'.shown.items))
    PROVE  DryadInv'
<1>1. working = [q \in DryadRequests |-> working[q]] /\ \A q \in DryadRequests : working[q] # Done => working[q] \in DryadWork
      BY DEF DryadInv
<1>2. working' = [q \in DryadRequests |-> working'[q]]
      BY <1>1
<1>3. \A q \in DryadRequests : working'[q] # Done => working'[q] \in DryadWork
      BY <1>1
<1>4. kept' # Done => kept'.began \in Int /\ RecentItems(kept'.began, kept'.shown.items)
      BY DEF DryadInv
<1>5. RecentItems(kept.began, kept.shown.items)' = RecentItems(kept'.began, kept'.shown.items)
      BY DEF RecentItems
<1>6. oclock' \in Nat /\ tariff' \in Tariffs /\ imported' \in ImportsOfHours /\ spoken' \in [DrSources -> Int]
      BY DEF DryadInv
<1>7. QED BY <1>2, <1>3, <1>4, <1>5, <1>6 DEF DryadInv

LEMMA RequestKeepsDryad ==
    ASSUME DryadInv, ApiV1Dryad \/ LoadDryadInputs \/ AnswerDryad \/ DryadFails
    PROVE  DryadInv'
<1>0. oclock \in Nat /\ spoken \in [DrSources -> Int] /\ imported \in ImportsOfHours
      BY DEF DryadInv
<1>1. CASE ApiV1Dryad
  <2>1. PICK r \in DryadRequests :
          /\ working' = [working EXCEPT ![r] =
               [began |-> oclock, loaded |-> FALSE, found |-> [s \in DatabaseSources |-> NeverSpoken], imports |-> <<>>]]
          /\ UNCHANGED <<oclock, spoken, kept, imported, priced, tariff>>
        BY <1>1 DEF ApiV1Dryad
  <2> DEFINE work == [began |-> oclock, loaded |-> FALSE, found |-> [s \in DatabaseSources |-> NeverSpoken], imports |-> <<>>]
  <2>2. work \in DryadWork
    <3>1. [s \in DatabaseSources |-> NeverSpoken] \in [DatabaseSources -> Int]
          BY DEF NeverSpoken
    <3>2. <<>> \in ImportsOfHours /\ oclock \in Int /\ FALSE \in BOOLEAN
          BY <1>0, NothingImported
    <3>3. QED BY <3>1, <3>2 DEF DryadWork
  <2> HIDE DEF work
  <2>3. working' = [working EXCEPT ![r] = work]
        BY <2>1 DEF work
  <2>4. QED BY <2>1, <2>2, <2>3, DryadFrame
<1>2. CASE LoadDryadInputs
  <2>1. PICK r \in DryadRequests :
          /\ working[r] # Done
          /\ working' = [working EXCEPT ![r] = [@ EXCEPT !.loaded = TRUE, !.imports = imported,
                    !.found = [s \in DatabaseSources |-> spoken[s]]]]
          /\ UNCHANGED <<oclock, spoken, kept, imported, priced, tariff>>
        BY <1>2 DEF LoadDryadInputs
  <2> DEFINE found == [s \in DatabaseSources |-> spoken[s]]
             old == working[r]
             work == [old EXCEPT !.loaded = TRUE, !.imports = imported, !.found = found]
  <2>2. old \in DryadWork
        BY <2>1 DEF DryadInv
  <2>3. found \in [DatabaseSources -> Int]
        BY <1>0 DEF DrSources
  <2>4. working' = [working EXCEPT ![r] = work]
        BY <2>1
  <2>5. UNCHANGED <<oclock, spoken, kept, imported, tariff>>
        BY <2>1
  <2> HIDE DEF found, old
  <2>6. work \in DryadWork
    <3>1. \A w \in DryadWork, i \in ImportsOfHours, f \in [DatabaseSources -> Int] :
            [w EXCEPT !.loaded = TRUE, !.imports = i, !.found = f] \in DryadWork
          BY DEF DryadWork
    <3>2. QED BY <1>0, <2>2, <2>3, <3>1
  <2> HIDE DEF work
  <2>7. QED BY <2>4, <2>5, <2>6, DryadFrame
<1>3. CASE AnswerDryad
  <2>1. PICK r \in DryadRequests :
          /\ working[r] # Done
          /\ working' = [working EXCEPT ![r] = Done]
          /\ kept' = [began |-> working[r].began, shown |-> Payload(r)]
          /\ UNCHANGED <<oclock, spoken, imported, priced, tariff>>
        BY <1>3 DEF AnswerDryad
  <2>2. working[r] \in DryadWork
        BY <2>1 DEF DryadInv
  <2>3. working[r].began \in Int
        BY <2>2 DEF DryadWork
  <2>4. Found(r) \in [DrSources -> Int]
        BY <2>1, FoundIs
  <2>5. RecentItems(working[r].began, Payload(r).items)
        BY <2>3, <2>4, AnswerIsRecent DEF Payload
  <2>6. kept'.began = working[r].began /\ kept'.shown = Payload(r)
        BY <2>1
  <2>7. kept'.began \in Int /\ RecentItems(kept'.began, kept'.shown.items)
        BY <2>3, <2>5, <2>6
  <2>8. QED BY <2>1, <2>7, DryadFrame
<1>4. CASE DryadFails
  <2>1. PICK r \in DryadRequests :
          /\ working' = [working EXCEPT ![r] = Done]
          /\ UNCHANGED <<oclock, spoken, kept, imported, priced, tariff>>
        BY <1>4 DEF DryadFails
  <2>2. QED BY <2>1, DryadFrame
<1>5. QED BY <1>1, <1>2, <1>3, <1>4

LEMMA DryadInvStep ==
    ASSUME DryadInv, [DryadNext]_dryadVars
    PROVE  DryadInv'
<1>0. oclock \in Nat /\ tariff \in Tariffs /\ imported \in ImportsOfHours /\ spoken \in [DrSources -> Int]
      BY DEF DryadInv
<1>1. ASSUME UNCHANGED <<working, kept, tariff>>, oclock' \in Nat, imported' \in ImportsOfHours,
             spoken' \in [DrSources -> Int]
      PROVE  DryadInv'
      BY <1>0, <1>1 DEF DryadInv, RecentItems
<1>2. CASE SourceSpeaks
  <2>1. PICK s \in DrSources :
          /\ spoken' = [spoken EXCEPT ![s] = oclock]
          /\ \/ \E kwh \in Imports : ImportIs(kwh)
             \/ UNCHANGED imported
          /\ UNCHANGED <<oclock, working, kept, tariff>>
        BY <1>2 DEF SourceSpeaks
  <2>2. spoken' \in [DrSources -> Int]
        BY <1>0, <2>1
  <2>3. imported' \in ImportsOfHours
    <3>1. CASE \E kwh \in Imports : ImportIs(kwh)
      <4>1. PICK kwh \in Imports : ImportIs(kwh)
            BY <3>1
      <4>2. kwh \in Nat /\ oclock \in Nat
            BY <1>0, DryadConstants
      <4>3. PICK hours \in SUBSET Nat : imported \in [hours -> Nat]
            BY <1>0 DEF ImportsOfHours
      <4>4. imported' \in [hours \cup {oclock} -> Nat]
            BY <4>1, <4>2, <4>3 DEF ImportIs
      <4>5. QED BY <4>2, <4>3, <4>4 DEF ImportsOfHours
    <3>2. QED BY <1>0, <2>1, <3>1
  <2>4. QED BY <1>0, <1>1, <2>1, <2>2, <2>3
<1>3. CASE PricesArrive
      BY <1>0, <1>1, <1>3 DEF PricesArrive
<1>4. CASE MomentPasses
      BY <1>0, <1>1, <1>4 DEF MomentPasses
<1>5. CASE UNCHANGED dryadVars
      BY <1>0, <1>1, <1>5 DEF dryadVars
<1>6. QED BY <1>2, <1>3, <1>4, <1>5, RequestKeepsDryad DEF DryadNext

(***************************************************************************)
(* The penalty of an hour: price, the cheapest price in sight and the      *)
(* threshold are positive.                                                 *)
(***************************************************************************)
Penalty(price, cheapest, percent) ==
    CASE 100 * price < cheapest * (100 + percent) -> 0
      [] 100 * price >= cheapest * (100 + percent) /\ price <= 0 -> 100
      [] OTHER -> Clamp100((100 * price - cheapest * (100 + percent)) \div price)

LEMMA PenaltyOfPrices ==
    ASSUME NEW price \in Nat, price > 0, NEW cheapest \in Nat, cheapest > 0, NEW percent \in Nat
    PROVE  /\ cheapest = price => Penalty(price, cheapest, percent) = 0
           /\ Penalty(price, cheapest, percent) = 0
                \/ Penalty(price, cheapest, percent) * price <= 100 * (price - cheapest)
<1> DEFINE severity == Penalty(price, cheapest, percent)
           wait == cheapest * (100 + percent)
           share == (100 * price - wait) \div price
<1>1. wait \in Nat /\ wait >= 100 * cheapest
  <2>1. cheapest * percent \in Nat /\ cheapest * (100 + percent) = 100 * cheapest + cheapest * percent
        OBVIOUS
  <2>2. QED BY <2>1
<1>2. severity = CASE 100 * price < wait -> 0
                   [] 100 * price >= wait /\ price <= 0 -> 100
                   [] OTHER -> Clamp100(share)
      BY DEF Penalty
<1> SUFFICES /\ cheapest = price => severity = 0
             /\ severity = 0 \/ severity * price <= 100 * (price - cheapest)
    OBVIOUS
<1> HIDE DEF wait, severity
<1>3. CASE 100 * price < wait
  <2>1. severity = 0
        BY <1>1, <1>2, <1>3
  <2>2. QED BY <2>1
<1>4. CASE ~(100 * price < wait)
  <2>1. severity = Clamp100(share)
    <3>1. ~(price <= 0)
          OBVIOUS
    <3> HIDE DEF share
    <3>2. QED BY <1>2, <1>4, <3>1
  <2> DEFINE left == 100 * price - wait
  <2>2. left \in Nat /\ left <= 100 * price
        BY <1>1, <1>4
  <2>3. share \in Int /\ price * share <= left /\ left < price * share + price
    <3> HIDE DEF left
    <3>1. left \div price \in Int /\ price * (left \div price) <= left /\ left < price * (left \div price) + price
          BY <2>2, DivisionIs
    <3>2. QED BY <3>1 DEF left
  <2> HIDE DEF share, left
  <2>4. share >= 0
    <3> SUFFICES ASSUME share <= -1 PROVE FALSE
        BY <2>3
    <3>1. price * share <= -price
          BY <2>3
    <3>2. QED BY <2>2, <2>3, <3>1
  <2>5. share <= 100
    <3> SUFFICES ASSUME share >= 101 PROVE FALSE
        BY <2>3
    <3>1. price * share >= price * 101
          BY <2>3
    <3>2. QED BY <2>2, <2>3, <3>1
  <2>6. severity = share
    <3>1. Min({100, share}) = share
      <4>1. 100 \in Int /\ share \in Int
            BY <2>3
      <4>2. Min({100, share}) = IF 100 <= share THEN 100 ELSE share
            BY <4>1, MinOfTwo
      <4>3. QED BY <2>5, <4>1, <4>2
    <3>2. Max({0, share}) = share
      <4>1. 0 \in Int /\ share \in Int
            BY <2>3
      <4>2. Max({0, share}) = IF 0 >= share THEN 0 ELSE share
            BY <4>1, MaxOfTwo
      <4>3. QED BY <2>4, <4>1, <4>2
    <3>3. QED BY <2>1, <3>1, <3>2 DEF Clamp100
  <2>7. severity * price <= 100 * (price - cheapest)
    <3>1. share * price = price * share
          BY <2>3
    <3>2. left <= 100 * price - 100 * cheapest
          BY <1>1 DEF left
    <3>3. QED BY <2>2, <2>3, <2>6, <3>1, <3>2
  <2>8. cheapest = price => severity = 0
    <3> SUFFICES ASSUME cheapest = price PROVE share = 0
        BY <2>6
    <3>1. left <= 0
          BY <1>1 DEF left
    <3> SUFFICES ASSUME share >= 1 PROVE FALSE
        BY <2>3, <2>4
    <3>2. price * share >= price * 1
          BY <2>3
    <3>3. QED BY <2>2, <2>3, <3>1, <3>2
  <2>9. QED BY <2>7, <2>8
<1>5. QED BY <1>3, <1>4

LEMMA ChargedRightly ==
    ASSUME tariff \in Tariffs
    PROVE  ChargedForWhatWaitingSaves
<1> DEFINE list == LatestTradePrices
<1>1. list \subseteq DOMAIN tariff /\ \A k \in list : k \in Nat /\ tariff[k] \in Int
      BY DryadConstants DEF LatestTradePrices
<1> SUFFICES ASSUME NEW h \in list, \A k \in list : tariff[k] > 0
             PROVE  LET later == {k \in list : h <= k /\ k < h + LookAhead}
                        charged == HourPenaltySeverity(h, list)
                    IN  /\ (\A k \in later : tariff[k] >= tariff[h]) => charged = 0
                        /\ \E k \in later : charged * tariff[h] <= 100 * (tariff[h] - tariff[k])
    BY DEF ChargedForWhatWaitingSaves
<1> HIDE DEF list
<1> DEFINE later == {k \in list : h <= k /\ k < h + LookAhead}
           charged == HourPenaltySeverity(h, list)
           costs == {tariff[k] : k \in later}
           cheapest == Min(costs)
<1>2. h \in later
      BY <1>1, DryadConstants
<1>3. costs \in SUBSET Nat /\ costs # {}
      BY <1>1, <1>2
<1>4. InSight(h, list) = later
      BY DEF InSight
<1>5. cheapest \in costs /\ \A p \in costs : cheapest <= p
  <2> HIDE DEF costs
  <2>1. QED BY <1>3, MinIs
<1>6. CheapestWithThreshold(h, list) = cheapest * (100 + ThresholdPercent)
      BY <1>4 DEF CheapestWithThreshold
<1>7. PICK k \in later : cheapest = tariff[k]
      BY <1>5
<1> HIDE DEF cheapest, costs
<1>8. /\ tariff[h] \in Nat /\ tariff[h] > 0 /\ cheapest \in Nat /\ cheapest > 0 /\ cheapest <= tariff[h]
      /\ ThresholdPercent \in Nat
      BY <1>1, <1>2, <1>5, <1>7, DryadConstants DEF costs
<1> DEFINE wait == cheapest * (100 + ThresholdPercent)
<1>9. charged = CASE 100 * tariff[h] < wait -> 0
                  [] 100 * tariff[h] >= wait /\ tariff[h] <= 0 -> 100
                  [] OTHER -> Clamp100((100 * tariff[h] - wait) \div tariff[h])
      BY <1>6 DEF HourPenaltySeverity
<1> HIDE DEF charged, later
<1>10. /\ cheapest = tariff[h] => charged = 0
       /\ charged = 0 \/ charged * tariff[h] <= 100 * (tariff[h] - cheapest)
  <2> DEFINE price == tariff[h]
  <2>1. price \in Nat /\ price > 0 /\ cheapest \in Nat /\ cheapest > 0 /\ ThresholdPercent \in Nat
        BY <1>8
  <2>2. charged = Penalty(price, cheapest, ThresholdPercent)
        BY <1>9 DEF Penalty
  <2> HIDE DEF price
  <2>3. /\ cheapest = price => charged = 0
        /\ charged = 0 \/ charged * price <= 100 * (price - cheapest)
        BY <2>1, <2>2, PenaltyOfPrices
  <2>4. QED BY <2>3 DEF price
<1>11. (\A q \in later : tariff[q] >= tariff[h]) => charged = 0
      BY <1>7, <1>8, <1>10
<1>12. \E q \in later : charged * tariff[h] <= 100 * (tariff[h] - tariff[q])
  <2>1. CASE charged = 0
    <3>1. charged * tariff[h] <= 100 * (tariff[h] - tariff[h])
          BY <1>8, <2>1
    <3>2. QED BY <1>2, <3>1
  <2>2. CASE charged # 0
        BY <1>7, <1>10, <2>2
  <2>3. QED BY <2>1, <2>2
<1>13. QED BY <1>11, <1>12 DEF charged, later

\* What the cache answers is no older than a source may be plus the time of
\* the cache, however the requests overtake each other (dashboard.py:299),
\* and no import is blamed for more than waiting saves (dryad.py:178), for
\* any number of requests, sources and hours and any prices.
THEOREM DryadStaysRecent == DryadSpec => []DryadIsRecent
<1>1. DryadInv => DryadIsRecent
  <2> SUFFICES ASSUME DryadInv PROVE DryadIsRecent
      OBVIOUS
  <2>1. AnswersAreRecent
    <3> SUFFICES ASSUME Cached, NEW item \in kept.shown.items, NEW s \in ItemSources[item[1]]
                 PROVE  item[2][s] # NeverSpoken /\ oclock - item[2][s] < MaxAges[s] + CacheTime
        BY DEF AnswersAreRecent
    <3>1. kept # Done /\ oclock - kept.began < CacheTime /\ oclock \in Nat /\ CacheTime \in Int
          BY DryadConstants DEF Cached, DryadInv
    <3>2. kept.began \in Int /\ RecentItems(kept.began, kept.shown.items)
          BY <3>1 DEF DryadInv
    <3> DEFINE stamp == item[2][s]
               age == MaxAges[s]
               began == kept.began
    <3>3. stamp \in Int /\ stamp # NeverSpoken /\ began - stamp <= age /\ age \in Int
          BY <3>2 DEF RecentItems
    <3>4. began \in Int /\ oclock - began < CacheTime
          BY <3>1, <3>2
    <3> HIDE DEF stamp, age, began
    <3>5. oclock - stamp < age + CacheTime
          BY <3>1, <3>3, <3>4
    <3>6. QED BY <3>3, <3>5 DEF stamp, age
  <2>2. ChargedForWhatWaitingSaves
        BY ChargedRightly DEF DryadInv
  <2>3. QED BY <2>1, <2>2 DEF DryadIsRecent
<1>2. QED BY DryadInvInit, DryadInvStep, <1>1, PTL DEF DryadSpec
=============================================================================
