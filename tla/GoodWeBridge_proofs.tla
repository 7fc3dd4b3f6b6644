------------------------ MODULE GoodWeBridge_proofs ------------------------
(* Theorems about GoodWeBridge, for any watts, ages, faults and number of   *)
(* coroutines.                                                              *)
EXTENDS GoodWeBridge, TLAPS

\* What the coroutine in the middle of a pair of register writes has done, and
\* what the bridge will note when its settling pause is over.
WriterConsistent ==
    writes # <<>> =>
        /\ Head(writes).at = "discharge" =>
             /\ torn.write
             /\ inverter.limit["charge"] = Clamped(Head(writes).target["charge"])
        /\ Head(writes).at = "settle" =>
             /\ modbus.limit = [d \in Sides |-> Clamped(Head(writes).target[d])]
             /\ modbus.age # Never

\* What the coroutine between the two requests of a command has done.
RequesterConsistent ==
    requests # <<>> /\ Head(requests).second =>
        /\ torn.command
        /\ Head(requests).command # Read
        /\ inverter.force["charge"] = ForcedMode(Head(requests).command)["charge"]

\* The inductive invariant.
IInv ==
    /\ BridgeTypeOK
    /\ CopiesAgree
    /\ RegistersAreOnePair
    /\ AcceptedCommandIsInForce
    /\ NeverForcedBothWays
    /\ WriterConsistent
    /\ RequesterConsistent

-----------------------------------------------------------------------------
(* The operators *)

LEMMA ClampedNat == \A w \in Nat : Clamped(w) \in Nat
BY BridgeConstants DEF Clamped

LEMMA ClampedWatts ==
    ASSUME NEW t \in Watts
    PROVE  [d \in Sides |-> Clamped(t[d])] \in Watts
BY ClampedNat DEF Watts

\* A quotient of natural numbers is one.
LEMMA QuotientNat ==
    ASSUME NEW n \in Nat, NEW m \in Nat \ {0}
    PROVE  n \div m \in Nat /\ n % m \in Nat
OBVIOUS

LEMMA PercentNat == \A w \in Nat : Percent(w) \in Nat
<1> SUFFICES ASSUME NEW w \in Nat PROVE Percent(w) \in Nat
  OBVIOUS
<1>1. 100 * Clamped(w) \in Nat
  BY ClampedNat
<1>2. (100 * Clamped(w)) \div InverterMaxW \in Nat
  BY <1>1, QuotientNat, BridgeConstants
<1> QED
  BY <1>2 DEF Percent

LEMMA TargetsWatts ==
    ASSUME BridgeTypeOK, NEW d \in Sides, NEW w \in Nat
    PROVE  Targets(d, w) \in Watts
BY DEF BridgeTypeOK, Targets, Watts, Zero, Sides

LEMMA SelectedCommand ==
    ASSUME NEW t \in Watts
    PROVE  Selected(t) \in Command
BY DEF Selected, Command, Watts, Sides

\* No command asks for both directions.
LEMMA ForcedOneWay ==
    ASSUME NEW c \in Command
    PROVE  /\ ForcedMode(c) \in Watts
           /\ ForcedMode(c)["charge"] = 0 \/ ForcedMode(c)["discharge"] = 0
BY PercentNat DEF ForcedMode, Command, Watts, Sides

LEMMA CommandsDiffer ==
    \A c \in Command : c # NoCommand /\ c # Read
BY DEF Command, NoCommand, Read

LEMMA OlderAge ==
    ASSUME NEW a \in Ages, NEW longest \in 0 .. Refresh
    PROVE  /\ AgedOnce(a, longest) \in Ages
           /\ AgedOnce(a, longest) = Never <=> a = Never
BY BridgeConstants DEF Ages, AgedOnce, Never

LEMMA OlderMonotonic ==
    ASSUME NEW a \in Ages, NEW b \in Ages, a <= b, a = Never <=> b = Never
    PROVE  AgedOnce(a, Refresh) <= AgedOnce(b, Refresh)
BY BridgeConstants DEF Ages, AgedOnce, Never

-----------------------------------------------------------------------------
(* The queues *)

\* A queue of requests in which only the head may be half sent.
RequestQueue(q) ==
    /\ q \in Seq(Request)
    /\ \A i \in 2 .. Len(q) : ~q[i].second

\* Appending keeps the head, or puts in one that is not half sent.
LEMMA RequestAppended ==
    ASSUME NEW q, RequestQueue(q), NEW c \in Command \cup {Read},
           NEW r, r = Append(q, [command |-> c, second |-> FALSE])
    PROVE  /\ RequestQueue(r)
           /\ Head(r).second => q # <<>> /\ Head(r) = Head(q)
<1> DEFINE x == [command |-> c, second |-> FALSE]
<1>1. x \in Request
  BY DEF Request
<1>2. r \in Seq(Request) /\ Len(r) = Len(q) + 1 /\ r # <<>>
  BY <1>1 DEF RequestQueue
<1>3. \A i \in 1 .. Len(q) : r[i] = q[i]
  BY <1>1 DEF RequestQueue
<1>4. r[Len(q) + 1] = x
  BY <1>1 DEF RequestQueue
<1>5. \A i \in 2 .. Len(r) : ~r[i].second
  BY <1>2, <1>3, <1>4 DEF RequestQueue
<1>6. Head(r).second => q # <<>> /\ Head(r) = Head(q)
  <2>1. CASE q = <<>>
    BY <2>1, <1>2, <1>4 DEF RequestQueue
  <2>2. CASE q # <<>>
    BY <2>2, <1>2, <1>3 DEF RequestQueue
  <2> QED BY <2>1, <2>2
<1> QED
  BY <1>2, <1>5, <1>6 DEF RequestQueue

LEMMA RequestRemoved ==
    ASSUME NEW q, RequestQueue(q), q # <<>>,
           NEW r, r = Tail(q)
    PROVE  RequestQueue(r) /\ (r # <<>> => ~Head(r).second)
<1>1. r \in Seq(Request) /\ Len(r) = Len(q) - 1
  BY DEF RequestQueue
<1>2. \A i \in 1 .. Len(r) : r[i] = q[i + 1]
  BY DEF RequestQueue
<1>3. \A i \in 1 .. Len(r) : ~r[i].second
  BY <1>1, <1>2 DEF RequestQueue
<1> QED
  BY <1>1, <1>3 DEF RequestQueue

LEMMA RequestedOK ==
    ASSUME BridgeTypeOK, NEW t \in Watts, NEW r, r = Requested(t)
    PROVE  /\ RequestQueue(r)
           /\ r # <<>> /\ Head(r).second => requests # <<>> /\ Head(r) = Head(requests)
<1>1. RequestQueue(requests)
  BY DEF BridgeTypeOK, RequestQueue
<1>2. Selected(t) \in Command \cup {Read}
  BY SelectedCommand
<1>3. CASE r = requests
  BY <1>1, <1>3
<1>4. CASE r = Append(requests, [command |-> Selected(t), second |-> FALSE])
  BY <1>1, <1>2, <1>4, RequestAppended
<1> QED
  BY <1>3, <1>4 DEF Requested

\* A command that joins the queue disturbs nothing of the one at work.
LEMMA RequestedKeeps ==
    ASSUME IInv, NEW t \in Watts, requests' = Requested(t),
           inverter'.force = inverter.force, torn'.command = torn.command
    PROVE  RequestQueue(requests') /\ RequesterConsistent'
<1>1. BridgeTypeOK /\ RequesterConsistent
  BY DEF IInv
<1>2. /\ RequestQueue(requests')
      /\ requests' # <<>> /\ Head(requests').second =>
           requests # <<>> /\ Head(requests') = Head(requests)
  BY <1>1, RequestedOK
<1> QED
  BY <1>1, <1>2 DEF RequesterConsistent, ForcedMode

\* The coroutines that wait for the lock.
LEMMA WriteRemoved ==
    ASSUME BridgeTypeOK, writes # <<>>, writes' = Tail(writes)
    PROVE  /\ writes' \in Seq(Write)
           /\ \A i \in 1 .. Len(writes') : writes'[i].at = "lock"
           /\ writes' # <<>> => Head(writes').at = "lock"
<1>1. /\ writes \in Seq(Write)
      /\ \A i \in 2 .. Len(writes) : writes[i].at = "lock"
  BY DEF BridgeTypeOK
<1>2. writes' \in Seq(Write) /\ Len(writes') = Len(writes) - 1
  BY <1>1
<1>3. \A i \in 1 .. Len(writes') : writes'[i] = writes[i + 1]
  BY <1>1
<1>4. \A i \in 1 .. Len(writes') : writes'[i].at = "lock"
  BY <1>1, <1>2, <1>3
<1>5. ASSUME writes' # <<>> PROVE Head(writes').at = "lock"
  <2>1. Head(writes') = writes'[1] /\ 1 \in 1 .. Len(writes')
    BY <1>2, <1>5
  <2> QED
    BY <1>4, <2>1
<1> QED
  BY <1>2, <1>4, <1>5

LEMMA HeadWrite ==
    ASSUME BridgeTypeOK, writes # <<>>
    PROVE  /\ Head(writes) \in Write
           /\ Head(writes) = writes[1]
           /\ 1 \in DOMAIN writes
BY DEF BridgeTypeOK

LEMMA HeadRequest ==
    ASSUME BridgeTypeOK, requests # <<>>
    PROVE  /\ Head(requests) \in Request
           /\ Head(requests) = requests[1]
           /\ 1 \in DOMAIN requests
BY DEF BridgeTypeOK

\* Leaving the lock: who comes next still waits, and the API command follows.
LEMMA LeaveLockOK ==
    ASSUME IInv, writes # <<>>, LeaveLock,
           inverter'.force = inverter.force, torn'.command = torn.command
    PROVE  /\ writes' \in Seq(Write)
           /\ \A i \in 2 .. Len(writes') : writes'[i].at = "lock"
           /\ writes' # <<>> => Head(writes').at = "lock"
           /\ RequestQueue(requests')
           /\ RequesterConsistent'
<1>1. BridgeTypeOK
  BY DEF IInv
<1>2. Head(writes).target \in Watts
  BY <1>1, HeadWrite DEF Write
<1>3. RequestQueue(requests') /\ RequesterConsistent'
  BY <1>2, RequestedKeeps DEF LeaveLock
<1>4. /\ writes' \in Seq(Write)
      /\ \A i \in 1 .. Len(writes') : writes'[i].at = "lock"
      /\ writes' # <<>> => Head(writes').at = "lock"
  BY <1>1, WriteRemoved DEF LeaveLock
<1> QED
  BY <1>3, <1>4

\* The head moves on to another place in the code.
LEMMA HeadMoves ==
    ASSUME BridgeTypeOK, writes # <<>>,
           NEW at \in {"lock", "charge", "discharge", "settle"},
           writes' = [writes EXCEPT ![1].at = at]
    PROVE  /\ writes' \in Seq(Write)
           /\ \A i \in 2 .. Len(writes') : writes'[i].at = "lock"
           /\ writes' # <<>>
           /\ Head(writes').target = Head(writes).target
           /\ Head(writes').at = at
<1> DEFINE h == [writes[1] EXCEPT !.at = at]
<1>1. /\ writes \in Seq(Write) /\ Len(writes) \in Nat
      /\ 1 \in 1 .. Len(writes)
      /\ \A i \in 2 .. Len(writes) : writes[i].at = "lock"
      /\ writes[1] \in Write
      /\ Head(writes) = writes[1]
  BY HeadWrite DEF BridgeTypeOK
<1>2. h \in Write /\ h.at = at /\ h.target = writes[1].target
  BY <1>1 DEF Write
<1>3. writes' = [writes EXCEPT ![1] = h]
  OBVIOUS
<1> HIDE DEF h
<1>4. writes' \in Seq(Write) /\ Len(writes') = Len(writes)
  BY <1>1, <1>2, <1>3
<1>5. writes'[1] = h /\ \A i \in 2 .. Len(writes) : writes'[i] = writes[i]
  BY <1>1, <1>3
<1>6. writes' # <<>> /\ Head(writes') = h
  BY <1>1, <1>4, <1>5
<1> QED
  BY <1>1, <1>2, <1>4, <1>5, <1>6

-----------------------------------------------------------------------------
(* The actions *)

LEMMA InitOK == BridgeInit => IInv
<1> SUFFICES ASSUME BridgeInit PROVE IInv
  OBVIOUS
<1>1. Zero \in Watts /\ \A d \in Sides : Clamped(0) = 0
  BY BridgeConstants DEF Zero, Watts, Clamped
<1>2. PICK d \in Sides, p \in {0, 50} :
        inverter = [limit |-> Zero, force |-> [Zero EXCEPT ![d] = p]]
  BY DEF BridgeInit
<1>3. inverter.force \in Watts /\ inverter.limit \in Watts
  BY <1>1, <1>2 DEF Watts
<1>4. BridgeTypeOK
  <2>1. inverter \in [limit : Watts, force : Watts]
    BY <1>1, <1>2 DEF Watts
  <2>2. Never \in Ages
    BY DEF Ages
  <2>3. writes = <<>> /\ requests = <<>>
    BY DEF BridgeInit
  <2> QED
    BY <1>1, <2>1, <2>2, <2>3
       DEF BridgeTypeOK, BridgeInit, NewBridge, NewModbus, NoCommand, Write, Request
<1>5. CopiesAgree
  <2>1. [d_1 \in Sides |-> Clamped(Zero[d_1])] = Zero
    BY <1>1 DEF Zero
  <2> QED
    BY <2>1 DEF BridgeInit, CopiesAgree, NewBridge, NewModbus, Never
<1>6. NeverForcedBothWays
  BY <1>2 DEF NeverForcedBothWays, Zero, Sides
<1> QED
  BY <1>4, <1>5, <1>6
     DEF BridgeInit, IInv, RegistersAreOnePair, AcceptedCommandIsInForce,
         WriterConsistent, RequesterConsistent, NewModbus, NewBridge

LEMMA SetpointOK ==
    ASSUME IInv, NEW d \in Sides, NEW watts \in SetpointWatts[d], Setpoint(d, watts)
    PROVE  IInv'
<1> DEFINE w == NotNegative(watts)
           t == Targets(d, w)
           changed == bridge.target[d] = 0 /\ w > 0
           x == [target |-> t, changed |-> changed,
                 at |-> IF writes = <<>> THEN "charge" ELSE "lock"]
<1>1. BridgeTypeOK
  BY DEF IInv
<1>2. w \in Nat
  BY BridgeConstants DEF NotNegative
<1>3. t \in Watts
  BY <1>1, <1>2, TargetsWatts
<1>4. changed \in BOOLEAN
  OBVIOUS
<1>5. x \in Write
  BY <1>3, <1>4 DEF Write
<1>6. /\ bridge' = [bridge EXCEPT !.target = t]
      /\ UNCHANGED <<modbus, inverter, torn>>
      /\ \/ requests' = Requested(t) /\ writes' = writes
         \/ writes' = Append(writes, x) /\ requests' = requests
  BY DEF Setpoint
<1> HIDE DEF w, t, changed
<1>7. RequestQueue(requests') /\ RequesterConsistent'
  <2>1. CASE requests' = Requested(t)
    BY <2>1, <1>3, <1>6, RequestedKeeps
  <2>2. CASE requests' = requests
    BY <2>2, <1>1, <1>6 DEF IInv, RequesterConsistent, BridgeTypeOK, RequestQueue, ForcedMode
  <2> QED BY <1>6, <2>1, <2>2
<1>8. /\ writes' \in Seq(Write)
      /\ \A i \in 2 .. Len(writes') : writes'[i].at = "lock"
      /\ writes' # <<>> /\ Head(writes').at \in {"discharge", "settle"} =>
           writes # <<>> /\ Head(writes') = Head(writes)
      /\ writes # <<>> => writes' # <<>> /\ Head(writes') = Head(writes)
  <2>0. writes \in Seq(Write) /\ \A i \in 2 .. Len(writes) : writes[i].at = "lock"
    BY <1>1 DEF BridgeTypeOK
  <2>1. CASE writes' = writes
    BY <2>0, <2>1
  <2>2. CASE writes' = Append(writes, x)
    <3>a. x.at = IF writes = <<>> THEN "charge" ELSE "lock"
      OBVIOUS
    <3> HIDE DEF x
    <3>1. writes' \in Seq(Write) /\ Len(writes') = Len(writes) + 1 /\ writes' # <<>>
      BY <2>0, <2>2, <1>5
    <3>2. \A i \in 1 .. Len(writes) : writes'[i] = writes[i]
      BY <2>0, <2>2, <1>5
    <3>3. writes'[Len(writes) + 1] = x
      BY <2>0, <2>2, <1>5
    <3>4. CASE writes = <<>>
      <4>1. Len(writes) = 0 /\ Head(writes') = x
        BY <3>1, <3>3, <3>4
      <4> QED BY <4>1, <3>1, <3>4, <3>a
    <3>5. CASE writes # <<>>
      <4>1. Head(writes') = Head(writes)
        BY <2>0, <3>1, <3>2, <3>5
      <4>2. \A i \in 2 .. Len(writes') : writes'[i].at = "lock"
        BY <2>0, <3>1, <3>2, <3>3, <3>5, <3>a
      <4> QED BY <4>1, <4>2, <3>1, <3>5
    <3> QED BY <3>4, <3>5
  <2> QED BY <1>6, <2>1, <2>2
<1>9. BridgeTypeOK'
  BY <1>1, <1>3, <1>6, <1>7, <1>8 DEF BridgeTypeOK, RequestQueue
<1>10. CopiesAgree'
  <2>1. AtRegister("settle") => AtRegister("settle")'
    BY <1>8 DEF AtRegister
  <2>2. bridge'.last = bridge.last /\ bridge'.writeAge = bridge.writeAge
    BY <1>1, <1>6 DEF BridgeTypeOK
  <2> QED BY <1>6, <2>1, <2>2 DEF IInv, CopiesAgree, Clamped
<1>11. AcceptedCommandIsInForce'
  <2>1. bridge'.command = bridge.command
    BY <1>1, <1>6 DEF BridgeTypeOK
  <2> QED BY <2>1, <1>6 DEF IInv, AcceptedCommandIsInForce, ForcedMode, Percent, Clamped
<1>12. WriterConsistent'
  BY <1>6, <1>8 DEF IInv, WriterConsistent, Clamped
<1> QED
  BY <1>6, <1>7, <1>9, <1>10, <1>11, <1>12
     DEF IInv, RegistersAreOnePair, NeverForcedBothWays

LEMMA TakeLockOK == IInv /\ TakeLock => IInv'
<1> SUFFICES ASSUME IInv, TakeLock PROVE IInv'
  OBVIOUS
<1>1. BridgeTypeOK /\ writes # <<>>
  BY DEF IInv, TakeLock
<1>2. UNCHANGED <<bridge, modbus, inverter, torn>>
  BY DEF TakeLock
<1>3. /\ writes' \in Seq(Write)
      /\ \A i \in 2 .. Len(writes') : writes'[i].at = "lock"
      /\ writes' # <<>> => Head(writes').at \in {"lock", "charge"}
      /\ RequestQueue(requests')
      /\ RequesterConsistent'
  <2>1. CASE LeaveLock
    BY <2>1, <1>1, <1>2, LeaveLockOK
  <2>2. CASE writes' = [writes EXCEPT ![1].at = "charge"] /\ UNCHANGED requests
    BY <2>2, <1>1, <1>2, HeadMoves
       DEF IInv, RequesterConsistent, BridgeTypeOK, RequestQueue, ForcedMode
  <2> QED BY <2>1, <2>2 DEF TakeLock
<1>4. BridgeTypeOK'
  BY <1>1, <1>2, <1>3 DEF BridgeTypeOK, RequestQueue
<1>5. CopiesAgree'
  <2>1. ~AtRegister("settle")
    BY DEF TakeLock, AtRegister
  <2> QED BY <1>2, <2>1 DEF IInv, CopiesAgree, Clamped
<1> QED
  BY <1>2, <1>3, <1>4, <1>5
     DEF IInv, RegistersAreOnePair, AcceptedCommandIsInForce, NeverForcedBothWays,
         WriterConsistent, ForcedMode

LEMMA RegisterSetOK ==
    ASSUME BridgeTypeOK, writes # <<>>, NEW d \in Sides
    PROVE  /\ RegisterSet(d) \in [limit : Watts, force : Watts]
           /\ RegisterSet(d).force = inverter.force
           /\ RegisterSet(d).limit =
                [inverter.limit EXCEPT ![d] = Clamped(Head(writes).target[d])]
<1>1. Head(writes).target[d] \in Nat
  BY HeadWrite DEF Write, Watts
<1>2. Clamped(Head(writes).target[d]) \in Nat
  BY <1>1, ClampedNat
<1> QED
  BY <1>2 DEF RegisterSet, BridgeTypeOK, Watts

LEMMA WriteChargeRegisterOK == IInv /\ WriteChargeRegister => IInv'
<1> SUFFICES ASSUME IInv, WriteChargeRegister PROVE IInv'
  OBVIOUS
<1>1. BridgeTypeOK /\ writes # <<>>
  BY DEF IInv, WriteChargeRegister, AtRegister
<1>2. /\ inverter' = RegisterSet("charge")
      /\ writes' = [writes EXCEPT ![1].at = "discharge"]
      /\ torn' = [torn EXCEPT !.write = TRUE]
      /\ UNCHANGED <<bridge, modbus, requests>>
  BY DEF WriteChargeRegister
<1>3. /\ inverter' \in [limit : Watts, force : Watts]
      /\ inverter'.force = inverter.force
      /\ inverter'.limit["charge"] = Clamped(Head(writes).target["charge"])
  BY <1>1, <1>2, RegisterSetOK DEF BridgeTypeOK, Watts, Sides
<1>4. torn' \in [write : BOOLEAN, command : BOOLEAN] /\ torn'.write
      /\ torn'.command = torn.command
  BY <1>1, <1>2 DEF BridgeTypeOK
<1>5. /\ writes' \in Seq(Write)
      /\ \A i \in 2 .. Len(writes') : writes'[i].at = "lock"
      /\ writes' # <<>>
      /\ Head(writes').target = Head(writes).target
      /\ Head(writes').at = "discharge"
  BY <1>1, <1>2, HeadMoves
<1>6. BridgeTypeOK'
  BY <1>1, <1>2, <1>3, <1>4, <1>5 DEF BridgeTypeOK
<1>7. CopiesAgree'
  BY <1>2 DEF IInv, CopiesAgree, Clamped, WriteChargeRegister, AtRegister
<1>8. WriterConsistent'
  BY <1>3, <1>4, <1>5 DEF WriterConsistent, Clamped
<1> QED
  BY <1>2, <1>3, <1>4, <1>6, <1>7, <1>8
     DEF IInv, RegistersAreOnePair, AcceptedCommandIsInForce, NeverForcedBothWays,
         RequesterConsistent, ForcedMode

LEMMA WriteDischargeRegisterOK == IInv /\ WriteDischargeRegister => IInv'
<1> SUFFICES ASSUME IInv, WriteDischargeRegister PROVE IInv'
  OBVIOUS
<1> DEFINE t == Head(writes).target
           limit == [d \in Sides |-> Clamped(t[d])]
<1>1. BridgeTypeOK /\ writes # <<>> /\ Head(writes).at = "discharge"
  BY DEF IInv, WriteDischargeRegister, AtRegister
<1>2. /\ inverter' = RegisterSet("discharge")
      /\ modbus' = [limit |-> limit, age |-> 0]
      /\ writes' = [writes EXCEPT ![1].at = "settle"]
      /\ torn' = [torn EXCEPT !.write = FALSE]
      /\ UNCHANGED <<bridge, requests>>
  BY DEF WriteDischargeRegister
<1>3. t \in Watts /\ limit \in Watts
  BY <1>1, HeadWrite, ClampedWatts DEF Write
<1>4. /\ inverter' \in [limit : Watts, force : Watts]
      /\ inverter'.force = inverter.force
      /\ inverter'.limit = [inverter.limit EXCEPT !["discharge"] = Clamped(t["discharge"])]
  BY <1>1, <1>2, RegisterSetOK DEF Sides
<1>5. inverter.limit["charge"] = Clamped(t["charge"]) /\ inverter.limit \in Watts
  BY <1>1 DEF IInv, WriterConsistent, BridgeTypeOK
<1>6. inverter'.limit = limit
  BY <1>4, <1>5 DEF Watts, Sides
<1>7. torn' \in [write : BOOLEAN, command : BOOLEAN] /\ torn'.command = torn.command
  BY <1>1, <1>2 DEF BridgeTypeOK
<1>8. /\ writes' \in Seq(Write)
      /\ \A i \in 2 .. Len(writes') : writes'[i].at = "lock"
      /\ writes' # <<>>
      /\ Head(writes').target = t
      /\ Head(writes').at = "settle"
  BY <1>1, <1>2, HeadMoves
<1>9. modbus'.limit = limit /\ modbus'.age = 0 /\ modbus' \in [limit : Watts, age : Ages]
  BY <1>2, <1>3, BridgeConstants DEF Ages
<1> HIDE DEF limit, t
<1>10. BridgeTypeOK'
  BY <1>1, <1>2, <1>4, <1>7, <1>8, <1>9 DEF BridgeTypeOK
<1>11. CopiesAgree'
  BY <1>8 DEF CopiesAgree, AtRegister
<1>12. WriterConsistent'
  BY <1>8, <1>9 DEF WriterConsistent, Clamped, limit, Never
<1>13. RegistersAreOnePair'
  BY <1>6, <1>9 DEF RegistersAreOnePair
<1> QED
  BY <1>2, <1>4, <1>7, <1>10, <1>11, <1>12, <1>13
     DEF IInv, AcceptedCommandIsInForce, NeverForcedBothWays,
         RequesterConsistent, ForcedMode

LEMMA SettledOK == IInv /\ Settled => IInv'
<1> SUFFICES ASSUME IInv, Settled PROVE IInv'
  OBVIOUS
<1>1. BridgeTypeOK /\ writes # <<>> /\ Head(writes).at = "settle"
  BY DEF IInv, Settled, AtRegister
<1>2. /\ bridge' = [bridge EXCEPT !.last = Head(writes).target, !.writeAge = 0]
      /\ LeaveLock
      /\ UNCHANGED <<modbus, inverter, torn>>
  BY DEF Settled
<1>3. Head(writes).target \in Watts
  BY <1>1, HeadWrite DEF Write
<1>4. /\ writes' \in Seq(Write)
      /\ \A i \in 2 .. Len(writes') : writes'[i].at = "lock"
      /\ writes' # <<>> => Head(writes').at = "lock"
      /\ RequestQueue(requests')
      /\ RequesterConsistent'
  BY <1>1, <1>2, LeaveLockOK
<1>5. /\ bridge'.last = Head(writes).target
      /\ bridge'.writeAge = 0
      /\ bridge'.command = bridge.command
      /\ bridge' \in [target : Watts, last : Watts, writeAge : Ages,
                      command : Command \cup {NoCommand}, commandAge : Ages,
                      power : PowersRead \cup {0}, powerAge : Ages]
  <2>1. 0 \in Ages
    BY BridgeConstants DEF Ages
  <2> QED BY <1>1, <1>2, <1>3, <2>1 DEF BridgeTypeOK
<1>6. BridgeTypeOK'
  BY <1>1, <1>2, <1>4, <1>5 DEF BridgeTypeOK, RequestQueue
<1>7. CopiesAgree'
  <2>1. /\ modbus.limit = [d \in Sides |-> Clamped(Head(writes).target[d])]
        /\ modbus.age # Never
    BY <1>1 DEF IInv, WriterConsistent
  <2>2. modbus.age \in Ages
    BY <1>1 DEF BridgeTypeOK
  <2>3. 0 <= modbus.age
    BY <2>1, <2>2 DEF Ages, Never
  <2> QED BY <1>2, <1>5, <2>1, <2>3 DEF CopiesAgree, Clamped, Never
<1> QED
  BY <1>2, <1>4, <1>5, <1>6, <1>7
     DEF IInv, RegistersAreOnePair, AcceptedCommandIsInForce, NeverForcedBothWays,
         WriterConsistent, ForcedMode

LEMMA WriteFailsOK == IInv /\ WriteFails => IInv'
<1> SUFFICES ASSUME IInv, WriteFails PROVE IInv'
  OBVIOUS
<1>1. PICK d \in Sides : AtRegister(d) /\ inverter' \in {inverter, RegisterSet(d)}
  BY DEF WriteFails
<1>2. BridgeTypeOK /\ writes # <<>> /\ ~AtRegister("settle")
  BY <1>1 DEF IInv, AtRegister, Sides
<1>3. LeaveLock /\ torn' = [torn EXCEPT !.write = TRUE] /\ UNCHANGED <<bridge, modbus>>
  BY DEF WriteFails
<1>4. inverter' \in [limit : Watts, force : Watts] /\ inverter'.force = inverter.force
  BY <1>1, <1>2, RegisterSetOK DEF BridgeTypeOK
<1>5. /\ torn' \in [write : BOOLEAN, command : BOOLEAN]
      /\ torn'.write
      /\ torn'.command = torn.command
  BY <1>2, <1>3 DEF BridgeTypeOK
<1>6. /\ writes' \in Seq(Write)
      /\ \A i \in 2 .. Len(writes') : writes'[i].at = "lock"
      /\ writes' # <<>> => Head(writes').at = "lock"
      /\ RequestQueue(requests')
      /\ RequesterConsistent'
  BY <1>2, <1>3, <1>4, <1>5, LeaveLockOK
<1>7. BridgeTypeOK'
  BY <1>2, <1>3, <1>4, <1>5, <1>6 DEF BridgeTypeOK, RequestQueue
<1>8. CopiesAgree'
  BY <1>2, <1>3 DEF IInv, CopiesAgree, Clamped
<1> QED
  BY <1>3, <1>4, <1>5, <1>6, <1>7, <1>8
     DEF IInv, RegistersAreOnePair, AcceptedCommandIsInForce, NeverForcedBothWays,
         WriterConsistent, ForcedMode

LEMMA PercentSetOK ==
    ASSUME BridgeTypeOK, requests # <<>>, Head(requests).command \in Command,
           NEW d \in Sides
    PROVE  /\ PercentSet(d) \in [limit : Watts, force : Watts]
           /\ PercentSet(d).limit = inverter.limit
           /\ PercentSet(d).force =
                [inverter.force EXCEPT ![d] = ForcedMode(Head(requests).command)[d]]
<1>1. ForcedMode(Head(requests).command)[d] \in Nat
  BY ForcedOneWay DEF Watts
<1> QED
  BY <1>1 DEF PercentSet, BridgeTypeOK, Watts

\* The head of the request queue while a command is being sent.
LEMMA InRequestCommand ==
    ASSUME BridgeTypeOK, NEW d \in Sides, InRequest(d)
    PROVE  /\ requests # <<>>
           /\ Head(requests).command \in Command
           /\ Head(requests).second \in BOOLEAN
           /\ RequestQueue(requests)
BY HeadRequest DEF InRequest, Request, BridgeTypeOK, RequestQueue

LEMMA ChargePercentSentOK == IInv /\ ChargePercentSent => IInv'
<1> SUFFICES ASSUME IInv, ChargePercentSent PROVE IInv'
  OBVIOUS
<1> DEFINE c == Head(requests).command
           h == [requests[1] EXCEPT !.second = TRUE]
<1>1. BridgeTypeOK /\ InRequest("charge")
  BY DEF IInv, ChargePercentSent
<1>2. requests # <<>> /\ c \in Command /\ RequestQueue(requests)
  BY <1>1, InRequestCommand DEF Sides
<1>3. /\ inverter' = PercentSet("charge")
      /\ requests' = [requests EXCEPT ![1].second = TRUE]
      /\ torn' = [torn EXCEPT !.command = TRUE]
      /\ UNCHANGED <<bridge, modbus, writes>>
  BY DEF ChargePercentSent
<1>4. /\ inverter' \in [limit : Watts, force : Watts]
      /\ inverter'.limit = inverter.limit
      /\ inverter'.force = [inverter.force EXCEPT !["charge"] = ForcedMode(c)["charge"]]
  BY <1>1, <1>2, <1>3, PercentSetOK DEF Sides
<1>5. inverter'.force["charge"] = ForcedMode(c)["charge"]
  BY <1>1, <1>4 DEF BridgeTypeOK, Watts, Sides
<1>6. /\ torn' \in [write : BOOLEAN, command : BOOLEAN]
      /\ torn'.command
      /\ torn'.write = torn.write
  BY <1>1, <1>3 DEF BridgeTypeOK
<1>7. /\ RequestQueue(requests')
      /\ requests' # <<>>
      /\ Head(requests').command = c
  <2>1. h \in Request /\ h.command = c
    BY <1>1, <1>2, HeadRequest DEF Request
  <2>2. requests' = [requests EXCEPT ![1] = h]
    BY <1>3
  <2> HIDE DEF h
  <2>3. requests \in Seq(Request) /\ 1 \in 1 .. Len(requests)
    BY <1>2 DEF RequestQueue
  <2>4. requests' \in Seq(Request) /\ Len(requests') = Len(requests)
    BY <2>1, <2>2, <2>3
  <2>5. requests'[1] = h /\ \A i \in 2 .. Len(requests) : requests'[i] = requests[i]
    BY <2>2, <2>3
  <2>6. requests' # <<>> /\ Head(requests') = h
    BY <2>3, <2>4, <2>5
  <2> QED BY <1>2, <2>1, <2>4, <2>5, <2>6 DEF RequestQueue
<1>8. BridgeTypeOK'
  BY <1>1, <1>3, <1>4, <1>6, <1>7 DEF BridgeTypeOK, RequestQueue
<1>9. RequesterConsistent'
  <2>1. c # Read
    BY <1>2, CommandsDiffer
  <2> QED BY <1>5, <1>6, <1>7, <2>1 DEF RequesterConsistent, ForcedMode
<1> QED
  BY <1>3, <1>4, <1>6, <1>8, <1>9
     DEF IInv, CopiesAgree, AtRegister, RegistersAreOnePair, AcceptedCommandIsInForce,
         NeverForcedBothWays, WriterConsistent, Clamped

LEMMA DischargePercentSentOK == IInv /\ DischargePercentSent => IInv'
<1> SUFFICES ASSUME IInv, DischargePercentSent PROVE IInv'
  OBVIOUS
<1> DEFINE c == Head(requests).command
<1>1. BridgeTypeOK /\ InRequest("discharge") /\ Head(requests).second
  BY DEF IInv, DischargePercentSent, InRequest
<1>2. requests # <<>> /\ c \in Command /\ RequestQueue(requests)
  BY <1>1, InRequestCommand DEF Sides
<1>3. /\ inverter' = PercentSet("discharge")
      /\ requests' = Tail(requests)
      /\ bridge' = [bridge EXCEPT !.command = c, !.commandAge = 0]
      /\ torn' = [torn EXCEPT !.command = FALSE]
      /\ UNCHANGED <<modbus, writes>>
  BY DEF DischargePercentSent
<1>4. /\ inverter' \in [limit : Watts, force : Watts]
      /\ inverter'.limit = inverter.limit
      /\ inverter'.force = [inverter.force EXCEPT !["discharge"] = ForcedMode(c)["discharge"]]
  BY <1>1, <1>2, <1>3, PercentSetOK DEF Sides
<1>5. inverter.force["charge"] = ForcedMode(c)["charge"]
  BY <1>1, <1>2 DEF IInv, RequesterConsistent
<1>6. /\ ForcedMode(c) \in Watts
      /\ ForcedMode(c)["charge"] = 0 \/ ForcedMode(c)["discharge"] = 0
  BY <1>2, ForcedOneWay
<1>7. inverter'.force = ForcedMode(c)
  <2>1. inverter.force \in Watts
    BY <1>1 DEF BridgeTypeOK
  <2> DEFINE f == ForcedMode(c)
  <2>2. /\ f \in Watts
        /\ inverter.force["charge"] = f["charge"]
        /\ inverter'.force = [inverter.force EXCEPT !["discharge"] = f["discharge"]]
    BY <1>4, <1>5, <1>6
  <2> HIDE DEF f
  <2>3. \A d \in Sides : inverter'.force[d] = f[d]
    BY <2>1, <2>2 DEF Watts, Sides
  <2>4. inverter'.force \in Watts
    BY <1>4
  <2>5. inverter'.force = f
    BY <2>2, <2>3, <2>4 DEF Watts
  <2> QED BY <2>5 DEF f
<1>8. /\ torn' \in [write : BOOLEAN, command : BOOLEAN]
      /\ torn'.write = torn.write
  BY <1>1, <1>3 DEF BridgeTypeOK
<1>9. RequestQueue(requests') /\ RequesterConsistent'
  BY <1>2, <1>3, RequestRemoved DEF RequesterConsistent
<1>10. /\ bridge'.last = bridge.last
       /\ bridge'.writeAge = bridge.writeAge
       /\ bridge'.command = c
       /\ bridge' \in [target : Watts, last : Watts, writeAge : Ages,
                       command : Command \cup {NoCommand}, commandAge : Ages,
                       power : PowersRead \cup {0}, powerAge : Ages]
  <2>1. 0 \in Ages
    BY BridgeConstants DEF Ages
  <2> QED BY <1>1, <1>2, <1>3, <2>1 DEF BridgeTypeOK
<1> HIDE DEF c
<1>11. BridgeTypeOK'
  BY <1>1, <1>3, <1>4, <1>8, <1>9, <1>10 DEF BridgeTypeOK, RequestQueue
<1>12. CopiesAgree'
  BY <1>3, <1>10 DEF IInv, CopiesAgree, AtRegister, Clamped
<1>13. AcceptedCommandIsInForce'
  BY <1>7, <1>10 DEF AcceptedCommandIsInForce, ForcedMode, Percent, Clamped
<1>14. NeverForcedBothWays'
  BY <1>6, <1>7 DEF NeverForcedBothWays
<1> QED
  BY <1>3, <1>4, <1>8, <1>9, <1>11, <1>12, <1>13, <1>14
     DEF IInv, RegistersAreOnePair, WriterConsistent, Clamped

LEMMA RequestFailsOK == IInv /\ RequestFails => IInv'
<1> SUFFICES ASSUME IInv, RequestFails PROVE IInv'
  OBVIOUS
<1>1. PICK d \in Sides : InRequest(d) /\ inverter' \in {inverter, PercentSet(d)}
  BY DEF RequestFails
<1>2. /\ requests' = Tail(requests)
      /\ torn' = [torn EXCEPT !.command = TRUE]
      /\ UNCHANGED <<bridge, modbus, writes>>
  BY DEF RequestFails
<1>3. BridgeTypeOK
  BY DEF IInv
<1>4. requests # <<>> /\ Head(requests).command \in Command /\ RequestQueue(requests)
  BY <1>1, <1>3, InRequestCommand
<1>5. inverter' \in [limit : Watts, force : Watts] /\ inverter'.limit = inverter.limit
  <2>1. inverter \in [limit : Watts, force : Watts]
    BY <1>3 DEF BridgeTypeOK
  <2>2. /\ PercentSet(d) \in [limit : Watts, force : Watts]
        /\ PercentSet(d).limit = inverter.limit
    BY <1>3, <1>4, PercentSetOK
  <2> QED BY <1>1, <2>1, <2>2
<1>6. /\ torn' \in [write : BOOLEAN, command : BOOLEAN]
      /\ torn'.command
      /\ torn'.write = torn.write
  BY <1>2, <1>3 DEF BridgeTypeOK
<1>7. RequestQueue(requests') /\ RequesterConsistent'
  BY <1>2, <1>4, RequestRemoved DEF RequesterConsistent
<1>8. BridgeTypeOK'
  BY <1>2, <1>3, <1>5, <1>6, <1>7 DEF BridgeTypeOK, RequestQueue
<1> QED
  BY <1>2, <1>5, <1>6, <1>7, <1>8
     DEF IInv, CopiesAgree, AtRegister, RegistersAreOnePair, AcceptedCommandIsInForce,
         NeverForcedBothWays, WriterConsistent, Clamped

LEMMA PollOK == IInv /\ Poll => IInv'
<1> SUFFICES ASSUME IInv, Poll PROVE IInv'
  OBVIOUS
<1>1. /\ requests' = Append(requests, [command |-> Read, second |-> FALSE])
      /\ UNCHANGED <<bridge, modbus, writes, inverter, torn>>
  BY DEF Poll
<1>2. BridgeTypeOK /\ RequestQueue(requests)
  BY DEF IInv, BridgeTypeOK, RequestQueue
<1>3. /\ RequestQueue(requests')
      /\ Head(requests').second => requests # <<>> /\ Head(requests') = Head(requests)
  BY <1>1, <1>2, RequestAppended
<1>4. BridgeTypeOK'
  BY <1>1, <1>2, <1>3 DEF BridgeTypeOK, RequestQueue
<1>5. RequesterConsistent'
  BY <1>1, <1>3 DEF IInv, RequesterConsistent, ForcedMode
<1> QED
  BY <1>1, <1>4, <1>5
     DEF IInv, CopiesAgree, AtRegister, RegistersAreOnePair, AcceptedCommandIsInForce,
         NeverForcedBothWays, WriterConsistent, Clamped, ForcedMode

LEMMA ReadAnswersOK == IInv /\ ReadAnswers => IInv'
<1> SUFFICES ASSUME IInv, ReadAnswers PROVE IInv'
  OBVIOUS
<1>1. PICK p \in PowersRead \cup {0} :
        bridge' = [bridge EXCEPT !.power = p, !.powerAge = 0]
  BY DEF ReadAnswers
<1>2. /\ requests # <<>>
      /\ requests' = Tail(requests)
      /\ UNCHANGED <<modbus, writes, inverter, torn>>
  BY DEF ReadAnswers
<1>3. BridgeTypeOK /\ RequestQueue(requests)
  BY DEF IInv, BridgeTypeOK, RequestQueue
<1>4. RequestQueue(requests') /\ RequesterConsistent'
  BY <1>2, <1>3, RequestRemoved DEF RequesterConsistent
<1>5. /\ bridge'.last = bridge.last
      /\ bridge'.writeAge = bridge.writeAge
      /\ bridge'.command = bridge.command
      /\ bridge' \in [target : Watts, last : Watts, writeAge : Ages,
                      command : Command \cup {NoCommand}, commandAge : Ages,
                      power : PowersRead \cup {0}, powerAge : Ages]
  <2>1. 0 \in Ages
    BY BridgeConstants DEF Ages
  <2> QED BY <1>1, <1>3, <2>1 DEF BridgeTypeOK
<1>6. BridgeTypeOK'
  BY <1>2, <1>3, <1>4, <1>5 DEF BridgeTypeOK, RequestQueue
<1> QED
  BY <1>2, <1>4, <1>5, <1>6
     DEF IInv, CopiesAgree, AtRegister, RegistersAreOnePair, AcceptedCommandIsInForce,
         NeverForcedBothWays, WriterConsistent, Clamped, ForcedMode

LEMMA TickOK == IInv /\ Tick => IInv'
<1> SUFFICES ASSUME IInv, Tick PROVE IInv'
  OBVIOUS
<1>1. BridgeTypeOK
  BY DEF IInv
<1>2. /\ bridge' = [bridge EXCEPT !.writeAge = AgedOnce(bridge.writeAge, Refresh),
                                  !.commandAge = AgedOnce(bridge.commandAge, Refresh),
                                  !.powerAge = AgedOnce(bridge.powerAge, Interval)]
      /\ modbus' = [modbus EXCEPT !.age = AgedOnce(modbus.age, Refresh)]
      /\ UNCHANGED <<writes, requests, inverter, torn>>
  BY DEF Tick
<1>3. /\ {bridge.writeAge, bridge.commandAge, bridge.powerAge, modbus.age} \subseteq Ages
      /\ {AgedOnce(bridge.writeAge, Refresh), AgedOnce(bridge.commandAge, Refresh),
          AgedOnce(bridge.powerAge, Interval), AgedOnce(modbus.age, Refresh)} \subseteq Ages
      /\ AgedOnce(bridge.writeAge, Refresh) = Never <=> bridge.writeAge = Never
      /\ AgedOnce(modbus.age, Refresh) = Never <=> modbus.age = Never
  <2>1. {bridge.writeAge, bridge.commandAge, bridge.powerAge, modbus.age} \subseteq Ages
    BY <1>1 DEF BridgeTypeOK
  <2>2. Refresh \in 0 .. Refresh /\ Interval \in 0 .. Refresh
    <3>1. Refresh \in Nat /\ Interval \in Nat /\ Interval <= Refresh
      BY BridgeConstants
    <3> QED BY <3>1
  <2> QED
    BY <2>1, <2>2, OlderAge
<1>4. /\ bridge'.last = bridge.last
      /\ bridge'.writeAge = AgedOnce(bridge.writeAge, Refresh)
      /\ bridge'.command = bridge.command
      /\ modbus'.limit = modbus.limit
      /\ modbus'.age = AgedOnce(modbus.age, Refresh)
  BY <1>1, <1>2 DEF BridgeTypeOK
<1>5. BridgeTypeOK'
  BY <1>1, <1>2, <1>3 DEF BridgeTypeOK
<1>6. CopiesAgree'
  <2>1. SUFFICES ASSUME ~AtRegister("settle")'
                 PROVE  /\ modbus'.limit = [d \in Sides |-> Clamped(bridge'.last[d])]
                        /\ bridge'.writeAge = Never <=> modbus'.age = Never
                        /\ bridge'.writeAge <= modbus'.age
    BY DEF CopiesAgree, Clamped
  <2>2. ~AtRegister("settle")
    BY <1>2, <2>1 DEF AtRegister
  <2>3. /\ modbus.limit = [d \in Sides |-> Clamped(bridge.last[d])]
        /\ bridge.writeAge = Never <=> modbus.age = Never
        /\ bridge.writeAge <= modbus.age
    BY <2>2 DEF IInv, CopiesAgree
  <2>4. AgedOnce(bridge.writeAge, Refresh) <= AgedOnce(modbus.age, Refresh)
    BY <1>3, <2>3, OlderMonotonic
  <2> QED BY <1>3, <1>4, <2>3, <2>4
<1> QED
  BY <1>2, <1>3, <1>4, <1>5, <1>6
     DEF IInv, RegistersAreOnePair, AcceptedCommandIsInForce, NeverForcedBothWays,
         WriterConsistent, RequesterConsistent, Clamped, ForcedMode

LEMMA RestartOK == IInv /\ Restart => IInv'
<1> SUFFICES ASSUME IInv, Restart PROVE IInv'
  OBVIOUS
<1>1. /\ bridge' = NewBridge
      /\ modbus' = NewModbus
      /\ writes' = <<>>
      /\ requests' = <<>>
      /\ UNCHANGED <<inverter, torn>>
  BY DEF Restart
<1>2. Zero \in Watts /\ \A d \in Sides : Clamped(0) = 0
  BY BridgeConstants DEF Zero, Watts, Clamped
<1>3. Never \in Ages
  BY DEF Ages
<1>4. BridgeTypeOK'
  BY <1>1, <1>2, <1>3 DEF IInv, BridgeTypeOK, NewBridge, NewModbus, NoCommand, Write, Request
<1>5. CopiesAgree'
  <2>1. [d \in Sides |-> Clamped(Zero[d])] = Zero
    BY <1>2 DEF Zero
  <2> QED
    BY <1>1, <2>1 DEF CopiesAgree, NewBridge, NewModbus, Never, Clamped
<1> QED
  BY <1>1, <1>4, <1>5
     DEF IInv, RegistersAreOnePair, AcceptedCommandIsInForce, NeverForcedBothWays,
         WriterConsistent, RequesterConsistent, NewModbus, NewBridge

LEMMA Stutters == IInv /\ UNCHANGED bridgeVars => IInv'
BY DEF IInv, bridgeVars, BridgeTypeOK, CopiesAgree, AtRegister, RegistersAreOnePair,
       AcceptedCommandIsInForce, NeverForcedBothWays, WriterConsistent,
       RequesterConsistent, Clamped, ForcedMode, Percent

LEMMA InvariantKept == IInv /\ [BridgeNext]_bridgeVars => IInv'
<1> SUFFICES ASSUME IInv, [BridgeNext]_bridgeVars PROVE IInv'
  OBVIOUS
<1>1. ASSUME NEW d \in Sides, NEW w \in SetpointWatts[d], Setpoint(d, w)
      PROVE  IInv'
  BY <1>1, SetpointOK
<1>2. CASE UNCHANGED bridgeVars
  BY <1>2, Stutters
<1> QED
  BY <1>1, <1>2, TakeLockOK, WriteChargeRegisterOK, WriteDischargeRegisterOK,
     SettledOK, WriteFailsOK, ChargePercentSentOK, DischargePercentSentOK,
     RequestFailsOK, PollOK, ReadAnswersOK, TickOK, RestartOK DEF BridgeNext

LEMMA Invariance == BridgeSpec => []IInv
<1>1. BridgeInit => IInv
  BY InitOK
<1>2. IInv /\ [BridgeNext]_bridgeVars => IInv'
  BY InvariantKept
<1> QED
  BY <1>1, <1>2, PTL DEF BridgeSpec

-----------------------------------------------------------------------------
(* Steps and the last command *)

\* What InStep says of the queue of requests q, the command accepted last and
\* the command wanted.
Commands(q) == {i \in DOMAIN q : q[i].command # Read}
LastIs(q, accepted, wanted) ==
    IF Commands(q) # {}
    THEN \A i \in Commands(q) :
           (\A j \in Commands(q) : j <= i) => q[i].command = wanted
    ELSE accepted = wanted

LEMMA InStepLast ==
    InStep <=> IF writes # <<>>
               THEN Selected(writes[Len(writes)].target) = Selected(bridge.target)
               ELSE LastIs(requests, bridge.command, Selected(bridge.target))
BY DEF InStep, LastIs, Commands, Pending

LEMMA InStepLastNext ==
    InStep' <=> IF writes' # <<>>
                THEN Selected(writes'[Len(writes')].target) = Selected(bridge'.target)
                ELSE LastIs(requests', bridge'.command, Selected(bridge'.target))
BY DEF InStep, LastIs, Commands, Pending, Selected

\* A command that joins the queue becomes the last one.
LEMMA LastAppended ==
    ASSUME NEW q \in Seq(Request), NEW c \in Command, NEW accepted,
           NEW r, r = Append(q, [command |-> c, second |-> FALSE])
    PROVE  LastIs(r, accepted, c)
<1> DEFINE x == [command |-> c, second |-> FALSE]
<1>1. x \in Request /\ x.command = c /\ c # Read
  BY CommandsDiffer DEF Request
<1> HIDE DEF x
<1>2. r = Append(q, x) /\ Len(r) = Len(q) + 1 /\ DOMAIN r = 1 .. Len(q) + 1
      /\ Len(q) \in Nat /\ r[Len(q) + 1] = x
  BY <1>1 DEF x
<1>3. Len(q) + 1 \in Commands(r)
  BY <1>1, <1>2 DEF Commands
<1>4. ASSUME NEW i \in Commands(r), \A j \in Commands(r) : j <= i
      PROVE  r[i].command = c
  <2>1. i \in 1 .. Len(q) + 1 /\ Len(q) + 1 <= i
    BY <1>2, <1>3, <1>4 DEF Commands
  <2>2. i = Len(q) + 1
    BY <1>2, <2>1
  <2> QED BY <1>1, <1>2, <2>2
<1> QED
  BY <1>3, <1>4 DEF LastIs

\* A poll that joins the queue is no command.
LEMMA LastPolled ==
    ASSUME NEW q \in Seq(Request), NEW accepted, NEW wanted,
           NEW r, r = Append(q, [command |-> Read, second |-> FALSE]),
           LastIs(q, accepted, wanted)
    PROVE  LastIs(r, accepted, wanted)
<1> DEFINE x == [command |-> Read, second |-> FALSE]
<1>1. x \in Request /\ x.command = Read
  BY DEF Request
<1> HIDE DEF x
<1>2. r = Append(q, x) /\ DOMAIN r = 1 .. Len(q) + 1 /\ Len(q) \in Nat
      /\ r[Len(q) + 1] = x /\ \A i \in 1 .. Len(q) : r[i] = q[i]
      /\ DOMAIN q = 1 .. Len(q)
  BY <1>1 DEF x
<1>3. Commands(r) = Commands(q) /\ \A i \in Commands(q) : r[i] = q[i]
  BY <1>1, <1>2 DEF Commands
<1> QED
  BY <1>3 DEF LastIs

\* The head leaves: a poll, or a command that has just been accepted.
LEMMA LastRemoved ==
    ASSUME NEW q \in Seq(Request), q # <<>>, NEW accepted, NEW now, NEW wanted,
           NEW r, r = Tail(q),
           Head(q).command = Read => now = accepted,
           Head(q).command # Read => now = Head(q).command,
           LastIs(q, accepted, wanted)
    PROVE  LastIs(r, now, wanted)
<1>1. /\ Len(q) \in Nat /\ DOMAIN q = 1 .. Len(q) /\ DOMAIN r = 1 .. Len(q) - 1
      /\ \A i \in 1 .. Len(q) - 1 : r[i] = q[i + 1]
      /\ 1 \in DOMAIN q /\ Head(q) = q[1]
  OBVIOUS
<1>2. \A i \in Commands(r) : i \in Nat /\ i + 1 \in Commands(q) /\ r[i] = q[i + 1]
  BY <1>1 DEF Commands
<1>3. \A k \in Commands(q) : k = 1 \/ (k \in Nat /\ k >= 2 /\ k - 1 \in Commands(r))
  BY <1>1 DEF Commands
<1>4. CASE Commands(r) # {}
  <2>1. Commands(q) # {}
    BY <1>2, <1>4
  <2>2. ASSUME NEW i \in Commands(r), \A j \in Commands(r) : j <= i
        PROVE  r[i].command = wanted
    <3>1. \A k \in Commands(q) : k <= i + 1
      BY <1>2, <1>3, <2>2
    <3> QED BY <1>2, <2>1, <2>2, <3>1 DEF LastIs
  <2> QED BY <1>4, <2>2 DEF LastIs
<1>5. CASE Commands(r) = {}
  <2>1. \A k \in Commands(q) : k = 1
    BY <1>3, <1>5
  <2>2. CASE Head(q).command = Read
    <3>1. Commands(q) = {}
      BY <1>1, <2>1, <2>2 DEF Commands
    <3> QED BY <1>5, <2>2, <3>1 DEF LastIs
  <2>3. CASE Head(q).command # Read
    <3>1. 1 \in Commands(q)
      BY <1>1, <2>3 DEF Commands
    <3>2. q[1].command = wanted
      BY <2>1, <3>1 DEF LastIs
    <3> QED BY <1>1, <1>5, <2>3, <3>2 DEF LastIs
  <2> QED BY <2>2, <2>3
<1> QED
  BY <1>4, <1>5

\* A coroutine goes on to its command while nobody waits for the registers: its
\* command is the last one, or it finds it accepted too early.
LEMMA RequestedLast ==
    ASSUME BridgeTypeOK, NEW t \in Watts, NEW r, r = Requested(t),
           ~(Pending # {} /\ Selected(t) = bridge.command /\ r = requests)
    PROVE  LastIs(r, bridge.command, Selected(t))
<1>1. requests \in Seq(Request) /\ Selected(t) \in Command
  BY SelectedCommand DEF BridgeTypeOK
<1>2. CASE Selected(t) = bridge.command /\ r = requests
  BY <1>2 DEF LastIs, Commands, Pending
<1>3. CASE r = Append(requests, [command |-> Selected(t), second |-> FALSE])
  BY <1>1, <1>3, LastAppended
<1> QED
  BY <1>2, <1>3 DEF Requested

\* Leaving the lock with others behind keeps the last one; the last one itself
\* goes on to its command.
LEMMA LeaveLockFollows ==
    ASSUME BridgeTypeOK, InStep, writes # <<>>, LeaveLock,
           bridge'.target = bridge.target, bridge'.command = bridge.command
    PROVE  InStep' \/ ComparesTooEarly
<1>1. /\ writes \in Seq(Write) /\ Len(writes) \in Nat /\ Len(writes) >= 1
      /\ Head(writes) = writes[1]
      /\ writes' = Tail(writes)
      /\ requests' = Requested(Head(writes).target)
  BY DEF BridgeTypeOK, LeaveLock
<1>2. Selected(writes[Len(writes)].target) = Selected(bridge.target)
  BY InStepLast
<1>3. CASE writes' # <<>>
  <2>1. Len(writes') = Len(writes) - 1 /\ Len(writes') >= 1
    BY <1>1, <1>3
  <2>2. writes'[Len(writes')] = writes[Len(writes)]
    BY <1>1, <2>1
  <2> QED BY <1>2, <1>3, <2>2, InStepLastNext
<1>4. CASE writes' = <<>>
  <2>a. Len(writes') = Len(writes) - 1
    BY <1>1
  <2>b. Len(writes') = 0
    BY <1>4
  <2>1. Len(writes) = 1
    BY <1>1, <2>a, <2>b
  <2>2. Head(writes).target \in Watts
    BY HeadWrite DEF Write
  <2>3. Selected(Head(writes).target) = Selected(bridge'.target)
    BY <1>1, <1>2, <2>1
  <2>4. CASE ComparesTooEarly
    BY <2>4
  <2>5. CASE ~ComparesTooEarly
    <3>1. LastIs(requests', bridge.command, Selected(Head(writes).target))
      BY <1>1, <1>4, <2>2, <2>3, <2>5, RequestedLast DEF ComparesTooEarly
    <3> QED BY <1>4, <2>3, <3>1, InStepLastNext
  <2> QED BY <2>4, <2>5
<1> QED
  BY <1>3, <1>4

\* The coroutine in the lock goes on in the code; nobody joins or leaves.
LEMMA HeadMovesFollows ==
    ASSUME BridgeTypeOK, InStep, writes # <<>>,
           NEW at \in {"lock", "charge", "discharge", "settle"},
           writes' = [writes EXCEPT ![1].at = at], UNCHANGED <<bridge, requests>>
    PROVE  InStep'
<1>1. /\ writes \in Seq(Write) /\ Len(writes) \in Nat /\ Len(writes) >= 1
      /\ 1 \in DOMAIN writes /\ writes[1] \in Write
  BY DEF BridgeTypeOK
<1>2. writes' # <<>> /\ Head(writes').target = Head(writes).target
  BY HeadMoves
<1> DEFINE h == [writes[1] EXCEPT !.at = at]
<1>3. h \in Write /\ h.target = writes[1].target /\ writes' = [writes EXCEPT ![1] = h]
  BY <1>1 DEF Write
<1> HIDE DEF h
<1>4. Len(writes') = Len(writes) /\ writes'[Len(writes)].target = writes[Len(writes)].target
  BY <1>1, <1>3
<1> QED
  BY <1>2, <1>4, InStepLast, InStepLastNext

\* Requests that move while the registers are left alone.
LEMMA RequestsFollow ==
    ASSUME InStep, UNCHANGED writes, bridge'.target = bridge.target,
           LastIs(requests, bridge.command, Selected(bridge.target)) =>
             LastIs(requests', bridge'.command, Selected(bridge.target))
    PROVE  InStep'
BY InStepLast, InStepLastNext

LEMMA SetpointFollows ==
    ASSUME BridgeTypeOK, InStep, NEW d \in Sides, NEW watts \in SetpointWatts[d],
           Setpoint(d, watts)
    PROVE  InStep' \/ LosesCommand
<1> DEFINE w == NotNegative(watts)
           t == Targets(d, w)
           changed == bridge.target[d] = 0 /\ w > 0
           x == [target |-> t, changed |-> changed,
                 at |-> IF writes = <<>> THEN "charge" ELSE "lock"]
<1>1. t \in Watts
  BY BridgeConstants, TargetsWatts DEF NotNegative
<1>2. x \in Write /\ x.target = t
  BY <1>1 DEF Write
<1>3. /\ bridge' = [bridge EXCEPT !.target = t]
      /\ \/ requests' = Requested(t) /\ writes' = writes
         \/ writes' = Append(writes, x) /\ requests' = requests
  BY DEF Setpoint
<1> HIDE DEF w, t, x, changed
<1>4. bridge'.target = t /\ bridge'.command = bridge.command
  BY <1>3 DEF BridgeTypeOK
<1>5. CASE writes' = Append(writes, x)
  <2>1. writes \in Seq(Write)
    BY DEF BridgeTypeOK
  <2>2. writes' # <<>> /\ writes'[Len(writes')] = x
    BY <1>2, <1>5, <2>1
  <2> QED BY <1>2, <1>4, <2>2, InStepLastNext
<1>6. CASE requests' = Requested(t) /\ writes' = writes
  <2>1. CASE writes # <<>>
    BY <1>4, <1>6, <2>1, InStepLast, InStepLastNext DEF LosesCommand, Overtakes
  <2>2. CASE writes = <<>>
    <3>1. CASE ComparesTooEarly
      BY <3>1 DEF LosesCommand
    <3>2. CASE ~ComparesTooEarly
      <4>1. LastIs(requests', bridge.command, Selected(t))
        BY <1>1, <1>4, <1>6, <2>2, <3>2, RequestedLast DEF ComparesTooEarly
      <4> QED BY <1>4, <1>6, <2>2, <4>1, InStepLastNext
    <3> QED BY <3>1, <3>2
  <2> QED BY <2>1, <2>2
<1> QED
  BY <1>3, <1>5, <1>6

LEMMA WritesFollow ==
    ASSUME BridgeTypeOK, InStep,
           \/ TakeLock \/ WriteChargeRegister \/ WriteDischargeRegister
           \/ Settled \/ WriteFails
    PROVE  InStep' \/ LosesCommand
<1>1. writes # <<>>
  BY DEF TakeLock, WriteChargeRegister, WriteDischargeRegister, Settled, WriteFails,
         AtRegister
<1>2. ASSUME LeaveLock, bridge'.target = bridge.target, bridge'.command = bridge.command
      PROVE  InStep' \/ LosesCommand
  BY <1>1, <1>2, LeaveLockFollows DEF LosesCommand
<1>3. CASE TakeLock
  <2>1. CASE LeaveLock
    BY <1>2, <1>3, <2>1 DEF TakeLock
  <2>2. CASE writes' = [writes EXCEPT ![1].at = "charge"] /\ UNCHANGED requests
    BY <1>1, <1>3, <2>2, HeadMovesFollows DEF TakeLock
  <2> QED BY <1>3, <2>1, <2>2 DEF TakeLock
<1>4. CASE WriteChargeRegister
  BY <1>1, <1>4, HeadMovesFollows DEF WriteChargeRegister
<1>5. CASE WriteDischargeRegister
  BY <1>1, <1>5, HeadMovesFollows DEF WriteDischargeRegister
<1>6. CASE Settled
  <2>1. bridge'.target = bridge.target /\ bridge'.command = bridge.command
    BY <1>6 DEF Settled, BridgeTypeOK
  <2> QED BY <1>2, <1>6, <2>1 DEF Settled
<1>7. CASE WriteFails
  BY <1>2, <1>7 DEF WriteFails
<1> QED
  BY <1>3, <1>4, <1>5, <1>6, <1>7

LEMMA ChargePercentSentFollows ==
    ASSUME BridgeTypeOK, InStep, ChargePercentSent
    PROVE  InStep'
<1>1. /\ requests \in Seq(Request) /\ 1 \in DOMAIN requests
      /\ requests[1] \in Request
      /\ requests' = [requests EXCEPT ![1].second = TRUE]
      /\ UNCHANGED <<bridge, writes>>
  BY DEF BridgeTypeOK, ChargePercentSent, InRequest
<1> DEFINE h == [requests[1] EXCEPT !.second = TRUE]
<1>2. requests' = [requests EXCEPT ![1] = h] /\ h.command = requests[1].command
      /\ h \in Request
  BY <1>1 DEF Request
<1> HIDE DEF h
<1>3. /\ DOMAIN requests' = DOMAIN requests
      /\ \A i \in DOMAIN requests : requests'[i].command = requests[i].command
  BY <1>1, <1>2
<1>4. Commands(requests') = Commands(requests)
  BY <1>3 DEF Commands
<1>5. \A i \in Commands(requests) : requests'[i].command = requests[i].command
  BY <1>3 DEF Commands
<1>6. LastIs(requests, bridge.command, Selected(bridge.target)) =>
        LastIs(requests', bridge'.command, Selected(bridge.target))
  BY <1>1, <1>4, <1>5 DEF LastIs
<1> QED
  BY <1>1, <1>6, RequestsFollow

\* A command is answered, or a poll is.
LEMMA AnswersFollow ==
    ASSUME BridgeTypeOK, InStep, DischargePercentSent \/ ReadAnswers
    PROVE  InStep'
<1>1. /\ requests \in Seq(Request) /\ requests # <<>>
      /\ requests' = Tail(requests)
      /\ UNCHANGED writes
  BY DEF BridgeTypeOK, DischargePercentSent, ReadAnswers, InRequest
<1>2. /\ bridge'.target = bridge.target
      /\ Head(requests).command = Read => bridge'.command = bridge.command
      /\ Head(requests).command # Read => bridge'.command = Head(requests).command
  <2>1. CASE DischargePercentSent
    BY <2>1 DEF BridgeTypeOK, DischargePercentSent, InRequest
  <2>2. CASE ReadAnswers
    BY <2>2 DEF BridgeTypeOK, ReadAnswers
  <2> QED BY <2>1, <2>2
<1>3. LastIs(requests, bridge.command, Selected(bridge.target)) =>
        LastIs(requests', bridge'.command, Selected(bridge.target))
  BY <1>1, <1>2, LastRemoved
<1> QED
  BY <1>1, <1>2, <1>3, RequestsFollow

LEMMA PollFollows ==
    ASSUME BridgeTypeOK, InStep, Poll
    PROVE  InStep'
<1>1. /\ requests \in Seq(Request)
      /\ requests' = Append(requests, [command |-> Read, second |-> FALSE])
      /\ UNCHANGED <<bridge, writes>>
  BY DEF BridgeTypeOK, Poll
<1>2. LastIs(requests, bridge.command, Selected(bridge.target)) =>
        LastIs(requests', bridge'.command, Selected(bridge.target))
  BY <1>1, LastPolled
<1> QED
  BY <1>1, <1>2, RequestsFollow

LEMMA StepFollows == BridgeTypeOK /\ InStep /\ [BridgeNext]_bridgeVars => InStep' \/ LosesCommand
<1> SUFFICES ASSUME BridgeTypeOK, InStep, [BridgeNext]_bridgeVars PROVE InStep' \/ LosesCommand
  OBVIOUS
<1>1. ASSUME NEW d \in Sides, NEW w \in SetpointWatts[d], Setpoint(d, w)
      PROVE  InStep' \/ LosesCommand
  BY <1>1, SetpointFollows
<1>2. CASE Tick
  <2>1. UNCHANGED <<writes, requests>> /\ bridge'.target = bridge.target
        /\ bridge'.command = bridge.command
    BY <1>2 DEF Tick, BridgeTypeOK
  <2> QED BY <2>1, RequestsFollow
<1>3. CASE UNCHANGED bridgeVars
  BY <1>3, RequestsFollow DEF bridgeVars
<1>4. CASE RequestFails \/ Restart
  BY <1>4 DEF LosesCommand
<1> QED
  BY <1>1, <1>2, <1>3, <1>4, WritesFollow, ChargePercentSentFollows, AnswersFollow,
     PollFollows DEF BridgeNext

-----------------------------------------------------------------------------
(* The theorems *)

\* The bridge, its backends and the coroutines at the two locks keep their
\* types, whatever fails and however many there are.
THEOREM BridgeInvariance == BridgeSpec => []BridgeTypeOK
<1>1. IInv => BridgeTypeOK
  BY DEF IInv
<1> QED
  BY <1>1, Invariance, PTL

\* The bridge's copy of the limits written last and its backend's are equal,
\* except during the settling pause.
THEOREM CopiesStayEqual == BridgeSpec => []CopiesAgree
<1>1. IInv => CopiesAgree
  BY DEF IInv
<1> QED
  BY <1>1, Invariance, PTL

\* The limit registers hold what one coroutine wrote.
THEOREM RegistersStayPaired == BridgeSpec => []RegistersAreOnePair
<1>1. IInv => RegistersAreOnePair
  BY DEF IInv
<1> QED
  BY <1>1, Invariance, PTL

\* _last_api_command is the command the device carries out.
THEOREM CommandStaysInForce == BridgeSpec => []AcceptedCommandIsInForce
<1>1. IInv => AcceptedCommandIsInForce
  BY DEF IInv
<1> QED
  BY <1>1, Invariance, PTL

\* Charge and discharge are forced together only around an unfinished pair of
\* requests.
THEOREM OneWayForced == BridgeSpec => []NeverForcedBothWays
<1>1. IInv => NeverForcedBothWays
  BY DEF IInv
<1> QED
  BY <1>1, Invariance, PTL

\* The coroutines in any order carry the last targets out, except where a
\* command is lost: the bridge's command under way, or accepted last, is the one
\* the targets ask for, and stays so.
THEOREM LostOnlyThere == BridgeSpec => CommandsFollowTargets
<1>1. BridgeTypeOK /\ [BridgeNext]_bridgeVars => [InStep => InStep' \/ LosesCommand]_bridgeVars
  BY StepFollows
<1> QED
  BY <1>1, BridgeInvariance, PTL DEF BridgeSpec, CommandsFollowTargets

=============================================================================
