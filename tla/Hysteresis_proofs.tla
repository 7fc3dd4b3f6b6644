------------------------- MODULE Hysteresis_proofs -------------------------
(* Theorems about Hysteresis, for every threshold and every duration.       *)
EXTENDS Hysteresis, HysteresisFsm_proofs

\* The start timer of each direction.
StartAge(f, d) == IF d = "CHARGING" THEN f.chargeAge ELSE f.dischargeAge

\* The inductive invariant.  Beyond the type and FsmInv it says what the
\* timers mean: a start timer is no older than the run of evaluated samples
\* that asked for its direction, and the part of a cooldown that has run is
\* no longer than the time since it began.
IInv ==
    /\ TypeOK
    /\ FsmInv(fsm)
    /\ \A d \in Directions : StartAge(fsm, d) <= evaluated[d]
    /\ fsm.state = "COOLDOWN" =>
         rested[fsm.direction] + fsm.cooldownLeft >= Cooldown

\* The parts of the invariant that only concern the record.
LEMMA IInvFsm == IInv => FsmOK(fsm)
BY DEF IInv, TypeOK, FsmOK

\* Two values of a timer that are ordered stay ordered when both grow.
LEMMA OlderMonotonic ==
    ASSUME NEW limit \in Nat,
           NEW a \in Unset .. limit, NEW b \in Unset .. limit, a <= b
    PROVE  Older(a, limit) <= Older(b, limit)
BY DEF Older, Unset

-----------------------------------------------------------------------------
(* What a tick does to the start timers *)

\* After an evaluated sample a start timer that is set belongs to a run the
\* sample extends, and it was at most started by it.
LEMMA TickedStartAge ==
    ASSUME NEW f, FsmOK(f), NEW s \in Int, NEW d \in Directions,
           Ticked(f, s).mode = "none"
    PROVE  \/ StartAge(Ticked(f, s), d) = Unset
           \/ Asks(s)[d] /\ StartAge(Ticked(f, s), d) = Started(StartAge(f, d))
<1> DEFINE g == Resumed(f)
<1>1. /\ FsmOK(g)
      /\ g.chargeAge = f.chargeAge
      /\ g.dischargeAge = f.dischargeAge
  BY ResumedOK DEF FsmOK, Fsm, Resumed, Cleared
<1>2. g \in Fsm /\ FsmInv(g)
  BY <1>1 DEF FsmOK
<1> HIDE DEF g
<1>3. \A h \in Fsm : \A t \in States :
         Entered(h, t).chargeAge = Unset /\ Entered(h, t).dischargeAge = Unset
  BY EnteredFields
<1>4. ASSUME g.state = "IDLE"
      PROVE  \/ StartAge(TickedIdle(g, s), d) = Unset
             \/ Asks(s)[d] /\ StartAge(TickedIdle(g, s), d) = Started(StartAge(g, d))
  BY <1>2, <1>3, <1>4, ThresholdsAreWatts
     DEF TickedIdle, StartAge, Asks, Fsm, States, Directions
<1>5. ASSUME g.state = "COOLDOWN"
      PROVE  \/ StartAge(TickedCooldown(g, s), d) = Unset
             \/ Asks(s)[d] /\ StartAge(TickedCooldown(g, s), d) = Started(StartAge(g, d))
  <2>1. Entered(g, "IDLE") \in Fsm
    BY <1>2, EnteredFields DEF States
  <2>2. StartAge(Reevaluated(Entered(g, "IDLE"), s), d) = Unset
    BY <1>3, <2>1 DEF Reevaluated, StartAge, States
  <2>3. \/ StartAge(Bypassed(g, s), d) = Unset
        \/ Asks(s)[d] /\ StartAge(Bypassed(g, s), d) = Started(StartAge(g, d))
    BY <1>2, <1>3, <1>5, ThresholdsAreWatts
       DEF Bypassed, StartAge, Asks, Fsm, FsmInv, States, Directions
  <2> QED
    BY <2>2, <2>3 DEF TickedCooldown
<1>6. ASSUME g.state \in Directions, NEW stop \in BOOLEAN
      PROVE  StartAge(TickedActive(g, stop), d) = Unset
  <2>1. g.chargeAge = Unset /\ g.dischargeAge = Unset
    BY <1>2, <1>6 DEF FsmInv, Directions
  <2>2. StartAge(CoolingDown(g), d) = Unset
    BY <1>2, <1>6, CoolingDownFields DEF StartAge
  <2>3. \A a : StartAge([g EXCEPT !.stopAge = a], d) = Unset
    BY <1>2, <2>1 DEF StartAge, Fsm
  <2> QED
    BY <2>2, <2>3 DEF TickedActive
<1>7. \/ StartAge(Evaluated(g, s), d) = Unset
      \/ Asks(s)[d] /\ StartAge(Evaluated(g, s), d) = Started(StartAge(g, d))
  <2>1. g.state \in States
    BY <1>2 DEF Fsm
  <2>2. (s < StopW) \in BOOLEAN /\ (s > DischargeStopW) \in BOOLEAN
    OBVIOUS
  <2> QED
    BY <1>4, <1>5, <1>6, <2>1, <2>2 DEF Evaluated, States, Directions
<1>8. Ticked(f, s) = Evaluated(g, s)
  BY DEF Ticked, g
<1> QED
  BY <1>1, <1>7, <1>8 DEF StartAge

\* No sample sets or clears an override by itself.
LEMMA EvaluatedMode ==
    ASSUME NEW g, FsmOK(g), NEW s \in Int
    PROVE  Evaluated(g, s).mode = g.mode
<1>1. g \in Fsm /\ FsmInv(g)
  BY DEF FsmOK
<1>2. \A h \in Fsm : \A t \in States : Entered(h, t).mode = h.mode
  BY EnteredFields
<1>3. TickedIdle(g, s).mode = g.mode
  BY <1>1, <1>2 DEF TickedIdle, Fsm, States
<1>4. TickedCooldown(g, s).mode = g.mode
  <2>1. Entered(g, "IDLE") \in Fsm /\ Entered(g, "IDLE").mode = g.mode
    BY <1>1, EnteredFields DEF States
  <2>2. Reevaluated(Entered(g, "IDLE"), s).mode = g.mode
    BY <1>2, <2>1 DEF Reevaluated, States
  <2>3. Bypassed(g, s).mode = g.mode
    BY <1>1, <1>2 DEF Bypassed, Fsm, States
  <2> QED
    BY <2>2, <2>3 DEF TickedCooldown
<1>5. ASSUME g.state \in Directions, NEW stop \in BOOLEAN
      PROVE  TickedActive(g, stop).mode = g.mode
  <2>1. CoolingDown(g).mode = g.mode
    BY <1>1, <1>5, CoolingDownFields
  <2>2. \A a : [g EXCEPT !.stopAge = a].mode = g.mode
    BY <1>1 DEF Fsm
  <2> QED
    BY <2>1, <2>2 DEF TickedActive
<1>6. g.state \in States /\ (s < StopW) \in BOOLEAN /\ (s > DischargeStopW) \in BOOLEAN
  BY <1>1 DEF Fsm
<1> QED
  BY <1>3, <1>4, <1>5, <1>6 DEF Evaluated, States, Directions

\* A tick that an override blocks changes nothing.
LEMMA BlockedTick ==
    ASSUME NEW f, FsmOK(f), NEW s \in Int, Ticked(f, s).mode # "none"
    PROVE  Ticked(f, s) = f
<1>1. FsmOK(Resumed(f))
  BY ResumedOK
<1>2. Evaluated(Resumed(f), s).mode = Resumed(f).mode
  BY <1>1, EvaluatedMode
<1>3. Ticked(f, s) = Resumed(f) /\ Resumed(f).mode # "none"
  BY <1>2 DEF Ticked
<1> QED
  BY <1>3 DEF Resumed, Cleared, FsmOK, Fsm

\* What it takes to start direction d: from IDLE, or while the opposite
\* direction's cooldown runs, a timer of full age; from a cooldown of d itself,
\* its end.
LEMMA TickedStart ==
    ASSUME NEW f, FsmOK(f), NEW s \in Int, NEW d \in Directions,
           f.state # d, Ticked(f, s).state = d
    PROVE  /\ Ticked(f, s).mode = "none"
           /\ f.state \in {"IDLE", "COOLDOWN"}
           /\ f.state = "IDLE" \/ f.cooldownLeft > 0 =>
                Asks(s)[d] /\ Sustained(StartAge(f, d), StartDuration)
           /\ f.state = "COOLDOWN" /\ f.direction = d => f.cooldownLeft = 0
<1> DEFINE g == Resumed(f)
<1>1. /\ FsmOK(g)
      /\ g.state = f.state
      /\ g.direction = f.direction
      /\ g.cooldownLeft = f.cooldownLeft
      /\ StartAge(g, d) = StartAge(f, d)
  BY ResumedOK DEF FsmOK, Fsm, Resumed, Cleared, StartAge
<1>2. g \in Fsm /\ FsmInv(g)
  BY <1>1 DEF FsmOK
<1>3. Ticked(f, s) = Evaluated(g, s) /\ g.mode = "none"
  BY <1>1 DEF Ticked
<1> HIDE DEF g
<1>4. Ticked(f, s).mode = "none"
  BY <1>1, <1>3, EvaluatedMode
<1>5. \A h \in Fsm : \A t \in States : Entered(h, t).state = t
  BY EnteredFields
<1>6. CASE g.state = "IDLE"
  <2>1. Ticked(f, s) = TickedIdle(g, s)
    BY <1>3, <1>6 DEF Evaluated
  <2>2. Asks(s)[d] /\ Sustained(StartAge(g, d), StartDuration)
    BY <1>1, <1>2, <1>5, <1>6, <2>1, ThresholdsAreWatts
       DEF TickedIdle, StartAge, Asks, Fsm, States, Directions
  <2> QED
    BY <1>1, <1>4, <1>6, <2>2
<1>7. CASE g.state = "COOLDOWN"
  <2>1. Ticked(f, s) = TickedCooldown(g, s)
    BY <1>3, <1>7 DEF Evaluated
  <2>2. CASE g.cooldownLeft = 0
    BY <1>1, <1>4, <1>7, <2>2
  <2>3. CASE g.cooldownLeft # 0
    <3>1. Ticked(f, s) = Bypassed(g, s)
      BY <2>1, <2>3 DEF TickedCooldown
    <3>2. /\ g.direction # d
          /\ Asks(s)[d] /\ Sustained(StartAge(g, d), StartDuration)
      BY <1>1, <1>2, <1>5, <1>7, <3>1, ThresholdsAreWatts
         DEF Bypassed, StartAge, Asks, Fsm, States, Directions
    <3> QED
      BY <1>1, <1>4, <1>7, <3>2
  <2> QED
    BY <2>2, <2>3
<1>8. CASE g.state \in Directions
  <2>1. CoolingDown(g).state = "COOLDOWN"
    BY <1>2, <1>8, CoolingDownFields
  <2>2. \A a : [g EXCEPT !.stopAge = a].state = g.state
    BY <1>2 DEF Fsm
  <2>3. \A stop \in BOOLEAN : TickedActive(g, stop).state \in {"COOLDOWN", g.state}
    BY <2>1, <2>2 DEF TickedActive
  <2>4. (s < StopW) \in BOOLEAN /\ (s > DischargeStopW) \in BOOLEAN
    OBVIOUS
  <2>5. Ticked(f, s).state \in {"COOLDOWN", g.state}
    BY <1>3, <1>8, <2>3, <2>4 DEF Evaluated, Directions
  <2> QED
    BY <1>1, <2>5 DEF Directions
<1> QED
  BY <1>1, <1>2, <1>6, <1>7, <1>8 DEF Fsm, States, Directions

\* How a tick can leave the controller in COOLDOWN: it just stopped a
\* direction, or it was cooling down already and the cooldown goes on.
LEMMA TickedIntoCooldown ==
    ASSUME NEW f, FsmOK(f), NEW s \in Int, Ticked(f, s).state = "COOLDOWN"
    PROVE  \/ /\ f.state \in Directions
              /\ Ticked(f, s).direction = f.state
              /\ Ticked(f, s).cooldownLeft = Cooldown
           \/ /\ f.state = "COOLDOWN"
              /\ Ticked(f, s).direction = f.direction
              /\ Ticked(f, s).cooldownLeft = f.cooldownLeft
<1> DEFINE g == Resumed(f)
<1>1. /\ FsmOK(g)
      /\ g.state = f.state
      /\ g.direction = f.direction
      /\ g.cooldownLeft = f.cooldownLeft
  BY ResumedOK DEF FsmOK, Fsm, Resumed, Cleared
<1>2. g \in Fsm /\ FsmInv(g)
  BY <1>1 DEF FsmOK
<1>3. CASE g.mode # "none"
  BY <1>1, <1>2, <1>3 DEF Ticked, FsmInv, Fsm, States, Directions
<1>4. CASE g.mode = "none"
  <2>1. Ticked(f, s) = Evaluated(g, s)
    BY <1>4 DEF Ticked
  <2> HIDE DEF g
  <2>2. \A h \in Fsm : \A t \in States : Entered(h, t).state = t
    BY EnteredFields
  <2>3. CASE g.state = "IDLE"
    BY <1>2, <2>1, <2>2, <2>3 DEF Evaluated, TickedIdle, Fsm, States
  <2>4. CASE g.state = "COOLDOWN"
    <3>1. Entered(g, "IDLE") \in Fsm
      BY <1>2, EnteredFields DEF States
    <3>2. Reevaluated(Entered(g, "IDLE"), s).state # "COOLDOWN"
      BY <2>2, <3>1 DEF Reevaluated, States
    <3>3. Ticked(f, s) = Bypassed(g, s)
      BY <2>1, <2>4, <3>2 DEF Evaluated, TickedCooldown
    <3>4. Bypassed(g, s).direction = g.direction /\ Bypassed(g, s).cooldownLeft = g.cooldownLeft
      BY <1>2, <2>2, <3>3 DEF Bypassed, Fsm, States
    <3> QED
      BY <1>1, <2>4, <3>3, <3>4
  <2>5. CASE g.state \in Directions
    <3>1. /\ CoolingDown(g).direction = g.state
          /\ CoolingDown(g).cooldownLeft = Cooldown
      BY <1>2, <2>5, CoolingDownFields
    <3>2. \A a : [g EXCEPT !.stopAge = a].state = g.state
      BY <1>2 DEF Fsm
    <3>3. \A stop \in BOOLEAN :
            TickedActive(g, stop).state = "COOLDOWN" => TickedActive(g, stop) = CoolingDown(g)
      BY <2>5, <3>2 DEF TickedActive, Directions
    <3>4. (s < StopW) \in BOOLEAN /\ (s > DischargeStopW) \in BOOLEAN
      OBVIOUS
    <3>5. Ticked(f, s) = CoolingDown(g)
      BY <2>1, <2>5, <3>3, <3>4 DEF Evaluated, Directions
    <3> QED
      BY <1>1, <2>5, <3>1, <3>5
  <2> QED
    BY <1>2, <2>3, <2>4, <2>5 DEF Fsm, States, Directions
<1> QED
  BY <1>3, <1>4

-----------------------------------------------------------------------------
(* The invariant is inductive *)

\* It holds of a new controller.
LEMMA InitIInv == Init => IInv
<1> SUFFICES ASSUME Init PROVE IInv
  OBVIOUS
<1>1. FsmOK(NewFsm)
  BY NewFsmOK
<1>2. Unset \in Unset .. StartDuration /\ Unset \in Unset .. Cooldown
  BY DurationsAreNaturals DEF Unset
<1>3. \A d \in Directions : StartAge(NewFsm, d) = Unset /\ NoRun[d] = Unset
  BY DEF StartAge, NewFsm, NoRun
<1>4. NewFsm.state # "COOLDOWN"
  BY DEF NewFsm
<1>5. TypeOK
  BY <1>1, <1>2 DEF Init, TypeOK, FsmOK, NoRun
<1>6. \A d \in Directions : StartAge(fsm, d) <= evaluated[d]
  BY <1>3 DEF Init, Unset
<1> QED
  BY <1>1, <1>4, <1>5, <1>6 DEF Init, IInv, FsmOK

\* A sample keeps it.
LEMMA SampleIInv ==
    ASSUME IInv, NEW surplus \in Surpluses, Sample(surplus)
    PROVE  IInv'
<1>1. FsmOK(fsm) /\ surplus \in Int /\ fsm' = Ticked(fsm, surplus)
  BY IInvFsm, SurplusesAreWatts DEF Sample
<1>2. FsmOK(fsm')
  BY <1>1, TickedOK
<1>3. /\ StartDuration \in Nat /\ Cooldown \in Nat
      /\ evaluated \in [Directions -> Unset .. StartDuration]
      /\ reported \in [Directions -> Unset .. StartDuration]
      /\ rested \in [Directions -> Unset .. Cooldown]
  BY DurationsAreNaturals DEF IInv, TypeOK
<1>4. \A run \in [Directions -> Unset .. StartDuration] :
        Extended(run, surplus) \in [Directions -> Unset .. StartDuration]
  BY <1>3, TimerRange DEF Extended, Unset
<1>5. TypeOK'
  <2>1. rested' \in [Directions -> Unset .. Cooldown]
    BY <1>3 DEF Sample, Unset
  <2> QED
    BY <1>2, <1>3, <1>4, <2>1 DEF TypeOK, Sample, FsmOK
<1>6. ASSUME NEW d \in Directions
      PROVE  StartAge(fsm', d) <= evaluated'[d]
  <2>1. CASE fsm'.mode # "none"
    <3>1. fsm' = fsm /\ evaluated' = evaluated
      BY <1>1, <2>1, BlockedTick DEF Sample
    <3> QED
      BY <3>1 DEF IInv
  <2>2. CASE fsm'.mode = "none"
    <3>1. evaluated'[d] = IF Asks(surplus)[d] THEN Started(evaluated[d]) ELSE Unset
      BY <2>2 DEF Sample, Extended
    <3>2. \/ StartAge(fsm', d) = Unset
          \/ Asks(surplus)[d] /\ StartAge(fsm', d) = Started(StartAge(fsm, d))
      BY <1>1, <2>2, TickedStartAge
    <3>3. StartAge(fsm, d) \in Unset .. StartDuration /\ StartAge(fsm, d) <= evaluated[d]
      BY <1>1 DEF IInv, FsmOK, Fsm, StartAge
    <3>4. Started(StartAge(fsm, d)) <= Started(evaluated[d])
      BY <1>3, <3>3 DEF Started, Unset
    <3>5. evaluated[d] \in Unset .. StartDuration
      BY <1>3
    <3> QED
      BY <1>3, <3>1, <3>2, <3>4, <3>5 DEF Started, Unset
  <2> QED
    BY <2>1, <2>2
<1>7. ASSUME fsm'.state = "COOLDOWN"
      PROVE  rested'[fsm'.direction] + fsm'.cooldownLeft >= Cooldown
  <2>1. CASE /\ fsm.state \in Directions
             /\ fsm'.direction = fsm.state
             /\ fsm'.cooldownLeft = Cooldown
    <3>1. rested'[fsm'.direction] = 0
      BY <1>7, <2>1 DEF Sample
    <3> QED
      BY <1>3, <2>1, <3>1
  <2>2. CASE /\ fsm.state = "COOLDOWN"
             /\ fsm'.direction = fsm.direction
             /\ fsm'.cooldownLeft = fsm.cooldownLeft
    <3>1. fsm.direction \in Directions
      BY <1>1, <2>2 DEF FsmOK, FsmInv, Fsm
    <3>2. rested'[fsm'.direction] = rested[fsm.direction]
      BY <2>2, <3>1 DEF Sample, Directions
    <3> QED
      BY <2>2, <3>2 DEF IInv
  <2> QED
    BY <1>1, <1>7, <2>1, <2>2, TickedIntoCooldown
<1> QED
  BY <1>2, <1>5, <1>6, <1>7 DEF IInv, FsmOK

\* Setting an override keeps it.
LEMMA SetOverrideIInv ==
    ASSUME IInv, NEW mode \in Modes, NEW pause \in Pauses, SetOverride(mode, pause)
    PROVE  IInv'
<1>1. FsmOK(fsm) /\ fsm' = Overridden(fsm, mode, pause)
  BY IInvFsm DEF SetOverride
<1>2. FsmOK(fsm')
  BY <1>1, OverriddenOK
<1> DEFINE g == [fsm EXCEPT !.mode = mode,
                            !.pauseLeft = IF mode = "pause" THEN pause ELSE Unset]
<1>3. /\ g \in Fsm
      /\ g.chargeAge = fsm.chargeAge
      /\ g.dischargeAge = fsm.dischargeAge
      /\ g.state = fsm.state
      /\ g.direction = fsm.direction
      /\ g.cooldownLeft = fsm.cooldownLeft
  BY <1>1, PausesAreLengths DEF FsmOK, Fsm, PauseLengths
<1>4. fsm' = g \/ fsm' = Entered(g, "IDLE")
  BY <1>1 DEF Overridden
<1> HIDE DEF g
<1>5. \A d \in Directions : StartAge(fsm', d) \in {Unset, StartAge(fsm, d)}
  BY <1>3, <1>4, EnteredFields DEF StartAge, States
<1>6. fsm'.state = "COOLDOWN" =>
        /\ fsm.state = "COOLDOWN"
        /\ fsm'.direction = fsm.direction
        /\ fsm'.cooldownLeft = fsm.cooldownLeft
  BY <1>3, <1>4, EnteredFields DEF States
<1>7. \A d \in Directions : Unset <= evaluated[d]
  BY DurationsAreNaturals DEF IInv, TypeOK, Unset
<1> QED
  BY <1>2, <1>5, <1>6, <1>7 DEF IInv, TypeOK, FsmOK, SetOverride, history

\* Clearing an override keeps it.
LEMMA ClearOverrideIInv ==
    ASSUME IInv, ClearOverride
    PROVE  IInv'
<1>1. FsmOK(fsm) /\ fsm' = Cleared(fsm)
  BY IInvFsm DEF ClearOverride
<1>2. FsmOK(fsm')
  BY <1>1, ResumedOK
<1>3. /\ fsm'.chargeAge = fsm.chargeAge
      /\ fsm'.dischargeAge = fsm.dischargeAge
      /\ fsm'.state = fsm.state
      /\ fsm'.direction = fsm.direction
      /\ fsm'.cooldownLeft = fsm.cooldownLeft
  BY <1>1 DEF Cleared, FsmOK, Fsm
<1> QED
  BY <1>2, <1>3 DEF IInv, TypeOK, FsmOK, StartAge, ClearOverride, history

\* The clock keeps it.
LEMMA ElapseIInv ==
    ASSUME IInv, Elapse
    PROVE  IInv'
<1>1. FsmOK(fsm) /\ fsm' = Aged(fsm) /\ FsmOK(fsm')
  BY IInvFsm, AgedOK DEF Elapse
<1>2. /\ StartDuration \in Nat /\ Cooldown \in Nat
      /\ evaluated \in [Directions -> Unset .. StartDuration]
      /\ reported \in [Directions -> Unset .. StartDuration]
      /\ rested \in [Directions -> Unset .. Cooldown]
  BY DurationsAreNaturals DEF IInv, TypeOK
<1>3. TypeOK'
  BY <1>1, <1>2, TimerRange DEF TypeOK, Elapse, FsmOK
<1>4. ASSUME NEW d \in Directions
      PROVE  StartAge(fsm', d) <= evaluated'[d]
  <2>1. StartAge(fsm', d) = Older(StartAge(fsm, d), StartDuration)
    BY <1>1 DEF Aged, StartAge, FsmOK, Fsm
  <2>2. StartAge(fsm, d) \in Unset .. StartDuration /\ StartAge(fsm, d) <= evaluated[d]
    BY <1>1 DEF IInv, FsmOK, Fsm, StartAge
  <2>3. evaluated'[d] = Older(evaluated[d], StartDuration)
    BY DEF Elapse
  <2> QED
    BY <1>2, <2>1, <2>2, <2>3, OlderMonotonic
<1>5. ASSUME fsm'.state = "COOLDOWN"
      PROVE  rested'[fsm'.direction] + fsm'.cooldownLeft >= Cooldown
  <2> DEFINE d == fsm.direction
             left == fsm.cooldownLeft
  <2>1. /\ fsm.state = "COOLDOWN"
        /\ fsm'.direction = d
        /\ fsm'.cooldownLeft = Nearer(left)
    BY <1>1, <1>5 DEF Aged, FsmOK, Fsm
  <2>2. d \in Directions /\ left \in 0 .. Cooldown
    BY <1>1, <1>2, <2>1 DEF FsmOK, FsmInv, Fsm, Unset
  <2>3. rested'[d] = Older(rested[d], Cooldown) /\ rested[d] \in Unset .. Cooldown
    BY <1>2, <2>2 DEF Elapse
  <2>4. rested[d] + left >= Cooldown
    BY <2>1 DEF IInv
  <2> HIDE DEF d, left
  <2> QED
    BY <1>2, <2>1, <2>2, <2>3, <2>4 DEF Older, Nearer, Unset
<1> QED
  BY <1>1, <1>3, <1>4, <1>5 DEF IInv, FsmOK

\* Every step keeps it.
LEMMA NextIInv == IInv /\ [Next]_vars => IInv'
<1> SUFFICES ASSUME IInv, [Next]_vars PROVE IInv'
  OBVIOUS
<1>1. CASE AnySample
  BY <1>1, SampleIInv DEF AnySample
<1>2. CASE \E mode \in Modes, pause \in Pauses : SetOverride(mode, pause)
  BY <1>2, SetOverrideIInv
<1>3. CASE ClearOverride
  BY <1>3, ClearOverrideIInv
<1>4. CASE Elapse
  BY <1>4, ElapseIInv
<1>5. CASE UNCHANGED vars
  BY <1>5 DEF IInv, TypeOK, vars
<1> QED
  BY <1>1, <1>2, <1>3, <1>4, <1>5 DEF Next

\* The invariant holds in every reachable state.
THEOREM Invariance == Spec => []IInv
BY InitIInv, NextIInv, PTL DEF Spec

-----------------------------------------------------------------------------
(* The properties of the runs *)

\* The fields of the controller and the histories stay in their types.
THEOREM TypeCorrect == Spec => []TypeOK
<1>1. IInv => TypeOK
  BY DEF IInv
<1> QED
  BY <1>1, Invariance, PTL

\* Every transition of HysteresisController leaves the timers in agreement
\* with the state; in particular a COOLDOWN always has an end.
THEOREM TimersAgree == Spec => []TimersMatchState
<1>1. IInv => TimersMatchState
  BY DEF IInv, TimersMatchState
<1> QED
  BY <1>1, Invariance, PTL

\* Only a sample starts a direction.
LEMMA StartIsSample ==
    ASSUME IInv, [Next]_vars, NEW d \in Directions, Start(d)
    PROVE  \E surplus \in Surpluses : Sample(surplus)
<1>1. FsmOK(fsm)
  BY IInvFsm
<1>2. ASSUME NEW mode \in Modes, NEW pause \in Pauses, SetOverride(mode, pause)
      PROVE  fsm'.state \in {fsm.state, "IDLE"}
  <2> DEFINE g == [fsm EXCEPT !.mode = mode,
                              !.pauseLeft = IF mode = "pause" THEN pause ELSE Unset]
  <2>1. g \in Fsm /\ g.state = fsm.state
    BY <1>1, PausesAreLengths DEF FsmOK, Fsm, PauseLengths
  <2>2. fsm' = g \/ fsm' = Entered(g, "IDLE")
    BY <1>2 DEF SetOverride, Overridden
  <2> HIDE DEF g
  <2> QED
    BY <2>1, <2>2, EnteredFields DEF States
<1>3. ClearOverride => fsm'.state = fsm.state
  BY <1>1 DEF ClearOverride, Cleared, FsmOK, Fsm
<1>4. Elapse => fsm'.state = fsm.state
  BY <1>1 DEF Elapse, Aged, FsmOK, Fsm
<1>5. UNCHANGED vars => fsm'.state = fsm.state
  BY DEF vars
<1> QED
  BY <1>2, <1>3, <1>4, <1>5 DEF Next, AnySample, Start, Directions

\* A direction starts only after samples that asked for it during the whole
\* start duration, unless its way in is the end of a cooldown.
THEOREM SustainedStarts == Spec => StartsAreSustained
<1>1. ASSUME IInv, [Next]_vars, NEW d \in Directions,
             Start(d), fsm.state = "IDLE" \/ fsm.cooldownLeft > 0
      PROVE  evaluated'[d] = StartDuration
  <2>1. PICK surplus \in Surpluses : Sample(surplus)
    BY <1>1, StartIsSample
  <2>2. FsmOK(fsm) /\ surplus \in Int /\ fsm' = Ticked(fsm, surplus)
    BY <1>1, <2>1, IInvFsm, SurplusesAreWatts DEF Sample
  <2>3. /\ fsm'.mode = "none"
        /\ Asks(surplus)[d]
        /\ Sustained(StartAge(fsm, d), StartDuration)
    BY <1>1, <2>2, TickedStart DEF Start
  <2>4. evaluated'[d] = Started(evaluated[d])
    BY <2>1, <2>3 DEF Sample, Extended
  <2>5. /\ StartAge(fsm, d) \in Unset .. StartDuration
        /\ StartAge(fsm, d) <= evaluated[d]
        /\ evaluated[d] \in Unset .. StartDuration
    BY <1>1, <2>2 DEF IInv, TypeOK, FsmOK, Fsm, StartAge
  <2> QED
    BY <2>3, <2>4, <2>5, DurationsAreNaturals DEF Sustained, Started, Unset
<1>2. IInv /\ [Next]_vars =>
        [\A d \in Directions :
           Start(d) /\ (fsm.state = "IDLE" \/ fsm.cooldownLeft > 0)
              => evaluated'[d] = StartDuration]_vars
  BY <1>1
<1> QED
  BY <1>2, Invariance, PTL DEF Spec, StartsAreSustained

\* A direction rests for the whole cooldown that its own stop began.
THEOREM RestsBeforeRestart == Spec => NoRestartWhileResting
<1>1. ASSUME IInv, [Next]_vars, NEW d \in Directions,
             Start(d), fsm.state = "COOLDOWN", fsm.direction = d
      PROVE  rested[d] = Cooldown
  <2>1. PICK surplus \in Surpluses : Sample(surplus)
    BY <1>1, StartIsSample
  <2>2. FsmOK(fsm) /\ surplus \in Int /\ fsm' = Ticked(fsm, surplus)
    BY <1>1, <2>1, IInvFsm, SurplusesAreWatts DEF Sample
  <2>3. fsm.cooldownLeft = 0
    BY <1>1, <2>2, TickedStart DEF Start
  <2>4. rested[d] \in Unset .. Cooldown /\ rested[d] + fsm.cooldownLeft >= Cooldown
    BY <1>1 DEF IInv, TypeOK
  <2> QED
    BY <2>3, <2>4, DurationsAreNaturals DEF Unset
<1>2. IInv /\ [Next]_vars =>
        [\A d \in Directions :
           Start(d) /\ fsm.state = "COOLDOWN" /\ fsm.direction = d
              => rested[d] = Cooldown]_vars
  BY <1>1
<1> QED
  BY <1>2, Invariance, PTL DEF Spec, NoRestartWhileResting

\* Charging and discharging exclude each other across every single step.
THEOREM NeverReverses == Spec => NoDirectReversal
<1>1. ASSUME IInv, [Next]_vars, fsm.state \in Directions,
             fsm'.state \in Directions, fsm.state # fsm'.state
      PROVE  FALSE
  <2>1. PICK surplus \in Surpluses : Sample(surplus)
    BY <1>1, StartIsSample DEF Start
  <2>2. FsmOK(fsm) /\ surplus \in Int /\ fsm' = Ticked(fsm, surplus)
    BY <1>1, <2>1, IInvFsm, SurplusesAreWatts DEF Sample
  <2>3. fsm.state \in {"IDLE", "COOLDOWN"}
    BY <1>1, <2>2, TickedStart
  <2> QED
    BY <1>1, <2>3 DEF Directions
<1>2. IInv /\ [Next]_vars =>
        [~(fsm.state \in Directions /\ fsm'.state \in Directions
             /\ fsm.state # fsm'.state)]_vars
  BY <1>1
<1> QED
  BY <1>2, Invariance, PTL DEF Spec, NoDirectReversal
=============================================================================
