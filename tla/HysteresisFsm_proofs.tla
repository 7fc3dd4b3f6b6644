------------------------ MODULE HysteresisFsm_proofs ------------------------
(* Lemmas about the operators of HysteresisFsm: each keeps the record in    *)
(* its type and in FsmInv.                                                  *)
EXTENDS HysteresisFsm, TLAPS

FsmOK(f) == f \in Fsm /\ FsmInv(f)

\* A timer that is started or grows stays within its range.
LEMMA TimerRange ==
    ASSUME NEW limit \in Nat, NEW age \in Unset .. limit
    PROVE  /\ Older(age, limit) \in Unset .. limit
           /\ Started(age) \in 0 .. limit
           /\ Older(age, limit) = Unset <=> age = Unset
           /\ Nearer(age) \in Unset .. limit
           /\ Nearer(age) = Unset <=> age = Unset
BY DEF Older, Started, Nearer, Unset

\* A pause that runs down stays a pause length, and only an unset one is unset.
LEMMA PauseRange ==
    ASSUME NEW left \in PauseLengths
    PROVE  /\ left \in Int
           /\ Nearer(left) \in PauseLengths
           /\ Nearer(left) = Unset <=> left = Unset
<1>1. CASE left = Unset
  BY <1>1 DEF Nearer, Unset, PauseLengths
<1>2. CASE left # Unset
  <2>1. PICK d \in PauseDurations : left \in 0 .. d
    BY <1>2 DEF PauseLengths
  <2>2. d \in Nat
    BY DurationsAreNaturals
  <2>3. Nearer(left) \in 0 .. d
    BY <2>1, <2>2 DEF Nearer
  <2>4. 0 .. d \subseteq PauseLengths
    BY <2>1 DEF PauseLengths
  <2> QED
    BY <2>1, <2>2, <2>3, <2>4 DEF Unset
<1> QED
  BY <1>1, <1>2

\* Every pause that can be asked for is a pause length.
LEMMA PausesAreLengths == Pauses \subseteq PauseLengths
<1> SUFFICES ASSUME NEW p \in PauseDurations
             PROVE  p \in PauseLengths
  BY DEF Pauses, PauseLengths
<1>1. p \in 0 .. p
  BY DurationsAreNaturals
<1> QED
  BY <1>1 DEF PauseLengths

\* A controller just built is well formed.
LEMMA NewFsmOK == FsmOK(NewFsm)
BY DurationsAreNaturals
   DEF FsmOK, Fsm, FsmInv, NewFsm, Unset, States, Directions, NoDirection, Modes, PauseLengths

\* Time keeps a well-formed record well formed.
LEMMA AgedOK ==
    ASSUME NEW f, FsmOK(f)
    PROVE  FsmOK(Aged(f))
<1>1. /\ f \in Fsm
      /\ FsmInv(f)
  BY DEF FsmOK
<1>2. /\ StartDuration \in Nat /\ StopDuration \in Nat /\ Cooldown \in Nat
      /\ f.chargeAge \in Unset .. StartDuration
      /\ f.dischargeAge \in Unset .. StartDuration
      /\ f.stopAge \in Unset .. StopDuration
      /\ f.cooldownLeft \in Unset .. Cooldown
      /\ f.pauseLeft \in PauseLengths
  BY <1>1, DurationsAreNaturals DEF Fsm
<1>3. Aged(f) \in Fsm
  BY <1>1, <1>2, TimerRange, PauseRange DEF Aged, Fsm
<1>4. /\ Aged(f).chargeAge = Unset <=> f.chargeAge = Unset
      /\ Aged(f).dischargeAge = Unset <=> f.dischargeAge = Unset
      /\ Aged(f).stopAge = Unset <=> f.stopAge = Unset
      /\ Aged(f).cooldownLeft = Unset <=> f.cooldownLeft = Unset
      /\ Aged(f).pauseLeft = Unset <=> f.pauseLeft = Unset
      /\ Aged(f).state = f.state
      /\ Aged(f).direction = f.direction
      /\ Aged(f).mode = f.mode
  BY <1>1, <1>2, TimerRange, PauseRange DEF Aged, Fsm
<1> QED
  BY <1>1, <1>3, <1>4 DEF FsmOK, FsmInv

\* What a transition leaves in every field.
LEMMA EnteredFields ==
    ASSUME NEW f \in Fsm, NEW s \in States
    PROVE  /\ Entered(f, s) \in Fsm
           /\ Entered(f, s).state = s
           /\ Entered(f, s).chargeAge = Unset
           /\ Entered(f, s).dischargeAge = Unset
           /\ Entered(f, s).stopAge = Unset
           /\ Entered(f, s).cooldownLeft = f.cooldownLeft
           /\ Entered(f, s).direction = IF s = "COOLDOWN" THEN f.direction ELSE NoDirection
           /\ Entered(f, s).mode = f.mode
           /\ Entered(f, s).pauseLeft = f.pauseLeft
<1>1. Unset \in Unset .. StartDuration /\ Unset \in Unset .. StopDuration
  BY DurationsAreNaturals DEF Unset
<1> QED
  BY <1>1 DEF Fsm, Entered

\* A transition to a state other than COOLDOWN, from any record of the type
\* whose pause is in order.
LEMMA EnteredOK ==
    ASSUME NEW f \in Fsm, NEW s \in States \ {"COOLDOWN"},
           f.pauseLeft # Unset => f.mode = "pause"
    PROVE  FsmOK(Entered(f, s)) /\ Entered(f, s).state = s
BY EnteredFields DEF FsmOK, FsmInv, States

\* What the transition into a cooldown leaves in every field.
LEMMA CoolingDownFields ==
    ASSUME NEW f \in Fsm, f.state \in Directions
    PROVE  /\ CoolingDown(f) \in Fsm
           /\ CoolingDown(f).state = "COOLDOWN"
           /\ CoolingDown(f).chargeAge = Unset
           /\ CoolingDown(f).dischargeAge = Unset
           /\ CoolingDown(f).stopAge = Unset
           /\ CoolingDown(f).cooldownLeft = Cooldown
           /\ CoolingDown(f).direction = f.state
           /\ CoolingDown(f).mode = f.mode
           /\ CoolingDown(f).pauseLeft = f.pauseLeft
<1> DEFINE g == [f EXCEPT !.cooldownLeft = Cooldown, !.direction = f.state]
<1>1. Cooldown \in Unset .. Cooldown
  BY DurationsAreNaturals DEF Unset
<1>2. /\ g \in Fsm
      /\ g.cooldownLeft = Cooldown
      /\ g.direction = f.state
      /\ g.mode = f.mode
      /\ g.pauseLeft = f.pauseLeft
  BY <1>1 DEF Fsm
<1> HIDE DEF g
<1> QED
  BY <1>2, EnteredFields DEF CoolingDown, g, States

\* The transition into a cooldown.
LEMMA CoolingDownOK ==
    ASSUME NEW f, FsmOK(f), f.state \in Directions
    PROVE  FsmOK(CoolingDown(f))
<1>1. Cooldown # Unset
  BY DurationsAreNaturals DEF Unset
<1> QED
  BY <1>1, CoolingDownFields DEF FsmOK, FsmInv, Directions, NoDirection

\* Setting the start timers alone keeps the record well formed when the state
\* is one that may have them.
LEMMA TimersSet ==
    ASSUME NEW f, FsmOK(f), NEW age \in 0 .. StartDuration
    PROVE  /\ FsmOK([f EXCEPT !.chargeAge = Unset, !.dischargeAge = Unset])
           /\ f.state = "IDLE" =>
                /\ FsmOK([f EXCEPT !.chargeAge = age, !.dischargeAge = Unset])
                /\ FsmOK([f EXCEPT !.dischargeAge = age, !.chargeAge = Unset])
           /\ f.state = "COOLDOWN" /\ f.direction = "DISCHARGING" =>
                FsmOK([f EXCEPT !.chargeAge = age])
           /\ f.state = "COOLDOWN" /\ f.direction = "CHARGING" =>
                FsmOK([f EXCEPT !.dischargeAge = age])
<1>1. f \in Fsm /\ FsmInv(f)
  BY DEF FsmOK
<1>2. Unset \in Unset .. StartDuration /\ age \in Unset .. StartDuration
  BY DurationsAreNaturals DEF Unset
<1>3. FsmOK([f EXCEPT !.chargeAge = Unset, !.dischargeAge = Unset])
  BY <1>1, <1>2 DEF FsmOK, Fsm, FsmInv
<1>4. ASSUME f.state = "IDLE"
      PROVE  /\ FsmOK([f EXCEPT !.chargeAge = age, !.dischargeAge = Unset])
             /\ FsmOK([f EXCEPT !.dischargeAge = age, !.chargeAge = Unset])
  BY <1>1, <1>2, <1>4 DEF FsmOK, Fsm, FsmInv
<1>5. ASSUME f.state = "COOLDOWN", f.direction = "DISCHARGING"
      PROVE  FsmOK([f EXCEPT !.chargeAge = age])
  BY <1>1, <1>2, <1>5 DEF FsmOK, Fsm, FsmInv
<1>6. ASSUME f.state = "COOLDOWN", f.direction = "CHARGING"
      PROVE  FsmOK([f EXCEPT !.dischargeAge = age])
  BY <1>1, <1>2, <1>6 DEF FsmOK, Fsm, FsmInv
<1> QED
  BY <1>3, <1>4, <1>5, <1>6

\* A sample in IDLE: starting a timer always stops the other one.
LEMMA TickedIdleOK ==
    ASSUME NEW f, FsmOK(f), f.state = "IDLE", NEW surplus \in Int
    PROVE  FsmOK(TickedIdle(f, surplus))
<1>1. /\ FsmOK(Entered(f, "CHARGING"))
      /\ FsmOK(Entered(f, "DISCHARGING"))
  BY EnteredOK DEF FsmOK, FsmInv, States
<1>2. f \in Fsm /\ FsmInv(f)
  BY DEF FsmOK
<1>3. /\ Started(f.chargeAge) \in 0 .. StartDuration
      /\ Started(f.dischargeAge) \in 0 .. StartDuration
  BY <1>2, DurationsAreNaturals, TimerRange DEF Fsm
<1>4. /\ FsmOK([f EXCEPT !.chargeAge = Started(@), !.dischargeAge = Unset])
      /\ FsmOK([f EXCEPT !.dischargeAge = Started(@), !.chargeAge = Unset])
      /\ FsmOK([f EXCEPT !.chargeAge = Unset, !.dischargeAge = Unset])
  BY <1>2, <1>3, TimersSet
<1> QED
  BY <1>1, <1>4 DEF TickedIdle

\* A sample in a running cooldown: only the timer of the direction that is not
\* cooling down is ever started.
LEMMA BypassedOK ==
    ASSUME NEW f, FsmOK(f), f.state = "COOLDOWN", NEW surplus \in Int
    PROVE  FsmOK(Bypassed(f, surplus))
<1>1. /\ FsmOK(Entered(f, "CHARGING"))
      /\ FsmOK(Entered(f, "DISCHARGING"))
  BY EnteredOK DEF FsmOK, FsmInv, States
<1>2. f \in Fsm /\ FsmInv(f)
  BY DEF FsmOK
<1>3. /\ Started(f.chargeAge) \in 0 .. StartDuration
      /\ Started(f.dischargeAge) \in 0 .. StartDuration
  BY <1>2, DurationsAreNaturals, TimerRange DEF Fsm
<1>4. /\ f.direction = "DISCHARGING" => FsmOK([f EXCEPT !.chargeAge = Started(@)])
      /\ f.direction = "CHARGING" => FsmOK([f EXCEPT !.dischargeAge = Started(@)])
      /\ FsmOK([f EXCEPT !.chargeAge = Unset, !.dischargeAge = Unset])
  BY <1>2, <1>3, TimersSet
<1> QED
  BY <1>1, <1>4 DEF Bypassed

\* A sample in COOLDOWN, over or not.
LEMMA TickedCooldownOK ==
    ASSUME NEW f, FsmOK(f), f.state = "COOLDOWN", NEW surplus \in Int
    PROVE  FsmOK(TickedCooldown(f, surplus))
<1> DEFINE g == Entered(f, "IDLE")
<1>1. FsmOK(g)
  BY EnteredOK DEF FsmOK, FsmInv, States
<1>2. \A s \in States \ {"COOLDOWN"} : FsmOK(Entered(g, s))
  BY <1>1, EnteredOK DEF FsmOK, FsmInv
<1>3. FsmOK(Reevaluated(g, surplus))
  BY <1>2 DEF Reevaluated, States
<1> QED
  BY <1>3, BypassedOK DEF TickedCooldown

\* A sample while charging or discharging.
LEMMA TickedActiveOK ==
    ASSUME NEW f, FsmOK(f), f.state \in Directions, NEW mustStop \in BOOLEAN
    PROVE  FsmOK(TickedActive(f, mustStop))
<1>1. f \in Fsm /\ FsmInv(f)
  BY DEF FsmOK
<1>2. Started(f.stopAge) \in 0 .. StopDuration
  BY <1>1, DurationsAreNaturals, TimerRange DEF Fsm
<1>3. /\ FsmOK([f EXCEPT !.stopAge = Unset])
      /\ FsmOK([f EXCEPT !.stopAge = Started(@)])
  BY <1>1, <1>2, DurationsAreNaturals DEF FsmOK, Fsm, FsmInv, Unset
<1> QED
  BY <1>3, CoolingDownOK DEF TickedActive

\* Clearing an override, and the pause a tick finds expired.
LEMMA ResumedOK ==
    ASSUME NEW f, FsmOK(f)
    PROVE  FsmOK(Cleared(f)) /\ FsmOK(Resumed(f)) /\ Resumed(f).state = f.state
BY DEF FsmOK, Fsm, FsmInv, Resumed, Cleared, Modes, PauseLengths

\* The whole tick, with and without an override.
LEMMA TickedOK ==
    ASSUME NEW f, FsmOK(f), NEW surplus \in Int
    PROVE  FsmOK(Ticked(f, surplus))
<1> DEFINE g == Resumed(f)
<1>1. FsmOK(g)
  BY ResumedOK
<1>2. g.state \in States
  BY <1>1 DEF FsmOK, Fsm
<1>3. (surplus < StopW) \in BOOLEAN /\ (surplus > DischargeStopW) \in BOOLEAN
  OBVIOUS
<1>4. FsmOK(Evaluated(g, surplus))
  <2>1. CASE g.state = "IDLE"
    BY <1>1, <2>1, TickedIdleOK DEF Evaluated
  <2>2. CASE g.state = "COOLDOWN"
    BY <1>1, <2>2, TickedCooldownOK DEF Evaluated
  <2>3. CASE g.state = "CHARGING"
    BY <1>1, <1>3, <2>3, TickedActiveOK DEF Evaluated, Directions
  <2>4. CASE g.state = "DISCHARGING"
    BY <1>1, <1>3, <2>4, TickedActiveOK DEF Evaluated, Directions
  <2> QED
    BY <1>2, <2>1, <2>2, <2>3, <2>4 DEF States
<1> QED
  BY <1>1, <1>4 DEF Ticked

\* An override, whatever the state it finds.
LEMMA OverriddenOK ==
    ASSUME NEW f, FsmOK(f), NEW mode \in Modes, NEW pause \in Pauses
    PROVE  FsmOK(Overridden(f, mode, pause))
<1> DEFINE g == [f EXCEPT !.mode = mode,
                          !.pauseLeft = IF mode = "pause" THEN pause ELSE Unset]
<1>1. pause \in PauseLengths /\ Unset \in PauseLengths
  BY PausesAreLengths DEF PauseLengths
<1>2. FsmOK(g)
  BY <1>1 DEF FsmOK, Fsm, FsmInv
<1> HIDE DEF g
<1>3. FsmOK(Entered(g, "IDLE"))
  BY <1>2, EnteredOK DEF FsmOK, FsmInv, States
<1> QED
  BY <1>2, <1>3 DEF Overridden, g

\* The direct writes of control/main.py.
LEMMA ForcedOK ==
    ASSUME NEW f, FsmOK(f), NEW s \in {"IDLE", "DISCHARGING"}
    PROVE  FsmOK(Forced(f, s))
<1>1. FsmOK(Entered(f, s)) /\ Entered(f, s).state = s
  BY EnteredOK DEF FsmOK, FsmInv, States
<1> QED
  BY <1>1, DurationsAreNaturals DEF Forced, FsmOK, Fsm, FsmInv, Unset
=============================================================================
