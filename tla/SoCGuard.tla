------------------------------ MODULE SoCGuard ------------------------------
(***************************************************************************)
(* The guard every setpoint of strategy v2 passes last                     *)
(* (strategy/v2/soc_guard.py): a silent bridge or a low voltage stops the  *)
(* battery; a battery at its floor is not discharged and one at its        *)
(* ceiling not charged, until it has left the limit by the band.           *)
(*                                                                         *)
(*   g  what the guard remembers: [dischargeBlocked, chargeBlocked]        *)
(***************************************************************************)
EXTENDS StrategyExecutor

NothingBlocked == [dischargeBlocked |-> FALSE, chargeBlocked |-> FALSE]

\* A bridge that never sent a heartbeat is not stale.
BridgeStale(s, st, now) == st.lastSeen # Never /\ now - st.lastSeen > s.staleAfter

Stopped(s, st, now) == BridgeStale(s, st, now) \/ st.voltageLow

Held(g, s, st, floor, ceiling) ==
    [g EXCEPT !.dischargeBlocked = Latched(@, st.soc <= floor, st.soc >= floor + s.socBand),
              !.chargeBlocked = Latched(@, st.soc >= ceiling, st.soc <= ceiling - s.socBand)]

\* The SoC hold is skipped for an exempt override and before the first SoC.
GuardMemory(g, s, st, floor, ceiling, now, skip) ==
    IF Stopped(s, st, now) \/ skip \/ st.soc = Unknown THEN g
    ELSE Held(g, s, st, floor, ceiling)

HoldsBack(g, w) == (g.dischargeBlocked /\ w < 0) \/ (g.chargeBlocked /\ w > 0)

\* Mutants: an exempt override passes a stopped bridge, and no SoC hold.
GuardedExemptFirst(g, s, st, floor, ceiling, now, skip, w) ==
    IF skip \/ st.soc = Unknown THEN w
    ELSE IF Stopped(s, st, now) \/ HoldsBack(Held(g, s, st, floor, ceiling), w) THEN 0 ELSE w

GuardedUnheld(g, s, st, floor, ceiling, now, skip, w) == IF Stopped(s, st, now) THEN 0 ELSE w

Guarded(g, s, st, floor, ceiling, now, skip, w) ==
    IF Stopped(s, st, now) THEN 0
    ELSE IF skip \/ st.soc = Unknown THEN w
    ELSE IF HoldsBack(Held(g, s, st, floor, ceiling), w) THEN 0 ELSE w
=============================================================================
