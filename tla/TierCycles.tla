---------------------------- MODULE TierCycles ----------------------------
(***************************************************************************)
(* TierManager with a history variable: how many request cycles began since*)
(* the entity last fell asleep.  wake_lease_until_cycle and                *)
(* sleep_cooldown_until_cycle are two absolute cycle numbers written and   *)
(* read on different sides of wake_cycle_id += 1; the history counts the   *)
(* cycles themselves.                                                      *)
(***************************************************************************)
EXTENDS TierManager

VARIABLE sinceSleep

\* Counted up to the shortest time between two sleeps the policy allows.
ShortestPeriod == LeaseCycles + CooldownCycles + 1

FallsAsleep(e) == tier[e].effective = COLD /\ tier'[e].effective = DORMANT

CountCycles ==
    sinceSleep' = [e \in Entities |->
        IF e \notin tracked' THEN ShortestPeriod
        ELSE IF FallsAsleep(e) THEN 0
        ELSE IF ~cycleOpen /\ cycleOpen'
             THEN MinOf(sinceSleep[e] + 1, ShortestPeriod)
        ELSE sinceSleep[e]]

CyclesInit == Init /\ sinceSleep = [e \in Entities |-> ShortestPeriod]

CyclesSpec == CyclesInit /\ [][Next /\ CountCycles]_<<vars, sinceSleep>>

\* An entity that is never used does not flap between T0 and T1: from one sleep
\* to the next it has waited out the cooldown and held its lease, whatever the
\* requests select and the shadow searches find.
NoSleepWakeThrash ==
    [][\A e \in Entities \ used :
          FallsAsleep(e) => sinceSleep[e] >= ShortestPeriod]_<<vars, sinceSleep>>
=============================================================================
