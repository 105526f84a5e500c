------------------------- MODULE TierManager_proofs -------------------------
(***************************************************************************)
(* Proofs about TierManager for every set of tools, skills and servers and *)
(* every clock and wake policy: types, the consistency of the tier fields, *)
(* that a successful use wins for tools, that a server asleep as a whole   *)
(* keeps its tools, and that nothing flaps between T0 and T1.              *)
(*                                                                         *)
(* The argument goes by states.  A calm state has nothing temporary about  *)
(* it; a use lifts a consistent state, every step of the clocks keeps it   *)
(* consistent, and at the end of an epoch each state is calm before the    *)
(* slow clock judges it: it was used and crystallized, or it was not used  *)
(* and so was never lifted.                                                *)
(*                                                                         *)
(* For sleep there are four kinds of step: a cycle begins, a search hits,  *)
(* tools are dropped, or something is recorded; the last kind neither puts *)
(* an entity to sleep nor wakes one, nor touches its lease and cooldown.   *)
(* The history of an entity is at least what its state says it has waited. *)
(***************************************************************************)
EXTENDS TierCycles, TLAPS

Calm(s) == /\ s.effective = s.stable
           /\ s.temp = NoTemp
           /\ s.overlap = NoOverlap

\* What a field of a state may hold.
LEMMA TierFields ==
    ASSUME NEW s \in TierState
    PROVE  /\ s = [stable |-> s.stable, effective |-> s.effective,
                   overlap |-> s.overlap, temp |-> s.temp,
                   lease |-> s.lease, cooldown |-> s.cooldown]
           /\ s.stable \in Tiers /\ s.effective \in Tiers
           /\ s.overlap \in Tiers \cup {NoOverlap}
           /\ s.temp \in NoTemp .. MaxOf(ToolPromotionTicks, SkillPromotionTicks)
           /\ s.lease \in NoLease .. LeaseCycles
           /\ s.cooldown \in -1 .. CooldownCycles
BY Zenon DEF TierState

\* Settling a state on a tier makes it calm, unless it keeps a deadline.
LEMMA SettledIsCalm ==
    ASSUME NEW s \in TierState, NEW t \in Tiers
    PROVE  /\ Settled(s, t, NoTemp) \in TierState
           /\ Calm(Settled(s, t, NoTemp))
           /\ Settled(s, t, NoTemp).stable = t
<1>1. NoTemp \in NoTemp .. MaxOf(ToolPromotionTicks, SkillPromotionTicks)
  BY ClockAssumption DEF NoTemp, MaxOf
<1> QED BY <1>1, TierFields DEF Settled, Calm, TierState

\* A calm state is consistent, whatever its tier.
LEMMA CalmIsConsistent ==
    ASSUME NEW s \in TierState, Calm(s)
    PROVE  Consistent(s)
BY TierFields DEF Calm, Consistent, Tiers, DORMANT, EXTRA_HOT

\* Conversely a consistent state that is not lifted is calm.
LEMMA UnliftedIsCalm ==
    ASSUME NEW s \in TierState, Consistent(s), ~(s.effective > s.stable)
    PROVE  Calm(s)
BY TierFields DEF Calm, Consistent, Tiers, DORMANT, EXTRA_HOT

\* Crystallizing leaves a calm state at HOT or better, never below its old tier.
LEMMA CrystallizedIsHot ==
    ASSUME NEW s \in TierState, Consistent(s)
    PROVE  /\ Crystallized(s) \in TierState
           /\ Calm(Crystallized(s))
           /\ Crystallized(s).stable >= HOT
           /\ Crystallized(s).stable >= s.effective
<1>1. s.stable \in 0 .. 4 /\ s.effective \in 0 .. 4
  BY TierFields DEF Tiers, DORMANT, EXTRA_HOT
<1>2. MaxOf(s.effective, HOT) \in Tiers /\ MaxOf(s.effective, HOT) >= HOT
      /\ MaxOf(s.effective, HOT) >= s.effective
  BY <1>1 DEF MaxOf, HOT, Tiers, DORMANT, EXTRA_HOT
<1>3. s.stable \in Tiers
  BY TierFields
<1>4. s.stable >= HOT => s.stable >= s.effective
  BY <1>1 DEF Consistent, HOT
<1> QED BY <1>2, <1>3, <1>4, SettledIsCalm DEF Crystallized

\* Expiry keeps a state consistent and lifts nothing; what was used keeps its
\* effective tier.
LEMMA ExpiredIsConsistent ==
    ASSUME NEW s \in TierState, Consistent(s), NEW wasUsed \in BOOLEAN
    PROVE  /\ Expired(s, wasUsed) \in TierState
           /\ Consistent(Expired(s, wasUsed))
           /\ Expired(s, wasUsed).effective > Expired(s, wasUsed).stable
                => s.effective > s.stable
           /\ wasUsed => Expired(s, wasUsed).effective = s.effective
<1>1. s.stable \in Tiers /\ s.effective \in Tiers
  BY TierFields
<1>2. CASE s.temp = 0 /\ s.effective # s.stable
  <2> DEFINE t == IF wasUsed /\ s.effective > s.stable THEN s.effective
                                                      ELSE s.stable
  <2>1. t \in Tiers /\ (wasUsed => t = s.effective)
    BY <1>1, <1>2 DEF Consistent, Tiers, DORMANT, EXTRA_HOT
  <2>2. Expired(s, wasUsed) = Settled(s, t, NoTemp)
    BY <1>2 DEF Expired
  <2>3. /\ Expired(s, wasUsed) \in TierState /\ Calm(Expired(s, wasUsed))
        /\ Expired(s, wasUsed).stable = t
    BY <2>1, <2>2, SettledIsCalm
  <2>4. Consistent(Expired(s, wasUsed))
    BY <2>3, CalmIsConsistent
  <2> QED BY <2>1, <2>3, <2>4 DEF Calm, Tiers, DORMANT, EXTRA_HOT
<1>3. CASE ~(s.temp = 0 /\ s.effective # s.stable)
  BY <1>3 DEF Expired
<1> QED BY <1>2, <1>3

\* A calm state stays calm whatever the verdict.
LEMMA JudgedIsCalm ==
    ASSUME NEW s \in TierState, Calm(s), NEW t \in Tiers
    PROVE  Judged(s, t) \in TierState /\ Calm(Judged(s, t)) /\ Judged(s, t).stable = t
<1>1. CASE t = s.stable
  BY <1>1 DEF Judged
<1>2. CASE t # s.stable
  <2>1. Judged(s, t) = Settled(s, t, NoTemp)
    BY <1>2 DEF Judged, Calm
  <2> QED BY <2>1, SettledIsCalm
<1> QED BY <1>1, <1>2

\* A use leaves a consistent state awake and not below its old tier.
LEMMA FastPromotedIsAwake ==
    ASSUME NEW s \in TierState, Consistent(s), NEW e \in Tools \cup Skills
    PROVE  /\ FastPromoted(e, s) \in TierState
           /\ Consistent(FastPromoted(e, s))
           /\ FastPromoted(e, s).effective >= s.effective
           /\ FastPromoted(e, s).effective >= ACTIVE
<1>1. s.stable \in 0 .. 4 /\ s.effective \in 0 .. 4 /\ s.temp \in Int
  BY TierFields, ClockAssumption DEF Tiers, DORMANT, EXTRA_HOT, NoTemp, MaxOf
<1>2. /\ PromotionTicks(e) \in NoTemp .. MaxOf(ToolPromotionTicks, SkillPromotionTicks)
      /\ PromotionTicks(e) \in Nat \ {0}
      /\ NoTemp \in NoTemp .. MaxOf(ToolPromotionTicks, SkillPromotionTicks)
  BY ClockAssumption DEF PromotionTicks, NoTemp, MaxOf
<1>3. CASE s.stable >= HOT
  <2>1. s.effective = s.stable
    BY <1>1, <1>3 DEF Consistent, HOT
  <2>2. FastPromoted(e, s) =
          [stable |-> s.stable, effective |-> s.stable, overlap |-> NoOverlap,
           temp |-> NoTemp, lease |-> s.lease, cooldown |-> s.cooldown]
    BY <1>1, <1>3, <2>1 DEF FastPromoted, MaxOf
  <2>3. FastPromoted(e, s) \in TierState
    BY <1>2, <2>2, TierFields DEF TierState
  <2> QED BY <1>1, <1>3, <2>1, <2>2, <2>3 DEF Consistent, HOT, ACTIVE
<1>4. CASE ~(s.stable >= HOT) /\ s.effective >= HOT
  BY <1>1, <1>4 DEF FastPromoted, HOT, ACTIVE
<1>5. CASE ~(s.stable >= HOT) /\ ~(s.effective >= HOT)
  <2> DEFINE eff == IF s.effective >= COLD THEN HOT ELSE ACTIVE
             ovl == IF s.effective >= COLD THEN s.stable ELSE s.overlap
  <2>1. FastPromoted(e, s) =
          [stable |-> s.stable, effective |-> eff, overlap |-> ovl,
           temp |-> PromotionTicks(e), lease |-> s.lease, cooldown |-> s.cooldown]
    BY <1>5 DEF FastPromoted
  <2>2. eff \in Tiers /\ ovl \in Tiers \cup {NoOverlap}
    BY TierFields DEF Tiers, DORMANT, HOT, ACTIVE, EXTRA_HOT
  <2>3. FastPromoted(e, s) \in TierState
    BY <1>2, <2>1, <2>2, TierFields DEF TierState
  <2>4. eff > s.stable /\ eff >= s.effective /\ eff >= ACTIVE /\ eff <= HOT
    BY <1>1, <1>5 DEF Consistent, HOT, ACTIVE, COLD
  <2>5. ovl # NoOverlap => ovl = s.stable
    BY DEF Consistent
  <2>6. /\ FastPromoted(e, s).stable = s.stable
        /\ FastPromoted(e, s).effective = eff
        /\ FastPromoted(e, s).overlap = ovl
        /\ FastPromoted(e, s).temp = PromotionTicks(e)
    BY <2>1
  <2>7. eff \in 0 .. 4
    BY <2>2 DEF Tiers, DORMANT, EXTRA_HOT
  <2> HIDE DEF eff, ovl
  <2>8. Consistent(FastPromoted(e, s))
    BY <1>1, <1>2, <2>4, <2>5, <2>6, <2>7 DEF Consistent, NoTemp
  <2> QED BY <2>3, <2>4, <2>6, <2>8
<1> QED BY <1>3, <1>4, <1>5

\* The fast sleep leaves what is past COLD alone, and a calm state calm.
LEMMA FastSleptIsCalm ==
    ASSUME NEW s \in TierState, NEW e
    PROVE  /\ FastSlept(e, s) \in TierState
           /\ s.effective # COLD => FastSlept(e, s) = s
           /\ Calm(s) => Calm(FastSlept(e, s))
<1>1. CASE s.effective # COLD \/ s.lease >= 0
  BY <1>1 DEF FastSlept
<1>2. CASE s.effective = COLD /\ ~(s.lease >= 0) /\ e \in active \cup uwi
  <2>2. FastSlept(e, s) = IF s.lease = NoLease THEN s
                                               ELSE WithCycles(s, LeaseCycles, s.cooldown)
    BY <1>2 DEF FastSlept
  <2>3. LeaseCycles \in NoLease .. LeaseCycles
    BY ClockAssumption DEF NoLease
  <2>4. WithCycles(s, LeaseCycles, s.cooldown) \in TierState
    BY <2>3, TierFields DEF WithCycles, TierState
  <2>5. Calm(s) => Calm(WithCycles(s, LeaseCycles, s.cooldown))
    BY DEF Calm, WithCycles
  <2> QED BY <1>2, <2>2, <2>4, <2>5
<1>3. CASE s.effective = COLD /\ ~(s.lease >= 0) /\ e \notin active \cup uwi
  <2>1. FastSlept(e, s) =
          [stable |-> DORMANT, effective |-> DORMANT, overlap |-> s.overlap,
           temp |-> s.temp, lease |-> NoLease, cooldown |-> CooldownCycles]
    BY <1>3 DEF FastSlept
  <2>2. /\ DORMANT \in Tiers /\ NoLease \in NoLease .. LeaseCycles
        /\ CooldownCycles \in -1 .. CooldownCycles
    BY ClockAssumption DEF Tiers, DORMANT, EXTRA_HOT, NoLease
  <2>3. FastSlept(e, s) \in TierState
    BY <2>1, <2>2, TierFields DEF TierState
  <2> QED BY <1>3, <2>1, <2>3 DEF Calm
<1> QED BY <1>1, <1>2, <1>3

\* Counting a cycle touches the lease and the cooldown only.
LEMMA NextCycleKeepsTiers ==
    ASSUME NEW s \in TierState
    PROVE  /\ NextCycle(s) \in TierState
           /\ NextCycle(s).effective = s.effective /\ NextCycle(s).stable = s.stable
           /\ NextCycle(s).temp = s.temp /\ NextCycle(s).overlap = s.overlap
<1> DEFINE lse == IF s.lease = NoLease THEN NoLease ELSE MaxOf(s.lease - 1, -1)
           cool == MaxOf(s.cooldown - 1, -1)
<1>1. lse \in NoLease .. LeaseCycles /\ cool \in -1 .. CooldownCycles
  BY TierFields, ClockAssumption DEF NoLease, MaxOf
<1>2. NextCycle(s) =
        [stable |-> s.stable, effective |-> s.effective, overlap |-> s.overlap,
         temp |-> s.temp, lease |-> lse, cooldown |-> cool]
  BY DEF NextCycle, WithCycles
<1>3. NextCycle(s) \in TierState
  BY <1>1, <1>2, TierFields DEF TierState
<1> QED BY <1>2, <1>3

\* Waking leaves a calm state calm.
LEMMA WokenIsCalm ==
    ASSUME NEW s \in TierState, Calm(s)
    PROVE  Woken(s) \in TierState /\ Calm(Woken(s))
<1>1. COLD \in Tiers /\ LeaseCycles \in NoLease .. LeaseCycles
  BY ClockAssumption DEF COLD, Tiers, DORMANT, EXTRA_HOT, NoLease
<1>2. Woken(s) \in TierState
  BY <1>1, TierFields DEF Woken, TierState
<1> QED BY <1>2 DEF Woken, Calm

\* A fresh record is calm.
LEMMA AtIsCalm ==
    ASSUME NEW t \in Tiers
    PROVE  At(t) \in TierState /\ Calm(At(t)) /\ At(t).effective = t
<1>1. /\ NoTemp \in NoTemp .. MaxOf(ToolPromotionTicks, SkillPromotionTicks)
      /\ NoLease \in NoLease .. LeaseCycles /\ -1 \in -1 .. CooldownCycles
  BY ClockAssumption DEF NoTemp, NoLease, MaxOf
<1> QED BY <1>1 DEF At, Calm, TierState

\* A tick moves a running deadline and nothing else.
LEMMA TickedIsConsistent ==
    ASSUME NEW s \in TierState, Consistent(s)
    PROVE  /\ Ticked(s) \in TierState /\ Consistent(Ticked(s))
           /\ Ticked(s).effective = s.effective /\ Ticked(s).stable = s.stable
<1> DEFINE left == IF s.temp > 0 THEN s.temp - 1 ELSE s.temp
<1>1. /\ left \in NoTemp .. MaxOf(ToolPromotionTicks, SkillPromotionTicks)
      /\ left = NoTemp <=> s.temp = NoTemp
  BY TierFields, ClockAssumption DEF NoTemp, MaxOf
<1>2. Ticked(s) =
        [stable |-> s.stable, effective |-> s.effective, overlap |-> s.overlap,
         temp |-> left, lease |-> s.lease, cooldown |-> s.cooldown]
  BY DEF Ticked
<1>3. Ticked(s) \in TierState
  BY <1>1, <1>2, TierFields DEF TierState
<1> QED BY <1>1, <1>2, <1>3 DEF Consistent

-----------------------------------------------------------------------------
(* The slow clock.                                                         *)

\* The tiers `t' a handler hands to Touch, with the successes of the epoch:
\* whatever is lifted was used.
Liftable(t, success) ==
    /\ t \in [Entities -> TierState]
    /\ \A e \in Entities :
          /\ Consistent(t[e])
          /\ t[e].effective > t[e].stable => e \in success

\* Before the slow clock judges it every state is calm, and HOT if it was used.
LEMMA EpochEndIsCalm ==
    ASSUME NEW t, NEW success, Liftable(t, success), NEW e \in Entities
    PROVE  /\ AtEpochEnd(e, t[e], success) \in TierState
           /\ Calm(AtEpochEnd(e, t[e], success))
           /\ e \in success =>
                 /\ AtEpochEnd(e, t[e], success).stable >= HOT
                 /\ AtEpochEnd(e, t[e], success).stable >= t[e].effective
<1> DEFINE s == IF e \in success THEN Crystallized(t[e]) ELSE t[e]
<1>1. t[e] \in TierState /\ Consistent(t[e])
  BY DEF Liftable
<1>2. s \in TierState /\ Calm(s)
  BY <1>1, CrystallizedIsHot, UnliftedIsCalm DEF Liftable
<1>3. e \in success => s.stable >= HOT /\ s.stable >= t[e].effective
  BY <1>1, CrystallizedIsHot
<1>4. Expired(s, e \in used') = s
  BY <1>2 DEF Expired, Calm
<1>5. AtEpochEnd(e, t[e], success) = s
  BY <1>4 DEF AtEpochEnd
<1> QED BY <1>2, <1>3, <1>5

\* No verdict demotes a HOT tool that was used in the epoch.
LEMMA UsedToolIsSpared ==
    ASSUME NEW s \in TierState, Calm(s), s.stable >= HOT,
           NEW success, NEW e \in Tools, e \in success,
           NEW v \in Verdicts(e, s, success)
    PROVE  v >= s.stable
<1>1. s.stable \in 0 .. 4
  BY TierFields DEF Tiers, DORMANT, EXTRA_HOT
<1>2. SkipDemotion(e, success)
  BY DEF SkipDemotion
<1>3. CASE s.stable = HOT
  <2>1. v = HOT \/ v = EXTRA_HOT
    BY <1>2, <1>3 DEF Verdicts, HOT, EXTRA_HOT, ACTIVE, COLD, DORMANT
  <2> QED BY <1>3, <2>1 DEF HOT, EXTRA_HOT
<1>4. CASE s.stable = EXTRA_HOT
  <2>1. v = EXTRA_HOT
    BY <1>2, <1>4 DEF Verdicts, HOT, EXTRA_HOT, ACTIVE, COLD, DORMANT
  <2> QED BY <1>4, <2>1 DEF EXTRA_HOT
<1> QED BY <1>1, <1>3, <1>4 DEF HOT, EXTRA_HOT

\* What the end of an epoch leaves.
LEMMA RunEpochIsCalm ==
    ASSUME NEW t, NEW success, Liftable(t, success), success \subseteq tracked',
           RunEpoch(t, success)
    PROVE  /\ tier' \in [Entities -> TierState]
           /\ \A e \in Entities : Calm(tier'[e])
           /\ \A e \in Tools \cap success :
                 tier'[e].stable >= HOT /\ tier'[e].effective >= t[e].effective
<1>1. PICK verdict \in [tracked' -> Tiers] :
        /\ \A e \in tracked' :
              verdict[e] \in Verdicts(e, AtEpochEnd(e, t[e], success), success)
        /\ tier' = [e \in Entities |->
              LET s == AtEpochEnd(e, t[e], success)
              IN  IF e \in tracked' THEN Judged(s, verdict[e]) ELSE s]
  BY DEF RunEpoch
<1>2. ASSUME NEW e \in Entities
      PROVE  /\ tier'[e] \in TierState /\ Calm(tier'[e])
             /\ e \in tracked' => tier'[e].stable = verdict[e]
  <2>1. AtEpochEnd(e, t[e], success) \in TierState /\ Calm(AtEpochEnd(e, t[e], success))
    BY <1>2, EpochEndIsCalm
  <2>2. CASE e \in tracked'
    <3>1. tier'[e] = Judged(AtEpochEnd(e, t[e], success), verdict[e]) /\ verdict[e] \in Tiers
      BY <1>1, <1>2, <2>2
    <3> QED BY <2>1, <3>1, JudgedIsCalm
  <2>3. CASE e \notin tracked'
    BY <1>1, <1>2, <2>1, <2>3
  <2> QED BY <2>2, <2>3
<1>3. ASSUME NEW e \in Tools \cap success
      PROVE  tier'[e].stable >= HOT /\ tier'[e].effective >= t[e].effective
  <2> DEFINE s == AtEpochEnd(e, t[e], success)
  <2>1. e \in Entities /\ e \in tracked'
    BY DEF Entities
  <2>2. s \in TierState /\ Calm(s) /\ s.stable >= HOT /\ s.stable >= t[e].effective
    BY <2>1, EpochEndIsCalm
  <2>3. verdict[e] >= s.stable
    BY <1>1, <2>1, <2>2, UsedToolIsSpared
  <2>4. tier'[e].stable = verdict[e] /\ tier'[e].effective = verdict[e]
    BY <1>2, <2>1 DEF Calm
  <2>5. s.stable \in 0 .. 4 /\ verdict[e] \in 0 .. 4 /\ t[e].effective \in 0 .. 4
    BY <1>1, <2>1, <2>2, TierFields DEF Tiers, DORMANT, EXTRA_HOT, Liftable
  <2> QED BY <2>2, <2>3, <2>4, <2>5 DEF HOT
<1>4. tier' \in [Entities -> TierState]
  BY <1>1, <1>2
<1> QED BY <1>2, <1>3, <1>4

-----------------------------------------------------------------------------
(* The invariant.                                                          *)

IInv == /\ TypeOK
        /\ TierShape
        /\ UsedIsAwake
        /\ epochUsed \subseteq tracked

\* What Touch leaves of the tiers and the clocks, for any record before it.
LEMMA TouchKeepsShape ==
    ASSUME NEW t, NEW success, Liftable(t, success),
           \A e \in success : t[e].effective >= ACTIVE /\ e \in used',
           success \subseteq tracked', success \subseteq Entities,
           age \in 0 .. EpochTicks, idle \in 0 .. IdleTicks,
           Touch(t, success)
    PROVE  /\ tier' \in [Entities -> TierState]
           /\ TierShape' /\ UsedIsAwake'
           /\ epochUsed' \subseteq tracked' /\ epochUsed' \subseteq Entities
           /\ age' \in 0 .. EpochTicks /\ idle' \in 0 .. IdleTicks
           /\ \A e \in Tools \cap success :
                 /\ tier'[e].effective >= t[e].effective
                 /\ age = EpochTicks /\ age' = 0 => tier'[e].stable >= HOT
<1>1. CASE EpochBoundary(age, 0)
  <2>1. RunEpoch(t, success)
    BY <1>1 DEF Touch
  <2>2. epochUsed' = {} /\ age' = 0 /\ idle' = 0
    BY <2>1 DEF RunEpoch
  <2>3. /\ tier' \in [Entities -> TierState]
        /\ \A e \in Entities : Calm(tier'[e])
        /\ \A e \in Tools \cap success :
              tier'[e].stable >= HOT /\ tier'[e].effective >= t[e].effective
    BY <2>1, RunEpochIsCalm
  <2>4. TierShape'
    <3>1. ASSUME NEW e \in Entities
          PROVE  Consistent(tier'[e]) /\ ~(tier'[e].effective > tier'[e].stable)
      <4>1. tier'[e] \in TierState /\ Calm(tier'[e])
        BY <2>3
      <4>2. Consistent(tier'[e])
        BY <4>1, CalmIsConsistent
      <4> QED BY <4>1, <4>2, TierFields DEF Calm, Tiers, DORMANT, EXTRA_HOT
    <3> QED BY <3>1 DEF TierShape, Consistent
  <2>5. UsedIsAwake'
    BY <2>2 DEF UsedIsAwake
  <2> QED BY <2>2, <2>3, <2>4, <2>5, ClockAssumption
<1>2. CASE ~EpochBoundary(age, 0)
  <2>1. /\ tier' = [e \in Entities |-> Expired(t[e], e \in used')]
        /\ epochUsed' = success /\ age' = age /\ idle' = 0
    BY <1>2 DEF Touch
  <2>2. ASSUME NEW e \in Entities
        PROVE  /\ tier'[e] \in TierState /\ Consistent(tier'[e])
               /\ tier'[e].effective > tier'[e].stable => e \in success
               /\ e \in used' => tier'[e].effective = t[e].effective
    <3>1. t[e] \in TierState /\ Consistent(t[e]) /\ (e \in used') \in BOOLEAN
      BY DEF Liftable
    <3> QED BY <2>1, <3>1, ExpiredIsConsistent DEF Liftable
  <2>3. tier' \in [Entities -> TierState]
    BY <2>1, <2>2
  <2>4. TierShape'
    BY <2>1, <2>2 DEF TierShape, Consistent
  <2>5. UsedIsAwake'
    BY <2>1, <2>2 DEF UsedIsAwake
  <2>6. ASSUME NEW e \in Tools \cap success
        PROVE  tier'[e].effective >= t[e].effective
    <3>1. tier'[e].effective = t[e].effective /\ t[e].effective \in 0 .. 4
      BY <2>2, TierFields DEF Entities, Liftable, Tiers, DORMANT, EXTRA_HOT
    <3> QED BY <3>1
  <2>7. ~(age = EpochTicks /\ age' = 0)
    BY <2>1, ClockAssumption
  <2> QED BY <2>1, <2>3, <2>4, <2>5, <2>6, <2>7, ClockAssumption
<1> QED BY <1>1, <1>2

\* The manager of an empty database satisfies the invariant.
LEMMA InitIInv == Init => IInv
<1> SUFFICES ASSUME Init PROVE IInv
  OBVIOUS
<1>1. ACTIVE \in Tiers
  BY DEF ACTIVE, Tiers, DORMANT, EXTRA_HOT
<1>2. ASSUME NEW e \in Entities
      PROVE  tier[e] \in TierState /\ Consistent(tier[e]) /\ Calm(tier[e])
  <2>1. tier[e] = At(ACTIVE)
    BY DEF Init
  <2> QED BY <1>1, <2>1, AtIsCalm, CalmIsConsistent
<1>3. TypeOK
  <2>1. tier \in [Entities -> TierState]
    BY <1>2 DEF Init
  <2>2. age \in 0 .. EpochTicks /\ idle \in 0 .. IdleTicks
    BY ClockAssumption DEF Init
  <2> QED BY <2>1, <2>2 DEF Init, TypeOK
<1>4. TierShape
  <2>1. ASSUME NEW e \in Entities PROVE ~(tier[e].effective > tier[e].stable)
    BY <1>2, TierFields DEF Calm, Tiers, DORMANT, EXTRA_HOT
  <2> QED BY <1>2, <2>1 DEF TierShape
<1> QED BY <1>3, <1>4 DEF Init, IInv, UsedIsAwake

\* The tiers the manager holds are what a handler may hand to Touch.
LEMMA HeldTiers ==
    ASSUME IInv
    PROVE  /\ Liftable(tier, epochUsed)
           /\ \A e \in epochUsed : tier[e].effective >= ACTIVE /\ e \in used
           /\ epochUsed \subseteq tracked /\ epochUsed \subseteq Entities
           /\ age \in 0 .. EpochTicks /\ idle \in 0 .. IdleTicks
BY DEF IInv, TypeOK, TierShape, UsedIsAwake, Liftable

\* A handler that records something of a set of entities and then touches the
\* epoch, as five of the operations do.
LEMMA TouchStep ==
    ASSUME IInv, tracked \subseteq tracked', used \subseteq used', Touch(tier, epochUsed)
    PROVE  /\ tier' \in [Entities -> TierState]
           /\ TierShape' /\ UsedIsAwake'
           /\ epochUsed' \subseteq tracked' /\ epochUsed' \subseteq Entities
           /\ age' \in 0 .. EpochTicks /\ idle' \in 0 .. IdleTicks
           /\ \A e \in Tools \cap epochUsed :
                 /\ tier'[e].effective >= tier[e].effective
                 /\ age = EpochTicks /\ age' = 0 => tier'[e].stable >= HOT
<1>1. /\ Liftable(tier, epochUsed)
      /\ \A e \in epochUsed : tier[e].effective >= ACTIVE /\ e \in used'
      /\ epochUsed \subseteq tracked' /\ epochUsed \subseteq Entities
      /\ age \in 0 .. EpochTicks /\ idle \in 0 .. IdleTicks
  BY HeldTiers
<1> QED BY <1>1, TouchKeepsShape

\* The tiers after the use of e, before Touch.
LEMMA UseIsLiftable ==
    ASSUME IInv, NEW e \in Tools \cup Skills
    PROVE  LET t == [tier EXCEPT ![e] = FastPromoted(e, tier[e])]
           IN  /\ Liftable(t, epochUsed \cup {e})
               /\ \A x \in epochUsed \cup {e} : t[x].effective >= ACTIVE
               /\ \A x \in epochUsed : t[x].effective >= tier[x].effective
<1> DEFINE t == [tier EXCEPT ![e] = FastPromoted(e, tier[e])]
<1>1. e \in Entities /\ tier \in [Entities -> TierState]
  BY DEF Entities, IInv, TypeOK
<1>2. /\ FastPromoted(e, tier[e]) \in TierState
      /\ Consistent(FastPromoted(e, tier[e]))
      /\ FastPromoted(e, tier[e]).effective >= tier[e].effective
      /\ FastPromoted(e, tier[e]).effective >= ACTIVE
  BY <1>1, FastPromotedIsAwake DEF IInv, TierShape
<1>3. /\ t \in [Entities -> TierState] /\ t[e] = FastPromoted(e, tier[e])
      /\ \A x \in Entities : x # e => t[x] = tier[x]
  BY <1>1, <1>2
<1> HIDE DEF t
<1>4. Liftable(t, epochUsed \cup {e})
  BY <1>2, <1>3 DEF Liftable, IInv, TierShape
<1>5. ASSUME NEW x \in epochUsed \cup {e} PROVE t[x].effective >= ACTIVE
  BY <1>2, <1>3, <1>5 DEF IInv, UsedIsAwake, TypeOK
<1>6. ASSUME NEW x \in epochUsed PROVE t[x].effective >= tier[x].effective
  <2>1. CASE x = e
    BY <1>2, <1>3, <2>1
  <2>2. CASE x # e
    <3>1. x \in Entities /\ tier[x].effective \in 0 .. 4
      BY <1>1, TierFields DEF IInv, TypeOK, Tiers, DORMANT, EXTRA_HOT
    <3> QED BY <1>3, <2>2, <3>1
  <2> QED BY <2>1, <2>2
<1> QED BY <1>4, <1>5, <1>6 DEF t

\* One step of SuccessWins.
SuccessStep ==
    \A e \in Tools \cap epochUsed \cap tracked' :
        /\ tier'[e].effective >= tier[e].effective
        /\ age = EpochTicks /\ age' = 0 => tier'[e].stable >= HOT

\* The invariant is inductive, and every step that starts in it lets a
\* successful use win: one step per operation.
LEMMA StepIInv == IInv /\ [Next]_vars => IInv' /\ SuccessStep
<1> SUFFICES ASSUME IInv, [Next]_vars PROVE IInv' /\ SuccessStep
  OBVIOUS
<1> USE DEF stats, cycle, clocks
<1>1. /\ tracked \subseteq Entities /\ tier \in [Entities -> TierState]
      /\ injected \subseteq Entities /\ attempted \subseteq Entities
      /\ used \subseteq Entities /\ uwi \subseteq Entities
      /\ epochUsed \subseteq Entities /\ lastInjected \subseteq Entities
      /\ active \subseteq Entities /\ epochUsed \subseteq tracked
      /\ cycleOpen \in BOOLEAN
      /\ age \in 0 .. EpochTicks /\ idle \in 0 .. IdleTicks
  BY DEF IInv, TypeOK
<1>2. ASSUME NEW e \in Entities
      PROVE  /\ tier[e] \in TierState /\ Consistent(tier[e])
             /\ tier[e].stable \in 0 .. 4 /\ tier[e].effective \in 0 .. 4
             /\ tier[e].effective > tier[e].stable => e \in epochUsed
             /\ e \notin epochUsed => Calm(tier[e])
             /\ e \in epochUsed => tier[e].effective >= ACTIVE
  <2>1. tier[e] \in TierState /\ Consistent(tier[e])
        /\ (tier[e].effective > tier[e].stable => e \in epochUsed)
    BY <1>1 DEF IInv, TierShape
  <2>2. tier[e].stable \in 0 .. 4 /\ tier[e].effective \in 0 .. 4
    BY <2>1, TierFields DEF Tiers, DORMANT, EXTRA_HOT
  <2>3. e \notin epochUsed => Calm(tier[e])
    BY <2>1, UnliftedIsCalm
  <2> QED BY <2>1, <2>2, <2>3 DEF IInv, UsedIsAwake
<1>3. CASE BeginRequestCycle
  <2> DEFINE t == [e \in Entities |->
                     IF e \in tracked THEN NextCycle(FastSlept(e, tier[e]))
                                      ELSE tier[e]]
  <2>1. ASSUME NEW e \in Entities
        PROVE  /\ t[e] \in TierState /\ Consistent(t[e])
               /\ t[e].effective > t[e].stable => e \in epochUsed
               /\ e \in epochUsed => t[e].effective = tier[e].effective
    <3> DEFINE s == FastSlept(e, tier[e])
    <3>1. s \in TierState /\ NextCycle(s) \in TierState
      BY <1>2, FastSleptIsCalm, NextCycleKeepsTiers
    <3>2. CASE e \in epochUsed
      <4>1. s = tier[e]
        BY <1>2, <3>2, FastSleptIsCalm DEF ACTIVE, COLD
      <4> QED BY <1>2, <3>1, <3>2, <4>1, NextCycleKeepsTiers DEF Consistent
    <3>3. CASE e \notin epochUsed
      <4>1. Calm(s)
        BY <1>2, <3>3, FastSleptIsCalm
      <4>2. Calm(NextCycle(s)) /\ Consistent(NextCycle(s))
        BY <3>1, <4>1, NextCycleKeepsTiers, CalmIsConsistent DEF Calm
      <4>3. ~(NextCycle(s).effective > NextCycle(s).stable)
        BY <3>1, <4>2, TierFields DEF Calm, Tiers, DORMANT, EXTRA_HOT
      <4> QED BY <1>2, <3>1, <3>3, <4>2, <4>3
    <3> QED BY <3>2, <3>3
  <2>2. tier' = t /\ t \in [Entities -> TierState]
    BY <1>3, <2>1 DEF BeginRequestCycle
  <2> HIDE DEF t
  <2>3. TypeOK'
    BY <1>1, <1>3, <2>2 DEF BeginRequestCycle, TypeOK
  <2>4. TierShape' /\ UsedIsAwake'
    BY <1>1, <1>3, <2>1, <2>2 DEF BeginRequestCycle, TierShape, UsedIsAwake, IInv
  <2>5. SuccessStep
    BY <1>1, <1>2, <1>3, <2>1, <2>2, ClockAssumption
       DEF BeginRequestCycle, SuccessStep
  <2> QED BY <1>1, <1>3, <2>3, <2>4, <2>5 DEF BeginRequestCycle, IInv
<1>4. CASE EndRequestCycle
  <2>1. TypeOK' /\ TierShape' /\ UsedIsAwake' /\ epochUsed' \subseteq tracked'
    BY <1>4 DEF EndRequestCycle, IInv, TypeOK, TierShape, UsedIsAwake
  <2> QED BY <1>1, <1>2, <1>4, <2>1, ClockAssumption
          DEF EndRequestCycle, IInv, SuccessStep
<1>5. ASSUME NEW S \in (SUBSET Tools) \cup (SUBSET Skills), RecordCandidates(S)
      PROVE  IInv' /\ SuccessStep
  <2>1. S \subseteq Entities
    BY <1>5 DEF Entities
  <2>2. tracked \subseteq tracked' /\ used \subseteq used' /\ Touch(tier, epochUsed)
    BY <1>5 DEF RecordCandidates
  <2>3. IInv' /\ SuccessStep
    BY <1>1, <1>5, <2>1, <2>2, TouchStep
       DEF RecordCandidates, IInv, TypeOK, SuccessStep
  <2> QED BY <2>3
<1>6. ASSUME NEW kind \in {Tools, Skills}, NEW S \in SUBSET kind,
             RecordInjected(S, kind)
      PROVE  IInv' /\ SuccessStep
  <2>1. S \subseteq Entities
    BY DEF Entities
  <2>2. tracked \subseteq tracked' /\ used \subseteq used' /\ Touch(tier, epochUsed)
    BY <1>6 DEF RecordInjected
  <2> QED BY <1>1, <1>6, <2>1, <2>2, TouchStep
          DEF RecordInjected, IInv, TypeOK, SuccessStep
<1>7. ASSUME NEW e \in Tools, RecordToolFailure(e)
      PROVE  IInv' /\ SuccessStep
  <2>1. e \in Entities
    BY DEF Entities
  <2>2. tracked \subseteq tracked' /\ used \subseteq used' /\ Touch(tier, epochUsed)
    BY <1>7 DEF RecordToolFailure
  <2> QED BY <1>1, <1>7, <2>1, <2>2, TouchStep
          DEF RecordToolFailure, IInv, TypeOK, SuccessStep
<1>8. ASSUME NEW e \in Tools \cup Skills, RecordUsed(e)
      PROVE  IInv' /\ SuccessStep
  <2> DEFINE t == [tier EXCEPT ![e] = FastPromoted(e, tier[e])]
             success == epochUsed \cup {e}
  <2>1. e \in Entities
    BY DEF Entities
  <2>2. /\ Liftable(t, success)
        /\ \A x \in success : t[x].effective >= ACTIVE
        /\ \A x \in epochUsed : t[x].effective >= tier[x].effective
    BY UseIsLiftable
  <2>3. /\ success \subseteq tracked' /\ success \subseteq Entities
        /\ \A x \in success : x \in used'
        /\ Touch(t, success)
    BY <1>1, <1>8, <2>1 DEF RecordUsed, IInv, UsedIsAwake
  <2> HIDE DEF t, success
  <2>4. /\ tier' \in [Entities -> TierState]
        /\ TierShape' /\ UsedIsAwake'
        /\ epochUsed' \subseteq tracked' /\ epochUsed' \subseteq Entities
        /\ age' \in 0 .. EpochTicks /\ idle' \in 0 .. IdleTicks
        /\ \A x \in Tools \cap success :
              /\ tier'[x].effective >= t[x].effective
              /\ age = EpochTicks /\ age' = 0 => tier'[x].stable >= HOT
    BY <1>1, <2>2, <2>3, TouchKeepsShape
  <2>5. TypeOK'
    BY <1>1, <1>8, <2>1, <2>4 DEF RecordUsed, TypeOK
  <2>6. ASSUME NEW x \in Tools \cap epochUsed
        PROVE  /\ tier'[x].effective >= tier[x].effective
               /\ age = EpochTicks /\ age' = 0 => tier'[x].stable >= HOT
    <3>1. x \in success /\ x \in Entities
      BY <1>1 DEF success
    <3>2. tier'[x] \in TierState /\ t[x] \in TierState /\ tier[x] \in TierState
      BY <1>1, <2>2, <2>4, <3>1 DEF Liftable
    <3>3. /\ tier'[x].effective \in 0 .. 4 /\ t[x].effective \in 0 .. 4
          /\ tier[x].effective \in 0 .. 4
      BY <3>2, TierFields DEF Tiers, DORMANT, EXTRA_HOT
    <3> QED BY <2>2, <2>4, <3>1, <3>3
  <2> QED BY <2>4, <2>5, <2>6 DEF IInv, SuccessStep
<1>9. ASSUME NEW e \in Tools \cup Skills, NEW strong \in BOOLEAN, ShadowHit(e, strong)
      PROVE  IInv' /\ SuccessStep
  <2> DEFINE trk == tracked \cup {e}
             seen == IF e \in tracked THEN tier ELSE [tier EXCEPT ![e] = At(DORMANT)]
             byServer == e \in Tools /\ ServerOf[e] # NoServer
                            /\ AllDormant(ServerOf[e], seen, trk)
             target == IF byServer THEN ServerOf[e] ELSE e
             there == IF target \in trk THEN seen
                                        ELSE [seen EXCEPT ![target] = At(DORMANT)]
             wakes == (strong \/ target \in uwi) /\ MayWake(there[target])
  <2>1. e \in Entities /\ target \in Entities
    BY KindsAssumption DEF Entities
  <2>2. /\ tracked' = trk \cup {target}
        /\ tier' = IF wakes THEN [there EXCEPT ![target] = Woken(there[target])]
                             ELSE there
        /\ active' = IF wakes THEN active \cup {target} ELSE active
        /\ UNCHANGED <<stats, lastInjected, cycleOpen, clocks>>
    BY <1>9 DEF ShadowHit
  <2>3. At(DORMANT) \in TierState /\ Calm(At(DORMANT))
    BY AtIsCalm DEF Tiers, DORMANT, EXTRA_HOT
  <2>4. /\ seen \in [Entities -> TierState]
        /\ \A x \in Entities : seen[x] = tier[x] \/ (x \notin tracked /\ seen[x] = At(DORMANT))
    BY <1>1, <2>1, <2>3
  <2> HIDE DEF seen, byServer
  <2>5. /\ there \in [Entities -> TierState]
        /\ \A x \in Entities :
              there[x] = tier[x] \/ (x \notin tracked /\ there[x] = At(DORMANT))
    BY <2>1, <2>3, <2>4
  <2> HIDE DEF there, target
  <2>6. ASSUME NEW x \in Entities
        PROVE  /\ there[x] \in TierState
               /\ x \in epochUsed => there[x] = tier[x]
               /\ x \notin epochUsed => Calm(there[x])
    BY <1>1, <1>2, <2>3, <2>5
  <2>7. wakes => target \notin epochUsed /\ Calm(there[target])
    <3>1. SUFFICES ASSUME wakes PROVE target \notin epochUsed
      BY <2>1, <2>6
    <3>2. there[target].effective = DORMANT
      BY <3>1 DEF MayWake
    <3> QED BY <1>2, <2>1, <2>6, <3>2 DEF DORMANT, ACTIVE
  <2>8. wakes => Woken(there[target]) \in TierState /\ Calm(Woken(there[target]))
    BY <2>1, <2>6, <2>7, WokenIsCalm
  <2> HIDE DEF wakes
  <2>9. ASSUME NEW x \in Entities
        PROVE  /\ tier'[x] \in TierState
               /\ x \in epochUsed => tier'[x] = tier[x]
               /\ x \notin epochUsed => Calm(tier'[x])
    BY <2>1, <2>2, <2>5, <2>6, <2>7, <2>8
  <2>10. tier' \in [Entities -> TierState]
    BY <2>1, <2>2, <2>5, <2>8
  <2>11. TypeOK' /\ epochUsed' \subseteq tracked'
    BY <1>1, <2>1, <2>2, <2>10 DEF TypeOK
  <2>12. TierShape' /\ UsedIsAwake'
    <3>1. ASSUME NEW x \in Entities
          PROVE  /\ Consistent(tier'[x])
                 /\ tier'[x].effective > tier'[x].stable => x \in epochUsed
      <4>1. CASE x \in epochUsed
        BY <1>2, <2>9, <4>1
      <4>2. CASE x \notin epochUsed
        <5>1. tier'[x] \in TierState /\ Calm(tier'[x])
          BY <2>9, <4>2
        <5>2. ~(tier'[x].effective > tier'[x].stable)
          BY <5>1, TierFields DEF Calm, Tiers, DORMANT, EXTRA_HOT
        <5> QED BY <5>1, <5>2, CalmIsConsistent
      <4> QED BY <4>1, <4>2
    <3>2. epochUsed' = epochUsed /\ used' = used
      BY <2>2
    <3>3. TierShape'
      BY <3>1, <3>2 DEF TierShape, Consistent
    <3>4. UsedIsAwake'
      BY <1>1, <1>2, <2>9, <3>2 DEF UsedIsAwake, IInv
    <3> QED BY <3>3, <3>4
  <2>13. SuccessStep
    BY <1>1, <1>2, <2>2, <2>9, ClockAssumption DEF SuccessStep
  <2> QED BY <2>11, <2>12, <2>13 DEF IInv
<1>10. ASSUME NEW gone \in SUBSET Tools, PurgeInactiveToolSources(gone)
       PROVE  IInv' /\ SuccessStep
  <2>1. At(ACTIVE) \in TierState /\ Calm(At(ACTIVE)) /\ Consistent(At(ACTIVE))
    BY AtIsCalm, CalmIsConsistent DEF ACTIVE, Tiers, DORMANT, EXTRA_HOT
  <2>2. ASSUME NEW x \in Entities
        PROVE  /\ tier'[x] \in TierState /\ Consistent(tier'[x])
               /\ tier'[x].effective > tier'[x].stable => x \in epochUsed'
               /\ x \in epochUsed' => x \notin gone /\ tier'[x] = tier[x]
    <3>1. /\ tier'[x] = IF x \in gone THEN At(ACTIVE) ELSE tier[x]
          /\ epochUsed' = epochUsed \ gone
      BY <1>10 DEF PurgeInactiveToolSources
    <3>2. ~(At(ACTIVE).effective > At(ACTIVE).stable)
      BY <2>1, TierFields DEF Calm, Tiers, DORMANT, EXTRA_HOT
    <3> QED BY <1>2, <2>1, <3>1, <3>2
  <2>3. TypeOK'
    <3>1. tier' \in [Entities -> TierState]
      BY <1>10, <2>2 DEF PurgeInactiveToolSources
    <3> QED BY <1>1, <1>10, <3>1 DEF PurgeInactiveToolSources, TypeOK
  <2>4. TierShape'
    BY <2>2 DEF TierShape, Consistent
  <2>5. UsedIsAwake' /\ epochUsed' \subseteq tracked'
    BY <1>1, <1>2, <1>10, <2>2 DEF PurgeInactiveToolSources, UsedIsAwake, IInv
  <2>6. SuccessStep
    BY <1>1, <1>2, <1>10, ClockAssumption DEF PurgeInactiveToolSources, SuccessStep
  <2> QED BY <2>3, <2>4, <2>5, <2>6 DEF IInv
<1>11. CASE StatusPoll
  <2>1. RunEpoch(tier, epochUsed) /\ Liftable(tier, epochUsed)
    BY <1>11, HeldTiers DEF StatusPoll
  <2>2. Touch(tier, epochUsed)
    BY <1>11, <2>1 DEF StatusPoll, Touch, EpochBoundary
  <2>3. tracked \subseteq tracked' /\ used \subseteq used'
    BY <1>11 DEF StatusPoll
  <2> QED BY <1>1, <1>11, <2>2, <2>3, TouchStep
          DEF StatusPoll, IInv, TypeOK, SuccessStep
<1>12. CASE Tick
  <2>1. ASSUME NEW x \in Entities
        PROVE  /\ tier'[x] \in TierState /\ Consistent(tier'[x])
               /\ tier'[x].effective = tier[x].effective
               /\ tier'[x].stable = tier[x].stable
    BY <1>2, <1>12, TickedIsConsistent DEF Tick
  <2>2. age' \in 0 .. EpochTicks /\ idle' \in 0 .. IdleTicks
    BY <1>1, <1>12, ClockAssumption DEF Tick, MinOf
  <2>3. TypeOK'
    <3>1. tier' \in [Entities -> TierState]
      BY <1>12, <2>1 DEF Tick
    <3> QED BY <1>1, <1>12, <2>2, <3>1 DEF Tick, TypeOK
  <2>4. TierShape' /\ UsedIsAwake' /\ epochUsed' \subseteq tracked'
    <3>1. epochUsed' = epochUsed /\ used' = used /\ tracked' = tracked
      BY <1>12 DEF Tick
    <3>2. TierShape'
      BY <1>2, <2>1, <3>1 DEF TierShape, Consistent
    <3> QED BY <1>1, <1>2, <2>1, <3>1, <3>2 DEF UsedIsAwake, IInv
  <2>5. SuccessStep
    <3>1. ~(age = EpochTicks /\ age' = 0)
      BY <1>1, <1>12, ClockAssumption DEF Tick, MinOf
    <3> QED BY <1>1, <1>2, <2>1, <3>1 DEF SuccessStep
  <2> QED BY <2>3, <2>4, <2>5 DEF IInv
<1>13. CASE UNCHANGED vars
  <2>1. TypeOK' /\ TierShape' /\ UsedIsAwake' /\ epochUsed' \subseteq tracked'
    BY <1>13 DEF vars, IInv, TypeOK, TierShape, UsedIsAwake
  <2>2. SuccessStep
    BY <1>1, <1>2, <1>13, ClockAssumption DEF vars, SuccessStep
  <2> QED BY <2>1, <2>2 DEF IInv
<1>14. CASE \E S \in (SUBSET Tools) \cup (SUBSET Skills) : RecordCandidates(S)
  BY <1>5, <1>14
<1>15. CASE \E kind \in {Tools, Skills} : \E S \in SUBSET kind : RecordInjected(S, kind)
  BY <1>6, <1>15
<1>16. CASE \E gone \in SUBSET Tools : PurgeInactiveToolSources(gone)
  BY <1>10, <1>16
<1>17. CASE \E e \in Tools \cup Skills, strong \in BOOLEAN : ShadowHit(e, strong)
  BY <1>9, <1>17
<1> QED BY <1>3, <1>4, <1>7, <1>8, <1>11, <1>12, <1>13, <1>14, <1>15, <1>16, <1>17
        DEF Next, NextAbout

\* Types and ranges hold in every reachable state, for every set of entities and
\* every clock and wake policy.
THEOREM TypeCorrect == Spec => []TypeOK
<1>1. Spec => []IInv
  BY InitIInv, StepIInv, PTL DEF Spec
<1>2. IInv => TypeOK
  BY DEF IInv
<1> QED BY <1>1, <1>2, PTL

\* The four tier fields of every entity agree in every reachable state, and what
\* was used in the running epoch is past COLD.
THEOREM TiersAgreeWithUseCorrect == Spec => []TiersAgreeWithUse
<1>1. Spec => []IInv
  BY InitIInv, StepIInv, PTL DEF Spec
<1>2. IInv => TiersAgreeWithUse
  BY DEF IInv, TiersAgreeWithUse
<1> QED BY <1>1, <1>2, PTL

\* No step of any thread takes a tool's tier back in the epoch of a successful
\* use, and the epoch's end leaves the tool HOT.
THEOREM SuccessWinsCorrect == Spec => SuccessWins
<1>1. Spec => []IInv
  BY InitIInv, StepIInv, PTL DEF Spec
<1>2. IInv /\ [Next]_vars => [SuccessStep]_vars
  BY StepIInv
<1>3. [SuccessStep]_vars
        => [\A e \in Tools \cap epochUsed \cap tracked' :
              /\ tier'[e].effective >= tier[e].effective
              /\ age = EpochTicks /\ age' = 0 => tier'[e].stable >= HOT]_vars
  BY DEF SuccessStep
<1> QED BY <1>1, <1>2, <1>3, PTL DEF Spec, SuccessWins
-----------------------------------------------------------------------------
(* Sleeping and waking.                                                    *)

\* From s, the state of e before the step, a step leaves e as fast asleep or as
\* awake as it was, and its lease and cooldown alone.
Rests(s, e) ==
    /\ tier'[e].effective = DORMANT <=> s.effective = DORMANT
    /\ tier'[e].lease = s.lease /\ tier'[e].cooldown = s.cooldown

\* The slow clock neither wakes nor puts to sleep.
LEMMA VerdictRests ==
    ASSUME NEW s \in TierState, Calm(s), NEW e, NEW success,
           NEW v \in Verdicts(e, s, success)
    PROVE  v = DORMANT <=> s.effective = DORMANT
<1>1. s.stable \in 0 .. 4 /\ s.effective = s.stable
  BY TierFields DEF Calm, Tiers, DORMANT, EXTRA_HOT
<1>2. CASE s.effective = DORMANT
  BY <1>1, <1>2 DEF Verdicts
<1>3. CASE s.stable = COLD
  <2>1. v = COLD \/ v = ACTIVE
    BY <1>1, <1>3 DEF Verdicts, DORMANT, COLD, ACTIVE, HOT, EXTRA_HOT
  <2> QED BY <1>1, <1>3, <2>1 DEF DORMANT, COLD, ACTIVE
<1>4. CASE s.stable = ACTIVE
  <2>1. v = ACTIVE \/ v = COLD \/ v = HOT
    BY <1>1, <1>4 DEF Verdicts, DORMANT, COLD, ACTIVE, HOT, EXTRA_HOT
  <2> QED BY <1>1, <1>4, <2>1 DEF DORMANT, COLD, ACTIVE, HOT
<1>5. CASE s.stable = HOT
  <2>1. v = HOT \/ v = EXTRA_HOT \/ v = ACTIVE
    BY <1>1, <1>5 DEF Verdicts, DORMANT, COLD, ACTIVE, HOT, EXTRA_HOT
  <2> QED BY <1>1, <1>5, <2>1 DEF DORMANT, ACTIVE, HOT, EXTRA_HOT
<1>6. CASE s.stable = EXTRA_HOT
  <2>1. v = EXTRA_HOT \/ v = HOT
    BY <1>1, <1>6 DEF Verdicts, DORMANT, COLD, ACTIVE, HOT, EXTRA_HOT
  <2> QED BY <1>1, <1>6, <2>1 DEF DORMANT, HOT, EXTRA_HOT
<1> QED BY <1>1, <1>2, <1>3, <1>4, <1>5, <1>6
        DEF DORMANT, COLD, ACTIVE, HOT, EXTRA_HOT

\* Settling an entity touches neither its lease nor its cooldown.
LEMMA SlowClockKeepsCycles ==
    ASSUME NEW s, NEW t, NEW wasUsed \in BOOLEAN
    PROVE  /\ Crystallized(s).lease = s.lease /\ Crystallized(s).cooldown = s.cooldown
           /\ Expired(s, wasUsed).lease = s.lease
           /\ Expired(s, wasUsed).cooldown = s.cooldown
           /\ Judged(s, t).lease = s.lease /\ Judged(s, t).cooldown = s.cooldown
<1>1. ASSUME NEW u, NEW temp
      PROVE  Settled(s, u, temp).lease = s.lease /\ Settled(s, u, temp).cooldown = s.cooldown
  BY DEF Settled
<1>2. Crystallized(s).lease = s.lease /\ Crystallized(s).cooldown = s.cooldown
  BY <1>1 DEF Crystallized
<1>3. Expired(s, wasUsed).lease = s.lease /\ Expired(s, wasUsed).cooldown = s.cooldown
  BY <1>1 DEF Expired
<1>4. Judged(s, t).lease = s.lease /\ Judged(s, t).cooldown = s.cooldown
  BY <1>1 DEF Judged
<1> QED BY <1>2, <1>3, <1>4

\* Nor does the end of an epoch, or an expiry, move an entity in or out of sleep.
LEMMA TouchRests ==
    ASSUME NEW t, NEW success, Liftable(t, success),
           \A x \in success : t[x].effective >= ACTIVE /\ x \in used',
           Touch(t, success), NEW e \in Entities
    PROVE  /\ Rests(t[e], e)
           /\ e \notin tracked' \cup success => tier'[e].effective = t[e].effective
<1>1. /\ t[e] \in TierState /\ Consistent(t[e])
      /\ t[e].effective > t[e].stable => e \in success
      /\ t[e].stable \in 0 .. 4 /\ t[e].effective \in 0 .. 4
  BY TierFields DEF Liftable, Tiers, DORMANT, EXTRA_HOT
<1>2. e \notin success => Calm(t[e])
  BY <1>1, UnliftedIsCalm
<1>3. e \in success => t[e].effective # DORMANT
  BY <1>1 DEF ACTIVE, DORMANT
<1>4. (e \in used') \in BOOLEAN
  OBVIOUS
<1>5. CASE EpochBoundary(age, 0)
  <2> DEFINE s == AtEpochEnd(e, t[e], success)
  <2>1. PICK verdict \in [tracked' -> Tiers] :
          /\ \A x \in tracked' :
                verdict[x] \in Verdicts(x, AtEpochEnd(x, t[x], success), success)
          /\ tier'[e] = IF e \in tracked' THEN Judged(s, verdict[e]) ELSE s
    BY <1>5 DEF Touch, RunEpoch
  <2>2. s \in TierState /\ Calm(s) /\ (e \in success => s.stable >= HOT)
    BY EpochEndIsCalm
  <2>3. s.lease = t[e].lease /\ s.cooldown = t[e].cooldown
    BY <1>4, SlowClockKeepsCycles DEF AtEpochEnd
  <2>4. e \notin success => s = t[e]
    BY <1>2 DEF AtEpochEnd, Expired, Calm
  <2>5. s.effective = DORMANT <=> t[e].effective = DORMANT
    <3>1. s.stable \in 0 .. 4 /\ s.effective = s.stable
      BY <2>2, TierFields DEF Calm, Tiers, DORMANT, EXTRA_HOT
    <3> QED BY <1>3, <2>2, <2>4, <3>1 DEF HOT, DORMANT
  <2> HIDE DEF s
  <2>6. CASE e \in tracked'
    <3>1. verdict[e] \in Tiers /\ verdict[e] \in Verdicts(e, s, success)
      BY <2>1, <2>6 DEF s
    <3>2. Calm(tier'[e]) /\ tier'[e].stable = verdict[e]
      BY <2>1, <2>2, <2>6, <3>1, JudgedIsCalm
    <3>3. tier'[e].lease = s.lease /\ tier'[e].cooldown = s.cooldown
      <4>1. tier'[e] = Judged(s, verdict[e])
        BY <2>1, <2>6 DEF s
      <4>2. Judged(s, verdict[e]).lease = s.lease /\ Judged(s, verdict[e]).cooldown = s.cooldown
        BY <1>4, SlowClockKeepsCycles
      <4> QED BY <4>1, <4>2
    <3>4. verdict[e] = DORMANT <=> s.effective = DORMANT
      BY <2>2, <3>1, VerdictRests
    <3> QED BY <2>3, <2>5, <2>6, <3>2, <3>3, <3>4 DEF Rests, Calm
  <2>7. CASE e \notin tracked'
    BY <2>1, <2>3, <2>4, <2>5, <2>7 DEF Rests
  <2> QED BY <2>6, <2>7
<1>6. CASE ~EpochBoundary(age, 0)
  <2>1. tier'[e] = Expired(t[e], e \in used')
    BY <1>6 DEF Touch
  <2>2. tier'[e].lease = t[e].lease /\ tier'[e].cooldown = t[e].cooldown
    BY <1>4, <2>1, SlowClockKeepsCycles
  <2>3. e \in success => tier'[e].effective = t[e].effective
    BY <1>1, <1>4, <2>1, ExpiredIsConsistent
  <2>4. e \notin success => tier'[e] = t[e]
    BY <1>2, <2>1 DEF Expired, Calm
  <2> QED BY <2>2, <2>3, <2>4 DEF Rests
<1> QED BY <1>5, <1>6

\* What a step does that neither begins a cycle, nor searches, nor drops tools.
Records ==
    /\ tracked \subseteq tracked' /\ used \subseteq used'
    /\ used' \subseteq used \cup tracked' /\ ~(~cycleOpen /\ cycleOpen')
    /\ \A e \in Entities :
          \/ e \in used' /\ e \in tracked' /\ tier'[e].effective # DORMANT
          \/ /\ Rests(tier[e], e)
             /\ e \notin tracked' => tier'[e].effective = tier[e].effective

LEMMA TouchRecords ==
    ASSUME IInv, tracked \subseteq tracked', used' = used, cycleOpen' = cycleOpen,
           Touch(tier, epochUsed)
    PROVE  Records
<1>1. /\ Liftable(tier, epochUsed) /\ epochUsed \subseteq tracked
      /\ \A x \in epochUsed : tier[x].effective >= ACTIVE /\ x \in used'
  BY HeldTiers
<1>2. ASSUME NEW e \in Entities
      PROVE  /\ Rests(tier[e], e)
             /\ e \notin tracked' => tier'[e].effective = tier[e].effective
  BY <1>1, TouchRests
<1> QED BY <1>2 DEF Records, IInv, TypeOK

\* The four kinds of step, as far as sleep is concerned.
LEMMA SleepKinds ==
    ASSUME IInv, Next
    PROVE  \/ BeginRequestCycle
           \/ \E e \in Tools \cup Skills, strong \in BOOLEAN : ShadowHit(e, strong)
           \/ \E gone \in SUBSET Tools : PurgeInactiveToolSources(gone)
           \/ Records
<1>1. CASE EndRequestCycle
  BY <1>1 DEF EndRequestCycle, Records, Rests, stats
<1>2. ASSUME NEW S \in (SUBSET Tools) \cup (SUBSET Skills), RecordCandidates(S)
      PROVE  Records
  BY <1>2, TouchRecords DEF RecordCandidates
<1>3. ASSUME NEW kind \in {Tools, Skills}, NEW S \in SUBSET kind, RecordInjected(S, kind)
      PROVE  Records
  BY <1>3, TouchRecords DEF RecordInjected
<1>4. ASSUME NEW e \in Tools, RecordToolFailure(e)
      PROVE  Records
  BY <1>4, TouchRecords DEF RecordToolFailure, cycle
<1>5. ASSUME NEW e \in Tools \cup Skills, RecordUsed(e)
      PROVE  Records
  <2> DEFINE t == [tier EXCEPT ![e] = FastPromoted(e, tier[e])]
             success == epochUsed \cup {e}
  <2>1. e \in Entities /\ tier \in [Entities -> TierState] /\ epochUsed \subseteq tracked
    BY DEF Entities, IInv, TypeOK
  <2>2. Liftable(t, success) /\ \A x \in success : t[x].effective >= ACTIVE
    BY UseIsLiftable
  <2>3. /\ tracked' = tracked \cup {e} /\ used' = used \cup {e} /\ cycleOpen' = cycleOpen
        /\ Touch(t, success) /\ \A x \in success : x \in used'
    BY <1>5, HeldTiers DEF RecordUsed
  <2>4. /\ t[e].effective >= ACTIVE /\ t[e].effective \in 0 .. 4
        /\ \A x \in Entities : x # e => t[x] = tier[x]
    <3>1. t[e] \in TierState /\ t[e].effective >= ACTIVE
      BY <2>1, <2>2 DEF Liftable
    <3> QED BY <2>1, <3>1, TierFields DEF Tiers, DORMANT, EXTRA_HOT
  <2> HIDE DEF t, success
  <2>5. ASSUME NEW x \in Entities
        PROVE  /\ Rests(t[x], x)
               /\ x \notin tracked' \cup success => tier'[x].effective = t[x].effective
    BY <2>2, <2>3, TouchRests
  <2>6. tier'[e].effective # DORMANT
    BY <2>1, <2>4, <2>5 DEF Rests, DORMANT, ACTIVE
  <2>7. ASSUME NEW x \in Entities, x # e
        PROVE  /\ Rests(tier[x], x)
               /\ x \notin tracked' => tier'[x].effective = tier[x].effective
    BY <2>1, <2>3, <2>4, <2>5, <2>7 DEF success
  <2> QED BY <2>3, <2>6, <2>7 DEF Records
<1>6. CASE StatusPoll
  <2>1. Touch(tier, epochUsed)
    BY <1>6 DEF StatusPoll, Touch, EpochBoundary
  <2> QED BY <1>6, <2>1, TouchRecords DEF StatusPoll, cycle
<1>7. CASE Tick
  <2>1. ASSUME NEW e \in Entities
        PROVE  Rests(tier[e], e) /\ tier'[e].effective = tier[e].effective
    BY <1>7 DEF Tick, Ticked, Rests
  <2> QED BY <1>7, <2>1 DEF Tick, Records, stats, cycle
<1> QED BY <1>1, <1>2, <1>3, <1>4, <1>5, <1>6, <1>7 DEF Next, NextAbout

\* What a hit does to the entities: it takes up dropped ones, and wakes at most one
\* that may wake, which is not a tool of a server that sleeps as a whole.
LEMMA HitOutcome ==
    ASSUME IInv, NEW e \in Tools \cup Skills, NEW strong \in BOOLEAN, ShadowHit(e, strong)
    PROVE  /\ tracked \subseteq tracked' /\ used' = used /\ cycleOpen' = cycleOpen
           /\ \A x \in Entities :
                \/ tier'[x] = tier[x]
                \/ /\ x \notin tracked /\ x \in tracked'
                   /\ tier'[x] = At(DORMANT) \/ tier'[x] = Woken(At(DORMANT))
                \/ /\ x \in tracked /\ MayWake(tier[x]) /\ tier'[x] = Woken(tier[x])
                   /\ ~(x \in Tools /\ ServerOf[x] # NoServer
                          /\ AllDormant(ServerOf[x], tier, tracked))
<1> DEFINE trk == tracked \cup {e}
           seen == IF e \in tracked THEN tier ELSE [tier EXCEPT ![e] = At(DORMANT)]
           byServer == e \in Tools /\ ServerOf[e] # NoServer
                          /\ AllDormant(ServerOf[e], seen, trk)
           target == IF byServer THEN ServerOf[e] ELSE e
           there == IF target \in trk THEN seen
                                      ELSE [seen EXCEPT ![target] = At(DORMANT)]
           wakes == (strong \/ target \in uwi) /\ MayWake(there[target])
<1>1. e \in Entities /\ target \in Entities /\ tier \in [Entities -> TierState]
  BY KindsAssumption DEF Entities, IInv, TypeOK
<1>2. /\ tracked' = trk \cup {target}
      /\ tier' = IF wakes THEN [there EXCEPT ![target] = Woken(there[target])]
                          ELSE there
      /\ used' = used /\ cycleOpen' = cycleOpen
  BY DEF ShadowHit, stats
<1>3. DOMAIN seen = Entities /\ DOMAIN there = Entities
  BY <1>1
<1>4. ASSUME NEW x \in Entities
      PROVE  /\ x \in tracked => there[x] = tier[x]
             /\ x \notin tracked' => there[x] = tier[x]
             /\ x \in tracked' /\ x \notin tracked => there[x] = At(DORMANT)
  BY <1>1, <1>2, <1>3
<1>5. ASSUME target \in tracked
      PROVE  ~(target \in Tools /\ ServerOf[target] # NoServer
                 /\ AllDormant(ServerOf[target], tier, tracked))
  <2>1. SUFFICES ASSUME target \in Tools, ServerOf[target] # NoServer,
                        AllDormant(ServerOf[target], tier, tracked)
                 PROVE  FALSE
    OBVIOUS
  <2>2. ~byServer /\ target = e
    BY <2>1, KindsAssumption
  <2>3. seen = tier /\ trk = tracked
    BY <1>5, <2>2
  <2> QED BY <2>1, <2>2, <2>3
<1> HIDE DEF seen, byServer, target, there, trk
<1>6. ASSUME NEW x \in Entities
      PROVE  \/ tier'[x] = tier[x]
             \/ /\ x \notin tracked /\ x \in tracked'
                /\ tier'[x] = At(DORMANT) \/ tier'[x] = Woken(At(DORMANT))
             \/ /\ x \in tracked /\ MayWake(tier[x]) /\ tier'[x] = Woken(tier[x])
                /\ ~(x \in Tools /\ ServerOf[x] # NoServer
                       /\ AllDormant(ServerOf[x], tier, tracked))
  <2>1. CASE wakes /\ x = target
    <3>1. tier'[x] = Woken(there[x]) /\ MayWake(there[x]) /\ x \in tracked'
      BY <1>1, <1>2, <1>3, <2>1
    <3> QED BY <1>4, <1>5, <2>1, <3>1
  <2>2. CASE ~(wakes /\ x = target)
    <3>1. tier'[x] = there[x]
      BY <1>1, <1>2, <1>3, <2>2
    <3> QED BY <1>4, <3>1
  <2> QED BY <2>1, <2>2
<1> QED BY <1>2, <1>6 DEF trk

\* One step of SleepingServerKeepsItsTools.
SleepStep ==
    \A srv \in Servers :
        AllDormant(srv, tier, tracked) =>
            \A t \in ToolsOf(srv) \cap tracked' :
                t \notin used' => tier'[t].effective = DORMANT

\* A step that starts in the invariant wakes no tool of a server that sleeps.
LEMMA StepSleeps == IInv /\ [Next]_vars => SleepStep
<1> SUFFICES ASSUME IInv, [Next]_vars,
                    NEW srv \in Servers, AllDormant(srv, tier, tracked),
                    NEW t \in ToolsOf(srv) \cap tracked', t \notin used'
             PROVE  tier'[t].effective = DORMANT
  BY DEF SleepStep
<1>1. /\ t \in Tools /\ t \in Entities /\ ServerOf[t] = srv /\ ServerOf[t] # NoServer
      /\ t \in tracked /\ tier[t].effective = DORMANT /\ tier[t] \in TierState
  BY KindsAssumption DEF ToolsOf, Entities, AllDormant, IInv, TypeOK
<1>2. CASE BeginRequestCycle
  <2>1. FastSlept(t, tier[t]) = tier[t]
    BY <1>1 DEF FastSlept, DORMANT, COLD
  <2>2. tier'[t] = NextCycle(tier[t])
    BY <1>1, <1>2, <2>1 DEF BeginRequestCycle
  <2> QED BY <1>1, <2>2, NextCycleKeepsTiers
<1>3. ASSUME NEW e \in Tools \cup Skills, NEW strong \in BOOLEAN, ShadowHit(e, strong)
      PROVE  tier'[t].effective = DORMANT
  BY <1>1, <1>3, HitOutcome
<1>4. ASSUME NEW gone \in SUBSET Tools, PurgeInactiveToolSources(gone)
      PROVE  tier'[t].effective = DORMANT
  BY <1>1, <1>4 DEF PurgeInactiveToolSources
<1>5. CASE Records
  BY <1>1, <1>5 DEF Records, Rests
<1>6. CASE UNCHANGED vars
  BY <1>1, <1>6 DEF vars
<1> QED BY <1>2, <1>3, <1>4, <1>5, <1>6, SleepKinds

\* Whatever is searched and found, the tools of a server that sleeps as a whole
\* sleep on until they are used.
THEOREM SleepingServerKeepsItsToolsCorrect == Spec => SleepingServerKeepsItsTools
<1>1. Spec => []IInv
  BY InitIInv, StepIInv, PTL DEF Spec
<1>2. IInv /\ [Next]_vars => [SleepStep]_vars
  BY StepSleeps
<1>3. [SleepStep]_vars
        => [\A srv \in Servers :
              AllDormant(srv, tier, tracked) =>
                 \A t \in ToolsOf(srv) \cap tracked' :
                    t \notin used' => tier'[t].effective = DORMANT]_vars
  BY DEF SleepStep
<1> QED BY <1>1, <1>2, <1>3, PTL DEF Spec, SleepingServerKeepsItsTools

-----------------------------------------------------------------------------
(* The history of TierCycles.                                              *)

\* The cycles that must have begun since an entity in state s last fell asleep:
\* those of its cooldown that are over, or the cooldown and what is over of its
\* lease; an awake entity without a lease never slept.
Waited(s) ==
    IF s.effective = DORMANT THEN CooldownCycles - 1 - s.cooldown
    ELSE IF s.lease = NoLease THEN ShortestPeriod
    ELSE CooldownCycles + LeaseCycles - s.lease

HasWaited(e) ==
    /\ e \notin tracked => tier[e].effective = ACTIVE /\ sinceSleep[e] = ShortestPeriod
    /\ sinceSleep[e] >= Waited(tier[e])

\* What an entity that was never used owes to the wake policy.
Unflapping ==
    /\ sinceSleep \in [Entities -> 0 .. ShortestPeriod]
    /\ used \subseteq tracked
    /\ \A e \in Entities \ used : HasWaited(e)

\* No state asks for more than the shortest period.
LEMMA WaitedBounded ==
    ASSUME NEW s \in TierState
    PROVE  Waited(s) \in Int /\ Waited(s) <= ShortestPeriod
<1>1. s.lease \in NoLease .. LeaseCycles /\ s.cooldown \in -1 .. CooldownCycles
  BY TierFields
<1> QED BY <1>1, ClockAssumption DEF Waited, ShortestPeriod, NoLease

\* What the history says after a step, if an entity does not fall asleep in it.
LEMMA HistoryMoves ==
    ASSUME CountCycles, sinceSleep \in [Entities -> 0 .. ShortestPeriod]
    PROVE  /\ sinceSleep' \in [Entities -> 0 .. ShortestPeriod]
           /\ \A e \in Entities :
                /\ e \notin tracked' => sinceSleep'[e] = ShortestPeriod
                /\ e \in tracked' /\ FallsAsleep(e) => sinceSleep'[e] = 0
                /\ ~FallsAsleep(e) => sinceSleep'[e] >= sinceSleep[e]
                /\ ~FallsAsleep(e) /\ ~cycleOpen /\ cycleOpen' =>
                      \/ sinceSleep'[e] = sinceSleep[e] + 1
                      \/ sinceSleep'[e] = ShortestPeriod
<1>1. ShortestPeriod \in Nat
  BY ClockAssumption DEF ShortestPeriod
<1>2. ASSUME NEW e \in Entities
      PROVE  /\ sinceSleep'[e] \in 0 .. ShortestPeriod
             /\ e \notin tracked' => sinceSleep'[e] = ShortestPeriod
             /\ e \in tracked' /\ FallsAsleep(e) => sinceSleep'[e] = 0
             /\ ~FallsAsleep(e) => sinceSleep'[e] >= sinceSleep[e]
             /\ ~FallsAsleep(e) /\ ~cycleOpen /\ cycleOpen' =>
                   \/ sinceSleep'[e] = sinceSleep[e] + 1
                   \/ sinceSleep'[e] = ShortestPeriod
  <2>1. sinceSleep[e] \in 0 .. ShortestPeriod
    OBVIOUS
  <2>2. sinceSleep'[e] = IF e \notin tracked' THEN ShortestPeriod
                         ELSE IF FallsAsleep(e) THEN 0
                         ELSE IF ~cycleOpen /\ cycleOpen'
                              THEN MinOf(sinceSleep[e] + 1, ShortestPeriod)
                         ELSE sinceSleep[e]
    BY DEF CountCycles
  <2> HIDE DEF FallsAsleep
  <2> QED BY <1>1, <2>1, <2>2 DEF MinOf
<1>3. sinceSleep' \in [Entities -> 0 .. ShortestPeriod]
  BY <1>2 DEF CountCycles
<1> QED BY <1>2, <1>3

\* What the start of a cycle makes of a state: it sleeps, which it may only after
\* the shortest period, or it has waited for one cycle more at most.
LEMMA CycleWaits ==
    ASSUME NEW s \in TierState, NEW e, NEW r, r = NextCycle(FastSlept(e, s))
    PROVE  /\ s.effective = COLD /\ r.effective = DORMANT
                 => Waited(s) >= ShortestPeriod /\ Waited(r) <= 0
           /\ ~(s.effective = COLD /\ r.effective = DORMANT)
                 => Waited(r) <= Waited(s) + 1
<1>1. /\ s.lease \in NoLease .. LeaseCycles /\ s.cooldown \in -1 .. CooldownCycles
      /\ s.effective \in 0 .. 4
  BY TierFields DEF Tiers, DORMANT, EXTRA_HOT
<1>2. PICK f : f = FastSlept(e, s)
  OBVIOUS
<1>3. /\ r.effective = f.effective
      /\ r.lease = IF f.lease = NoLease THEN NoLease ELSE MaxOf(f.lease - 1, -1)
      /\ r.cooldown = MaxOf(f.cooldown - 1, -1)
  BY <1>2 DEF NextCycle, WithCycles
<1>4. CASE s.effective # COLD \/ s.lease >= 0
  <2>1. f = s
    BY <1>2, <1>4 DEF FastSlept
  <2>2. CASE s.effective = DORMANT
    BY <1>1, <1>3, <2>1, <2>2, ClockAssumption DEF Waited, MaxOf, DORMANT, COLD
  <2>3. CASE s.effective # DORMANT /\ s.lease = NoLease
    BY <1>1, <1>3, <2>1, <2>3, ClockAssumption DEF Waited, ShortestPeriod
  <2>4. CASE s.effective # DORMANT /\ s.lease # NoLease
    BY <1>1, <1>3, <2>1, <2>4, ClockAssumption DEF Waited, MaxOf, NoLease
  <2> QED BY <2>2, <2>3, <2>4
<1>5. CASE s.effective = COLD /\ ~(s.lease >= 0) /\ e \in active \cup uwi
  <2>1. f = IF s.lease = NoLease THEN s ELSE WithCycles(s, LeaseCycles, s.cooldown)
    BY <1>2, <1>5 DEF FastSlept
  <2>2. CASE s.lease = NoLease
    BY <1>1, <1>3, <1>5, <2>1, <2>2, ClockAssumption
       DEF Waited, ShortestPeriod, DORMANT, COLD
  <2>3. CASE s.lease # NoLease
    <3>1. f.effective = COLD /\ f.lease = LeaseCycles /\ s.lease = -1
      BY <1>1, <1>5, <2>1, <2>3 DEF WithCycles, NoLease
    <3>2. r.effective = COLD /\ r.lease = LeaseCycles - 1
      BY <1>3, <3>1, ClockAssumption DEF MaxOf, NoLease
    <3>3. Waited(r) = CooldownCycles + LeaseCycles - (LeaseCycles - 1)
      BY <3>2, ClockAssumption DEF Waited, NoLease, DORMANT, COLD
    <3>4. Waited(s) = CooldownCycles + LeaseCycles - s.lease
      BY <1>5, <2>3 DEF Waited, DORMANT, COLD
    <3> QED BY <3>1, <3>2, <3>3, <3>4, ClockAssumption DEF DORMANT, COLD
  <2> QED BY <2>2, <2>3
<1>6. CASE s.effective = COLD /\ ~(s.lease >= 0) /\ e \notin active \cup uwi
  <2>1. f.effective = DORMANT /\ f.cooldown = CooldownCycles
    BY <1>2, <1>6 DEF FastSlept
  <2>2. Waited(s) >= ShortestPeriod
    BY <1>1, <1>6, ClockAssumption DEF Waited, ShortestPeriod, NoLease, DORMANT, COLD
  <2>3. Waited(r) <= 0
    BY <1>3, <2>1, ClockAssumption DEF Waited, MaxOf
  <2> QED BY <1>3, <1>6, <2>1, <2>2, <2>3
<1> QED BY <1>1, <1>4, <1>5, <1>6

\* One step of NoSleepWakeThrash.
ThrashStep ==
    \A e \in Entities \ used : FallsAsleep(e) => sinceSleep[e] >= ShortestPeriod

\* A step in which e neither sleeps nor wakes, and no cycle begins.
LEMMA RestingWaits ==
    ASSUME Unflapping, CountCycles, NEW e \in Entities \ used, Rests(tier[e], e),
           tier[e] \in TierState, tier'[e] \in TierState,
           e \notin tracked' => tier'[e].effective = tier[e].effective /\ e \notin tracked
    PROVE  ~FallsAsleep(e) /\ HasWaited(e)'
<1>1. /\ ~FallsAsleep(e)
      /\ Waited(tier'[e]) = Waited(tier[e])
  BY DEF Rests, FallsAsleep, Waited, COLD, DORMANT
<1>2. /\ sinceSleep[e] \in 0 .. ShortestPeriod /\ sinceSleep'[e] \in 0 .. ShortestPeriod
      /\ sinceSleep'[e] >= sinceSleep[e]
      /\ e \notin tracked' => sinceSleep'[e] = ShortestPeriod
  BY <1>1, HistoryMoves DEF Unflapping
<1>3. Waited(tier[e]) \in Int /\ sinceSleep[e] >= Waited(tier[e])
  BY WaitedBounded DEF Unflapping, HasWaited
<1>4. sinceSleep'[e] >= Waited(tier'[e])
  BY <1>1, <1>2, <1>3
<1>5. e \notin tracked' => tier'[e].effective = ACTIVE
  BY DEF Unflapping, HasWaited
<1> QED BY <1>1, <1>2, <1>4, <1>5 DEF HasWaited, Waited

\* An entity that is untracked after a step, or new in it, owes nothing.
LEMMA FreshWaits ==
    ASSUME NEW e \in Entities, tier'[e] \in TierState,
           sinceSleep'[e] = ShortestPeriod,
           e \notin tracked' => tier'[e].effective = ACTIVE
    PROVE  HasWaited(e)'
<1>1. Waited(tier'[e]) \in Int /\ Waited(tier'[e]) <= ShortestPeriod
  BY WaitedBounded
<1>2. ShortestPeriod \in Nat
  BY ClockAssumption DEF ShortestPeriod
<1>3. sinceSleep'[e] >= Waited(tier'[e])
  BY <1>1, <1>2
<1> QED BY <1>3 DEF HasWaited, Waited

\* The history is inductive, and lets an entity that was never used fall asleep
\* only when it has waited: one step per kind of step.
LEMMA StepUnflapping ==
    ASSUME IInv, IInv', Unflapping, Next, CountCycles
    PROVE  Unflapping' /\ ThrashStep
<1>1. /\ used \subseteq tracked /\ tracked \subseteq Entities
      /\ sinceSleep \in [Entities -> 0 .. ShortestPeriod]
      /\ sinceSleep' \in [Entities -> 0 .. ShortestPeriod]
  BY HistoryMoves DEF IInv, TypeOK, Unflapping
<1>2. ASSUME NEW e \in Entities
      PROVE  /\ tier[e] \in TierState /\ tier'[e] \in TierState
             /\ Waited(tier[e]) \in Int /\ Waited(tier[e]) <= ShortestPeriod
             /\ Waited(tier'[e]) \in Int /\ Waited(tier'[e]) <= ShortestPeriod
             /\ sinceSleep[e] \in 0 .. ShortestPeriod
             /\ sinceSleep'[e] \in 0 .. ShortestPeriod
             /\ e \notin used => HasWaited(e)
             /\ e \notin tracked =>
                   /\ e \notin used /\ tier[e].effective = ACTIVE
                   /\ sinceSleep[e] = ShortestPeriod
  <2>1. tier[e] \in TierState /\ tier'[e] \in TierState
    BY DEF IInv, TypeOK
  <2>2. (e \notin used => HasWaited(e)) /\ (e \notin tracked => e \notin used)
    BY <1>1 DEF Unflapping
  <2> QED BY <1>1, <2>1, <2>2, WaitedBounded DEF HasWaited
<1>3. ShortestPeriod \in Nat \ {0} /\ CooldownCycles \in Nat /\ LeaseCycles \in Nat \ {0}
  BY ClockAssumption DEF ShortestPeriod
<1>4. CASE BeginRequestCycle
  <2>1. tracked' = tracked /\ used' = used /\ ~cycleOpen /\ cycleOpen'
    BY <1>4 DEF BeginRequestCycle, stats
  <2>2. ASSUME NEW e \in Entities \ used
        PROVE  HasWaited(e)' /\ (FallsAsleep(e) => sinceSleep[e] >= ShortestPeriod)
    <3>1. CASE e \notin tracked
      <4>1. tier'[e] = tier[e]
        BY <1>4, <3>1 DEF BeginRequestCycle
      <4>2. sinceSleep'[e] = ShortestPeriod
        BY <1>1, <2>1, <3>1, HistoryMoves
      <4> QED BY <1>2, <3>1, <4>1, <4>2, FreshWaits DEF FallsAsleep, COLD, DORMANT
    <3>2. CASE e \in tracked
      <4>1. PICK s \in TierState : s = tier[e]
        BY <1>2
      <4>2. PICK r \in TierState : r = NextCycle(FastSlept(e, s))
        BY <4>1, FastSleptIsCalm, NextCycleKeepsTiers
      <4>3. tier'[e] = r
        BY <1>4, <3>2, <4>1, <4>2 DEF BeginRequestCycle
      <4>4. CASE s.effective = COLD /\ r.effective = DORMANT
        <5>1. Waited(s) >= ShortestPeriod /\ Waited(r) <= 0
          BY <4>2, <4>4, CycleWaits
        <5>2. sinceSleep[e] >= ShortestPeriod
          BY <1>2, <1>3, <4>1, <5>1 DEF HasWaited
        <5>3. sinceSleep'[e] >= Waited(tier'[e])
          BY <1>2, <4>3, <5>1
        <5> QED BY <2>1, <3>2, <5>2, <5>3 DEF HasWaited, Waited
      <4>5. CASE ~(s.effective = COLD /\ r.effective = DORMANT)
        <5>1. Waited(r) <= Waited(s) + 1
          BY <4>2, <4>5, CycleWaits
        <5>2. ~FallsAsleep(e)
          BY <4>1, <4>3, <4>5 DEF FallsAsleep
        <5>3. sinceSleep'[e] = sinceSleep[e] + 1 \/ sinceSleep'[e] = ShortestPeriod
          BY <1>1, <2>1, <5>2, HistoryMoves
        <5>4. sinceSleep[e] >= Waited(s)
          BY <1>2, <4>1 DEF HasWaited
        <5>5. sinceSleep'[e] >= Waited(tier'[e])
          BY <1>2, <1>3, <4>1, <4>3, <5>1, <5>3, <5>4
        <5> QED BY <2>1, <3>2, <5>2, <5>5 DEF HasWaited, Waited
      <4> QED BY <4>4, <4>5
    <3> QED BY <3>1, <3>2
  <2> QED BY <1>1, <2>1, <2>2 DEF Unflapping, ThrashStep
<1>5. ASSUME NEW h \in Tools \cup Skills, NEW strong \in BOOLEAN, ShadowHit(h, strong)
      PROVE  Unflapping' /\ ThrashStep
  <2>1. /\ tracked \subseteq tracked' /\ used' = used /\ cycleOpen' = cycleOpen
        /\ \A x \in Entities :
             \/ tier'[x] = tier[x]
             \/ /\ x \notin tracked /\ x \in tracked'
                /\ tier'[x] = At(DORMANT) \/ tier'[x] = Woken(At(DORMANT))
             \/ /\ x \in tracked /\ MayWake(tier[x]) /\ tier'[x] = Woken(tier[x])
    BY <1>5, HitOutcome
  <2>2. ASSUME NEW e \in Entities \ used
        PROVE  HasWaited(e)' /\ ~FallsAsleep(e)
    <3>1. CASE tier'[e] = tier[e]
      BY <1>2, <2>1, <3>1, RestingWaits DEF Rests
    <3>2. CASE e \notin tracked /\ e \in tracked'
      <4>1. ~FallsAsleep(e)
        BY <1>2, <3>2 DEF FallsAsleep, ACTIVE, COLD
      <4>2. sinceSleep'[e] = ShortestPeriod
        BY <1>1, <1>2, <1>3, <3>2, <4>1, HistoryMoves
      <4> QED BY <1>2, <3>2, <4>1, <4>2, FreshWaits
    <3>3. CASE e \in tracked /\ MayWake(tier[e]) /\ tier'[e] = Woken(tier[e])
      <4>1. PICK s \in TierState : s = tier[e]
        BY <1>2
      <4>2. PICK r \in TierState : r = Woken(s) /\ r = tier'[e]
        BY <1>2, <3>3, <4>1
      <4>3. s.effective = DORMANT /\ s.cooldown = -1
        BY <3>3, <4>1, TierFields, ClockAssumption DEF MayWake
      <4>4. r.effective = COLD /\ r.lease = LeaseCycles
        BY <4>2 DEF Woken
      <4>5. Waited(s) = CooldownCycles /\ Waited(r) = CooldownCycles
        BY <1>3, <4>3, <4>4 DEF Waited, NoLease, COLD, DORMANT
      <4>6. ~FallsAsleep(e)
        BY <4>2, <4>4 DEF FallsAsleep, COLD, DORMANT
      <4>7. sinceSleep'[e] >= sinceSleep[e]
        BY <1>1, <4>6, HistoryMoves
      <4>8. sinceSleep[e] >= CooldownCycles
        BY <1>2, <4>1, <4>5 DEF HasWaited
      <4>9. sinceSleep'[e] >= Waited(tier'[e])
        BY <1>2, <1>3, <4>2, <4>5, <4>7, <4>8
      <4> QED BY <2>1, <3>3, <4>6, <4>9 DEF HasWaited, Waited
    <3> QED BY <2>1, <3>1, <3>2, <3>3
  <2> QED BY <1>1, <2>1, <2>2 DEF Unflapping, ThrashStep
<1>6. ASSUME NEW gone \in SUBSET Tools, PurgeInactiveToolSources(gone)
      PROVE  Unflapping' /\ ThrashStep
  <2>1. /\ tracked' = tracked \ gone /\ used' = used \ gone /\ cycleOpen' = cycleOpen
        /\ tier' = [e \in Entities |-> IF e \in gone THEN At(ACTIVE) ELSE tier[e]]
    BY <1>6 DEF PurgeInactiveToolSources, cycle
  <2>2. ASSUME NEW e \in Entities \ used'
        PROVE  HasWaited(e)' /\ ~FallsAsleep(e)
    <3>1. CASE e \in gone
      <4>1. tier'[e].effective = ACTIVE /\ e \notin tracked'
        BY <2>1, <3>1 DEF At
      <4>2. sinceSleep'[e] = ShortestPeriod
        BY <1>1, <4>1, HistoryMoves
      <4> QED BY <1>2, <4>1, <4>2, FreshWaits DEF FallsAsleep, ACTIVE, DORMANT
    <3>2. CASE e \notin gone
      <4>1. tier'[e] = tier[e] /\ e \notin used
        BY <2>1, <3>2
      <4> QED BY <1>2, <2>1, <3>2, <4>1, RestingWaits DEF Rests
    <3> QED BY <3>1, <3>2
  <2>3. Unflapping'
    BY <1>1, <2>1, <2>2 DEF Unflapping
  <2>4. used' \subseteq used
    BY <2>1
  <2> QED BY <2>2, <2>3, <2>4 DEF ThrashStep
<1>7. CASE Records
  <2>1. /\ tracked \subseteq tracked' /\ used \subseteq used'
        /\ used' \subseteq used \cup tracked'
    BY <1>7 DEF Records
  <2>2. ASSUME NEW e \in Entities \ used
        PROVE  ~FallsAsleep(e) /\ (e \notin used' => HasWaited(e)')
    <3>1. CASE tier'[e].effective # DORMANT /\ e \in used'
      BY <3>1 DEF FallsAsleep
    <3>2. CASE Rests(tier[e], e) /\ (e \notin tracked' => tier'[e].effective = tier[e].effective)
      BY <1>2, <2>1, <3>2, RestingWaits
    <3> QED BY <1>7, <3>1, <3>2 DEF Records
  <2>3. used' \subseteq tracked'
    BY <1>1, <2>1
  <2> QED BY <1>1, <2>1, <2>2, <2>3 DEF Unflapping, ThrashStep
<1> QED BY <1>4, <1>5, <1>6, <1>7, SleepKinds

\* The history starts with every entity free to sleep.
LEMMA InitUnflapping == CyclesInit => Unflapping
<1> SUFFICES ASSUME CyclesInit PROVE Unflapping
  OBVIOUS
<1>1. ShortestPeriod \in Nat /\ CooldownCycles \in Nat /\ LeaseCycles \in Nat
  BY ClockAssumption DEF ShortestPeriod
<1>2. sinceSleep = [e \in Entities |-> ShortestPeriod] /\ tracked = {} /\ used = {}
  BY DEF CyclesInit, Init
<1>3. ASSUME NEW e \in Entities PROVE HasWaited(e)
  <2>1. tier[e].effective = ACTIVE /\ tier[e].lease = NoLease
    BY DEF CyclesInit, Init, At
  <2> QED BY <1>1, <1>2, <2>1 DEF HasWaited, Waited, ACTIVE, DORMANT
<1> QED BY <1>1, <1>2, <1>3 DEF Unflapping

\* Both invariants along the history.
LEMMA CyclesInvariant == CyclesSpec => [](IInv /\ Unflapping)
<1>1. CyclesInit => IInv /\ Unflapping
  BY InitIInv, InitUnflapping DEF CyclesInit
<1>2. IInv /\ Unflapping /\ [Next /\ CountCycles]_<<vars, sinceSleep>>
        => (IInv /\ Unflapping)'
  <2> SUFFICES ASSUME IInv, Unflapping, [Next /\ CountCycles]_<<vars, sinceSleep>>
               PROVE  (IInv /\ Unflapping)'
    OBVIOUS
  <2>1. IInv'
    BY StepIInv
  <2>2. CASE Next /\ CountCycles
    BY <2>1, <2>2, StepUnflapping
  <2>3. CASE UNCHANGED <<vars, sinceSleep>>
    <3>1. Unflapping'
      BY <2>3 DEF Unflapping, HasWaited, Waited, vars, stats
    <3> QED BY <2>1, <3>1
  <2> QED BY <2>1, <2>2, <2>3
<1> QED BY <1>1, <1>2, PTL DEF CyclesSpec

\* From one sleep to the next, an entity that was never used has waited out its
\* cooldown and held its lease, whatever the other entities do.
THEOREM NoSleepWakeThrashCorrect == CyclesSpec => NoSleepWakeThrash
<1>1. IInv /\ Unflapping /\ [Next /\ CountCycles]_<<vars, sinceSleep>>
        => [ThrashStep]_<<vars, sinceSleep>>
  <2> SUFFICES ASSUME IInv, Unflapping, Next, CountCycles PROVE ThrashStep
    OBVIOUS
  <2> QED BY StepIInv, StepUnflapping
<1>2. [ThrashStep]_<<vars, sinceSleep>>
        => [\A e \in Entities \ used :
              FallsAsleep(e) => sinceSleep[e] >= ShortestPeriod]_<<vars, sinceSleep>>
  BY DEF ThrashStep
<1> QED BY <1>1, <1>2, CyclesInvariant, PTL DEF CyclesSpec, NoSleepWakeThrash
=============================================================================
