---------------------------- MODULE TierManager ----------------------------
(***************************************************************************)
(* The tier manager of one project (cyt/tiers/manager.py with evaluator.py,*)
(* wake.py and shadow.py).  Tools, skills and MCP servers move between the *)
(* tiers DORMANT .. EXTRA_HOT: a slow clock judges them at the end of each *)
(* prompt-cache epoch, a fast clock puts idle COLD entities to sleep at the*)
(* start of each request cycle, shadow search wakes DORMANT ones, and a    *)
(* successful use lifts an entity at once, for a limited time.             *)
(*                                                                         *)
(* Every action is one critical section of _state_lock, so the handlers of *)
(* concurrent requests, the shadow pool and the status command interleave  *)
(* freely.  What the snapshots and the database see of this state is the   *)
(* matter of TierPersistence.                                              *)
(*                                                                         *)
(* Numbers the code keeps absolute are kept relative: ticks since the start*)
(* of the epoch, ticks left of a promotion, request cycles left of a lease *)
(* or a cooldown.  The decaying statistics are sets: an entity belongs to  *)
(* `injected' when its counter is above zero, and since decay multiplies by*)
(* a positive factor it stays there.  What the thresholds say of the scores*)
(* is left open: see Verdicts.                                             *)
(***************************************************************************)
EXTENDS Integers, FiniteSets

CONSTANTS
    Tools, Skills, Servers,
    ServerOf,              \* [Tools -> Servers \cup {NoServer}]
    NoServer,
    EpochTicks,            \* epoch_ttl_ms
    IdleGapTriggersEpoch,  \* cache_epoch.idle_gap_triggers_epoch
    IdleTicks,             \* prompt_cache_ttl_minutes, the idle limit
    ToolPromotionTicks,    \* temp_promotion_until_ms under the tools' section
    SkillPromotionTicks,   \* ... and under the skills' section
    LeaseCycles,           \* wake.lease_cycles
    CooldownCycles         \* wake.cooldown_cycles

Entities == Tools \cup Skills \cup Servers

ASSUME KindsAssumption ==
    /\ Tools \cap Skills = {} /\ Tools \cap Servers = {}
    /\ Skills \cap Servers = {}
    /\ NoServer \notin Servers
    /\ ServerOf \in [Tools -> Servers \cup {NoServer}]

ASSUME ClockAssumption ==
    /\ EpochTicks \in Nat \ {0} /\ IdleTicks \in Nat \ {0}
    /\ IdleGapTriggersEpoch \in BOOLEAN
    /\ ToolPromotionTicks \in Nat \ {0} /\ SkillPromotionTicks \in Nat \ {0}
    /\ LeaseCycles \in Nat \ {0} /\ CooldownCycles \in Nat

VARIABLES
    tracked,       \* the keys of _states
    tier,          \* [Entities -> TierState]
    injected,      \* stats.injected > 0
    attempted,     \* stats.attempts > 0
    used,          \* stats.used > 0
    uwi,           \* stats.used_without_injection > 0
    epochUsed,     \* stats.epoch_used > 0
    lastInjected,  \* _last_injected_tools and _last_injected_skills
    active,        \* _cycle_selected, _cycle_used and _cycle_shadow
    cycleOpen,     \* _request_cycle_open
    age,           \* ticks since epoch_start_ms, EpochTicks when expired
    idle           \* ticks since last_request_ms, IdleTicks when over the gap

stats == <<injected, attempted, used, uwi, epochUsed>>
cycle == <<active, cycleOpen>>
clocks == <<age, idle>>
vars == <<tracked, tier, stats, lastInjected, cycle, clocks>>

-----------------------------------------------------------------------------
(* Tiers and the state of one entity.                                      *)

DORMANT   == 0
COLD      == 1
ACTIVE    == 2
HOT       == 3
EXTRA_HOT == 4
Tiers     == DORMANT .. EXTRA_HOT

NoOverlap == -1   \* overlap_tier is None
NoTemp    == -1   \* temp_promotion_until_ms is None
NoLease   == -2   \* wake_lease_until_cycle is 0; -1 is a lease that ran out

MaxOf(a, b) == IF a >= b THEN a ELSE b
MinOf(a, b) == IF a <= b THEN a ELSE b

TierState == [stable    : Tiers,
              effective : Tiers,
              overlap   : Tiers \cup {NoOverlap},
              temp      : NoTemp .. MaxOf(ToolPromotionTicks, SkillPromotionTicks),
              lease     : NoLease .. LeaseCycles,
              cooldown  : -1 .. CooldownCycles]

At(t) == [stable |-> t, effective |-> t, overlap |-> NoOverlap, temp |-> NoTemp,
          lease |-> NoLease, cooldown |-> -1]

\* s with both tiers set to t, as a step that settles the entity leaves it.
Settled(s, t, temp) ==
    [stable |-> t, effective |-> t, overlap |-> NoOverlap, temp |-> temp,
     lease |-> s.lease, cooldown |-> s.cooldown]

\* s with other cycle counts; s with another deadline.
WithCycles(s, lease, cooldown) ==
    [stable |-> s.stable, effective |-> s.effective, overlap |-> s.overlap,
     temp |-> s.temp, lease |-> lease, cooldown |-> cooldown]

Ticked(s) ==
    [stable |-> s.stable, effective |-> s.effective, overlap |-> s.overlap,
     temp |-> IF s.temp > 0 THEN s.temp - 1 ELSE s.temp,
     lease |-> s.lease, cooldown |-> s.cooldown]

\* A use is credited for the time its kind's section says.
PromotionTicks(e) == IF e \in Tools THEN ToolPromotionTicks ELSE SkillPromotionTicks

-----------------------------------------------------------------------------
(* The slow clock.                                                         *)

\* Mutant of Crystallized: the promotion's deadline survives.
CrystallizedKeepingTemp(s) ==
    IF s.stable >= HOT THEN Settled(s, s.stable, s.temp)
                       ELSE Settled(s, MaxOf(s.effective, HOT), s.temp)

\* crystallize_successful_tool_promotions_at_epoch, for an entity used in the
\* epoch.
Crystallized(s) ==
    IF s.stable >= HOT THEN Settled(s, s.stable, NoTemp)
                       ELSE Settled(s, MaxOf(s.effective, HOT), NoTemp)

\* expire_temporary_promotions: what was used keeps the tier it was lifted to.
Expired(s, wasUsed) ==
    IF s.temp = 0 /\ s.effective # s.stable
    THEN Settled(s, IF wasUsed /\ s.effective > s.stable THEN s.effective
                                                         ELSE s.stable, NoTemp)
    ELSE s

\* _tool_skip_demotion_on_epoch_success
SkipDemotion(e, success) == e \in Tools /\ e \in success

\* _tool_unused_at_t2; the counters are those after the record of the request.
Unused(e) == /\ e \in Tools \cup Skills
             /\ e \notin injected' \cup attempted' \cup used'

\* Mutant of Verdicts: a successful use no longer protects a tool.
VerdictsUnprotected(e, s, success) ==
    CASE s.effective = DORMANT -> {s.stable}
      [] OTHER -> (IF e \in injected' THEN {s.stable, MaxOf(s.stable - 1, COLD)}
                                      ELSE {s.stable})

\* evaluate_slow_clock: the stable tiers it may leave e at.  A promotion and
\* the demotions from HOT up need injections; which of the open outcomes is
\* taken is up to demand and utility.
Verdicts(e, s, success) ==
    LET whenInjected(t) == IF e \in injected' THEN {t} ELSE {}
        demotable(t)    == IF SkipDemotion(e, success) THEN {} ELSE whenInjected(t)
    IN  CASE s.effective = DORMANT -> {s.stable}
          [] OTHER ->
               CASE s.stable = EXTRA_HOT -> {EXTRA_HOT} \cup demotable(HOT)
                 [] s.stable = HOT ->
                      {HOT} \cup whenInjected(EXTRA_HOT) \cup demotable(ACTIVE)
                 [] s.stable = ACTIVE ->
                      IF SkipDemotion(e, success) THEN {ACTIVE}
                      ELSE IF Unused(e) THEN {COLD}
                      ELSE {ACTIVE, COLD} \cup whenInjected(HOT)
                 [] s.stable = COLD -> {COLD} \cup demotable(ACTIVE)
                 [] OTHER -> {s.stable}

\* _promote_tier (not temporary) keeps the deadline, _demote_tier clears it.
Judged(s, t) ==
    IF t = s.stable THEN s
    ELSE Settled(s, t, IF t > s.stable THEN s.temp ELSE NoTemp)

AtEpochEnd(e, s, success) ==
    Expired(IF e \in success THEN Crystallized(s) ELSE s, e \in used')

\* _run_epoch, from the tiers `t' and the successes of the epoch that ends.
RunEpoch(t, success) ==
    /\ \E verdict \in [tracked' -> Tiers] :
          /\ \A e \in tracked' :
                verdict[e] \in Verdicts(e, AtEpochEnd(e, t[e], success), success)
          /\ tier' = [e \in Entities |->
                LET s == AtEpochEnd(e, t[e], success)
                IN  IF e \in tracked' THEN Judged(s, verdict[e]) ELSE s]
    /\ epochUsed' = {}
    /\ age' = 0 /\ idle' = 0

\* epoch_boundary
EpochBoundary(sinceStart, sinceRequest) ==
    \/ sinceStart = EpochTicks
    \/ IdleGapTriggersEpoch /\ sinceRequest = IdleTicks

\* _touch_request.  It sets last_request_ms to now before it asks
\* epoch_boundary, so the request is always zero ticks old.
Touch(t, success) ==
    IF EpochBoundary(age, 0)
    THEN RunEpoch(t, success)
    ELSE /\ tier' = [e \in Entities |-> Expired(t[e], e \in used')]
         /\ epochUsed' = success
         /\ age' = age /\ idle' = 0

-----------------------------------------------------------------------------
(* The fast clock.                                                         *)

\* Mutant of FastSlept: a lease that ran out is not told from a running one.
FastSleptNever(e, s) ==
    IF s.effective # COLD \/ s.lease # NoLease THEN s
    ELSE IF e \in active \cup uwi THEN s
    ELSE [stable |-> DORMANT, effective |-> DORMANT, overlap |-> s.overlap,
          temp |-> s.temp, lease |-> NoLease, cooldown |-> CooldownCycles]

\* evaluate_fast_sleep: a COLD entity without a running lease sleeps unless the
\* last cycle touched it, which renews a lease it had.
FastSlept(e, s) ==
    IF s.effective # COLD \/ s.lease >= 0 THEN s
    ELSE IF e \in active \cup uwi
         THEN IF s.lease = NoLease THEN s ELSE WithCycles(s, LeaseCycles, s.cooldown)
         ELSE [stable |-> DORMANT, effective |-> DORMANT, overlap |-> s.overlap,
               temp |-> s.temp, lease |-> NoLease, cooldown |-> CooldownCycles]

\* What wake_cycle_id += 1 does to the cycles left.
NextCycle(s) ==
    WithCycles(s, IF s.lease = NoLease THEN NoLease ELSE MaxOf(s.lease - 1, -1),
                  MaxOf(s.cooldown - 1, -1))

\* Mutant of MayWake: the cooldown is not looked at.
MayWakeAtOnce(s) == s.effective = DORMANT

\* The guards of evaluate_fast_wake that do not look at the pressure.
MayWake(s) == s.effective = DORMANT /\ s.cooldown < 0

Woken(s) == [stable |-> COLD, effective |-> COLD, overlap |-> s.overlap,
             temp |-> s.temp, lease |-> LeaseCycles, cooldown |-> s.cooldown]

ToolsOf(srv) == {t \in Tools : ServerOf[t] = srv}

\* Mutant of AllDormant: the tools are asked for the wrong tier.
AllCold(srv, t, trk) ==
    /\ Cardinality(ToolsOf(srv)) >= 2
    /\ \A x \in ToolsOf(srv) : x \in trk => t[x].effective = COLD

\* _all_server_tools_dormant, for a server of at least two tools.
AllDormant(srv, t, trk) ==
    /\ Cardinality(ToolsOf(srv)) >= 2
    /\ \A x \in ToolsOf(srv) : x \in trk /\ t[x].effective = DORMANT

\* fast_promote_on_tool_use
FastPromoted(e, s) ==
    IF s.stable >= HOT
    THEN [stable |-> s.stable, effective |-> MaxOf(s.effective, s.stable),
          overlap |-> NoOverlap, temp |-> NoTemp,
          lease |-> s.lease, cooldown |-> s.cooldown]
    ELSE IF s.effective >= HOT THEN s
    ELSE [stable |-> s.stable,
          effective |-> IF s.effective >= COLD THEN HOT ELSE ACTIVE,
          overlap |-> IF s.effective >= COLD THEN s.stable ELSE s.overlap,
          temp |-> PromotionTicks(e), lease |-> s.lease, cooldown |-> s.cooldown]

-----------------------------------------------------------------------------
(* The operations of the manager.                                          *)

\* begin_request_cycle; while a cycle is open it returns at once, so requests
\* that overlap share one cycle.
BeginRequestCycle ==
    /\ ~cycleOpen
    /\ tier' = [e \in Entities |->
                  IF e \in tracked THEN NextCycle(FastSlept(e, tier[e]))
                                   ELSE tier[e]]
    /\ active' = {}
    /\ cycleOpen' = TRUE
    /\ UNCHANGED <<tracked, stats, lastInjected, clocks>>

\* end_request_cycle, by the first of the overlapping requests that ends.
EndRequestCycle ==
    /\ cycleOpen
    /\ cycleOpen' = FALSE
    /\ UNCHANGED <<tracked, tier, stats, lastInjected, active, clocks>>

\* record_tool_candidates, record_skill_candidates
RecordCandidates(S) ==
    /\ tracked' = tracked \cup S
    /\ active' = active \cup S
    /\ UNCHANGED <<injected, attempted, used, uwi, lastInjected, cycleOpen>>
    /\ Touch(tier, epochUsed)

\* record_tools_injected, record_skills_injected
RecordInjected(S, kind) ==
    /\ S \subseteq kind
    /\ tracked' = tracked \cup S
    /\ active' = active \cup S
    /\ injected' = injected \cup S
    /\ lastInjected' = (lastInjected \ kind) \cup S
    /\ UNCHANGED <<attempted, used, uwi, cycleOpen>>
    /\ Touch(tier, epochUsed)

\* record_tool_attempt with success = False
RecordToolFailure(e) ==
    /\ tracked' = tracked \cup {e}
    /\ attempted' = attempted \cup {e}
    /\ UNCHANGED <<injected, used, uwi, lastInjected, cycle>>
    /\ Touch(tier, epochUsed)

\* record_tool_attempt with success = True, record_skill_used; only the tool
\* path counts the attempt.
RecordUsed(e) ==
    /\ tracked' = tracked \cup {e}
    /\ attempted' = attempted \cup ({e} \cap Tools)
    /\ used' = used \cup {e}
    /\ uwi' = IF e \in lastInjected THEN uwi ELSE uwi \cup {e}
    /\ active' = active \cup {e}
    /\ UNCHANGED <<injected, lastInjected, cycleOpen>>
    /\ Touch([tier EXCEPT ![e] = FastPromoted(e, tier[e])], epochUsed \cup {e})

\* apply_shadow_tool_hits, apply_shadow_skill_hits, for one hit: a batch does
\* the same for each of its hits in turn, and a server it wakes changes nothing
\* the other hits read.  `strong' says the score or the pressure reaches the
\* wake threshold.  An entity the evaluation remembers but the manager has
\* dropped comes back as DORMANT.
ShadowHit(e, strong) ==
    LET trk     == tracked \cup {e}
        seen    == IF e \in tracked THEN tier
                                    ELSE [tier EXCEPT ![e] = At(DORMANT)]
        byServer == e \in Tools /\ ServerOf[e] # NoServer
                       /\ AllDormant(ServerOf[e], seen, trk)
        target  == IF byServer THEN ServerOf[e] ELSE e
        there   == IF target \in trk THEN seen
                                     ELSE [seen EXCEPT ![target] = At(DORMANT)]
        wakes   == (strong \/ target \in uwi) /\ MayWake(there[target])
    IN  /\ tracked' = trk \cup {target}
        /\ tier' = IF wakes THEN [there EXCEPT ![target] = Woken(there[target])]
                            ELSE there
        /\ active' = IF wakes THEN active \cup {target} ELSE active
        /\ UNCHANGED <<stats, lastInjected, cycleOpen, clocks>>

\* purge_inactive_tool_sources: its own critical section before every tool
\* operation.  `gone' left the configured catalog.
PurgeInactiveToolSources(gone) ==
    /\ gone # {} /\ gone \subseteq tracked \cap Tools
    /\ tracked' = tracked \ gone
    /\ tier' = [e \in Entities |-> IF e \in gone THEN At(ACTIVE) ELSE tier[e]]
    /\ injected' = injected \ gone
    /\ attempted' = attempted \ gone
    /\ used' = used \ gone
    /\ uwi' = uwi \ gone
    /\ epochUsed' = epochUsed \ gone
    /\ UNCHANGED <<lastInjected, cycle, clocks>>

\* status: _advance_epoch_if_age_expired
StatusPoll ==
    /\ age = EpochTicks
    /\ UNCHANGED <<tracked, injected, attempted, used, uwi, lastInjected, cycle>>
    /\ RunEpoch(tier, epochUsed)

\* The clock.
Tick ==
    /\ age' = MinOf(age + 1, EpochTicks)
    /\ idle' = IF IdleGapTriggersEpoch THEN MinOf(idle + 1, IdleTicks) ELSE 0
    /\ tier' = [e \in Entities |-> Ticked(tier[e])]
    /\ UNCHANGED <<tracked, stats, lastInjected, cycle>>

-----------------------------------------------------------------------------
\* TierManager.__init__ over an empty database: load_epoch_state starts with
\* wake_cycle_id 1 and an entity with sleep_cooldown_until_cycle 0, a cooldown
\* that has run out.
Init ==
    /\ tracked = {}
    /\ tier = [e \in Entities |-> At(ACTIVE)]
    /\ injected = {} /\ attempted = {} /\ used = {} /\ uwi = {} /\ epochUsed = {}
    /\ lastInjected = {} /\ active = {}
    /\ cycleOpen = FALSE
    /\ age = 0 /\ idle = 0

\* The steps in which the requests are about these tools and skills.
NextAbout(tools, skills) ==
    \/ BeginRequestCycle
    \/ EndRequestCycle
    \/ \E S \in (SUBSET tools) \cup (SUBSET skills) : RecordCandidates(S)
    \/ \E kind \in {tools, skills} : \E S \in SUBSET kind : RecordInjected(S, kind)
    \/ \E e \in tools : RecordToolFailure(e)
    \/ \E e \in tools \cup skills : RecordUsed(e)
    \/ \E e \in tools \cup skills, strong \in BOOLEAN : ShadowHit(e, strong)
    \/ \E gone \in SUBSET tools : PurgeInactiveToolSources(gone)
    \/ StatusPoll
    \/ Tick

Next == NextAbout(Tools, Skills)

Spec == Init /\ [][Next]_vars

\* Requests keep arriving and run_prune_plan returns: coordinate_prune calls
\* end_request_cycle in a finally block.
LiveSpec == Spec /\ WF_vars(BeginRequestCycle) /\ WF_vars(EndRequestCycle)

-----------------------------------------------------------------------------
(* Properties.                                                             *)

\* Every field stays in its range.
TypeOK ==
    /\ tracked \subseteq Entities
    /\ tier \in [Entities -> TierState]
    /\ injected \subseteq Entities /\ attempted \subseteq Entities
    /\ used \subseteq Entities /\ uwi \subseteq Entities
    /\ epochUsed \subseteq Entities
    /\ lastInjected \subseteq Entities /\ active \subseteq Entities
    /\ cycleOpen \in BOOLEAN
    /\ age \in 0 .. EpochTicks /\ idle \in 0 .. IdleTicks

\* The four fields of a state agree with each other.
Consistent(s) ==
    /\ s.effective >= s.stable
    /\ s.temp # NoTemp <=> s.effective > s.stable
    /\ s.overlap # NoOverlap => s.overlap = s.stable /\ s.temp # NoTemp
    /\ s.effective > s.stable => s.effective <= HOT

TierShape ==
    \A e \in Entities :
        /\ Consistent(tier[e])
        /\ tier[e].effective > tier[e].stable => e \in epochUsed

UsedIsAwake == \A e \in epochUsed : tier[e].effective >= ACTIVE /\ e \in used

\* Whatever order uses, epochs, sleeps, wakes and expiries come in, a deadline
\* is set exactly while the effective tier is above the stable one, the overlap
\* is then the stable tier, and only an entity used in this epoch is lifted
\* (_effective_tier_for and expire_temporary_promotions read one of the fields
\* and trust the others).  Conversely, an entity used in this epoch is awake and
\* past COLD, so neither the fast sleep nor a shadow wake can take hold of it.
TiersAgreeWithUse == TierShape /\ UsedIsAwake

\* _tool_skip_demotion_on_epoch_success: no step lowers a tool that was used
\* successfully in the running epoch, short of dropping it from the catalog,
\* and the epoch's end leaves it HOT or better.
SuccessWins ==
    [][\A e \in Tools \cap epochUsed \cap tracked' :
          /\ tier'[e].effective >= tier[e].effective
          /\ age = EpochTicks /\ age' = 0 => tier'[e].stable >= HOT]_vars

\* A shadow hit on a tool of a server whose tools are all asleep wakes the
\* server's entity and none of the tools ("every dormant tool on the MCP server
\* should stay DORMANT"): such a tool comes back only by a use, or with a server
\* that has fewer tools.
SleepingServerKeepsItsTools ==
    [][\A srv \in Servers :
          AllDormant(srv, tier, tracked) =>
             \A t \in ToolsOf(srv) \cap tracked' :
                t \notin used' => tier'[t].effective = DORMANT]_vars

\* While requests keep coming, a COLD entity that none of them selects, uses or
\* finds does not stay COLD for ever: its lease runs out and it sleeps.
IdleColdEntitySleeps ==
    \A e \in Entities :
        []<>(tier[e].effective # COLD \/ e \in active \cup uwi \/ e \notin tracked)
=============================================================================
