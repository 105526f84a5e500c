--------------------------- MODULE Executor_proofs ---------------------------
(***************************************************************************)
(* Proofs about the executor: the flap detector keeps its entries well     *)
(* formed and no policy opens a gate before the connection has been stable *)
(* (ConnectionFlapping); the scheduler's jobs leave the health cache and   *)
(* the catalog well typed, for any connections and any number of changes,  *)
(* failures and forced refreshes (ExecutorScheduler).                      *)
(***************************************************************************)
EXTENDS ConnectionFlapping, ExecutorScheduler, FiniteSetTheorems, TLAPS

-----------------------------------------------------------------------------
(* The flap detector.                                                       *)

USE DEF MinOf, MaxOf

\* One entry of the bucket as every handler leaves it.
EntryOK(s) ==
    /\ s \in FlapState
    /\ Len(s.history) <= WindowSize
    /\ HealthyTail(s.history, s.consecutive)
    /\ ~s.gated => s.quarantine = 0 /\ s.episodes = 0

\* The inductive invariant: the three invariants of the runs, entry by entry.
FlapInv ==
    /\ flap \in [ConnectionKeys -> FlapState]
    /\ \A c \in ConnectionKeys : EntryOK(flap[c])
    /\ upstream \in Listings

-----------------------------------------------------------------------------

\* Appending to the window shifts it by at most one sample.
LEMMA AppendedWindow ==
    ASSUME NEW h \in Seq(Statuses), Len(h) <= WindowSize, NEW st \in Statuses
    PROVE  /\ Appended(h, st) \in Seq(Statuses)
           /\ Len(Appended(h, st)) \in 1..WindowSize
           /\ Appended(h, st)[Len(Appended(h, st))] = st
           /\ \A i \in 1..(Len(Appended(h, st)) - 1) :
                 /\ Len(h) - (Len(Appended(h, st)) - 1 - i) \in DOMAIN h
                 /\ Appended(h, st)[i] = h[Len(h) - (Len(Appended(h, st)) - 1 - i)]
<1>1. CASE Len(h) < WindowSize
  BY <1>1, PolicyAssumption DEF Appended
<1>2. CASE ~(Len(h) < WindowSize)
  <2>1. Len(h) = WindowSize /\ Len(h) >= 2 /\ h # <<>>
    BY <1>2, PolicyAssumption
  <2>2. /\ Tail(h) \in Seq(Statuses)
        /\ Len(Tail(h)) = Len(h) - 1
        /\ \A i \in 1..(Len(h) - 1) : Tail(h)[i] = h[i + 1]
    BY <2>1
  <2>3. Appended(h, st) = Append(Tail(h), st)
    BY <1>2 DEF Appended
  <2> QED
    BY <2>1, <2>2, <2>3, PolicyAssumption
<1> QED
  BY <1>1, <1>2

\* A healthy sample lengthens a healthy tail by one.
LEMMA AppendedTail ==
    ASSUME NEW h \in Seq(Statuses), Len(h) <= WindowSize, NEW n \in Nat,
           HealthyTail(h, n)
    PROVE  HealthyTail(Appended(h, Healthy), n + 1)
<1> DEFINE a == Appended(h, Healthy)
<1>1. /\ a \in Seq(Statuses)
      /\ a[Len(a)] = Healthy
      /\ \A i \in 1..(Len(a) - 1) :
            /\ Len(h) - (Len(a) - 1 - i) \in DOMAIN h
            /\ a[i] = h[Len(h) - (Len(a) - 1 - i)]
  BY AppendedWindow, PolicyAssumption
<1>2. SUFFICES ASSUME NEW i \in DOMAIN a, i > Len(a) - (n + 1)
               PROVE  a[i] = Healthy
  BY DEF HealthyTail
<1> HIDE DEF a
<1>3. CASE i = Len(a)
  BY <1>1, <1>3
<1>4. CASE i # Len(a)
  <2>1. i \in 1..(Len(a) - 1)
    BY <1>1, <1>4
  <2>2. Len(h) - (Len(a) - 1 - i) > Len(h) - n
    BY <1>1, <1>2, <2>1
  <2> QED
    BY <1>1, <2>1, <2>2 DEF HealthyTail
<1> QED
  BY <1>3, <1>4

\* A shorter tail of a healthy tail is healthy, and every tail of length 0 is.
LEMMA TailShrinks ==
    ASSUME NEW h \in Seq(Statuses), NEW n \in Nat, NEW m \in 0..n,
           HealthyTail(h, n)
    PROVE  HealthyTail(h, m) /\ HealthyTail(h, 0)
BY DEF HealthyTail

LEMMA ProductNat ==
    ASSUME NEW a \in Nat, NEW b \in Nat
    PROVE  a * b \in Nat
OBVIOUS

\* The penalty of an episode is a duration and never exceeds the cap.
LEMMA PenaltyBounded ==
    ASSUME NEW h \in Seq(Statuses), NEW e \in Nat \ {0}
    PROVE  Penalty(h, e) \in 0..MaxQuarantine
<1>1. IsFiniteSet(DOMAIN h)
  <2>1. DOMAIN h = 1..Len(h) /\ Len(h) \in Nat
    OBVIOUS
  <2> QED
    BY <2>1, FS_Interval
<1>2. /\ Cardinality(UnhealthyAt(h)) \in Nat
      /\ Cardinality(TransitionsAt(h)) \in Nat
  BY <1>1, FS_Subset, FS_CardinalityType DEF UnhealthyAt, TransitionsAt
<1>3. /\ Cardinality(UnhealthyAt(h)) * PerDegraded \in Nat
      /\ Cardinality(TransitionsAt(h)) * PerTransition \in Nat
      /\ (e - 1) * PerEpisode \in Nat
  BY <1>2, ProductNat, PolicyAssumption
<1> QED
  BY <1>3, PolicyAssumption DEF Penalty

-----------------------------------------------------------------------------

\* The fields of an entry, and the entry from its fields.
LEMMA EntryFields ==
    ASSUME NEW s \in FlapState
    PROVE  /\ s = [history |-> s.history, gated |-> s.gated,
                   quarantine |-> s.quarantine,
                   consecutive |-> s.consecutive, episodes |-> s.episodes]
           /\ s.history \in Seq(Statuses)
           /\ s.gated \in BOOLEAN
           /\ s.quarantine \in 0..MaxQuarantine
           /\ s.consecutive \in 0..RecoveryHealthySamples
           /\ s.episodes \in 0..EpisodeCap
BY Zenon DEF FlapState

LEMMA FreshOK == EntryOK(FreshState)
BY PolicyAssumption DEF EntryOK, FreshState, FlapState, HealthyTail

\* Appending a sample keeps the entry well formed.
LEMMA RecordedOK ==
    ASSUME NEW s, EntryOK(s), NEW st \in Statuses
    PROVE  /\ EntryOK(Recorded(s, st))
           /\ Recorded(s, st).gated = s.gated
           /\ Recorded(s, st).quarantine = s.quarantine
           /\ Recorded(s, st).episodes = s.episodes
<1> DEFINE r == Recorded(s, st)
<1>1. /\ s \in FlapState
      /\ Appended(s.history, st) \in Seq(Statuses)
      /\ Len(Appended(s.history, st)) <= WindowSize
  BY AppendedWindow DEF EntryOK, FlapState
<1>2. /\ r \in FlapState
      /\ r.history = Appended(s.history, st)
      /\ r.consecutive = IF st = Healthy
                         THEN NextRun(s) ELSE 0
      /\ r.gated = s.gated /\ r.quarantine = s.quarantine
      /\ r.episodes = s.episodes
  <2> DEFINE run == IF st = Healthy
                    THEN NextRun(s) ELSE 0
  <2>1. r = [history |-> Appended(s.history, st), gated |-> s.gated,
             quarantine |-> s.quarantine, consecutive |-> run,
             episodes |-> s.episodes]
    BY <1>1, EntryFields DEF Recorded, WithRun
  <2>2. run \in 0..RecoveryHealthySamples
    BY <1>1, PolicyAssumption, EntryFields DEF NextRun
  <2> QED
    BY <1>1, <2>1, <2>2, EntryFields DEF FlapState
<1>3. HealthyTail(r.history, r.consecutive)
  <2>1. CASE st = Healthy
    <3>1. HealthyTail(Appended(s.history, st), s.consecutive + 1)
      BY <2>1, <1>1, AppendedTail DEF EntryOK, FlapState
    <3> QED
      BY <3>1, <2>1, <1>1, <1>2, PolicyAssumption, TailShrinks DEF NextRun, FlapState
  <2>2. CASE st # Healthy
    BY <2>2, <1>1, <1>2 DEF HealthyTail
  <2> QED
    BY <2>1, <2>2
<1> QED
  BY <1>1, <1>2, <1>3 DEF EntryOK

\* Gating an entry, or renewing its penalty, keeps it well formed.
LEMMA QuarantinedOK ==
    ASSUME NEW r, EntryOK(r)
    PROVE  EntryOK(Quarantined(r))
<1> DEFINE e == NextEpisode(r)
<1>1. r \in FlapState
  BY DEF EntryOK
<1>2. e \in 1..EpisodeCap
  BY <1>1, EntryFields, PolicyAssumption DEF NextEpisode
<1>3. Penalty(r.history, e) \in 0..MaxQuarantine
  BY <1>1, <1>2, EntryFields, PolicyAssumption, PenaltyBounded
<1>4. Quarantined(r) = [history |-> r.history, gated |-> TRUE,
                        quarantine |-> MaxOf(r.quarantine,
                                             Penalty(r.history, e)),
                        consecutive |-> 0, episodes |-> e]
  BY DEF Quarantined
<1>5. /\ MaxOf(r.quarantine, Penalty(r.history, e)) \in 0..MaxQuarantine
      /\ e \in 0..EpisodeCap
      /\ 0 \in 0..RecoveryHealthySamples
  BY <1>1, <1>2, <1>3, EntryFields, PolicyAssumption
<1>6. Quarantined(r) \in FlapState
  BY <1>1, <1>4, <1>5, EntryFields DEF FlapState
<1>7. HealthyTail(r.history, 0)
  BY DEF HealthyTail
<1> QED
  BY <1>4, <1>6, <1>7 DEF EntryOK

\* Releasing an entry keeps it well formed.
LEMMA ReleasedOK ==
    ASSUME NEW r, EntryOK(r)
    PROVE  EntryOK(Released(r))
<1>1. r \in FlapState
  BY DEF EntryOK
<1>2. Released(r) = [history |-> <<>>, gated |-> FALSE, quarantine |-> 0,
                     consecutive |-> r.consecutive, episodes |-> 0]
  BY DEF Released
<1>3. Released(r) \in FlapState
  BY <1>1, <1>2, EntryFields, PolicyAssumption DEF FlapState
<1>4. HealthyTail(<<>>, r.consecutive) /\ Len(<<>>) <= WindowSize
  BY PolicyAssumption DEF HealthyTail
<1> QED
  BY <1>2, <1>3, <1>4 DEF EntryOK

\* One sample keeps the entry well formed, whatever it decides.
LEMMA SampledOK ==
    ASSUME NEW s, EntryOK(s), NEW st \in Statuses
    PROVE  EntryOK(Sampled(s, st))
<1> DEFINE r == Recorded(s, st)
<1>1. EntryOK(r) /\ EntryOK(Quarantined(r)) /\ EntryOK(Released(r))
  BY RecordedOK, QuarantinedOK, ReleasedOK
<1>2. Sampled(s, st) \in {Quarantined(r), Released(r), r}
  BY DEF Sampled
<1> QED
  BY <1>1, <1>2

-----------------------------------------------------------------------------

LEMMA InitFlapInv == FlapInit => FlapInv
BY FreshOK DEF FlapInit, FlapInv, EntryOK

LEMMA StepFlapInv == FlapInv /\ [FlapNext]_flapVars => FlapInv'
<1> SUFFICES ASSUME FlapInv, [FlapNext]_flapVars
             PROVE  FlapInv'
  OBVIOUS
<1> USE DEF FlapInv
<1>1. ASSUME NEW c \in ConnectionKeys, UpstreamChanges(c)
      PROVE  FlapInv'
  BY <1>1 DEF UpstreamChanges, Listings
<1>2. CASE UpdateFlappingStates
  <2>1. ASSUME NEW c \in ConnectionKeys
        PROVE  EntryOK(flap'[c]) /\ flap'[c] \in FlapState
    <3>1. \/ upstream[c] \in Statuses /\ flap'[c] = Sampled(flap[c], upstream[c])
          \/ flap'[c] = flap[c]
          \/ flap'[c] = FreshState
      BY <1>2 DEF UpdateFlappingStates
    <3> QED
      BY <3>1, SampledOK, FreshOK DEF EntryOK
  <2> QED
    BY <1>2, <2>1 DEF UpdateFlappingStates
<1>3. CASE Elapse
  <2>1. ASSUME NEW c \in ConnectionKeys
        PROVE  EntryOK(flap'[c]) /\ flap'[c] \in FlapState
    <3>1. flap[c] \in FlapState /\ EntryOK(flap[c])
      OBVIOUS
    <3>2. flap'[c] = [flap[c] EXCEPT !.quarantine = MaxOf(@ - 1, 0)]
      BY <1>3 DEF Elapse
    <3>3. flap'[c] = [history |-> flap[c].history, gated |-> flap[c].gated,
                      quarantine |-> MaxOf(flap[c].quarantine - 1, 0),
                      consecutive |-> flap[c].consecutive,
                      episodes |-> flap[c].episodes]
      BY <3>1, <3>2, EntryFields
    <3>4. /\ MaxOf(flap[c].quarantine - 1, 0) \in 0..MaxQuarantine
          /\ flap[c].quarantine = 0 => MaxOf(flap[c].quarantine - 1, 0) = 0
      BY <3>1, EntryFields, PolicyAssumption
    <3> QED
      BY <3>1, <3>3, <3>4, EntryFields DEF EntryOK, FlapState
  <2> QED
    BY <1>3, <2>1 DEF Elapse
<1>4. CASE Restart
  BY <1>4, FreshOK DEF Restart, EntryOK
<1>5. CASE UNCHANGED flapVars
  BY <1>5 DEF flapVars
<1> QED
  BY <1>1, <1>2, <1>3, <1>4, <1>5 DEF FlapNext

LEMMA FlapInvariant == FlapSpec => []FlapInv
BY InitFlapInv, StepFlapInv, PTL DEF FlapSpec

\* Windows stay bounded and no quarantine exceeds max_quarantine_seconds,
\* whatever the policy and however often a penalty is renewed.
THEOREM FlapTypeCorrect == FlapSpec => []FlapTypeOK
<1>1. FlapInv => FlapTypeOK
  BY DEF FlapInv, FlapTypeOK, EntryOK
<1> QED
  BY <1>1, FlapInvariant, PTL

\* The healthy run that consecutive_healthy claims is the end of the window, and
\* dropping an entry that is not gated forgets no penalty.
THEOREM CountersAgreeCorrect == FlapSpec => []CountersAgree
<1>1. FlapInv => StreakIsInWindow
  BY DEF FlapInv, StreakIsInWindow, EntryOK
<1>2. FlapInv => PenaltyOnlyWhileGated
  BY DEF FlapInv, PenaltyOnlyWhileGated, EntryOK
<1>3. FlapInv => CountersAgree
  BY <1>1, <1>2 DEF CountersAgree
<1> QED
  BY <1>3, FlapInvariant, PTL

\* A sample that opens a gate is the last of a healthy run as long as the
\* policy asks for.
LEMMA SampleOpensGate ==
    ASSUME NEW s, EntryOK(s), NEW st \in Statuses,
           s.gated, ~Sampled(s, st).gated
    PROVE  /\ s.quarantine = 0
           /\ st = Healthy
           /\ HealthyTail(s.history, RecoveryHealthySamples - 1)
<1> DEFINE r == Recorded(s, st)
<1>1. s \in FlapState
  BY DEF EntryOK
<1>2. r.gated
  BY RecordedOK
<1>3. Quarantined(r).gated
  BY DEF Quarantined
<1>4. CanRelease(r)
  BY <1>2, <1>3 DEF Sampled
<1>5. /\ s.quarantine = 0
      /\ r.consecutive >= RecoveryHealthySamples
  BY <1>4, RecordedOK DEF CanRelease
<1>6. r.consecutive = IF st = Healthy THEN NextRun(s) ELSE 0
  BY DEF Recorded, WithRun
<1> HIDE DEF r
<1>7. st = Healthy /\ s.consecutive >= RecoveryHealthySamples - 1
  BY <1>1, <1>5, <1>6, EntryFields, PolicyAssumption DEF NextRun
<1>8. /\ RecoveryHealthySamples - 1 \in 0..s.consecutive
      /\ s.consecutive \in Nat
      /\ s.history \in Seq(Statuses)
  BY <1>1, <1>7, EntryFields, PolicyAssumption
<1> QED
  BY <1>5, <1>7, <1>8, TailShrinks DEF EntryOK

\* A running process opens a gate only after the quarantine and a healthy
\* run of the length the policy asks for.
THEOREM GateOpensOnlyWhenStableCorrect == FlapSpec => GateOpensOnlyWhenStable
<1> DEFINE OpensStable(c) ==
        (flap[c].gated /\ ~flap'[c].gated /\ flap'[c] # FreshState)
        => /\ flap[c].quarantine = 0
           /\ upstream[c] = Healthy
           /\ HealthyTail(flap[c].history, RecoveryHealthySamples - 1)
<1>1. FlapInv /\ [FlapNext]_flapVars => \A c \in ConnectionKeys : OpensStable(c)
  <2> SUFFICES ASSUME FlapInv, [FlapNext]_flapVars, NEW c \in ConnectionKeys
               PROVE  OpensStable(c)
    OBVIOUS
  <2>1. EntryOK(flap[c])
    BY DEF FlapInv
  <2>2. CASE \E d \in ConnectionKeys : UpstreamChanges(d)
    BY <2>2 DEF UpstreamChanges
  <2>3. CASE UpdateFlappingStates
    <3>1. \/ /\ upstream[c] \in Statuses
             /\ flap'[c] = Sampled(flap[c], upstream[c])
          \/ flap'[c] = flap[c]
          \/ flap'[c] = FreshState
      BY <2>3 DEF UpdateFlappingStates
    <3> QED
      BY <2>1, <3>1, SampleOpensGate
  <2>4. CASE Elapse
    <3>1. flap'[c] = [flap[c] EXCEPT !.quarantine = MaxOf(@ - 1, 0)]
      BY <2>4 DEF Elapse
    <3> QED
      BY <2>1, <3>1 DEF EntryOK, FlapState
  <2>5. CASE Restart
    BY <2>5 DEF Restart
  <2>6. CASE UNCHANGED flapVars
    BY <2>6 DEF flapVars
  <2> QED
    BY <2>2, <2>3, <2>4, <2>5, <2>6 DEF FlapNext
<1> QED
  BY <1>1, FlapInvariant, PTL DEF FlapSpec, GateOpensOnlyWhenStable

-----------------------------------------------------------------------------
(* The scheduler.                                                            *)

\* What the catalog and the health cache have of TypeOK, the jobs carry in their
\* copies: a cycle's bootstrap lists what it calls healthy, and a copy of the
\* catalog has the tool of every schema.
CopiesOK ==
    /\ hjob.ok \subseteq hjob.working
    /\ ljob.schemas \subseteq ljob.tools
    /\ sjob.schemas \subseteq sjob.tools

IInv == TypeOK /\ CopiesOK

-----------------------------------------------------------------------------

LEMMA CountedOK == ASSUME events \in 0..MaxEvents, Counted PROVE events' \in 0..MaxEvents
BY SchedulerAssumption DEF Counted

\* Probing keeps healthy what is listed.
LEMMA ProbedOK ==
    ASSUME IInv, NEW answered \in SUBSET (hjob.working \cap listed)
    PROVE  Probed(answered) \subseteq hjob.working
BY DEF IInv, TypeOK, CopiesOK, Probed, HealthJob

LEMMA InitIInv == Init => IInv
<1> SUFFICES ASSUME Init PROVE IInv
  OBVIOUS
<1>1. health \in Health /\ sched \in Scheduler
  BY DEF Init, Health, Scheduler
<1>2. hjob \in HealthJob /\ ljob \in ListJob /\ sjob \in SchemaJob
  BY DEF Init, HealthJob, ListJob, SchemaJob, NoHealthJob, NoListJob, NoSchemaJob
<1>3. CopiesOK
  BY DEF Init, CopiesOK, NoHealthJob, NoListJob, NoSchemaJob
<1> QED BY <1>1, <1>2, <1>3, SchedulerAssumption DEF Init, IInv, TypeOK

LEMMA ExecutorIInv == IInv /\ Change => IInv'
<1> SUFFICES ASSUME IInv, Change PROVE IInv'
  OBVIOUS
<1>1. events' \in 0..MaxEvents
  BY CountedOK DEF Change, IInv, TypeOK
<1>2. listed' \subseteq Connections /\ up' \subseteq listed'
  BY DEF Change, IInv, TypeOK
<1> QED BY <1>1, <1>2 DEF Change, IInv, TypeOK, CopiesOK, catalog

\* A turn of the loop starts jobs and ends the interval, and nothing else.
LEMMA LoopIInv == IInv /\ (ForceRefresh \/ SchemaIntervalEnds \/ Tick) => IInv'
<1> USE DEF IInv, TypeOK, CopiesOK, executor, catalog
<1>1. ASSUME IInv, ForceRefresh PROVE IInv'
  <2>1. events' \in 0..MaxEvents
    BY <1>1, CountedOK DEF ForceRefresh
  <2>2. sched' \in Scheduler
    BY <1>1 DEF ForceRefresh, Scheduler
  <2> QED BY <1>1, <2>1, <2>2 DEF ForceRefresh
<1>2. ASSUME IInv, SchemaIntervalEnds PROVE IInv'
  <2>1. sched' \in Scheduler
    BY <1>2 DEF SchemaIntervalEnds, Scheduler
  <2> QED BY <1>2, <2>1 DEF SchemaIntervalEnds
<1>3. ASSUME IInv, Tick PROVE IInv'
  <2>1. hjob' \in HealthJob /\ hjob'.ok \subseteq hjob'.working
    BY <1>3 DEF Tick, StartHealth, HealthJob
  <2>2. ljob' \in ListJob /\ ljob'.schemas \subseteq ljob'.tools
    BY <1>3 DEF Tick, StartList, ListJob
  <2>3. sjob' \in SchemaJob /\ sjob'.schemas \subseteq sjob'.tools
    BY <1>3 DEF Tick, StartSchema, SchemaJob
  <2>4. sched' \in Scheduler
    BY <1>3 DEF Tick, StartSchema, Scheduler
  <2> QED BY <1>3, <2>1, <2>2, <2>3, <2>4 DEF Tick
<1> QED BY <1>1, <1>2, <1>3

\* A cycle replaces the snapshot as a whole and evicts from the catalog.
LEMMA HealthIInv == IInv /\ HealthStep => IInv'
<1> USE DEF IInv, TypeOK, CopiesOK, executor, catalog
<1>1. ASSUME IInv, HealthBootstrap PROVE IInv'
  <2>1. hjob' \in HealthJob /\ hjob'.ok \subseteq hjob'.working
    BY <1>1 DEF HealthBootstrap, HealthJob
  <2> QED BY <1>1, <2>1 DEF HealthBootstrap
<1>2. ASSUME IInv, HealthProbe PROVE IInv'
  <2>1. PICK answered \in SUBSET (hjob.working \cap listed) :
            /\ UNCHANGED events \/ Counted
            /\ health' = Snapshot(hjob.working, Probed(answered))
    BY <1>2 DEF HealthProbe
  <2>2. events' \in 0..MaxEvents
    BY <1>2, <2>1, CountedOK
  <2>3. health' \in Health /\ health'.healthy \subseteq health'.connections
    BY <1>2, <2>1, ProbedOK DEF Snapshot, Health, HealthJob
  <2>4. hjob' \in HealthJob /\ hjob'.ok \subseteq hjob'.working
    BY <1>2 DEF HealthProbe, NoHealthJob, HealthJob
  <2> QED BY <1>2, <2>2, <2>3, <2>4 DEF HealthProbe
<1>3. ASSUME IInv, HealthFinal PROVE IInv'
  <2>1. health' \in Health /\ health'.healthy \subseteq health'.connections
    BY <1>3 DEF HealthFinal, Snapshot, Health
  <2>2. hjob' \in HealthJob /\ hjob'.ok \subseteq hjob'.working
    BY <1>3 DEF HealthFinal, Delta, HealthJob, Health
  <2> QED BY <1>3, <2>1, <2>2 DEF HealthFinal
<1>4. ASSUME IInv, HealthPublish PROVE IInv'
  <2>1. sched' \in Scheduler
    BY <1>4 DEF HealthPublish, Scheduler, HealthJob
  <2>2. hjob' \in HealthJob /\ hjob'.ok \subseteq hjob'.working
    BY <1>4 DEF HealthPublish, NoHealthJob, HealthJob
  <2> QED BY <1>4, <2>1, <2>2 DEF HealthPublish
<1>5. ASSUME IInv, HealthFails PROVE IInv'
  <2>1. events' \in 0..MaxEvents
    BY <1>5, CountedOK DEF HealthFails
  <2>2. hjob' \in HealthJob /\ hjob'.ok \subseteq hjob'.working
    BY <1>5 DEF HealthFails, NoHealthJob, HealthJob
  <2> QED BY <1>5, <2>1, <2>2 DEF HealthFails
<1>6. ASSUME IInv, HealthEnds PROVE IInv'
  <2>1. hjob' \in HealthJob /\ hjob'.ok \subseteq hjob'.working
    BY <1>6 DEF HealthEnds, NoHealthJob, HealthJob
  <2> QED BY <1>6, <2>1 DEF HealthEnds
<1> QED BY <1>1, <1>2, <1>3, <1>4, <1>5, <1>6 DEF HealthStep

\* A refresh of the list adds tools and writes back a copy of both halves.
LEMMA ListIInv == IInv /\ ListStep => IInv'
<1> USE DEF IInv, TypeOK, CopiesOK, executor, catalog
<1>1. ASSUME IInv, ListFetch PROVE IInv'
  <2>1. ljob' \in ListJob /\ ljob'.schemas \subseteq ljob'.tools
    BY <1>1 DEF ListFetch, ListJob
  <2> QED BY <1>1, <2>1 DEF ListFetch
<1>2. ASSUME IInv, ListMerge PROVE IInv'
  <2>1. tools' \subseteq Connections /\ schemas' \subseteq tools'
    BY <1>2 DEF ListMerge, ListJob
  <2>2. ljob' \in ListJob /\ ljob'.schemas \subseteq ljob'.tools
    BY <1>2, <2>1 DEF ListMerge, ListJob
  <2> QED BY <1>2, <2>1, <2>2 DEF ListMerge
<1>3. ASSUME IInv, ListApply PROVE IInv'
  <2>1. tools' \subseteq Connections /\ schemas' \subseteq tools'
    BY <1>3 DEF ListApply, ListJob
  <2>2. ljob' \in ListJob /\ ljob'.schemas \subseteq ljob'.tools
    BY <1>3 DEF ListApply, NoListJob, ListJob
  <2> QED BY <1>3, <2>1, <2>2 DEF ListApply
<1>4. ASSUME IInv, ListDone PROVE IInv'
  <2>1. sched' \in Scheduler
    BY <1>4 DEF ListDone, Scheduler, Fingerprint, Health
  <2>2. ljob' \in ListJob /\ ljob'.schemas \subseteq ljob'.tools
    BY <1>4 DEF ListDone, NoListJob, ListJob
  <2> QED BY <1>4, <2>1, <2>2 DEF ListDone
<1>5. ASSUME IInv, ListFails PROVE IInv'
  <2>1. events' \in 0..MaxEvents
    BY <1>5, CountedOK DEF ListFails
  <2>2. ljob' \in ListJob /\ ljob'.schemas \subseteq ljob'.tools
    BY <1>5 DEF ListFails, NoListJob, ListJob
  <2> QED BY <1>5, <2>1, <2>2 DEF ListFails
<1> QED BY <1>1, <1>2, <1>3, <1>4, <1>5 DEF ListStep

\* A refresh of the schemas asks for tools of the catalog and merges the tool with
\* its schema.
LEMMA SchemaIInv == IInv /\ SchemaStep => IInv'
<1> USE DEF IInv, TypeOK, CopiesOK, executor, catalog
<1>1. ASSUME IInv, SchemaSelect PROVE IInv'
  <2>1. sjob' \in SchemaJob /\ sjob'.schemas \subseteq sjob'.tools
    BY <1>1 DEF SchemaSelect, Eligible, SchemaJob
  <2> QED BY <1>1, <2>1 DEF SchemaSelect
<1>2. ASSUME IInv, SchemaTake PROVE IInv'
  <2>1. sched' \in Scheduler
    BY <1>2 DEF SchemaTake, Scheduler
  <2>2. sjob' \in SchemaJob /\ sjob'.schemas \subseteq sjob'.tools
    BY <1>2 DEF SchemaTake, NoSchemaJob, SchemaJob
  <2> QED BY <1>2, <2>1, <2>2 DEF SchemaTake
<1>3. ASSUME IInv, SchemaMerge PROVE IInv'
  <2>1. PICK got \in SUBSET (sjob.todo \cap listed) :
            /\ UNCHANGED events \/ Counted
            /\ tools' = tools \cup sjob.todo
            /\ schemas' = schemas \cup got
    BY <1>3 DEF SchemaMerge
  <2>2. events' \in 0..MaxEvents
    BY <1>3, <2>1, CountedOK
  <2>3. tools' \subseteq Connections /\ schemas' \subseteq tools'
    BY <1>3, <2>1 DEF SchemaJob
  <2>4. sjob' \in SchemaJob /\ sjob'.schemas \subseteq sjob'.tools
    BY <1>3, <2>3 DEF SchemaMerge, SchemaJob
  <2> QED BY <1>3, <2>2, <2>3, <2>4 DEF SchemaMerge
<1>4. ASSUME IInv, SchemaApply PROVE IInv'
  <2>1. tools' \subseteq Connections /\ schemas' \subseteq tools'
    BY <1>4 DEF SchemaApply, SchemaJob
  <2>2. sjob' \in SchemaJob /\ sjob'.schemas \subseteq sjob'.tools
    BY <1>4 DEF SchemaApply, NoSchemaJob, SchemaJob
  <2> QED BY <1>4, <2>1, <2>2 DEF SchemaApply
<1>5. ASSUME IInv, SchemaFails PROVE IInv'
  <2>1. events' \in 0..MaxEvents
    BY <1>5, CountedOK DEF SchemaFails
  <2>2. sjob' \in SchemaJob /\ sjob'.schemas \subseteq sjob'.tools
    BY <1>5 DEF SchemaFails, NoSchemaJob, SchemaJob
  <2> QED BY <1>5, <2>1, <2>2 DEF SchemaFails
<1> QED BY <1>1, <1>2, <1>3, <1>4, <1>5 DEF SchemaStep

LEMMA StepIInv == IInv /\ [Next]_vars => IInv'
<1>1. ASSUME IInv, UNCHANGED vars PROVE IInv'
  BY <1>1 DEF vars, executor, catalog, IInv, TypeOK, CopiesOK
<1> QED BY <1>1, ExecutorIInv, LoopIInv, HealthIInv, ListIInv, SchemaIInv DEF Next

-----------------------------------------------------------------------------

\* Whatever the three jobs write over each other, the health cache calls healthy
\* only connections it knows, and every schema in the catalog belongs to a tool
\* that is there (apply_health_snapshot, _apply_catalog_to_state).
THEOREM TypeCorrect == Spec => []TypeOK
<1>1. IInv => TypeOK
  BY DEF IInv
<1> QED BY <1>1, InitIInv, StepIInv, PTL DEF Spec
=============================================================================
