------------------------- MODULE ConnectionFlapping -------------------------
(***************************************************************************)
(* The flap detector of the executor's connection-health cache             *)
(* (cyt/executor/connection_flapping.py).  Each health refresh appends one *)
(* status per listed connection to a bounded window; a window showing a    *)
(* healthy / not healthy / healthy oscillation gates the connection for a  *)
(* penalty, and the gate opens again after the penalty and a run of        *)
(* healthy samples.                                                        *)
(*                                                                         *)
(* Time is kept as the remaining quarantine: the code compares an absolute *)
(* deadline with the clock, which is the same test.  A connection without  *)
(* an entry in the slug's bucket is represented by the entry the code      *)
(* would create for it (FreshState).                                       *)
(***************************************************************************)
EXTENDS Integers, Sequences, FiniteSets

CONSTANTS
    ConnectionKeys,     \* the ConnectionKeys of one slug
    Statuses,        \* values of lastHealth.status, "unknown" among them
    Healthy,         \* the one status that counts as healthy
    NotListed,       \* the connection is not in the listing just applied
    WindowSize, MinDegraded, MinTransitions,
    BasePenalty, PerDegraded, PerTransition, PerEpisode, MaxQuarantine,
    RecoveryHealthySamples,
    EpisodeCap       \* flap_episodes is counted up to here: see EpisodeCapAssumption

\* flapping_policy_from_config clamps what the configuration says to these
\* ranges.
ASSUME PolicyAssumption ==
    /\ Healthy \in Statuses /\ NotListed \notin Statuses
    /\ WindowSize \in Nat /\ WindowSize >= 2
    /\ MinDegraded \in Nat \ {0} /\ MinTransitions \in Nat \ {0}
    /\ BasePenalty \in Nat /\ PerDegraded \in Nat /\ PerTransition \in Nat
    /\ PerEpisode \in Nat /\ MaxQuarantine \in Nat
    /\ RecoveryHealthySamples \in Nat \ {0}
    /\ EpisodeCap \in Nat \ {0}

\* From EpisodeCap on, the episode bonus alone reaches the largest quarantine,
\* so counting further changes no penalty.
ASSUME EpisodeCapAssumption ==
    \/ (EpisodeCap - 1) * PerEpisode >= MaxQuarantine
    \/ PerEpisode = 0

VARIABLES
    flap,      \* [ConnectionKeys -> FlapState], the bucket of the slug
    upstream   \* what GET /api/connections lists now, the executor's to change

flapVars == <<flap, upstream>>

-----------------------------------------------------------------------------
(* The window.                                                             *)

FreshState == [history |-> <<>>, gated |-> FALSE, quarantine |-> 0,
               consecutive |-> 0, episodes |-> 0]

\* deque(maxlen=window_size).append
Appended(history, status) ==
    IF Len(history) < WindowSize THEN Append(history, status)
                                 ELSE Append(Tail(history), status)

UnhealthyAt(history) == {i \in DOMAIN history : history[i] # Healthy}

TransitionsAt(history) ==
    {i \in DOMAIN history : i > 1 /\ history[i] # history[i-1]}

Oscillates(history) ==
    \E i, j, k \in DOMAIN history :
        /\ i < j /\ j < k
        /\ history[i] = Healthy /\ history[j] # Healthy /\ history[k] = Healthy

IsFlapping(history) ==
    /\ Cardinality(UnhealthyAt(history)) >= MinDegraded
    /\ Cardinality(TransitionsAt(history)) >= MinTransitions
    /\ Oscillates(history)

RecentlyUnstable(history) ==
    \E i \in DOMAIN history : i >= Len(history) - 1 /\ history[i] # Healthy

Recent(history, n) == SubSeq(history, Len(history) - n + 1, Len(history))

MinOf(a, b) == IF a <= b THEN a ELSE b
MaxOf(a, b) == IF a >= b THEN a ELSE b

Penalty(history, episodes) ==
    MinOf(MaxQuarantine,
          BasePenalty + Cardinality(UnhealthyAt(history)) * PerDegraded
                      + Cardinality(TransitionsAt(history)) * PerTransition
                      + (episodes - 1) * PerEpisode)

\* Mutant of CanRelease: the healthy run is not required.
CanReleaseWithoutRun(s) ==
    /\ s.quarantine = 0
    /\ Len(s.history) >= RecoveryHealthySamples
    /\ ~IsFlapping(Recent(s.history, RecoveryHealthySamples))

CanRelease(s) ==
    /\ s.quarantine = 0
    /\ s.consecutive >= RecoveryHealthySamples
    /\ Len(s.history) >= RecoveryHealthySamples
    /\ ~IsFlapping(Recent(s.history, RecoveryHealthySamples))

\* gated_connections: the gate readers see.  It opens as soon as CanRelease
\* holds, one health refresh before the entry itself is released.
Gated(c) == flap[c].gated /\ ~CanRelease(flap[c])

-----------------------------------------------------------------------------
(* One sample, as update_flapping_states takes it.                         *)

WithRun(s, status, run) ==
    [history |-> Appended(s.history, status), gated |-> s.gated,
     quarantine |-> s.quarantine, consecutive |-> run, episodes |-> s.episodes]

NextRun(s) == MinOf(s.consecutive + 1, RecoveryHealthySamples)

\* Mutants of Recorded: an unhealthy sample does not end the run; the run is
\* only counted while the connection is not gated.
RecordedKeepingRun(s, status) ==
    WithRun(s, status, IF status = Healthy THEN NextRun(s) ELSE s.consecutive)
RecordedUngatedRun(s, status) ==
    WithRun(s, status, IF status = Healthy /\ ~s.gated THEN NextRun(s) ELSE 0)

Recorded(s, status) ==
    WithRun(s, status, IF status = Healthy THEN NextRun(s) ELSE 0)

ActivelyFlapping(s) == IsFlapping(s.history) /\ RecentlyUnstable(s.history)

NextEpisode(s) == IF s.gated THEN MinOf(s.episodes + 1, EpisodeCap) ELSE 1

Quarantined(s) ==
    [history |-> s.history, gated |-> TRUE,
     quarantine |-> MaxOf(s.quarantine, Penalty(s.history, NextEpisode(s))),
     consecutive |-> 0, episodes |-> NextEpisode(s)]

Released(s) ==
    [history |-> <<>>, gated |-> FALSE, quarantine |-> 0,
     consecutive |-> s.consecutive, episodes |-> 0]

Sampled(s, status) ==
    LET r == Recorded(s, status)
    IN  CASE ActivelyFlapping(r) -> Quarantined(r)
          [] ~ActivelyFlapping(r) /\ r.gated /\ CanRelease(r) -> Released(r)
          [] OTHER -> r

-----------------------------------------------------------------------------

Listings == [ConnectionKeys -> Statuses \cup {NotListed}]

FlapInit == /\ flap = [c \in ConnectionKeys |-> FreshState]
        /\ upstream \in Listings

\* The executor's own view of one connection changes, or the connection is
\* added to or removed from its listing.
UpstreamChanges(c) ==
    /\ \E status \in Statuses \cup {NotListed} :
           upstream' = [upstream EXCEPT ![c] = status]
    /\ UNCHANGED flap

\* A health refresh: one sample per listed connection; the entry of a
\* connection that is not listed survives only while it is gated.
UpdateFlappingStates ==
    /\ flap' = [c \in ConnectionKeys |->
                   CASE upstream[c] \in Statuses -> Sampled(flap[c], upstream[c])
                     [] upstream[c] = NotListed /\ flap[c].gated -> flap[c]
                     [] OTHER -> FreshState]
    /\ UNCHANGED upstream

\* One unit of the monotonic clock passes.
Elapse ==
    /\ \E c \in ConnectionKeys : flap[c].quarantine > 0
    /\ flap' = [c \in ConnectionKeys |->
                   [flap[c] EXCEPT !.quarantine = MaxOf(@ - 1, 0)]]
    /\ UNCHANGED upstream

\* The process stops and starts again: the executor's cold start reads the
\* catalog from disk and leaves the health part of it alone.
Restart ==
    /\ flap' = [c \in ConnectionKeys |-> FreshState]
    /\ UNCHANGED upstream

FlapNext == \/ \E c \in ConnectionKeys : UpstreamChanges(c)
        \/ UpdateFlappingStates
        \/ Elapse
        \/ Restart

\* The scheduler thread starts a health refresh every health_refresh_seconds
\* and the clock does not stop.  Nothing upstream, and no restart, is owed.
FlapSpec == /\ FlapInit /\ [][FlapNext]_flapVars
        /\ WF_flapVars(UpdateFlappingStates) /\ WF_flapVars(Elapse)

-----------------------------------------------------------------------------
(* Properties.                                                             *)

FlapState ==
    [history : Seq(Statuses), gated : BOOLEAN, quarantine : 0..MaxQuarantine,
     consecutive : 0..RecoveryHealthySamples, episodes : 0..EpisodeCap]

\* Every entry is well typed, its window holds at most WindowSize samples and
\* no quarantine exceeds max_quarantine_seconds, however often it is renewed.
FlapTypeOK ==
    /\ flap \in [ConnectionKeys -> FlapState]
    /\ \A c \in ConnectionKeys : Len(flap[c].history) <= WindowSize
    /\ upstream \in Listings

HealthyTail(history, n) ==
    \A i \in DOMAIN history : i > Len(history) - n => history[i] = Healthy

StreakIsInWindow ==
    \A c \in ConnectionKeys : HealthyTail(flap[c].history, flap[c].consecutive)

PenaltyOnlyWhileGated ==
    \A c \in ConnectionKeys :
        ~flap[c].gated => flap[c].quarantine = 0 /\ flap[c].episodes = 0

\* The counters of an entry agree with what they count.  consecutive_healthy and
\* the window are updated apart (gating also resets the counter, a release also
\* empties the window): the newest samples the counter speaks of are all healthy.
\* And a penalty belongs to an open gate episode: entries that are dropped from
\* the bucket because they are not gated lose no quarantine.
CountersAgree == StreakIsInWindow /\ PenaltyOnlyWhileGated

\* A gate is never opened on the counter's word alone: when a running
\* process stops gating a connection, the last RecoveryHealthySamples samples
\* it saw were healthy and its quarantine was over.
GateOpensOnlyWhenStable ==
    [][\A c \in ConnectionKeys :
          (flap[c].gated /\ ~flap'[c].gated /\ flap'[c] # FreshState)
          => /\ flap[c].quarantine = 0
             /\ upstream[c] = Healthy
             /\ HealthyTail(flap[c].history, RecoveryHealthySamples - 1)]_flapVars

\* A connection that the executor reports healthy from some time on does not
\* stay gated.
HealthyConnectionIsReleased ==
    \A c \in ConnectionKeys :
        <>[](upstream[c] = Healthy) => <>[](~Gated(c))
=============================================================================
