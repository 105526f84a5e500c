------------------------- MODULE ExecutorScheduler -------------------------
(***************************************************************************)
(* The background scheduler of the Executor's catalog                      *)
(* (cyt/executor/cache_scheduler.py, connection_health.py, http.py).       *)
(*                                                                         *)
(* A loop looks every 100 ms at what is due and starts a thread for it: a  *)
(* health cycle, a refresh of the list of tools, a refresh of their input  *)
(* schemas, at most one of each.  The three meet in the health cache, in   *)
(* the catalog and in the scheduler's flags.                               *)
(*                                                                         *)
(* A connection stands for its tools.  The flapping gate is off here, as   *)
(* with `enabled: false' (ConnectionFlapping is the gate), so a connection *)
(* is eligible when it is healthy.  The wait of one second between health  *)
(* cycles is left out: a cycle may take its time over its first request.   *)
(***************************************************************************)
EXTENDS Integers, FiniteSets

CONSTANTS
    Connections,
    MaxEvents  \* bound: changes on the Executor, failed requests, forced refreshes

ASSUME SchedulerAssumption == MaxEvents \in Nat

VARIABLES
    listed,  \* the Executor: its connections
    up,      \* the Executor: those that are healthy
    health,  \* _health_states[slug]
    tools,   \* state.tools: the connections whose tools are there
    schemas, \* those whose tools have an input_schema
    sched,   \* _SchedulerState
    hjob, ljob, sjob, \* the jobs of health, list and schemas
    events   \* such events so far

vars == <<listed, up, health, tools, schemas, sched, hjob, ljob, sjob, events>>
executor == <<listed, up>>
catalog == <<tools, schemas>>

Health == [connections : SUBSET Connections, healthy : SUBSET Connections, loaded : BOOLEAN]
Scheduler ==
    [print : SUBSET SUBSET Connections, forceList : BOOLEAN, forceSchema : BOOLEAN,
     pending : SUBSET Connections, schemaInterval : BOOLEAN]
HealthJob ==
    [at : {"idle", "bootstrap", "probe", "final", "publish", "raised"},
     working : SUBSET Connections, ok : SUBSET Connections,
     lost : SUBSET Connections, gained : SUBSET Connections]
ListJob ==
    [at : {"idle", "fetch", "merge", "apply", "done"}, got : SUBSET Connections,
     tools : SUBSET Connections, schemas : SUBSET Connections]
SchemaJob ==
    [at : {"idle", "select", "take", "fetch", "apply"}, todo : SUBSET Connections,
     tools : SUBSET Connections, schemas : SUBSET Connections]

\* connection_fingerprint_for_slug: it only serves to be compared.  {} is "".
Fingerprint == IF health.loaded THEN {health.connections} ELSE {}

\* One more event.
Counted == events < MaxEvents /\ events' = events + 1

-----------------------------------------------------------------------------
(* The Executor.                                                           *)

Change ==
    /\ Counted
    /\ \E c \in Connections :
          \/ c \notin listed /\ listed' = listed \cup {c} /\ up' \in {up, up \cup {c}}
          \/ c \in listed /\ listed' = listed \ {c} /\ up' = up \ {c}
          \/ c \in listed \ up /\ up' = up \cup {c} /\ UNCHANGED listed
          \/ c \in up /\ up' = up \ {c} /\ UNCHANGED listed
    /\ UNCHANGED <<health, catalog, sched, hjob, ljob, sjob>>

-----------------------------------------------------------------------------
(* The loop.                                                               *)

\* schedule_executor_catalog_refresh(force=True)
ForceRefresh ==
    /\ Counted
    /\ sched' = [sched EXCEPT !.forceList = TRUE, !.forceSchema = TRUE]
    /\ UNCHANGED <<executor, health, catalog, hjob, ljob, sjob>>

\* 120 s have passed since the last refresh of the schemas.
SchemaIntervalEnds ==
    /\ ~sched.schemaInterval
    /\ sched' = [sched EXCEPT !.schemaInterval = TRUE]
    /\ UNCHANGED <<executor, health, catalog, hjob, ljob, sjob, events>>

ListDue == sched.forceList \/ (Fingerprint # {} /\ Fingerprint # sched.print)

\* Mutant of SchemaDue: schemas are only fetched on demand.
SchemaDueOnDemand == sched.forceSchema \/ sched.pending # {}

SchemaDue == sched.forceSchema \/ sched.pending # {} \/ sched.schemaInterval

StartHealth ==
    hjob' = IF hjob.at = "idle" THEN [hjob EXCEPT !.at = "bootstrap"] ELSE hjob

StartList ==
    ljob' = IF ListDue /\ ljob.at = "idle" THEN [ljob EXCEPT !.at = "fetch"] ELSE ljob

\* Not while the list is refreshed, the refresh that just started included.
StartSchema ==
    IF SchemaDue /\ sjob.at = "idle" /\ ljob'.at = "idle"
    THEN /\ sched' = [sched EXCEPT !.schemaInterval = FALSE]
         /\ sjob' = [sjob EXCEPT !.at = "select"]
    ELSE UNCHANGED <<sched, sjob>>

\* One turn of the loop, which looks at the three in this order.
Tick ==
    /\ StartHealth /\ StartList /\ StartSchema
    /\ UNCHANGED <<executor, health, catalog, events>>

-----------------------------------------------------------------------------
(* A health cycle: GET all, POST a probe of each, GET all again.           *)

NoHealthJob ==
    [at |-> "idle", working |-> {}, ok |-> {}, lost |-> {}, gained |-> {}]

HealthBootstrap ==
    /\ hjob.at = "bootstrap"
    /\ hjob' = [hjob EXCEPT !.at = IF listed = {} THEN "final" ELSE "probe",
                            !.working = listed, !.ok = up]
    /\ UNCHANGED <<executor, health, catalog, sched, ljob, sjob, events>>

\* compute_eligibility_delta, relative to the snapshot in the cache.
Delta(healthy) == [lost |-> health.healthy \ healthy, gained |-> healthy \ health.healthy]

\* What apply_health_snapshot puts into the cache.
Snapshot(connections, healthy) ==
    [connections |-> connections, healthy |-> healthy, loaded |-> TRUE]

\* The probes of a wave that had an answer.  A probe that fails, as that of a
\* connection that is gone does, leaves what the bootstrap said.
Probed(answered) == (hjob.ok \ answered) \cup (up \cap answered)

\* One wave probes four connections; its snapshot is applied and the delta of
\* eligibility that apply_health_snapshot returns is dropped.
HealthProbe ==
    /\ hjob.at = "probe"
    /\ \E answered \in SUBSET (hjob.working \cap listed) :
          /\ IF answered = hjob.working \cap listed THEN UNCHANGED events ELSE Counted
          /\ health' = Snapshot(hjob.working, Probed(answered))
    /\ hjob' = [NoHealthJob EXCEPT !.at = "final"]
    /\ UNCHANGED <<executor, catalog, sched, ljob, sjob>>

\* Mutant of HealthFinal: the list of connections is not replaced.
HealthFinalKeepsConnections ==
    /\ hjob.at = "final"
    /\ health' = Snapshot(health.connections, up)
    /\ hjob' = [hjob EXCEPT !.at = "publish", !.lost = Delta(up).lost, !.gained = Delta(up).gained]
    /\ UNCHANGED <<executor, catalog, sched, ljob, sjob, events>>

\* apply_connections_full_replace: the delta is relative to the last wave.
HealthFinal ==
    /\ hjob.at = "final"
    /\ health' = Snapshot(listed, up)
    /\ hjob' = [hjob EXCEPT !.at = "publish", !.lost = Delta(up).lost, !.gained = Delta(up).gained]
    /\ UNCHANGED <<executor, catalog, sched, ljob, sjob, events>>

HealthPublish ==
    /\ hjob.at = "publish"
    /\ sched' = [sched EXCEPT !.forceList = @ \/ Fingerprint # sched.print,
                              !.pending = @ \cup hjob.gained]
    /\ schemas' = schemas \ hjob.lost
    /\ hjob' = NoHealthJob
    /\ UNCHANGED <<executor, health, tools, ljob, sjob, events>>

HealthFails ==
    /\ hjob.at \in {"bootstrap", "final"}
    /\ Counted
    /\ hjob' = [NoHealthJob EXCEPT !.at = "raised"]
    /\ UNCHANGED <<executor, health, catalog, sched, ljob, sjob>>

\* Mutant of HealthEnds: a cycle that failed leaves health_in_progress set.
HealthEndsNever == FALSE

\* The finally of _start_job, after an error.
HealthEnds ==
    /\ hjob.at = "raised"
    /\ hjob' = NoHealthJob
    /\ UNCHANGED <<executor, health, catalog, sched, ljob, sjob, events>>

HealthStep ==
    \/ HealthBootstrap \/ HealthProbe \/ HealthFinal \/ HealthPublish
    \/ HealthFails \/ HealthEnds

-----------------------------------------------------------------------------
(* A refresh of the list.                                                  *)

NoListJob == [at |-> "idle", got |-> {}, tools |-> {}, schemas |-> {}]

ListFetch ==
    /\ ljob.at = "fetch"
    /\ ljob' = [ljob EXCEPT !.at = "merge", !.got = listed]
    /\ UNCHANGED <<executor, health, catalog, sched, hjob, sjob, events>>

\* merge_list_stubs_into_catalog with stubs, and the copy that follows it.
ListMerge ==
    /\ ljob.at = "merge"
    /\ tools' = tools \cup ljob.got
    /\ ljob' = [at |-> "apply", got |-> {}, tools |-> tools', schemas |-> schemas]
    /\ UNCHANGED <<executor, health, schemas, sched, hjob, sjob, events>>

\* _apply_catalog_to_state: the copy, whatever has happened since it was made.
ListApply ==
    /\ ljob.at = "apply"
    /\ tools' = ljob.tools /\ schemas' = ljob.schemas
    /\ ljob' = [NoListJob EXCEPT !.at = "done"]
    /\ UNCHANGED <<executor, health, sched, hjob, sjob, events>>

\* Mutant of ListDone: the fingerprint is not recorded.
ListDoneUnrecorded ==
    /\ ljob.at = "done"
    /\ sched' = [sched EXCEPT !.forceList = FALSE, !.forceSchema = TRUE]
    /\ ljob' = NoListJob
    /\ UNCHANGED <<executor, health, catalog, hjob, sjob, events>>

\* The fingerprint is that of the health cache now, not at the fetch.
ListDone ==
    /\ ljob.at = "done"
    /\ sched' = [sched EXCEPT !.print = Fingerprint, !.forceList = FALSE, !.forceSchema = TRUE]
    /\ ljob' = NoListJob
    /\ UNCHANGED <<executor, health, catalog, hjob, sjob, events>>

ListFails ==
    /\ ljob.at = "fetch"
    /\ Counted
    /\ ljob' = NoListJob
    /\ UNCHANGED <<executor, health, catalog, sched, hjob, sjob>>

ListStep == ListFetch \/ ListMerge \/ ListApply \/ ListDone \/ ListFails

-----------------------------------------------------------------------------
(* A refresh of the schemas.                                               *)

NoSchemaJob == [at |-> "idle", todo |-> {}, tools |-> {}, schemas |-> {}]

\* filter_summaries_for_schema_fetch: permissive until there is a snapshot.
Eligible(connections) == IF health.loaded THEN connections \cap health.healthy ELSE connections

SchemaSelect ==
    /\ sjob.at = "select"
    /\ sjob' = [sjob EXCEPT !.at = "take", !.todo = Eligible(tools)]
    /\ UNCHANGED <<executor, health, catalog, sched, hjob, ljob, events>>

\* The requests are taken before they are served.
SchemaTake ==
    /\ sjob.at = "take"
    /\ LET todo == IF sched.pending # {} /\ ~sched.forceSchema
                   THEN sjob.todo \cap sched.pending
                   ELSE sjob.todo
       IN  sjob' = IF todo = {} THEN NoSchemaJob
                   ELSE [sjob EXCEPT !.at = "fetch", !.todo = todo]
    /\ sched' = [sched EXCEPT !.pending = {}, !.forceSchema = FALSE]
    /\ UNCHANGED <<executor, health, catalog, hjob, ljob, events>>

\* A tool whose fetch failed, or that is gone, is merged as a stub.
SchemaMerge ==
    /\ sjob.at = "fetch"
    /\ \E got \in SUBSET (sjob.todo \cap listed) :
          /\ IF got = sjob.todo \cap listed THEN UNCHANGED events ELSE Counted
          /\ tools' = tools \cup sjob.todo
          /\ schemas' = schemas \cup got
    /\ sjob' = [at |-> "apply", todo |-> {}, tools |-> tools', schemas |-> schemas']
    /\ UNCHANGED <<executor, health, sched, hjob, ljob>>

SchemaApply ==
    /\ sjob.at = "apply"
    /\ tools' = sjob.tools /\ schemas' = sjob.schemas
    /\ sjob' = NoSchemaJob
    /\ UNCHANGED <<executor, health, sched, hjob, ljob, events>>

\* An answer that is not JSON: what was taken is lost.
SchemaFails ==
    /\ sjob.at = "fetch"
    /\ Counted
    /\ sjob' = NoSchemaJob
    /\ UNCHANGED <<executor, health, catalog, sched, hjob, ljob>>

SchemaStep == SchemaSelect \/ SchemaTake \/ SchemaMerge \/ SchemaApply \/ SchemaFails

-----------------------------------------------------------------------------
\* A process with a cold cache.
Init ==
    /\ listed \in SUBSET Connections /\ up \in SUBSET listed
    /\ health = [connections |-> {}, healthy |-> {}, loaded |-> FALSE]
    /\ tools = {} /\ schemas = {}
    /\ sched = [print |-> {}, forceList |-> FALSE, forceSchema |-> FALSE,
                pending |-> {}, schemaInterval |-> TRUE]
    /\ hjob = NoHealthJob /\ ljob = NoListJob /\ sjob = NoSchemaJob
    /\ events = 0

Next ==
    \/ Change \/ ForceRefresh \/ SchemaIntervalEnds
    \/ Tick \/ HealthStep \/ ListStep \/ SchemaStep

Spec == Init /\ [][Next]_vars

\* The loop and the job threads run; every request has a timeout; time passes.
LiveSpec ==
    /\ Spec
    /\ WF_vars(Tick) /\ WF_vars(SchemaIntervalEnds)
    /\ WF_vars(HealthStep) /\ WF_vars(ListStep) /\ WF_vars(SchemaStep)

-----------------------------------------------------------------------------
(* Properties.                                                             *)

\* The types; the health cache knows every connection it calls healthy, and
\* every schema is that of a tool of the catalog, whichever copy was written.
TypeOK ==
    /\ listed \subseteq Connections /\ up \subseteq listed
    /\ health \in Health /\ health.healthy \subseteq health.connections
    /\ tools \subseteq Connections /\ schemas \subseteq tools
    /\ sched \in Scheduler
    /\ hjob \in HealthJob /\ ljob \in ListJob /\ sjob \in SchemaJob
    /\ events \in 0..MaxEvents

\* The health cache becomes, and stays, what the Executor says once it no
\* longer changes: a cycle that failed does not keep the next from starting
\* (_start_job), and a failed probe does not count as an answer.
HealthCatchesUp == <>[](health.connections = listed /\ health.healthy = up)

\* Refreshes of the list come to an end once the Executor is quiet, whatever
\* the order in which cycles and refreshes ended (last_connection_fingerprint).
ListRefreshSettles == <>[](ljob.at = "idle" /\ ~ListDue)

\* The tools of a healthy connection that are in the catalog have their schemas
\* in the end: the periodic refresh makes up for every request that was taken
\* and lost, and no stale copy of the catalog is the last (_run_catalog_schema_refresh).
EligibleGetsSchema ==
    \A c \in Connections : <>[](c \in up /\ c \in tools) => <>[](c \in schemas)

=============================================================================
