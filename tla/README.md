# Clear Your Tools in TLA+

Clear Your Tools (CYT) cuts down what a coding agent sees of its tools and
skills.  A hook daemon (or a reverse proxy) receives every user prompt, ranks the
tools and skills the agent could use, and injects the few that matter.  Around
that sit caches that several schedulers refresh, a tier system that learns from
use, a registry into which MCP aggregators push their catalogs, and hooks on the
agent's side that log what the model was shown and gate its tool calls.  All of it
is threads and processes over shared dictionaries and files, with a SQLite database
behind them, and that is what this project models.

Paths below are relative to the Python package, `src/src/`.

## 1. The system

### Components, state, operations, interactions

| component | state it keeps | operations | interacts with |
|---|---|---|---|
| Tier manager `cyt/tiers/manager.py`, `evaluator.py`, `wake.py` | per project: tier of each tool, skill, MCP server; statistics; epoch; request cycle | begin/end of a request cycle, candidates, injected, use, failure, purge, status | coordinator (cycle bracket), hook feedback (uses), shadow pool (hits), store |
| Tier persistence `cyt/tiers/store.py`, `flush_scheduler.py` | SQLite rows, dirty flag | periodic and immediate flush, epoch write-out, purge | tier manager's memory; other processes on the same database |
| Shadow evaluation `cyt/tiers/shadow.py` | thread pool, in-flight set | samples DORMANT entities, submits searches, applies hits | tier manager, pruners |
| Catalog registry `cyt/hook/catalog_registry.py` | entries per (agent, workspace, layer), snapshot file, generation, pending/idle flags | register, hash-only heartbeat, deregister, prune, load, snapshot writer | HTTP handlers on the event loop, catalog scheduler, cyt-mcp runtimes |
| Catalog push `cyt_mcp/hook_daemon_push.py` | last hash, last permissions revision, deny rules, tasks per runtime | push loop, immediate push, reload of permissions, deregister | registry (HTTP), `cyt/hook/permissions_revision.py` |
| Hook daemon lifecycle `cyt/hook/daemon.py`, `port.py`, `cyt/runtime_registry.py` | `daemon.lock`, `pid.json`, processes, ports | start (session, interactive, foreground), stop, restart | command lines of several agents, `cyt launch`, clients |
| Session log `cyt_client/sessions.py`, `session_capture.py`, `session_compaction.py`, `cyt/injection/` | one JSONL file per conversation | prompt hook: ask, log, print; capture of looked-up definitions; compaction marker | daemon's catalog, the model's context |
| Tool gate `cyt_client/tool_gate.py`, `session_pre_tool_exposure.py` | the same file | deny a call whose arguments do not fit, showing the definition | session log |
| Master catalog `cyt/tools/master_catalog.py`, `definitions_catalog.py`, `catalog_cache.py` and their schedulers | merged catalog with the fingerprints of its sources, in-progress flag and event, index of the definitions | poll, rebuild (blocking or not), definitions refresh, indexing | all catalogs |
| cyt-mcp catalogs of the daemon `cyt/cyt_mcp/catalog.py`, `cache_scheduler.py` | tools per workspace, copy on disk | refresh from the registry, hydration after a registration | registry, master catalog |
| Executor scheduler `cyt/executor/cache_scheduler.py`, `connection_health.py`, `http.py` | health snapshot, catalog, due flags, pending schemas | health cycle, list refresh, schema refresh, eviction, disk flush | Executor service, flap detector, master catalog |
| Flap detector `cyt/executor/connection_flapping.py` | per connection: window of statuses, gate, quarantine, episodes | sample, gate, release, drop | executor scheduler |
| mcpc and Cloudflare catalogs | as the executor's, with a reload from disk | the same | the same |
| Pruning coordinator `cyt/pruning/` | one request | runs tool and skill branches in parallel, opens and closes the cycle | tier manager, pruners |
| Permissions `cyt/permissions/` | layers of rules | merge, match | push, gate, catalogs |
| MCP aggregator `cyt_mcp/catalog_build.py`, `tool_list_notify.py`, `session_workspace_middleware.py`, `tier_feedback_push.py` | runtime cache, deny rules, catalog file, sessions and their notify tasks | hydrate, refresh, tools/list, change notices, feedback, reload of permissions | backends, MCP clients, push, registry |
| Reverse proxy, launcher, installation, skills search, tool examples, indexer, agents, platform | see `PROJECT.json` | | |

`PROJECT.json` lists every part with its status and, where it is not modelled, why.

### What is hard

* **Interleaving.**  `_state_lock` of the tier manager is released between the
  change of the memory and the write of the rows; flush, purge and epoch overlap.
  Snapshot writers of the registry are started while another is leaving.  Three
  refresh jobs read, copy and replace one executor catalog.  Rebuilds of the master
  catalog overlap and clear each other's flag.  The hooks of parallel tool calls
  append to one log that each of them read a while ago.
* **Order.**  A tier is judged by an epoch, lifted by a use, put to sleep and woken
  by two clocks that know nothing of each other.  Bodies and hashes of pushes are
  read at different times and their answers overtake each other.  Sources of a
  catalog are read first and fingerprinted later, or the other way round.
* **Crashes.**  Rows are committed one by one; the epoch row is last.  Hooks log
  before they print.  The daemon restarts from an old snapshot, or with an old number
  of the permissions.  A start may be killed between its spawn and its record.
* **Failures and retries.**  A request that failed after its demand was taken; a
  snapshot that could not be written; a probe that was answered late; a push or its
  answer that was lost.
* **Settling.**  Gates that must open again, refreshes that must come to an end,
  snapshots that must be repaired, catalogs that must catch up, a daemon that must be
  found.

The list with lines is under `hazards` in `PROJECT.json`.

## 2. The modules

| module | models | checked in | proved in |
|---|---|---|---|
| `ConnectionFlapping` | the flap detector | `MCConnectionFlapping` | `Executor_proofs` |
| `TierManager` | one project's tiers in memory | `MCTierCycles` | `TierManager_proofs` |
| `TierCycles` | the same, with the cycles since an entity fell asleep as a history variable | `MCTierCycles` | `TierManager_proofs` |
| `TierPersistence` | memory, flushes, rows, crashes, failing writes | itself | `TierPersistence_proofs` |
| `RegistryContract` | what may happen to an entry of the registry | through its users | |
| `RegistryService` | the promise of the registry: one request at a time | as a property of `CatalogRegistry` | `Catalog_proofs` |
| `CatalogRegistry` | the registry, its snapshot, its threads | itself | `Catalog_proofs` |
| `CatalogPush` | runtimes that push into a `RegistryContract`, and permissions | itself | `Catalog_proofs` |
| `HookDaemon` | commands, servers, ports and `pid.json` | itself | `HookDaemon_proofs` |
| `SessionLog` | one conversation's log, its hooks and its gate | `MCSessionLog` | `SessionLog_proofs` |
| `MasterCatalog` | the merged catalog, its sources and its index | `MCMasterCatalog` | `MasterCatalog_proofs` |
| `ExecutorScheduler` | loop, jobs, health cache, catalog | itself | `Executor_proofs` |
| `Aggregator` | one cyt-mcp process, its cache, its sessions | `MCAggregator` | `Aggregator_proofs` |

`MC...` modules hold what an instance needs beyond model values in a `.cfg`: the mapping
of tools to servers, a quiet next-state relation, a smaller `Init`, the subject of a
behaviour.  `Executor_proofs` and `Catalog_proofs` speak of two components each, which
keep their names apart by a prefix (`FlapInit`, `PushNext`).  A definition whose comment
begins with "Mutant of" is a variant of another with a plausible bug; it belongs to no
specification and shows that a property can fail.

### ConnectionFlapping

`flap[c]` is a `ConnectionFlapState`; a connection without an entry has the entry
the code would create.  `UpdateFlappingStates` is the whole of
`update_flapping_states`: append, gate or renew, release, drop what is not listed.
`upstream` is what the Executor lists.  `Elapse` lets quarantines run; `Restart`
forgets everything, which is what a restart of the process does: the executor's
cold start never reads the flap states it can write.
`flap_episodes` is counted up to `EpisodeCap`; `EpisodeCapAssumption` says why that
changes no penalty.  `CountersAgree` joins `StreakIsInWindow` and
`PenaltyOnlyWhileGated`, the two halves of what the counters must agree on.

### TierManager

Every action is one critical section of `_state_lock`, complete: the handler's own
change, then `Touch`, which is `_touch_request` with the epoch it may end
(crystallise, judge, clear).  Absolute clock values became relative ones (ticks of
the epoch, ticks left of a promotion, cycles left of a lease or a cooldown), and the
decaying counters became sets: a positive number stays positive under decay.  The
scores are left open: `Verdicts` has every stable tier `evaluate_slow_clock` may
leave, given what does not depend on a score.  `ShadowHit` covers a batch by its
single hits.  `TiersAgreeWithUse` joins `TierShape` (the four tier fields agree) and
`UsedIsAwake` (what was used this epoch is past COLD).  `TierCycles` adds `sinceSleep`, which
counts the request cycles since an entity fell asleep, for `NoSleepWakeThrash`: the code
has two absolute cycle numbers, and the history is the yardstick for both.
`MCTierCycles` follows one `subject`, which is a tool, a skill, or two tools of a server
that are searched but not used.

### TierPersistence

Of an entity it keeps how many changes were recorded and which epoch judged it last:
enough to tell an old row from a new one.  A thread is a small program counter;
each row is written in a step of its own, as each is a commit of its own.  A flush
lists objects and not keys, so `held` has the object a purge has popped.
`CrashAndRestart` may come at any step.  `Leaving` are the tools the catalog may
lose; the invariants speak of the others.  `Judged` is the last of the epochs that judged
an entity: a judgement that is under way when the next one begins may end after it.

Each write may fail as well.  `FlushFails`, `EpochFails` and `DeleteFails` are the exception
of a commit on its way out of the thread: `flush_pending` has cleared the flag before, and
a record whose epoch raises never gets to set it.  `owed` remembers that a write failed and
that no flush or epoch has begun since, and the properties on saved memory say what holds
where nothing is owed.  `failures` counts.

### RegistryContract, RegistryService, CatalogRegistry

`RegistryContract` says what may happen to an entry: a push grants it, the instance
that was heard of last releases it, the TTL lapses, a prune reclaims it, a restart
leaves fallbacks.  `RegistryService` says when: one request is asked, carried out and
answered at a time, and an entry leaves only by its holder's request, after its TTL or
with the daemon.  `CatalogRegistry` is the code; `KeepsContract` is
`RegistryService!Spec` under the identity on `reg` with the request read off the
loop's label, and both TLC and TLAPS show that it holds.

The code has three kinds of actors: the event loop (register and deregister, one
request at a time), the catalog scheduler (prune, load) and snapshot writers.  The
generation number is only ever compared with a value read before, so the model keeps
the set `current` of actors whose value still is the generation.  `idle` and `pending`
are the event and the flag of the writer's protocol, and the writer's labels are its
statements.  Time is two-valued per entry: heard of within the TTL or not.

### CatalogPush

The daemon is a `RegistryContract` (`Daemon`) over the registrations `leases`, so what
is shown here holds of any registry that keeps the contract, and `CatalogRegistry` does.
A runtime has a push loop and immediate pushes beside it; each `_push_once` builds a
body from the catalog of the moment, posts it, and handles its answer in steps of their
own, and a request or its answer may get lost.  `deny` are the rules a runtime works
with and `rules` those of the configuration; `revision`, `saved` and `snapshots` are the
daemon's number, the one on disk and those that threads have yet to write.  `missed` is
a history variable for `HeardIsApplied`: the runtimes whose last reload raised, whose
number comes from a daemon that has since forgotten it, or whose number a restarted
daemon gives to other rules.  Runtimes start, refresh, say goodbye and are killed; the
daemon restarts.

### HookDaemon

A command is a process that waits for `daemon.lock` and then runs the statements of
`start`, `stop` or `restart`: probe, choose a port, spawn, record, fall back to another
port. A restart clears the known ports, then the configured one once more (`ClearBase`),
and chooses: if that port was taken again in between, another one. `reg` has the entries
of the hook daemons in `pid.json` and the port of the last one, which is all that their
order is for; `srv` are the server processes, `other` the ports bound by other programs.
`LaunchReads` and `LaunchWrites` are the rewriting of `pid.json` by `cyt launch`, which
takes no lock. What a healthy system would not do (a late answer, a killed command, a
rewriting) is counted as a mishap, and the safety properties say what each of them may
cost.

### SessionLog

One conversation.  `log` is what the file says after its latest compaction marker,
`seen` what the model's context holds.  The prompt hook (`submit`) asks, logs, prints;
the hooks around a call (`call[c]`) capture a definition that was looked up, or deny a
call and print the definition.  Each reading and each appending of the file is a step,
for a prompt (`ReadLines`, `LogTools`) as for a deny (`CheckDenied`, `LogDenied`): the file
has no lock, so two hooks that looked before either wrote may write the same line twice.
`Mode` is the choice between full definition, short form and nothing;
`LoggedInFull` is the count against `FULL_PROMOTION_THRESHOLD`.  Versions stand for
content hashes.  `unshown` is a history variable: the texts the log holds that nobody
showed, because a hook died between log and print, a marker could not be written, or a deny
logged another version than it printed.

### MasterCatalog

The two kinds of sources the merged catalog has: the definitions file, which the daemon
reads, and pushed tools, which a registration or a poll puts in memory.  A source has a set
of tools, which is its hash as well, and each tool belongs to a server.  Pushed tools have
a `copy` on disk, and what is applied is never just what was pushed: `Fetched` takes the
copy where nothing is registered, `Hydrated` adds the tools that the copy has of servers
which are declared and missing, and `Merged` those that memory and copy have of servers
missing in the given tools.  A registration that loses a whole server therefore keeps its
tools, as in the code; one that loses a tool of a server does not.

A worker is the poller, the thread of a registration or a blocking reader; `task[w]` is the
rebuild it is in, with the labels of `rebuild_master_catalog` (prior and its prints,
current prints, one source at a time, stamp, apply, finish), and before it the steps of
`apply_fetched_catalog` or of the readers' hydration.  The scheduler of the pushed tools is
a thread of the same kind (`Puller`), with its refresh and its flush; reading the copy,
changing the memory and writing the copy are steps of their own.  `defs.print` and
`master.print` are fingerprints, written when the code writes them.  `indexer` are the
entries that `schedule_decomposed_catalog_refresh` has a thread for.  Any rebuild, and any
writing of the copy, may raise.

### ExecutorScheduler

`Tick` is one turn of `_scheduler_loop`; `HealthStep`, `ListStep` and `SchemaStep` are
the statements of the three jobs.  A connection stands for its tools.  A merge with
the copy that follows it is a step, and writing the copy back is another: whatever
another job or an eviction wrote in between is overwritten, as in the code.
`SchemaSelect` and `SchemaTake` are apart for the same reason.  The flapping gate is
off, a setting the code has; the loop's wait of a second is left out, since a job may
take its time over its first request.  With at most four connections a cycle has one
wave of probes.

### Aggregator

All of a cyt-mcp process runs on one event loop, so a step is what happens between two
awaits that wait.  `cache` is its `RuntimeToolCache`, `disk` the file the next process
starts from, `boot` and `deny` the rules it began with and those it has since reloaded.
`job` is the refresh that a cold start schedules, `report` the feedback of a tool call,
which may force a refresh; both take the lock of the cache (`Locked`).  A refresh that
raises (`Raised`) does so before it has touched the cache or, when the file cannot be
written, after it has replaced it: then nobody is told and nothing is pushed.  Of a client it
keeps whether it was told to list, where its request is in `on_list_tools` (`ask`), what
it was shown, and its `_notify_when_ready`.  `Connect` schedules the task that registers
the session, so `registered` lags behind.  `Hydratable` chooses between the file and
the registry, which others write.  `untold` are the clients whose catalog was changed by
a step that tells nobody.  `CatalogPush` has the pushes of the same process in detail; here
`pushing` says that the loop was started and `news` that it will bring a revision.

## 3. The runs

| run | instance | what it shows |
|---|---|---|
| `flapping` | one connection, window 4, recovery run 3, quarantine up to 8 | the counters agree with the window and with the gate; a gate opens only after quarantine and a full healthy run; a connection that is healthy for good is released |
| `tiers_tool` | one tool, one skill or two tools of a server, epoch of 2 ticks, promotion of 3 (2), lease and cooldown of 2 cycles, idle gaps on | the tier fields agree with each other and with use; no step lowers a tool used successfully; an idle COLD entity sleeps; no thrashing between sleep and wake; a sleeping server wakes as a server, never tool by tool |
| `tier_flush` | two entities, a worker and the scheduler, two changes, two epochs, two failing writes | a clean flag means a saved memory, unless a write has just failed; the epoch row is last; promotions are durable; rows never go back; every change is saved or owed |
| `registry` | one key, two catalogs, two instances, two writers, three operations, failing writes | one writer at a time; the registry implements `RegistryService`; heartbeats repair the snapshot; the event loop is always free again |
| `registry_deregister` (violation) | one key, one catalog, two operations | a deregistered entry comes back on disk |
| `push` | one runtime, two tools of which rules may deny one, a loop and an immediate push, three events | a runtime that lives is registered again and again and in the end with its own catalog; one that is gone is forgotten; revisions are heard of, and one that was heard of is applied unless its reload raised or a daemon forgot it |
| `push_revision` (violation) | the same, two events | a runtime that heard of a revision may keep the old rules |
| `daemon` | two commands, four servers, four ports, two events, one mishap | at most one daemon but for mishaps; none that `pid.json` and the configured port do not tell of while no command is at work; none after a stop; in the end clients find one |
| `executor` | two connections, two events (change, failed request, forced refresh) | the health cache catches up; list refreshes settle; every eligible tool in the catalog has its schema in the end |
| `session` | one tool, two versions, two calls, two hooks at a time, two events, threshold 2 | what the log holds the model has seen or is about to, but for lines that the history names; what is left out it has; the logged catalog catches up |
| `catalog` | three tools of two servers, poller, puller, one registration at a time, one reader, two events, a definitions file or pushed tools, with or without a copy | nobody waits for a rebuild that will not wake him; memory, master catalog and index catch up with quiet sources |
| `aggregator` | two clients, two tools, three attempts, three events (backends, rules, exceptions, exits) | a client whose list is out of date has a notification or an answer on its way, and ends with what a tools/list would give it; no denied tool stays visible; a catalog is not emptied |

Of the type invariants only that of `executor` is in a run; the others are theorems
(`FlapTypeCorrect`, `PushTypeCorrect`, `TypeCorrect`).  The largest runs have 1,274,046
(`session`), 875,900 (`catalog`), 511,537 (`aggregator`), 110,028 (`tiers_tool`) and 102,160
(`daemon`) distinct states.

### Why the bounds are enough

*flapping*: connections do not influence each other (`update_flapping_states` treats
each entry alone), so one is enough.  A window of 4 holds both a healthy / degraded /
healthy oscillation and a full recovery run of 3; a quarantine of 8 is reached only
by renewals and episodes, so the cap is met.

*tiers*: tools and skills only share the epoch and the cycle; the one relation between
entities is a server and its tools, which is a subject of its own.  A promotion of 3 ticks
outlives an epoch of 2 and so meets its end; lease and cooldown of 2 cycles tell
"still" from "no longer".

*tier_flush*: one worker and the scheduler give every overlap of two flushes or of a
flush with a record, an epoch or a purge; the second entity is needed for the epoch's
order of rows; the second change of an entity for an old and a new row, and the second epoch
for an entity that is judged again while its first judgement is still on the way to disk.
Two failures are one during the repair of the other.

*registry*: keys are independent but for the one file.  Two writers are as many as can
be alive, one leaving and one starting, unless a leaving writer is held up for longer
still.  Heartbeats and restarts are not counted against `MaxOps`.

*push*: an immediate push beside the loop's gives every overlap of two pushes of one
runtime.  Three events are a change of the catalog or of the rules, a loss and a restart
together.  The safety half also passes with four events (2,146,120 states), and two
runtimes on one key with one event pass as well.

*daemon*: two commands race for a start, or a start races a stop.  Every event and every
mishap may cost a port, so there are more ports than both together; four servers are as
many as two commands with a fallback each can spawn before one dies.

*session*: the lines of two tools are independent.  Two calls and the prompt hook with
two at a time give every pair; a second version tells a stale line from a fresh one; two
events are a change of the catalog and a failure during it.

*catalog*: the sources do not meet but in one concatenation, so each behaviour has one.
Server `a` offers one of two tools, server `b` its one tool or nothing: the least for a
server that is replaced, one that is lost and one that is no longer declared.  The poller,
the puller, the thread of a registration and a reader are the four kinds of callers.
Rebuilds meet in any number; the puller, which shares with them no more than the pushed
tools and their copy, is at work beside one other thread at a time.  Readers come where
blocking matters: without a copy, with at most one event for pushed tools and none for the
file.  Two events without readers are a change during the rebuild of a change, or a change
and a rebuild or a writing of the copy that raises.

*executor*: two connections are the least for a list that is partly stale and for
demands that cover a part of the eligible.  Two events give a failure during a change,
or two changes that overlap one refresh.

*aggregator*: a process on stdio has one session, one over HTTP several.  Two clients meet
as long as there was no event, which is where one fills the cache of the other; with events
there is one.  Two tools tell a smaller catalog from an empty one; three attempts of the
notify task (the code has twelve) are a first look, a differing one and the last.  Three
events are, say, backends that come, rules that change and a refresh that raises.

Deadlock is checked in every run but `push` and `push_revision`, where all runtimes may
be gone, and `aggregator`, where a process and its clients may have nothing to do.

### Fairness, and why the code justifies it

* `flapping`: the refresh and the clock.  The scheduler thread starts a health refresh
  every `health_refresh_seconds`; nothing is assumed of the Executor or of restarts.
* `tiers_tool`: requests keep beginning, and a cycle that began ends, since
  `coordinate_prune` calls `end_request_cycle` in a `finally`.
* `tier_flush`: a thread that has begun goes on, and the flush loop comes round
  (`flush_scheduler.py` catches whatever a flush raises).  No fairness for records,
  epochs, purges, crashes or failures.
* `registry`: every thread goes on, and a daemon that went down is started again;
  heartbeats are strongly fair, as a push loop sends one every 10 s for as long as its
  runtime lives and the loop is free again and again; the disk does not fail a writer for
  ever.  `Prompt` says that a write of the file ends before the next heartbeat;
  `WaitsOut` that the wait of 5 s for a writer does not run out.  The violation run drops
  `Prompt`, the passing run keeps it because a writer that never gets between two
  heartbeats repairs nothing.
* `push`: threads and event loops go on, the push loop comes round every 10 s, requests
  are answered in the end (each has a timeout), time passes, and the daemon's scheduler
  prunes.  Losses are events, so bounded; nothing is assumed of refreshes, restarts or
  exits.
* `daemon`: agents keep opening sessions; processes that can go on do; a launch that read
  `pid.json` writes it.
* `executor`: the loop turns, every job goes on (each request has a timeout of 60 s),
  the interval of 120 s passes.  Failures are bounded, so requests succeed in the end.
* `session`: hooks go on until they print or die.  The user keeps prompting: strong
  fairness of `Ask`, since a prompt waits while as many hooks as the model allows are
  running.
* `catalog`: the loops of the three schedulers turn (every second or so) and workers and
  the indexing thread go on.  The loop of the pushed tools refreshes before it flushes, so
  its refresh is strongly fair beside the flush, of which nothing is assumed.  Nothing is
  assumed of registrations, readers or sources either.

* `aggregator`: the event loop goes on, so notify tasks, lists, refreshes and feedbacks
  come to their end, and the push loop brings a revision.  Nothing is assumed of starts,
  connections, tool calls, backends or rules.

### What the violations say

1. **Deregistration** (`cyt/hook/catalog_registry.py:200`).  A writer started just
   before the deregistration shares its generation, so the check that should tell an
   outdated payload from a current one passes, and the removed entry is written back.
2. **Revision** (`cyt_mcp/hook_daemon_push.py:226`).  A revision counts as applied before
   it is; a reload that raises is not tried again.  And a daemon that restarts from an
   old number gives the next change a number that runtimes have seen.

### What else came up

These are behaviours of the code met while modelling.  The models have them; the passing
properties are stated so that they hold with them, and no run of their own shows them.

* *Success and skills* (`cyt/tiers/evaluator.py:281`): the crystallisation at the end of an
  epoch promises HOT for tools and skills that were used; the judgement that follows it
  protects tools only.
* *Idle gap* (`cyt/tiers/manager.py:569`): `last_request_ms` is set to now just before the
  gap since then is looked at, so the setting has no effect.
* *Purge and flush* (`cyt/tiers/manager.py:309`): the flush holds the objects it listed; a
  purge in between deletes the row (`adapters/tools.py:125`) and the flush inserts it again.
* *Failed flush* (`cyt/tiers/manager.py:312`): the flag is cleared before the writes, and
  nothing sets it again when one of them raises; the rest stays unwritten until the next
  change.  A record whose epoch raises does not mark its own change.
* *Statistics at exit* (`cyt/tiers/cli.py:262`): `cyt tiers stats` gets a tier manager, and
  with it the flush scheduler whose exit hook (`flush_scheduler.py:73`) writes the whole
  memory, read at the start of the command, over what the daemon has written since.
  `store.py:113` takes such a process for a reader.
* *Eviction* (`cyt/executor/connection_health.py:575`): each wave of probes drops the change
  of eligibility that comes with it, so schemas are not evicted when a connection becomes
  unhealthy, and not asked for at once when it recovers.  The refresh every 120 s makes up
  for the second; requests filter by health again.
* *Recovery run longer than the window* (`cyt/executor/connection_flapping.py:150`):
  `flapping_policy_from_config` accepts it, and a gate then stays shut.  With
  `WindowSize = 3` and `RecoveryHealthySamples = 4` the run violates
  `HealthyConnectionIsReleased`.
* *List fingerprint* (`cyt/executor/cache_scheduler.py:315`): it is taken when the fetch
  ends, so a connection that appears during it is known to the health cache but not listed
  until something forces a refresh.
* *Line of another version* (`cyt_client/session_pre_tool_exposure.py:395`): the line a deny
  logs is made from the catalog at the time of writing.  When a capture has changed it since
  the deny began, the log has in full what nobody showed, and the tool is left out until a
  compaction or another version.  `unshown` names the line.
* *Same line twice* (`cyt_client/sessions.py:348`): parallel hooks that looked before either
  wrote both append, so the counts of injections run ahead of what was shown and the full
  form comes sooner.
* *Short form and deny* (`cyt_client/tool_gate.py:431`, `:968`): a deny leaves the
  definition out when only a short form was logged, where
  `evals/cursor/cyt-capabilities.md:110` has the full one shown.  A version that changes to
  B and back to A is not logged again (`session_log.py:116`).
* *Definitions dated late* (`cyt/tools/definitions_catalog.py:112-118`): the blocking fetch
  loads and then fingerprints.  A file that changes in between is remembered under the new
  fingerprint with the old tools, and the refresh, which trusts the fingerprint, never loads
  it.  `CatalogsCatchUp` excepts this case by name (`Misdated`).
* *An emptied source* (`cyt/tools/master_catalog.py:341`): prints are stamped after the
  loads.  When a rebuild ran between the change of an emptied source and the reload of its
  memory, the branch that keeps the prior tools matches from then on, and the master
  catalog never drops them; `tests/unit/test_master_catalog.py:147` is named for the
  opposite.  The property speaks of sources that have tools.
* *Overlapping rebuilds* (`cyt/tools/master_catalog.py:83`): the first to finish clears the
  flag of all, and an older rebuild may put its catalog over that of a registration
  (`catalog_registry.py:476` says "current master catalog").  The next poll heals it.
* *A lost server stays* (`cyt/cyt_mcp/catalog.py:470`, `:727`, `:828`): a registration, a
  refresh and a rebuild all take the tools of missing servers from the copy on disk, as long
  as they are declared or nothing says which servers are.  `CatalogsCatchUp` says so
  (`KeptAside`): memory may have more than the registration, of other servers only.
* *A write that raises* (`cyt_mcp/catalog_build.py:406`): the cache is replaced before its
  file is written.  An `OSError` leaves the new tools without push and notification and is
  only logged (`cyt_mcp/cli.py:277`); clients keep the old list.
* *Backends that are late* (`cyt_mcp/tool_list_notify.py:3-7` says the middleware refreshes
  the catalog once the session is live): it only waits for the refresh of a cold start.  When
  that found nothing or raised (`cyt_mcp/cli.py:277`), nobody asks the backends again until
  a tool call's feedback does; and a warm start does not ask them at all (`cli.py:288`).
* *Feedback and clients* (`cyt_mcp/tier_feedback_push.py:119`): a forced refresh replaces
  the catalog and pushes it, but tells no client.
* *Cold refresh* (`cyt_mcp/catalog_build.py:370`, `:401`): it saw an empty cache when it
  began; if the backends list nothing, it empties what a request has hydrated meanwhile.
* *File that never shrinks* (`cyt_mcp/catalog_build.py:146`): tools that were removed stay in
  the file, and come back with every warm start, until as many others replace them.
* *Hydrated and not pushed*: a cache that a request hydrated after the cold refresh raised
  reaches the daemon only when a feedback forces a refresh.
* *Second workspace* (`cyt_mcp/session_runtime.py:255`): its push context has no middleware,
  so its refresh and its reload of permissions notify nobody.

## 4. What is proved

For all values of the constants that meet the named assumptions (`PolicyAssumption`,
`EpisodeCapAssumption`, `KindsAssumption`, `ClockAssumption`, `PersistenceAssumption`,
`AbsentAssumption`, `RegistryAssumption`, `SchedulerAssumption`, `SessionAssumption`,
`MasterAssumption`, `AggregatorAssumption`, `PushAssumption`, `DaemonAssumption`), TLAPS
checks:

| theorem | statement |
|---|---|
| `Executor_proofs!FlapTypeCorrect` | windows and quarantines stay within the policy's bounds |
| `...!CountersAgreeCorrect` | `consecutive_healthy` never claims more than the window shows, and an entry that is not gated has no penalty to lose |
| `...!GateOpensOnlyWhenStableCorrect` | the action property on opening gates |
| `TierManager_proofs!TypeCorrect` | types of tiers, statistics, clocks |
| `...!TiersAgreeWithUseCorrect` | deadline, overlap, effective and stable tier agree; what was used this epoch is ACTIVE or better |
| `...!SuccessWinsCorrect` | the action property: no step lowers a tool that was used with success |
| `...!SleepingServerKeepsItsToolsCorrect` | the action property: a tool of a server that sleeps as a whole sleeps on until it is used or dropped |
| `...!NoSleepWakeThrashCorrect` | the action property of `CyclesSpec`: an entity never used waits out its cooldown and holds its lease between two sleeps |
| `TierPersistence_proofs!TypeCorrect` | types of memory, rows and threads |
| `...!EpochRowIsLastCorrect` | once the row of an epoch is on disk, so are the judgements of that epoch |
| `...!PromotionIsDurableCorrect` | a thread that is through with the write of a promotion has it on disk |
| `...!RowsNeverGoBackCorrect` | the action property: no step puts an older row over a newer one |
| `...!CleanMeansSavedCorrect` | a clean flag and idle threads mean that the database holds the memory, unless a write has just failed |
| `Catalog_proofs!OneWriterCorrect` | one snapshot writer at a time, and the flag says so |
| `...!TypeCorrect` | types of registry, file, loop, scheduler and writers |
| `...!ContractKept` | `Spec => RegistryService!Spec`: the refinement |
| `...!PushTypeCorrect` | types of pushes, leases and snapshots; in particular, only catalogs with tools are registered |
| `...!HeardIsAppliedCorrect` | a runtime that heard of the newest revision works with the newest rules, unless its last reload raised or a daemon forgot a revision |
| `HookDaemon_proofs!TypeCorrect` | types of commands, servers, `pid.json` and lock |
| `...!OneDaemonCorrect` | no more daemons serve than one and one for each mishap |
| `...!DaemonsAreKnownCorrect` | while nobody holds the lock, all daemons but one for each mishap are on ports that a stop would look at |
| `...!StopMeansStoppedCorrect` | the action property: a stop that ends leaves at most one daemon for each mishap |
| `Executor_proofs!TypeCorrect` | known connections only are healthy, every schema has its tool |
| `SessionLog_proofs!TypeCorrect` | types of log, context and hooks |
| `...!LoggedSeen` | what the log holds the model has, or is about to be shown, but for lines of the history |
| `...!SkippedSeen` | a tool is left out of an answer only when the model has it, or a line of the history says so |
| `MasterCatalog_proofs!TypeCorrect` | types of catalogs, fingerprints and rebuilds |
| `...!NobodyWaitsInVainCorrect` | whoever waits has a rebuild that will wake him |
| `Aggregator_proofs!TypeCorrect` | types of cache, file, rules, feedback and sessions |
| `...!CatalogIsKeptCorrect` | the action property: only a refresh that began with an empty cache empties one |
| `...!StaleIsDueCorrect` | a client whose list is out of date is being told, or its list is being answered, unless the change is one that tells nobody |

Each follows the same pattern: an inductive invariant `IInv`, `Init => IInv`,
`IInv /\ [Next]_vars => IInv'` with one step per action, and `IInv => P`.

* **Flapping.**  `IInv` is the invariants entry by entry (`EntryOK`), and none is
  inductive alone: that a release leaves no penalty needs that a gate has a window, and
  that the counter agrees with the window needs that gating resets the counter.  The
  lemmas on `Appended` say what a shift of the window does to its healthy tail.
* **Tiers.**  `IInv` is the conjunction of types, shape and "used is awake", with
  `epochUsed \subseteq tracked`.  The proof works on one entity's record at a time:
  *calm* records (nothing temporary) and *consistent* ones, and a lemma for each
  function of the model says which it takes to which.  `TouchKeepsShape` covers the
  end that all handlers share, with or without an epoch.  `SuccessWins` is proved
  in the same case split as the invariant, since it needs the same facts of each step.
  For the two properties about sleep, `SleepKinds` sorts all steps into four kinds: a cycle
  begins (which puts to sleep and lets countdowns run), a shadow search hits (which alone
  wakes what is not used), a purge, and the rest, which leave an unused entity as fast
  asleep or as awake as it was (`Rests`).  `NoSleepWakeThrash` has an invariant of its own,
  `Unflapping`: the history has counted at least the cycles that cooldown and lease of an
  unused entity say have begun since its last sleep (`Waited`).  It is inductive because a
  hit wakes only when the cooldown is over and sets the lease then, and the fast clock puts
  to sleep only when a lease is over.
* **Persistence.**  Three facts join the types: a row is never newer than the memory
  (`RowsBehind`), the memory never older than the last epoch that judged it (`MemJudged`),
  and a thread that is on its way through a flush or an epoch still owes the rows it has not
  written (`ThreadsOK`, label by label).  Last, `EpochRowIsLast` itself.  That the epoch row is
  last follows from what the writer at the epoch's label no longer owes; that rows never
  go back from the fact that a thread writes what the memory is at that moment.  All of it
  speaks of entities that stay, and failures only make a thread leave with less done.
  `CleanMeansSaved` has an invariant of its own on top (`Saved`): a row that is not what the
  memory holds has the flag, a failure, or a thread that has yet to write it, and an epoch,
  which clears the flag when it ends, has by then written everything (`JudgedAreSaved`).
* **Registry.**  `OneWriter` says both that two writers are never at work and that the
  flag is set exactly while one is; each half needs the other: a start tests the flag,
  and a writer that leaves resets it.  Steps of removers and steps between two busy
  labels change nothing it speaks of, which is two lemmas.  The refinement needs that
  what the loop carries is a request it was asked (`ArgOK`): then the step that stores is
  `ServePush`, the step that deletes `ServeRelease`, prunes and reloads are `Background`,
  and every step of a writer is a stutter.
* **Push.**  The types are inductive with one fact more (`Carrying`): a body on its way and an
  answer not yet noted down are of a catalog with tools.  The guard of `_push_once` against
  an empty catalog stands at the beginning; the fact carries it over the steps in between,
  in which the catalog itself may change, to the daemon and to the remembered hash.
  `HeardIsApplied` has an invariant of its own, `HeardInv`: neither the disk nor a thread
  that writes it is ahead of the daemon, and a runtime that missed nothing is not ahead of
  it either.  Then a change of the rules has a number that no such runtime has, and a
  reload that was told the newest number takes the newest rules.  TLC finds a behaviour
  against it for each of the three clauses that set `missed`, so none is idle.
* **Daemon.**  `IInv == Shape /\ Budget`.  `Shape` has the types, that whoever is at
  work holds the lock, and that what a command needs at its label it has.  `Budget` is
  an account of the servers that serve or may come to (`Alive`): the holder of the lock
  knows, by its label, of one of them (a child it waits for, the daemon it found, those
  on the ports it has yet to stop), and without a holder `pid.json` and the configured
  port tell of those that serve. All others are paid for by mishaps (`Allowance`); a
  launch that read `pid.json` and has yet to write it is a mishap whose cost is still to
  come.  `OneDaemon` alone is not inductive: that a spawn is safe needs that the probe
  before it found nothing.  The account counts servers, whence `FiniteSetTheorems`.
  `DaemonsAreKnown` is the account read where nobody holds the lock: nothing but
  `pid.json` and the configured port is left to tell.
* **Executor.**  The types are inductive once the jobs' copies are covered
  (`CopiesOK`): a bootstrap lists what it calls healthy, and a copy of the catalog
  has the tool of each schema, so no stale copy can break the pairing.
* **Session.**  `IInv == Types /\ SkippedIsLogged /\ LoggedIsSeen`.  That what is logged is
  seen needs that a hook logs before it prints, that the lines it has in hand are of its
  answer, and that only a marker, which empties the log, empties the context; a step that
  breaks one of these (a killed hook, a compaction without a marker, a deny about a changed
  definition) adds its texts to `unshown`.  Nothing is needed of what other hooks append
  between a reading and a writing, so lines may repeat.  `SkippedIsSeen` follows: a tool that
  is left out has a line (`SkipNeedsLine`), and a line stands for a text.
* **Master catalog.**  `Inv == TypeOK /\ NobodyWaitsInVain` is inductive as it is.  A
  thread's step changes only its own task (`TaskStep`, `MoveStep`), and stays inside the
  rebuild if it was; the puller's steps have the names of a rebuild's, but the puller is no
  worker and nobody waits for it.  What is made of tools by the copy, the memory and the
  permissions are tools (`ToolsTyped`).  `EndInv` covers every end of a rebuild, by return
  or by exception: it clears flag and event together and sets the event of all who wait.
* **Aggregator.**  The types need that whoever is connected, registered or on its way is so
  in a process that is up, and that a client that is away has no task (`AwayIsIdle`,
  `DownIsEmpty`).  A count of the catalog fits a notify task because the tools are finite.
  `CatalogIsKept` goes by who may replace the cache: a refresh that saw tools ignores an
  empty answer, a reload never filters to nothing, a hydration needs an empty cache.
  `StaleIsDue` needs beside it that the notify task of a client that is not yet registered
  has yet to begin (`NewTells`), so that whom `notify_all_sessions` passes over will still
  look; a step that changes the cache tells all who are registered or counts all as
  `untold`, and a task that ends without telling saw no tools in the cache.  A refresh that
  raises after it has replaced the cache (`Raised`) is of the second kind, so the theorem
  says which clients a failing write leaves behind, and that they are all.

Every invariant and every safety action property of a passing run is stated by a theorem.
Only model-checked are the liveness properties, since TLAPS proves none under fairness:
`HealthyConnectionIsReleased`, `IdleColdEntitySleeps`, `ChangesAreSaved`, `SnapshotRepaired`,
`LoopComesBack`, `LiveRuntimeIsRegistered`, `GoneRuntimeIsForgotten`, `RevisionIsHeard`,
`ClientsFindADaemon`, `HealthCatchesUp`, `ListRefreshSettles`, `EligibleGetsSchema`,
`GateCatchesUp`, `CatalogsCatchUp`, `ClientsCatchUp` and `DeniedIsWithdrawn`; and the two
properties of the violation runs, which do not hold.

## 5. What is not modelled

Ranking, prompts, wire formats, credentials and set-up are left out: external services,
floating-point scores or text.  Of the modelled components these parts are missing:

* tiers: the disable switch, the decay of scores, shadow sampling and its pool;
* persistence: torn reads of an object while another thread changes it, a second process
  on the database, the half-written rows of one entity's several tables;
* registry: readers' overlays, the union of layers, migration of old files, a
  deregistration without an instance (`catalog_registry.py:206`), which removes the entry
  whosever it is: cyt-mcp always names its instance;
* push: the unresolved daemon URL, the legacy loop without a context, the rehydration of
  an empty cache, several keys at a time;
* daemon: what credentials hold, the status command, the entries of `cyt launch` itself,
  the migration of old files.  `pid.json` is written in one step: the code writes it in
  place (`cyt/runtime_registry.py:47`), so that a writer that is killed, or a reader that
  takes no lock, may meet half of it;
* executor: start and stop of the scheduler, the disk flush and load, the CLI's blocking
  fetch, the MCP block, the gate inside the jobs.  An answer that is no JSON
  (`connection_health.py:513`) raises out of the cycle as other failures do, which
  `HealthFails` has;
* session: skills and resources, turn lines and transcripts, the other catalogs, Cursor's
  rules file, the proxy's corpus, subagents that share a session id, the switches of the
  session's state.  A compaction comes only when no hook runs; the text of a version that
  was shown is found again; the prompt's second filter, which compares what the first let
  through with the same log, is part of `Mode`;
* master catalog: the executor, mcpc and Cloudflare sources, degraded servers and the fuller
  of two schemas in merges, a copy for each of several workspaces and scopes, what
  `maintenance.py` makes of the copy (its "Require a complete catalog snapshot" meets
  partial ones), clearing, start and stop of the schedulers, the readers of the index.  The
  fingerprints of all sources are read in one step, as is the file that the index reloads,
  and tools and hash of a flush;
* aggregator: the runtime of a second workspace, prompts and resources, schema and answers
  of the search tool, `_refresh_and_notify` (which nothing calls), feedbacks that overlap,
  the rehydration of an empty cache by a reload (only catalogs with tools are pushed), and
  with it a reload whose cache was emptied between the push and its answer.

Some hazards of `PROJECT.json` have no property, and say there why: what the code does there
is in the model, but the code promises nothing that it would keep.  They are the recovery
run longer than the window, the failed write of a removal, the foreground daemon that keeps
the lock, the connection that appears during a list, the hook killed between log and print,
the line of another version, definitions dated late, and the cold refresh that empties a
cache or whose file cannot be written.

The components that have no module are listed in `PROJECT.json` with the reason.
`setup_wizard.py` (hook and proxy), `config/`, `proxy/`, `pruners/` and `skills/`, which
hold most of the lines, transform one configuration, request or document at a time.

## 6. Plan

What is left, the most important first:

1. `TierPersistence`: a second process on the database (`cyt tiers stats`).
2. `Aggregator`: the runtime of a second workspace (`session_runtime.py`), and the
   composition with `CatalogPush`, which would replace `news` and `pushing`.
3. The coordinator's parallel branches with their timeouts, and the shadow pool, composed
   with `TierManager`.
4. The flapping gate inside `ExecutorScheduler` (composition of the two modules), and the
   mcpc and Cloudflare variants with their reload from disk, as sources of `MasterCatalog`.
5. Pure functions over bounded inputs: union of layers, merge of permissions with deny
   precedence, greedy selection within a token budget.
6. Proofs: more safety halves of the liveness properties, such as what a runtime may
   believe of the daemon's registration (`CatalogPush`) and what each job of the Executor
   may overwrite.
