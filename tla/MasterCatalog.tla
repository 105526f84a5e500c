--------------------------- MODULE MasterCatalog ---------------------------
(***************************************************************************)
(* The master catalog of the hook daemon (cyt/tools/master_catalog.py and  *)
(* its scheduler), the two kinds of sources it concatenates, and the index *)
(* kept of one of them (catalog_cache.py).                                 *)
(*                                                                         *)
(* A source keeps its tools in memory, refreshed by a thread of its own:   *)
(*   file    the definitions file, by definitions_catalog.py               *)
(*   pushed  what cyt-mcp runtimes registered, by cyt_mcp/catalog.py       *)
(* Rebuilds read the sources, then their fingerprints, and replace the     *)
(* master catalog.  Each statement that takes a lock or reads a file is a  *)
(* step, and several rebuilds may be under way: the poller's, those that   *)
(* follow a registration, and those of blocking readers.                   *)
(*                                                                         *)
(* A set of tools stands for the tools of a source and for their hash.     *)
(* Pushed tools have a copy on disk; the hook works for a user whose       *)
(* workspace declares no servers of its own, so that there is one such     *)
(* file and all of its tools have the scope of the user.  What a thread    *)
(* computes from the copy and the permissions at one place is one step.    *)
(***************************************************************************)
EXTENDS Integers, FiniteSets

CONSTANTS
    Tools, ServerOf,     \* tools, and the MCP server of each
    Offers,              \* sets of tools that a file or a registration brings
    Missing, Broken,     \* a definitions file that is not there, that does not load
    Unset,               \* a fingerprint that was never taken
    Poller,              \* _run_refresh, the worker of master_cache_scheduler.py
    Puller,              \* _scheduler_loop of cyt_mcp/cache_scheduler.py
    Hydrators,           \* threads of registrations
    Readers,             \* callers of get_master_tool_catalog(blocking=True)
    MaxEvents            \* bound: changes of the sources, threads that raise

ASSUME MasterAssumption ==
    /\ MaxEvents \in Nat
    /\ Poller \notin Hydrators \cup Readers /\ Hydrators \cap Readers = {}
    /\ Puller \notin {Poller} \cup Hydrators \cup Readers
    /\ Offers \subseteq SUBSET Tools /\ {} \notin Offers
    /\ \A tools \in SUBSET Tools : tools \notin {Unset, Missing, Broken}

VARIABLES
    configured, \* tools_hook_sources: which of the two sources the hook uses
    declared,   \* _configured_server_keys_for_hydration; {}: none could be read
    file,       \* the definitions file
    registry,   \* what catalog_for_hook returns
    withheld,   \* _ready_catalog_tools filters every pushed tool (permissions)
    copy,       \* the pushed catalog on disk, or Unset
    defs,       \* definitions_catalog._catalog_states: tools and fingerprint
    pushed,     \* cyt_mcp.catalog._catalog_states: tools and fingerprint
    master,     \* master_catalog._catalog_states: tools and fingerprints
    inProgress, \* the key is in _rebuild_in_progress
    waiterEvent, \* the key has an event in _rebuild_waiters
    bulk,       \* _decomposed_states["definitions"]: the tools indexed
    loader,     \* the definitions refresh thread
    indexer,    \* the entries that schedule_decomposed_catalog_refresh has a thread for
    task,       \* what each thread is at
    events      \* such events so far

sources == <<configured, declared, file, registry, withheld>>
memory == <<defs, pushed, copy>>
flags == <<inProgress, waiterEvent>>
jobs == <<loader, indexer>>
vars == <<sources, memory, master, flags, bulk, jobs, task, events>>

Workers == {Poller} \cup Hydrators \cup Readers
Threads == Workers \cup {Puller}
Content == SUBSET Tools
Files == Offers \cup {{}, Missing, Broken}
Servers == {ServerOf[t] : t \in Tools}
Pair == [file : Content, pushed : Content]
Prints == [file : Files \cup {Unset}, pushed : {Unset} \cup Content]

\* The places of a worker inside the try of rebuild_master_catalog.
Rebuilding == {"prior", "prints", "file", "date", "check", "again", "pushed", "load", "ask",
               "pull", "swap", "save", "grow", "stamp", "apply", "index", "finish"}
Places == Rebuilding \cup {"idle", "merge", "feed", "fill", "put", "keep", "loaded", "copy",
                           "copied", "enter", "await", "waiting"}
Task ==
    [at : Places, stage : 0..3, prior : Pair, priorPrint : Prints, nowPrint : Prints,
     part : Pair, got : Content]

NoTools == [file |-> {}, pushed |-> {}]
NoPrints == [file |-> Unset, pushed |-> Unset]
Idle ==
    [at |-> "idle", stage |-> 0, prior |-> NoTools, priorPrint |-> NoPrints,
     nowPrint |-> NoPrints, part |-> NoTools, got |-> {}]

Loads(content) == content \notin {Missing, Broken}
\* _ready_catalog_tools
Ready(tools) == IF withheld THEN {} ELSE tools
\* _current_source_fingerprints: of the file itself; of the pushed tools in memory or,
\* as long as there were none, of their copy.
CurrentPrints ==
    [file |-> IF "file" \in configured THEN file ELSE Unset,
     pushed |-> IF "pushed" \notin configured THEN Unset
                ELSE IF pushed.print # Unset THEN pushed.print ELSE copy]

\* _disk_catalog_tools
Copied == IF copy = Unset THEN {} ELSE copy
\* _fetch_catalog_from_registry: without a registration
\* _merge_missing_user_scope_catalog_tools brings what the copy has.
Fetched == IF registry # {} THEN registry ELSE Copied

ServersOf(tools) == {ServerOf[t] : t \in tools}
\* _hydrate_missing_servers_from_disk: a server that is still declared and has no tool
\* in the given ones keeps those of the copy.
Hydrated(tools) ==
    tools \cup {t \in Copied : /\ ServerOf[t] \notin ServersOf(tools)
                              /\ (declared = {} \/ ServerOf[t] \in declared)}
\* _merge_degraded_backend_tools: any server of the copy keeps those of memory and copy.
Merged(tools) ==
    tools \cup {t \in pushed.tools \cup Copied :
                    ServerOf[t] \in ServersOf(Copied) \ ServersOf(tools)}

Counted == events < MaxEvents /\ events' = events + 1
At(w, place) == task[w].at = place
\* The argument `blocking' of the rebuild a worker is in: the poller does not
\* block, a registration does, and a reader blocks the second time.
Blocks(w) == w \in Hydrators \/ task[w].stage = 2
Goes(w, new) == task' = [task EXCEPT ![w] = new]

-----------------------------------------------------------------------------
(* What changes around the catalogs.                                       *)

EditFile ==
    /\ "file" \in configured
    /\ Counted
    /\ file' \in Files \ {file}
    /\ UNCHANGED <<configured, declared, registry, withheld, memory, master, flags, bulk, jobs, task>>

\* A registration, which starts a thread that feeds the hook's caches.
Push(h) ==
    /\ "pushed" \in configured
    /\ At(h, "idle")
    /\ Counted
    /\ registry' \in Offers
    /\ Goes(h, [Idle EXCEPT !.at = "merge", !.got = registry'])
    /\ UNCHANGED <<configured, declared, file, withheld, memory, master, flags, bulk, jobs>>

\* The registration goes, or a permission withholds its tools, or no longer does.
Depart ==
    /\ registry # {}
    /\ Counted
    /\ registry' = {}
    /\ UNCHANGED <<configured, declared, file, withheld, memory, master, flags, bulk, jobs, task>>

Withhold ==
    /\ "pushed" \in configured
    /\ Counted
    /\ withheld' = ~withheld
    /\ UNCHANGED <<configured, declared, file, registry, memory, master, flags, bulk, jobs, task>>

-----------------------------------------------------------------------------
(* The sources' own refreshes.                                             *)

NoLoader == [at |-> "idle", print |-> Unset, got |-> {}]

\* refresh_definitions_catalog_from_file: the fingerprint first ...
LoaderPrints ==
    /\ "file" \in configured /\ loader.at = "idle"
    /\ file # Missing
    /\ ~(defs.print = file /\ defs.tools # {})
    /\ loader' = [at |-> "load", print |-> file, got |-> {}]
    /\ UNCHANGED <<sources, memory, master, flags, bulk, indexer, task, events>>

\* ... then the tools ...
LoaderLoads ==
    /\ loader.at = "load"
    /\ loader' = IF Loads(file) THEN [loader EXCEPT !.at = "apply", !.got = file] ELSE NoLoader
    /\ UNCHANGED <<sources, memory, master, flags, bulk, indexer, task, events>>

\* ... and both replace the memory.
LoaderApplies ==
    /\ loader.at = "apply"
    /\ defs' = [tools |-> loader.got, print |-> loader.print]
    /\ loader' = NoLoader
    /\ UNCHANGED <<sources, pushed, copy, master, flags, bulk, indexer, task, events>>

LoaderStep == LoaderPrints \/ LoaderLoads \/ LoaderApplies

\* _refresh_cyt_mcp_tools: without a registration and without a copy the memory stands
\* for both.
PullerFetches ==
    /\ "pushed" \in configured /\ At(Puller, "idle")
    /\ \/ Fetched # {} /\ Goes(Puller, [Idle EXCEPT !.at = "pull", !.got = Fetched])
       \/ /\ Fetched = {} /\ Ready(pushed.tools) # {}
          /\ Goes(Puller, [Idle EXCEPT !.at = "feed", !.got = pushed.tools])
    /\ UNCHANGED <<sources, memory, master, flags, bulk, jobs, events>>

\* _flush_cyt_mcp_disk
Flush ==
    /\ At(Puller, "idle") /\ pushed.tools # {}
    /\ Goes(Puller, [Idle EXCEPT !.at = "keep", !.got = pushed.tools])
    /\ UNCHANGED <<sources, memory, master, flags, bulk, jobs, events>>

\* _refresh_from_registry goes on with what was fetched, for the refresh and for rebuilds.
Pull(t) ==
    /\ At(t, "pull")
    /\ Goes(t, [task[t] EXCEPT !.at = "swap", !.got = Ready(Hydrated(@))])
    /\ UNCHANGED <<sources, memory, master, flags, bulk, jobs, events>>

\* apply_fetched_catalog: the tools of servers that are missing in those given are taken
\* from memory and copy, then from the copy once more.
Feed(t) ==
    /\ At(t, "feed")
    /\ Goes(t, [task[t] EXCEPT !.at = "fill", !.got = Merged(@)])
    /\ UNCHANGED <<sources, memory, master, flags, bulk, jobs, events>>

Fill(t) ==
    /\ At(t, "fill")
    /\ Goes(t, [task[t] EXCEPT !.at = "put", !.got = Ready(Hydrated(@))])
    /\ UNCHANGED <<sources, memory, master, flags, bulk, jobs, events>>

\* Both apply the result to the memory ...
Put(t) ==
    /\ task[t].at \in {"swap", "put"}
    /\ pushed' = [tools |-> task[t].got, print |-> task[t].got]
    /\ Goes(t, [task[t] EXCEPT !.at = IF @ = "swap" THEN "save" ELSE "keep"])
    /\ UNCHANGED <<sources, defs, copy, master, flags, bulk, jobs, events>>

\* ... and write the copy.  The refresh applies what it has refreshed once more, and
\* after a registration a blocking rebuild follows.
Keep(t) ==
    /\ At(t, "keep") \/ (t = Puller /\ At(t, "save"))
    /\ copy' = task[t].got
    /\ Goes(t, IF At(t, "save") /\ task[t].got # {} THEN [task[t] EXCEPT !.at = "feed"]
               ELSE IF t \in Hydrators THEN [Idle EXCEPT !.at = "enter"]
               ELSE Idle)
    /\ UNCHANGED <<sources, defs, pushed, master, flags, bulk, jobs, events>>

\* The copy cannot be written: neither loop nor thread goes on with it.
KeepFails(t) ==
    /\ At(t, "keep") \/ (t = Puller /\ At(t, "save"))
    /\ Counted
    /\ Goes(t, Idle)
    /\ UNCHANGED <<sources, memory, master, flags, bulk, jobs>>

FeedStep(t) == Pull(t) \/ Feed(t) \/ Fill(t) \/ Put(t) \/ Keep(t) \/ KeepFails(t)

PullerStep == PullerFetches \/ FeedStep(Puller)

\* _build_and_swap, in the thread of schedule_decomposed_catalog_refresh, of the
\* entries it was started with.  The fingerprint that it takes only serves readers.
IndexerSwaps ==
    /\ indexer # {}
    /\ bulk' = indexer
    /\ indexer' = {}
    /\ UNCHANGED <<sources, memory, master, flags, loader, task, events>>

IndexerFails ==
    /\ indexer # {}
    /\ Counted
    /\ indexer' = {}
    /\ UNCHANGED <<sources, memory, master, flags, bulk, loader, task>>

IndexerStep == IndexerSwaps \/ IndexerFails

-----------------------------------------------------------------------------
(* rebuild_master_catalog.                                                 *)

Empty(tools) == tools.file = {} /\ tools.pushed = {}

\* What a worker does after a rebuild, or after it waited for one: a reader of a
\* catalog that is still empty rebuilds it itself, then waits for whoever is at
\* it; the others are done.
After(w) ==
    LET again == w \in Readers /\ Empty(master.tools)
    IN  CASE again /\ task[w].stage = 1 -> [Idle EXCEPT !.at = "enter", !.stage = 2]
          [] again /\ task[w].stage = 2 -> [Idle EXCEPT !.at = "await", !.stage = 3]
          [] OTHER -> Idle

\* A rebuild that blocks waits only if somebody waits already; otherwise it runs
\* beside the one that is in progress.
Enter(w) ==
    /\ At(w, "enter")
    /\ IF ~inProgress
       THEN inProgress' = TRUE /\ Goes(w, [task[w] EXCEPT !.at = "prior"])
       ELSE /\ UNCHANGED inProgress
            /\ Goes(w, IF ~Blocks(w) THEN After(w)
                       ELSE [task[w] EXCEPT !.at = IF waiterEvent THEN "await" ELSE "prior"])
    /\ UNCHANGED <<sources, memory, master, waiterEvent, bulk, jobs, events>>

\* _wait_for_in_progress_rebuild
Await(w) ==
    /\ At(w, "await")
    /\ IF inProgress
       THEN waiterEvent' = TRUE /\ Goes(w, [task[w] EXCEPT !.at = "waiting"])
       ELSE UNCHANGED waiterEvent /\ Goes(w, After(w))
    /\ UNCHANGED <<sources, memory, master, inProgress, bulk, jobs, events>>

\* BLOCKING_REBUILD_WAIT_SECONDS are over.
WaitTimesOut(w) ==
    /\ At(w, "waiting")
    /\ Goes(w, After(w))
    /\ UNCHANGED <<sources, memory, master, flags, bulk, jobs, events>>

ReadPrior(w) ==
    /\ At(w, "prior")
    /\ Goes(w, [task[w] EXCEPT !.at = "prints", !.prior = master.tools])
    /\ UNCHANGED <<sources, memory, master, flags, bulk, jobs, events>>

\* The fingerprints of the catalog, then those of the sources, as one step.
ReadPrints(w) ==
    /\ At(w, "prints")
    /\ Goes(w, [task[w] EXCEPT !.at = IF "file" \in configured THEN "file" ELSE "pushed",
                               !.priorPrint = master.print, !.nowPrint = CurrentPrints])
    /\ UNCHANGED <<sources, memory, master, flags, bulk, jobs, events>>

\* The part of a source in the new catalog: what was read, or, when that is
\* nothing and the rebuild does not block, what the catalog had of it, provided
\* its fingerprint is still that of the catalog.
Part(w, source, tools) ==
    IF tools = {} /\ ~Blocks(w) /\ task[w].priorPrint[source] = task[w].nowPrint[source]
    THEN task[w].prior[source]
    ELSE tools

TakeFile(w, tools) ==
    Goes(w, [task[w] EXCEPT !.at = IF "pushed" \in configured THEN "pushed" ELSE "stamp",
                            !.part.file = Part(w, "file", tools), !.got = {}])
TakePushed(w, tools) ==
    Goes(w, [task[w] EXCEPT !.at = "stamp", !.part.pushed = Part(w, "pushed", tools),
                            !.got = {}, !.prior = NoTools, !.priorPrint = NoPrints,
                            !.nowPrint = NoPrints])

\* get_definitions_catalog: the memory or, when it is empty, the file.
ReadFile(w) ==
    /\ At(w, "file")
    /\ IF defs.tools # {} THEN TakeFile(w, defs.tools)
       ELSE IF Loads(file) THEN Goes(w, [task[w] EXCEPT !.at = "date", !.got = file])
       ELSE Goes(w, [task[w] EXCEPT !.at = "check"])
    /\ UNCHANGED <<sources, memory, master, flags, bulk, jobs, events>>

\* _load_catalog_from_disk and _blocking_file_fetch fingerprint the file after
\* they have loaded it.
DateFile(w) == defs' = [tools |-> task[w].got, print |-> file]

LoadFile(w) ==
    /\ At(w, "date")
    /\ DateFile(w)
    /\ Goes(w, [task[w] EXCEPT !.at = "check", !.got = {}])
    /\ UNCHANGED <<sources, pushed, copy, master, flags, bulk, jobs, events>>

\* What is in memory now; when that is nothing, a rebuild that blocks loads the
\* file once more.
CheckFile(w) ==
    /\ At(w, "check")
    /\ IF defs.tools = {} /\ Blocks(w) /\ Loads(file)
       THEN Goes(w, [task[w] EXCEPT !.at = "again", !.got = file])
       ELSE TakeFile(w, defs.tools)
    /\ UNCHANGED <<sources, memory, master, flags, bulk, jobs, events>>

FetchFile(w) ==
    /\ At(w, "again")
    /\ DateFile(w)
    /\ TakeFile(w, task[w].got)
    /\ UNCHANGED <<sources, pushed, copy, master, flags, bulk, jobs, events>>

\* get_cyt_mcp_catalog: an empty memory is loaded from the copy ...
ReadPushed(w) ==
    /\ At(w, "pushed")
    /\ Goes(w, IF pushed.tools = {} /\ copy # Unset
               THEN [task[w] EXCEPT !.at = "load", !.got = copy]
               ELSE [task[w] EXCEPT !.at = "ask"])
    /\ UNCHANGED <<sources, memory, master, flags, bulk, jobs, events>>

LoadPushed(w) ==
    /\ At(w, "load")
    /\ pushed' = [tools |-> task[w].got, print |-> task[w].got]
    /\ Goes(w, [task[w] EXCEPT !.at = "ask", !.got = {}])
    /\ UNCHANGED <<sources, defs, copy, master, flags, bulk, jobs, events>>

\* ... and is the answer, with the servers it lacks, unless it is still empty or the
\* rebuild blocks: then the registry is asked (_refresh_from_registry).
AskPushed(w) ==
    /\ At(w, "ask")
    /\ LET pulls == Blocks(w) \/ pushed.tools = {}
           whole == Hydrated(pushed.tools)
       IN  \/ /\ pulls /\ Fetched # {}
              /\ Goes(w, [task[w] EXCEPT !.at = "pull", !.got = Fetched])
           \/ /\ ~pulls /\ whole # pushed.tools
              /\ Goes(w, [task[w] EXCEPT !.at = "grow", !.got = whole])
           \/ /\ IF pulls THEN Fetched = {} ELSE whole = pushed.tools
              /\ TakePushed(w, Ready(pushed.tools))
    /\ UNCHANGED <<sources, memory, master, flags, bulk, jobs, events>>

\* Servers were added: the memory gets what the permissions leave, dated with all.
GrowPushed(w) ==
    /\ At(w, "grow")
    /\ pushed' = [tools |-> Ready(task[w].got), print |-> task[w].got]
    /\ TakePushed(w, pushed'.tools)
    /\ UNCHANGED <<sources, defs, copy, master, flags, bulk, jobs, events>>

\* The registry was asked: what it gave is the answer or, if the permissions left
\* nothing of it, what is in memory, provided something was before.
PullPushed(w) ==
    /\ At(w, "save")
    /\ copy' = task[w].got
    /\ \E tools \in IF task[w].got # {} THEN {task[w].got} ELSE {{}, pushed.tools} :
          TakePushed(w, Ready(tools))
    /\ UNCHANGED <<sources, defs, pushed, master, flags, bulk, jobs, events>>

\* The fingerprints the catalog is stamped with are read after its tools.
Stamp(w) ==
    /\ At(w, "stamp")
    /\ Goes(w, [task[w] EXCEPT !.at = "apply", !.nowPrint = CurrentPrints])
    /\ UNCHANGED <<sources, memory, master, flags, bulk, jobs, events>>

\* _apply_master_catalog_to_state
Apply(w) ==
    /\ At(w, "apply")
    /\ master' = [tools |-> task[w].part, print |-> task[w].nowPrint]
    /\ Goes(w, [task[w] EXCEPT !.at = IF Empty(task[w].part) THEN "finish" ELSE "index",
                               !.part = NoTools, !.nowPrint = NoPrints])
    /\ UNCHANGED <<sources, memory, flags, bulk, jobs, events>>

\* schedule_decomposed_catalog_refresh_for_sources: what is in memory is indexed,
\* which is loaded from the file if it is empty; there is no index of pushed
\* tools.  A refresh that runs already is left to its older entries.
Index(w) ==
    /\ At(w, "index")
    /\ IF "file" \in configured
       THEN /\ defs' = IF defs.tools = {} /\ Loads(file)
                       THEN [tools |-> file, print |-> file] ELSE defs
            /\ indexer' = IF indexer = {} THEN defs'.tools ELSE indexer
       ELSE UNCHANGED <<defs, indexer>>
    /\ Goes(w, [task[w] EXCEPT !.at = "finish"])
    /\ UNCHANGED <<sources, pushed, copy, master, flags, bulk, loader, events>>

\* Mutant of FinishRebuild: who waits is left to the timeout.
FinishRebuildAlone(w) ==
    /\ inProgress' = FALSE /\ UNCHANGED waiterEvent
    /\ Goes(w, After(w))

\* _finish_rebuild: the flag goes, whoever set it, and all who wait wake up.
FinishRebuild(w) ==
    /\ inProgress' = FALSE /\ waiterEvent' = FALSE
    /\ task' = [v \in Threads |-> IF v = w \/ At(v, "waiting") THEN After(v) ELSE task[v]]

Finish(w) ==
    /\ At(w, "finish")
    /\ FinishRebuild(w)
    /\ UNCHANGED <<sources, memory, master, bulk, jobs, events>>

\* A source raises: the finally clause finishes, and the caller gives up.
Raise(w) ==
    /\ task[w].at \in {"file", "pushed", "save", "stamp"}
    /\ Counted
    /\ inProgress' = FALSE /\ waiterEvent' = FALSE
    /\ task' = [v \in Threads |-> IF v = w THEN Idle
                                  ELSE IF At(v, "waiting") THEN After(v) ELSE task[v]]
    /\ UNCHANGED <<sources, memory, master, bulk, jobs>>

RebuildStep(w) ==
    \/ Enter(w) \/ Await(w) \/ WaitTimesOut(w)
    \/ ReadPrior(w) \/ ReadPrints(w)
    \/ ReadFile(w) \/ LoadFile(w) \/ CheckFile(w) \/ FetchFile(w)
    \/ ReadPushed(w) \/ LoadPushed(w) \/ AskPushed(w) \/ GrowPushed(w)
    \/ Pull(w) \/ Put(w) \/ PullPushed(w)
    \/ Stamp(w) \/ Apply(w) \/ Index(w) \/ Finish(w) \/ Raise(w)

-----------------------------------------------------------------------------
(* Who rebuilds.                                                           *)

\* Mutant of Poll: it rebuilds a catalog only if it is stale (_master_is_stale).
PollWhenStale ==
    /\ At(Poller, "idle")
    /\ LET stale == Empty(master.tools) \/ master.print # CurrentPrints
       IN  Goes(Poller, IF stale THEN [Idle EXCEPT !.at = "enter"] ELSE Idle)
    /\ UNCHANGED <<sources, memory, master, flags, bulk, jobs, events>>

\* _scheduler_loop rebuilds every second, stale or not, one at a time.
Poll ==
    /\ At(Poller, "idle")
    /\ Goes(Poller, [Idle EXCEPT !.at = "enter"])
    /\ UNCHANGED <<sources, memory, master, flags, bulk, jobs, events>>

\* _hydrate_hook_caches_from_registration: the registry as it is now, or what
\* was registered if that is gone, is applied (apply_fetched_catalog).
Merge(h) ==
    /\ At(h, "merge")
    /\ Goes(h, [task[h] EXCEPT !.at = "feed", !.got = IF registry # {} THEN registry ELSE @])
    /\ UNCHANGED <<sources, memory, master, flags, bulk, jobs, events>>

\* get_master_tool_catalog(blocking=True) of an empty catalog:
\* _hydrate_master_from_disk_if_empty loads the file and the copy, each if none of its
\* tools are in memory, and rebuilds without blocking.
BlockingGet(r) ==
    /\ At(r, "idle")
    /\ Empty(master.tools)
    /\ Goes(r, IF "file" \in configured /\ defs.tools = {} /\ Loads(file)
               THEN [Idle EXCEPT !.at = "loaded", !.got = file, !.stage = 1]
               ELSE [Idle EXCEPT !.at = "copy", !.stage = 1])
    /\ UNCHANGED <<sources, memory, master, flags, bulk, jobs, events>>

Hydrate(r) ==
    /\ At(r, "loaded")
    /\ DateFile(r)
    /\ Goes(r, [Idle EXCEPT !.at = "copy", !.stage = 1])
    /\ UNCHANGED <<sources, pushed, copy, master, flags, bulk, jobs, events>>

ReadCopy(r) ==
    /\ At(r, "copy")
    /\ Goes(r, IF "pushed" \in configured /\ pushed.tools = {} /\ copy # Unset
               THEN [Idle EXCEPT !.at = "copied", !.got = copy, !.stage = 1]
               ELSE [Idle EXCEPT !.at = "enter", !.stage = 1])
    /\ UNCHANGED <<sources, memory, master, flags, bulk, jobs, events>>

HydrateCopy(r) ==
    /\ At(r, "copied")
    /\ pushed' = [tools |-> task[r].got, print |-> task[r].got]
    /\ Goes(r, [Idle EXCEPT !.at = "enter", !.stage = 1])
    /\ UNCHANGED <<sources, defs, copy, master, flags, bulk, jobs, events>>

Step(w) ==
    \/ RebuildStep(w)
    \/ w \in Hydrators /\ (Merge(w) \/ FeedStep(w))
    \/ w \in Readers /\ (Hydrate(w) \/ ReadCopy(w) \/ HydrateCopy(w))

Init ==
    /\ configured \in (SUBSET {"file", "pushed"}) \ {{}}
    /\ declared \in SUBSET Servers
    /\ file \in Files /\ registry = {} /\ withheld = FALSE
    /\ defs = [tools |-> {}, print |-> Unset] /\ pushed = [tools |-> {}, print |-> Unset]
    /\ copy \in Offers \cup {Unset}
    /\ master = [tools |-> NoTools, print |-> NoPrints]
    /\ inProgress = FALSE /\ waiterEvent = FALSE
    /\ bulk = {}
    /\ loader = NoLoader /\ indexer = {}
    /\ task = [w \in Threads |-> Idle]
    /\ events = 0

Next ==
    \/ EditFile \/ Depart \/ Withhold
    \/ LoaderStep \/ PullerStep \/ Flush \/ IndexerStep
    \/ Poll
    \/ \E h \in Hydrators : Push(h)
    \/ \E r \in Readers : BlockingGet(r)
    \/ \E w \in Workers : Step(w)

Spec == Init /\ [][Next]_vars

\* The loops of the three schedulers turn, and their threads and the workers go on.  In
\* each turn the refresh comes before the flush.
Fairness ==
    /\ WF_vars(LoaderStep) /\ WF_vars(IndexerStep)
    /\ WF_vars(PullerStep) /\ SF_vars(PullerFetches)
    /\ WF_vars(Poll)
    /\ \A w \in Workers : WF_vars(Step(w))

LiveSpec == Spec /\ Fairness

-----------------------------------------------------------------------------
(* Properties.                                                             *)

\* The types.
TypeOK ==
    /\ configured \subseteq {"file", "pushed"} /\ declared \subseteq Servers
    /\ file \in Files /\ registry \in Content /\ withheld \in BOOLEAN
    /\ defs \in [tools : Content, print : Files \cup {Unset}]
    /\ pushed \in [tools : Content, print : {Unset} \cup Content]
    /\ copy \in {Unset} \cup Content
    /\ master \in [tools : Pair, print : Prints]
    /\ inProgress \in BOOLEAN /\ waiterEvent \in BOOLEAN
    /\ bulk \in Content /\ indexer \in Content
    /\ loader \in [at : {"idle", "load", "apply"}, print : Files \cup {Unset}, got : Content]
    /\ task \in [Threads -> Task]
    /\ events \in 0..MaxEvents

\* Rebuilds that overlap clear each other's flag, and any of them may raise; but
\* while the flag is set some rebuild is under way that will clear it, and
\* whoever waits has an event that this rebuild will find and set.
NobodyWaitsInVain ==
    /\ inProgress => \E w \in Workers : task[w].at \in Rebuilding
    /\ \A w \in Workers : At(w, "waiting") => waiterEvent
    /\ waiterEvent => inProgress

\* The definitions in memory carry the fingerprint of another file than theirs:
\* the file changed between the load and the fingerprint.
Misdated == defs.print # defs.tools

\* What memory may have beside the registration: tools of servers that are not in it, as
\* long as they are declared.
KeptAside(tools) ==
    \A t \in tools \ registry :
        /\ ServerOf[t] \notin ServersOf(registry)
        /\ (declared = {} \/ ServerOf[t] \in declared)

\* Once the sources are quiet, memory holds what they hold, and of pushed tools only
\* more of other servers; the master catalog holds what memory holds, and the index the
\* tools of the file, whatever was read, merged, dated and applied in whatever order
\* before.  Two cases are excepted, in which the code lets go: a file that has the
\* fingerprint memory was misdated with, and a source that has no tools left to offer.
CatalogsCatchUp ==
    <>[](/\ "file" \in configured /\ file \in Offers =>
                defs.tools = file \/ (Misdated /\ defs.print = file)
         /\ defs.tools # {} => master.tools.file = defs.tools /\ bulk = defs.tools
         /\ registry # {} /\ ~withheld =>
                registry \subseteq pushed.tools /\ KeptAside(pushed.tools)
         /\ pushed.tools # {} /\ ~withheld => master.tools.pushed = pushed.tools)

=============================================================================
