----------------------------- MODULE Aggregator -----------------------------
(***************************************************************************)
(* One cyt-mcp process and the agents that are connected to it: how its    *)
(* RuntimeToolCache is filled from the disk, the registry and the backends *)
(* (cyt_mcp/catalog_build.py, cli.py), what a tools/list gets              *)
(* (session_workspace_middleware.py, stubs.py), and when a client is told  *)
(* to list again (tool_list_notify.py, hook_daemon_push.py).               *)
(*                                                                         *)
(* All of it runs on one event loop, so a step lasts until an await that   *)
(* waits.  A tool stands for its entry, its stub and its definition, which *)
(* are replaced together.  Backends are external: what they list is what   *)
(* their servers offer at that moment, and nothing before they are ready.  *)
(* Clients are external too: one lists after the handshake and whenever it *)
(* was told to, one request at a time.                                     *)
(***************************************************************************)
EXTENDS Integers, FiniteSets

CONSTANTS
    Clients,     \* sessions
    Tools,       \* of the configured servers
    None,
    Attempts,    \* bound: DEFAULT_NOTIFY_ATTEMPTS
    MaxEvents    \* bound: changes of backends and rules, exceptions, exits

ASSUME AggregatorAssumption ==
    /\ IsFiniteSet(Tools) /\ \A s \in SUBSET Tools : s # None
    /\ Attempts \in Nat \ {0} /\ MaxEvents \in Nat

VARIABLES
    backends,    \* what the backends list
    rules,       \* the tools that the configured overlays deny
    disk,        \* the catalog file of this scope
    proc,        \* "down" or "up"
    boot,        \* the deny list of the configuration the process began with
    deny,        \* config_holder.mcp_deny
    news,        \* the daemon has a permissions revision the process has not heard of
    pushing,     \* the push loop was scheduled
    cache,       \* RuntimeToolCache
    job,         \* the refresh of a cold start: "off" or "listing"
    report,      \* the feedback of a tool call that is on its way, or None
    registered,  \* _sessions
    client,      \* the clients, with the notify task of each
    untold,      \* history: clients whose tools changed and whom nothing told
    events       \* events so far, for the bound

world == <<backends, rules, disk>>
process == <<proc, boot, deny, news, pushing>>
sessions == <<registered, client, untold>>
vars == <<world, process, cache, job, report, sessions, events>>

Counted == events < MaxEvents /\ events' = events + 1

\* on: connected; due: it is to list; ask: where its request is; shown: the answer it
\* had; task, previous, attempt: _notify_when_ready.
Client == [on : BOOLEAN, due : BOOLEAN, ask : {"no", "sent", "waiting", "live"},
           shown : {None} \cup SUBSET Tools,
           task : {"off", "new", "look"}, previous : 0 .. Cardinality(Tools),
           attempt : 0 .. Attempts - 1]

Away == [on |-> FALSE, due |-> FALSE, ask |-> "no", shown |-> None,
         task |-> "off", previous |-> 0, attempt |-> 0]

Report == [at : {"new", "wait", "listing"}, seen : SUBSET Tools,
           deny : SUBSET Tools, before : BOOLEAN]

Connected == {c \in Clients : client[c].on}

\* The lock of the cache, _refresh_lock_for.
Locked == job = "listing" \/ (report # None /\ report.at = "listing")

-----------------------------------------------------------------------------
(* The cache.                                                              *)

\* hydrate_runtime_cache reads the disk and the daemon's registry, which others
\* write, and takes the larger of the two; entries that the given list denies are
\* left out.  Nothing is changed when nothing is left.
Hydratable(denied) ==
    {(IF disk # {} /\ Cardinality(disk) >= Cardinality(r) THEN disk ELSE r) \ denied :
        r \in SUBSET Tools}

\* Mutant of Refreshed: an empty answer of the backends is taken at its word.
RefreshedToNothing(before, denied) == backends \ denied

\* refresh_catalog_cache: nothing is listed, and the cache had tools when the refresh
\* began.  Such a refresh changes nothing.
Ignored(before, denied) == backends \ denied = {} /\ before

Refreshed(before, denied) == IF Ignored(before, denied) THEN cache ELSE backends \ denied

\* persist_runtime_cache_to_disk: the file never gets smaller.
Saveable(tools) == tools # {} /\ Cardinality(tools) >= Cardinality(disk)
Persisted(tools) == IF Saveable(tools) THEN tools ELSE disk

\* refresh_catalog_cache raises: while the backends list, or when the file is written,
\* after the cache was replaced.  Nothing is pushed and no client is told.
Raised(before, denied) ==
    /\ \/ UNCHANGED <<cache, untold>>
       \/ /\ ~Ignored(before, denied) /\ Saveable(Refreshed(before, denied))
          /\ cache' = Refreshed(before, denied)
          /\ untold' = IF cache' # cache THEN Connected ELSE untold
    /\ UNCHANGED <<world, process, registered, client>>

\* reapply_deny_overlays: never to nothing.
Filtered(tools, denied) == IF tools \ denied = {} THEN tools ELSE tools \ denied

\* list_stubs_from_runtime_cache.
Stubs == cache \ deny

-----------------------------------------------------------------------------
(* Telling the clients.                                                    *)

Told(c) == [client[c] EXCEPT !.due = TRUE]

\* Mutant of NotifyAll: a session that is being answered is left out.
NotifyAllIdle ==
    /\ client' = [c \in Clients |-> IF c \in registered /\ client[c].ask = "no"
                                   THEN Told(c) ELSE client[c]]
    /\ untold' = untold \ registered

\* notify_all_sessions reaches the sessions that are registered.
NotifyAll ==
    /\ client' = [c \in Clients |-> IF c \in registered THEN Told(c) ELSE client[c]]
    /\ untold' = untold \ registered

\* Mutant of NotifyStart: the session is registered when its own notification is
\* decided.
NotifyStartUnregistered(c) ==
    /\ client[c].task = "new"
    /\ IF cache # {}
       THEN /\ client' = [client EXCEPT ![c] = [Told(c) EXCEPT !.task = "off"]]
            /\ registered' = registered \cup {c}
       ELSE client' = [client EXCEPT ![c].task = "look"] /\ UNCHANGED registered
    /\ UNCHANGED <<world, process, cache, job, report, untold, events>>

\* The task registers its session; a cache with tools is told of at once.
NotifyStart(c) ==
    /\ client[c].task = "new"
    /\ registered' = registered \cup {c}
    /\ client' = [client EXCEPT ![c] =
                    IF cache # {} THEN [Told(c) EXCEPT !.task = "off"]
                                  ELSE [@ EXCEPT !.task = "look"]]
    /\ untold' = IF cache # {} THEN untold \ {c} ELSE untold
    /\ UNCHANGED <<world, process, cache, job, report, events>>

\* One attempt: an empty cache is waited for while a refresh has the lock; two equal
\* counts, or the last attempt, decide.
NotifyLook(c) ==
    LET count == Cardinality(cache)
        stable == count > 0 /\ count = client[c].previous
        last == client[c].attempt = Attempts - 1
        over == [client[c] EXCEPT !.task = "off", !.previous = 0, !.attempt = 0]
    IN
    /\ client[c].task = "look"
    /\ cache # {} \/ ~Locked
    /\ \/ /\ stable \/ last
          /\ client' = [client EXCEPT ![c] = IF count > 0 THEN [over EXCEPT !.due = TRUE]
                                                          ELSE over]
          /\ untold' = IF count > 0 THEN untold \ {c} ELSE untold
       \/ /\ ~stable /\ ~last
          /\ client' = [client EXCEPT ![c].previous = count, ![c].attempt = @ + 1]
          /\ UNCHANGED untold
    /\ UNCHANGED <<world, process, cache, job, report, registered, events>>

-----------------------------------------------------------------------------
(* tools/list.                                                             *)

\* A client connects; its notify task is scheduled when the handshake was answered.
Connect(c) ==
    /\ proc = "up" /\ ~client[c].on
    /\ client' = [client EXCEPT ![c] = [Away EXCEPT !.on = TRUE, !.due = TRUE, !.task = "new"]]
    /\ UNCHANGED <<world, process, cache, job, report, registered, untold, events>>

Ask(c) ==
    /\ client[c].on /\ client[c].due /\ client[c].ask = "no"
    /\ client' = [client EXCEPT ![c].due = FALSE, ![c].ask = "sent"]
    /\ UNCHANGED <<world, process, cache, job, report, registered, untold, events>>

Answer(c, tools) ==
    client' = [client EXCEPT ![c].ask = "no", ![c].shown = tools]

\* A warm cache answers.
ServeWarm(c) ==
    /\ client[c].ask \in {"sent", "waiting"} /\ cache # {}
    /\ Answer(c, Stubs)
    /\ untold' = untold \ {c}
    /\ UNCHANGED <<world, process, cache, job, report, registered, events>>

\* An empty one is filled from the disk or the registry, with the rules the process
\* began with; the other clients are not told.
ServeHydrated(c) ==
    /\ client[c].ask \in {"sent", "waiting"} /\ cache = {}
    /\ cache' \in Hydratable(boot) \ {{}}
    /\ Answer(c, cache' \ deny)
    /\ untold' = Connected \ {c}
    /\ UNCHANGED <<world, process, job, report, registered, events>>

\* Else the request waits for a refresh under way, 8 s at most, and after a second
\* look asks the backends.
ServeOn(c) ==
    /\ cache = {}
    /\ {} \in Hydratable(boot)
    /\ \/ /\ client[c].ask = "sent"
          /\ client' = [client EXCEPT ![c].ask = "waiting"]
       \/ /\ client[c].ask = "waiting"
          /\ client' = [client EXCEPT ![c].ask = "live"]
    /\ UNCHANGED <<world, process, cache, job, report, registered, untold, events>>

\* What the backends list goes through StubListTransform; the cache is not filled.
ServeLive(c) ==
    /\ client[c].ask = "live"
    /\ Answer(c, backends \ deny)
    /\ UNCHANGED <<world, process, cache, job, report, registered, untold, events>>

-----------------------------------------------------------------------------
(* Refreshes.                                                              *)

\* The refresh of a cold start ends: cache, file, push and notification in one turn of
\* the loop.  It began with an empty cache, whatever requests have put there since.
JobEnds ==
    /\ job = "listing"
    /\ job' = "off"
    /\ cache' = Refreshed(FALSE, boot)
    /\ disk' = Persisted(cache')
    /\ pushing' = TRUE
    /\ IF cache' # {} THEN NotifyAll
       ELSE /\ untold' = IF cache # {} THEN Connected ELSE untold
            /\ UNCHANGED client
    /\ UNCHANGED <<backends, rules, proc, boot, deny, news, report, registered, events>>

\* It raises, which is logged; nobody tries again.
JobRaises ==
    /\ job = "listing" /\ Counted
    /\ job' = "off"
    /\ Raised(FALSE, boot)
    /\ UNCHANGED report

\* A client's tool call ends; the feedback carries the hash of the catalog.
CallEnds(c) ==
    /\ client[c].shown \notin {None, {}} /\ report = None
    /\ report' = [at |-> "new", seen |-> cache, deny |-> {}, before |-> FALSE]
    /\ UNCHANGED <<world, process, cache, job, sessions, events>>

\* _maybe_sync_catalog: a refresh is forced when the catalog has changed since, with
\* the configuration of now.
ReportStarts ==
    /\ report # None /\ report.at = "new"
    /\ report' = IF cache = report.seen THEN None
                 ELSE [report EXCEPT !.at = "wait", !.seen = {}, !.deny = deny]
    /\ UNCHANGED <<world, process, cache, job, sessions, events>>

ReportLocks ==
    /\ report # None /\ report.at = "wait" /\ ~Locked
    /\ report' = [report EXCEPT !.at = "listing", !.before = cache # {}]
    /\ UNCHANGED <<world, process, cache, job, sessions, events>>

\* The new catalog is saved and pushed, but the clients are not told.
ReportEnds ==
    /\ report # None /\ report.at = "listing"
    /\ report' = None
    /\ cache' = Refreshed(report.before, report.deny)
    /\ disk' = IF Ignored(report.before, report.deny) THEN disk ELSE Persisted(cache')
    /\ pushing' = TRUE
    /\ untold' = IF cache' # cache THEN Connected ELSE untold
    /\ UNCHANGED <<backends, rules, proc, boot, deny, news, job, registered, client, events>>

ReportRaises ==
    /\ report # None /\ report.at = "listing" /\ Counted
    /\ report' = None
    /\ Raised(report.before, report.deny)
    /\ UNCHANGED job

-----------------------------------------------------------------------------
(* Permissions.                                                            *)

\* Mutant of Reload: clients are told when the cache has changed.
ReloadTellsOfCache ==
    /\ proc = "up" /\ pushing /\ news /\ cache # {}
    /\ news' = FALSE /\ deny' = rules
    /\ cache' = IF deny # rules THEN Filtered(cache, rules) ELSE cache
    /\ IF cache' # cache THEN NotifyAll ELSE UNCHANGED <<client, untold>>
    /\ UNCHANGED <<world, proc, boot, pushing, job, report, registered, events>>

\* A push was answered with a newer revision: _maybe_reload_permissions.  Only a
\* catalog with tools is pushed.
Reload ==
    /\ proc = "up" /\ pushing /\ news /\ cache # {}
    /\ news' = FALSE /\ deny' = rules
    /\ cache' = IF deny # rules THEN Filtered(cache, rules) ELSE cache
    /\ IF deny # rules THEN NotifyAll ELSE UNCHANGED <<client, untold>>
    /\ UNCHANGED <<world, proc, boot, pushing, job, report, registered, events>>

ChangeRules ==
    /\ Counted
    /\ \E denied \in SUBSET Tools : denied # rules /\ rules' = denied
    /\ news' = (proc = "up")
    /\ UNCHANGED <<backends, disk, proc, boot, deny, pushing, cache, job, report, sessions>>

-----------------------------------------------------------------------------
(* The process and its backends.                                           *)

\* _run_server: a cache that could be hydrated is pushed and the backends are not
\* asked; a cold one is refreshed, a task that begins before the first request.
Start ==
    /\ proc = "down"
    /\ proc' = "up"
    /\ boot' = rules /\ deny' = rules /\ news' = FALSE
    /\ cache' \in Hydratable(rules)
    /\ pushing' = (cache' # {})
    /\ job' = IF cache' = {} THEN "listing" ELSE "off"
    /\ UNCHANGED <<world, report, sessions, events>>

\* The process ends, and with it every session and task.
Exit ==
    /\ proc = "up" /\ Counted
    /\ proc' = "down"
    /\ cache' = {} /\ job' = "off" /\ report' = None
    /\ boot' = {} /\ deny' = {} /\ news' = FALSE /\ pushing' = FALSE
    /\ registered' = {} /\ client' = [c \in Clients |-> Away] /\ untold' = {}
    /\ UNCHANGED world

ChangeBackends ==
    /\ Counted
    /\ \E s \in SUBSET Tools : s # backends /\ backends' = s
    /\ UNCHANGED <<rules, disk, process, cache, job, report, sessions>>

-----------------------------------------------------------------------------
Init ==
    /\ backends \in SUBSET Tools /\ rules = {} /\ disk = {}
    /\ proc = "down" /\ boot = {} /\ deny = {} /\ news = FALSE /\ pushing = FALSE
    /\ cache = {} /\ job = "off" /\ report = None
    /\ registered = {} /\ client = [c \in Clients |-> Away] /\ untold = {}
    /\ events = 0

Notify(c) == NotifyStart(c) \/ NotifyLook(c)
Serve(c) == Ask(c) \/ ServeWarm(c) \/ ServeHydrated(c) \/ ServeOn(c) \/ ServeLive(c)
Feedback == ReportStarts \/ ReportLocks \/ ReportEnds

Next ==
    \/ \E c \in Clients : Connect(c) \/ Notify(c) \/ Serve(c) \/ CallEnds(c)
    \/ JobEnds \/ JobRaises \/ Feedback \/ ReportRaises
    \/ Reload \/ ChangeRules
    \/ Start \/ Exit \/ ChangeBackends

\* The event loop goes on: tasks and requests come to their end, and the push loop
\* brings the revision.
Spec ==
    /\ Init /\ [][Next]_vars
    /\ \A c \in Clients : WF_vars(Notify(c)) /\ WF_vars(Serve(c))
    /\ WF_vars(JobEnds) /\ WF_vars(Feedback) /\ WF_vars(Reload)

-----------------------------------------------------------------------------
(* Properties.                                                             *)

TypeOK ==
    /\ backends \subseteq Tools /\ rules \subseteq Tools /\ disk \subseteq Tools
    /\ proc \in {"down", "up"} /\ boot \subseteq Tools /\ deny \subseteq Tools
    /\ news \in BOOLEAN /\ pushing \in BOOLEAN /\ cache \subseteq Tools
    /\ job \in {"off", "listing"} /\ report \in {None} \cup Report
    /\ registered \subseteq Connected /\ untold \subseteq Connected
    /\ client \in [Clients -> Client]
    /\ events \in 0 .. MaxEvents

\* A client may list before the backends are ready, while a refresh is under way or
\* while rules change, and its session may be registered after a notification went
\* out.  One that stays has in the end what a tools/list would give it now, unless the
\* last change of the cache was one that tells nobody.
ClientsCatchUp ==
    \A c \in Clients :
        <>[](client[c].on /\ cache # {} /\ c \notin untold) => <>[](client[c].shown = Stubs)

\* No notification is lost: a client whose tools are not those a tools/list would give it
\* now is about to list, or its notify task has yet to decide.  A list that asks the
\* backends may be overtaken by the cache, a refresh may end before the session is
\* registered, and a task may give up while another client fills the cache.
StaleIsDue ==
    \A c \in Clients :
        client[c].on /\ cache # {} /\ c \notin untold =>
            \/ client[c].due \/ client[c].ask \in {"sent", "waiting"}
            \/ client[c].task # "off"
            \/ client[c].ask = "no" /\ client[c].shown = Stubs

\* A tool that the process denies does not stay in the list of a client, although the
\* cache may keep it (reapply_deny_overlays refuses to empty it) and a refresh that
\* began before the change brings it back.
DeniedIsWithdrawn ==
    \A c \in Clients :
        <>[](client[c].on) => 
            <>[](client[c].shown # None /\ client[c].shown \cap deny = {})

\* A refresh under way that saw an empty cache when it began.
BeganEmpty == job = "listing" \/ (report # None /\ report.at = "listing" /\ ~report.before)

\* Neither backends that go away nor rules that deny all leave a process without a
\* catalog that it had; only a refresh which began before it had one can.
CatalogIsKept ==
    [][cache # {} /\ ~BeganEmpty /\ proc' = "up" => cache' # {}]_vars
=============================================================================
