---------------------------- MODULE CatalogPush ----------------------------
(***************************************************************************)
(* How cyt-mcp runtimes push their tool catalogs to the hook daemon and    *)
(* hear of changed permissions in the answers (cyt_mcp/hook_daemon_push.py,*)
(* cyt/hook/permissions_revision.py), for one registry key.                *)
(*                                                                         *)
(* The daemon's registry is RegistryContract: every request is one of its  *)
(* steps.  A runtime has a push loop, which comes round for as long as it  *)
(* lives, and immediate pushes beside it; each runs _push_once in a thread *)
(* of its own and comes back to the runtime's event loop.  A catalog is    *)
(* the set of its tools, and stands for its content hash.                  *)
(***************************************************************************)
EXTENDS Integers, FiniteSets

CONSTANTS
    Runtimes,    \* cyt-mcp processes
    Tools,
    Deniable,    \* the tools that rules may deny
    Key,         \* the agent, workspace and layer that all of them push for
    PushLoop,    \* the push loop's thread
    Immediate,   \* bound: immediate pushes at a time
    Nothing,
    MaxEvents    \* bound: refreshes, changes, failures, restarts, exits

ASSUME PushAssumption ==
    /\ Deniable \subseteq Tools /\ Deniable # Tools
    /\ PushLoop \notin Immediate
    /\ \A c \in SUBSET Tools : c # Nothing
    /\ MaxEvents \in Nat

VARIABLES
    leases,       \* the daemon's registrations
    rules,        \* the tools that the permission overlays deny
    revision,     \* the daemon's permissions revision
    snapshots,    \* revisions that snapshot threads have yet to write
    saved,        \* permissions_revisions.json
    missed,       \* history: the runtimes that may take newer rules for those they have
    proc,         \* each runtime: "new", "up", "leaving", "joining", "gone"
    cache,        \* its RuntimeToolCache
    deny,         \* its config_holder.mcp_deny
    refresh,      \* the deny list a refresh under way works with, or Nothing
    lastHash,     \* _last_success_hash
    lastRevision, \* _last_permissions_revision
    push,         \* its push threads
    events        \* events so far, for the bound

permissions == <<rules, revision, snapshots, saved>>
daemonVars == <<permissions, missed>>
runtimeVars == <<cache, deny, refresh, lastHash, lastRevision>>
pushVars == <<leases, daemonVars, proc, runtimeVars, push, events>>

ToolSets == (SUBSET Tools) \ {{}}
Pushers == {PushLoop} \cup Immediate

Daemon == INSTANCE RegistryContract
    WITH Keys <- {Key}, Contents <- ToolSets, Instances <- Runtimes,
         reg <- leases, None <- Nothing

Mishap == events < MaxEvents /\ events' = events + 1

\* at: where the thread is; body: the catalog it sent; seen: the revision answered.
Push == [at : {"off", "wait", "decide", "hash", "full", "hash sent", "full sent",
               "stored", "returned", "failed"},
         body : {Nothing} \cup ToolSets, seen : Nat]

Idle(at) == [at |-> at, body |-> Nothing, seen |-> 0]

\* Thread p of r goes from one place to another.
Moves(r, p, from, next) ==
    push[r][p].at = from /\ push' = [push EXCEPT ![r][p] = next]

Running(r) == proc[r] \in {"up", "leaving", "joining"}

\* The statements that run in a thread: deregistering does not stop them.
InThread(at) == at \in {"decide", "hash", "full", "hash sent", "full sent", "stored"}
Sent(at) == at \in {"hash sent", "full sent"}

-----------------------------------------------------------------------------
(* A push, _push_once.                                                     *)

\* Without tools there is nothing to push; with the hash of the last success a
\* heartbeat will do.
Decide(r, p) ==
    /\ Running(r)
    /\ Moves(r, p, "decide", Idle(CASE cache[r] = {} -> "failed"
                                    [] cache[r] = lastHash[r] -> "hash"
                                    [] OTHER -> "full"))
    /\ UNCHANGED <<leases, daemonVars, proc, runtimeVars, events>>

\* The body is built from the cache as it is now.
Post(r, p) ==
    /\ Running(r) /\ cache[r] # {}
    /\ \/ Moves(r, p, "hash", [Idle("hash sent") EXCEPT !.body = cache[r]])
       \/ Moves(r, p, "full", [Idle("full sent") EXCEPT !.body = cache[r]])
    /\ UNCHANGED <<leases, daemonVars, proc, runtimeVars, events>>

\* What the thread does with an answer: nothing when its process is gone.
Answered(r, next) == IF Running(r) THEN next ELSE Idle("off")

Known(c) == leases[Key] # Nothing /\ leases[Key].content = c

\* Mutant of HandleHash: whatever is registered is kept alive.
HandleHashOfAny(r, p) ==
    /\ \/ /\ leases[Key] # Nothing
          /\ Moves(r, p, "hash sent",
                   Answered(r, [push[r][p] EXCEPT !.at = "returned", !.seen = revision]))
          /\ Daemon!Grant(Key, leases[Key].content, r)
       \/ /\ leases[Key] = Nothing
          /\ Moves(r, p, "hash sent", Answered(r, Idle("full")))
          /\ UNCHANGED leases
    /\ UNCHANGED <<daemonVars, proc, runtimeVars, events>>

\* Mutant of HandleHash: the answer to a heartbeat is a 204, whose body is not sent.
HandleHashWithoutBody(r, p) ==
    LET c == push[r][p].body IN
    /\ \/ /\ Known(c)
          /\ Moves(r, p, "hash sent", Answered(r, [Idle("returned") EXCEPT !.body = c]))
          /\ Daemon!Grant(Key, c, r)
       \/ /\ ~Known(c)
          /\ Moves(r, p, "hash sent", Answered(r, Idle("full")))
          /\ UNCHANGED leases
    /\ UNCHANGED <<daemonVars, proc, runtimeVars, events>>

\* The daemon answers a heartbeat: a known hash, or 404 and the thread sends it all.
HandleHash(r, p) ==
    LET c == push[r][p].body IN
    /\ \/ /\ Known(c)
          /\ Moves(r, p, "hash sent",
                   Answered(r, [at |-> "returned", body |-> c, seen |-> revision]))
          /\ Daemon!Grant(Key, c, r)
       \/ /\ ~Known(c)
          /\ Moves(r, p, "hash sent", Answered(r, Idle("full")))
          /\ UNCHANGED leases
    /\ UNCHANGED <<daemonVars, proc, runtimeVars, events>>

HandleFull(r, p) ==
    LET c == push[r][p].body IN
    /\ Moves(r, p, "full sent",
             Answered(r, [at |-> "stored", body |-> c, seen |-> revision]))
    /\ Daemon!Grant(Key, c, r)
    /\ UNCHANGED <<daemonVars, proc, runtimeVars, events>>

\* A request that does not arrive, or whose answer does not: both are status 0.
Lose(r, p) ==
    /\ Mishap
    /\ Sent(push[r][p].at)
    /\ push' = [push EXCEPT ![r][p] = Answered(r, Idle("failed"))]
    /\ \/ UNCHANGED leases
       \/ /\ push[r][p].at = "full sent" \/ Known(push[r][p].body)
          /\ Daemon!Grant(Key, push[r][p].body, r)
    /\ UNCHANGED <<daemonVars, proc, runtimeVars>>

Stored(r, p) ==
    /\ Running(r)
    /\ Moves(r, p, "stored", [push[r][p] EXCEPT !.at = "returned"])
    /\ lastHash' = [lastHash EXCEPT ![r] = push[r][p].body]
    /\ UNCHANGED <<leases, daemonVars, proc, cache, deny, refresh, lastRevision, events>>

\* Where a thread goes when it is done: the loop waits, the others end.
Done(p) == Idle(IF p = PushLoop THEN "wait" ELSE "off")

-----------------------------------------------------------------------------
(* Back on the runtime's event loop.                                       *)

\* reapply_deny_overlays: never to nothing.
Filtered(c, denied) == IF c \ denied = {} THEN c ELSE c \ denied

\* _maybe_reload_permissions of a revision that is not newer than the last one.
SameRevision(r, p) ==
    /\ proc[r] = "up" /\ push[r][p].seen <= lastRevision[r]
    /\ Moves(r, p, "returned", Done(p))
    /\ UNCHANGED <<leases, daemonVars, proc, runtimeVars, events>>

\* Mutant of Reload: rules that leave the catalog alone are not taken over.
ReloadForCatalog(r, p) ==
    /\ proc[r] = "up" /\ push[r][p].seen > lastRevision[r]
    /\ Moves(r, p, "returned", Done(p))
    /\ lastRevision' = [lastRevision EXCEPT ![r] = push[r][p].seen]
    /\ deny' = [deny EXCEPT ![r] = IF Filtered(cache[r], rules) # cache[r] THEN rules ELSE @]
    /\ cache' = [cache EXCEPT ![r] = Filtered(@, rules)]
    /\ lastHash' = [lastHash EXCEPT ![r] = Nothing]
    /\ missed' = IF push[r][p].seen > revision THEN missed \cup {r} ELSE missed \ {r}
    /\ UNCHANGED <<leases, permissions, proc, refresh, events>>

\* _maybe_reload_permissions, _refresh_permissions_catalog: no await in it, as long
\* as the cache has tools.  A revision that a daemon answered before it lost it is
\* ahead of those to come.
Reload(r, p) ==
    /\ proc[r] = "up" /\ push[r][p].seen > lastRevision[r]
    /\ Moves(r, p, "returned", Done(p))
    /\ lastRevision' = [lastRevision EXCEPT ![r] = push[r][p].seen]
    /\ deny' = [deny EXCEPT ![r] = rules]
    /\ cache' = [cache EXCEPT ![r] = IF deny[r] # rules THEN Filtered(@, rules) ELSE @]
    /\ lastHash' = [lastHash EXCEPT ![r] = Nothing]
    /\ missed' = IF push[r][p].seen > revision THEN missed \cup {r} ELSE missed \ {r}
    /\ UNCHANGED <<leases, permissions, proc, refresh, events>>

\* The same, but reading the overlays raises: the revision counts all the same.
ReloadRaises(r, p) ==
    /\ Mishap
    /\ proc[r] = "up" /\ push[r][p].seen > lastRevision[r]
    /\ Moves(r, p, "returned", Done(p))
    /\ lastRevision' = [lastRevision EXCEPT ![r] = push[r][p].seen]
    /\ missed' = missed \cup {r}
    /\ UNCHANGED <<leases, permissions, proc, cache, deny, refresh, lastHash>>

\* The loop's sleep, after a success or a failure; an immediate push that failed ends.
Again(r, p) ==
    /\ proc[r] = "up"
    /\ IF p = PushLoop
       THEN Moves(r, p, "wait", Idle("decide")) \/ Moves(r, p, "failed", Idle("decide"))
       ELSE Moves(r, p, "failed", Idle("off"))
    /\ UNCHANGED <<leases, daemonVars, proc, runtimeVars, events>>

\* _maybe_sync_catalog: a refresh of the backends is forced, with the configuration
\* of now.
StartRefresh(r) ==
    /\ proc[r] = "up" /\ refresh[r] = Nothing /\ Mishap
    /\ refresh' = [refresh EXCEPT ![r] = deny[r]]
    /\ UNCHANGED <<leases, daemonVars, proc, cache, deny, lastHash, lastRevision, push>>

\* ... and the catalog that results is pushed beside the loop.
EndRefresh(r) ==
    /\ proc[r] = "up" /\ refresh[r] # Nothing
    /\ \E listed \in ToolSets :
         cache' = [cache EXCEPT ![r] = IF listed \ refresh[r] = {} THEN @ ELSE listed \ refresh[r]]
    /\ refresh' = [refresh EXCEPT ![r] = Nothing]
    /\ \/ cache'[r] = lastHash[r] /\ UNCHANGED push
       \/ /\ cache'[r] # lastHash[r]
          /\ \E p \in Immediate : Moves(r, p, "off", Idle("decide"))
    /\ UNCHANGED <<leases, daemonVars, proc, deny, lastHash, lastRevision, events>>

-----------------------------------------------------------------------------
(* Runtimes come and go.                                                   *)

\* A process starts, fills its cache and schedules the loop.
Start(r) ==
    /\ proc[r] = "new"
    /\ proc' = [proc EXCEPT ![r] = "up"]
    /\ deny' = [deny EXCEPT ![r] = rules]
    /\ \E listed \in ToolSets :
         /\ listed \ rules # {}
         /\ cache' = [cache EXCEPT ![r] = listed \ rules]
    /\ push' = [push EXCEPT ![r][PushLoop] = Idle("decide")]
    /\ UNCHANGED <<leases, daemonVars, refresh, lastHash, lastRevision, events>>

\* The server is told to stop; deregister_catalog_push posts from the event loop.
Leave(r) ==
    /\ proc[r] = "up" /\ Mishap
    /\ proc' = [proc EXCEPT ![r] = "leaving"]
    /\ refresh' = [refresh EXCEPT ![r] = Nothing]
    /\ UNCHANGED <<leases, daemonVars, cache, deny, lastHash, lastRevision, push>>

\* Only what is not in a thread can be cancelled.
Cancelled(r) ==
    [push EXCEPT ![r] = [p \in Pushers |-> IF InThread(@[p].at) THEN @[p] ELSE Idle("off")]]

Forget(r) ==
    /\ proc' = [proc EXCEPT ![r] = "joining"]
    /\ lastHash' = [lastHash EXCEPT ![r] = Nothing]
    /\ lastRevision' = [lastRevision EXCEPT ![r] = 0]
    /\ push' = Cancelled(r)

HandleDeregister(r) ==
    /\ proc[r] = "leaving"
    /\ IF leases[Key] # Nothing /\ leases[Key].by = r THEN Daemon!Release(Key, r)
                                                     ELSE UNCHANGED leases
    /\ Forget(r)
    /\ UNCHANGED <<daemonVars, cache, deny, refresh, events>>

LoseDeregister(r) ==
    /\ proc[r] = "leaving" /\ Mishap
    /\ Forget(r)
    /\ UNCHANGED <<leases, daemonVars, cache, deny, refresh>>

\* Threads that are left come to their end before the process does.
ThreadEnds(r, p) ==
    /\ proc[r] = "joining"
    /\ Moves(r, p, "returned", Idle("off")) \/ Moves(r, p, "failed", Idle("off"))
    /\ UNCHANGED <<leases, daemonVars, proc, runtimeVars, events>>

End(r) ==
    /\ proc[r] = "joining" /\ \A p \in Pushers : push[r][p].at = "off"
    /\ proc' = [proc EXCEPT ![r] = "gone"]
    /\ UNCHANGED <<leases, daemonVars, runtimeVars, push, events>>

\* A kill: what was sent is on its way still.
Kill(r) ==
    /\ Running(r) /\ Mishap
    /\ proc' = [proc EXCEPT ![r] = "gone"]
    /\ push' = [push EXCEPT ![r] =
                  [p \in Pushers |-> IF Sent(@[p].at) THEN @[p] ELSE Idle("off")]]
    /\ refresh' = [refresh EXCEPT ![r] = Nothing]
    /\ UNCHANGED <<leases, daemonVars, cache, deny, lastHash, lastRevision>>

-----------------------------------------------------------------------------
(* The daemon.                                                             *)

\* The rules change and the daemon acknowledges it: bump_permissions_revision.
ChangePermissions ==
    /\ Mishap
    /\ \E denied \in SUBSET Deniable : denied # rules /\ rules' = denied
    /\ revision' = revision + 1
    /\ snapshots' = snapshots \cup {revision'}
    /\ UNCHANGED <<leases, saved, missed, proc, runtimeVars, push>>

\* One of the snapshot threads writes the revision it read, in any order.
WriteSnapshot ==
    /\ \E n \in snapshots : saved' = n /\ snapshots' = snapshots \ {n}
    /\ UNCHANGED <<leases, rules, revision, missed, proc, runtimeVars, push, events>>

\* The daemon dies and another starts: its registrations are fallbacks, requests
\* under way fail, and the revision is the last that was written.
RestartDaemon ==
    /\ Mishap
    /\ \/ leases' = [leases EXCEPT ![Key] = Nothing]
       \/ \E c \in ToolSets, r \in Runtimes :
            leases' = [leases EXCEPT ![Key] = [Daemon!Live(c, r) EXCEPT !.stale = TRUE]]
    /\ revision' = saved /\ snapshots' = {}
    /\ missed' = missed \cup {r \in Runtimes : proc[r] = "up" /\ saved # revision
                                                /\ lastRevision[r] >= saved}
    /\ push' = [r \in Runtimes |-> [p \in Pushers |->
                 IF Sent(push[r][p].at) THEN Answered(r, Idle("failed")) ELSE push[r][p]]]
    /\ UNCHANGED <<rules, saved, proc, runtimeVars>>

AgeEntry ==
    /\ Daemon!Age(Key)
    /\ UNCHANGED <<daemonVars, proc, runtimeVars, push, events>>

\* prune_expired_registrations.
PruneEntries ==
    /\ Daemon!Lapsed(leases[Key]) /\ Daemon!Reclaim
    /\ UNCHANGED <<daemonVars, proc, runtimeVars, push, events>>

-----------------------------------------------------------------------------
PushInit ==
    /\ leases = [k \in {Key} |-> Nothing]
    /\ rules = {} /\ revision = 0 /\ snapshots = {} /\ saved = 0 /\ missed = {}
    /\ proc = [r \in Runtimes |-> "new"]
    /\ cache = [r \in Runtimes |-> {}] /\ deny = [r \in Runtimes |-> {}]
    /\ refresh = [r \in Runtimes |-> Nothing]
    /\ lastHash = [r \in Runtimes |-> Nothing] /\ lastRevision = [r \in Runtimes |-> 0]
    /\ push = [r \in Runtimes |-> [p \in Pushers |-> Idle("off")]]
    /\ events = 0

\* What a push thread and the event loop after it do when nothing goes wrong.
PushStep(r, p) ==
    \/ Decide(r, p) \/ Post(r, p) \/ HandleHash(r, p) \/ HandleFull(r, p) \/ Stored(r, p)
    \/ SameRevision(r, p) \/ Reload(r, p) \/ Again(r, p) \/ ThreadEnds(r, p)

RuntimeStep(r) == EndRefresh(r) \/ HandleDeregister(r) \/ End(r)

PushNext ==
    \/ \E r \in Runtimes, p \in Pushers :
         PushStep(r, p) \/ Lose(r, p) \/ ReloadRaises(r, p)
    \/ \E r \in Runtimes :
         \/ RuntimeStep(r)
         \/ Start(r) \/ StartRefresh(r) \/ Leave(r) \/ LoseDeregister(r) \/ Kill(r)
    \/ ChangePermissions \/ WriteSnapshot \/ RestartDaemon
    \/ AgeEntry \/ PruneEntries

PushSpec == PushInit /\ [][PushNext]_pushVars

\* Threads go on, the loop comes round every 10 s or sooner, requests are answered
\* in the end, and the daemon prunes.
PushLiveSpec ==
    /\ PushSpec
    /\ \A r \in Runtimes :
          WF_pushVars(RuntimeStep(r)) /\ \A p \in Pushers : WF_pushVars(PushStep(r, p))
    /\ WF_pushVars(AgeEntry) /\ WF_pushVars(PruneEntries)

-----------------------------------------------------------------------------
(* Properties.                                                             *)

PushTypeOK ==
    /\ leases \in [{Key} -> Daemon!Entry \cup {Nothing}]
    /\ rules \in SUBSET Deniable
    /\ revision \in Nat /\ saved \in Nat /\ snapshots \subseteq Nat /\ missed \subseteq Runtimes
    /\ proc \in [Runtimes -> {"new", "up", "leaving", "joining", "gone"}]
    /\ cache \in [Runtimes -> SUBSET Tools] /\ deny \in [Runtimes -> SUBSET Deniable]
    /\ refresh \in [Runtimes -> {Nothing} \cup SUBSET Deniable]
    /\ lastHash \in [Runtimes -> {Nothing} \cup ToolSets]
    /\ lastRevision \in [Runtimes -> Nat]
    /\ push \in [Runtimes -> [Pushers -> Push]]
    /\ events \in 0 .. MaxEvents

\* A runtime that has heard of the newest revision works with the newest rules, however
\* old the answer was and whichever push brought it, unless its last reload raised or a
\* daemon forgot a revision that was not on disk yet ("Notified hook daemon; cyt-mcp will
\* reload permissions on next push.").
HeardIsApplied ==
    \A r \in Runtimes \ missed :
        proc[r] = "up" /\ lastRevision[r] >= revision => deny[r] = rules

\* Body and hash are read at different times, immediate pushes overtake the loop's,
\* a runtime that leaves takes the registration along that another has renewed, and
\* the TTL of 10 s is no longer than the pause between two heartbeats.  All the same a
\* runtime that stays when the others are gone is registered again and again, and in
\* the end never with an old catalog.
LiveRuntimeIsRegistered ==
    \A r \in Runtimes :
        <>[](proc[r] = "up" /\ \A s \in Runtimes \ {r} : proc[s] \in {"new", "gone"}) =>
            /\ []<>(leases[Key] # Nothing /\ ~leases[Key].stale)
            /\ <>[](leases[Key] # Nothing => leases[Key].content = cache[r])

\* A push that was under way when its runtime deregistered, or a 404 that it got
\* because of that, registers the catalog again; it is gone after its TTL, whether the
\* runtime ended well or was killed.
GoneRuntimeIsForgotten ==
    <>[](\A r \in Runtimes : proc[r] # "up") => <>[](leases[Key] = Nothing \/ leases[Key].stale)

\* The revision reaches a runtime that stays, whichever kind of push asks and however
\* many answers are lost; heartbeats carry it too ("HTTP 204 No Content drops the
\* payload on the wire; cyt-mcp hash-only heartbeats then miss permissions_revision").
RevisionIsHeard ==
    \A r \in Runtimes : <>[](proc[r] = "up") => <>[](lastRevision[r] >= revision)

\* "Notified hook daemon; cyt-mcp will reload permissions on next push.": a runtime
\* that stays works with the rules in the end.
NotifiedIsReloaded ==
    \A r \in Runtimes : <>[](proc[r] = "up") => <>[](deny[r] = rules)
=============================================================================
