----------------------------- MODULE HookDaemon -----------------------------
(***************************************************************************)
(* The life of the hook daemon: what `cyt hook daemon start | stop |       *)
(* restart' and the agents' session starts do to the server processes, the *)
(* TCP ports and the registry pid.json (cyt/hook/daemon.py, port.py and    *)
(* cyt/runtime_registry.py).                                               *)
(*                                                                         *)
(* Commands are processes that take turns under daemon.lock, a file lock   *)
(* that the system takes back when its holder dies.  `cyt launch' writes   *)
(* pid.json without it.  Servers die, other programs take ports, probes    *)
(* time out and commands are killed at any time; killing a process works.  *)
(*                                                                         *)
(* Credentials are left out but for what they decide: an interactive start *)
(* may replace the server it finds.                                        *)
(***************************************************************************)
EXTENDS Integers, FiniteSetsExt

CONSTANTS
    Commands,     \* processes of the command line
    Servers,      \* server processes
    Ports,        \* candidate ports, the configured one first
    None,
    MaxEvents,    \* bound: what users and other programs do
    MaxMishaps    \* bound: late answers, kills, and launches

BasePort == Min(Ports)

ASSUME DaemonAssumption ==
    /\ IsFiniteSet(Ports) /\ Ports # {} /\ Ports \subseteq Nat
    /\ None \notin Servers \cup Commands \cup Ports
    /\ MaxEvents \in Nat /\ MaxMishaps \in Nat
    \* A port is left when other programs and spare daemons have had theirs.
    /\ Cardinality(Ports) > MaxEvents + MaxMishaps

VARIABLES
    lock,      \* the command that holds daemon.lock
    reg,       \* the hook daemons' entries of pid.json, and the last one's port: all
               \* that their order is for
    srv,       \* server processes and the port each is for
    other,     \* ports bound by other programs
    cmd,       \* what each command is at
    launch,    \* the entries that a `cyt launch' read and will write back, or None
    events, mishaps

vars == <<lock, reg, srv, other, cmd, launch, events, mishaps>>

Entry == [port : Ports, pid : Servers \cup {None}]
Registry == [entries : SUBSET Entry, last : Ports \cup {None}]
NoEntries == [entries |-> {}, last |-> None]

Server == [at : {"none", "starting", "serving", "dying"}, port : Ports \cup {None}]
Gone == [at |-> "none", port |-> None]

Kinds == {"session", "start", "foreground", "stop", "restart"}

Command == [kind : Kinds \cup {None},
            at : {"idle", "wait", "probe", "found", "choose", "spawn", "await",
                  "write", "fallback", "serving", "stop", "force"},
            port : Ports \cup {None}, child : Servers \cup {None},
            attempt : {0, 1}, targets : SUBSET Ports]
Idle == [kind |-> None, at |-> "idle", port |-> None, child |-> None,
         attempt |-> 0, targets |-> {}]

Event == events < MaxEvents /\ events' = events + 1 /\ UNCHANGED mishaps
Mishap == mishaps < MaxMishaps /\ mishaps' = mishaps + 1 /\ UNCHANGED events
Fine == UNCHANGED <<events, mishaps>>

-----------------------------------------------------------------------------
(* Ports, probes and the registry.                                         *)

Serving == {s \in Servers : srv[s].at = "serving"}
On(p) == {s \in Servers : srv[s].port = p /\ srv[s].at \in {"serving", "dying"}}
InUse(p) == p \in other \/ On(p) # {}
Live == {srv[s].port : s \in Serving}

Recorded == {e.port : e \in reg.entries}

\* collect_known_hook_ports
Known == Recorded \cup {BasePort}

\* reg with one entry for p.
OneFor(p, s) == {e \in reg.entries : e.port # p} \cup {[port |-> p, pid |-> s]}

\* Mutant of Upserted: the entry keeps its old place.
UpsertedInPlace(p, s) ==
    [entries |-> OneFor(p, s), last |-> IF p \in Recorded THEN reg.last ELSE p]

\* Mutant of Upserted: an entry is updated but never added.
UpdatedOnly(p, s) ==
    IF p \in Recorded THEN [entries |-> OneFor(p, s), last |-> p] ELSE reg

\* _upsert_by_port
Upserted(p, s) == [entries |-> OneFor(p, s), last |-> p]

\* srv without the processes K.
Killed(K) == [s \in Servers |-> IF s \in K THEN Gone ELSE srv[s]]

\* The command goes on, at the same time with the lock or with it given back.
Goes(c, next) == cmd' = [cmd EXCEPT ![c] = next] /\ UNCHANGED lock
Ends(c) == cmd' = [cmd EXCEPT ![c] = Idle] /\ lock' = None

At(c, place) == cmd[c].at = place

-----------------------------------------------------------------------------
(* The lock.                                                               *)

\* A command line is typed, or an agent opens a session.
Begin(c, kind) ==
    /\ At(c, "idle")
    /\ IF kind = "session" THEN Fine ELSE Event
    /\ Goes(c, [Idle EXCEPT !.kind = kind, !.at = "wait"])
    /\ UNCHANGED <<reg, srv, other, launch>>

\* Mutant of Acquire: nobody looks at the lock.
AcquireAnyway(c) ==
    /\ At(c, "wait")
    /\ lock' = c
    /\ cmd' = [cmd EXCEPT ![c] =
                 IF @.kind \in {"stop", "restart"}
                 THEN [@ EXCEPT !.at = "stop", !.targets = Known]
                 ELSE [@ EXCEPT !.at = "probe"]]
    /\ Fine /\ UNCHANGED <<reg, srv, other, launch>>

\* _daemon_lifecycle_lock; a stop reads pid.json as the first thing.
Acquire(c) ==
    /\ At(c, "wait") /\ lock = None
    /\ lock' = c
    /\ cmd' = [cmd EXCEPT ![c] =
                 IF @.kind \in {"stop", "restart"}
                 THEN [@ EXCEPT !.at = "stop", !.targets = Known]
                 ELSE [@ EXCEPT !.at = "probe"]]
    /\ Fine /\ UNCHANGED <<reg, srv, other, launch>>

\* After 120 s.
GiveUp(c) ==
    /\ At(c, "wait") /\ lock # None
    /\ Goes(c, Idle)
    /\ Fine /\ UNCHANGED <<reg, srv, other, launch>>

-----------------------------------------------------------------------------
(* Start, _daemon_start_locked.                                            *)

\* find_reusable_hook_port: the lowest known port that answers in 0.3 s.  Some
\* may answer too late.
Reusable(found) == IF found = Known \cap Live THEN Fine ELSE Mishap

Probe(c) ==
    /\ At(c, "probe")
    /\ \E found \in SUBSET (Known \cap Live) :
         /\ Reusable(found)
         /\ Goes(c, IF found = {} THEN [cmd[c] EXCEPT !.at = "choose"]
                    ELSE [cmd[c] EXCEPT !.at = "found", !.port = Min(found)])
    /\ UNCHANGED <<reg, srv, other, launch>>

\* _return_reused_daemon
Reuse(c) ==
    /\ At(c, "found")
    /\ reg' = Upserted(cmd[c].port, None)
    /\ Ends(c)
    /\ Fine /\ UNCHANGED <<srv, other, launch>>

\* The server found has no credentials and the user is there to give them.
Replace(c) ==
    /\ At(c, "found") /\ cmd[c].kind # "session"
    /\ srv' = Killed(On(cmd[c].port)) /\ other' = other \ {cmd[c].port}
    /\ Goes(c, [cmd[c] EXCEPT !.at = "choose", !.port = None])
    /\ Fine /\ UNCHANGED <<reg, launch>>

\* find_spawn_port: the lowest that is free, the configured one if it is.
Choose(c) ==
    LET free == {p \in Ports : ~InUse(p)} IN
    /\ At(c, "choose")
    /\ IF free = {} THEN Ends(c)
       ELSE Goes(c, [cmd[c] EXCEPT !.at = "spawn", !.port = Min(free)])
    /\ Fine /\ UNCHANGED <<reg, srv, other, launch>>

Forced(c) == cmd[c].kind = "restart"

\* _spawn_hook_server; a restart first clears the port once more.  In the foreground the
\* command is recorded and then serves itself.
Spawn(c) ==
    LET p == cmd[c].port
        cleared == IF Forced(c) THEN Killed(On(p)) ELSE srv
        fresh == {s \in Servers : /\ cleared[s] = Gone
                                  /\ \A e \in reg.entries : e.pid # s
                                  /\ \A d \in Commands : cmd[d].child # s}
        child == CHOOSE s \in fresh : TRUE IN
    /\ At(c, "spawn") /\ fresh # {}
    /\ other' = IF Forced(c) THEN other \ {p} ELSE other
    /\ srv' = [cleared EXCEPT ![child] = [at |-> "starting", port |-> p]]
    /\ IF cmd[c].kind = "foreground"
       THEN /\ Goes(c, [cmd[c] EXCEPT !.at = "serving", !.child = child])
            /\ reg' = Upserted(p, child)
       ELSE /\ Goes(c, [cmd[c] EXCEPT !.at = "await", !.child = child])
            /\ UNCHANGED reg
    /\ Fine /\ UNCHANGED launch

\* _wait_for_hook_server: a hook server answers on the port and the child is alive.
Answers(c) ==
    /\ At(c, "await")
    /\ cmd[c].port \in Live /\ srv[cmd[c].child].at \in {"starting", "serving"}
    /\ Goes(c, [cmd[c] EXCEPT !.at = "write"])
    /\ Fine /\ UNCHANGED <<reg, srv, other, launch>>

\* The child has exited, or is too slow: it is told to end, and a restart tries once
\* more.
NoAnswer(c) ==
    LET s == cmd[c].child IN
    /\ At(c, "await")
    /\ IF srv[s] = Gone THEN Fine /\ UNCHANGED srv
       ELSE Mishap /\ srv' = [srv EXCEPT ![s].at = "dying"]
    /\ CASE Forced(c) /\ cmd[c].attempt = 0 ->
              Goes(c, [cmd[c] EXCEPT !.at = "spawn", !.child = None, !.attempt = 1])
         [] cmd[c].kind = "session" ->
              Goes(c, [cmd[c] EXCEPT !.at = "fallback", !.child = None])
         [] OTHER -> Ends(c)
    /\ UNCHANGED <<reg, other, launch>>

\* _write_pidfile of the new server.
Write(c) ==
    /\ At(c, "write")
    /\ reg' = Upserted(cmd[c].port, cmd[c].child)
    /\ Ends(c)
    /\ Fine /\ UNCHANGED <<srv, other, launch>>

\* _unattended_fallback_result: whatever can be reused now.
Fallback(c) ==
    /\ At(c, "fallback")
    /\ \E found \in SUBSET (Known \cap Live) :
         /\ Reusable(found)
         /\ reg' = IF found = {} THEN reg ELSE Upserted(Min(found), None)
    /\ Ends(c)
    /\ UNCHANGED <<srv, other, launch>>

\* run_reverse_server returns: only now is the lock given back.
ForegroundEnds(c) ==
    /\ At(c, "serving") /\ srv[cmd[c].child] = Gone
    /\ Ends(c)
    /\ Fine /\ UNCHANGED <<reg, srv, other, launch>>

-----------------------------------------------------------------------------
(* Stop, _daemon_stop_locked.                                              *)

\* Mutant of Victims: only the processes that pid.json names.
VictimsByPid(p) == {e.pid : e \in {x \in reg.entries : x.port = p}} \ {None}

\* _stop_registry_entry, _stop_hook_port: the recorded process and every listener.
Victims(p) ==
    On(p) \cup ({e.pid : e \in {x \in reg.entries : x.port = p}} \ {None})

StopPort(c) ==
    /\ At(c, "stop")
    /\ \E p \in cmd[c].targets :
         /\ srv' = Killed(Victims(p)) /\ other' = other \ {p}
         /\ Goes(c, [cmd[c] EXCEPT !.targets = @ \ {p}])
    /\ Fine /\ UNCHANGED <<reg, launch>>

\* _remove_pidfile; a restart goes on to start a server.
Clear(c) ==
    /\ At(c, "stop") /\ cmd[c].targets = {}
    /\ reg' = NoEntries
    /\ IF Forced(c) THEN Goes(c, [cmd[c] EXCEPT !.at = "force"]) ELSE Ends(c)
    /\ Fine /\ UNCHANGED <<srv, other, launch>>

\* _resolve_start_reused_port: who has taken the configured port since then loses it.
ClearBase(c) ==
    /\ At(c, "force")
    /\ srv' = Killed(On(BasePort)) /\ other' = other \ {BasePort}
    /\ Goes(c, [cmd[c] EXCEPT !.at = "choose"])
    /\ Fine /\ UNCHANGED <<reg, launch>>

-----------------------------------------------------------------------------
(* Servers, launches and the rest of the machine.                          *)

\* The server binds its port, or exits because it is taken.
Bind(s) ==
    /\ srv[s].at = "starting"
    /\ srv' = IF InUse(srv[s].port) THEN Killed({s}) ELSE [srv EXCEPT ![s].at = "serving"]
    /\ Fine /\ UNCHANGED <<lock, reg, other, cmd, launch>>

\* A server that was told to end does.
Dies(s) ==
    /\ srv[s].at = "dying"
    /\ srv' = Killed({s})
    /\ Fine /\ UNCHANGED <<lock, reg, other, cmd, launch>>

Crash(s) ==
    /\ Event
    /\ srv[s].at = "serving"
    /\ srv' = Killed({s})
    /\ UNCHANGED <<lock, reg, other, cmd, launch>>

\* A command is interrupted; the system gives its lock back.
KillCommand(c) ==
    /\ Mishap
    /\ ~At(c, "idle")
    /\ cmd' = [cmd EXCEPT ![c] = Idle]
    /\ lock' = IF lock = c THEN None ELSE lock
    /\ srv' = IF At(c, "serving") THEN Killed({cmd[c].child}) ELSE srv
    /\ UNCHANGED <<reg, other, launch>>

\* upsert_proxy_entry: pid.json is read, changed and written without the lock.
LaunchReads ==
    /\ Mishap
    /\ launch = None
    /\ launch' = reg
    /\ UNCHANGED <<lock, reg, srv, other, cmd>>

LaunchWrites ==
    /\ launch # None
    /\ reg' = launch /\ launch' = None
    /\ Fine /\ UNCHANGED <<lock, srv, other, cmd>>

OtherBinds ==
    /\ Event
    /\ \E p \in Ports : ~InUse(p) /\ other' = other \cup {p}
    /\ UNCHANGED <<lock, reg, srv, cmd, launch>>

OtherLeaves ==
    /\ \E p \in other : other' = other \ {p}
    /\ Fine /\ UNCHANGED <<lock, reg, srv, cmd, launch>>

-----------------------------------------------------------------------------
Init ==
    /\ lock = None /\ reg = NoEntries /\ launch = None
    /\ srv = [s \in Servers |-> Gone] /\ other = {}
    /\ cmd = [c \in Commands |-> Idle]
    /\ events = 0 /\ mishaps = 0

\* What a command that holds the lock does.
Step(c) ==
    \/ Probe(c) \/ Reuse(c) \/ Replace(c) \/ Choose(c) \/ Spawn(c) \/ Answers(c)
    \/ NoAnswer(c) \/ Write(c) \/ Fallback(c) \/ ForegroundEnds(c) \/ StopPort(c)
    \/ Clear(c) \/ ClearBase(c)

Next ==
    \/ \E c \in Commands :
         \/ \E kind \in Kinds : Begin(c, kind)
         \/ Acquire(c) \/ GiveUp(c) \/ Step(c) \/ KillCommand(c)
    \/ \E s \in Servers : Bind(s) \/ Dies(s) \/ Crash(s)
    \/ LaunchReads \/ LaunchWrites \/ OtherBinds \/ OtherLeaves

Spec == Init /\ [][Next]_vars

\* Agents keep opening sessions; processes that can go on do.
LiveSpec ==
    /\ Spec
    /\ \A c \in Commands : WF_vars(Begin(c, "session")) /\ WF_vars(Acquire(c)) /\ WF_vars(Step(c))
    /\ \A s \in Servers : WF_vars(Bind(s)) /\ WF_vars(Dies(s))
    /\ WF_vars(LaunchWrites)

-----------------------------------------------------------------------------
(* Properties.                                                             *)

TypeOK ==
    /\ lock \in Commands \cup {None}
    /\ reg \in Registry /\ launch \in Registry \cup {None}
    /\ srv \in [Servers -> Server] /\ other \subseteq Ports
    /\ cmd \in [Commands -> Command]
    /\ events \in 0 .. MaxEvents /\ mishaps \in 0 .. MaxMishaps

\* Sessions of several agents start at the same time, servers die and ports are taken
\* between a probe and the spawn it leads to.  All the same there is one daemon; each
\* late answer, killed command or unlocked write may cost one more.
OneDaemon == Cardinality(Serving) <= 1 + mishaps

Unrecorded == {s \in Serving : srv[s].port \notin Known}

\* Between two commands pid.json and the configured port tell of every daemon, which is
\* what the next start looks for and the next stop ends: whoever
\* starts a server records it, or ends it, before the lock is given back, and a stop
\* forgets no entry whose port it has not cleared.  Again each mishap may hide one.
DaemonsAreKnown ==
    lock = None =>
        Cardinality({s \in Servers : srv[s].at = "starting"} \cup Unrecorded) <= mishaps

\* After a stop no daemon runs, whoever started it, on whichever port, and whether its
\* entry names its process or (reused) does not; again each mishap may cost one.
StopMeansStopped ==
    [][\A c \in Commands :
          cmd[c].kind = "stop" /\ cmd[c].at = "stop" /\ cmd'[c].at = "idle"
              /\ mishaps' = mishaps =>
            Cardinality(Serving) <= mishaps]_vars

\* resolve_hook_url: the last entry, or a scan of all ports when there is none.
ClientFollows(p) == IF reg.entries = {} THEN Live # {} /\ p = Min(Live)
                                   ELSE p = reg.last

\* Whatever happened, sessions that start bring a daemon up, and the last entry of
\* pid.json, which clients follow, is in the end one that serves.  A daemon in the
\* foreground keeps the lock, and with it every repair away.
ClientsFindADaemon ==
    <>[](\A c \in Commands : ~At(c, "serving")) =>
        <>[](\E p \in Live : ClientFollows(p))
=============================================================================
