-------------------------- MODULE CatalogRegistry --------------------------
(***************************************************************************)
(* The hook daemon's registry of pushed tool catalogs and its snapshot on  *)
(* disk (cyt/hook/catalog_registry.py).                                    *)
(*                                                                         *)
(* Three kinds of threads meet here: the server's event loop, which runs   *)
(* the register and deregister handlers one after another; the catalog     *)
(* scheduler, which prunes expired entries and merges the snapshot; and    *)
(* the snapshot writers that a registration starts.                        *)
(*                                                                         *)
(* _snapshot_generation only serves to be compared with a value read       *)
(* before.  `current' has the threads whose value still is the generation. *)
(* Time is two-valued: an entry has been heard of within its TTL or not.   *)
(***************************************************************************)
EXTENDS Integers, FiniteSets

CONSTANTS
    Keys,          \* (agent, workspace, layer)
    Contents,      \* catalogs, one per content_hash
    Instances,     \* runtime processes
    Loop, Scheduler,
    Writers,       \* bound: snapshot writers alive at a time
    None,
    Prompt,        \* whether a write ends before the next heartbeat, 10 s later
    WaitsOut,      \* whether the 5 s wait for a writer may run out
    WriteOutcomes, \* TRUE a write of the file succeeds, FALSE an OSError
    MaxOps         \* bound: operations other than heartbeats

ASSUME RegistryAssumption ==
    /\ Loop # Scheduler /\ {Loop, Scheduler} \cap Writers = {}
    /\ None \notin {Loop, Scheduler} \cup Writers
    /\ Prompt \in BOOLEAN /\ WaitsOut \in BOOLEAN /\ WriteOutcomes \subseteq BOOLEAN
    /\ MaxOps \in Nat

Entry == [content : Contents, by : Instances, stale : BOOLEAN, expired : BOOLEAN]

Removers == {Loop, Scheduler}
Actors == Removers \cup Writers

Catalogs == [Keys -> Entry \cup {None}]

VARIABLES
    reg,       \* _registrations
    file,      \* registrations.json
    current,   \* the actors whose generation is _snapshot_generation
    pending,   \* _snapshot_pending
    idle,      \* _snapshot_idle
    fileLock,  \* the remover that holds _snapshot_file_lock over its two steps
    pc,        \* what each actor does next
    arg,       \* the loop's request: key, entry to store, instance
    payload,   \* what a writer or remover is about to write
    ops        \* operations so far, for the bound

vars == <<reg, file, current, pending, idle, fileLock, pc, arg, payload, ops>>

Empty == [k \in Keys |-> None]
NoRequest == [key |-> None, entry |-> None, by |-> None]

At(a, label) == pc[a] = label
GoTo(a, label) == pc' = [pc EXCEPT ![a] = label]

\* One more operation.
Counted == ops < MaxOps /\ ops' = ops + 1

-----------------------------------------------------------------------------
(* Registrations, on the event loop.                                       *)

Registered(c, i) == [content |-> c, by |-> i, stale |-> FALSE, expired |-> FALSE]

Accept(k, e) ==
    /\ arg' = [NoRequest EXCEPT !.key = k, !.entry = e]
    /\ GoTo(Loop, "upsert")
    /\ UNCHANGED <<reg, file, current, pending, idle, fileLock, payload>>

\* register_catalog with tools: a new entry, or the old one with its time and
\* instance renewed, which are the same to a reader.
RegisterFull(k, c, i) ==
    /\ At(Loop, "idle") /\ Counted
    /\ Accept(k, Registered(c, i))

\* A hash-only heartbeat whose hash is the entry's; any other is answered 404 and
\* changes nothing.
Heartbeat(k, i) ==
    /\ At(Loop, "idle") /\ reg[k] # None
    /\ Prompt => \A w \in Writers : pc[w] \notin {"read", "copy", "try"}
    /\ Accept(k, Registered(reg[k].content, i))
    /\ UNCHANGED ops

\* _upsert_entry: the entry first, the snapshot after the lock is released.
Upsert ==
    /\ At(Loop, "upsert")
    /\ reg' = [reg EXCEPT ![arg.key] = arg.entry]
    /\ GoTo(Loop, "schedule")
    /\ UNCHANGED <<file, current, pending, idle, fileLock, arg, payload, ops>>

\* Mutant of Schedule: a writer is started whether or not one is pending.
ScheduleAlways ==
    /\ At(Loop, "schedule")
    /\ current' = {}
    /\ \E w \in Writers : /\ At(w, "none")
                          /\ pc' = [pc EXCEPT ![Loop] = "idle", ![w] = "start"]
    /\ pending' = TRUE /\ arg' = NoRequest
    /\ UNCHANGED <<reg, file, idle, fileLock, payload, ops>>

\* _schedule_snapshot_write.
Schedule ==
    /\ At(Loop, "schedule")
    /\ current' = {}
    /\ \/ pending /\ GoTo(Loop, "idle")
       \/ /\ ~pending
          /\ \E w \in Writers : /\ At(w, "none")
                                /\ pc' = [pc EXCEPT ![Loop] = "idle", ![w] = "start"]
    /\ pending' = TRUE /\ arg' = NoRequest
    /\ UNCHANGED <<reg, file, idle, fileLock, payload, ops>>

-----------------------------------------------------------------------------
(* The snapshot writer, _write_snapshot_async.                             *)

\* A writer's step from one label to the next that leaves the registry alone.
Step(w, from, to) == At(w, from) /\ GoTo(w, to) /\ UNCHANGED <<reg, fileLock, arg, ops>>

WriterStarts(w) ==
    /\ Step(w, "start", "read")
    /\ idle' = FALSE
    /\ UNCHANGED <<file, current, pending, payload>>

WriterReadsGeneration(w) ==
    /\ Step(w, "read", "copy")
    /\ current' = current \cup {w}
    /\ UNCHANGED <<file, pending, idle, payload>>

WriterCopies(w) ==
    /\ Step(w, "copy", "try")
    /\ payload' = [payload EXCEPT ![w] = reg]
    /\ UNCHANGED <<file, current, pending, idle>>

\* _try_write_registry_snapshot: the check spans the write.
WriterWrites(w, ok) ==
    /\ fileLock = None
    /\ \/ w \in current /\ ok /\ Step(w, "try", "check") /\ file' = payload[w]
       \/ ~(w \in current /\ ok) /\ Step(w, "try", "read") /\ UNCHANGED file
    /\ payload' = [payload EXCEPT ![w] = Empty]
    /\ UNCHANGED <<current, pending, idle>>

WriterChecks(w) ==
    /\ IF w \in current THEN Step(w, "check", "finish") ELSE Step(w, "check", "read")
    /\ UNCHANGED <<file, current, pending, idle, payload>>

\* Mutant of WriterFinishes: the flag is not reset.
WriterFinishesPending(w) ==
    /\ Step(w, "finish", "leave")
    /\ UNCHANGED <<file, current, pending, idle, payload>>

WriterFinishes(w) ==
    /\ Step(w, "finish", "leave")
    /\ pending' = FALSE
    /\ UNCHANGED <<file, current, idle, payload>>

\* Mutant of WriterLeaves: nobody who waits for the writer is told.
WriterLeavesSilently(w) ==
    /\ Step(w, "leave", "none")
    /\ UNCHANGED <<file, current, pending, idle, payload>>

WriterLeaves(w) ==
    /\ Step(w, "leave", "none")
    /\ idle' = TRUE
    /\ UNCHANGED <<file, current, pending, payload>>

-----------------------------------------------------------------------------
(* Removals: _remove_entry on the event loop, prune_expired_registrations  *)
(* on the scheduler.                                                       *)

Deregister(k, i) ==
    /\ At(Loop, "idle") /\ Counted
    /\ arg' = [NoRequest EXCEPT !.key = k, !.by = i]
    /\ GoTo(Loop, "wait")
    /\ UNCHANGED <<reg, file, current, pending, idle, fileLock, payload>>

Prune ==
    /\ At(Scheduler, "idle") /\ Counted
    /\ GoTo(Scheduler, "wait")
    /\ UNCHANGED <<reg, file, current, pending, idle, fileLock, arg, payload>>

RemoverWaits(t) ==
    /\ At(t, "wait") /\ (idle \/ WaitsOut)
    /\ GoTo(t, "bump")
    /\ UNCHANGED <<reg, file, current, pending, idle, fileLock, arg, payload, ops>>

RemoverBumps(t) ==
    /\ At(t, "bump")
    /\ current' = {t}
    /\ GoTo(t, "delete")
    /\ UNCHANGED <<reg, file, pending, idle, fileLock, arg, payload, ops>>

\* Mutant of Doomed: the scheduler removes entries whose TTL has not passed.
DoomedEarly(t) ==
    {k \in Keys : /\ reg[k] # None
                  /\ IF t = Loop THEN k = arg.key /\ reg[k].by = arg.by
                                 ELSE ~reg[k].stale}

\* The entries that t removes.
Doomed(t) ==
    {k \in Keys : /\ reg[k] # None
                  /\ IF t = Loop THEN k = arg.key /\ reg[k].by = arg.by
                                 ELSE ~reg[k].stale /\ reg[k].expired}

RemoverDeletes(t) ==
    /\ At(t, "delete") /\ fileLock = None
    /\ \/ Doomed(t) = {} /\ GoTo(t, "idle") /\ UNCHANGED <<reg, fileLock, payload>>
       \/ /\ Doomed(t) # {}
          /\ reg' = [k \in Keys |-> IF k \in Doomed(t) THEN None ELSE reg[k]]
          /\ payload' = [payload EXCEPT ![t] = reg']
          /\ fileLock' = t
          /\ GoTo(t, "write")
    /\ arg' = IF t = Loop THEN NoRequest ELSE arg
    /\ UNCHANGED <<file, current, pending, idle, ops>>

\* The write is skipped when the generation moved on, and not repeated if it fails.
RemoverWrites(t, ok) ==
    /\ At(t, "write")
    /\ file' = IF t \in current /\ ok THEN payload[t] ELSE file
    /\ fileLock' = None
    /\ payload' = [payload EXCEPT ![t] = Empty]
    /\ GoTo(t, "idle")
    /\ UNCHANGED <<reg, current, pending, idle, arg, ops>>

-----------------------------------------------------------------------------
(* The snapshot read back, time and crashes.                               *)

FromDisk(e) == [e EXCEPT !.stale = TRUE, !.expired = FALSE]

\* Mutant of Merged: whatever is on disk replaces what is in memory.
MergedOver(inMemory, onDisk) ==
    IF onDisk = None THEN inMemory ELSE FromDisk(onDisk)

\* What load_catalog_registry_from_disk makes of an entry.
Merged(inMemory, onDisk) ==
    IF onDisk # None /\ (inMemory = None \/ inMemory.stale) THEN FromDisk(onDisk)
                                                            ELSE inMemory

\* load_catalog_registry_from_disk, also by a reader while the daemon runs.
Load ==
    /\ At(Scheduler, "idle") /\ fileLock = None /\ Counted
    /\ reg' = [k \in Keys |-> Merged(reg[k], file[k])]
    /\ UNCHANGED <<file, current, pending, idle, fileLock, pc, arg, payload>>

\* An entry's TTL passes without a heartbeat.
Expire(k) ==
    /\ Counted
    /\ reg[k] # None /\ ~reg[k].expired
    /\ reg' = [reg EXCEPT ![k] = [@ EXCEPT !.expired = TRUE]]
    /\ UNCHANGED <<file, current, pending, idle, fileLock, pc, arg, payload>>

AtRest == [a \in Actors |-> IF a \in Writers THEN "none" ELSE "idle"]

\* The daemon dies; the file is replaced as a whole, so it is never half written.
Crash ==
    /\ reg' = Empty
    /\ current' = {} /\ pending' = FALSE /\ idle' = TRUE /\ fileLock' = None
    /\ pc' = [AtRest EXCEPT ![Loop] = "boot", ![Scheduler] = "boot"]
    /\ arg' = NoRequest
    /\ payload' = [a \in Actors |-> Empty]
    /\ UNCHANGED <<file, ops>>

\* It starts again and loads the snapshot before it serves requests.
Boot ==
    /\ At(Loop, "boot")
    /\ reg' = [k \in Keys |-> Merged(reg[k], file[k])]
    /\ pc' = [pc EXCEPT ![Loop] = "idle", ![Scheduler] = "idle"]
    /\ UNCHANGED <<file, current, pending, idle, fileLock, arg, payload, ops>>

-----------------------------------------------------------------------------
Init ==
    /\ reg = Empty /\ file = Empty
    /\ current = {} /\ pending = FALSE /\ idle = TRUE /\ fileLock = None
    /\ pc = AtRest /\ arg = NoRequest
    /\ payload = [a \in Actors |-> Empty]
    /\ ops = 0

Write(w) ==
    \/ WriterStarts(w) \/ WriterReadsGeneration(w) \/ WriterCopies(w)
    \/ \E ok \in WriteOutcomes : WriterWrites(w, ok)
    \/ WriterChecks(w) \/ WriterFinishes(w) \/ WriterLeaves(w)

Remove(t) ==
    \/ RemoverWaits(t) \/ RemoverBumps(t) \/ RemoverDeletes(t)
    \/ \E ok \in WriteOutcomes : RemoverWrites(t, ok)

Beat == \E k \in Keys, i \in Instances : Heartbeat(k, i)

Next ==
    \/ \E k \in Keys, c \in Contents, i \in Instances : RegisterFull(k, c, i)
    \/ Beat
    \/ Upsert \/ Schedule
    \/ \E w \in Writers : Write(w)
    \/ \E k \in Keys, i \in Instances : Deregister(k, i)
    \/ Prune
    \/ \E t \in Removers : Remove(t)
    \/ Load
    \/ \E k \in Keys : Expire(k)
    \/ Crash
    \/ Boot

Spec == Init /\ [][Next]_vars

\* Every thread goes on, the runtimes keep sending heartbeats, and the disk does
\* not fail a writer for ever.
LiveSpec ==
    /\ Spec
    /\ WF_vars(Boot) /\ WF_vars(Upsert) /\ WF_vars(Schedule) /\ SF_vars(Beat)
    /\ \A w \in Writers : WF_vars(Write(w)) /\ SF_vars(WriterWrites(w, TRUE) /\ w \in current)
    /\ \A t \in Removers : WF_vars(Remove(t))

-----------------------------------------------------------------------------
(* Properties.                                                             *)

Labels == {"boot", "idle", "upsert", "schedule", "wait", "bump", "delete", "write",
           "none", "start", "read", "copy", "try", "check", "finish", "leave"}

TypeOK ==
    /\ reg \in Catalogs /\ file \in Catalogs
    /\ current \subseteq Actors
    /\ pending \in BOOLEAN /\ idle \in BOOLEAN
    /\ fileLock \in Removers \cup {None}
    /\ pc \in [Actors -> Labels]
    /\ payload \in [Actors -> Catalogs]
    /\ ops \in 0 .. MaxOps

\* A writer from its start to the reset of the pending flag.
Busy(w) == pc[w] \notin {"none", "leave"}

\* However registrations and the writers' last steps interleave, at most one
\* writer is at work and the pending flag tells whether one is: the flag is
\* tested and set in one critical section and reset in another.
OneWriter ==
    /\ \A v, w \in Writers : Busy(v) /\ Busy(w) => v = w
    /\ pending <=> \E w \in Writers : Busy(w)

Contract == INSTANCE RegistryService
              WITH request <- arg, done <- At(Loop, "schedule"), up <- ~At(Loop, "boot")

\* Whatever the threads and the file do, the registry does what RegistryService
\* promises: every request is stored before it is answered, an entry leaves only by
\* its holder's request, after its TTL or with the daemon, and what the snapshot
\* gives back is a fallback where nothing live is ("Disk snapshots are stale
\* fallbacks; never clobber a live in-process push.").
KeepsContract == Contract!Spec

\* The file holds the catalogs that the registry holds.
SameCatalogs ==
    \A k \in Keys : IF reg[k] = None THEN file[k] = None
                     ELSE file[k] # None /\ file[k].content = reg[k].content

\* A write that was skipped, superseded or lost in the gap between a writer's last
\* check and the reset of its flag is made up for by later heartbeats, as long as
\* anything is registered.
SnapshotRepaired == []<>(reg = Empty \/ SameCatalogs)

\* The event loop that runs a deregistration waits for the writer, and the writer
\* for a remover's file lock: the loop is always free again.
LoopComesBack == []<>At(Loop, "idle")

\* test_deregister_flushes_snapshot_before_hydrate_reload asserts that after a
\* deregistration the file has no entry: when every thread is at rest, what is not
\* registered is not on disk either.
DeregisteredIsOff ==
    pc = AtRest => \A k \in Keys : reg[k] = None => file[k] = None
=============================================================================
