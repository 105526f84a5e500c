-------------------------- MODULE TierPersistence --------------------------
(***************************************************************************)
(* How the tier manager's memory reaches its SQLite database               *)
(* (cyt/tiers/manager.py, store.py, flush_scheduler.py): deferred flushes  *)
(* by the scheduler's thread, immediate ones after a promotion, the epoch's*)
(* own write-out, the purge of tools that left the catalog, and restarts   *)
(* after a crash at any point, or after a write that SQLite refused.       *)
(*                                                                         *)
(* Memory changes under _state_lock; rows are written after it is released,*)
(* one commit per row, so every write is a step of its own.  Only the epoch*)
(* writes its rows while it holds the lock.                                *)
(*                                                                         *)
(* Of an entity's state the model keeps how many changes were recorded and *)
(* the last of the epochs that judged it: enough to tell an old row from a *)
(* new one.                                                                *)
(***************************************************************************)
EXTENDS Integers, FiniteSets

CONSTANTS
    Entities,
    Workers,       \* the threads that record uses, purge, end epochs
    Scheduler,     \* the thread of the periodic flush
    Leaving,       \* the tools the catalog may lose while the program runs
    NoThread, Absent,
    MaxChanges,    \* bound: recorded changes per entity
    MaxEpochs,     \* bound: epochs that end
    MaxFailures    \* bound: writes that fail

Threads == Workers \cup {Scheduler}

ASSUME PersistenceAssumption ==
    /\ Leaving \subseteq Entities
    /\ NoThread \notin Threads
    /\ MaxChanges \in Nat /\ MaxEpochs \in Nat /\ MaxFailures \in Nat

Object == [changes : 0 .. MaxChanges, judged : 0 .. MaxEpochs]

ASSUME AbsentAssumption == Absent \notin Object \cup Entities

VARIABLES
    mem,       \* _states: [Entities -> Object \cup {Absent}]
    epoch,     \* _epoch.epoch_id
    pending,   \* _pending_flush
    lockedBy,  \* the thread that holds _state_lock over several steps
    row,       \* the entity rows of the project
    rowEpoch,  \* its epoch row
    thread,    \* what each thread is doing
    failures,  \* writes that failed
    owed       \* history: a write failed and no flush or epoch began since

vars == <<mem, epoch, pending, lockedBy, row, rowEpoch, thread, failures, owed>>
faults == <<failures, owed>>

(* A thread: `pc', the entity and change count of the record it makes, and *)
(* the rows it still has to write or delete.  A flush lists objects, not   *)
(* keys: `held' has the object where it is no longer the one in memory.    *)
Idle == [pc |-> "idle", entity |-> Absent, changes |-> 0, lifts |-> FALSE,
         rows |-> {}, held |-> [e \in Entities |-> Absent]]

Known == {e \in Entities : mem[e] # Absent}

Unlocked == lockedBy = NoThread

\* Thread th goes on as t.
GoOn(th, t) == thread' = [thread EXCEPT ![th] = t]

Doing == [pc : {"idle", "finish", "flush", "write", "done", "judge", "delete"},
          entity : Entities \cup {Absent}, changes : 0 .. MaxChanges,
          lifts : BOOLEAN, rows : SUBSET Entities,
          held : [Entities -> Object \cup {Absent}]]

-----------------------------------------------------------------------------
(* Records.                                                                *)

Changed(e) == IF mem[e] = Absent THEN [changes |-> 1, judged |-> epoch]
              ELSE [mem[e] EXCEPT !.changes = @ + 1]

CanChange(e) == Changed(e).changes <= MaxChanges

\* The critical section of record_tool_attempt and its like when no epoch ends:
\* the change, before _finish_record.  `lifts' is its sync_flush.
Record(th, e, lifts) ==
    /\ thread[th].pc = "idle" /\ Unlocked
    /\ CanChange(e)
    /\ mem' = [mem EXCEPT ![e] = Changed(e)]
    /\ GoOn(th, [Idle EXCEPT !.pc = "finish", !.entity = e,
                             !.changes = Changed(e).changes, !.lifts = lifts])
    /\ UNCHANGED <<epoch, pending, lockedBy, row, rowEpoch, faults>>

\* Mutant of FinishRecord: the flush is left to the scheduler.
FinishRecordLater(th) ==
    /\ thread[th].pc = "finish" /\ Unlocked
    /\ pending' = TRUE
    /\ GoOn(th, IF thread[th].lifts THEN [thread[th] EXCEPT !.pc = "done"] ELSE Idle)
    /\ UNCHANGED <<mem, epoch, lockedBy, row, rowEpoch, faults>>

\* _finish_record: mark dirty, then flush at once if asked to.
FinishRecord(th) ==
    /\ thread[th].pc = "finish" /\ Unlocked
    /\ pending' = TRUE
    /\ GoOn(th, IF thread[th].lifts THEN [thread[th] EXCEPT !.pc = "flush"] ELSE Idle)
    /\ UNCHANGED <<mem, epoch, lockedBy, row, rowEpoch, faults>>

-----------------------------------------------------------------------------
(* Flushes.                                                                *)

\* Mutant of FlushCopy: copies are flushed instead of the live objects.
FlushCopyOfValues(th) ==
    /\ thread[th].pc \in {"idle", "flush"} /\ Unlocked
    /\ thread[th].pc = "idle" => pending
    /\ pending' = FALSE
    /\ GoOn(th, [thread[th] EXCEPT !.pc = "write", !.rows = Known, !.held = mem])
    /\ owed' = FALSE
    /\ UNCHANGED <<mem, epoch, lockedBy, row, rowEpoch, failures>>

\* flush_pending up to the end of its critical section; forced after a record,
\* only when something is pending for the scheduler.
FlushCopy(th) ==
    /\ thread[th].pc \in {"idle", "flush"} /\ Unlocked
    /\ thread[th].pc = "idle" => pending
    /\ pending' = FALSE
    /\ GoOn(th, [thread[th] EXCEPT !.pc = "write", !.rows = Known])
    /\ owed' = FALSE
    /\ UNCHANGED <<mem, epoch, lockedBy, row, rowEpoch, failures>>

\* upsert_entity_state reads the object when it writes.
FlushRow(th, e) ==
    /\ thread[th].pc = "write" /\ e \in thread[th].rows
    /\ row' = [row EXCEPT ![e] = IF thread[th].held[e] = Absent THEN mem[e]
                                                              ELSE thread[th].held[e]]
    /\ GoOn(th, [thread[th] EXCEPT !.rows = @ \ {e}, !.held[e] = Absent])
    /\ UNCHANGED <<mem, epoch, pending, lockedBy, rowEpoch, faults>>

\* Mutant of FlushEpoch: the dirty flag is cleared when the flush is over.
FlushEpochClears(th) ==
    /\ thread[th].pc = "write" /\ thread[th].rows = {}
    /\ rowEpoch' = epoch /\ pending' = FALSE
    /\ GoOn(th, IF thread[th].lifts THEN [thread[th] EXCEPT !.pc = "done"] ELSE Idle)
    /\ UNCHANGED <<mem, epoch, lockedBy, row, faults>>

\* save_epoch_state, last; it writes the live epoch.
FlushEpoch(th) ==
    /\ thread[th].pc = "write" /\ thread[th].rows = {}
    /\ rowEpoch' = epoch
    /\ GoOn(th, IF thread[th].lifts THEN [thread[th] EXCEPT !.pc = "done"] ELSE Idle)
    /\ UNCHANGED <<mem, epoch, pending, lockedBy, row, faults>>

\* The handler of the record returns.
Return(th) ==
    /\ thread[th].pc = "done"
    /\ GoOn(th, Idle)
    /\ UNCHANGED <<mem, epoch, pending, lockedBy, row, rowEpoch, faults>>

-----------------------------------------------------------------------------
(* The end of an epoch.                                                    *)

\* An epoch may judge again what it, or a later one, judged before a crash or a
\* failed write.
Judged(object) == [object EXCEPT !.judged = IF @ <= epoch THEN epoch + 1 ELSE @]

\* _run_epoch up to its first row, from a record of e or from the status command
\* (e = Absent): every entity is judged in memory.
EpochJudge(th, e) ==
    /\ thread[th].pc = "idle" /\ Unlocked
    /\ epoch < MaxEpochs
    /\ LET recorded == IF e = Absent THEN mem ELSE [mem EXCEPT ![e] = Changed(e)]
       IN  /\ e # Absent => CanChange(e)
           /\ mem' = [x \in Entities |->
                        IF recorded[x] = Absent THEN Absent
                        ELSE Judged(recorded[x])]
           /\ GoOn(th, [Idle EXCEPT !.pc = "judge",
                                    !.rows = {x \in Entities : recorded[x] # Absent}])
    /\ lockedBy' = th /\ owed' = FALSE
    /\ UNCHANGED <<epoch, pending, row, rowEpoch, failures>>

EpochRow(th, e) ==
    /\ thread[th].pc = "judge" /\ e \in thread[th].rows
    /\ row' = [row EXCEPT ![e] = mem[e]]
    /\ GoOn(th, [thread[th] EXCEPT !.rows = @ \ {e}])
    /\ UNCHANGED <<mem, epoch, pending, lockedBy, rowEpoch, faults>>

\* Mutant of EpochSave: the epoch row is written before the entity rows.
EpochSaveFirst(th) ==
    /\ thread[th].pc = "judge"
    /\ epoch' = IF thread[th].rows = {} THEN epoch + 1 ELSE epoch
    /\ rowEpoch' = epoch + 1
    /\ pending' = IF thread[th].rows = {} THEN FALSE ELSE pending
    /\ lockedBy' = IF thread[th].rows = {} THEN NoThread ELSE lockedBy
    /\ IF thread[th].rows = {} THEN GoOn(th, Idle) ELSE UNCHANGED thread
    /\ UNCHANGED <<mem, row, faults>>

\* The epoch row and the end of the critical section.
EpochSave(th) ==
    /\ thread[th].pc = "judge" /\ thread[th].rows = {}
    /\ epoch' = epoch + 1 /\ rowEpoch' = epoch + 1
    /\ pending' = FALSE
    /\ lockedBy' = NoThread
    /\ GoOn(th, Idle)
    /\ UNCHANGED <<mem, row, faults>>

-----------------------------------------------------------------------------
(* The purge of what left the catalog.                                     *)

\* purge_inactive_tool_sources, under the lock.  A flush that already listed the
\* objects keeps them.
Purge(th, gone) ==
    /\ thread[th].pc = "idle" /\ Unlocked
    /\ gone # {} /\ gone \subseteq Leaving \cap Known
    /\ mem' = [e \in Entities |-> IF e \in gone THEN Absent ELSE mem[e]]
    /\ thread' = [x \in Threads |->
         IF x = th THEN [Idle EXCEPT !.pc = "delete", !.rows = gone]
         ELSE IF thread[x].pc # "write" THEN thread[x]
         ELSE [thread[x] EXCEPT !.held = [e \in Entities |->
                 IF e \in gone \cap thread[x].rows /\ @[e] = Absent THEN mem[e]
                                                                   ELSE @[e]]]]
    /\ UNCHANGED <<epoch, pending, lockedBy, row, rowEpoch, faults>>

\* delete_entity_state, after the lock is released.
DeleteRow(th, e) ==
    /\ thread[th].pc = "delete" /\ e \in thread[th].rows
    /\ row' = [row EXCEPT ![e] = Absent]
    /\ GoOn(th, IF thread[th].rows = {e} THEN Idle
                                         ELSE [thread[th] EXCEPT !.rows = @ \ {e}])
    /\ UNCHANGED <<mem, epoch, pending, lockedBy, rowEpoch, faults>>

-----------------------------------------------------------------------------
(* Writes that fail: the database is busy for longer than its timeout, or  *)
(* the disk is full.  Nobody sets the dirty flag again.                    *)

\* A row or the epoch row of a flush fails, and the rest stays unwritten: the
\* scheduler logs it, a handler that flushed at once raises.
FlushFails(th) ==
    /\ thread[th].pc = "write" /\ failures < MaxFailures
    /\ failures' = failures + 1 /\ owed' = TRUE
    /\ GoOn(th, Idle)
    /\ UNCHANGED <<mem, epoch, pending, lockedBy, row, rowEpoch>>

\* Mutant of EpochFails: the lock is not released.
EpochFailsLocked(th) ==
    /\ thread[th].pc = "judge" /\ failures < MaxFailures
    /\ failures' = failures + 1 /\ owed' = TRUE
    /\ GoOn(th, Idle)
    /\ epoch' = IF thread[th].rows = {} THEN epoch + 1 ELSE epoch
    /\ UNCHANGED <<mem, pending, lockedBy, row, rowEpoch>>

\* The epoch's log or a row of it fails: what was judged stays judged in memory,
\* the epoch goes on, and the record that began it does not reach _finish_record.
\* When the last write fails, the epoch has ended in memory only.
EpochFails(th) ==
    /\ thread[th].pc = "judge" /\ failures < MaxFailures
    /\ failures' = failures + 1 /\ owed' = TRUE
    /\ GoOn(th, Idle)
    /\ lockedBy' = NoThread
    /\ epoch' = IF thread[th].rows = {} THEN epoch + 1 ELSE epoch
    /\ UNCHANGED <<mem, pending, row, rowEpoch>>

\* The rows that are left of what a purge dropped stay in the database.
DeleteFails(th) ==
    /\ thread[th].pc = "delete" /\ failures < MaxFailures
    /\ failures' = failures + 1
    /\ GoOn(th, Idle)
    /\ UNCHANGED <<mem, epoch, pending, lockedBy, row, rowEpoch, owed>>

-----------------------------------------------------------------------------
\* The process dies and TierManager.__init__ loads what the database has.
CrashAndRestart ==
    /\ mem' = row /\ epoch' = rowEpoch
    /\ pending' = FALSE /\ lockedBy' = NoThread
    /\ thread' = [th \in Threads |-> Idle]
    /\ owed' = FALSE
    /\ UNCHANGED <<row, rowEpoch, failures>>

Init ==
    /\ mem = [e \in Entities |-> Absent] /\ row = mem
    /\ epoch = 0 /\ rowEpoch = 0
    /\ pending = FALSE /\ lockedBy = NoThread
    /\ thread = [th \in Threads |-> Idle]
    /\ failures = 0 /\ owed = FALSE

\* What a thread does once it has begun.
Proceed(th) ==
    \/ FinishRecord(th)
    \/ thread[th].pc = "flush" /\ FlushCopy(th)
    \/ \E e \in Entities : FlushRow(th, e)
    \/ FlushEpoch(th)
    \/ Return(th)
    \/ \E e \in Entities : EpochRow(th, e)
    \/ EpochSave(th)
    \/ \E e \in Entities : DeleteRow(th, e)

\* The scheduler's periodic flush.
ScheduledFlush(th) == thread[th].pc = "idle" /\ FlushCopy(th)

Begin(th) ==
    \/ \E e \in Entities, lifts \in BOOLEAN : Record(th, e, lifts)
    \/ \E e \in Entities \cup {Absent} : EpochJudge(th, e)
    \/ \E gone \in SUBSET Entities : Purge(th, gone)

Next ==
    \/ \E th \in Threads : Proceed(th)
    \/ ScheduledFlush(Scheduler)
    \/ \E th \in Workers : Begin(th)
    \/ \E th \in Threads : FlushFails(th) \/ EpochFails(th) \/ DeleteFails(th)
    \/ CrashAndRestart

Spec == Init /\ [][Next]_vars

\* Threads that run go on running and the scheduler's loop comes round.
LiveSpec ==
    /\ Spec
    /\ \A th \in Threads : WF_vars(Proceed(th))
    /\ WF_vars(ScheduledFlush(Scheduler))

-----------------------------------------------------------------------------
(* Properties.                                                             *)

TypeOK ==
    /\ mem \in [Entities -> Object \cup {Absent}]
    /\ row \in [Entities -> Object \cup {Absent}]
    /\ epoch \in 0 .. MaxEpochs /\ rowEpoch \in 0 .. MaxEpochs
    /\ pending \in BOOLEAN /\ lockedBy \in Threads \cup {NoThread}
    /\ failures \in 0 .. MaxFailures /\ owed \in BOOLEAN
    /\ thread \in [Threads -> Doing]

AtRest == ~pending /\ \A th \in Threads : thread[th].pc = "idle"

\* When nothing is pending and no thread is at work, the database holds exactly
\* what the memory holds of the entities that stay, unless a write has failed since
\* the last flush or epoch began: the dirty flag is cleared before the rows are
\* written and set after the change, and no interleaving of the two loses a change.
CleanMeansSaved ==
    AtRest /\ ~owed => /\ rowEpoch = epoch
                       /\ \A e \in Entities \ Leaving : row[e] = mem[e]

\* An epoch is never recorded as ended while the row of an entity that stays is
\* from before it, whichever writes fail, so after a crash no entity has missed its
\* judgement.
EpochRowIsLast ==
    \A e \in Entities \ Leaving : row[e] # Absent => rowEpoch <= row[e].judged

\* When the handler of a use that lifted an entity returns, the use is on disk
\* ("temp promotion flushes immediately"), whatever other flushes were under way;
\* it does not return when its own flush fails.
PromotionIsDurable ==
    \A th \in Threads : thread[th].pc = "done" /\ thread[th].entity \notin Leaving =>
        LET e == thread[th].entity
        IN  row[e] # Absent /\ row[e].changes >= thread[th].changes

\* Flushes that overlap never put an older state of an entity over a newer one.
RowsNeverGoBack ==
    [][\A e \in Entities \ Leaving :
          row[e] # Absent => /\ row'[e] # Absent
                             /\ row'[e].changes >= row[e].changes
                             /\ row'[e].judged >= row[e].judged]_vars

\* Every change reaches the database, or is lost with the process, or waits for the
\* next change after a write that failed.
ChangesAreSaved ==
    \A e \in Entities \ Leaving : []<>(row[e] = mem[e] \/ (owed /\ ~pending))
=============================================================================
