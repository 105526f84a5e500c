---------------------- MODULE TierPersistence_proofs ----------------------
(***************************************************************************)
(* Proofs about the rows of the tier manager, for any entities, threads    *)
(* and bounds: what is on disk is never ahead of the memory, never goes    *)
(* back, and never misses an epoch that the epoch row says has ended,      *)
(* whichever writes fail and wherever the process dies; and a clean dirty   *)
(* flag means that nothing is left to write.                               *)
(*                                                                         *)
(* The invariant speaks of the entities that stay.  A thread that flushes  *)
(* has yet to write exactly the rows that may be from before the epoch, or *)
(* from before the use it records; a thread that ends an epoch has yet to  *)
(* write the rows that were not judged.                                    *)
(***************************************************************************)
EXTENDS TierPersistence, TLAPS

Stays == Entities \ Leaving

\* The row of e is none, or an older or the same state of what is in memory.
RowsBehind ==
    \A e \in Stays : row[e] # Absent =>
        /\ mem[e] # Absent
        /\ row[e].changes <= mem[e].changes
        /\ row[e].judged <= mem[e].judged

\* Memory has been judged by every epoch that ended, on disk or not.
MemJudged ==
    /\ rowEpoch <= epoch
    /\ \A e \in Stays : mem[e] # Absent => epoch <= mem[e].judged

\* The row of e is none or was judged by epoch n.
RowJudged(e, n) == row[e] # Absent => n <= row[e].judged

\* The record that th makes is in memory, or on disk.
InMemory(th) ==
    thread[th].entity \in Stays =>
        /\ mem[thread[th].entity] # Absent
        /\ thread[th].changes <= mem[thread[th].entity].changes

OnDisk(th) ==
    thread[th].entity \in Stays =>
        /\ row[thread[th].entity] # Absent
        /\ thread[th].changes <= row[thread[th].entity].changes

\* What each label says.
ThreadOK(th) ==
    /\ \A e \in Stays : thread[th].held[e] = Absent
    /\ thread[th].lifts => thread[th].entity \in Entities
    /\ thread[th].pc = "idle" => thread[th].entity = Absent
    /\ thread[th].pc = "delete" => thread[th].rows \subseteq Leaving
    /\ thread[th].pc \in {"finish", "flush", "write"} => InMemory(th)
    /\ thread[th].pc = "write" =>
         /\ \A e \in Stays \ thread[th].rows : RowJudged(e, epoch)
         /\ thread[th].entity \notin thread[th].rows => OnDisk(th)
    /\ thread[th].pc = "done" => thread[th].lifts /\ OnDisk(th)
    /\ thread[th].pc = "judge" =>
         /\ lockedBy = th /\ epoch < MaxEpochs
         /\ \A e \in Stays : mem[e] # Absent => epoch < mem[e].judged
         /\ \A e \in Stays \ thread[th].rows : RowJudged(e, epoch + 1)

ThreadsOK == \A th \in Threads : ThreadOK(th)

IInv == TypeOK /\ RowsBehind /\ MemJudged /\ EpochRowIsLast /\ ThreadsOK

\* What a step promises besides the invariant.
RowsGrow ==
    \A e \in Entities \ Leaving :
        row[e] # Absent => /\ row'[e] # Absent
                           /\ row'[e].changes >= row[e].changes
                           /\ row'[e].judged >= row[e].judged

USE PersistenceAssumption, AbsentAssumption

-----------------------------------------------------------------------------
(* The initial states.                                                     *)

LEMMA IdleIsDoing == Idle \in Doing /\ Idle.pc = "idle" /\ Idle.entity = Absent
                     /\ Idle.lifts = FALSE /\ Idle.held = [e \in Entities |-> Absent]
<1>1. 0 \in 0 .. MaxChanges
  OBVIOUS
<1>2. [e \in Entities |-> Absent] \in [Entities -> Object \cup {Absent}]
  OBVIOUS
<1>3. QED
  BY <1>1, <1>2 DEF Idle, Doing

LEMMA InitIInv == Init => IInv
<1> SUFFICES ASSUME Init PROVE IInv
  OBVIOUS
<1>1. TypeOK
  <2>1. thread \in [Threads -> Doing]
    BY IdleIsDoing DEF Init
  <2>2. mem \in [Entities -> Object \cup {Absent}] /\ row = mem
    BY DEF Init
  <2>3. row \in [Entities -> Object \cup {Absent}]
    BY <2>2
  <2>4. /\ epoch \in 0 .. MaxEpochs /\ rowEpoch \in 0 .. MaxEpochs
        /\ failures \in 0 .. MaxFailures
    BY DEF Init
  <2>5. pending \in BOOLEAN /\ owed \in BOOLEAN /\ lockedBy \in Threads \cup {NoThread}
    BY DEF Init
  <2>6. QED
    BY <2>1, <2>2, <2>3, <2>4, <2>5 DEF TypeOK
<1>2. RowsBehind /\ MemJudged /\ EpochRowIsLast
  BY DEF Init, RowsBehind, MemJudged, EpochRowIsLast, Stays
<1>3. ThreadsOK
  <2> SUFFICES ASSUME NEW th \in Threads PROVE ThreadOK(th)
    BY DEF ThreadsOK
  <2>1. thread[th] = Idle
    BY DEF Init
  <2>2. QED
    BY <2>1, IdleIsDoing DEF ThreadOK, Stays
<1>4. QED
  BY <1>1, <1>2, <1>3 DEF IInv

-----------------------------------------------------------------------------
(* What steps that leave the epoch alone have in common.                   *)

\* Memory moves on for the entities that stay.
MemGrows ==
    \A e \in Stays : mem[e] # Absent =>
        /\ mem'[e] # Absent
        /\ mem[e].changes <= mem'[e].changes
        /\ mem[e].judged <= mem'[e].judged

\* What is new in memory dates from this epoch.
NewIsOfNow ==
    \A e \in Stays : mem[e] = Absent /\ mem'[e] # Absent => epoch <= mem'[e].judged

\* Rows are written from memory.
RowsFromMem == \A e \in Stays : row'[e] \in {row[e], mem[e]}

\* What the invariant compares are numbers.
Numbers ==
    /\ epoch \in Nat /\ rowEpoch \in Nat
    /\ \A e \in Entities : mem[e] # Absent => /\ mem[e].changes \in Nat
                                              /\ mem[e].judged \in Nat
    /\ \A e \in Entities : row[e] # Absent => /\ row[e].changes \in Nat
                                              /\ row[e].judged \in Nat
    /\ \A th \in Threads : thread[th].changes \in Nat

LEMMA TypesAreNumbers == (TypeOK => Numbers) /\ (TypeOK' => Numbers')
<1>1. TypeOK => Numbers
  BY DEF TypeOK, Object, Doing, Numbers
<1>2. TypeOK' => Numbers'
  BY DEF TypeOK, Object, Doing, Numbers
<1>3. QED
  BY <1>1, <1>2

\* Rows written from a memory that moves on stay behind it and go forward.
LEMMA RowsFollow ==
    ASSUME IInv, TypeOK', MemGrows, NewIsOfNow, RowsFromMem,
           epoch' = epoch, rowEpoch' = rowEpoch
    PROVE  RowsBehind' /\ MemJudged' /\ EpochRowIsLast' /\ RowsGrow
<1> USE TypesAreNumbers DEF IInv, Numbers
<1>1. RowsBehind' /\ RowsGrow
  BY DEF RowsBehind, RowsGrow, MemGrows, RowsFromMem, Stays
<1>2. MemJudged'
  BY DEF MemJudged, MemGrows, NewIsOfNow, Stays
<1>3. EpochRowIsLast'
  BY DEF MemJudged, EpochRowIsLast, RowsFromMem, Stays
<1>4. QED
  BY <1>1, <1>2, <1>3

\* Such a step leaves a thread that takes no part in it as it should be.
LEMMA BystanderOK ==
    ASSUME IInv, TypeOK', MemGrows, RowsFromMem, epoch' = epoch,
           NEW x \in Threads,
           thread'[x].pc = thread[x].pc, thread'[x].entity = thread[x].entity,
           thread'[x].changes = thread[x].changes, thread'[x].rows = thread[x].rows,
           thread'[x].lifts = thread[x].lifts,
           \A e \in Stays : thread'[x].held[e] = Absent,
           thread[x].pc = "judge" => mem' = mem /\ lockedBy' = lockedBy
    PROVE  ThreadOK(x)'
<1> USE TypesAreNumbers DEF IInv, Numbers
<1>1. ThreadOK(x)
  BY DEF ThreadsOK
<1>2. InMemory(x) => InMemory(x)'
  BY DEF InMemory, MemGrows, Stays
<1>3. OnDisk(x) => OnDisk(x)'
  BY DEF OnDisk, RowsBehind, RowsFromMem, Stays
<1>4. ASSUME NEW e \in Stays, RowJudged(e, epoch) PROVE RowJudged(e, epoch)'
  BY <1>4 DEF RowJudged, MemJudged, RowsFromMem, Stays
<1>5. ASSUME thread[x].pc = "judge", NEW e \in Stays, RowJudged(e, epoch + 1)
      PROVE  RowJudged(e, epoch + 1)'
  BY <1>1, <1>5 DEF ThreadOK, RowJudged, RowsFromMem, Stays
<1>6. QED
  BY <1>1, <1>2, <1>3, <1>4, <1>5 DEF ThreadOK
-----------------------------------------------------------------------------
(* The steps of a record and of a flush.                                   *)

LEMMA GoOnType ==
    ASSUME TypeOK, NEW th \in Threads, NEW t \in Doing, GoOn(th, t)
    PROVE  /\ thread' \in [Threads -> Doing]
           /\ thread'[th] = t
           /\ \A x \in Threads \ {th} : thread'[x] = thread[x]
BY DEF TypeOK, GoOn

\* A step that leaves memory, rows and epochs as they are.
LEMMA OnlyThreads ==
    ASSUME IInv, TypeOK', NEW th \in Threads, ThreadOK(th)',
           mem' = mem, epoch' = epoch, row' = row, rowEpoch' = rowEpoch,
           lockedBy' = lockedBy,
           \A x \in Threads \ {th} : thread'[x] = thread[x]
    PROVE  IInv' /\ RowsGrow
<1>1. MemGrows /\ NewIsOfNow /\ RowsFromMem
  BY TypesAreNumbers DEF IInv, Numbers, MemGrows, NewIsOfNow, RowsFromMem, Stays
<1>2. RowsBehind' /\ MemJudged' /\ EpochRowIsLast' /\ RowsGrow
  BY <1>1, RowsFollow
<1>3. ASSUME NEW x \in Threads \ {th} PROVE ThreadOK(x)'
  <2>1. \A e \in Stays : thread'[x].held[e] = Absent
    BY DEF IInv, ThreadsOK, ThreadOK
  <2>2. QED
    BY <1>1, <2>1, BystanderOK
<1>4. ThreadsOK'
  BY <1>3 DEF ThreadsOK
<1>5. QED
  BY <1>2, <1>4 DEF IInv

\* A step of th that changes memory or rows, not the epoch.
LEMMA OneThread ==
    ASSUME IInv, TypeOK', NEW th \in Threads, ThreadOK(th)',
           MemGrows, NewIsOfNow, RowsFromMem, epoch' = epoch, rowEpoch' = rowEpoch,
           \A x \in Threads \ {th} : thread'[x] = thread[x],
           \A x \in Threads \ {th} :
              thread[x].pc = "judge" => mem' = mem /\ lockedBy' = lockedBy
    PROVE  IInv' /\ RowsGrow
<1>1. RowsBehind' /\ MemJudged' /\ EpochRowIsLast' /\ RowsGrow
  BY RowsFollow
<1>2. ASSUME NEW x \in Threads \ {th} PROVE ThreadOK(x)'
  <2>1. \A e \in Stays : thread'[x].held[e] = Absent
    BY DEF IInv, ThreadsOK, ThreadOK
  <2>2. QED
    BY <2>1, BystanderOK
<1>3. ThreadsOK'
  BY <1>2 DEF ThreadsOK
<1>4. QED
  BY <1>1, <1>3 DEF IInv

\* While nobody holds the lock, no epoch is being judged.
LEMMA NobodyJudges ==
    ASSUME IInv, Unlocked, NEW x \in Threads
    PROVE  thread[x].pc # "judge"
BY DEF IInv, ThreadsOK, ThreadOK, Unlocked

LEMMA ChangedType ==
    ASSUME TypeOK, NEW e \in Entities, CanChange(e)
    PROVE  /\ Changed(e) \in Object
           /\ Changed(e).changes \in 0 .. MaxChanges
           /\ mem[e] # Absent => /\ mem[e].changes <= Changed(e).changes
                                 /\ mem[e].judged = Changed(e).judged
           /\ mem[e] = Absent => Changed(e).judged = epoch
BY DEF TypeOK, Object, Changed, CanChange

LEMMA RecordOK ==
    ASSUME IInv, NEW th \in Threads, NEW e \in Entities, NEW lifts \in BOOLEAN,
           Record(th, e, lifts)
    PROVE  IInv' /\ RowsGrow
<1> DEFINE t == [Idle EXCEPT !.pc = "finish", !.entity = e,
                             !.changes = Changed(e).changes, !.lifts = lifts]
<1> USE DEF IInv
<1>1. Changed(e) \in Object /\ Changed(e).changes \in 0 .. MaxChanges
  BY ChangedType DEF Record
<1>2. t \in Doing /\ t.pc = "finish" /\ t.entity = e /\ t.changes = Changed(e).changes
      /\ t.held = Idle.held
  BY <1>1, IdleIsDoing DEF Doing
<1>3. /\ thread' \in [Threads -> Doing]
      /\ thread'[th] = t
      /\ \A x \in Threads \ {th} : thread'[x] = thread[x]
  BY <1>2, GoOnType DEF Record
<1>4. mem' \in [Entities -> Object \cup {Absent}] /\ mem'[e] = Changed(e)
      /\ \A x \in Entities \ {e} : mem'[x] = mem[x]
  BY <1>1 DEF Record, TypeOK
<1>5. TypeOK'
  BY <1>3, <1>4 DEF TypeOK, Record, faults
<1>6. MemGrows /\ NewIsOfNow /\ RowsFromMem
  BY <1>4, ChangedType, TypesAreNumbers DEF Record, Numbers, MemGrows, NewIsOfNow, RowsFromMem, Stays
<1>7. ThreadOK(th)'
  <2>1. InMemory(th)'
    BY <1>1, <1>2, <1>3, <1>4 DEF InMemory, Object
  <2>2. QED
    BY <2>1, <1>2, <1>3, IdleIsDoing DEF ThreadOK, Stays
<1>8. QED
  BY <1>3, <1>5, <1>6, <1>7, NobodyJudges, OneThread DEF Record

LEMMA FinishRecordOK ==
    ASSUME IInv, NEW th \in Threads, FinishRecord(th)
    PROVE  IInv' /\ RowsGrow
<1> USE DEF IInv
<1>1. ThreadOK(th) /\ thread[th] \in Doing
  BY DEF ThreadsOK, TypeOK
<1>2. CASE thread[th].lifts
  <2> DEFINE t == [thread[th] EXCEPT !.pc = "flush"]
  <2>1. /\ t \in Doing /\ t.pc = "flush" /\ t.entity = thread[th].entity
        /\ t.changes = thread[th].changes /\ t.held = thread[th].held
    BY <1>1 DEF Doing
  <2>2. /\ thread' \in [Threads -> Doing]
        /\ thread'[th] = t
        /\ \A x \in Threads \ {th} : thread'[x] = thread[x]
    BY <1>2, <2>1, GoOnType DEF FinishRecord
  <2>3. TypeOK'
    BY <2>2 DEF TypeOK, FinishRecord, faults
  <2>4. ThreadOK(th)'
    BY <1>1, <2>1, <2>2 DEF FinishRecord, ThreadOK, InMemory
  <2>5. QED
    BY <2>2, <2>3, <2>4, OnlyThreads DEF FinishRecord
<1>3. CASE ~thread[th].lifts
  <2>1. /\ thread' \in [Threads -> Doing]
        /\ thread'[th] = Idle
        /\ \A x \in Threads \ {th} : thread'[x] = thread[x]
    BY <1>3, IdleIsDoing, GoOnType DEF FinishRecord
  <2>2. TypeOK'
    BY <2>1 DEF TypeOK, FinishRecord, faults
  <2>3. ThreadOK(th)'
    BY <2>1, IdleIsDoing DEF ThreadOK, Stays
  <2>4. QED
    BY <2>1, <2>2, <2>3, OnlyThreads DEF FinishRecord
<1>4. QED
  BY <1>2, <1>3

LEMMA FlushCopyOK ==
    ASSUME IInv, NEW th \in Threads, FlushCopy(th)
    PROVE  IInv' /\ RowsGrow
<1> DEFINE t == [thread[th] EXCEPT !.pc = "write", !.rows = Known]
<1> USE DEF IInv
<1>1. ThreadOK(th) /\ thread[th] \in Doing
  BY DEF ThreadsOK, TypeOK
<1>2. /\ t \in Doing /\ t.pc = "write" /\ t.entity = thread[th].entity
      /\ t.changes = thread[th].changes /\ t.held = thread[th].held
      /\ t.rows = Known
  BY <1>1 DEF Doing, Known
<1>3. /\ thread' \in [Threads -> Doing]
      /\ thread'[th] = t
      /\ \A x \in Threads \ {th} : thread'[x] = thread[x]
  BY <1>2, GoOnType DEF FlushCopy
<1>4. TypeOK'
  BY <1>3 DEF TypeOK, FlushCopy
<1>5. InMemory(th)
  BY <1>1, AbsentAssumption DEF FlushCopy, ThreadOK, InMemory, Stays
<1>6. \A e \in Stays \ Known : RowJudged(e, epoch)
  BY DEF RowsBehind, RowJudged, Known, Stays
<1>7. thread[th].entity \notin Known => thread[th].entity \notin Stays
  BY <1>5 DEF InMemory, Known, Stays
<1>8. ThreadOK(th)'
  BY <1>1, <1>2, <1>3, <1>5, <1>6, <1>7
     DEF FlushCopy, ThreadOK, InMemory, OnDisk, RowJudged, Stays
<1>9. QED
  BY <1>3, <1>4, <1>8, OnlyThreads DEF FlushCopy

LEMMA FlushRowOK ==
    ASSUME IInv, NEW th \in Threads, NEW e \in Entities, FlushRow(th, e)
    PROVE  IInv' /\ RowsGrow
<1> DEFINE t == [thread[th] EXCEPT !.rows = @ \ {e}, !.held[e] = Absent]
<1> USE DEF IInv
<1>1. ThreadOK(th) /\ thread[th] \in Doing
  BY DEF ThreadsOK, TypeOK
<1>2. /\ t \in Doing /\ t.pc = "write" /\ t.entity = thread[th].entity
      /\ t.changes = thread[th].changes /\ t.rows = thread[th].rows \ {e}
      /\ \A x \in Entities : t.held[x] \in {thread[th].held[x], Absent}
  BY <1>1 DEF Doing, FlushRow
<1>3. /\ thread' \in [Threads -> Doing]
      /\ thread'[th] = t
      /\ \A x \in Threads \ {th} : thread'[x] = thread[x]
  BY <1>2, GoOnType DEF FlushRow
<1>4. /\ row' \in [Entities -> Object \cup {Absent}]
      /\ row'[e] = IF thread[th].held[e] = Absent THEN mem[e] ELSE thread[th].held[e]
      /\ \A x \in Entities \ {e} : row'[x] = row[x]
  BY <1>1 DEF FlushRow, TypeOK, Doing
<1>5. TypeOK'
  BY <1>3, <1>4 DEF TypeOK, FlushRow, faults
<1>6. e \in Stays => row'[e] = mem[e]
  BY <1>1, <1>4 DEF ThreadOK
<1>7. MemGrows /\ NewIsOfNow /\ RowsFromMem
  BY <1>4, <1>6, TypesAreNumbers
     DEF FlushRow, Numbers, MemGrows, NewIsOfNow, RowsFromMem, Stays
<1>8. ThreadOK(th)'
  <2>1. InMemory(th) /\ InMemory(th)'
    BY <1>1, <1>2, <1>3 DEF FlushRow, ThreadOK, InMemory
  <2>2. \A x \in Stays \ t.rows : RowJudged(x, epoch)'
    BY <1>1, <1>2, <1>4, <1>6 DEF FlushRow, ThreadOK, RowJudged, MemJudged, Stays
  <2>3. t.entity \notin t.rows => OnDisk(th)'
    <3>1. CASE thread[th].entity = e
      BY <3>1, <1>2, <1>3, <1>6, <2>1 DEF OnDisk, InMemory
    <3>2. CASE thread[th].entity # e
      BY <3>2, <1>1, <1>2, <1>3, <1>4 DEF FlushRow, ThreadOK, OnDisk, Stays
    <3>3. QED
      BY <3>1, <3>2
  <2>4. QED
    BY <1>1, <1>2, <1>3, <2>1, <2>2, <2>3 DEF ThreadOK, RowJudged, FlushRow, Stays
<1>9. QED
  BY <1>3, <1>5, <1>7, <1>8, OneThread DEF FlushRow

\* Rows of the threads around it are judged by the epoch, or by the one to come, when
\* no row is left to write.
LEMMA AllJudged ==
    ASSUME IInv, NEW th \in Threads, thread[th].rows = {}
    PROVE  /\ thread[th].pc = "write" => \A e \in Stays : RowJudged(e, epoch)
           /\ thread[th].pc = "judge" => \A e \in Stays : RowJudged(e, epoch + 1)
BY DEF IInv, ThreadsOK, ThreadOK

LEMMA FlushEpochOK ==
    ASSUME IInv, NEW th \in Threads, FlushEpoch(th)
    PROVE  IInv' /\ RowsGrow
<1> DEFINE t == IF thread[th].lifts THEN [thread[th] EXCEPT !.pc = "done"] ELSE Idle
<1> USE DEF IInv
<1>1. ThreadOK(th) /\ thread[th] \in Doing
  BY DEF ThreadsOK, TypeOK
<1>2. /\ t \in Doing /\ t.pc \in {"done", "idle"}
      /\ t.pc = "idle" => t = Idle
      /\ t.pc = "done" => /\ t.lifts /\ thread[th].lifts
                          /\ t.entity = thread[th].entity
                          /\ t.changes = thread[th].changes
                          /\ t.held = thread[th].held
  BY <1>1, IdleIsDoing DEF Doing
<1>3. /\ thread' \in [Threads -> Doing]
      /\ thread'[th] = t
      /\ \A x \in Threads \ {th} : thread'[x] = thread[x]
  BY <1>2, GoOnType DEF FlushEpoch
<1>4. TypeOK'
  BY <1>3 DEF TypeOK, FlushEpoch, faults
<1>5. RowsBehind' /\ MemJudged' /\ RowsGrow
  BY TypesAreNumbers DEF FlushEpoch, Numbers, RowsBehind, MemJudged, RowsGrow, Stays
<1>6. EpochRowIsLast'
  BY AllJudged DEF FlushEpoch, EpochRowIsLast, RowJudged, Stays
<1>7. MemGrows /\ RowsFromMem
  BY TypesAreNumbers DEF FlushEpoch, Numbers, MemGrows, RowsFromMem, Stays
<1>8. ASSUME NEW x \in Threads PROVE ThreadOK(x)'
  <2>1. CASE x = th
    <3>1. t.pc = "done" => OnDisk(th)'
      BY <1>1, <1>2, <1>3 DEF FlushEpoch, ThreadOK, OnDisk
    <3>2. \A e \in Stays : t.held[e] = Absent
      BY <1>1, <1>2, IdleIsDoing DEF ThreadOK, Stays
    <3>3. t.lifts => t.entity \in Entities
      BY <1>1, <1>2, IdleIsDoing DEF ThreadOK
    <3>4. t.pc = "idle" => t.entity = Absent
      BY <1>2, IdleIsDoing
    <3> HIDE DEF t
    <3>5. QED
      BY <2>1, <1>2, <1>3, <3>1, <3>2, <3>3, <3>4 DEF ThreadOK
  <2>2. CASE x # th
    <3>1. \A e \in Stays : thread'[x].held[e] = Absent
      BY <2>2, <1>3 DEF ThreadsOK, ThreadOK
    <3>2. QED
      BY <2>2, <1>3, <1>4, <1>7, <3>1, BystanderOK DEF FlushEpoch
  <2>3. QED
    BY <2>1, <2>2
<1>9. QED
  BY <1>4, <1>5, <1>6, <1>8 DEF ThreadsOK

\* A thread that stops, with memory, rows and epochs as they are.
LEMMA StopOK ==
    ASSUME IInv, NEW th \in Threads, GoOn(th, Idle),
           mem' = mem, epoch' = epoch, row' = row, rowEpoch' = rowEpoch,
           lockedBy' = lockedBy, pending' = pending,
           failures' \in 0 .. MaxFailures, owed' \in BOOLEAN
    PROVE  IInv' /\ RowsGrow
<1>1. /\ thread' \in [Threads -> Doing]
      /\ thread'[th] = Idle
      /\ \A x \in Threads \ {th} : thread'[x] = thread[x]
  BY IdleIsDoing, GoOnType DEF IInv
<1>2. TypeOK'
  BY <1>1 DEF TypeOK, IInv
<1>3. ThreadOK(th)'
  BY <1>1, IdleIsDoing DEF ThreadOK, Stays
<1>4. QED
  BY <1>1, <1>2, <1>3, OnlyThreads

LEMMA ReturnOK ==
    ASSUME IInv, NEW th \in Threads, Return(th)
    PROVE  IInv' /\ RowsGrow
BY StopOK DEF Return, faults, IInv, TypeOK

LEMMA FlushOrDeleteFailsOK ==
    ASSUME IInv, NEW th \in Threads, FlushFails(th) \/ DeleteFails(th)
    PROVE  IInv' /\ RowsGrow
<1>1. failures' \in 0 .. MaxFailures
  BY DEF FlushFails, DeleteFails, IInv, TypeOK
<1>2. owed' = TRUE \/ owed' = owed
  BY DEF FlushFails, DeleteFails
<1>3. owed' \in BOOLEAN
  BY <1>2 DEF IInv, TypeOK
<1>4. QED
  BY <1>1, <1>3, StopOK DEF FlushFails, DeleteFails

-----------------------------------------------------------------------------
(* The steps of an epoch and of a purge.                                   *)

LEMMA JudgedType ==
    ASSUME NEW o \in Object, epoch \in Nat, epoch < MaxEpochs
    PROVE  /\ Judged(o) \in Object
           /\ Judged(o).changes = o.changes
           /\ o.judged <= Judged(o).judged
           /\ epoch < Judged(o).judged
BY DEF Object, Judged

LEMMA EpochJudgeOK ==
    ASSUME IInv, NEW th \in Threads, NEW e \in Entities \cup {Absent}, EpochJudge(th, e)
    PROVE  IInv' /\ RowsGrow
<1> DEFINE recorded == IF e = Absent THEN mem ELSE [mem EXCEPT ![e] = Changed(e)]
           t == [Idle EXCEPT !.pc = "judge",
                             !.rows = {x \in Entities : recorded[x] # Absent}]
<1> USE DEF IInv
<1>1. /\ recorded \in [Entities -> Object \cup {Absent}]
      /\ \A x \in Entities : mem[x] # Absent =>
            /\ recorded[x] # Absent
            /\ mem[x].changes <= recorded[x].changes
            /\ mem[x].judged = recorded[x].judged
  <2>1. CASE e = Absent
    BY <2>1, TypesAreNumbers DEF TypeOK, Numbers
  <2>2. CASE e # Absent
    <3>1. e \in Entities /\ CanChange(e)
      BY <2>2 DEF EpochJudge
    <3>2. Changed(e) \in Object
      BY <3>1, ChangedType
    <3>3. recorded = [mem EXCEPT ![e] = Changed(e)]
      BY <2>2
    <3>4. recorded \in [Entities -> Object \cup {Absent}]
      BY <3>2, <3>3 DEF TypeOK
    <3>5. recorded[e] = Changed(e) /\ Changed(e) # Absent
      BY <3>1, <3>2, <3>3 DEF TypeOK
    <3>6. \A x \in Entities \ {e} : recorded[x] = mem[x]
      BY <3>3 DEF TypeOK
    <3>7. QED
      BY <3>1, <3>4, <3>5, <3>6, ChangedType, TypesAreNumbers DEF Numbers
  <2>3. QED
    BY <2>1, <2>2
<1>2. /\ t \in Doing /\ t.pc = "judge" /\ t.held = Idle.held
      /\ t.rows = {x \in Entities : recorded[x] # Absent}
  BY IdleIsDoing DEF Doing
<1>3. /\ thread' \in [Threads -> Doing]
      /\ thread'[th] = t
      /\ \A x \in Threads \ {th} : thread'[x] = thread[x]
  BY <1>2, GoOnType DEF EpochJudge
<1>4. /\ DOMAIN mem' = Entities
      /\ \A x \in Entities : mem'[x] = IF recorded[x] = Absent THEN Absent
                                                        ELSE Judged(recorded[x])
  BY DEF EpochJudge
<1>5. epoch \in Nat /\ epoch < MaxEpochs
  BY TypesAreNumbers DEF EpochJudge, Numbers
<1>6. \A x \in Entities : recorded[x] # Absent =>
         /\ Judged(recorded[x]) \in Object
         /\ Judged(recorded[x]) # Absent
         /\ Judged(recorded[x]).changes = recorded[x].changes
         /\ recorded[x].judged <= Judged(recorded[x]).judged
         /\ epoch < Judged(recorded[x]).judged
  BY <1>1, <1>5, JudgedType
<1>7. mem' \in [Entities -> Object \cup {Absent}]
  <2>1. mem' = [x \in Entities |-> IF recorded[x] = Absent THEN Absent
                                   ELSE Judged(recorded[x])]
    BY DEF EpochJudge
  <2>2. QED
    BY <2>1, <1>6
<1>8. TypeOK'
  <2>1. owed' \in BOOLEAN /\ pending' \in BOOLEAN
    BY DEF EpochJudge, TypeOK
  <2>2. QED
    BY <1>3, <1>7, <2>1 DEF TypeOK, EpochJudge
<1>9. MemGrows /\ NewIsOfNow /\ RowsFromMem
  <2>1. MemGrows
    BY <1>1, <1>4, <1>6 DEF MemGrows, Stays
  <2>2. NewIsOfNow
    BY <1>4, <1>5, <1>6, <1>7 DEF NewIsOfNow, Stays, Object
  <2>3. QED
    BY <2>1, <2>2 DEF EpochJudge, RowsFromMem
<1>10. ThreadOK(th)'
  <2>1. \A x \in Stays : mem'[x] # Absent => epoch < mem'[x].judged
    BY <1>4, <1>6 DEF Stays
  <2>2. \A x \in Stays \ t.rows : row[x] = Absent
    BY <1>1, <1>2 DEF RowsBehind, Stays
  <2>3. QED
    BY <1>2, <1>3, <1>5, <2>1, <2>2, IdleIsDoing
       DEF EpochJudge, ThreadOK, RowJudged, Stays
<1>11. QED
  BY <1>3, <1>8, <1>9, <1>10, NobodyJudges, OneThread DEF EpochJudge

LEMMA EpochRowOK ==
    ASSUME IInv, NEW th \in Threads, NEW e \in Entities, EpochRow(th, e)
    PROVE  IInv' /\ RowsGrow
<1> DEFINE t == [thread[th] EXCEPT !.rows = @ \ {e}]
<1> USE DEF IInv
<1>1. ThreadOK(th) /\ thread[th] \in Doing
  BY DEF ThreadsOK, TypeOK
<1>2. /\ t \in Doing /\ t.pc = "judge" /\ t.rows = thread[th].rows \ {e}
      /\ t.held = thread[th].held
  BY <1>1 DEF Doing, EpochRow
<1>3. /\ thread' \in [Threads -> Doing]
      /\ thread'[th] = t
      /\ \A x \in Threads \ {th} : thread'[x] = thread[x]
  BY <1>2, GoOnType DEF EpochRow
<1>4. /\ row' \in [Entities -> Object \cup {Absent}]
      /\ row'[e] = mem[e]
      /\ \A x \in Entities \ {e} : row'[x] = row[x]
  BY DEF EpochRow, TypeOK
<1>5. TypeOK'
  BY <1>3, <1>4 DEF TypeOK, EpochRow, faults
<1>6. MemGrows /\ NewIsOfNow /\ RowsFromMem
  BY <1>4, TypesAreNumbers
     DEF EpochRow, Numbers, MemGrows, NewIsOfNow, RowsFromMem, Stays
<1>7. ThreadOK(th)'
  <2>1. \A x \in Stays : mem[x] # Absent => epoch < mem[x].judged
    BY <1>1 DEF EpochRow, ThreadOK
  <2>2. \A x \in Stays \ t.rows : RowJudged(x, epoch + 1)'
    BY <1>1, <1>2, <1>4, <2>1, <1>5, TypesAreNumbers
       DEF EpochRow, ThreadOK, RowJudged, Stays, Numbers
  <2>3. QED
    BY <1>1, <1>2, <1>3, <2>1, <2>2 DEF EpochRow, ThreadOK
<1>8. QED
  BY <1>3, <1>5, <1>6, <1>7, OneThread DEF EpochRow

\* The epoch ends, in memory at least: every row that is not written yet is of a
\* thread that will write what was judged.
LEMMA EpochEnds ==
    ASSUME IInv, TypeOK', NEW th \in Threads, thread[th].pc = "judge",
           thread[th].rows = {}, GoOn(th, Idle), mem' = mem, row' = row,
           epoch' = epoch + 1, rowEpoch' \in {rowEpoch, epoch + 1}
    PROVE  IInv' /\ RowsGrow
<1> USE TypesAreNumbers DEF IInv, Numbers
<1>1. /\ \A e \in Stays : mem[e] # Absent => epoch < mem[e].judged
      /\ \A e \in Stays : RowJudged(e, epoch + 1)
      /\ lockedBy = th
  BY AllJudged DEF ThreadsOK, ThreadOK
<1>2. /\ thread'[th] = Idle
      /\ \A x \in Threads \ {th} : thread'[x] = thread[x]
  BY IdleIsDoing, GoOnType
<1>3. RowsBehind' /\ MemJudged' /\ EpochRowIsLast' /\ RowsGrow
  <2>1. RowsBehind' /\ RowsGrow
    BY DEF RowsBehind, RowsGrow, Stays
  <2>2. MemJudged'
    BY <1>1 DEF MemJudged, Stays
  <2>3. EpochRowIsLast'
    BY <1>1 DEF EpochRowIsLast, RowJudged, Stays
  <2>4. QED
    BY <2>1, <2>2, <2>3
<1>4. ASSUME NEW x \in Threads PROVE ThreadOK(x)'
  <2>1. CASE x = th
    BY <2>1, <1>2, IdleIsDoing DEF ThreadOK, Stays
  <2>2. CASE x # th
    <3>1. ThreadOK(x) /\ thread'[x] = thread[x] /\ thread[x].pc # "judge"
      BY <2>2, <1>1, <1>2 DEF ThreadsOK, ThreadOK
    <3>2. InMemory(x) => InMemory(x)'
      BY <3>1 DEF InMemory
    <3>3. OnDisk(x) => OnDisk(x)'
      BY <3>1 DEF OnDisk
    <3>4. \A e \in Stays : RowJudged(e, epoch)'
      BY <1>1 DEF RowJudged
    <3>5. QED
      BY <3>1, <3>2, <3>3, <3>4 DEF ThreadOK
  <2>3. QED
    BY <2>1, <2>2
<1>5. QED
  BY <1>3, <1>4 DEF ThreadsOK

LEMMA EpochSaveOK ==
    ASSUME IInv, NEW th \in Threads, EpochSave(th)
    PROVE  IInv' /\ RowsGrow
<1> USE DEF IInv
<1>1. epoch < MaxEpochs
  BY DEF EpochSave, ThreadsOK, ThreadOK
<1>2. thread' \in [Threads -> Doing]
  BY IdleIsDoing, GoOnType DEF EpochSave
<1>3. TypeOK'
  <2>1. epoch' \in 0 .. MaxEpochs /\ rowEpoch' \in 0 .. MaxEpochs
    BY <1>1 DEF EpochSave, TypeOK
  <2>2. pending' \in BOOLEAN /\ lockedBy' \in Threads \cup {NoThread}
    BY DEF EpochSave
  <2>3. QED
    BY <1>2, <2>1, <2>2 DEF EpochSave, TypeOK, faults
<1>4. QED
  BY <1>3, EpochEnds DEF EpochSave

LEMMA EpochFailsOK ==
    ASSUME IInv, NEW th \in Threads, EpochFails(th)
    PROVE  IInv' /\ RowsGrow
<1> USE DEF IInv
<1>1. epoch < MaxEpochs
  BY DEF EpochFails, ThreadsOK, ThreadOK
<1>2. /\ thread' \in [Threads -> Doing]
      /\ thread'[th] = Idle
      /\ \A x \in Threads \ {th} : thread'[x] = thread[x]
  BY IdleIsDoing, GoOnType DEF EpochFails
<1>3. TypeOK'
  <2>1. failures' \in 0 .. MaxFailures /\ epoch' \in 0 .. MaxEpochs
    BY <1>1 DEF EpochFails, TypeOK
  <2>2. QED
    BY <1>2, <2>1 DEF EpochFails, TypeOK
<1>4. CASE thread[th].rows = {}
  BY <1>3, <1>4, EpochEnds DEF EpochFails
<1>5. CASE thread[th].rows # {}
  <2>1. epoch' = epoch /\ mem' = mem /\ row' = row /\ rowEpoch' = rowEpoch
    BY <1>5 DEF EpochFails
  <2>2. MemGrows /\ NewIsOfNow /\ RowsFromMem
    BY <2>1, TypesAreNumbers DEF Numbers, MemGrows, NewIsOfNow, RowsFromMem, Stays
  <2>3. ThreadOK(th)'
    BY <1>2, IdleIsDoing DEF ThreadOK, Stays
  <2>4. \A x \in Threads \ {th} : thread[x].pc # "judge"
    BY DEF EpochFails, ThreadsOK, ThreadOK
  <2>5. QED
    BY <1>2, <1>3, <2>1, <2>2, <2>3, <2>4, OneThread
<1>6. QED
  BY <1>4, <1>5

LEMMA PurgeOK ==
    ASSUME IInv, NEW th \in Threads, NEW gone \in SUBSET Entities, Purge(th, gone)
    PROVE  IInv' /\ RowsGrow
<1> DEFINE t == [Idle EXCEPT !.pc = "delete", !.rows = gone]
           Held(x) == [thread[x] EXCEPT !.held = [e \in Entities |->
                         IF e \in gone \cap thread[x].rows /\ @[e] = Absent THEN mem[e]
                                                                           ELSE @[e]]]
<1> USE DEF IInv
<1>1. gone \subseteq Leaving
  BY DEF Purge
<1>2. mem' \in [Entities -> Object \cup {Absent}] /\ \A e \in Stays : mem'[e] = mem[e]
  BY <1>1 DEF Purge, TypeOK, Stays
<1>3. /\ t \in Doing /\ t.pc = "delete" /\ t.rows = gone
      /\ t.held = Idle.held /\ t.lifts = FALSE
  BY IdleIsDoing DEF Doing
<1>4. thread' = [x \in Threads |->
         IF x = th THEN t ELSE IF thread[x].pc # "write" THEN thread[x] ELSE Held(x)]
  BY DEF Purge
<1>5. ASSUME NEW x \in Threads
      PROVE  /\ Held(x) \in Doing
             /\ Held(x).pc = thread[x].pc /\ Held(x).entity = thread[x].entity
             /\ Held(x).changes = thread[x].changes /\ Held(x).rows = thread[x].rows
             /\ Held(x).lifts = thread[x].lifts
             /\ \A e \in Stays : Held(x).held[e] = thread[x].held[e]
  <2>1. thread[x] \in Doing
    BY DEF TypeOK
  <2>2. QED
    BY <1>1, <2>1 DEF Doing, TypeOK, Stays
<1>6. TypeOK'
  <2>1. thread' \in [Threads -> Doing]
    BY <1>3, <1>4, <1>5 DEF TypeOK
  <2>2. QED
    BY <1>2, <2>1 DEF Purge, TypeOK, faults
<1>7. MemGrows /\ NewIsOfNow /\ RowsFromMem
  BY <1>2, TypesAreNumbers DEF Purge, Numbers, MemGrows, NewIsOfNow, RowsFromMem, Stays
<1>8. RowsBehind' /\ MemJudged' /\ EpochRowIsLast' /\ RowsGrow
  BY <1>6, <1>7, RowsFollow DEF Purge
<1>9. ASSUME NEW x \in Threads PROVE ThreadOK(x)'
  <2>1. CASE x = th
    <3> HIDE DEF t
    <3> QED
      BY <2>1, <1>1, <1>3, <1>4, IdleIsDoing DEF ThreadOK, Stays
  <2>2. CASE x # th
    <3>1. thread'[x] \in {thread[x], Held(x)}
      BY <2>2, <1>4
    <3>2. /\ thread'[x].pc = thread[x].pc /\ thread'[x].entity = thread[x].entity
          /\ thread'[x].changes = thread[x].changes /\ thread'[x].rows = thread[x].rows
          /\ thread'[x].lifts = thread[x].lifts
          /\ \A e \in Stays : thread'[x].held[e] = thread[x].held[e]
      <4>1. CASE thread'[x] = thread[x]
        BY <4>1
      <4>2. CASE thread'[x] = Held(x)
        <5> HIDE DEF Held
        <5> QED
          BY <4>2, <1>5
      <4>3. QED
        BY <3>1, <4>1, <4>2
    <3>3. \A e \in Stays : thread'[x].held[e] = Absent
      BY <3>2 DEF ThreadsOK, ThreadOK
    <3>4. thread[x].pc # "judge"
      BY NobodyJudges DEF Purge
    <3>5. QED
      BY <1>6, <1>7, <3>2, <3>3, <3>4, BystanderOK DEF Purge
  <2>3. QED
    BY <2>1, <2>2
<1>10. QED
  BY <1>6, <1>8, <1>9 DEF ThreadsOK

LEMMA DeleteRowOK ==
    ASSUME IInv, NEW th \in Threads, NEW e \in Entities, DeleteRow(th, e)
    PROVE  IInv' /\ RowsGrow
<1> DEFINE t == IF thread[th].rows = {e} THEN Idle
                                         ELSE [thread[th] EXCEPT !.rows = @ \ {e}]
<1> USE DEF IInv
<1>1. ThreadOK(th) /\ thread[th] \in Doing
  BY DEF ThreadsOK, TypeOK
<1>2. t \in Doing /\ (t # Idle => /\ t.pc = "delete" /\ t.rows = thread[th].rows \ {e}
                                  /\ t.held = thread[th].held)
  BY <1>1, IdleIsDoing DEF Doing, DeleteRow
<1>3. /\ thread' \in [Threads -> Doing]
      /\ thread'[th] = t
      /\ \A x \in Threads \ {th} : thread'[x] = thread[x]
  BY <1>2, GoOnType DEF DeleteRow
<1>4. /\ row' \in [Entities -> Object \cup {Absent}]
      /\ \A x \in Stays : row'[x] = row[x]
  BY <1>1 DEF DeleteRow, TypeOK, ThreadOK, Stays
<1>5. TypeOK'
  BY <1>3, <1>4 DEF TypeOK, DeleteRow, faults
<1>6. MemGrows /\ NewIsOfNow /\ RowsFromMem
  BY <1>4, TypesAreNumbers
     DEF DeleteRow, Numbers, MemGrows, NewIsOfNow, RowsFromMem, Stays
<1>7. ThreadOK(th)'
  <2>1. CASE t = Idle
    BY <2>1, <1>3, IdleIsDoing DEF ThreadOK, Stays
  <2>2. CASE t # Idle
    BY <2>2, <1>1, <1>2, <1>3 DEF DeleteRow, ThreadOK
  <2>3. QED
    BY <2>1, <2>2
<1>8. QED
  BY <1>3, <1>5, <1>6, <1>7, OneThread DEF DeleteRow

-----------------------------------------------------------------------------
(* Restarts, and the theorems.                                             *)

LEMMA CrashOK ==
    ASSUME IInv, CrashAndRestart
    PROVE  IInv' /\ RowsGrow
<1> USE DEF IInv
<1>1. thread' \in [Threads -> Doing]
  BY IdleIsDoing DEF CrashAndRestart
<1>2. TypeOK'
  BY <1>1 DEF CrashAndRestart, TypeOK
<1>3. RowsBehind' /\ MemJudged' /\ EpochRowIsLast' /\ RowsGrow
  BY TypesAreNumbers
     DEF CrashAndRestart, Numbers, RowsBehind, MemJudged, EpochRowIsLast, RowsGrow, Stays
<1>4. ASSUME NEW x \in Threads PROVE ThreadOK(x)'
  <2>1. thread'[x] = Idle
    BY DEF CrashAndRestart
  <2>2. QED
    BY <2>1, IdleIsDoing DEF ThreadOK, Stays
<1>5. QED
  BY <1>2, <1>3, <1>4 DEF ThreadsOK

LEMMA StutterOK == IInv /\ UNCHANGED vars => IInv'
BY DEF vars, IInv, TypeOK, RowsBehind, MemJudged, EpochRowIsLast, ThreadsOK, ThreadOK,
       InMemory, OnDisk, RowJudged

LEMMA StepOK ==
    ASSUME IInv, Next
    PROVE  IInv' /\ RowsGrow
<1>1. ASSUME NEW th \in Threads, Proceed(th) PROVE IInv' /\ RowsGrow
  BY <1>1, FinishRecordOK, FlushCopyOK, FlushRowOK, FlushEpochOK, ReturnOK, EpochRowOK,
     EpochSaveOK, DeleteRowOK DEF Proceed
<1>2. ASSUME ScheduledFlush(Scheduler) PROVE IInv' /\ RowsGrow
  BY <1>2, FlushCopyOK DEF ScheduledFlush, Threads
<1>3. ASSUME NEW th \in Workers, Begin(th) PROVE IInv' /\ RowsGrow
  BY <1>3, RecordOK, EpochJudgeOK, PurgeOK DEF Begin, Threads
<1>4. ASSUME NEW th \in Threads, FlushFails(th) \/ EpochFails(th) \/ DeleteFails(th)
      PROVE  IInv' /\ RowsGrow
  BY <1>4, FlushOrDeleteFailsOK, EpochFailsOK
<1>5. QED
  BY <1>1, <1>2, <1>3, <1>4, CrashOK DEF Next

LEMMA Invariance == Spec => []IInv
<1>1. IInv /\ [Next]_vars => IInv'
  BY StepOK, StutterOK
<1>2. QED
  BY InitIInv, <1>1, PTL DEF Spec

\* Rows, memory, epochs and threads have their types (manager.py, store.py).
THEOREM TypeCorrect == Spec => []TypeOK
<1>1. IInv => TypeOK
  BY DEF IInv
<1>2. QED
  BY Invariance, <1>1, PTL

\* An epoch is never recorded as ended while a row is from before it (manager.py,
\* _run_epoch and flush_pending), wherever writes fail or the process dies.
THEOREM EpochRowIsLastCorrect == Spec => []EpochRowIsLast
<1>1. IInv => EpochRowIsLast
  BY DEF IInv
<1>2. QED
  BY Invariance, <1>1, PTL

\* A use that lifts an entity is on disk when its handler returns (manager.py,
\* record_tool_attempt with sync_flush).
THEOREM PromotionIsDurableCorrect == Spec => []PromotionIsDurable
<1>1. IInv => PromotionIsDurable
  <2> SUFFICES ASSUME IInv, NEW th \in Threads, thread[th].pc = "done",
                      thread[th].entity \notin Leaving
               PROVE  /\ row[thread[th].entity] # Absent
                      /\ row[thread[th].entity].changes >= thread[th].changes
    BY DEF PromotionIsDurable
  <2>1. OnDisk(th)
    BY DEF IInv, ThreadsOK, ThreadOK
  <2>2. thread[th].entity \in Stays
    BY DEF IInv, ThreadsOK, ThreadOK, TypeOK, Doing, Stays
  <2>3. QED
    BY <2>1, <2>2, TypesAreNumbers DEF IInv, Numbers, OnDisk, Stays
<1>2. QED
  BY Invariance, <1>1, PTL

\* No write of a flush or of an epoch puts an older state of an entity over a newer one
\* (store.py, upsert_entity_state).
THEOREM RowsNeverGoBackCorrect == Spec => RowsNeverGoBack
<1>1. IInv /\ Next => RowsGrow
  BY StepOK
<1>2. Spec => [][RowsGrow]_vars
  BY Invariance, <1>1, PTL DEF Spec
<1>3. QED
  BY <1>2 DEF RowsNeverGoBack, RowsGrow
-----------------------------------------------------------------------------
(* Nothing is forgotten.  A row that is not what the memory holds has the   *)
(* dirty flag, a failure, or a thread that has yet to write it.             *)

\* th writes the row of e before it is through, or sets the flag.
Covers(th, e) ==
    \/ thread[th].pc \in {"finish", "flush"}
    \/ thread[th].pc \in {"write", "judge"} /\ e \in thread[th].rows

\* The epoch clears the flag when it ends, for it has written everything.
JudgedAreSaved ==
    \A th \in Threads : thread[th].pc = "judge" =>
        \A e \in Stays \ thread[th].rows : row[e] = mem[e]

RowsCovered ==
    ~owed /\ ~pending =>
        \A e \in Stays : row[e] = mem[e] \/ \E th \in Threads : Covers(th, e)

EpochCovered ==
    ~owed => rowEpoch = epoch \/ \E th \in Threads : thread[th].pc \in {"write", "judge"}

Saved == JudgedAreSaved /\ RowsCovered /\ EpochCovered

\* Only th moves.
Alone(th) == \A x \in Threads \ {th} : /\ thread'[x].pc = thread[x].pc
                                       /\ thread'[x].rows = thread[x].rows

LEMMA AloneGoes ==
    ASSUME IInv, NEW th \in Threads, NEW t, GoOn(th, t)
    PROVE  thread'[th] = t /\ Alone(th)
BY DEF IInv, TypeOK, GoOn, Alone

LEMMA AloneCovers ==
    ASSUME NEW th \in Threads, Alone(th)
    PROVE  \A x \in Threads \ {th} : \A e \in Stays : Covers(x, e) => Covers(x, e)'
BY DEF Alone, Covers

\* A step in which th writes rows of what is in memory, and lets go only of what is
\* written.
LEMMA KeepsSaved ==
    ASSUME Saved, NEW th \in Threads, Alone(th),
           owed' = owed, pending' = pending,
           \A e \in Stays : mem'[e] = mem[e] /\ row'[e] \in {row[e], mem[e]},
           \A e \in Stays : Covers(th, e) => Covers(th, e)' \/ row'[e] = mem[e],
           thread'[th].pc = "judge" =>
              /\ thread[th].pc = "judge"
              /\ \A e \in Stays \cap thread[th].rows :
                    e \in thread'[th].rows \/ row'[e] = mem[e],
           epoch' = epoch, rowEpoch' \in {rowEpoch, epoch},
           thread[th].pc \in {"write", "judge"} =>
              thread'[th].pc = thread[th].pc \/ rowEpoch' = epoch
    PROVE  Saved'
<1>1. JudgedAreSaved'
  BY DEF Saved, JudgedAreSaved, Alone
<1>2. RowsCovered'
  <2> SUFFICES ASSUME ~owed, ~pending, NEW e \in Stays, row'[e] # mem'[e]
               PROVE  \E x \in Threads : Covers(x, e)'
    BY DEF RowsCovered
  <2>1. row[e] # mem[e]
    OBVIOUS
  <2>2. PICK x \in Threads : Covers(x, e)
    BY <2>1 DEF Saved, RowsCovered
  <2> QED
    BY <2>2, AloneCovers
<1>3. EpochCovered'
  <2> SUFFICES ASSUME ~owed, rowEpoch' # epoch
               PROVE  \E x \in Threads : thread'[x].pc \in {"write", "judge"}
    BY DEF EpochCovered
  <2>1. PICK x \in Threads : thread[x].pc \in {"write", "judge"}
    BY DEF Saved, EpochCovered
  <2> QED
    BY <2>1 DEF Alone
<1> QED
  BY <1>1, <1>2, <1>3 DEF Saved

LEMMA RecordSaved ==
    ASSUME IInv, Saved, NEW th \in Threads, NEW e \in Entities, NEW lifts \in BOOLEAN,
           Record(th, e, lifts)
    PROVE  Saved'
<1>1. thread'[th].pc = "finish" /\ Alone(th)
  <2> DEFINE t == [Idle EXCEPT !.pc = "finish", !.entity = e,
                               !.changes = Changed(e).changes, !.lifts = lifts]
  <2>1. t.pc = "finish"
    BY DEF Idle
  <2>2. GoOn(th, t)
    BY DEF Record
  <2> HIDE DEF t
  <2> QED
    BY <2>1, <2>2, AloneGoes
<1>2. JudgedAreSaved'
  BY <1>1, NobodyJudges DEF Record, JudgedAreSaved, Alone
<1>3. RowsCovered'
  BY <1>1 DEF RowsCovered, Covers
<1>4. EpochCovered'
  BY <1>1 DEF Saved, EpochCovered, Record, Alone, faults
<1> QED
  BY <1>2, <1>3, <1>4 DEF Saved

LEMMA FinishRecordSaved ==
    ASSUME IInv, Saved, NEW th \in Threads, FinishRecord(th) PROVE Saved'
<1>1. thread'[th].pc \in {"flush", "idle"} /\ Alone(th)
  <2>1. thread[th] \in Doing
    BY DEF IInv, TypeOK
  <2> QED
    BY <2>1, AloneGoes DEF FinishRecord, Idle, Doing
<1>2. JudgedAreSaved'
  BY <1>1, NobodyJudges DEF FinishRecord, JudgedAreSaved, Alone
<1>3. RowsCovered'
  BY DEF RowsCovered, FinishRecord
<1>4. EpochCovered'
  BY <1>1 DEF Saved, EpochCovered, FinishRecord, Alone, faults
<1> QED
  BY <1>2, <1>3, <1>4 DEF Saved

LEMMA FlushCopySaved ==
    ASSUME IInv, NEW th \in Threads, FlushCopy(th) PROVE Saved'
<1>1. thread'[th].pc = "write" /\ thread'[th].rows = Known /\ Alone(th)
  <2> DEFINE t == [thread[th] EXCEPT !.pc = "write", !.rows = Known]
  <2>1. t.pc = "write" /\ t.rows = Known
    <3>1. thread[th] \in Doing
      BY DEF IInv, TypeOK
    <3> QED
      BY <3>1 DEF Doing
  <2>2. GoOn(th, t)
    BY DEF FlushCopy
  <2> HIDE DEF t
  <2> QED
    BY <2>1, <2>2, AloneGoes
<1>2. JudgedAreSaved'
  BY <1>1, NobodyJudges DEF FlushCopy, JudgedAreSaved, Alone
<1>3. RowsCovered'
  BY <1>1 DEF RowsCovered, Covers, FlushCopy, IInv, RowsBehind, Known, Stays
<1>4. EpochCovered'
  BY <1>1 DEF EpochCovered
<1> QED
  BY <1>2, <1>3, <1>4 DEF Saved

LEMMA FlushRowSaved ==
    ASSUME IInv, Saved, NEW th \in Threads, NEW e \in Entities, FlushRow(th, e)
    PROVE  Saved'
<1>1. ThreadOK(th) /\ thread[th] \in Doing
  BY DEF IInv, TypeOK, ThreadsOK
<1>2. thread'[th].pc = "write" /\ thread'[th].rows = thread[th].rows \ {e} /\ Alone(th)
  <2> DEFINE t == [thread[th] EXCEPT !.rows = @ \ {e}, !.held[e] = Absent]
  <2>1. t.pc = "write" /\ t.rows = thread[th].rows \ {e}
    BY <1>1 DEF FlushRow, Doing
  <2>2. GoOn(th, t)
    BY DEF FlushRow
  <2> HIDE DEF t
  <2> QED
    BY <2>1, <2>2, AloneGoes
<1>3. /\ e \in Stays => row'[e] = mem[e]
      /\ \A x \in Entities \ {e} : row'[x] = row[x]
  BY <1>1 DEF FlushRow, IInv, TypeOK, ThreadOK
<1>4. \A x \in Stays : Covers(th, x) => Covers(th, x)' \/ row'[x] = mem[x]
  BY <1>2, <1>3 DEF FlushRow, Covers
<1> QED
  BY <1>2, <1>3, <1>4, KeepsSaved DEF FlushRow, faults, Stays

LEMMA FlushEpochSaved ==
    ASSUME IInv, Saved, NEW th \in Threads, FlushEpoch(th) PROVE Saved'
<1>1. thread'[th].pc \in {"done", "idle"} /\ Alone(th)
  <2>1. thread[th] \in Doing
    BY DEF IInv, TypeOK
  <2> QED
    BY <2>1, AloneGoes DEF FlushEpoch, Idle, Doing
<1>2. \A x \in Stays : ~Covers(th, x)
  BY DEF FlushEpoch, Covers
<1> QED
  BY <1>1, <1>2, KeepsSaved DEF FlushEpoch, faults

\* Steps of a thread that has nothing more to write of what stays.
LEMMA LeaverSaved ==
    ASSUME IInv, Saved, NEW th \in Threads,
           \/ Return(th) \/ DeleteFails(th)
           \/ \E e \in Entities : DeleteRow(th, e)
           \/ \E gone \in SUBSET Entities : Purge(th, gone)
    PROVE  Saved'
<1>1. ThreadOK(th) /\ thread[th] \in Doing
  BY DEF IInv, TypeOK, ThreadsOK
<1>2. thread[th].pc \in {"done", "delete", "idle"}
  BY DEF Return, DeleteFails, DeleteRow, Purge
<1>3. thread'[th].pc \in {"idle", "delete"} /\ Alone(th)
  <2>1. CASE Return(th) \/ DeleteFails(th)
    BY <2>1, AloneGoes DEF Return, DeleteFails, Idle
  <2>2. ASSUME NEW e \in Entities, DeleteRow(th, e)
        PROVE  thread'[th].pc \in {"idle", "delete"} /\ Alone(th)
    BY <1>1, <2>2, AloneGoes DEF DeleteRow, Idle, Doing
  <2>3. ASSUME NEW gone \in SUBSET Entities, Purge(th, gone)
        PROVE  thread'[th].pc \in {"idle", "delete"} /\ Alone(th)
    <3>1. thread'[th].pc = "delete"
      BY <2>3 DEF Purge, Idle
    <3>2. ASSUME NEW x \in Threads \ {th}
          PROVE  thread'[x].pc = thread[x].pc /\ thread'[x].rows = thread[x].rows
      <4>1. thread[x] \in Doing
        BY DEF IInv, TypeOK
      <4> QED
        BY <2>3, <4>1 DEF Purge, Doing
    <3> QED
      BY <3>1, <3>2 DEF Alone
  <2> QED
    BY <2>1, <2>2, <2>3
<1>4. \A x \in Stays : mem'[x] = mem[x] /\ row'[x] = row[x]
  <2>1. CASE Return(th) \/ DeleteFails(th)
    BY <2>1 DEF Return, DeleteFails
  <2>2. ASSUME NEW e \in Entities, DeleteRow(th, e)
        PROVE  \A x \in Stays : mem'[x] = mem[x] /\ row'[x] = row[x]
    BY <1>1, <2>2 DEF DeleteRow, IInv, TypeOK, ThreadOK, Stays
  <2>3. ASSUME NEW gone \in SUBSET Entities, Purge(th, gone)
        PROVE  \A x \in Stays : mem'[x] = mem[x] /\ row'[x] = row[x]
    BY <2>3 DEF Purge, Stays
  <2> QED
    BY <2>1, <2>2, <2>3
<1>5. \A x \in Stays : ~Covers(th, x)
  BY <1>2 DEF Covers
<1>6. owed' = owed /\ pending' = pending /\ epoch' = epoch /\ rowEpoch' = rowEpoch
  BY DEF Return, DeleteFails, DeleteRow, Purge, faults
<1> QED
  BY <1>2, <1>3, <1>4, <1>5, <1>6, KeepsSaved

LEMMA EpochJudgeSaved ==
    ASSUME IInv, NEW th \in Threads, NEW e \in Entities \cup {Absent}, EpochJudge(th, e)
    PROVE  Saved'
<1> DEFINE recorded == IF e = Absent THEN mem ELSE [mem EXCEPT ![e] = Changed(e)]
<1>1. /\ thread'[th].pc = "judge" /\ Alone(th)
      /\ thread'[th].rows = {x \in Entities : recorded[x] # Absent}
  <2> DEFINE t == [Idle EXCEPT !.pc = "judge",
                               !.rows = {x \in Entities : recorded[x] # Absent}]
  <2>1. t.pc = "judge" /\ t.rows = {x \in Entities : recorded[x] # Absent}
    BY DEF Idle
  <2>2. GoOn(th, t)
    BY DEF EpochJudge
  <2> HIDE DEF t
  <2> QED
    BY <2>1, <2>2, AloneGoes
<1>2. \A x \in Stays \ thread'[th].rows : row'[x] = mem'[x]
  <2>1. ASSUME NEW x \in Stays, recorded[x] = Absent PROVE row'[x] = mem'[x]
    <3>1. mem'[x] = Absent
      BY <2>1 DEF EpochJudge, Stays
    <3>2. mem[x] = Absent
      <4>1. CASE e = Absent
        BY <2>1, <4>1
      <4>2. CASE e # Absent
        <5>1. e \in Entities /\ Changed(e) # Absent
          BY <4>2, ChangedType DEF EpochJudge, IInv
        <5>2. recorded = [mem EXCEPT ![e] = Changed(e)]
          BY <4>2
        <5>3. x # e
          BY <2>1, <5>1, <5>2 DEF IInv, TypeOK
        <5> QED
          BY <2>1, <5>2, <5>3 DEF IInv, TypeOK, Stays
      <4> QED
        BY <4>1, <4>2
    <3> QED
      BY <3>1, <3>2 DEF EpochJudge, IInv, RowsBehind
  <2> HIDE DEF recorded
  <2> QED
    BY <1>1, <2>1 DEF Stays
<1>3. JudgedAreSaved'
  BY <1>1, <1>2, NobodyJudges DEF EpochJudge, JudgedAreSaved, Alone
<1>4. RowsCovered'
  BY <1>1, <1>2 DEF RowsCovered, Covers
<1>5. EpochCovered'
  BY <1>1 DEF EpochCovered
<1> QED
  BY <1>3, <1>4, <1>5 DEF Saved

LEMMA EpochRowSaved ==
    ASSUME IInv, Saved, NEW th \in Threads, NEW e \in Entities, EpochRow(th, e)
    PROVE  Saved'
<1>1. thread[th] \in Doing
  BY DEF IInv, TypeOK
<1>2. thread'[th].pc = "judge" /\ thread'[th].rows = thread[th].rows \ {e} /\ Alone(th)
  BY <1>1, AloneGoes DEF EpochRow, Doing
<1>3. row'[e] = mem[e] /\ \A x \in Entities \ {e} : row'[x] = row[x]
  BY DEF EpochRow, IInv, TypeOK
<1>4. \A x \in Stays : Covers(th, x) => Covers(th, x)' \/ row'[x] = mem[x]
  BY <1>2, <1>3 DEF EpochRow, Covers
<1> QED
  BY <1>2, <1>3, <1>4, KeepsSaved DEF EpochRow, faults, Stays

LEMMA EpochSaveSaved ==
    ASSUME IInv, Saved, NEW th \in Threads, EpochSave(th) PROVE Saved'
<1>1. thread'[th].pc = "idle" /\ Alone(th)
  BY AloneGoes DEF EpochSave, Idle
<1>2. \A e \in Stays : row[e] = mem[e]
  BY DEF EpochSave, Saved, JudgedAreSaved
<1> QED
  BY <1>1, <1>2 DEF EpochSave, Saved, JudgedAreSaved, RowsCovered, EpochCovered, Alone

\* A failure is remembered.
LEMMA FailureSaved ==
    ASSUME IInv, Saved, NEW th \in Threads, FlushFails(th) \/ EpochFails(th) PROVE Saved'
<1>1. thread'[th].pc = "idle" /\ Alone(th)
  BY AloneGoes DEF FlushFails, EpochFails, Idle
<1> QED
  BY <1>1 DEF FlushFails, EpochFails, Saved, JudgedAreSaved, RowsCovered, EpochCovered, Alone

LEMMA CrashSaved == ASSUME CrashAndRestart PROVE Saved'
<1>1. \A th \in Threads : thread'[th].pc = "idle"
  BY DEF CrashAndRestart, Idle
<1> QED
  BY <1>1 DEF CrashAndRestart, Saved, JudgedAreSaved, RowsCovered, EpochCovered

LEMMA SavedStep == ASSUME IInv, Saved, [Next]_vars PROVE Saved'
<1>1. ASSUME NEW th \in Threads, Proceed(th) PROVE Saved'
  BY <1>1, FinishRecordSaved, FlushCopySaved, FlushRowSaved, FlushEpochSaved, LeaverSaved,
     EpochRowSaved, EpochSaveSaved DEF Proceed
<1>2. ASSUME ScheduledFlush(Scheduler) PROVE Saved'
  BY <1>2, FlushCopySaved DEF ScheduledFlush, Threads
<1>3. ASSUME NEW th \in Workers, Begin(th) PROVE Saved'
  BY <1>3, RecordSaved, EpochJudgeSaved, LeaverSaved DEF Begin, Threads
<1>4. ASSUME NEW th \in Threads, FlushFails(th) \/ EpochFails(th) \/ DeleteFails(th)
      PROVE  Saved'
  BY <1>4, FailureSaved, LeaverSaved
<1>5. CASE UNCHANGED vars
  BY <1>5 DEF vars, Saved, JudgedAreSaved, RowsCovered, EpochCovered, Covers
<1> QED
  BY <1>1, <1>2, <1>3, <1>4, <1>5, CrashSaved DEF Next

\* A clean flag and idle threads mean that the database holds the memory, unless a write
\* has failed since the last flush or epoch began (manager.py, flush_pending clears the
\* flag before it writes, _finish_record sets it after the change).
THEOREM CleanMeansSavedCorrect == Spec => []CleanMeansSaved
<1>1. Init => Saved
  BY DEF Init, Idle, Saved, JudgedAreSaved, RowsCovered, EpochCovered
<1>2. IInv /\ Saved /\ [Next]_vars => Saved'
  BY SavedStep
<1>3. Saved => CleanMeansSaved
  BY DEF Saved, RowsCovered, EpochCovered, Covers, CleanMeansSaved, AtRest, Stays
<1> QED
  BY <1>1, <1>2, <1>3, Invariance, PTL DEF Spec
=============================================================================
