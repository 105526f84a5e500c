-------------------------- MODULE Catalog_proofs --------------------------
(***************************************************************************)
(* Proofs about both ends of a catalog's way into the hook daemon: the     *)
(* registry that keeps it and the runtimes that push it.                   *)
(*                                                                         *)
(* The registry, for any number of keys, catalogs and writers, however     *)
(* often the daemon restarts: at most one snapshot writer is at work, every*)
(* catalog in memory, on disk and on its way is well formed, and it        *)
(* implements RegistryService.  OneWriter alone is inductive once the      *)
(* program counters are a function over the actors: the flag is tested     *)
(* before a writer is started, so no writer is busy then, and the writer   *)
(* that resets it is the only busy one.                                    *)
(*                                                                         *)
(* The runtimes, for any number of them and of immediate pushes: whatever  *)
(* is registered is a catalog with tools, and every hash, deny list and    *)
(* revision is one that there was.  A request has its body from before it  *)
(* was sent, so what is on its way is in the invariant too.  A runtime that*)
(* has heard of the newest revision has the newest rules, unless it missed *)
(* one: a second invariant, on revisions, on top of the first.             *)
(***************************************************************************)
EXTENDS CatalogRegistry, CatalogPush, TLAPS

(* The part of TypeOK that OneWriter rests on.                             *)
CountersOK == pc \in [Actors -> Labels] /\ pending \in BOOLEAN

IInv == CountersOK /\ OneWriter

(* The loop and the scheduler are not writers.                             *)
LEMMA RemoversDoNotWrite ==
    /\ Loop \in Actors /\ Scheduler \in Actors
    /\ \A w \in Writers : w \in Actors /\ w # Loop /\ w # Scheduler
BY RegistryAssumption DEF Actors, Removers

(* A writer that goes from one busy label to another changes nothing that  *)
(* OneWriter speaks of.                                                    *)
LEMMA BusyStep ==
    ASSUME IInv, NEW w \in Writers, NEW from, NEW to \in Labels,
           Step(w, from, to), UNCHANGED pending,
           from \notin {"none", "leave"}, to \notin {"none", "leave"}
    PROVE  IInv'
<1> USE RemoversDoNotWrite DEF IInv, CountersOK
<1>1. pc' = [pc EXCEPT ![w] = to] /\ pc[w] = from
  BY DEF Step, At, GoTo
<1>2. pc' \in [Actors -> Labels]
  BY <1>1
<1>3. \A v \in Writers : Busy(v)' <=> Busy(v)
  BY <1>1 DEF Busy
<1> QED BY <1>2, <1>3 DEF OneWriter

(* The loop's and the scheduler's own steps leave the writers where they   *)
(* are.                                                                    *)
LEMMA RemoverStep ==
    ASSUME IInv, NEW t \in Removers, NEW to \in Labels, GoTo(t, to), UNCHANGED pending
    PROVE  IInv'
<1> USE RemoversDoNotWrite DEF IInv, CountersOK
<1>1. t \in Actors /\ \A w \in Writers : w # t
  BY DEF Removers
<1>2. pc' = [pc EXCEPT ![t] = to]
  BY DEF GoTo
<1>3. pc' \in [Actors -> Labels]
  BY <1>1, <1>2
<1>4. \A v \in Writers : Busy(v)' <=> Busy(v)
  BY <1>1, <1>2 DEF Busy
<1> QED BY <1>3, <1>4 DEF OneWriter

LEMMA InitIInv == Init => IInv
BY RemoversDoNotWrite DEF Init, AtRest, IInv, CountersOK, OneWriter, Busy, Labels

LEMMA ScheduleIInv == IInv /\ Schedule => IInv'
<1> SUFFICES ASSUME IInv, Schedule PROVE IInv'
  OBVIOUS
<1> USE RemoversDoNotWrite DEF IInv, CountersOK
<1>1. CASE pending /\ GoTo(Loop, "idle")
  <2>1. UNCHANGED pending
    BY <1>1 DEF Schedule
  <2> QED BY <1>1, <2>1, RemoverStep DEF Removers, Labels
<1>2. CASE /\ ~pending
           /\ \E w \in Writers : /\ At(w, "none")
                                 /\ pc' = [pc EXCEPT ![Loop] = "idle", ![w] = "start"]
  <2>1. PICK w \in Writers : pc' = [pc EXCEPT ![Loop] = "idle", ![w] = "start"]
    BY <1>2
  <2>2. \A v \in Writers : ~Busy(v)
    BY <1>2 DEF OneWriter
  <2>3. pc' \in [Actors -> Labels]
    BY <2>1 DEF Labels
  <2>4. \A v \in Writers : Busy(v)' <=> v = w
    BY <2>1, <2>2 DEF Busy
  <2>5. pending' = TRUE
    BY DEF Schedule
  <2> QED BY <2>3, <2>4, <2>5 DEF OneWriter
<1> QED BY <1>1, <1>2 DEF Schedule

LEMMA FinishIInv ==
    ASSUME IInv, NEW w \in Writers, WriterFinishes(w) PROVE IInv'
<1> USE RemoversDoNotWrite DEF IInv, CountersOK
<1>1. pc' = [pc EXCEPT ![w] = "leave"] /\ pc[w] = "finish" /\ pending' = FALSE
  BY DEF WriterFinishes, Step, At, GoTo
<1>2. \A v \in Writers : Busy(v) => v = w
  BY <1>1 DEF OneWriter, Busy
<1>3. pc' \in [Actors -> Labels]
  BY <1>1 DEF Labels
<1>4. \A v \in Writers : ~Busy(v)'
  BY <1>1, <1>2 DEF Busy
<1> QED BY <1>1, <1>3, <1>4 DEF OneWriter

LEMMA LeaveIInv ==
    ASSUME IInv, NEW w \in Writers, WriterLeaves(w) PROVE IInv'
<1> USE RemoversDoNotWrite DEF IInv, CountersOK
<1>1. pc' = [pc EXCEPT ![w] = "none"] /\ pc[w] = "leave" /\ UNCHANGED pending
  BY DEF WriterLeaves, Step, At, GoTo
<1>2. pc' \in [Actors -> Labels]
  BY <1>1 DEF Labels
<1>3. \A v \in Writers : Busy(v)' <=> Busy(v)
  BY <1>1 DEF Busy
<1> QED BY <1>1, <1>2, <1>3 DEF OneWriter

LEMMA WriteIInv ==
    ASSUME IInv, NEW w \in Writers, Write(w) PROVE IInv'
<1>1. CASE WriterStarts(w)
  BY <1>1, BusyStep DEF WriterStarts, Labels
<1>2. CASE WriterReadsGeneration(w)
  BY <1>2, BusyStep DEF WriterReadsGeneration, Labels
<1>3. CASE WriterCopies(w)
  BY <1>3, BusyStep DEF WriterCopies, Labels
<1>4. ASSUME NEW ok \in WriteOutcomes, WriterWrites(w, ok) PROVE IInv'
  BY <1>4, BusyStep DEF WriterWrites, Labels
<1>5. CASE WriterChecks(w)
  BY <1>5, BusyStep DEF WriterChecks, Labels
<1>6. CASE WriterFinishes(w)
  BY <1>6, FinishIInv
<1>7. CASE WriterLeaves(w)
  BY <1>7, LeaveIInv
<1> QED BY <1>1, <1>2, <1>3, <1>4, <1>5, <1>6, <1>7 DEF Write

LEMMA RemoveIInv ==
    ASSUME IInv, NEW t \in Removers, Remove(t) PROVE IInv'
<1>1. CASE RemoverWaits(t)
  BY <1>1, RemoverStep DEF RemoverWaits, Labels
<1>2. CASE RemoverBumps(t)
  BY <1>2, RemoverStep DEF RemoverBumps, Labels
<1>3. CASE RemoverDeletes(t)
  BY <1>3, RemoverStep DEF RemoverDeletes, Labels
<1>4. ASSUME NEW ok \in WriteOutcomes, RemoverWrites(t, ok) PROVE IInv'
  BY <1>4, RemoverStep DEF RemoverWrites, Labels
<1> QED BY <1>1, <1>2, <1>3, <1>4 DEF Remove

(* Every step of the registry preserves the invariant.                     *)
LEMMA StepIInv == IInv /\ [Next]_vars => IInv'
<1> SUFFICES ASSUME IInv, [Next]_vars PROVE IInv'
  OBVIOUS
<1>1. ASSUME NEW k \in Keys, NEW c \in Contents, NEW i \in Instances, RegisterFull(k, c, i)
      PROVE  IInv'
  BY <1>1, RemoverStep DEF RegisterFull, Accept, Removers, Labels
<1>2. ASSUME NEW k \in Keys, NEW i \in Instances, Heartbeat(k, i)
      PROVE  IInv'
  BY <1>2, RemoverStep DEF Heartbeat, Accept, Removers, Labels
<1>3. CASE Upsert
  BY <1>3, RemoverStep DEF Upsert, Removers, Labels
<1>4. CASE Schedule
  BY <1>4, ScheduleIInv
<1>5. ASSUME NEW w \in Writers, Write(w) PROVE IInv'
  BY <1>5, WriteIInv
<1>6. ASSUME NEW k \in Keys, NEW i \in Instances, Deregister(k, i)
      PROVE  IInv'
  BY <1>6, RemoverStep DEF Deregister, Removers, Labels
<1>7. CASE Prune
  BY <1>7, RemoverStep DEF Prune, Removers, Labels
<1>8. ASSUME NEW t \in Removers, Remove(t) PROVE IInv'
  BY <1>8, RemoveIInv
<1>9. CASE Load
  BY <1>9 DEF Load, IInv, CountersOK, OneWriter, Busy
<1>10. ASSUME NEW k \in Keys, Expire(k) PROVE IInv'
  BY <1>10 DEF Expire, IInv, CountersOK, OneWriter, Busy
<1>11. CASE Crash
  BY <1>11, RemoversDoNotWrite DEF Crash, AtRest, IInv, CountersOK, OneWriter, Busy, Labels
<1>16. CASE Boot
  BY <1>16, RemoversDoNotWrite DEF Boot, IInv, CountersOK, OneWriter, Busy, Labels
<1>12. CASE UNCHANGED vars
  BY <1>12 DEF vars, IInv, CountersOK, OneWriter, Busy
<1>13. CASE Beat
  BY <1>2, <1>13 DEF Beat
<1>14. CASE \E k \in Keys, c \in Contents, i \in Instances : RegisterFull(k, c, i)
  BY <1>1, <1>14
<1>15. CASE \E k \in Keys, i \in Instances : Deregister(k, i)
  BY <1>6, <1>15
<1> QED
  BY <1>3, <1>4, <1>5, <1>7, <1>8, <1>9, <1>10, <1>11, <1>12, <1>13, <1>14, <1>15, <1>16
     DEF Next

(* At most one snapshot writer is at work, and the pending flag says       *)
(* whether one is (_schedule_snapshot_write, _write_snapshot_async).       *)
THEOREM OneWriterCorrect == Spec => []OneWriter
<1>1. IInv => OneWriter
  BY DEF IInv
<1> QED BY <1>1, InitIInv, StepIInv, PTL DEF Spec

-----------------------------------------------------------------------------
(* Types, and what the loop's request holds on its way: an entry to store  *)
(* before "upsert", an instance to remove from "wait" to "delete", and     *)
(* nothing once it is answered.                                            *)

Fresh(e) == \E c \in Contents, i \in Instances : e = Registered(c, i)

ArgOK ==
    /\ pc[Loop] = "upsert" => arg.key \in Keys /\ Fresh(arg.entry)
    /\ pc[Loop] \in {"wait", "bump", "delete"} => arg.key \in Keys /\ arg.by \in Instances
    /\ pc[Loop] \in {"idle", "write", "boot"} => arg = NoRequest

TInv == TypeOK /\ ArgOK

LEMMA FreshIsEntry == \A e : Fresh(e) => e \in Entry
BY DEF Fresh, Registered, Entry

(* What the disk gives back is an entry of the registry, and a fallback.   *)
LEMMA FromDiskIsFallback ==
    ASSUME NEW e \in Entry
    PROVE  FromDisk(e) \in Entry /\ FromDisk(e).stale /\ ~FromDisk(e).expired
BY DEF FromDisk, Entry

LEMMA MergedIsEntry ==
    ASSUME NEW a \in Entry \cup {None}, NEW b \in Entry \cup {None}
    PROVE  Merged(a, b) \in Entry \cup {None}
BY FromDiskIsFallback DEF Merged

LEMMA InitTInv == Init => TInv
<1> SUFFICES ASSUME Init PROVE TInv
  OBVIOUS
<1> USE RegistryAssumption, RemoversDoNotWrite DEF Init
<1>1. Empty \in Catalogs
  BY DEF Empty, Catalogs
<1>2. pc \in [Actors -> Labels] /\ pc[Loop] = "idle"
  BY DEF AtRest, Labels
<1>3. payload \in [Actors -> Catalogs] /\ reg \in Catalogs /\ file \in Catalogs
  BY <1>1
<1>4. 0 \in 0 .. MaxOps
  BY RegistryAssumption
<1>5. TypeOK
  BY <1>2, <1>3, <1>4 DEF TypeOK
<1>6. ArgOK
  BY <1>2 DEF ArgOK
<1> QED BY <1>5, <1>6 DEF TInv

(* A writer's step: the loop stays where it is, and so does its request.   *)
LEMMA WriterStepTInv ==
    ASSUME TInv, NEW w \in Writers, NEW from, NEW to \in Labels, Step(w, from, to),
           file' \in Catalogs, payload' \in [Actors -> Catalogs],
           current' \subseteq Actors, pending' \in BOOLEAN, idle' \in BOOLEAN
    PROVE  TInv'
<1> USE RemoversDoNotWrite DEF TInv
<1>1. pc' = [pc EXCEPT ![w] = to] /\ UNCHANGED <<reg, fileLock, arg, ops>>
  BY DEF Step, GoTo
<1>2. pc \in [Actors -> Labels]
  BY DEF TypeOK
<1>3. pc' \in [Actors -> Labels] /\ pc'[Loop] = pc[Loop]
  BY <1>1, <1>2
<1>4. TypeOK'
  BY <1>1, <1>3 DEF TypeOK
<1>5. ArgOK'
  BY <1>1, <1>3 DEF ArgOK
<1> QED BY <1>4, <1>5

LEMMA WriteTInv ==
    ASSUME TInv, NEW w \in Writers, Write(w) PROVE TInv'
<1> USE RemoversDoNotWrite DEF TInv, Labels
<1>0. /\ file \in Catalogs /\ payload \in [Actors -> Catalogs] /\ reg \in Catalogs
      /\ current \subseteq Actors /\ pending \in BOOLEAN /\ idle \in BOOLEAN
      /\ Empty \in Catalogs
  BY DEF TypeOK, Empty, Catalogs
<1>1. CASE WriterStarts(w)
  BY <1>0, <1>1, WriterStepTInv DEF WriterStarts
<1>2. CASE WriterReadsGeneration(w)
  BY <1>0, <1>2, WriterStepTInv DEF WriterReadsGeneration
<1>3. CASE WriterCopies(w)
  BY <1>0, <1>3, WriterStepTInv DEF WriterCopies
<1>4. ASSUME NEW ok \in WriteOutcomes, WriterWrites(w, ok) PROVE TInv'
  <2>1. payload' \in [Actors -> Catalogs] /\ UNCHANGED <<current, pending, idle>>
    BY <1>0, <1>4 DEF WriterWrites
  <2>2. CASE Step(w, "try", "check") /\ file' = payload[w]
    BY <1>0, <2>1, <2>2, WriterStepTInv
  <2>3. CASE Step(w, "try", "read") /\ UNCHANGED file
    BY <1>0, <2>1, <2>3, WriterStepTInv
  <2> QED BY <1>4, <2>2, <2>3 DEF WriterWrites
<1>5. CASE WriterChecks(w)
  BY <1>0, <1>5, WriterStepTInv DEF WriterChecks
<1>6. CASE WriterFinishes(w)
  BY <1>0, <1>6, WriterStepTInv DEF WriterFinishes
<1>7. CASE WriterLeaves(w)
  BY <1>0, <1>7, WriterStepTInv DEF WriterLeaves
<1> QED BY <1>1, <1>2, <1>3, <1>4, <1>5, <1>6, <1>7 DEF Write

(* A step of the loop or the scheduler.                                    *)
LEMMA RemoverPcTInv ==
    ASSUME TInv, NEW t \in Removers, NEW to \in Labels, GoTo(t, to)
    PROVE  /\ pc' \in [Actors -> Labels] /\ pc'[t] = to
           /\ \A a \in Actors \ {t} : pc'[a] = pc[a]
           /\ Loop \in Actors
BY RemoversDoNotWrite DEF TInv, TypeOK, GoTo, Actors

LEMMA RemoveTInv ==
    ASSUME TInv, NEW t \in Removers, Remove(t) PROVE TInv'
<1> USE RemoversDoNotWrite DEF TInv, Labels
<1>0. /\ file \in Catalogs /\ payload \in [Actors -> Catalogs] /\ reg \in Catalogs
      /\ Empty \in Catalogs /\ t \in Actors /\ (t = Loop \/ t # Loop)
  BY DEF TypeOK, Empty, Catalogs, Removers
<1>1. CASE RemoverWaits(t)
  <2>1. GoTo(t, "bump") /\ pc[t] = "wait"
    BY <1>1 DEF RemoverWaits, At
  <2>2. UNCHANGED <<reg, file, current, pending, idle, fileLock, arg, payload, ops>>
    BY <1>1 DEF RemoverWaits
  <2> QED BY <1>0, <2>1, <2>2, RemoverPcTInv DEF TypeOK, ArgOK
<1>2. CASE RemoverBumps(t)
  <2>1. GoTo(t, "delete") /\ pc[t] = "bump" /\ current' = {t}
    BY <1>2 DEF RemoverBumps, At
  <2>2. UNCHANGED <<reg, file, pending, idle, fileLock, arg, payload, ops>>
    BY <1>2 DEF RemoverBumps
  <2> QED BY <1>0, <2>1, <2>2, RemoverPcTInv DEF TypeOK, ArgOK
<1>3. CASE RemoverDeletes(t)
  <2>1. UNCHANGED <<file, current, pending, idle, ops>>
    BY <1>3 DEF RemoverDeletes
  <2>2. arg' = IF t = Loop THEN NoRequest ELSE arg
    BY <1>3 DEF RemoverDeletes
  <2>3. CASE Doomed(t) = {} /\ GoTo(t, "idle") /\ UNCHANGED <<reg, fileLock, payload>>
    BY <1>0, <2>1, <2>2, <2>3, RemoverPcTInv DEF TypeOK, ArgOK
  <2>4. CASE /\ Doomed(t) # {}
             /\ reg' = [k \in Keys |-> IF k \in Doomed(t) THEN None ELSE reg[k]]
             /\ payload' = [payload EXCEPT ![t] = reg']
             /\ fileLock' = t
             /\ GoTo(t, "write")
    <3>1. reg' \in Catalogs
      BY <1>0, <2>4 DEF Catalogs
    <3>2. payload' \in [Actors -> Catalogs]
      BY <1>0, <2>4, <3>1
    <3> QED BY <1>0, <2>1, <2>2, <2>4, <3>1, <3>2, RemoverPcTInv DEF TypeOK, ArgOK
  <2> QED BY <1>3, <2>3, <2>4 DEF RemoverDeletes
<1>4. ASSUME NEW ok \in WriteOutcomes, RemoverWrites(t, ok) PROVE TInv'
  <2>1. /\ GoTo(t, "idle") /\ pc[t] = "write" /\ fileLock' = None
        /\ UNCHANGED <<reg, current, pending, idle, arg, ops>>
    BY <1>4 DEF RemoverWrites, At
  <2>2. payload' \in [Actors -> Catalogs] /\ file' \in Catalogs
    BY <1>0, <1>4 DEF RemoverWrites
  <2> QED BY <1>0, <2>1, <2>2, RemoverPcTInv DEF TypeOK, ArgOK
<1> QED BY <1>1, <1>2, <1>3, <1>4 DEF Remove

(* Accepting a request.                                                    *)
LEMMA AcceptTInv ==
    ASSUME TInv, NEW k \in Keys, NEW e, Fresh(e), Accept(k, e), ops' \in 0 .. MaxOps
    PROVE  TInv'
<1> USE RemoversDoNotWrite DEF TInv, Labels
<1>1. arg'.key = k /\ arg'.entry = e
  BY DEF Accept, NoRequest
<1>2. GoTo(Loop, "upsert") /\ UNCHANGED <<reg, file, current, pending, idle, fileLock, payload>>
  BY DEF Accept
<1>3. Loop \in Removers
  BY DEF Removers
<1> QED BY <1>1, <1>2, <1>3, RemoverPcTInv DEF TypeOK, ArgOK

LEMMA StepTInv == TInv /\ [Next]_vars => TInv'
<1> SUFFICES ASSUME TInv, [Next]_vars PROVE TInv'
  OBVIOUS
<1> USE RemoversDoNotWrite DEF TInv
<1>0. /\ reg \in Catalogs /\ file \in Catalogs /\ Loop \in Removers /\ Scheduler \in Removers
      /\ ops \in 0 .. MaxOps /\ pc \in [Actors -> Labels]
  BY DEF TypeOK, Removers
<1>1. Counted => ops' \in 0 .. MaxOps
  BY <1>0, RegistryAssumption DEF Counted
<1>2. ASSUME NEW k \in Keys, NEW c \in Contents, NEW i \in Instances, RegisterFull(k, c, i)
      PROVE  TInv'
  <2>1. Fresh(Registered(c, i))
    BY DEF Fresh
  <2> QED BY <1>1, <1>2, <2>1, AcceptTInv DEF RegisterFull
<1>3. ASSUME NEW k \in Keys, NEW i \in Instances, Heartbeat(k, i)
      PROVE  TInv'
  <2>1. reg[k] \in Entry
    BY <1>0, <1>3 DEF Heartbeat, Catalogs
  <2>2. Fresh(Registered(reg[k].content, i))
    BY <2>1 DEF Fresh, Entry
  <2> QED BY <1>0, <1>3, <2>2, AcceptTInv DEF Heartbeat
<1>4. CASE Upsert
  <2>1. GoTo(Loop, "schedule") /\ reg' \in Catalogs
    BY <1>0, <1>4, FreshIsEntry DEF Upsert, At, ArgOK, Catalogs
  <2> QED BY <1>0, <1>4, <2>1, RemoverPcTInv DEF Upsert, TypeOK, ArgOK, Labels
<1>5. CASE Schedule
  <2>1. /\ pc' \in [Actors -> Labels] /\ pc'[Loop] = "idle"
        /\ current' = {} /\ pending' = TRUE /\ arg' = NoRequest
        /\ UNCHANGED <<reg, file, idle, fileLock, payload, ops>>
    <3>1. CASE pending /\ GoTo(Loop, "idle")
      BY <1>0, <1>5, <3>1, RemoverPcTInv DEF Schedule, Labels
    <3>2. ASSUME NEW w \in Writers, pc' = [pc EXCEPT ![Loop] = "idle", ![w] = "start"]
          PROVE  pc' \in [Actors -> Labels] /\ pc'[Loop] = "idle"
      BY <1>0, <3>2 DEF Labels
    <3> QED BY <1>5, <3>1, <3>2 DEF Schedule
  <2> QED BY <2>1 DEF TypeOK, ArgOK
<1>6. ASSUME NEW w \in Writers, Write(w) PROVE TInv'
  BY <1>6, WriteTInv
<1>7. ASSUME NEW k \in Keys, NEW i \in Instances, Deregister(k, i) PROVE TInv'
  <2>1. arg'.key = k /\ arg'.by = i
    BY <1>7 DEF Deregister, NoRequest
  <2>2. GoTo(Loop, "wait") /\ UNCHANGED <<reg, file, current, pending, idle, fileLock, payload>>
    BY <1>7 DEF Deregister
  <2>3. ops' \in 0 .. MaxOps
    BY <1>1, <1>7 DEF Deregister
  <2> QED BY <1>0, <2>1, <2>2, <2>3, RemoverPcTInv DEF TypeOK, ArgOK, Labels
<1>8. CASE Prune
  <2>1. GoTo(Scheduler, "wait") /\ ops' \in 0 .. MaxOps
        /\ UNCHANGED <<reg, file, current, pending, idle, fileLock, arg, payload>>
    BY <1>1, <1>8 DEF Prune
  <2>2. Loop # Scheduler
    BY RegistryAssumption
  <2> QED BY <1>0, <2>1, <2>2, RemoverPcTInv DEF TypeOK, ArgOK, Labels
<1>9. ASSUME NEW t \in Removers, Remove(t) PROVE TInv'
  BY <1>9, RemoveTInv
<1>10. CASE Load
  <2>1. reg' \in Catalogs
    BY <1>0, <1>10, MergedIsEntry DEF Load, Catalogs
  <2> QED BY <1>1, <1>10, <2>1 DEF Load, TypeOK, ArgOK
<1>11. ASSUME NEW k \in Keys, Expire(k) PROVE TInv'
  <2>1. reg' \in Catalogs
    BY <1>0, <1>11 DEF Expire, Catalogs, Entry
  <2> QED BY <1>1, <1>11, <2>1 DEF Expire, TypeOK, ArgOK
<1>12. CASE Crash
  <2>1. pc' \in [Actors -> Labels] /\ pc'[Loop] = "boot"
    BY <1>12, RegistryAssumption DEF Crash, AtRest, Labels
  <2>2. payload' \in [Actors -> Catalogs] /\ reg' \in Catalogs
    BY <1>12 DEF Crash, Empty, Catalogs
  <2>3. TypeOK'
    BY <1>0, <1>12, <2>1, <2>2 DEF Crash, TypeOK
  <2> QED BY <1>12, <2>1, <2>3 DEF Crash, ArgOK
<1>14. CASE Boot
  <2>1. reg' \in Catalogs
    BY <1>0, <1>14, MergedIsEntry DEF Boot, Catalogs
  <2>2. pc' \in [Actors -> Labels] /\ pc'[Loop] = "idle"
    BY <1>0, <1>14, RegistryAssumption DEF Boot, Labels
  <2>3. arg' = NoRequest
    BY <1>14 DEF Boot, At, ArgOK
  <2>4. TypeOK'
    BY <1>14, <2>1, <2>2 DEF Boot, TypeOK
  <2> QED BY <2>2, <2>3, <2>4 DEF ArgOK
<1>13. CASE UNCHANGED vars
  BY <1>13 DEF vars, TypeOK, ArgOK
<1> QED
  BY <1>2, <1>3, <1>4, <1>5, <1>6, <1>7, <1>8, <1>9, <1>10, <1>11, <1>12, <1>13,
     <1>14
     DEF Next, Beat

(* Types: entries are entries on disk, in memory and in every thread's     *)
(* payload, whoever wrote them.                                            *)
THEOREM TypeCorrect == Spec => []TypeOK
<1>1. TInv => TypeOK
  BY DEF TInv
<1> QED BY <1>1, InitTInv, StepTInv, PTL DEF Spec

-----------------------------------------------------------------------------
(* The registry implements its service: each step is a step of the service *)
(* or leaves the entries, the request and the daemon's being up alone.     *)

Service == Contract!service

(* A step of the scheduler or a writer is none of the loop.                *)
LEMMA LoopStays ==
    ASSUME TInv, NEW a \in Actors \ {Loop}, NEW to, GoTo(a, to)
    PROVE  pc'[Loop] = pc[Loop]
BY RemoversDoNotWrite DEF TInv, TypeOK, GoTo

LEMMA LoopGoes ==
    ASSUME TInv, NEW to, GoTo(Loop, to) PROVE pc'[Loop] = to
BY RemoversDoNotWrite DEF TInv, TypeOK, GoTo

LEMMA WriteIsStutter ==
    ASSUME TInv, NEW w \in Writers, Write(w) PROVE UNCHANGED Service
<1>1. \E from, to : Step(w, from, to)
  BY DEF Write, WriterStarts, WriterReadsGeneration, WriterCopies, WriterWrites,
         WriterChecks, WriterFinishes, WriterLeaves
<1>2. PICK to : GoTo(w, to) /\ UNCHANGED <<reg, arg>>
  BY <1>1 DEF Step
<1>3. pc'[Loop] = pc[Loop]
  BY <1>2, LoopStays, RemoversDoNotWrite
<1> QED BY <1>2, <1>3 DEF Service, Contract!service, At

(* A removal by the loop carries out a goodbye.                            *)
LEMMA LoopRemovalIsService ==
    ASSUME TInv, RemoverDeletes(Loop) PROVE Contract!Next
<1>1. pc[Loop] = "delete" /\ arg.key \in Keys /\ arg.by \in Instances /\ arg' = NoRequest
  BY DEF RemoverDeletes, At, TInv, ArgOK
<1>2. reg \in Catalogs
  BY DEF TInv, TypeOK
<1>3. pc'[Loop] \in {"idle", "write"}
  BY LoopGoes DEF RemoverDeletes
<1>4. CASE Doomed(Loop) = {}
  <2>1. arg.key \notin Doomed(Loop) /\ UNCHANGED reg
    BY <1>4 DEF RemoverDeletes
  <2>2. reg[arg.key] # None => reg[arg.key].by # arg.by
    BY <1>1, <2>1 DEF Doomed
  <2>3. Contract!ServeRelease
    BY <1>1, <1>3, <2>1, <2>2 DEF Contract!ServeRelease, Contract!NoRequest, NoRequest, At
  <2> QED BY <2>3 DEF Contract!Next
<1>5. CASE Doomed(Loop) # {}
  <2>1. reg' = [k \in Keys |-> IF k \in Doomed(Loop) THEN None ELSE reg[k]]
    BY <1>5 DEF RemoverDeletes
  <2>2. arg.key \in Doomed(Loop) /\ \A k \in Doomed(Loop) : k = arg.key
    BY <1>5 DEF Doomed
  <2>3. reg[arg.key] # None /\ reg[arg.key].by = arg.by
    BY <2>2 DEF Doomed
  <2>4. reg' = [reg EXCEPT ![arg.key] = None]
    BY <1>1, <1>2, <2>1, <2>2 DEF Catalogs
  <2>5. Contract!Release(arg.key, arg.by)
    BY <2>3, <2>4 DEF Contract!Release
  <2>6. Contract!ServeRelease
    BY <1>1, <1>3, <2>5 DEF Contract!ServeRelease, Contract!NoRequest, NoRequest, At
  <2> QED BY <2>6 DEF Contract!Next
<1> QED BY <1>4, <1>5

(* A removal by the scheduler reclaims what is past its TTL.               *)
LEMMA PruneIsService ==
    ASSUME TInv, RemoverDeletes(Scheduler) PROVE [Contract!Next]_Service
<1>0. Scheduler \in Actors \ {Loop} /\ Scheduler # Loop
  BY RemoversDoNotWrite, RegistryAssumption
<1>1. UNCHANGED arg /\ pc'[Loop] = pc[Loop]
  BY <1>0, LoopStays DEF RemoverDeletes
<1>2. CASE Doomed(Scheduler) = {}
  BY <1>1, <1>2 DEF RemoverDeletes, Service, Contract!service, At
<1>3. CASE Doomed(Scheduler) # {}
  <2>1. reg' = [k \in Keys |-> IF k \in Doomed(Scheduler) THEN None ELSE reg[k]]
    BY <1>3 DEF RemoverDeletes
  <2>2. \A k \in Keys : k \in Doomed(Scheduler) <=> Contract!Lapsed(reg[k])
    BY <1>0 DEF Doomed, Contract!Lapsed
  <2>3. Contract!Reclaim
    BY <2>1, <2>2 DEF Contract!Reclaim
  <2>4. Contract!Background
    BY <1>1, <2>3 DEF Contract!Background, At
  <2> QED BY <2>4 DEF Contract!Next
<1> QED BY <1>2, <1>3

LEMMA RemovalIsService ==
    ASSUME TInv, NEW t \in Removers, Remove(t) PROVE [Contract!Next]_Service
<1>1. CASE RemoverDeletes(t)
  BY <1>1, LoopRemovalIsService, PruneIsService DEF Removers
<1>2. CASE ~RemoverDeletes(t)
  <2>1. UNCHANGED <<reg, arg>>
    BY <1>2 DEF Remove, RemoverWaits, RemoverBumps, RemoverWrites
  <2>2. CASE t = Loop
    <3>1. pc[Loop] \in {"wait", "bump", "write"} /\ pc'[Loop] \in {"bump", "delete", "idle"}
      BY <1>2, <2>2, LoopGoes DEF Remove, RemoverWaits, RemoverBumps, RemoverWrites, At
    <3> QED BY <2>1, <3>1 DEF Service, Contract!service, At
  <2>3. CASE t # Loop
    <3>1. pc'[Loop] = pc[Loop]
      BY <1>2, <2>3, LoopStays, RemoversDoNotWrite
         DEF Remove, RemoverWaits, RemoverBumps, RemoverWrites, Removers, Actors
    <3> QED BY <2>1, <3>1 DEF Service, Contract!service, At
  <2> QED BY <2>2, <2>3
<1> QED BY <1>1, <1>2

(* Asking for a push, whether it comes with tools or as a heartbeat.       *)
LEMMA AcceptIsService ==
    ASSUME TInv, NEW k \in Keys, NEW c \in Contents, NEW i \in Instances,
           At(Loop, "idle"), Accept(k, Registered(c, i))
    PROVE  Contract!Next
<1>1. arg = NoRequest /\ pc'[Loop] = "upsert" /\ UNCHANGED reg
  BY LoopGoes DEF Accept, At, TInv, ArgOK
<1>2. arg' = [NoRequest EXCEPT !.key = k, !.entry = Contract!Live(c, i)]
  BY DEF Accept, Registered, Contract!Live
<1>3. Contract!AskPush(k, c, i)
  BY <1>1, <1>2 DEF Contract!AskPush, Contract!NoRequest, NoRequest, At
<1> QED BY <1>3 DEF Contract!Next

LEMMA StepIsService == TInv /\ [Next]_vars => [Contract!Next]_Service
<1> SUFFICES ASSUME TInv, [Next]_vars PROVE [Contract!Next]_Service
  OBVIOUS
<1>0. reg \in Catalogs /\ file \in Catalogs
  BY DEF TInv, TypeOK
<1>1. CASE Upsert
  <2>1. PICK c \in Contents, i \in Instances : arg.entry = Registered(c, i)
    BY <1>1 DEF Upsert, At, TInv, ArgOK, Fresh
  <2>2. pc[Loop] = "upsert" /\ pc'[Loop] = "schedule" /\ UNCHANGED arg
    BY <1>1, LoopGoes DEF Upsert, At
  <2>3. Contract!Grant(arg.key, c, i)
    BY <1>1, <2>1 DEF Upsert, Contract!Grant, Contract!Live, Registered
  <2>4. Contract!ServePush(c, i)
    BY <2>1, <2>2, <2>3 DEF Contract!ServePush, Contract!Live, Registered, At
  <2> QED BY <2>4 DEF Contract!Next
<1>2. CASE Schedule
  <2>1. pc[Loop] = "schedule" /\ arg' = NoRequest /\ UNCHANGED reg
    BY <1>2 DEF Schedule, At
  <2>2. pc'[Loop] = "idle"
    BY <1>2, LoopGoes, RemoversDoNotWrite DEF Schedule, TInv, TypeOK
  <2>3. Contract!AnswerPush
    BY <2>1, <2>2 DEF Contract!AnswerPush, Contract!NoRequest, NoRequest, At
  <2> QED BY <2>3 DEF Contract!Next
<1>3. ASSUME NEW k \in Keys, NEW c \in Contents, NEW i \in Instances, RegisterFull(k, c, i)
      PROVE  Contract!Next
  BY <1>3, AcceptIsService DEF RegisterFull
<1>4. ASSUME NEW k \in Keys, NEW i \in Instances, Heartbeat(k, i) PROVE Contract!Next
  <2>1. reg[k].content \in Contents
    BY <1>0, <1>4 DEF Heartbeat, Catalogs, Entry
  <2> QED BY <1>4, <2>1, AcceptIsService DEF Heartbeat
<1>5. ASSUME NEW k \in Keys, NEW i \in Instances, Deregister(k, i) PROVE Contract!Next
  <2>1. arg = NoRequest /\ pc[Loop] = "idle" /\ pc'[Loop] = "wait"
    BY <1>5, LoopGoes DEF Deregister, At, TInv, ArgOK
  <2>2. Contract!AskRelease(k, i)
    BY <1>5, <2>1 DEF Deregister, Contract!AskRelease, Contract!NoRequest, NoRequest, At
  <2> QED BY <2>2 DEF Contract!Next
<1>6. CASE Prune
  <2>1. UNCHANGED <<reg, arg>> /\ pc'[Loop] = pc[Loop]
    BY <1>6, LoopStays, RemoversDoNotWrite, RegistryAssumption DEF Prune
  <2> QED BY <2>1 DEF Service, Contract!service, At
<1>7. ASSUME NEW t \in Removers, Remove(t) PROVE [Contract!Next]_Service
  BY <1>7, RemovalIsService
<1>8. ASSUME NEW w \in Writers, Write(w) PROVE UNCHANGED Service
  BY <1>8, WriteIsStutter
<1>9. CASE Load
  <2>1. \A k \in Keys : \/ reg'[k] = reg[k]
                        \/ /\ reg[k] = None \/ reg[k].stale
                           /\ Contract!IsFallback(reg'[k])
    BY <1>0, <1>9, FromDiskIsFallback
       DEF Load, Merged, Catalogs, Contract!IsFallback, Contract!Entry, Entry
  <2>2. Contract!FallBack
    BY <1>9, <2>1 DEF Load, Contract!FallBack
  <2>3. Contract!Background
    BY <1>9, <2>2 DEF Load, Contract!Background, At
  <2> QED BY <2>3 DEF Contract!Next
<1>10. ASSUME NEW k \in Keys, Expire(k) PROVE Contract!Next
  <2>1. Contract!Age(k)
    BY <1>10 DEF Expire, Contract!Age
  <2>2. Contract!Background
    BY <1>10, <2>1 DEF Expire, Contract!Background, At
  <2> QED BY <2>2 DEF Contract!Next
<1>11. CASE Crash
  <2>1. pc'[Loop] = "boot"
    BY <1>11, RemoversDoNotWrite, RegistryAssumption DEF Crash, AtRest
  <2>2. Contract!GoDown
    BY <1>11, <2>1 DEF Crash, Empty, Contract!GoDown, Contract!NoRequest, NoRequest, At
  <2> QED BY <2>2 DEF Contract!Next
<1>12. CASE Boot
  <2>1. pc[Loop] = "boot" /\ UNCHANGED arg
    BY <1>12 DEF Boot, At
  <2>2. pc'[Loop] = "idle"
    BY <1>12, RemoversDoNotWrite, RegistryAssumption DEF Boot, TInv, TypeOK
  <2>3. \A k \in Keys : \/ reg'[k] = reg[k]
                        \/ /\ reg[k] = None \/ reg[k].stale
                           /\ Contract!IsFallback(reg'[k])
    BY <1>0, <1>12, FromDiskIsFallback
       DEF Boot, Merged, Catalogs, Contract!IsFallback, Contract!Entry, Entry
  <2>4. Contract!FallBack
    BY <1>12, <2>3 DEF Boot, Contract!FallBack
  <2>5. Contract!ComeUp
    BY <2>1, <2>2, <2>4 DEF Contract!ComeUp, At
  <2> QED BY <2>5 DEF Contract!Next
<1>13. CASE UNCHANGED vars
  BY <1>13 DEF vars, Service, Contract!service, At
<1> QED
  BY <1>1, <1>2, <1>3, <1>4, <1>5, <1>6, <1>7, <1>8, <1>9, <1>10, <1>11, <1>12, <1>13
     DEF Next, Beat

(* The threaded registry with its file implements RegistryService.         *)
THEOREM ContractKept == Spec => KeepsContract
<1>1. Init => Contract!Init
  BY RemoversDoNotWrite
     DEF Init, AtRest, Empty, Contract!Init, Contract!NoRequest, NoRequest, At
<1> QED
  BY <1>1, InitTInv, StepTInv, StepIsService, PTL
     DEF Spec, KeepsContract, Contract!Spec, Service
-----------------------------------------------------------------------------
(* The pushes of the runtimes.                                             *)

\* A request, and an answer that is yet to be noted down, is about a catalog.
Carrying(t) == t.at \in {"hash sent", "full sent", "stored"} => t.body \in ToolSets

PushInv ==
    /\ PushTypeOK
    /\ \A r \in Runtimes, p \in Pushers : Carrying(push[r][p])

\* A thread that holds nothing yet, or nothing any more.
LEMMA IdlePush ==
    ASSUME NEW at \in {"off", "wait", "decide", "hash", "full", "returned", "failed"}
    PROVE  Idle(at) \in Push /\ Carrying(Idle(at))
BY DEF Idle, Push, Carrying

\* A thread that moves to a sound place leaves all of them sound.
LEMMA MovesSoundly ==
    ASSUME PushInv, NEW r \in Runtimes, NEW p \in Pushers, NEW from, NEW next \in Push,
           Carrying(next), Moves(r, p, from, next)
    PROVE  /\ push' \in [Runtimes -> [Pushers -> Push]]
           /\ \A i \in Runtimes, q \in Pushers : Carrying(push'[i][q])
<1>1. push \in [Runtimes -> [Pushers -> Push]]
  BY DEF PushInv, PushTypeOK
<1>2. push' = [push EXCEPT ![r][p] = next]
  BY DEF Moves
<1>3. push' \in [Runtimes -> [Pushers -> Push]]
  BY <1>1, <1>2
<1>4. ASSUME NEW i \in Runtimes, NEW q \in Pushers
      PROVE  push'[i][q] = next \/ push'[i][q] = push[i][q]
  BY <1>1, <1>2
<1> QED BY <1>3, <1>4 DEF PushInv

\* What the answer to a request does to the thread, whose process may be gone.
LEMMA AnsweredSoundly ==
    ASSUME NEW r, NEW next \in Push, Carrying(next)
    PROVE  Answered(r, next) \in Push /\ Carrying(Answered(r, next))
BY IdlePush DEF Answered

\* The daemon grants a lease on a catalog.
LEMMA GrantIsLease ==
    ASSUME leases \in [{Key} -> Daemon!Entry \cup {Nothing}],
           NEW c \in ToolSets, NEW r \in Runtimes, Daemon!Grant(Key, c, r)
    PROVE  leases' \in [{Key} -> Daemon!Entry \cup {Nothing}]
<1>1. Daemon!Live(c, r) \in Daemon!Entry
  BY DEF Daemon!Live, Daemon!Entry
<1> QED BY <1>1 DEF Daemon!Grant

\* A new runtime, and no lease.
LEMMA InitPushInv == PushInit => PushInv
<1> SUFFICES ASSUME PushInit PROVE PushInv
  OBVIOUS
<1>1. Idle("off") \in Push /\ Carrying(Idle("off"))
  BY IdlePush
<1>2. /\ push = [r \in Runtimes |-> [p \in Pushers |-> Idle("off")]]
      /\ leases = [k \in {Key} |-> Nothing]
  BY DEF PushInit
<1>3. push \in [Runtimes -> [Pushers -> Push]]
  BY <1>1, <1>2
<1>4. leases \in [{Key} -> Daemon!Entry \cup {Nothing}]
  BY <1>2
<1>5. PushTypeOK
  BY <1>3, <1>4, PushAssumption DEF PushInit, PushTypeOK
<1> QED BY <1>1, <1>2, <1>5 DEF PushInv

\* What one thread of a runtime does: one step per place it may be at.
LEMMA ThreadKeepsPushInv ==
    ASSUME PushInv, NEW r \in Runtimes, NEW p \in Pushers,
           PushStep(r, p) \/ Lose(r, p) \/ ReloadRaises(r, p)
    PROVE  PushInv'
<1> USE DEF permissions, daemonVars, runtimeVars
<1>1. /\ leases \in [{Key} -> Daemon!Entry \cup {Nothing}]
      /\ rules \in SUBSET Deniable
      /\ revision \in Nat /\ saved \in Nat /\ snapshots \subseteq Nat /\ missed \subseteq Runtimes
      /\ proc \in [Runtimes -> {"new", "up", "leaving", "joining", "gone"}]
      /\ cache \in [Runtimes -> SUBSET Tools] /\ deny \in [Runtimes -> SUBSET Deniable]
      /\ refresh \in [Runtimes -> {Nothing} \cup SUBSET Deniable]
      /\ lastHash \in [Runtimes -> {Nothing} \cup ToolSets]
      /\ lastRevision \in [Runtimes -> Nat]
      /\ push \in [Runtimes -> [Pushers -> Push]]
      /\ events \in 0 .. MaxEvents
  BY DEF PushInv, PushTypeOK
<1>2. push[r][p] \in Push /\ Carrying(push[r][p])
  BY <1>1 DEF PushInv
<1>3. /\ push[r][p].body \in {Nothing} \cup ToolSets /\ push[r][p].seen \in Nat
      /\ push[r][p].at \in {"hash sent", "full sent", "stored"} => push[r][p].body \in ToolSets
  BY <1>2 DEF Push, Carrying
<1>4. Done(p) \in Push /\ Carrying(Done(p))
  BY IdlePush DEF Done
\* A step that moves nothing but the thread.
<1>5. ASSUME NEW from, NEW next \in Push, Carrying(next), Moves(r, p, from, next),
             UNCHANGED <<leases, daemonVars, proc, runtimeVars, events>>
      PROVE  PushInv'
  BY <1>1, <1>5, MovesSoundly DEF PushInv, PushTypeOK
<1>6. CASE Decide(r, p)
  <2>1. PICK at \in {"failed", "hash", "full"} : Moves(r, p, "decide", Idle(at))
    BY <1>6 DEF Decide
  <2> QED BY <1>5, <1>6, <2>1, IdlePush DEF Decide
<1>7. CASE Post(r, p)
  <2>1. cache[r] \in ToolSets
    BY <1>1, <1>7 DEF Post, ToolSets
  <2>2. ASSUME NEW at \in {"hash sent", "full sent"}
        PROVE  /\ [Idle(at) EXCEPT !.body = cache[r]] \in Push
               /\ Carrying([Idle(at) EXCEPT !.body = cache[r]])
    BY <2>1 DEF Idle, Push, Carrying
  <2> QED BY <1>5, <1>7, <2>2 DEF Post
<1>8. CASE HandleHash(r, p)
  <2> DEFINE c == push[r][p].body
             next == [at |-> "returned", body |-> c, seen |-> revision]
  <2>1. CASE /\ Known(c) /\ Moves(r, p, "hash sent", Answered(r, next))
             /\ Daemon!Grant(Key, c, r)
    <3>1. c \in ToolSets
      BY <1>3, <2>1 DEF Moves
    <3>2. next \in Push /\ Carrying(next)
      BY <1>1, <3>1 DEF Push, Carrying
    <3>3. Answered(r, next) \in Push /\ Carrying(Answered(r, next))
      BY <3>2, AnsweredSoundly
    <3>4. leases' \in [{Key} -> Daemon!Entry \cup {Nothing}]
      BY <1>1, <2>1, <3>1, GrantIsLease
    <3>5. /\ push' \in [Runtimes -> [Pushers -> Push]]
          /\ \A i \in Runtimes, q \in Pushers : Carrying(push'[i][q])
      BY <2>1, <3>3, MovesSoundly
    <3> QED BY <1>1, <1>8, <3>4, <3>5 DEF HandleHash, PushInv, PushTypeOK
  <2>2. CASE /\ ~Known(c) /\ Moves(r, p, "hash sent", Answered(r, Idle("full")))
             /\ UNCHANGED leases
    <3>1. Answered(r, Idle("full")) \in Push /\ Carrying(Answered(r, Idle("full")))
      BY IdlePush, AnsweredSoundly
    <3> QED BY <1>5, <1>8, <2>2, <3>1 DEF HandleHash
  <2> QED BY <1>8, <2>1, <2>2 DEF HandleHash
<1>9. CASE HandleFull(r, p)
  <2> DEFINE c == push[r][p].body
             next == [at |-> "stored", body |-> c, seen |-> revision]
  <2>1. Moves(r, p, "full sent", Answered(r, next)) /\ Daemon!Grant(Key, c, r)
    BY <1>9 DEF HandleFull
  <2>2. c \in ToolSets
    BY <1>3, <2>1 DEF Moves
  <2>3. next \in Push /\ Carrying(next)
    BY <1>1, <2>2 DEF Push, Carrying
  <2>4. Answered(r, next) \in Push /\ Carrying(Answered(r, next))
    BY <2>3, AnsweredSoundly
  <2>5. leases' \in [{Key} -> Daemon!Entry \cup {Nothing}]
    BY <1>1, <2>1, <2>2, GrantIsLease
  <2>6. /\ push' \in [Runtimes -> [Pushers -> Push]]
        /\ \A i \in Runtimes, q \in Pushers : Carrying(push'[i][q])
    BY <2>1, <2>4, MovesSoundly
  <2> QED BY <1>1, <1>9, <2>5, <2>6 DEF HandleFull, PushInv, PushTypeOK
<1>10. CASE Lose(r, p)
  <2>1. Answered(r, Idle("failed")) \in Push /\ Carrying(Answered(r, Idle("failed")))
    BY IdlePush, AnsweredSoundly
  <2>2. Moves(r, p, push[r][p].at, Answered(r, Idle("failed")))
    BY <1>10 DEF Lose, Moves
  <2>3. push[r][p].body \in ToolSets
    BY <1>3, <1>10 DEF Lose, Sent
  <2>4. leases' \in [{Key} -> Daemon!Entry \cup {Nothing}]
    BY <1>1, <1>10, <2>3, GrantIsLease DEF Lose
  <2>5. /\ push' \in [Runtimes -> [Pushers -> Push]]
        /\ \A i \in Runtimes, q \in Pushers : Carrying(push'[i][q])
    BY <2>1, <2>2, MovesSoundly
  <2>6. events' \in 0 .. MaxEvents
    <3>1. Mishap
      BY <1>10 DEF Lose
    <3> QED BY <1>1, <3>1, PushAssumption DEF Mishap
  <2> QED BY <1>1, <1>10, <2>4, <2>5, <2>6 DEF Lose, PushInv, PushTypeOK
<1>11. CASE Stored(r, p)
  <2> DEFINE next == [push[r][p] EXCEPT !.at = "returned"]
  <2>1. Moves(r, p, "stored", next) /\ lastHash' = [lastHash EXCEPT ![r] = push[r][p].body]
    BY <1>11 DEF Stored
  <2>2. push[r][p].body \in ToolSets
    BY <1>3, <2>1 DEF Moves
  <2>3. next \in Push /\ Carrying(next)
    BY <1>2 DEF Push, Carrying
  <2>4. /\ push' \in [Runtimes -> [Pushers -> Push]]
        /\ \A i \in Runtimes, q \in Pushers : Carrying(push'[i][q])
    BY <2>1, <2>3, MovesSoundly
  <2>5. lastHash' \in [Runtimes -> {Nothing} \cup ToolSets]
    BY <1>1, <2>1, <2>2
  <2> QED BY <1>1, <1>11, <2>4, <2>5 DEF Stored, PushInv, PushTypeOK
<1>12. CASE SameRevision(r, p)
  BY <1>4, <1>5, <1>12 DEF SameRevision
<1>13. CASE Reload(r, p)
  <2>1. /\ push' \in [Runtimes -> [Pushers -> Push]]
        /\ \A i \in Runtimes, q \in Pushers : Carrying(push'[i][q])
    BY <1>4, <1>13, MovesSoundly DEF Reload
  <2>2. lastRevision' \in [Runtimes -> Nat] /\ deny' \in [Runtimes -> SUBSET Deniable]
    BY <1>1, <1>3, <1>13 DEF Reload
  <2>3. cache' \in [Runtimes -> SUBSET Tools]
    BY <1>1, <1>13 DEF Reload, Filtered
  <2>4. lastHash' \in [Runtimes -> {Nothing} \cup ToolSets]
    BY <1>1, <1>13 DEF Reload
  <2>5. missed' \subseteq Runtimes
    BY <1>1, <1>13 DEF Reload
  <2> QED BY <1>1, <1>13, <2>1, <2>2, <2>3, <2>4, <2>5 DEF Reload, PushInv, PushTypeOK
<1>14. CASE ReloadRaises(r, p)
  <2>1. /\ push' \in [Runtimes -> [Pushers -> Push]]
        /\ \A i \in Runtimes, q \in Pushers : Carrying(push'[i][q])
    BY <1>4, <1>14, MovesSoundly DEF ReloadRaises
  <2>2. lastRevision' \in [Runtimes -> Nat]
    BY <1>1, <1>3, <1>14 DEF ReloadRaises
  <2>3. events' \in 0 .. MaxEvents
    BY <1>1, <1>14, PushAssumption DEF ReloadRaises, Mishap
  <2>4. missed' \subseteq Runtimes
    BY <1>1, <1>14 DEF ReloadRaises
  <2> QED BY <1>1, <1>14, <2>1, <2>2, <2>3, <2>4 DEF ReloadRaises, PushInv, PushTypeOK
<1>15. CASE Again(r, p)
  <2>1. PICK at \in {"decide", "off"}, from \in {"wait", "failed"} : Moves(r, p, from, Idle(at))
    BY <1>15 DEF Again
  <2> QED BY <1>5, <1>15, <2>1, IdlePush DEF Again
<1>16. CASE ThreadEnds(r, p)
  <2>1. PICK from \in {"returned", "failed"} : Moves(r, p, from, Idle("off"))
    BY <1>16 DEF ThreadEnds
  <2> QED BY <1>5, <1>16, <2>1, IdlePush DEF ThreadEnds
<1> QED BY <1>6, <1>7, <1>8, <1>9, <1>10, <1>11, <1>12, <1>13, <1>14, <1>15, <1>16
        DEF PushStep

\* Cancelling leaves sound threads sound.
LEMMA CancelledSoundly ==
    ASSUME PushInv, NEW r \in Runtimes, push' = Cancelled(r)
    PROVE  /\ push' \in [Runtimes -> [Pushers -> Push]]
           /\ \A i \in Runtimes, q \in Pushers : Carrying(push'[i][q])
<1>1. push \in [Runtimes -> [Pushers -> Push]]
  BY DEF PushInv, PushTypeOK
<1>2. push' = [push EXCEPT ![r] = [p \in Pushers |->
                 IF InThread(push[r][p].at) THEN push[r][p] ELSE Idle("off")]]
  BY DEF Cancelled
<1>3. Idle("off") \in Push /\ Carrying(Idle("off"))
  BY IdlePush
<1>4. push' \in [Runtimes -> [Pushers -> Push]]
  BY <1>1, <1>2, <1>3
<1>5. ASSUME NEW i \in Runtimes, NEW q \in Pushers
      PROVE  push'[i][q] = Idle("off") \/ push'[i][q] = push[i][q]
  BY <1>1, <1>2
<1> QED BY <1>3, <1>4, <1>5 DEF PushInv

\* What a runtime does beside its threads, and what happens to it.
LEMMA RuntimeKeepsPushInv ==
    ASSUME PushInv, NEW r \in Runtimes,
           \/ RuntimeStep(r) \/ Start(r) \/ StartRefresh(r) \/ Leave(r)
           \/ LoseDeregister(r) \/ Kill(r)
    PROVE  PushInv'
<1> USE DEF permissions, daemonVars, runtimeVars
<1>1. /\ leases \in [{Key} -> Daemon!Entry \cup {Nothing}]
      /\ rules \in SUBSET Deniable
      /\ revision \in Nat /\ saved \in Nat /\ snapshots \subseteq Nat /\ missed \subseteq Runtimes
      /\ proc \in [Runtimes -> {"new", "up", "leaving", "joining", "gone"}]
      /\ cache \in [Runtimes -> SUBSET Tools] /\ deny \in [Runtimes -> SUBSET Deniable]
      /\ refresh \in [Runtimes -> {Nothing} \cup SUBSET Deniable]
      /\ lastHash \in [Runtimes -> {Nothing} \cup ToolSets]
      /\ lastRevision \in [Runtimes -> Nat]
      /\ push \in [Runtimes -> [Pushers -> Push]]
      /\ \A i \in Runtimes, q \in Pushers : Carrying(push[i][q])
      /\ events \in 0 .. MaxEvents
  BY DEF PushInv, PushTypeOK
<1>2. Mishap => events' \in 0 .. MaxEvents
  BY <1>1, PushAssumption DEF Mishap
<1>3. ASSUME Forget(r)
      PROVE  /\ proc' \in [Runtimes -> {"new", "up", "leaving", "joining", "gone"}]
             /\ lastHash' \in [Runtimes -> {Nothing} \cup ToolSets]
             /\ lastRevision' \in [Runtimes -> Nat]
             /\ push' \in [Runtimes -> [Pushers -> Push]]
             /\ \A i \in Runtimes, q \in Pushers : Carrying(push'[i][q])
  BY <1>1, <1>3, CancelledSoundly DEF Forget
<1>4. CASE EndRefresh(r)
  <2>1. PICK listed \in ToolSets :
          cache' = [cache EXCEPT ![r] = IF listed \ refresh[r] = {} THEN cache[r]
                                                                   ELSE listed \ refresh[r]]
    BY <1>4 DEF EndRefresh
  <2>2. cache' \in [Runtimes -> SUBSET Tools]
    BY <1>1, <2>1 DEF ToolSets
  <2>3. refresh' \in [Runtimes -> {Nothing} \cup SUBSET Deniable]
    BY <1>1, <1>4 DEF EndRefresh
  <2>4. UNCHANGED push \/ \E p \in Immediate : Moves(r, p, "off", Idle("decide"))
    BY <1>4 DEF EndRefresh
  <2>5. /\ push' \in [Runtimes -> [Pushers -> Push]]
        /\ \A i \in Runtimes, q \in Pushers : Carrying(push'[i][q])
    BY <1>1, <2>4, IdlePush, MovesSoundly DEF Pushers
  <2> QED BY <1>1, <1>4, <2>2, <2>3, <2>5 DEF EndRefresh, PushInv, PushTypeOK
<1>5. CASE HandleDeregister(r)
  <2>1. leases' \in [{Key} -> Daemon!Entry \cup {Nothing}]
    BY <1>1, <1>5 DEF HandleDeregister, Daemon!Release
  <2> QED BY <1>1, <1>3, <1>5, <2>1 DEF HandleDeregister, PushInv, PushTypeOK
<1>6. CASE End(r)
  <2>1. proc' \in [Runtimes -> {"new", "up", "leaving", "joining", "gone"}]
    BY <1>1, <1>6 DEF End
  <2> QED BY <1>1, <1>6, <2>1 DEF End, PushInv, PushTypeOK
<1>7. CASE Start(r)
  <2>1. PICK listed \in ToolSets : cache' = [cache EXCEPT ![r] = listed \ rules]
    BY <1>7 DEF Start
  <2>2. cache' \in [Runtimes -> SUBSET Tools]
    BY <1>1, <2>1 DEF ToolSets
  <2>3. /\ proc' \in [Runtimes -> {"new", "up", "leaving", "joining", "gone"}]
        /\ deny' \in [Runtimes -> SUBSET Deniable]
    BY <1>1, <1>7 DEF Start
  <2>4. Idle("decide") \in Push /\ Carrying(Idle("decide"))
    BY IdlePush
  <2>5. push' = [push EXCEPT ![r][PushLoop] = Idle("decide")]
    BY <1>7 DEF Start
  <2>6. push' \in [Runtimes -> [Pushers -> Push]]
    BY <1>1, <2>4, <2>5
  <2>7. ASSUME NEW i \in Runtimes, NEW q \in Pushers
        PROVE  push'[i][q] = Idle("decide") \/ push'[i][q] = push[i][q]
    BY <1>1, <2>5
  <2> QED BY <1>1, <1>7, <2>2, <2>3, <2>4, <2>6, <2>7 DEF Start, PushInv, PushTypeOK
<1>8. CASE StartRefresh(r)
  <2>1. refresh' \in [Runtimes -> {Nothing} \cup SUBSET Deniable]
    BY <1>1, <1>8 DEF StartRefresh
  <2>2. events' \in 0 .. MaxEvents
    BY <1>2, <1>8 DEF StartRefresh
  <2> QED BY <1>1, <1>8, <2>1, <2>2 DEF StartRefresh, PushInv, PushTypeOK
<1>9. CASE Leave(r)
  <2>1. /\ proc' \in [Runtimes -> {"new", "up", "leaving", "joining", "gone"}]
        /\ refresh' \in [Runtimes -> {Nothing} \cup SUBSET Deniable]
    BY <1>1, <1>9 DEF Leave
  <2>2. events' \in 0 .. MaxEvents
    BY <1>2, <1>9 DEF Leave
  <2> QED BY <1>1, <1>9, <2>1, <2>2 DEF Leave, PushInv, PushTypeOK
<1>10. CASE LoseDeregister(r)
  <2>1. events' \in 0 .. MaxEvents
    BY <1>2, <1>10 DEF LoseDeregister
  <2> QED BY <1>1, <1>3, <1>10, <2>1 DEF LoseDeregister, PushInv, PushTypeOK
<1>11. CASE Kill(r)
  <2>1. /\ proc' \in [Runtimes -> {"new", "up", "leaving", "joining", "gone"}]
        /\ refresh' \in [Runtimes -> {Nothing} \cup SUBSET Deniable]
    BY <1>1, <1>11 DEF Kill
  <2>2. events' \in 0 .. MaxEvents
    BY <1>2, <1>11 DEF Kill
  <2>3. Idle("off") \in Push /\ Carrying(Idle("off"))
    BY IdlePush
  <2>4. push' = [push EXCEPT ![r] = [p \in Pushers |->
                   IF Sent(push[r][p].at) THEN push[r][p] ELSE Idle("off")]]
    BY <1>11 DEF Kill
  <2>5. push' \in [Runtimes -> [Pushers -> Push]]
    BY <1>1, <2>3, <2>4
  <2>6. ASSUME NEW i \in Runtimes, NEW q \in Pushers
        PROVE  push'[i][q] = Idle("off") \/ push'[i][q] = push[i][q]
    BY <1>1, <2>4
  <2> QED BY <1>1, <1>11, <2>1, <2>2, <2>3, <2>5, <2>6 DEF Kill, PushInv, PushTypeOK
<1> QED BY <1>4, <1>5, <1>6, <1>7, <1>8, <1>9, <1>10, <1>11 DEF RuntimeStep

\* What happens in the daemon.
LEMMA DaemonKeepsPushInv ==
    ASSUME PushInv,
           ChangePermissions \/ WriteSnapshot \/ RestartDaemon \/ AgeEntry \/ PruneEntries
    PROVE  PushInv'
<1> USE DEF permissions, daemonVars, runtimeVars
<1>1. /\ leases \in [{Key} -> Daemon!Entry \cup {Nothing}]
      /\ rules \in SUBSET Deniable
      /\ revision \in Nat /\ saved \in Nat /\ snapshots \subseteq Nat /\ missed \subseteq Runtimes
      /\ push \in [Runtimes -> [Pushers -> Push]]
      /\ \A i \in Runtimes, q \in Pushers : Carrying(push[i][q])
      /\ events \in 0 .. MaxEvents
  BY DEF PushInv, PushTypeOK
<1>2. Mishap => events' \in 0 .. MaxEvents
  BY <1>1, PushAssumption DEF Mishap
<1>3. CASE ChangePermissions
  <2>1. /\ rules' \in SUBSET Deniable /\ revision' \in Nat /\ snapshots' \subseteq Nat
        /\ events' \in 0 .. MaxEvents
    BY <1>1, <1>2, <1>3 DEF ChangePermissions
  <2> QED BY <1>1, <1>3, <2>1 DEF ChangePermissions, PushInv, PushTypeOK
<1>4. CASE WriteSnapshot
  <2>1. saved' \in Nat /\ snapshots' \subseteq Nat
    BY <1>1, <1>4 DEF WriteSnapshot
  <2> QED BY <1>1, <1>4, <2>1 DEF WriteSnapshot, PushInv, PushTypeOK
<1>5. CASE RestartDaemon
  <2>1. ASSUME NEW c \in ToolSets, NEW r \in Runtimes
        PROVE  [Daemon!Live(c, r) EXCEPT !.stale = TRUE] \in Daemon!Entry
    BY DEF Daemon!Live, Daemon!Entry
  <2>2. PICK e \in Daemon!Entry \cup {Nothing} : leases' = [leases EXCEPT ![Key] = e]
    BY <1>5, <2>1 DEF RestartDaemon
  <2>3. leases' \in [{Key} -> Daemon!Entry \cup {Nothing}]
    BY <1>1, <2>2
  <2>4. push' = [r \in Runtimes |-> [p \in Pushers |->
                   IF Sent(push[r][p].at) THEN Answered(r, Idle("failed")) ELSE push[r][p]]]
    BY <1>5 DEF RestartDaemon
  <2>5. ASSUME NEW r \in Runtimes, NEW p \in Pushers
        PROVE  push'[r][p] \in Push /\ Carrying(push'[r][p])
    <3>1. Answered(r, Idle("failed")) \in Push /\ Carrying(Answered(r, Idle("failed")))
      BY IdlePush, AnsweredSoundly
    <3> QED BY <1>1, <2>4, <3>1
  <2>6. push' \in [Runtimes -> [Pushers -> Push]]
    BY <2>4, <2>5
  <2>7. events' \in 0 .. MaxEvents
    BY <1>2, <1>5 DEF RestartDaemon
  <2>8. missed' \subseteq Runtimes
    BY <1>1, <1>5 DEF RestartDaemon
  <2> QED BY <1>1, <1>5, <2>3, <2>5, <2>6, <2>7, <2>8 DEF RestartDaemon, PushInv, PushTypeOK
<1>6. CASE AgeEntry
  <2>1. leases' \in [{Key} -> Daemon!Entry \cup {Nothing}]
    <3>1. leases[Key] \in Daemon!Entry /\ leases' = [leases EXCEPT ![Key].expired = TRUE]
      BY <1>1, <1>6 DEF AgeEntry, Daemon!Age
    <3>2. [leases[Key] EXCEPT !.expired = TRUE] \in Daemon!Entry
      BY <3>1 DEF Daemon!Entry
    <3> QED BY <1>1, <3>1, <3>2
  <2> QED BY <1>1, <1>6, <2>1 DEF AgeEntry, PushInv, PushTypeOK
<1>7. CASE PruneEntries
  <2>1. leases' \in [{Key} -> Daemon!Entry \cup {Nothing}]
    BY <1>1, <1>7 DEF PruneEntries, Daemon!Reclaim
  <2> QED BY <1>1, <1>7, <2>1 DEF PruneEntries, PushInv, PushTypeOK
<1> QED BY <1>3, <1>4, <1>5, <1>6, <1>7

\* The invariant is inductive.
LEMMA NextKeepsPushInv == PushInv /\ [PushNext]_pushVars => PushInv'
<1> SUFFICES ASSUME PushInv, [PushNext]_pushVars PROVE PushInv'
  OBVIOUS
<1>1. CASE UNCHANGED pushVars
  BY <1>1 DEF pushVars, permissions, daemonVars, runtimeVars, PushInv, PushTypeOK, Carrying
<1>2. CASE PushNext
  BY <1>2, ThreadKeepsPushInv, RuntimeKeepsPushInv, DaemonKeepsPushInv DEF PushNext
<1> QED BY <1>1, <1>2

\* Whatever is lost, restarted or overtaken, what runtimes send and the daemon keeps
\* are catalogs with tools, and hashes, deny lists and revisions are in their range.
THEOREM PushTypeCorrect == PushSpec => []PushTypeOK
<1>1. PushInv => PushTypeOK
  BY DEF PushInv
<1> QED BY <1>1, InitPushInv, NextKeepsPushInv, PTL DEF PushSpec

-----------------------------------------------------------------------------
(* Revisions.                                                              *)

\* The disk is never ahead of the daemon, nor are the threads that write it.
DiskIsBehind == saved <= revision /\ \A n \in snapshots : n <= revision

\* A runtime that missed nothing is not ahead of the daemon, and not behind the rules
\* when it is up to date.
Informed(r) ==
    /\ proc[r] = "new" => lastRevision[r] = 0
    /\ proc[r] = "up" /\ r \notin missed =>
         /\ lastRevision[r] <= revision
         /\ lastRevision[r] = revision => deny[r] = rules

HeardInv == DiskIsBehind /\ \A r \in Runtimes : Informed(r)

\* A step that lets no runtime hear of anything: those that have yet to start or
\* to end are what they were.
Unheard ==
    /\ UNCHANGED daemonVars
    /\ \A i \in Runtimes :
         proc'[i] \in {"new", "up"} => UNCHANGED <<proc[i], lastRevision[i], deny[i]>>

\* The ranges that the steps below rest on.
LEMMA PushTypes ==
    ASSUME PushInv
    PROVE  /\ revision \in Nat /\ saved \in Nat /\ snapshots \subseteq Nat
           /\ proc \in [Runtimes -> {"new", "up", "leaving", "joining", "gone"}]
           /\ deny \in [Runtimes -> SUBSET Deniable] /\ lastRevision \in [Runtimes -> Nat]
           /\ push \in [Runtimes -> [Pushers -> Push]]
BY DEF PushInv, PushTypeOK

\* Such a step changes nothing about revisions.
LEMMA UnheardKeepsHeard ==
    ASSUME HeardInv, Unheard
    PROVE  HeardInv'
BY DEF HeardInv, DiskIsBehind, Informed, Unheard, daemonVars, permissions

\* Of what a thread does, only a reload lets its runtime hear of a revision.
LEMMA ThreadIsUnheard ==
    ASSUME PushInv, NEW r \in Runtimes, NEW p \in Pushers, PushStep(r, p) \/ Lose(r, p)
    PROVE  Unheard \/ Reload(r, p)
BY DEF PushStep, Lose, Decide, Post, HandleHash, HandleFull, Stored, SameRevision, Again,
       ThreadEnds, Unheard, runtimeVars

\* Of what happens to a runtime, only its start does.
LEMMA RuntimeIsUnheard ==
    ASSUME PushInv, NEW r \in Runtimes,
           \/ RuntimeStep(r) \/ StartRefresh(r) \/ Leave(r) \/ LoseDeregister(r) \/ Kill(r)
    PROVE  Unheard
<1>1. proc \in [Runtimes -> {"new", "up", "leaving", "joining", "gone"}]
  BY DEF PushInv, PushTypeOK
<1>2. CASE EndRefresh(r) \/ StartRefresh(r)
  BY <1>2 DEF EndRefresh, StartRefresh, Unheard
<1>3. CASE End(r) \/ Leave(r) \/ Kill(r)
  BY <1>1, <1>3 DEF End, Leave, Kill, Unheard, runtimeVars
<1>4. CASE HandleDeregister(r) \/ LoseDeregister(r)
  <2>1. /\ UNCHANGED <<daemonVars, deny>> /\ proc' = [proc EXCEPT ![r] = "joining"]
        /\ lastRevision' = [lastRevision EXCEPT ![r] = 0]
    BY <1>4 DEF HandleDeregister, LoseDeregister, Forget
  <2> QED BY <1>1, <2>1, PushTypes DEF Unheard
<1> QED BY <1>2, <1>3, <1>4 DEF RuntimeStep

\* A reload takes the rules of now, whatever revision it was told of; a revision ahead
\* of the daemon's is noted.
LEMMA ReloadKeepsHeard ==
    ASSUME PushInv, HeardInv, NEW r \in Runtimes, NEW p \in Pushers,
           Reload(r, p) \/ ReloadRaises(r, p)
    PROVE  HeardInv'
<1>1. /\ lastRevision \in [Runtimes -> Nat] /\ deny \in [Runtimes -> SUBSET Deniable]
      /\ revision \in Nat /\ push[r][p].seen \in Nat
  BY PushTypes DEF Push
<1>2. UNCHANGED <<permissions, proc>> /\ proc[r] = "up"
  BY DEF Reload, ReloadRaises
<1>3. DiskIsBehind'
  BY <1>2 DEF HeardInv, DiskIsBehind, permissions
<1>4. lastRevision' = [lastRevision EXCEPT ![r] = push[r][p].seen]
  BY DEF Reload, ReloadRaises
<1>5. ASSUME NEW i \in Runtimes, i # r PROVE Informed(i)'
  <2>1. i \in missed' <=> i \in missed
    BY <1>5 DEF Reload, ReloadRaises
  <2>2. deny'[i] = deny[i] /\ lastRevision'[i] = lastRevision[i]
    BY <1>1, <1>4, <1>5 DEF Reload, ReloadRaises
  <2> QED BY <1>2, <2>1, <2>2 DEF HeardInv, Informed, permissions
<1>6. Informed(r)'
  <2>1. CASE Reload(r, p)
    <3>1. deny'[r] = rules /\ lastRevision'[r] = push[r][p].seen
      BY <1>1, <1>4, <2>1 DEF Reload
    <3>2. r \notin missed' => push[r][p].seen <= revision
      BY <1>1, <2>1 DEF Reload
    <3> QED BY <1>2, <3>1, <3>2 DEF Informed, permissions
  <2>2. CASE ReloadRaises(r, p)
    BY <1>2, <2>2 DEF ReloadRaises, Informed
  <2> QED BY <2>1, <2>2
<1> QED BY <1>3, <1>5, <1>6 DEF HeardInv

\* A runtime starts with the rules of now.
LEMMA StartKeepsHeard ==
    ASSUME PushInv, HeardInv, NEW r \in Runtimes, Start(r)
    PROVE  HeardInv'
<1>1. /\ proc \in [Runtimes -> {"new", "up", "leaving", "joining", "gone"}]
      /\ deny \in [Runtimes -> SUBSET Deniable] /\ revision \in Nat
  BY PushTypes
<1>2. /\ UNCHANGED <<daemonVars, lastRevision>> /\ proc[r] = "new"
      /\ proc' = [proc EXCEPT ![r] = "up"] /\ deny' = [deny EXCEPT ![r] = rules]
  BY DEF Start
<1>3. lastRevision'[r] = 0 /\ deny'[r] = rules /\ proc'[r] = "up"
  BY <1>1, <1>2 DEF HeardInv, Informed
<1>4. Informed(r)'
  BY <1>1, <1>2, <1>3 DEF Informed, daemonVars, permissions
<1>5. ASSUME NEW i \in Runtimes, i # r PROVE Informed(i)'
  BY <1>1, <1>2, <1>5 DEF HeardInv, Informed, daemonVars, permissions
<1> QED BY <1>2, <1>4, <1>5 DEF HeardInv, DiskIsBehind, daemonVars, permissions

\* A change has a revision that nobody was told of; a daemon that restarts may have
\* forgotten some, which is noted.
LEMMA DaemonKeepsHeard ==
    ASSUME PushInv, HeardInv,
           ChangePermissions \/ WriteSnapshot \/ RestartDaemon \/ AgeEntry \/ PruneEntries
    PROVE  HeardInv'
<1>1. /\ lastRevision \in [Runtimes -> Nat]
      /\ revision \in Nat /\ saved \in Nat /\ snapshots \subseteq Nat
  BY PushTypes
<1>2. CASE ChangePermissions
  <2>1. /\ revision' = revision + 1 /\ snapshots' = snapshots \cup {revision'}
        /\ UNCHANGED <<saved, missed, proc, lastRevision, deny>>
    BY <1>2 DEF ChangePermissions, runtimeVars
  <2>2. DiskIsBehind'
    BY <1>1, <2>1 DEF HeardInv, DiskIsBehind
  <2>3. ASSUME NEW r \in Runtimes PROVE Informed(r)'
    BY <1>1, <2>1 DEF HeardInv, Informed
  <2> QED BY <2>2, <2>3 DEF HeardInv
<1>3. CASE WriteSnapshot
  <2>1. /\ \E n \in snapshots : saved' = n /\ snapshots' = snapshots \ {n}
        /\ UNCHANGED <<rules, revision, missed, proc, lastRevision, deny>>
    BY <1>3 DEF WriteSnapshot, runtimeVars
  <2>2. DiskIsBehind'
    BY <2>1 DEF HeardInv, DiskIsBehind
  <2> QED BY <2>1, <2>2 DEF HeardInv, Informed
<1>4. CASE RestartDaemon
  <2>1. /\ revision' = saved /\ snapshots' = {}
        /\ missed' = missed \cup {r \in Runtimes : proc[r] = "up" /\ saved # revision
                                                  /\ lastRevision[r] >= saved}
        /\ UNCHANGED <<rules, saved, proc, lastRevision, deny>>
    BY <1>4 DEF RestartDaemon, runtimeVars
  <2>2. DiskIsBehind'
    BY <1>1, <2>1 DEF DiskIsBehind
  <2>3. ASSUME NEW r \in Runtimes PROVE Informed(r)'
    <3>1. CASE proc[r] = "up" /\ r \notin missed'
      <4>1. saved = revision \/ lastRevision[r] < saved
        BY <1>1, <2>1, <3>1
      <4> QED BY <1>1, <2>1, <3>1, <4>1 DEF HeardInv, Informed
    <3>2. CASE proc[r] # "up" \/ r \in missed'
      BY <2>1, <3>2 DEF HeardInv, Informed
    <3> QED BY <3>1, <3>2
  <2> QED BY <2>2, <2>3 DEF HeardInv
<1>5. CASE AgeEntry \/ PruneEntries
  BY <1>5, UnheardKeepsHeard DEF AgeEntry, PruneEntries, Unheard, runtimeVars
<1> QED BY <1>2, <1>3, <1>4, <1>5

\* A runtime that has heard of the newest revision works with the newest rules, unless
\* its last reload raised or a daemon forgot a revision; for any number of runtimes,
\* pushes, changes and restarts.
THEOREM HeardIsAppliedCorrect == PushSpec => []HeardIsApplied
<1>1. PushInit => HeardInv
  BY DEF PushInit, HeardInv, DiskIsBehind, Informed
<1>2. PushInv /\ HeardInv /\ [PushNext]_pushVars => HeardInv'
  <2> SUFFICES ASSUME PushInv, HeardInv, [PushNext]_pushVars PROVE HeardInv'
    OBVIOUS
  <2>1. CASE UNCHANGED pushVars
    BY <2>1, UnheardKeepsHeard DEF pushVars, runtimeVars, Unheard
  <2>2. ASSUME NEW r \in Runtimes, NEW p \in Pushers,
               PushStep(r, p) \/ Lose(r, p) \/ ReloadRaises(r, p)
        PROVE  HeardInv'
    BY <2>2, ThreadIsUnheard, UnheardKeepsHeard, ReloadKeepsHeard
  <2>3. ASSUME NEW r \in Runtimes,
               \/ RuntimeStep(r) \/ Start(r) \/ StartRefresh(r) \/ Leave(r)
               \/ LoseDeregister(r) \/ Kill(r)
        PROVE  HeardInv'
    BY <2>3, RuntimeIsUnheard, UnheardKeepsHeard, StartKeepsHeard
  <2> QED BY <2>1, <2>2, <2>3, DaemonKeepsHeard DEF PushNext
<1>3. PushInv /\ HeardInv => HeardIsApplied
  <2> SUFFICES ASSUME PushInv, HeardInv, NEW r \in Runtimes \ missed,
                      proc[r] = "up", lastRevision[r] >= revision
               PROVE  deny[r] = rules
    BY DEF HeardIsApplied
  <2>1. lastRevision[r] \in Nat /\ revision \in Nat
    BY PushTypes
  <2> QED BY <2>1 DEF HeardInv, Informed
<1> QED BY <1>1, <1>2, <1>3, InitPushInv, NextKeepsPushInv, PTL DEF PushSpec
===========================================================================
