-------------------------- MODULE RegistryContract --------------------------
(***************************************************************************)
(* What may happen to an entry of the hook daemon's catalog registry       *)
(* (cyt/hook/catalog_registry.py).  An entry is a lease: it is granted by a*)
(* push, released by the instance that holds it and reclaimed after its    *)
(* TTL; an old snapshot gives fallbacks where nothing live is.             *)
(* RegistryService says when each of these may happen.                     *)
(***************************************************************************)
EXTENDS FiniteSets

CONSTANTS
    Keys,       \* (agent, workspace, layer)
    Contents,   \* catalogs, one per content_hash
    Instances,  \* runtime processes
    None

VARIABLE reg    \* _registrations, or None for a key without an entry

Entry == [content : Contents, by : Instances, stale : BOOLEAN, expired : BOOLEAN]

Live(c, i) == [content |-> c, by |-> i, stale |-> FALSE, expired |-> FALSE]

IsFallback(e) == e \in Entry /\ e.stale /\ ~e.expired

-----------------------------------------------------------------------------
\* A push or a heartbeat of instance i.
Grant(k, c, i) == reg' = [reg EXCEPT ![k] = Live(c, i)]

\* A runtime says goodbye; only the instance that was heard of last may.
Release(k, i) ==
    /\ reg[k] # None /\ reg[k].by = i
    /\ reg' = [reg EXCEPT ![k] = None]

\* The TTL of an entry passes.
Age(k) ==
    /\ reg[k] # None
    /\ reg' = [reg EXCEPT ![k].expired = TRUE]

\* Mutant of Lapsed: the flag of the fallbacks is read the wrong way round.
LapsedFallback(e) == e # None /\ e.stale /\ e.expired

\* Entries past their TTL are removed, all at once; a fallback never is.
Lapsed(e) == e # None /\ ~e.stale /\ e.expired

Reclaim == reg' = [k \in Keys |-> IF Lapsed(reg[k]) THEN None ELSE reg[k]]

\* The snapshot is read back: fallbacks, where nothing live is.
FallBack ==
    /\ DOMAIN reg' = Keys
    /\ \A k \in Keys : \/ reg'[k] = reg[k]
                       \/ /\ reg[k] = None \/ reg[k].stale
                          /\ IsFallback(reg'[k])
=============================================================================
