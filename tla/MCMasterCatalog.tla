-------------------------- MODULE MCMasterCatalog --------------------------
(***************************************************************************)
(* MasterCatalog with one source at a time: a rebuild reads its sources    *)
(* one after the other and no step relates them, so that two sources only  *)
(* multiply each other's states.  The thread of the pushed tools meets one *)
(* other thread at a time, rebuilds meet each other in any number.         *)
(*                                                                         *)
(* Server a offers one of two tools, and server b, which may not be        *)
(* declared any more, one that the second offer lacks.  Either there is no *)
(* copy, and blocking readers come as long as there was one event, or an   *)
(* earlier run of the daemon has left one.                                 *)
(***************************************************************************)
EXTENDS MasterCatalog, TLC

CONSTANTS A1, A2, B

MCServerOf == (A1 :> "a") @@ (A2 :> "a") @@ (B :> "b")
MCOffers == {{A1, B}, {A2}}

\* A source that is not configured is never read.
MCInit ==
    /\ Init
    /\ \/ /\ configured = {"file"} /\ file \in {{}, {A2}}
          /\ copy = Unset /\ declared = {}
       \/ /\ configured = {"pushed"} /\ file = Missing
          /\ \/ copy = Unset /\ declared = {}
             \/ copy = {A1, B} /\ declared = {"a"}

Busy == {t \in Threads : task[t] # Idle}

MCNext ==
    /\ Next
    /\ Puller \in Busy' => Cardinality(Busy') <= 2
    /\ \A r \in Readers \cap Busy' :
          declared = {} /\ events' <= IF configured = {"pushed"} THEN 1 ELSE 0

MCSpec == MCInit /\ [][MCNext]_vars /\ Fairness
=============================================================================
