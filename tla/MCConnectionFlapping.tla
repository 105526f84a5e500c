------------------------ MODULE MCConnectionFlapping ------------------------
(* Instance of ConnectionFlapping for TLC: numbers of refreshes and clock  *)
(* units small enough that gating, renewal and release all happen.         *)
EXTENDS ConnectionFlapping

MCStatuses == {"healthy", "degraded", "unknown"}
MCHealthy == "healthy"
MCNotListed == "not_listed"
=============================================================================
