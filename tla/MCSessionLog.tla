---------------------------- MODULE MCSessionLog ----------------------------
(***************************************************************************)
(* The session log about one tool: the lines of two tools have nothing to  *)
(* do with each other.  Versions are interchangeable, so the daemon knows  *)
(* none or the first at the start.                                         *)
(***************************************************************************)
EXTENDS SessionLog

CONSTANT First

ASSUME First \in Versions

MCInit == Init /\ \A t \in Tools : daemon[t] \in {None, First}

MCSpec == MCInit /\ [][Next]_vars /\ Fairness
=============================================================================
