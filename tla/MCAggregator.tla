---------------------------- MODULE MCAggregator ----------------------------
(***************************************************************************)
(* A process with clients that are alike, so First is the first to         *)
(* connect.  The others connect while nothing has been counted as an       *)
(* event, and leave with the process.                                      *)
(***************************************************************************)
EXTENDS Aggregator

CONSTANT First

ASSUME First \in Clients

MCNext ==
    /\ Next
    /\ \/ Connected' \subseteq {First}
       \/ First \in Connected' /\ events' = 0

MCSpec ==
    /\ Init /\ [][MCNext]_vars
    /\ \A c \in Clients : WF_vars(Notify(c)) /\ WF_vars(Serve(c))
    /\ WF_vars(JobEnds) /\ WF_vars(Feedback) /\ WF_vars(Reload)
=============================================================================
