---------------------------- MODULE MCTierCycles ----------------------------
(***************************************************************************)
(* TierCycles for TLC.  One behaviour is about one tool, one skill, or the *)
(* two tools of a server that are searched and found but never injected or *)
(* used, so that both of them fall asleep: the setting in which a server is*)
(* woken.  Entities meet nowhere else but in the epoch and the cycle.      *)
(***************************************************************************)
EXTENDS TierCycles, TLC

CONSTANTS t1, t2, k1, s1, none

SameServer == (t1 :> s1) @@ (t2 :> s1)

VARIABLE subject

Family == {t1, t2, s1}

MCInit == CyclesInit /\ subject \in {{t1}, {k1}, Family}

QuietNext ==
    \/ BeginRequestCycle
    \/ EndRequestCycle
    \/ \E S \in SUBSET (Tools \cap Family) : RecordCandidates(S)
    \/ \E e \in Tools \cap Family, strong \in BOOLEAN : ShadowHit(e, strong)
    \/ \E gone \in SUBSET (Tools \cap Family) : PurgeInactiveToolSources(gone)
    \/ StatusPoll
    \/ Tick

MCNext ==
    /\ IF subject = Family THEN QuietNext
                           ELSE NextAbout(Tools \cap subject, Skills \cap subject)
    /\ tracked' \subseteq subject
    /\ subject' = subject
    /\ CountCycles

MCSpec ==
    /\ MCInit /\ [][MCNext]_<<vars, subject, sinceSleep>>
    /\ WF_vars(BeginRequestCycle) /\ WF_vars(EndRequestCycle)
=============================================================================
