--------------------------- MODULE MCOperationalHost ---------------------------
(* One slot and one place for three calls of a workflow without steps, or  *)
(* for one of them and a call of one step; and alone a call and a direct   *)
(* run of two steps, whose second invocation can begin while the run is    *)
(* closed.                                                                 *)
EXTENDS OperationalHost, TLC

CONSTANTS c1, c2, c3, c4, c5, d1, s1, s2

MCCalls == {c1,c2,c3,c4,c5}
MCDirectRuns == {d1}
MCSteps == {s1, s2}
MCStepsOf ==
    [r \in MCCalls \cup MCDirectRuns |->
        CASE r \in {c1, d1} -> MCSteps [] r = c5 -> {s1} [] OTHER -> {}]
MCTraffic == {{c1}, {d1}, {c3, c5}, {c2, c3, c4}}
=============================================================================
