--------------------------- MODULE MCStateManager ---------------------------
EXTENDS StateManager

Rule(for, noData, err, query) ==
    [for |-> for, noDataState |-> noData, execErrState |-> err, queryErrors |-> query]

(* The defaults; a pending period of two intervals, and errors of a query; *)
(* and one where NoData is Alerting and an error leaves the state alone.   *)
TheRules == {Rule(0, "NoData", "Error", FALSE),
             Rule(4, "OK", "Error", TRUE),
             Rule(4, "Alerting", "KeepLast", FALSE)}
=============================================================================
