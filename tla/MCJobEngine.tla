----------------------------- MODULE MCJobEngine -----------------------------
(***************************************************************************)
(* Small jobs for TLC.                                                     *)
(***************************************************************************)
EXTENDS JobEngine

\* A task, two that need it and one that needs both; a job of a single task.
Diamond ==
    [j \in Job |->
        IF j = "etl" THEN [t \in {"a", "b", "c", "d"} |->
                            CASE t = "a" -> {}
                              [] t \in {"b", "c"} -> {"a"}
                              [] t = "d" -> {"b", "c"}]
                     ELSE [t \in {"e"} |-> {}]]

\* The first job is the more urgent one.
EtlFirst == [j \in Job |-> IF j = "etl" THEN 10 ELSE 1]
=============================================================================
