--------------------------- MODULE MCJobPipeline ---------------------------
(* Instances of JobPipeline for TLC. *)
EXTENDS JobPipeline, TLC

BudgetOf(allowed) == [k \in FaultKind |-> IF k \in allowed THEN 1 ELSE 0]

ExecutionFaults ==
    BudgetOf({"dispatch", "connection", "write", "publish", "timelimit", "consumer"})
LivenessFaults == BudgetOf({"crash", "write"})
NoFaults == BudgetOf({})

Interchangeable == Permutations(Thread) \cup Permutations(Worker)
=============================================================================
