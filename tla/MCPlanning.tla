----------------------------- MODULE MCPlanning -----------------------------
(***************************************************************************)
(* Constant values for model-checking PlanningWorkflow.                    *)
(***************************************************************************)
EXTENDS PlanningWorkflow, TLC

\* The first proposal has the worst metrics, so the ranking has to
\* reorder them.
MCCost == [p \in Plans |-> MaxPlans - p]

\* Every endpoint of the API on an existing cycle.
CycleOps == Endpoints \ {"create"}

\* The whole API.
EveryOp == Endpoints

\* What the first-party browser calls (PlanningConsole.tsx).
BrowserOps == {"scenario", "baseline", "advance", "approve", "reject"}

RequestSymmetry == Permutations(Requests)
=============================================================================
