-------------------------- MODULE PlanningPromise ---------------------------
(***************************************************************************)
(* What a planning cycle promises the person who works with it, with no    *)
(* requests, no saves and no client calls: a scenario that is frozen when  *)
(* its baseline is submitted, results that are only ever added, at most    *)
(* one recommendation, and decisions that only a person makes.             *)
(* PlanningWorkflow implements it for the calls the browser makes.         *)
(***************************************************************************)
EXTENDS Integers, FiniteSets

CONSTANTS Scenario, \* the compositions that can be reviewed
          Plan      \* the plans a planner may propose

VARIABLES scenario,  \* the composition in review, then the frozen one
          stage,     \* how far the baseline is
          measured,  \* the plans with authoritative results
          standing   \* standing[p]: where plan p stands with the reviewer

promise == <<scenario, stage, measured, standing>>

Stages == {"draft", "submitted", "failed", "measured"}
Standings == {"open", "recommended", "approved", "rejected"}

Init ==
    /\ scenario \in Scenario
    /\ stage = "draft"
    /\ measured = {}
    /\ standing = [p \in Plan |-> "open"]

\* The reviewer edits the composition of a draft.
Edit ==
    /\ stage = "draft"
    /\ scenario' \in Scenario
    /\ UNCHANGED <<stage, measured, standing>>

\* The platform gets further: the baseline moves forward and results arrive.
\* While nothing has been decided it may recommend one plan, a measured one.
Forward ==
    \/ stage' = stage
    \/ stage = "draft"
    \/ stage = "submitted" /\ stage' \in {"failed", "measured"}

Recommend ==
    /\ \A p \in Plan : standing[p] = "open"
    /\ \E p \in measured' : standing' = [standing EXCEPT ![p] = "recommended"]

Progress ==
    /\ stage' \in Stages /\ Forward
    /\ measured' \in SUBSET Plan /\ measured \subseteq measured'
    /\ measured' # {} => stage' = "measured"
    /\ UNCHANGED standing \/ Recommend
    /\ UNCHANGED scenario

\* The reviewer accepts the recommendation, or turns a plan down.
Approve(p) ==
    /\ standing[p] = "recommended"
    /\ standing' = [standing EXCEPT ![p] = "approved"]
    /\ UNCHANGED <<scenario, stage, measured>>

Reject(p) ==
    /\ stage = "measured"
    /\ standing' = [standing EXCEPT ![p] = "rejected"]
    /\ UNCHANGED <<scenario, stage, measured>>

Next == Edit \/ Progress \/ \E p \in Plan : Approve(p) \/ Reject(p)

Spec == Init /\ [][Next]_promise
=============================================================================
