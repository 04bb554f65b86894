--------------------------- MODULE PlanningCycle ---------------------------
(***************************************************************************)
(* The planning cycle as a value, and the operations of PlanningService on *)
(* it (server/app/services/planning_service.py).  A cycle is the snapshot  *)
(* the planning API reads, changes and saves; every operation here is a    *)
(* pure function of the snapshot and of what the simulation client         *)
(* answered, exactly as the service methods are: none of them writes to    *)
(* the repository.  PlanningWorkflow runs them concurrently.               *)
(*                                                                         *)
(* Data that no property tells apart is abstracted: a scenario is a member *)
(* of Scenarios (one per composition the compose step accepts), a plan is  *)
(* its position in the proposal-id order, and the metrics of a run are the *)
(* identity of the run they were copied from.                              *)
(***************************************************************************)
EXTENDS Integers, FiniteSets

CONSTANTS
    Scenarios,  \* the reviewed compositions that can be frozen in this cycle
    MaxPlans,   \* how many different plans the planner may propose
    Cost,       \* Cost[p]: position of plan p's result in the metric order
    Violating,  \* the plans whose result breaks a hard constraint
    NoRun       \* "no run id" / "no metrics"

Plans == 1 .. MaxPlans

ASSUME CycleAssumption ==
    /\ MaxPlans \in Nat
    /\ Scenarios # {}
    /\ Cost \in [Plans -> Nat]
    /\ Violating \subseteq Plans
    /\ NoRun \notin Scenarios \X (0 .. MaxPlans)

(***************************************************************************)
(* Runs at the client.  The wire key of a submission hashes the operation  *)
(* key and the whole body, so the baseline of a scenario and each (scenario*)
(* , plan) pair of one cycle name one client run each; plan 0 stands for   *)
(* the baseline.                                                           *)
(***************************************************************************)
Runs == Scenarios \X (0 .. MaxPlans)
BaselineRun(s) == <<s, 0>>
PlanRun(s, p) == <<s, p>>

\* QUEUED and RUNNING are the same to every test the service makes.
RunState == {"ABSENT", "RUNNING", "COMPLETED", "FAILED"}

Lifecycle == {"PROPOSED", "VALIDATED", "SUBMITTED", "RUNNING", "EVALUATED",
              "FAILED", "RECOMMENDED", "APPROVED", "REJECTED"}

\* A plan record; status ABSENT means that the cycle holds no such plan.
Plan == [status  : Lifecycle \cup {"ABSENT"},
         run     : Runs \cup {NoRun},
         metrics : Runs \cup {NoRun},
         rank    : 0 .. MaxPlans]

Cycle == [scenario : Scenarios,
          status   : Lifecycle,
          run      : Runs \cup {NoRun},
          metrics  : Runs \cup {NoRun},
          plans    : [Plans -> Plan]]

PlanWith(status) ==
    [status |-> status, run |-> NoRun, metrics |-> NoRun, rank |-> 0]
NoPlans == [p \in Plans |-> PlanWith("ABSENT")]

Present(c) == {p \in Plans : c.plans[p].status # "ABSENT"}
WithStatus(c, S) == {p \in Plans : c.plans[p].status \in S}

-----------------------------------------------------------------------------
\* create_draft: a reviewable snapshot, nothing submitted.
Draft(s) == [scenario |-> s, status |-> "PROPOSED", run |-> NoRun,
             metrics |-> NoRun, plans |-> NoPlans]

\* compose_scenario: freeze another reviewed composition.
CanCompose(c) == c.run = NoRun
Compose(c, s) == [c EXCEPT !.scenario = s, !.status = "PROPOSED",
                           !.metrics = NoRun, !.plans = NoPlans]

\* Mutant of RefreshBaseline: every run that has not failed counts as completed.
RefreshBaselineEarly(c, seen) ==
    IF c.metrics # NoRun THEN c
    ELSE [c EXCEPT !.status = IF seen = "FAILED" THEN "FAILED" ELSE "VALIDATED",
                   !.metrics = IF seen = "FAILED" THEN NoRun ELSE c.run]

\* Mutant of RefreshBaseline: a failed run looks like one that still runs.
RefreshBaselineHopeful(c, seen) ==
    IF c.metrics # NoRun THEN c
    ELSE [c EXCEPT !.status = IF seen = "COMPLETED" THEN "VALIDATED" ELSE "RUNNING",
                   !.metrics = IF seen = "COMPLETED" THEN c.run ELSE NoRun]

\* refresh_baseline, given the run status the client reported.
RefreshBaseline(c, seen) ==
    IF c.metrics # NoRun
    THEN c
    ELSE [c EXCEPT !.status = CASE seen = "FAILED"    -> "FAILED"
                                [] seen = "COMPLETED" -> "VALIDATED"
                                [] OTHER              -> "RUNNING",
                   !.metrics = IF seen = "COMPLETED" THEN c.run ELSE NoRun]

\* submit_baseline, given the status the client accepted the run with.
SubmitBaseline(c, accepted) ==
    LET sent == [c EXCEPT !.run = BaselineRun(c.scenario),
                          !.status = CASE accepted = "RUNNING" -> "RUNNING"
                                       [] accepted = "FAILED"  -> "FAILED"
                                       [] OTHER                -> "SUBMITTED"]
    IN  IF accepted = "COMPLETED" THEN RefreshBaseline(sent, accepted) ELSE sent

\* Mutant of CanPropose: the baseline may still be running.
CanProposeEarly(c) == c.status # "FAILED"

\* propose_plans: the validated proposals replace whatever plans there were.
CanPropose(c) == c.metrics # NoRun /\ c.status # "FAILED"
ProposePlans(c, P) ==
    [c EXCEPT !.plans = [p \in Plans |-> IF p \in P THEN PlanWith("VALIDATED")
                                                    ELSE PlanWith("ABSENT")]]

\* plans[index] = plan.model_copy(...), then the cycle with those plans.
SetPlan(c, p, plan) == [c EXCEPT !.plans[p] = plan]

\* Mutant of RefreshPlan: every run that has not failed counts as completed.
RefreshPlanEarly(c, p, seen) ==
    IF c.plans[p].metrics # NoRun THEN c
    ELSE SetPlan(c, p, IF seen = "FAILED"
                       THEN [c.plans[p] EXCEPT !.status = "FAILED"]
                       ELSE [c.plans[p] EXCEPT !.status = "EVALUATED",
                                               !.metrics = c.plans[p].run])

\* refresh_plan: metrics already copied are returned without another fetch.
RefreshPlan(c, p, seen) ==
    IF c.plans[p].metrics # NoRun \/ seen \notin {"FAILED", "COMPLETED"}
    THEN c
    ELSE SetPlan(c, p,
             IF seen = "FAILED"
             THEN [c.plans[p] EXCEPT !.status = "FAILED"]
             ELSE [c.plans[p] EXCEPT !.status = "EVALUATED",
                                     !.metrics = c.plans[p].run])

\* submit_plan: it asks nothing of the plan's current status.
SubmitPlan(c, p, accepted) ==
    LET sent == SetPlan(c, p,
                    [c.plans[p] EXCEPT
                        !.run = PlanRun(c.scenario, p),
                        !.status = IF accepted = "FAILED" THEN "FAILED"
                                   ELSE "RUNNING"])
    IN  IF accepted = "COMPLETED" THEN RefreshPlan(sent, p, accepted) ELSE sent

-----------------------------------------------------------------------------
\* The lexicographic-v1 order: feasible plans first, then the metrics, then
\* the proposal id.
Better(p, q) ==
    \/ p \notin Violating /\ q \in Violating
    \/ /\ p \in Violating <=> q \in Violating
       /\ \/ Cost[p] < Cost[q]
          \/ Cost[p] = Cost[q] /\ p < q

Rankable(c) ==
    {p \in WithStatus(c, {"EVALUATED"}) : c.plans[p].metrics # NoRun}

\* Mutant of Position: the plan counts itself among those ahead of it.
PositionCountingItself(E, p) == 1 + Cardinality({q \in E : ~Better(p, q)})
Position(E, p) == 1 + Cardinality({q \in E : Better(q, p)})

\* Mutant of RankedPlan: the constraints are not looked at again.
RankedPlanUnchecked(c, p) ==
    LET place == Position(Rankable(c), p)
    IN  [c.plans[p] EXCEPT
            !.rank = place,
            !.status = IF place = 1 THEN "RECOMMENDED" ELSE "EVALUATED"]

\* rank: only EVALUATED plans take part; the first one is recommended when it
\* breaks no constraint.
RankedPlan(c, p) ==
    LET place == Position(Rankable(c), p)
    IN  [c.plans[p] EXCEPT
            !.rank = place,
            !.status = IF place = 1 /\ p \notin Violating
                       THEN "RECOMMENDED" ELSE "EVALUATED"]

Rank(c) ==
    LET ranked == [p \in Plans |->
                      IF p \in Rankable(c) THEN RankedPlan(c, p) ELSE c.plans[p]]
    IN  [c EXCEPT !.plans = ranked,
                  !.status = IF \E p \in Plans : ranked[p].status = "RECOMMENDED"
                             THEN "RECOMMENDED" ELSE "EVALUATED"]

\* decide: the human decision about one plan.
CanDecide(c, p, decision) ==
    /\ p \in Present(c)
    /\ decision = "APPROVED" => c.plans[p].status \in {"RECOMMENDED", "APPROVED"}
    /\ decision = "REJECTED" => c.plans[p].status \notin {"RUNNING", "FAILED"}
Decide(c, p, decision) ==
    [SetPlan(c, p, [c.plans[p] EXCEPT !.status = decision]) EXCEPT
              !.status = IF \/ decision = "APPROVED"
                            \/ c.plans[p].status = "RECOMMENDED"
                         THEN decision ELSE c.status]
=============================================================================
