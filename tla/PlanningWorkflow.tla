-------------------------- MODULE PlanningWorkflow --------------------------
(***************************************************************************)
(* The planning API (server/app/api/planning.py) serving concurrent        *)
(* requests on one planning cycle.  A handler reads the stored snapshot,   *)
(* awaits the simulation client one call at a time while it changes a      *)
(* private copy, and saves the copy with the version it read.  Requests    *)
(* overlap at every await; the client's runs progress on their own; a      *)
(* request can die at any await or at its save.                            *)
(*                                                                         *)
(* The save is one atomic compare-and-set here.  The version comparison is *)
(* represented by its outcome: fresh[r] says that nothing was committed    *)
(* since request r read.  CycleStore models the numbers, shows that the    *)
(* DynamoDB save is this compare-and-set, and that the PostgreSQL one is   *)
(* not when two transactions overlap.                                      *)
(***************************************************************************)
EXTENDS PlanningCycle

CONSTANTS
    Requests,   \* how many requests may be in flight at once
    Ops,        \* the endpoints the callers use
    MaxFaults,  \* bound: requests and client calls that fail
    ContextMay  \* whether the client's context version may move

Endpoints == {"create", "scenario", "baseline", "advance", "proposals",
              "submit", "refresh", "rank", "approve", "reject"}

ASSUME WorkflowAssumption ==
    /\ Ops \subseteq Endpoints
    /\ MaxFaults \in Nat
    /\ ContextMay \in BOOLEAN

VARIABLES
    stored,        \* the snapshot in the repository
    runs,          \* the runs the client knows, by wire key
    contextMoved,  \* the client's context is no longer the frozen one
    phase,         \* phase[r]: what request r does next
    work,          \* work[r]: the private copy request r is changing
    todo,          \* todo[r]: the plans request r still has to visit
    fresh,         \* fresh[r]: no commit since request r read the snapshot
    faults         \* failures so far

request == <<phase, work, todo, fresh>>
client == <<runs, contextMoved>>
vars == <<stored, client, request, faults>>

Phases == {"idle", "submitBaseline", "refreshBaseline", "propose", "plans",
           "submitPlan", "refreshPlan", "save", "overwrite"}

\* What create_draft selects: the same inputs generate the same draft.
Generated == CHOOSE s \in Scenarios : TRUE
Blank == Draft(Generated)

TypeOK ==
    /\ stored \in Cycle
    /\ runs \in [Runs -> RunState]
    /\ contextMoved \in BOOLEAN
    /\ phase \in [Requests -> Phases]
    /\ work \in [Requests -> Cycle]
    /\ todo \in [Requests -> SUBSET Plans]
    /\ fresh \in [Requests -> BOOLEAN]
    /\ faults \in 0 .. MaxFaults

\* A draft that POST /cycles has created and saved.
Init ==
    /\ stored = Draft(Generated)
    /\ runs = [k \in Runs |-> "ABSENT"]
    /\ contextMoved = FALSE
    /\ phase = [r \in Requests |-> "idle"]
    /\ work = [r \in Requests |-> Blank]
    /\ todo = [r \in Requests |-> {}]
    /\ fresh = [r \in Requests |-> FALSE]
    /\ faults = 0

-----------------------------------------------------------------------------
(***************************************************************************)
(* How a request moves.                                                    *)
(***************************************************************************)
GoTo(r, next, c, plans) ==
    /\ phase' = [phase EXCEPT ![r] = next]
    /\ work' = [work EXCEPT ![r] = c]
    /\ todo' = [todo EXCEPT ![r] = plans]

\* current = required(cycle_id), then the handler's first stage.
Begin(r, op) == op \in Ops /\ phase[r] = "idle"
Read(r) == fresh' = [fresh EXCEPT ![r] = TRUE]

Release(r) ==
    /\ GoTo(r, "idle", Blank, {})
    /\ fresh' = [fresh EXCEPT ![r] = FALSE]

\* The plans the advance loop makes a client call for; a plan's own record
\* decides, so the set is known when the loop starts.
NeedsSubmit(c, p) == c.plans[p].status = "VALIDATED" /\ c.plans[p].run = NoRun
NeedsCall(c) == {p \in Plans : NeedsSubmit(c, p) \/ c.plans[p].status = "RUNNING"}

\* Mutant of RankIfTerminal: a plan that still runs does not hold it up.
RankIfAnyEvaluated(c) ==
    IF WithStatus(c, {"EVALUATED"}) # {} /\ WithStatus(c, {"RECOMMENDED"}) = {}
    THEN Rank(c) ELSE c

\* Mutant of RankIfTerminal: a failed plan does not count as over.
RankIfAllEvaluated(c) ==
    IF Present(c) # {} /\ Present(c) = WithStatus(c, {"EVALUATED"})
    THEN Rank(c) ELSE c

\* The tail of _advance_to_approval: rank once every plan is terminal.
RankIfTerminal(c) ==
    IF /\ Present(c) # {}
       /\ Present(c) = WithStatus(c, {"EVALUATED", "FAILED", "RECOMMENDED"})
       /\ WithStatus(c, {"EVALUATED"}) # {}
       /\ WithStatus(c, {"RECOMMENDED"}) = {}
    THEN Rank(c) ELSE c

VisitPlans(r, c, plans) ==
    IF plans = {} THEN GoTo(r, "save", RankIfTerminal(c), {})
                  ELSE GoTo(r, "plans", c, plans)

\* Mutant of AfterBaseline: it proposes although there are plans.
AfterBaselineReproposing(r, c) ==
    IF c.status = "FAILED" \/ c.metrics = NoRun THEN GoTo(r, "save", c, {})
    ELSE GoTo(r, "propose", c, {})

AfterBaseline(r, c) ==
    IF c.status = "FAILED" \/ c.metrics = NoRun THEN GoTo(r, "save", c, {})
    ELSE IF Present(c) = {} THEN GoTo(r, "propose", c, {})
    ELSE VisitPlans(r, c, NeedsCall(c))

\* _advance_to_approval from the snapshot c.
AdvanceFrom(r, c) ==
    IF c.metrics = NoRun /\ c.run # NoRun
    THEN GoTo(r, "refreshBaseline", c, {})
    ELSE AfterBaseline(r, c)

\* POST /simulations: idempotent in the wire key; a new run is refused once
\* the client's context has moved.
Submitted(k, accepted) ==
    /\ IF runs[k] = "ABSENT"
       THEN /\ ~contextMoved
            /\ accepted \in {"RUNNING", "COMPLETED", "FAILED"}
            /\ runs' = [runs EXCEPT ![k] = accepted]
       ELSE accepted = runs[k] /\ UNCHANGED runs
    /\ UNCHANGED contextMoved

-----------------------------------------------------------------------------
(***************************************************************************)
(* Handlers that make no client call: read and change, then save.          *)
(***************************************************************************)
\* POST /cycles with inputs that generate the same cycle id again.
StartCreate(r) ==
    /\ Begin(r, "create") /\ ~contextMoved
    /\ GoTo(r, "overwrite", Draft(Generated), {})
    /\ Read(r) /\ UNCHANGED <<stored, client, faults>>

StartScenario(r, s) ==
    /\ Begin(r, "scenario") /\ CanCompose(stored)
    /\ GoTo(r, "save", Compose(stored, s), {})
    /\ Read(r) /\ UNCHANGED <<stored, client, faults>>

\* The planner's answer does not depend on shared state, so the read, the
\* context check and the answer are one step.
StartProposals(r, P) ==
    /\ Begin(r, "proposals") /\ CanPropose(stored) /\ ~contextMoved
    /\ GoTo(r, "save", ProposePlans(stored, P), {})
    /\ Read(r) /\ UNCHANGED <<stored, client, faults>>

StartRank(r) ==
    /\ Begin(r, "rank")
    /\ GoTo(r, "save", Rank(stored), {})
    /\ Read(r) /\ UNCHANGED <<stored, client, faults>>

StartApprove(r, p) ==
    /\ Begin(r, "approve") /\ CanDecide(stored, p, "APPROVED")
    /\ GoTo(r, "save", Decide(stored, p, "APPROVED"), {})
    /\ Read(r) /\ UNCHANGED <<stored, client, faults>>

StartReject(r, p) ==
    /\ Begin(r, "reject") /\ CanDecide(stored, p, "REJECTED")
    /\ GoTo(r, "save", Decide(stored, p, "REJECTED"), {})
    /\ Read(r) /\ UNCHANGED <<stored, client, faults>>

(***************************************************************************)
(* Handlers that await the client.                                         *)
(***************************************************************************)
StartBaseline(r) ==
    /\ Begin(r, "baseline") /\ stored.run = NoRun
    /\ GoTo(r, "submitBaseline", stored, {})
    /\ Read(r) /\ UNCHANGED <<stored, client, faults>>

\* POST /advance and POST /baseline/refresh.
StartAdvance(r) ==
    /\ Begin(r, "advance")
    /\ AdvanceFrom(r, stored)
    /\ Read(r) /\ UNCHANGED <<stored, client, faults>>

StartSubmitPlan(r, p) ==
    /\ Begin(r, "submit") /\ p \in Present(stored)
    /\ GoTo(r, "submitPlan", stored, {p})
    /\ Read(r) /\ UNCHANGED <<stored, client, faults>>

StartRefreshPlan(r, p) ==
    /\ Begin(r, "refresh") /\ p \in Present(stored)
    /\ IF stored.plans[p].metrics # NoRun
       THEN AdvanceFrom(r, stored)
       ELSE stored.plans[p].run # NoRun /\ GoTo(r, "refreshPlan", stored, {p})
    /\ Read(r) /\ UNCHANGED <<stored, client, faults>>

-----------------------------------------------------------------------------
(***************************************************************************)
(* One client call of a request in flight.                                 *)
(***************************************************************************)
\* get_context, then the submission, then the first look at the result.
SubmitBaselineCall(r) ==
    /\ phase[r] = "submitBaseline" /\ ~contextMoved
    /\ \E accepted \in RunState :
          /\ Submitted(BaselineRun(work[r].scenario), accepted)
          /\ AdvanceFrom(r, SubmitBaseline(work[r], accepted))
    /\ UNCHANGED <<stored, fresh, faults>>

RefreshBaselineCall(r) ==
    /\ phase[r] = "refreshBaseline"
    /\ AfterBaseline(r, RefreshBaseline(work[r], runs[work[r].run]))
    /\ UNCHANGED <<stored, client, fresh, faults>>

\* The planner answers with any set of proposals, all validated by the client.
ProposeCall(r) ==
    /\ phase[r] = "propose" /\ ~contextMoved
    /\ \E P \in SUBSET Plans :
          LET c == ProposePlans(work[r], P)
          IN  IF P = {} THEN GoTo(r, "save", [c EXCEPT !.status = "EVALUATED"], {})
                        ELSE VisitPlans(r, c, NeedsCall(c))
    /\ UNCHANGED <<stored, client, fresh, faults>>

\* A gateway error while proposing keeps the baseline and saves.
ProposeUnavailable(r) ==
    /\ phase[r] = "propose" /\ faults < MaxFaults
    /\ GoTo(r, "save", work[r], {})
    /\ faults' = faults + 1
    /\ UNCHANGED <<stored, client, fresh>>

\* The loop over cycle.plans, in proposal order.
NextPlan(r, p) == p \in todo[r] /\ \A q \in todo[r] : p <= q
PlanCall(r) ==
    /\ phase[r] = "plans"
    /\ \E p \in todo[r] :
          /\ NextPlan(r, p)
          /\ \/ /\ NeedsSubmit(work[r], p)
                /\ \E accepted \in RunState :
                      /\ Submitted(PlanRun(work[r].scenario, p), accepted)
                      /\ VisitPlans(r, SubmitPlan(work[r], p, accepted), todo[r] \ {p})
             \/ /\ ~NeedsSubmit(work[r], p)
                /\ VisitPlans(r, RefreshPlan(work[r], p, runs[work[r].plans[p].run]),
                              todo[r] \ {p})
                /\ UNCHANGED client
    /\ UNCHANGED <<stored, fresh, faults>>

\* The handler of POST /plans/{id}/submit saves without advancing.
SubmitPlanCall(r) ==
    /\ phase[r] = "submitPlan"
    /\ \E p \in todo[r], accepted \in RunState :
          /\ Submitted(PlanRun(work[r].scenario, p), accepted)
          /\ GoTo(r, "save", SubmitPlan(work[r], p, accepted), {})
    /\ UNCHANGED <<stored, fresh, faults>>

\* The handler of POST /plans/{id}/refresh advances afterwards.
RefreshPlanCall(r) ==
    /\ phase[r] = "refreshPlan"
    /\ \E p \in todo[r] :
          AdvanceFrom(r, RefreshPlan(work[r], p, runs[work[r].plans[p].run]))
    /\ UNCHANGED <<stored, client, fresh, faults>>

\* ValueError("STALE_STATE"), or the client refuses a new run: the request
\* ends with an error status and nothing is saved.
NeedsContext(r) ==
    \/ phase[r] \in {"submitBaseline", "propose"}
    \/ /\ phase[r] \in {"plans", "submitPlan"}
       /\ \E p \in todo[r] : /\ NextPlan(r, p)
                              /\ runs[PlanRun(work[r].scenario, p)] = "ABSENT"
StaleContext(r) ==
    /\ contextMoved /\ NeedsContext(r)
    /\ Release(r) /\ UNCHANGED <<stored, client, faults>>

-----------------------------------------------------------------------------
(***************************************************************************)
(* The save that ends a request.                                           *)
(***************************************************************************)
Commit(r) ==
    /\ stored' = work[r]
    /\ GoTo(r, "idle", Blank, {})
    /\ fresh' = [q \in Requests |-> FALSE]
    /\ UNCHANGED <<client, faults>>

\* Mutant of Save: the version is not compared.
SaveBlindly(r) == phase[r] = "save" /\ Commit(r)

\* save_cycle(..., expected_version=current.version)
Save(r) == phase[r] = "save" /\ fresh[r] /\ Commit(r)

\* Someone committed in between: 409.
Conflict(r) ==
    /\ phase[r] = "save" /\ ~fresh[r]
    /\ Release(r) /\ UNCHANGED <<stored, client, faults>>

\* save_cycle(draft): create_cycle passes no expected version.
Overwrite(r) == phase[r] = "overwrite" /\ Commit(r)

\* A timeout, a gateway or provider error, or a dead worker.
Abort(r) ==
    /\ phase[r] # "idle" /\ faults < MaxFaults
    /\ Release(r)
    /\ faults' = faults + 1
    /\ UNCHANGED <<stored, client>>

-----------------------------------------------------------------------------
(***************************************************************************)
(* The simulation client.                                                  *)
(***************************************************************************)
FinishRun(k) ==
    /\ runs[k] = "RUNNING"
    /\ \E outcome \in {"COMPLETED", "FAILED"} :
          runs' = [runs EXCEPT ![k] = outcome]
    /\ UNCHANGED <<stored, contextMoved, request, faults>>

MoveContext ==
    /\ ContextMay /\ ~contextMoved
    /\ contextMoved' = TRUE
    /\ UNCHANGED <<stored, runs, request, faults>>

Start(r) ==
    \/ StartCreate(r)
    \/ \E s \in Scenarios : StartScenario(r, s)
    \/ \E P \in SUBSET Plans : StartProposals(r, P)
    \/ StartRank(r) \/ StartBaseline(r) \/ StartAdvance(r)
    \/ \E p \in Plans : \/ StartApprove(r, p) \/ StartReject(r, p)
                        \/ StartSubmitPlan(r, p) \/ StartRefreshPlan(r, p)

Call(r) ==
    \/ SubmitBaselineCall(r) \/ RefreshBaselineCall(r) \/ ProposeCall(r)
    \/ PlanCall(r) \/ SubmitPlanCall(r) \/ RefreshPlanCall(r)
    \/ StaleContext(r)

End(r) == Save(r) \/ Conflict(r) \/ Overwrite(r)

Next ==
    \/ \E r \in Requests : Start(r) \/ Call(r) \/ End(r)
                           \/ ProposeUnavailable(r) \/ Abort(r)
    \/ \E k \in Runs : FinishRun(k)
    \/ MoveContext

Spec == Init /\ [][Next]_vars

-----------------------------------------------------------------------------
(***************************************************************************)
(* Safety.                                                                 *)
(***************************************************************************)
\* A snapshot's results and failures are the client's: baseline metrics are
\* those of the completed run of exactly the frozen scenario, a plan's metrics
\* those of its own completed run against that scenario, and what is marked
\* FAILED is a run the client failed.
Authoritative(c, known) ==
    /\ c.run # NoRun => c.run = BaselineRun(c.scenario) /\ known[c.run] # "ABSENT"
    /\ c.metrics # NoRun => c.metrics = c.run /\ known[c.run] = "COMPLETED"
    /\ c.status = "FAILED" => c.run # NoRun /\ known[c.run] = "FAILED"
    /\ \A p \in Plans :
          LET plan == c.plans[p]
          IN  /\ plan.run # NoRun =>
                    plan.run = PlanRun(c.scenario, p) /\ known[plan.run] # "ABSENT"
              /\ plan.metrics # NoRun =>
                    plan.metrics = plan.run /\ known[plan.run] = "COMPLETED"
              /\ plan.status = "RUNNING" => plan.run # NoRun
              /\ plan.status = "FAILED" =>
                    plan.run # NoRun /\ known[plan.run] = "FAILED"

\* Whatever requests overlap or die, the repository only holds results and
\* failures the client produced for this very scenario (simulation-and-
\* planning.md: metrics are authoritative copies, bound to the frozen run).
ResultsAreAuthoritative == Authoritative(stored, runs)

\* The planner never runs ahead of the measurement: a stored snapshot with
\* plans also holds the completed baseline they were proposed from.
PlansFollowBaseline == Present(stored) # {} => stored.metrics # NoRun

\* A recommendation is earned: a plan that is RECOMMENDED or APPROVED was
\* measured, breaks no constraint, and came first in a ranking.
RecommendationIsEarned ==
    \A p \in WithStatus(stored, {"RECOMMENDED", "APPROVED"}) :
        /\ stored.plans[p].metrics # NoRun
        /\ stored.plans[p].rank = 1
        /\ p \notin Violating

\* With automatic ranking only: when a plan is recommended or approved every
\* other plan's run is over, and none that was measured beats it.
BestPlanSelected ==
    \A p \in WithStatus(stored, {"RECOMMENDED", "APPROVED"}) :
        \A q \in Present(stored) \ {p} :
            /\ stored.plans[q].status \notin {"VALIDATED", "RUNNING", "RECOMMENDED", "APPROVED"}
            /\ stored.plans[q].metrics # NoRun => ~Better(q, p)

\* Once the baseline run is recorded neither the scenario nor the run of the
\* cycle changes, although a scenario edit may already be in flight.
ScenarioFrozen ==
    [][stored.run # NoRun =>
           stored'.run = stored.run /\ stored'.scenario = stored.scenario]_vars

\* Only the re-creation of the whole cycle, which saves over whatever it finds,
\* replaces a scenario whose baseline run is recorded; what it stores then is a
\* fresh draft.
OnlyCreationReplaces ==
    [][stored.run # NoRun =>
           \/ stored'.run = stored.run /\ stored'.scenario = stored.scenario
           \/ stored' = Blank]_vars

\* An approval never lands on anything but a plan that is recommended at the
\* moment of the commit: the reviewer's click races with re-ranking,
\* resubmission and regeneration of the plans.
ApprovalFollowsRecommendation ==
    [][\A p \in Plans :
          /\ stored'.plans[p].status = "APPROVED"
          /\ stored.plans[p].status # "APPROVED"
          => stored.plans[p].status = "RECOMMENDED"]_vars

(***************************************************************************)
(* The stored snapshot as the promise of PlanningPromise sees it.          *)
(***************************************************************************)
StageOf(c) ==
    IF c.metrics # NoRun THEN "measured"
    ELSE IF c.run = NoRun THEN "draft"
    ELSE IF c.status = "FAILED" THEN "failed" ELSE "submitted"

StandingOf(plan) ==
    CASE plan.status = "RECOMMENDED" -> "recommended"
      [] plan.status = "APPROVED"    -> "approved"
      [] plan.status = "REJECTED"    -> "rejected"
      [] OTHER                       -> "open"

Promised == INSTANCE PlanningPromise WITH
    Scenario <- Scenarios,
    Plan     <- Plans,
    scenario <- stored.scenario,
    stage    <- StageOf(stored),
    measured <- {p \in Plans : stored.plans[p].metrics # NoRun},
    standing <- [p \in Plans |-> StandingOf(stored.plans[p])]

\* Overlapping requests of the browser never break the promise: the frozen
\* scenario stays, results are never lost, at most one plan is recommended,
\* and a decision stands until a person changes it.
KeepsPromise == Promised!Spec

(***************************************************************************)
(* Fairness.  The event loop runs every request it has started; the client *)
(* finishes every run; the browser keeps polling /advance every five       *)
(* seconds while workflowNeedsAdvance holds, after errors too.             *)
(***************************************************************************)
BaselineNeedsRefresh(c) ==
    c.run # NoRun /\ c.metrics = NoRun /\ c.status # "FAILED"
WorkflowNeedsAdvance(c) ==
    \/ BaselineNeedsRefresh(c)
    \/ /\ c.metrics # NoRun
       /\ c.status \notin {"FAILED", "RECOMMENDED", "APPROVED", "REJECTED"}
       /\ \/ Present(c) = {} /\ c.status # "EVALUATED"
          \/ WithStatus(c, {"VALIDATED", "RUNNING"}) # {}
Poll(r) == WorkflowNeedsAdvance(stored) /\ StartAdvance(r)

Fairness ==
    /\ SF_vars(\E r \in Requests : Poll(r))
    /\ \A r \in Requests : WF_vars(Call(r)) /\ WF_vars(End(r))
    /\ \A k \in Runs : WF_vars(FinishRun(k))

FairSpec == Spec /\ Fairness

(***************************************************************************)
(* Liveness.                                                               *)
(***************************************************************************)
\* A submitted baseline is eventually answered in the repository, with its
\* results or with its failure, although polls conflict and calls fail.
BaselineAnswered ==
    stored.run # NoRun ~> stored.metrics # NoRun \/ stored.status = "FAILED"

\* A plan whose run is completed waits for a ranking although every plan's run
\* is over.  A plan that a person turned down before the ranking holds it up
\* for good: _advance_to_approval does not count REJECTED as terminal.
AwaitsRanking ==
    /\ WithStatus(stored, {"REJECTED"}) = {}
    /\ \A p \in Present(stored) :
          runs[PlanRun(stored.scenario, p)] \in {"COMPLETED", "FAILED"}
    /\ \E p \in Present(stored) : runs[PlanRun(stored.scenario, p)] = "COMPLETED"
    /\ \A p \in Plans : stored.plans[p].rank = 0

\* "When every plan run is terminal, AEGIS applies deterministic ranking"
\* (simulation-and-planning.md): however polls conflict and plans fail, no
\* plan waits for its ranking for ever, unless one was rejected before.
PlansRanked == []<>~AwaitsRanking
=============================================================================
