--------------------------- MODULE PlanningProofs ---------------------------
(***************************************************************************)
(* Proofs about PlanningWorkflow for any number of requests, scenarios and *)
(* plans: types, the authority of stored results, and what a commit may    *)
(* never do.                                                               *)
(***************************************************************************)
EXTENDS PlanningWorkflow, FiniteSetTheorems, TLAPS

(***************************************************************************)
(* The operations of PlanningCycle keep the type of a snapshot.            *)
(***************************************************************************)
LEMMA RunTypes ==
  ASSUME NEW s \in Scenarios
  PROVE  /\ BaselineRun(s) \in Runs
         /\ \A p \in Plans : PlanRun(s, p) \in Runs
  BY CycleAssumption DEF BaselineRun, PlanRun, Runs, Plans

LEMMA DraftType ==
  ASSUME NEW s \in Scenarios
  PROVE  Draft(s) \in Cycle
  BY CycleAssumption DEF Draft, Cycle, Plan, NoPlans, PlanWith, Lifecycle, Plans

LEMMA ComposeType ==
  ASSUME NEW c \in Cycle, NEW s \in Scenarios
  PROVE  Compose(c, s) \in Cycle
  <1>1. NoPlans \in [Plans -> Plan]
    BY CycleAssumption DEF NoPlans, Plan, PlanWith
  <1> QED BY <1>1 DEF Compose, Cycle, Lifecycle

LEMMA RefreshBaselineType ==
  ASSUME NEW c \in Cycle, NEW seen
  PROVE  RefreshBaseline(c, seen) \in Cycle
  BY DEF RefreshBaseline, Cycle, Lifecycle

LEMMA SubmitBaselineType ==
  ASSUME NEW c \in Cycle, NEW accepted \in RunState
  PROVE  SubmitBaseline(c, accepted) \in Cycle
  <1> DEFINE sent == [c EXCEPT !.run = BaselineRun(c.scenario),
                          !.status = CASE accepted = "RUNNING" -> "RUNNING"
                                       [] accepted = "FAILED"  -> "FAILED"
                                       [] OTHER                -> "SUBMITTED"]
  <1>1. BaselineRun(c.scenario) \in Runs
    BY RunTypes DEF Cycle
  <1>2. sent \in Cycle
    BY <1>1 DEF Cycle, Lifecycle
  <1>3. RefreshBaseline(sent, accepted) \in Cycle
    BY <1>2, RefreshBaselineType
  <1> QED BY <1>2, <1>3 DEF SubmitBaseline

LEMMA ProposePlansType ==
  ASSUME NEW c \in Cycle, NEW P
  PROVE  ProposePlans(c, P) \in Cycle
  BY CycleAssumption DEF ProposePlans, Cycle, Plan, PlanWith, Lifecycle, Plans

LEMMA SetPlanType ==
  ASSUME NEW c \in Cycle, NEW p \in Plans, NEW plan \in Plan
  PROVE  SetPlan(c, p, plan) \in Cycle
  BY DEF SetPlan, Cycle

LEMMA RefreshPlanType ==
  ASSUME NEW c \in Cycle, NEW p \in Plans, NEW seen
  PROVE  RefreshPlan(c, p, seen) \in Cycle
  <1>1. c.plans[p] \in Plan
    BY DEF Cycle
  <1>2. [c.plans[p] EXCEPT !.status = "FAILED"] \in Plan
    BY <1>1 DEF Plan, Lifecycle
  <1>3. [c.plans[p] EXCEPT !.status = "EVALUATED", !.metrics = c.plans[p].run] \in Plan
    BY <1>1 DEF Plan, Lifecycle
  <1> QED BY <1>2, <1>3, SetPlanType DEF RefreshPlan

LEMMA SubmitPlanType ==
  ASSUME NEW c \in Cycle, NEW p \in Plans, NEW accepted
  PROVE  SubmitPlan(c, p, accepted) \in Cycle
  <1> DEFINE plan == [c.plans[p] EXCEPT
                        !.run = PlanRun(c.scenario, p),
                        !.status = IF accepted = "FAILED" THEN "FAILED"
                                   ELSE "RUNNING"]
  <1>1. PlanRun(c.scenario, p) \in Runs
    BY RunTypes DEF Cycle
  <1>2. plan \in Plan
    BY <1>1 DEF Cycle, Plan, Lifecycle
  <1>3. SetPlan(c, p, plan) \in Cycle
    BY <1>2, SetPlanType
  <1>4. RefreshPlan(SetPlan(c, p, plan), p, accepted) \in Cycle
    BY <1>3, RefreshPlanType
  <1> QED BY <1>3, <1>4 DEF SubmitPlan

\* A plan is not better than itself, so its position is at most the number of
\* plans.
LEMMA PositionType ==
  ASSUME NEW E \in SUBSET Plans, NEW p \in Plans
  PROVE  Position(E, p) \in 1 .. MaxPlans
  <1> DEFINE ahead == {q \in E : Better(q, p)}
  <1>1. ~Better(p, p)
    BY CycleAssumption DEF Better, Plans
  <1>2. ahead \subseteq Plans \ {p}
    BY <1>1
  <1>3. IsFiniteSet(Plans) /\ Cardinality(Plans) = MaxPlans
    BY FS_Interval, CycleAssumption DEF Plans
  <1>4. IsFiniteSet(Plans \ {p}) /\ Cardinality(Plans \ {p}) = MaxPlans - 1
    BY <1>3, FS_RemoveElement
  <1>5. IsFiniteSet(ahead) /\ Cardinality(ahead) <= MaxPlans - 1
    BY <1>2, <1>4, FS_Subset
  <1>6. Cardinality(ahead) \in Nat
    BY <1>5, FS_CardinalityType
  <1> QED BY <1>5, <1>6, CycleAssumption DEF Position

LEMMA RankType ==
  ASSUME NEW c \in Cycle
  PROVE  Rank(c) \in Cycle
  <1> DEFINE ranked == [p \in Plans |->
                  IF p \in Rankable(c) THEN RankedPlan(c, p) ELSE c.plans[p]]
  <1>1. Rankable(c) \in SUBSET Plans
    BY DEF Rankable, WithStatus
  <1>2. ASSUME NEW p \in Plans
        PROVE  RankedPlan(c, p) \in Plan
    <2>1. Position(Rankable(c), p) \in 0 .. MaxPlans
      BY <1>1, PositionType
    <2> QED BY <2>1 DEF RankedPlan, Cycle, Plan, Lifecycle
  <1>3. ranked \in [Plans -> Plan]
    BY <1>2 DEF Cycle
  <1> QED BY <1>3 DEF Rank, Cycle, Lifecycle

LEMMA DecideType ==
  ASSUME NEW c \in Cycle, NEW p \in Plans, NEW decision \in {"APPROVED", "REJECTED"}
  PROVE  Decide(c, p, decision) \in Cycle
  <1>1. [c.plans[p] EXCEPT !.status = decision] \in Plan
    BY DEF Cycle, Plan, Lifecycle
  <1>2. SetPlan(c, p, [c.plans[p] EXCEPT !.status = decision]) \in Cycle
    BY <1>1, SetPlanType
  <1> QED BY <1>2 DEF Decide, Cycle, Lifecycle

(***************************************************************************)
(* Type correctness of the workflow.                                       *)
(***************************************************************************)
LEMMA BlankType == Blank \in Cycle
  BY DraftType, CycleAssumption DEF Blank, Generated

LEMMA InitType == Init => TypeOK
  <1> SUFFICES ASSUME Init PROVE TypeOK
    OBVIOUS
  <1>1. stored \in Cycle
    BY BlankType DEF Init, Blank
  <1>2. runs \in [Runs -> RunState]
    BY DEF Init, RunState
  <1>3. phase \in [Requests -> Phases]
    BY DEF Init, Phases
  <1>4. work \in [Requests -> Cycle]
    BY BlankType DEF Init
  <1>5. faults \in 0 .. MaxFaults
    BY WorkflowAssumption DEF Init
  <1> QED BY <1>1, <1>2, <1>3, <1>4, <1>5 DEF Init, TypeOK

\* Moving a request to its next stage keeps the types.
LEMMA GoToType ==
  ASSUME TypeOK, NEW r \in Requests, NEW next \in Phases, NEW c \in Cycle,
         NEW plans \in SUBSET Plans, GoTo(r, next, c, plans)
  PROVE  /\ phase' \in [Requests -> Phases]
         /\ work' \in [Requests -> Cycle]
         /\ todo' \in [Requests -> SUBSET Plans]
  BY DEF TypeOK, GoTo

LEMMA VisitPlansType ==
  ASSUME TypeOK, NEW r \in Requests, NEW c \in Cycle,
         NEW plans \in SUBSET Plans, VisitPlans(r, c, plans)
  PROVE  /\ phase' \in [Requests -> Phases]
         /\ work' \in [Requests -> Cycle]
         /\ todo' \in [Requests -> SUBSET Plans]
  <1>1. RankIfTerminal(c) \in Cycle
    BY RankType DEF RankIfTerminal
  <1> QED BY <1>1, GoToType DEF VisitPlans, Phases

LEMMA AdvanceFromType ==
  ASSUME TypeOK, NEW r \in Requests, NEW c \in Cycle,
         AdvanceFrom(r, c) \/ AfterBaseline(r, c)
  PROVE  /\ phase' \in [Requests -> Phases]
         /\ work' \in [Requests -> Cycle]
         /\ todo' \in [Requests -> SUBSET Plans]
  <1>1. NeedsCall(c) \in SUBSET Plans
    BY DEF NeedsCall
  <1> QED BY <1>1, GoToType, VisitPlansType DEF AdvanceFrom, AfterBaseline, Phases

LEMMA SubmittedType ==
  ASSUME TypeOK, NEW k \in Runs, NEW accepted, Submitted(k, accepted)
  PROVE  runs' \in [Runs -> RunState] /\ contextMoved' \in BOOLEAN
  BY DEF TypeOK, Submitted, RunState

LEMMA StartType ==
  ASSUME TypeOK, NEW r \in Requests, Start(r)
  PROVE  TypeOK'
  <1> USE DEF Read
  <1>1. CASE StartCreate(r)
    BY <1>1, BlankType, GoToType DEF StartCreate, Blank, TypeOK, client, Phases
  <1>9. ASSUME NEW s \in Scenarios, StartScenario(r, s)
        PROVE  TypeOK'
    <2>1. Compose(stored, s) \in Cycle
      BY ComposeType DEF TypeOK
    <2> QED BY <1>9, <2>1, GoToType DEF StartScenario, TypeOK, client, Phases
  <1>2. ASSUME NEW P \in SUBSET Plans, StartProposals(r, P)
        PROVE  TypeOK'
    BY <1>2, ProposePlansType, GoToType DEF StartProposals, TypeOK, client, Phases
  <1>3. CASE StartRank(r)
    BY <1>3, RankType, GoToType DEF StartRank, TypeOK, client, Phases
  <1>4. CASE StartBaseline(r)
    BY <1>4, GoToType DEF StartBaseline, TypeOK, client, Phases
  <1>5. CASE StartAdvance(r)
    BY <1>5, AdvanceFromType DEF StartAdvance, TypeOK, client
  <1>6. ASSUME NEW p \in Plans, StartApprove(r, p) \/ StartReject(r, p)
        PROVE  TypeOK'
    <2>1. PICK decision \in {"APPROVED", "REJECTED"} :
            GoTo(r, "save", Decide(stored, p, decision), {})
      BY <1>6 DEF StartApprove, StartReject
    <2>2. Decide(stored, p, decision) \in Cycle
      BY DecideType DEF TypeOK
    <2>3. /\ phase' \in [Requests -> Phases]
          /\ work' \in [Requests -> Cycle]
          /\ todo' \in [Requests -> SUBSET Plans]
      BY <2>1, <2>2, GoToType DEF Phases
    <2> QED BY <1>6, <2>3 DEF StartApprove, StartReject, TypeOK, client
  <1>7. ASSUME NEW p \in Plans, StartSubmitPlan(r, p)
        PROVE  TypeOK'
    BY <1>7, GoToType DEF StartSubmitPlan, TypeOK, client, Phases
  <1>8. ASSUME NEW p \in Plans, StartRefreshPlan(r, p)
        PROVE  TypeOK'
    BY <1>8, GoToType, AdvanceFromType DEF StartRefreshPlan, TypeOK, client, Phases
  <1> QED BY <1>1, <1>2, <1>3, <1>4, <1>5, <1>6, <1>7, <1>8, <1>9 DEF Start

LEMMA CallType ==
  ASSUME TypeOK, NEW r \in Requests, Call(r) \/ ProposeUnavailable(r)
  PROVE  TypeOK'
  <1>0. work[r] \in Cycle /\ todo[r] \in SUBSET Plans
    BY DEF TypeOK
  <1>1. CASE SubmitBaselineCall(r)
    <2>1. PICK accepted \in RunState :
            /\ Submitted(BaselineRun(work[r].scenario), accepted)
            /\ AdvanceFrom(r, SubmitBaseline(work[r], accepted))
      BY <1>1 DEF SubmitBaselineCall
    <2>2. BaselineRun(work[r].scenario) \in Runs
      BY <1>0, RunTypes DEF Cycle
    <2>3. SubmitBaseline(work[r], accepted) \in Cycle
      BY <1>0, SubmitBaselineType
    <2> QED BY <1>1, <2>1, <2>2, <2>3, SubmittedType, AdvanceFromType
            DEF SubmitBaselineCall, TypeOK
  <1>2. CASE RefreshBaselineCall(r)
    <2>1. RefreshBaseline(work[r], runs[work[r].run]) \in Cycle
      BY <1>0, RefreshBaselineType
    <2> QED BY <1>2, <2>1, AdvanceFromType DEF RefreshBaselineCall, TypeOK, client
  <1>3. CASE ProposeCall(r)
    <2>1. PICK P \in SUBSET Plans :
            LET c == ProposePlans(work[r], P)
            IN  IF P = {} THEN GoTo(r, "save", [c EXCEPT !.status = "EVALUATED"], {})
                          ELSE VisitPlans(r, c, NeedsCall(c))
      BY <1>3 DEF ProposeCall
    <2> DEFINE c == ProposePlans(work[r], P)
    <2>2. c \in Cycle /\ [c EXCEPT !.status = "EVALUATED"] \in Cycle
      BY <1>0, ProposePlansType DEF Cycle, Lifecycle
    <2>3. NeedsCall(c) \in SUBSET Plans
      BY DEF NeedsCall
    <2> HIDE DEF c
    <2>4. /\ phase' \in [Requests -> Phases]
          /\ work' \in [Requests -> Cycle]
          /\ todo' \in [Requests -> SUBSET Plans]
      BY <2>1, <2>2, <2>3, GoToType, VisitPlansType DEF Phases, c
    <2> QED BY <1>3, <2>4 DEF ProposeCall, TypeOK, client
  <1>4. CASE PlanCall(r)
    <2>1. PICK p \in todo[r] :
            \/ \E accepted \in RunState :
                  /\ Submitted(PlanRun(work[r].scenario, p), accepted)
                  /\ VisitPlans(r, SubmitPlan(work[r], p, accepted), todo[r] \ {p})
            \/ /\ VisitPlans(r, RefreshPlan(work[r], p, runs[work[r].plans[p].run]),
                              todo[r] \ {p})
               /\ UNCHANGED client
      BY <1>4 DEF PlanCall
    <2>2. p \in Plans /\ PlanRun(work[r].scenario, p) \in Runs
      BY <1>0, RunTypes DEF Cycle
    <2>3. \A accepted \in RunState : SubmitPlan(work[r], p, accepted) \in Cycle
      BY <1>0, <2>2, SubmitPlanType
    <2>4. RefreshPlan(work[r], p, runs[work[r].plans[p].run]) \in Cycle
      BY <1>0, <2>2, RefreshPlanType
    <2> QED BY <1>0, <1>4, <2>1, <2>2, <2>3, <2>4, SubmittedType, VisitPlansType
            DEF PlanCall, TypeOK, client
  <1>5. CASE SubmitPlanCall(r)
    <2>1. PICK p \in todo[r], accepted \in RunState :
            /\ Submitted(PlanRun(work[r].scenario, p), accepted)
            /\ GoTo(r, "save", SubmitPlan(work[r], p, accepted), {})
      BY <1>5 DEF SubmitPlanCall
    <2>2. p \in Plans /\ PlanRun(work[r].scenario, p) \in Runs
      BY <1>0, RunTypes DEF Cycle
    <2>3. SubmitPlan(work[r], p, accepted) \in Cycle
      BY <1>0, <2>2, SubmitPlanType
    <2> QED BY <1>5, <2>1, <2>2, <2>3, SubmittedType, GoToType
            DEF SubmitPlanCall, TypeOK, Phases
  <1>6. CASE RefreshPlanCall(r)
    <2>1. PICK p \in todo[r] :
            AdvanceFrom(r, RefreshPlan(work[r], p, runs[work[r].plans[p].run]))
      BY <1>6 DEF RefreshPlanCall
    <2>2. RefreshPlan(work[r], p, runs[work[r].plans[p].run]) \in Cycle
      BY <1>0, RefreshPlanType
    <2> QED BY <1>6, <2>1, <2>2, AdvanceFromType DEF RefreshPlanCall, TypeOK, client
  <1>7. CASE StaleContext(r)
    BY <1>7, BlankType, GoToType DEF StaleContext, Release, TypeOK, client, Phases
  <1>8. CASE ProposeUnavailable(r)
    <2>1. faults' \in 0 .. MaxFaults
      BY <1>8, WorkflowAssumption DEF ProposeUnavailable, TypeOK
    <2> QED BY <1>0, <1>8, <2>1, GoToType DEF ProposeUnavailable, TypeOK, client, Phases
  <1> QED BY <1>1, <1>2, <1>3, <1>4, <1>5, <1>6, <1>7, <1>8 DEF Call

LEMMA EndType ==
  ASSUME TypeOK, NEW r \in Requests, End(r) \/ Abort(r)
  PROVE  TypeOK'
  <1>1. CASE Save(r) \/ Overwrite(r)
    <2>1. Commit(r)
      BY <1>1 DEF Save, Overwrite
    <2>2. /\ phase' \in [Requests -> Phases]
          /\ work' \in [Requests -> Cycle]
          /\ todo' \in [Requests -> SUBSET Plans]
      BY <2>1, BlankType, GoToType DEF Commit, Phases
    <2>3. stored' \in Cycle /\ fresh' \in [Requests -> BOOLEAN]
      BY <2>1 DEF Commit, TypeOK
    <2> QED BY <2>1, <2>2, <2>3 DEF Commit, TypeOK, client
  <1>2. CASE Conflict(r)
    BY <1>2, BlankType, GoToType DEF Conflict, Release, TypeOK, client, Phases
  <1>3. CASE Abort(r)
    <2>1. faults' \in 0 .. MaxFaults
      BY <1>3, WorkflowAssumption DEF Abort, TypeOK
    <2> QED BY <1>3, <2>1, BlankType, GoToType DEF Abort, Release, TypeOK, client, Phases
  <1> QED BY <1>1, <1>2, <1>3 DEF End

LEMMA ClientType ==
  ASSUME TypeOK, (\E k \in Runs : FinishRun(k)) \/ MoveContext
  PROVE  TypeOK'
  BY DEF TypeOK, FinishRun, MoveContext, request, RunState

LEMMA StepType == TypeOK /\ [Next]_vars => TypeOK'
  <1> SUFFICES ASSUME TypeOK, [Next]_vars PROVE TypeOK'
    OBVIOUS
  <1>1. CASE UNCHANGED vars
    BY <1>1 DEF vars, client, request, TypeOK
  <1> QED BY <1>1, StartType, CallType, EndType, ClientType DEF Next

\* Every reachable state of the workflow is well typed, for any number of
\* requests, scenarios and plans.
THEOREM TypeCorrect == Spec => []TypeOK
  BY InitType, StepType, PTL DEF Spec

-----------------------------------------------------------------------------
(***************************************************************************)
(* What the repository may hold and what a commit may never do.  The       *)
(* inductive invariant says of every private copy what the properties say  *)
(* of the stored snapshot, and of a copy that is still fresh how it may    *)
(* differ from the stored one.                                             *)
(***************************************************************************)

(***************************************************************************)
(* The client only ever adds knowledge about a run.                        *)
(***************************************************************************)
Grows(known, later) ==
    \A k \in Runs : /\ known[k] # "ABSENT" => later[k] # "ABSENT"
                    /\ known[k] \in {"COMPLETED", "FAILED"} => later[k] = known[k]

LEMMA AuthoritativeGrows ==
  ASSUME NEW c \in Cycle, NEW known, NEW later,
         Authoritative(c, known), Grows(known, later)
  PROVE  Authoritative(c, later)
  <1>1. \A k \in Runs \cup {NoRun} : k # NoRun => k \in Runs
    OBVIOUS
  <1>2. c.run \in Runs \cup {NoRun} /\ c.metrics \in Runs \cup {NoRun}
    BY DEF Cycle
  <1>3. \A p \in Plans : /\ c.plans[p].run \in Runs \cup {NoRun}
                         /\ c.plans[p].metrics \in Runs \cup {NoRun}
    BY DEF Cycle, Plan
  <1> QED BY <1>1, <1>2, <1>3 DEF Authoritative, Grows

LEMMA SubmittedGrows ==
  ASSUME TypeOK, NEW k \in Runs, NEW accepted \in RunState, Submitted(k, accepted)
  PROVE  /\ Grows(runs, runs')
         /\ runs'[k] = accepted
         /\ runs'[k] # "ABSENT" \/ runs[k] # "ABSENT"
         /\ accepted # "ABSENT"
  BY DEF Submitted, Grows, TypeOK

(***************************************************************************)
(* Every operation of the service keeps a snapshot authoritative.          *)
(***************************************************************************)
LEMMA DraftIsAuthoritative ==
  ASSUME NEW s \in Scenarios, NEW known
  PROVE  Authoritative(Draft(s), known)
  BY DEF Authoritative, Draft, NoPlans, PlanWith, Plans

LEMMA ComposeIsAuthoritative ==
  ASSUME NEW c \in Cycle, NEW s \in Scenarios, NEW known, CanCompose(c)
  PROVE  Authoritative(Compose(c, s), known)
  <1>1. /\ Compose(c, s).run = NoRun
        /\ Compose(c, s).metrics = NoRun
        /\ Compose(c, s).status = "PROPOSED"
        /\ Compose(c, s).plans = NoPlans
    BY DEF Compose, CanCompose, Cycle
  <1> QED BY <1>1 DEF Authoritative, NoPlans, PlanWith

LEMMA RefreshBaselineIsAuthoritative ==
  ASSUME NEW c \in Cycle, NEW known, Authoritative(c, known), c.run # NoRun
  PROVE  Authoritative(RefreshBaseline(c, known[c.run]), known)
  <1> DEFINE d == RefreshBaseline(c, known[c.run])
  <1>1. CASE c.metrics # NoRun
    BY <1>1 DEF RefreshBaseline
  <1>2. CASE c.metrics = NoRun
    <2>1. /\ d.run = c.run /\ d.scenario = c.scenario /\ d.plans = c.plans
          /\ d.metrics # NoRun => d.metrics = c.run /\ known[c.run] = "COMPLETED"
          /\ d.status = "FAILED" => known[c.run] = "FAILED"
      BY <1>2 DEF RefreshBaseline, Cycle
    <2> HIDE DEF d
    <2>2. Authoritative(d, known)
      BY <2>1 DEF Authoritative
    <2> QED BY <2>2 DEF d
  <1> QED BY <1>1, <1>2

LEMMA SubmitBaselineIsAuthoritative ==
  ASSUME NEW c \in Cycle, NEW known, Authoritative(c, known), c.run = NoRun,
         NEW accepted \in RunState \ {"ABSENT"},
         known[BaselineRun(c.scenario)] = accepted
  PROVE  Authoritative(SubmitBaseline(c, accepted), known)
  <1> DEFINE sent == [c EXCEPT !.run = BaselineRun(c.scenario),
                          !.status = CASE accepted = "RUNNING" -> "RUNNING"
                                       [] accepted = "FAILED"  -> "FAILED"
                                       [] OTHER                -> "SUBMITTED"]
  <1>1. BaselineRun(c.scenario) \in Runs /\ BaselineRun(c.scenario) # NoRun
    BY RunTypes, CycleAssumption DEF Cycle, Runs
  <1>2. c.metrics = NoRun
    BY DEF Authoritative
  <1>3. /\ sent.run = BaselineRun(c.scenario) /\ sent.scenario = c.scenario
        /\ sent.plans = c.plans /\ sent.metrics = NoRun
        /\ sent.status = "FAILED" => accepted = "FAILED"
    BY <1>2 DEF Cycle
  <1>4. sent \in Cycle
    BY <1>1 DEF Cycle, Lifecycle
  <1>5. SubmitBaseline(c, accepted) =
           IF accepted = "COMPLETED" THEN RefreshBaseline(sent, accepted) ELSE sent
    BY DEF SubmitBaseline
  <1> HIDE DEF sent
  <1>6. Authoritative(sent, known)
    BY <1>1, <1>3 DEF Authoritative
  <1>7. Authoritative(RefreshBaseline(sent, accepted), known)
    BY <1>1, <1>3, <1>4, <1>6, RefreshBaselineIsAuthoritative
  <1> QED BY <1>5, <1>6, <1>7

LEMMA ProposePlansIsAuthoritative ==
  ASSUME NEW c \in Cycle, NEW P, NEW known, Authoritative(c, known)
  PROVE  Authoritative(ProposePlans(c, P), known)
  <1> DEFINE d == ProposePlans(c, P)
  <1>1. /\ d.run = c.run /\ d.scenario = c.scenario
        /\ d.metrics = c.metrics /\ d.status = c.status
        /\ \A p \in Plans : /\ d.plans[p].run = NoRun
                            /\ d.plans[p].metrics = NoRun
                            /\ d.plans[p].status \in {"VALIDATED", "ABSENT"}
    BY DEF ProposePlans, PlanWith, Cycle
  <1> HIDE DEF d
  <1>2. Authoritative(d, known)
    BY <1>1 DEF Authoritative
  <1> QED BY <1>2 DEF d

\* A plan record that is the client's own word about the plan's run.
PlanIsAuthoritative(s, p, plan, known) ==
    /\ plan.run # NoRun => plan.run = PlanRun(s, p) /\ known[plan.run] # "ABSENT"
    /\ plan.metrics # NoRun => plan.metrics = plan.run /\ known[plan.run] = "COMPLETED"
    /\ plan.status = "RUNNING" => plan.run # NoRun
    /\ plan.status = "FAILED" => plan.run # NoRun /\ known[plan.run] = "FAILED"

LEMMA SetPlanIsAuthoritative ==
  ASSUME NEW c \in Cycle, NEW p \in Plans, NEW plan, NEW known,
         Authoritative(c, known), PlanIsAuthoritative(c.scenario, p, plan, known)
  PROVE  Authoritative(SetPlan(c, p, plan), known)
  <1> DEFINE d == SetPlan(c, p, plan)
  <1>1. /\ d.run = c.run /\ d.scenario = c.scenario
        /\ d.metrics = c.metrics /\ d.status = c.status
        /\ \A q \in Plans : d.plans[q] = IF q = p THEN plan ELSE c.plans[q]
    BY DEF SetPlan, Cycle
  <1> HIDE DEF d
  <1>2. Authoritative(d, known)
    BY <1>1 DEF Authoritative, PlanIsAuthoritative
  <1> QED BY <1>2 DEF d

LEMMA RefreshPlanIsAuthoritative ==
  ASSUME NEW c \in Cycle, NEW p \in Plans, NEW known, Authoritative(c, known),
         c.plans[p].run # NoRun
  PROVE  Authoritative(RefreshPlan(c, p, known[c.plans[p].run]), known)
  <1> DEFINE failed == [c.plans[p] EXCEPT !.status = "FAILED"]
             done == [c.plans[p] EXCEPT !.status = "EVALUATED",
                                        !.metrics = c.plans[p].run]
  <1>1. c.plans[p] \in Plan
    BY DEF Cycle
  <1>2. ASSUME known[c.plans[p].run] = "FAILED", c.plans[p].metrics = NoRun
        PROVE  Authoritative(SetPlan(c, p, failed), known)
    <2>1. PlanIsAuthoritative(c.scenario, p, failed, known)
      BY <1>1, <1>2 DEF Authoritative, PlanIsAuthoritative, Plan
    <2> QED BY <2>1, SetPlanIsAuthoritative
  <1>3. ASSUME known[c.plans[p].run] = "COMPLETED"
        PROVE  Authoritative(SetPlan(c, p, done), known)
    <2>1. PlanIsAuthoritative(c.scenario, p, done, known)
      BY <1>1, <1>3 DEF Authoritative, PlanIsAuthoritative, Plan
    <2> QED BY <2>1, SetPlanIsAuthoritative
  <1> QED BY <1>2, <1>3 DEF RefreshPlan

LEMMA SubmitPlanIsAuthoritative ==
  ASSUME NEW c \in Cycle, NEW p \in Plans, NEW known, Authoritative(c, known),
         NEW accepted \in RunState \ {"ABSENT"},
         known[PlanRun(c.scenario, p)] = accepted
  PROVE  Authoritative(SubmitPlan(c, p, accepted), known)
  <1> DEFINE plan == [c.plans[p] EXCEPT
                        !.run = PlanRun(c.scenario, p),
                        !.status = IF accepted = "FAILED" THEN "FAILED"
                                   ELSE "RUNNING"]
             sent == SetPlan(c, p, plan)
  <1>1. PlanRun(c.scenario, p) \in Runs /\ PlanRun(c.scenario, p) # NoRun
    BY RunTypes, CycleAssumption DEF Cycle, Runs
  <1>2. c.plans[p] \in Plan
    BY DEF Cycle
  <1>3. plan \in Plan
    BY <1>1, <1>2 DEF Plan, Lifecycle
  <1>4. PlanIsAuthoritative(c.scenario, p, plan, known)
    <2>1. /\ plan.run = PlanRun(c.scenario, p) /\ plan.metrics = c.plans[p].metrics
          /\ plan.status = "FAILED" => accepted = "FAILED"
      BY <1>2 DEF Plan
    <2>2. c.plans[p].metrics # NoRun =>
             /\ c.plans[p].metrics = c.plans[p].run
             /\ c.plans[p].run = PlanRun(c.scenario, p)
             /\ known[c.plans[p].run] = "COMPLETED"
      BY DEF Authoritative
    <2> HIDE DEF plan
    <2> QED BY <1>1, <2>1, <2>2 DEF PlanIsAuthoritative
  <1>5. sent \in Cycle /\ sent.plans[p] = plan
    BY <1>3, SetPlanType DEF SetPlan, Cycle
  <1>6. plan.run = PlanRun(c.scenario, p)
    BY <1>2 DEF Plan
  <1>7. SubmitPlan(c, p, accepted) =
          IF accepted = "COMPLETED" THEN RefreshPlan(sent, p, accepted) ELSE sent
    BY DEF SubmitPlan
  <1> HIDE DEF plan
  <1>8. Authoritative(sent, known)
    BY <1>4, SetPlanIsAuthoritative
  <1> HIDE DEF sent
  <1>9. Authoritative(RefreshPlan(sent, p, known[sent.plans[p].run]), known)
    BY <1>1, <1>5, <1>6, <1>8, RefreshPlanIsAuthoritative
  <1> QED BY <1>5, <1>6, <1>7, <1>8, <1>9

LEMMA RankIsAuthoritative ==
  ASSUME NEW c \in Cycle, NEW known, Authoritative(c, known)
  PROVE  Authoritative(Rank(c), known)
  <1> DEFINE d == Rank(c)
  <1>1. \A p \in Plans : /\ RankedPlan(c, p).run = c.plans[p].run
                         /\ RankedPlan(c, p).metrics = c.plans[p].metrics
                         /\ RankedPlan(c, p).status \in {"RECOMMENDED", "EVALUATED"}
    BY DEF RankedPlan, Cycle, Plan
  <1>2. /\ d.run = c.run /\ d.scenario = c.scenario /\ d.metrics = c.metrics
        /\ d.status \in {"RECOMMENDED", "EVALUATED"}
        /\ \A p \in Plans : d.plans[p] = IF p \in Rankable(c) THEN RankedPlan(c, p)
                                                             ELSE c.plans[p]
    BY DEF Rank, Cycle
  <1> HIDE DEF d
  <1>3. Authoritative(d, known)
    BY <1>1, <1>2 DEF Authoritative
  <1> QED BY <1>3 DEF d

LEMMA RankIfTerminalIsAuthoritative ==
  ASSUME NEW c \in Cycle, NEW known, Authoritative(c, known)
  PROVE  Authoritative(RankIfTerminal(c), known)
  BY RankIsAuthoritative DEF RankIfTerminal

LEMMA DecideIsAuthoritative ==
  ASSUME NEW c \in Cycle, NEW p \in Plans, NEW known, Authoritative(c, known),
         NEW decision \in {"APPROVED", "REJECTED"}
  PROVE  Authoritative(Decide(c, p, decision), known)
  <1> DEFINE d == Decide(c, p, decision)
  <1>1. /\ d.run = c.run /\ d.scenario = c.scenario /\ d.metrics = c.metrics
        /\ d.status \in {decision, c.status}
        /\ \A q \in Plans : /\ d.plans[q].run = c.plans[q].run
                            /\ d.plans[q].metrics = c.plans[q].metrics
                            /\ d.plans[q].status \in {decision, c.plans[q].status}
    BY DEF Decide, SetPlan, Cycle, Plan
  <1> HIDE DEF d
  <1>2. Authoritative(d, known)
    BY <1>1 DEF Authoritative
  <1> QED BY <1>2 DEF d

(***************************************************************************)
(* How the private copy d of a fresh request may differ from the stored    *)
(* snapshot c: a recorded run and its scenario are kept, and only a        *)
(* recommended plan may have become an approved one.                       *)
(***************************************************************************)
Follows(c, d) ==
    /\ c.run # NoRun => d.run = c.run /\ d.scenario = c.scenario
    /\ \A p \in Plans : d.plans[p].status = "APPROVED" =>
          c.plans[p].status \in {"RECOMMENDED", "APPROVED"}

\* d goes on to e: it may record a run it did not have, and approves nothing.
Extends(d, e) ==
    /\ d.run # NoRun => e.run = d.run
    /\ e.scenario = d.scenario
    /\ \A p \in Plans : e.plans[p].status = "APPROVED" => d.plans[p].status = "APPROVED"

LEMMA ExtendsFollows ==
  ASSUME NEW c, NEW d, NEW e, Follows(c, d), Extends(d, e)
  PROVE  Follows(c, e)
  BY DEF Follows, Extends

LEMMA RefreshBaselineExtends ==
  ASSUME NEW c \in Cycle, NEW seen
  PROVE  Extends(c, RefreshBaseline(c, seen))
  BY DEF Extends, RefreshBaseline, Cycle

LEMMA SubmitBaselineExtends ==
  ASSUME NEW c \in Cycle, NEW accepted, c.run = NoRun
  PROVE  Extends(c, SubmitBaseline(c, accepted))
  <1> DEFINE sent == [c EXCEPT !.run = BaselineRun(c.scenario),
                          !.status = CASE accepted = "RUNNING" -> "RUNNING"
                                       [] accepted = "FAILED"  -> "FAILED"
                                       [] OTHER                -> "SUBMITTED"]
  <1>1. sent \in Cycle
    BY RunTypes DEF Cycle, Lifecycle
  <1>2. sent.scenario = c.scenario /\ sent.plans = c.plans
    BY DEF Cycle
  <1>3. SubmitBaseline(c, accepted) =
           IF accepted = "COMPLETED" THEN RefreshBaseline(sent, accepted) ELSE sent
    BY DEF SubmitBaseline
  <1> HIDE DEF sent
  <1>4. Extends(sent, RefreshBaseline(sent, accepted))
    BY <1>1, RefreshBaselineExtends
  <1> QED BY <1>2, <1>3, <1>4 DEF Extends

LEMMA ProposePlansExtends ==
  ASSUME NEW c \in Cycle, NEW P
  PROVE  Extends(c, ProposePlans(c, P))
  BY DEF Extends, ProposePlans, PlanWith, Cycle

LEMMA SetPlanExtends ==
  ASSUME NEW c \in Cycle, NEW p \in Plans, NEW plan, plan.status # "APPROVED"
  PROVE  Extends(c, SetPlan(c, p, plan))
  <1>1. /\ SetPlan(c, p, plan).run = c.run
        /\ SetPlan(c, p, plan).scenario = c.scenario
        /\ \A q \in Plans : SetPlan(c, p, plan).plans[q] =
                               IF q = p THEN plan ELSE c.plans[q]
    BY DEF SetPlan, Cycle
  <1> QED BY <1>1 DEF Extends

LEMMA RefreshPlanExtends ==
  ASSUME NEW c \in Cycle, NEW p \in Plans, NEW seen
  PROVE  Extends(c, RefreshPlan(c, p, seen))
  <1> DEFINE failed == [c.plans[p] EXCEPT !.status = "FAILED"]
             done == [c.plans[p] EXCEPT !.status = "EVALUATED",
                                        !.metrics = c.plans[p].run]
  <1>1. failed.status # "APPROVED" /\ done.status # "APPROVED"
    BY DEF Cycle, Plan
  <1>2. Extends(c, SetPlan(c, p, failed)) /\ Extends(c, SetPlan(c, p, done))
    BY <1>1, SetPlanExtends
  <1>3. Extends(c, c)
    BY DEF Extends
  <1> QED BY <1>2, <1>3 DEF RefreshPlan

LEMMA SubmitPlanExtends ==
  ASSUME NEW c \in Cycle, NEW p \in Plans, NEW accepted
  PROVE  Extends(c, SubmitPlan(c, p, accepted))
  <1> DEFINE plan == [c.plans[p] EXCEPT
                        !.run = PlanRun(c.scenario, p),
                        !.status = IF accepted = "FAILED" THEN "FAILED"
                                   ELSE "RUNNING"]
             sent == SetPlan(c, p, plan)
  <1>1. plan \in Plan /\ plan.status # "APPROVED"
    BY RunTypes DEF Cycle, Plan, Lifecycle
  <1>2. SubmitPlan(c, p, accepted) =
          IF accepted = "COMPLETED" THEN RefreshPlan(sent, p, accepted) ELSE sent
    BY DEF SubmitPlan
  <1> HIDE DEF plan
  <1>3. Extends(c, sent) /\ sent \in Cycle
    BY <1>1, SetPlanExtends, SetPlanType
  <1> HIDE DEF sent
  <1>4. Extends(sent, RefreshPlan(sent, p, accepted))
    BY <1>3, RefreshPlanExtends
  <1> QED BY <1>2, <1>3, <1>4 DEF Extends

LEMMA RankExtends ==
  ASSUME NEW c \in Cycle
  PROVE  Extends(c, Rank(c)) /\ Extends(c, RankIfTerminal(c))
  <1>1. \A p \in Plans : RankedPlan(c, p).status \in {"RECOMMENDED", "EVALUATED"}
    BY DEF RankedPlan, Cycle, Plan
  <1>2. /\ Rank(c).run = c.run /\ Rank(c).scenario = c.scenario
        /\ \A p \in Plans : Rank(c).plans[p] =
              IF p \in Rankable(c) THEN RankedPlan(c, p) ELSE c.plans[p]
    BY DEF Rank, Cycle
  <1>3. Extends(c, Rank(c))
    BY <1>1, <1>2 DEF Extends
  <1> QED BY <1>3 DEF Extends, RankIfTerminal

LEMMA DecideFollows ==
  ASSUME NEW c \in Cycle, NEW p \in Plans,
         NEW decision \in {"APPROVED", "REJECTED"}, CanDecide(c, p, decision)
  PROVE  Follows(c, Decide(c, p, decision))
  <1>1. /\ Decide(c, p, decision).run = c.run
        /\ Decide(c, p, decision).scenario = c.scenario
        /\ \A q \in Plans : Decide(c, p, decision).plans[q].status =
              IF q = p THEN decision ELSE c.plans[q].status
    BY DEF Decide, SetPlan, Cycle, Plan
  <1> QED BY <1>1 DEF Follows, CanDecide

(***************************************************************************)
(* The inductive invariant.                                                *)
(***************************************************************************)
Sound(known, isFresh, next, c, plans) ==
    /\ next \in Phases /\ c \in Cycle /\ plans \in SUBSET Plans
    /\ Authoritative(c, known)
    /\ next = "submitBaseline" => c.run = NoRun
    /\ next = "refreshBaseline" => c.run # NoRun
    /\ next = "plans" => plans \subseteq NeedsCall(c)
    /\ next = "refreshPlan" => \A p \in plans : c.plans[p].run # NoRun
    /\ next = "overwrite" => "create" \in Ops /\ c = Blank
    /\ isFresh /\ next \notin {"idle", "overwrite"} => Follows(stored, c)

Safe ==
    /\ TypeOK
    /\ Authoritative(stored, runs)
    /\ \A r \in Requests : Sound(runs, fresh[r], phase[r], work[r], todo[r])

LEMMA InitSafe == Init => Safe
  <1> SUFFICES ASSUME Init PROVE Safe
    OBVIOUS
  <1>1. TypeOK
    BY InitType
  <1>2. Authoritative(stored, runs) /\ Authoritative(Blank, runs)
    BY DraftIsAuthoritative, CycleAssumption DEF Init, Blank, Generated
  <1>3. ASSUME NEW r \in Requests
        PROVE  Sound(runs, fresh[r], phase[r], work[r], todo[r])
    BY <1>2, BlankType DEF Init, Sound, Phases
  <1> QED BY <1>1, <1>2, <1>3 DEF Safe

\* Request r has moved on to a sound stage.
Moved(r) ==
    \E next \in Phases, c \in Cycle, plans \in SUBSET Plans :
        GoTo(r, next, c, plans) /\ Sound(runs', fresh[r]', next, c, plans)

LEMMA BecomesSound ==
  ASSUME TypeOK, NEW r \in Requests, NEW next, NEW c, NEW plans,
         GoTo(r, next, c, plans), Sound(runs', fresh[r]', next, c, plans)
  PROVE  Moved(r)
  BY DEF Moved, Sound

\* Nothing is committed: the other requests stay where they are.
LEMMA MoveKeepsSafe ==
  ASSUME Safe, TypeOK', NEW r \in Requests, Moved(r), Grows(runs, runs'),
         UNCHANGED stored, \A q \in Requests \ {r} : fresh'[q] = fresh[q]
  PROVE  Safe'
  <1>1. Authoritative(stored', runs')
    BY AuthoritativeGrows DEF Safe, TypeOK
  <1>2. PICK next \in Phases, c \in Cycle, plans \in SUBSET Plans :
           GoTo(r, next, c, plans) /\ Sound(runs', fresh[r]', next, c, plans)
    BY DEF Moved
  <1>3. \A d \in Cycle : Follows(stored, d) <=> Follows(stored', d)
    OBVIOUS
  <1>4. Sound(runs, fresh[r], phase[r], work[r], todo[r])'
    <2>1. phase'[r] = next /\ work'[r] = c /\ todo'[r] = plans
      BY <1>2 DEF GoTo, Safe, TypeOK
    <2> QED BY <1>2, <2>1 DEF Sound
  <1>5. ASSUME NEW q \in Requests \ {r}
        PROVE  Sound(runs, fresh[q], phase[q], work[q], todo[q])'
    <2>1. /\ phase'[q] = phase[q] /\ work'[q] = work[q] /\ todo'[q] = todo[q]
          /\ fresh'[q] = fresh[q]
      BY <1>2 DEF GoTo, Safe, TypeOK
    <2>2. Authoritative(work[q], runs')
      BY AuthoritativeGrows DEF Safe, Sound
    <2> QED BY <2>1, <2>2 DEF Sound, Safe
  <1> QED BY <1>1, <1>4, <1>5 DEF Safe

(***************************************************************************)
(* The stages of _advance_to_approval move a request soundly.  Good is what*)
(* a snapshot needs on the way.                                            *)
(***************************************************************************)
Good(r, c) ==
    c \in Cycle /\ Authoritative(c, runs') /\ (fresh[r]' => Follows(stored, c))

LEMMA ToSave ==
  ASSUME TypeOK, NEW r \in Requests, NEW c, Good(r, c), GoTo(r, "save", c, {})
  PROVE  Moved(r)
  <1>1. Sound(runs', fresh[r]', "save", c, {})
    BY DEF Good, Sound, Phases
  <1> QED BY <1>1, BecomesSound

LEMMA ToPlans ==
  ASSUME TypeOK, NEW r \in Requests, NEW c, Good(r, c),
         NEW plans, plans \subseteq NeedsCall(c), VisitPlans(r, c, plans)
  PROVE  Moved(r)
  <1>1. CASE plans = {}
    <2>1. GoTo(r, "save", RankIfTerminal(c), {})
      BY <1>1 DEF VisitPlans
    <2>2. RankIfTerminal(c) \in Cycle
      BY RankType DEF RankIfTerminal, Good
    <2>3. Good(r, RankIfTerminal(c))
      BY <2>2, RankIfTerminalIsAuthoritative, RankExtends, ExtendsFollows DEF Good
    <2> QED BY <2>1, <2>3, ToSave
  <1>2. CASE plans # {}
    <2>1. GoTo(r, "plans", c, plans)
      BY <1>2 DEF VisitPlans
    <2>2. Sound(runs', fresh[r]', "plans", c, plans)
      BY DEF Good, Sound, Phases, NeedsCall
    <2> QED BY <2>1, <2>2, BecomesSound
  <1> QED BY <1>1, <1>2

LEMMA ToAfterBaseline ==
  ASSUME TypeOK, NEW r \in Requests, NEW c, Good(r, c), AfterBaseline(r, c)
  PROVE  Moved(r)
  <1>1. CASE GoTo(r, "save", c, {})
    BY <1>1, ToSave
  <1>2. CASE GoTo(r, "propose", c, {})
    <2>1. Sound(runs', fresh[r]', "propose", c, {})
      BY DEF Good, Sound, Phases
    <2> QED BY <1>2, <2>1, BecomesSound
  <1>3. CASE VisitPlans(r, c, NeedsCall(c))
    BY <1>3, ToPlans
  <1> QED BY <1>1, <1>2, <1>3 DEF AfterBaseline

LEMMA ToAdvance ==
  ASSUME TypeOK, NEW r \in Requests, NEW c, Good(r, c), AdvanceFrom(r, c)
  PROVE  Moved(r)
  <1>1. CASE c.run # NoRun /\ GoTo(r, "refreshBaseline", c, {})
    <2>1. Sound(runs', fresh[r]', "refreshBaseline", c, {})
      BY <1>1 DEF Good, Sound, Phases
    <2> QED BY <1>1, <2>1, BecomesSound
  <1>2. CASE AfterBaseline(r, c)
    BY <1>2, ToAfterBaseline
  <1> QED BY <1>1, <1>2 DEF AdvanceFrom

(***************************************************************************)
(* One lemma per group of steps.                                           *)
(***************************************************************************)
LEMMA GrowsReflexive == UNCHANGED runs => Grows(runs, runs')
  BY DEF Grows

LEMMA StoredIsGood ==
  ASSUME Safe, NEW r \in Requests, UNCHANGED client
  PROVE  Good(r, stored)
  BY DEF Safe, TypeOK, Good, Follows, client

LEMMA StartKeepsSafe ==
  ASSUME Safe, NEW r \in Requests, Start(r)
  PROVE  Safe'
  <1>0. TypeOK /\ TypeOK'
    BY StartType DEF Safe
  <1>1. /\ UNCHANGED <<stored, client, faults>> /\ Read(r)
    BY DEF Start, StartCreate, StartScenario, StartProposals, StartRank, StartBaseline,
           StartAdvance, StartApprove, StartReject, StartSubmitPlan, StartRefreshPlan
  <1>2. Good(r, stored) /\ UNCHANGED runs
    BY <1>1, StoredIsGood DEF client
  <1>3. stored \in Cycle /\ Authoritative(stored, runs) /\ Follows(stored, stored)
    BY DEF Safe, TypeOK, Follows
  <1>4. ASSUME StartCreate(r) PROVE Moved(r)
    <2>0. Generated \in Scenarios
      BY CycleAssumption DEF Generated
    <2>1. Sound(runs', fresh[r]', "overwrite", Draft(Generated), {})
      BY <1>4, <2>0, DraftType, DraftIsAuthoritative
         DEF StartCreate, Begin, Sound, Phases, Blank
    <2> QED BY <1>0, <1>4, <2>1, BecomesSound DEF StartCreate
  <1>5. ASSUME NEW s \in Scenarios, StartScenario(r, s)
        PROVE  Moved(r)
    <2>1. Compose(stored, s) \in Cycle /\ Authoritative(Compose(stored, s), runs)
      BY <1>3, <1>5, ComposeType, ComposeIsAuthoritative DEF StartScenario
    <2>2. Follows(stored, Compose(stored, s))
      BY <1>3, <1>5 DEF StartScenario, CanCompose, Compose, Follows, NoPlans, PlanWith, Cycle
    <2>3. Good(r, Compose(stored, s))
      BY <1>2, <2>1, <2>2 DEF Good
    <2> QED BY <1>0, <1>5, <2>3, ToSave DEF StartScenario
  <1>6. ASSUME NEW P \in SUBSET Plans, StartProposals(r, P)
        PROVE  Moved(r)
    <2>1. Good(r, ProposePlans(stored, P))
      BY <1>2, <1>3, ProposePlansType, ProposePlansIsAuthoritative,
         ProposePlansExtends, ExtendsFollows DEF Good
    <2> QED BY <1>0, <1>6, <2>1, ToSave DEF StartProposals
  <1>7. ASSUME StartRank(r) PROVE Moved(r)
    <2>1. Good(r, Rank(stored))
      BY <1>2, <1>3, RankType, RankIsAuthoritative, RankExtends, ExtendsFollows DEF Good
    <2> QED BY <1>0, <1>7, <2>1, ToSave DEF StartRank
  <1>8. ASSUME StartBaseline(r) PROVE Moved(r)
    <2>1. Sound(runs', fresh[r]', "submitBaseline", stored, {})
      BY <1>2, <1>8 DEF StartBaseline, Sound, Good, Phases
    <2> QED BY <1>0, <1>8, <2>1, BecomesSound DEF StartBaseline
  <1>9. ASSUME StartAdvance(r) PROVE Moved(r)
    BY <1>0, <1>2, <1>9, ToAdvance DEF StartAdvance
  <1>10. ASSUME NEW p \in Plans, StartApprove(r, p) \/ StartReject(r, p)
         PROVE  Moved(r)
    <2>1. PICK decision \in {"APPROVED", "REJECTED"} :
             /\ CanDecide(stored, p, decision)
             /\ GoTo(r, "save", Decide(stored, p, decision), {})
      BY <1>10 DEF StartApprove, StartReject
    <2>2. /\ Decide(stored, p, decision) \in Cycle
          /\ Authoritative(Decide(stored, p, decision), runs)
          /\ Follows(stored, Decide(stored, p, decision))
      BY <1>3, <2>1, DecideType, DecideIsAuthoritative, DecideFollows
    <2>3. Good(r, Decide(stored, p, decision))
      BY <1>2, <2>2 DEF Good
    <2> QED BY <1>0, <2>1, <2>3, ToSave
  <1>11. ASSUME NEW p \in Plans, StartSubmitPlan(r, p)
         PROVE  Moved(r)
    <2>1. Sound(runs', fresh[r]', "submitPlan", stored, {p})
      BY <1>2 DEF Sound, Good, Phases
    <2> QED BY <1>0, <1>11, <2>1, BecomesSound DEF StartSubmitPlan
  <1>12. ASSUME NEW p \in Plans, StartRefreshPlan(r, p)
         PROVE  Moved(r)
    <2>1. CASE AdvanceFrom(r, stored)
      BY <1>0, <1>2, <2>1, ToAdvance
    <2>2. CASE stored.plans[p].run # NoRun /\ GoTo(r, "refreshPlan", stored, {p})
      <3>1. Sound(runs', fresh[r]', "refreshPlan", stored, {p})
        BY <1>2, <2>2 DEF Sound, Good, Phases
      <3> QED BY <1>0, <2>2, <3>1, BecomesSound
    <2> QED BY <1>12, <2>1, <2>2 DEF StartRefreshPlan
  <1>13. Moved(r)
    BY <1>4, <1>5, <1>6, <1>7, <1>8, <1>9, <1>10, <1>11, <1>12 DEF Start
  <1>14. \A q \in Requests \ {r} : fresh'[q] = fresh[q]
    BY <1>0, <1>1 DEF Read, TypeOK
  <1> QED BY <1>0, <1>1, <1>2, <1>13, <1>14, GrowsReflexive, MoveKeepsSafe

LEMMA SubmitBaselineCallKeepsSafe ==
  ASSUME Safe, NEW r \in Requests, SubmitBaselineCall(r)
  PROVE  Safe'
  <1>0. TypeOK /\ TypeOK'
    BY CallType DEF Safe, Call
  <1> DEFINE d == work[r]
             k == BaselineRun(d.scenario)
  <1>1. PICK accepted \in RunState :
           Submitted(k, accepted) /\ AdvanceFrom(r, SubmitBaseline(d, accepted))
    BY DEF SubmitBaselineCall
  <1>2. /\ d \in Cycle /\ d.run = NoRun /\ Authoritative(d, runs)
        /\ fresh[r] => Follows(stored, d)
    BY DEF Safe, Sound, SubmitBaselineCall
  <1>3. k \in Runs
    BY <1>2, RunTypes DEF Cycle
  <1> HIDE DEF k
  <1>4. Grows(runs, runs') /\ runs'[k] = accepted /\ accepted # "ABSENT"
    BY <1>0, <1>1, <1>3, SubmittedGrows
  <1>5. Authoritative(d, runs')
    BY <1>2, <1>4, AuthoritativeGrows
  <1>6. /\ SubmitBaseline(d, accepted) \in Cycle
        /\ Authoritative(SubmitBaseline(d, accepted), runs')
    BY <1>2, <1>4, <1>5, SubmitBaselineType, SubmitBaselineIsAuthoritative DEF k
  <1>7. fresh[r] => Follows(stored, SubmitBaseline(d, accepted))
    BY <1>2, SubmitBaselineExtends, ExtendsFollows
  <1>8. Good(r, SubmitBaseline(d, accepted))
    BY <1>6, <1>7 DEF Good, SubmitBaselineCall
  <1>9. Moved(r)
    BY <1>0, <1>1, <1>8, ToAdvance
  <1> QED BY <1>0, <1>4, <1>9, MoveKeepsSafe DEF SubmitBaselineCall

LEMMA BaselineCallsKeepSafe ==
  ASSUME Safe, NEW r \in Requests,
         RefreshBaselineCall(r) \/ ProposeCall(r) \/ ProposeUnavailable(r)
  PROVE  Safe'
  <1>0. TypeOK /\ TypeOK'
    BY CallType DEF Safe, Call
  <1> DEFINE d == work[r]
  <1>1. /\ d \in Cycle /\ Authoritative(d, runs) /\ UNCHANGED <<stored, client, fresh>>
        /\ fresh[r] => Follows(stored, d)
    BY DEF Safe, Sound, RefreshBaselineCall, ProposeCall, ProposeUnavailable
  <1>2. ASSUME RefreshBaselineCall(r) PROVE Moved(r)
    <2>1. d.run # NoRun
      BY <1>2 DEF Safe, Sound, RefreshBaselineCall
    <2>2. Good(r, RefreshBaseline(d, runs[d.run]))
      BY <1>1, <2>1, RefreshBaselineType, RefreshBaselineIsAuthoritative,
         RefreshBaselineExtends, ExtendsFollows DEF Good, client
    <2> QED BY <1>0, <1>2, <2>2, ToAfterBaseline DEF RefreshBaselineCall
  <1>3. ASSUME ProposeCall(r) PROVE Moved(r)
    <2>1. PICK P \in SUBSET Plans :
            LET c == ProposePlans(d, P)
            IN  IF P = {} THEN GoTo(r, "save", [c EXCEPT !.status = "EVALUATED"], {})
                          ELSE VisitPlans(r, c, NeedsCall(c))
      BY <1>3 DEF ProposeCall
    <2> DEFINE c == ProposePlans(d, P)
    <2>2. c \in Cycle /\ Authoritative(c, runs) /\ (fresh[r] => Follows(stored, c))
      BY <1>1, ProposePlansType, ProposePlansIsAuthoritative,
         ProposePlansExtends, ExtendsFollows
    <2> HIDE DEF c
    <2> DEFINE e == [c EXCEPT !.status = "EVALUATED"]
    <2>3. /\ e.run = c.run /\ e.scenario = c.scenario /\ e.metrics = c.metrics
          /\ e.plans = c.plans /\ e.status = "EVALUATED" /\ e \in Cycle
      BY <2>2 DEF Cycle, Lifecycle
    <2>4. CASE GoTo(r, "save", e, {})
      <3> HIDE DEF e
      <3>1. Good(r, e)
        BY <1>1, <2>2, <2>3 DEF Good, Authoritative, Follows, client
      <3> QED BY <1>0, <2>4, <3>1, ToSave
    <2>5. CASE VisitPlans(r, c, NeedsCall(c))
      <3>1. Good(r, c)
        BY <1>1, <2>2 DEF Good, client
      <3> QED BY <1>0, <2>5, <3>1, ToPlans
    <2> QED BY <2>1, <2>4, <2>5 DEF c
  <1>4. ASSUME ProposeUnavailable(r) PROVE Moved(r)
    <2>1. Good(r, d)
      BY <1>1 DEF Good, client
    <2> QED BY <1>0, <1>4, <2>1, ToSave DEF ProposeUnavailable
  <1> QED BY <1>0, <1>1, <1>2, <1>3, <1>4, GrowsReflexive, MoveKeepsSafe DEF client

\* Setting one plan leaves the plans the loop has still to visit as they were.
LEMMA OthersStillNeedCalls ==
  ASSUME NEW c \in Cycle, NEW p \in Plans, NEW plans \in SUBSET NeedsCall(c),
         NEW e, \A q \in Plans \ {p} : e.plans[q] = c.plans[q]
  PROVE  plans \ {p} \subseteq NeedsCall(e)
  BY DEF NeedsCall, NeedsSubmit

LEMMA OnePlanChanges ==
  ASSUME NEW c \in Cycle, NEW p \in Plans, NEW seen
  PROVE  /\ \A q \in Plans \ {p} : RefreshPlan(c, p, seen).plans[q] = c.plans[q]
         /\ \A q \in Plans \ {p} : SubmitPlan(c, p, seen).plans[q] = c.plans[q]
  <1>1. ASSUME NEW b \in Cycle, NEW plan
        PROVE  \A q \in Plans \ {p} : SetPlan(b, p, plan).plans[q] = b.plans[q]
    BY DEF SetPlan, Cycle
  <1>2. ASSUME NEW b \in Cycle
        PROVE  \A q \in Plans \ {p} : RefreshPlan(b, p, seen).plans[q] = b.plans[q]
    BY <1>1 DEF RefreshPlan
  <1> DEFINE plan == [c.plans[p] EXCEPT
                        !.run = PlanRun(c.scenario, p),
                        !.status = IF seen = "FAILED" THEN "FAILED" ELSE "RUNNING"]
             sent == SetPlan(c, p, plan)
  <1>3. plan \in Plan
    BY RunTypes DEF Cycle, Plan, Lifecycle
  <1>4. SubmitPlan(c, p, seen) =
          IF seen = "COMPLETED" THEN RefreshPlan(sent, p, seen) ELSE sent
    BY DEF SubmitPlan
  <1> HIDE DEF plan
  <1>5. sent \in Cycle /\ \A q \in Plans \ {p} : sent.plans[q] = c.plans[q]
    BY <1>1, <1>3, SetPlanType
  <1> HIDE DEF sent
  <1> QED BY <1>2, <1>4, <1>5

LEMMA PlanCallKeepsSafe ==
  ASSUME Safe, NEW r \in Requests, PlanCall(r)
  PROVE  Safe'
  <1>0. TypeOK /\ TypeOK'
    BY CallType DEF Safe, Call
  <1> DEFINE d == work[r]
  <1>1. /\ d \in Cycle /\ Authoritative(d, runs) /\ UNCHANGED <<stored, fresh>>
        /\ todo[r] \in SUBSET NeedsCall(d) /\ todo[r] \in SUBSET Plans
        /\ fresh[r] => Follows(stored, d)
    BY DEF Safe, Sound, PlanCall
  <1>2. PICK p \in todo[r] :
          \/ /\ NeedsSubmit(d, p)
             /\ \E accepted \in RunState :
                   /\ Submitted(PlanRun(d.scenario, p), accepted)
                   /\ VisitPlans(r, SubmitPlan(d, p, accepted), todo[r] \ {p})
          \/ /\ ~NeedsSubmit(d, p)
             /\ VisitPlans(r, RefreshPlan(d, p, runs[d.plans[p].run]), todo[r] \ {p})
             /\ UNCHANGED client
    BY DEF PlanCall
  <1>3. p \in Plans
    BY <1>1
  <1>4. CASE NeedsSubmit(d, p) /\ \E accepted \in RunState :
                /\ Submitted(PlanRun(d.scenario, p), accepted)
                /\ VisitPlans(r, SubmitPlan(d, p, accepted), todo[r] \ {p})
    <2>1. PICK accepted \in RunState :
             /\ Submitted(PlanRun(d.scenario, p), accepted)
             /\ VisitPlans(r, SubmitPlan(d, p, accepted), todo[r] \ {p})
      BY <1>4
    <2> DEFINE k == PlanRun(d.scenario, p)
    <2>2. k \in Runs
      BY <1>1, <1>3, RunTypes DEF Cycle
    <2> HIDE DEF k
    <2>3. Grows(runs, runs') /\ runs'[k] = accepted /\ accepted # "ABSENT"
      BY <1>0, <2>1, <2>2, SubmittedGrows DEF k
    <2>4. Authoritative(d, runs')
      BY <1>1, <2>3, AuthoritativeGrows
    <2>5. Good(r, SubmitPlan(d, p, accepted))
      BY <1>1, <1>3, <2>3, <2>4, SubmitPlanType, SubmitPlanIsAuthoritative,
         SubmitPlanExtends, ExtendsFollows DEF Good, k
    <2>6. todo[r] \ {p} \subseteq NeedsCall(SubmitPlan(d, p, accepted))
      BY <1>1, <1>3, OthersStillNeedCalls, OnePlanChanges
    <2>7. Moved(r)
      BY <1>0, <2>1, <2>5, <2>6, ToPlans
    <2> QED BY <1>0, <1>1, <2>3, <2>7, MoveKeepsSafe
  <1>5. CASE /\ ~NeedsSubmit(d, p)
             /\ VisitPlans(r, RefreshPlan(d, p, runs[d.plans[p].run]), todo[r] \ {p})
             /\ UNCHANGED client
    <2> DEFINE e == RefreshPlan(d, p, runs[d.plans[p].run])
    <2>1. d.plans[p].run # NoRun
      BY <1>1, <1>3, <1>5 DEF NeedsCall, Authoritative
    <2>2. Good(r, e)
      BY <1>1, <1>3, <1>5, <2>1, RefreshPlanType, RefreshPlanIsAuthoritative,
         RefreshPlanExtends, ExtendsFollows DEF Good, client
    <2>3. todo[r] \ {p} \subseteq NeedsCall(e)
      BY <1>1, <1>3, OthersStillNeedCalls, OnePlanChanges
    <2> HIDE DEF e
    <2>4. Moved(r)
      BY <1>0, <1>5, <2>2, <2>3, ToPlans DEF e
    <2> QED BY <1>0, <1>1, <1>5, <2>4, GrowsReflexive, MoveKeepsSafe DEF client
  <1> QED BY <1>2, <1>4, <1>5

LEMMA SubmitPlanCallKeepsSafe ==
  ASSUME Safe, NEW r \in Requests, SubmitPlanCall(r)
  PROVE  Safe'
  <1>0. TypeOK /\ TypeOK'
    BY CallType DEF Safe, Call
  <1> DEFINE d == work[r]
  <1>1. /\ d \in Cycle /\ Authoritative(d, runs) /\ UNCHANGED <<stored, fresh>>
        /\ todo[r] \in SUBSET Plans
        /\ fresh[r] => Follows(stored, d)
    BY DEF Safe, Sound, SubmitPlanCall
  <1>2. PICK p \in todo[r], accepted \in RunState :
           /\ Submitted(PlanRun(d.scenario, p), accepted)
           /\ GoTo(r, "save", SubmitPlan(d, p, accepted), {})
    BY DEF SubmitPlanCall
  <1> DEFINE k == PlanRun(d.scenario, p)
  <1>3. p \in Plans /\ k \in Runs
    BY <1>1, RunTypes DEF Cycle
  <1> HIDE DEF k
  <1>4. Grows(runs, runs') /\ runs'[k] = accepted /\ accepted # "ABSENT"
    BY <1>0, <1>2, <1>3, SubmittedGrows DEF k
  <1>5. Authoritative(d, runs')
    BY <1>1, <1>4, AuthoritativeGrows
  <1>6. Good(r, SubmitPlan(d, p, accepted))
    BY <1>1, <1>3, <1>4, <1>5, SubmitPlanType, SubmitPlanIsAuthoritative,
       SubmitPlanExtends, ExtendsFollows DEF Good, k
  <1>7. Moved(r)
    BY <1>0, <1>2, <1>6, ToSave
  <1> QED BY <1>0, <1>1, <1>4, <1>7, MoveKeepsSafe

LEMMA RefreshPlanCallKeepsSafe ==
  ASSUME Safe, NEW r \in Requests, RefreshPlanCall(r)
  PROVE  Safe'
  <1>0. TypeOK /\ TypeOK'
    BY CallType DEF Safe, Call
  <1> DEFINE d == work[r]
  <1>1. /\ d \in Cycle /\ Authoritative(d, runs) /\ UNCHANGED <<stored, client, fresh>>
        /\ todo[r] \in SUBSET Plans /\ \A p \in todo[r] : d.plans[p].run # NoRun
        /\ fresh[r] => Follows(stored, d)
    BY DEF Safe, Sound, RefreshPlanCall
  <1>2. PICK p \in todo[r] : AdvanceFrom(r, RefreshPlan(d, p, runs[d.plans[p].run]))
    BY DEF RefreshPlanCall
  <1>3. Good(r, RefreshPlan(d, p, runs[d.plans[p].run]))
    BY <1>1, RefreshPlanType, RefreshPlanIsAuthoritative, RefreshPlanExtends,
       ExtendsFollows DEF Good, client
  <1>4. Moved(r)
    BY <1>0, <1>2, <1>3, ToAdvance
  <1> QED BY <1>0, <1>1, <1>4, GrowsReflexive, MoveKeepsSafe DEF client

\* A request that ends without a commit.
LEMMA ReleaseKeepsSafe ==
  ASSUME Safe, TypeOK', NEW r \in Requests, Release(r), UNCHANGED <<stored, client>>
  PROVE  Safe'
  <1>1. Authoritative(Blank, runs')
    BY DraftIsAuthoritative, CycleAssumption DEF Blank, Generated
  <1>2. Sound(runs', fresh[r]', "idle", Blank, {})
    BY <1>1, BlankType DEF Sound, Phases
  <1>3. Moved(r)
    BY <1>2, BecomesSound DEF Release, Safe
  <1>4. \A q \in Requests \ {r} : fresh'[q] = fresh[q]
    BY DEF Release, Safe, TypeOK
  <1> QED BY <1>3, <1>4, GrowsReflexive, MoveKeepsSafe DEF client

\* After a commit no request in flight is fresh.
LEMMA CommitKeepsSafe ==
  ASSUME Safe, TypeOK', NEW r \in Requests, Commit(r)
  PROVE  Safe'
  <1>1. Authoritative(stored', runs')
    BY DEF Safe, Sound, Commit, client
  <1>2. Authoritative(Blank, runs')
    BY DraftIsAuthoritative, CycleAssumption DEF Blank, Generated
  <1>3. ASSUME NEW q \in Requests
        PROVE  Sound(runs, fresh[q], phase[q], work[q], todo[q])'
    <2>1. ~fresh'[q] /\ UNCHANGED runs
      BY DEF Commit, client
    <2>2. CASE q = r
      <3>1. phase'[q] = "idle" /\ work'[q] = Blank /\ todo'[q] = {}
        BY <2>2 DEF Commit, GoTo, Safe, TypeOK
      <3> QED BY <1>2, <2>1, <3>1, BlankType DEF Sound, Phases
    <2>3. CASE q # r
      <3>1. phase'[q] = phase[q] /\ work'[q] = work[q] /\ todo'[q] = todo[q]
        BY <2>3 DEF Commit, GoTo, Safe, TypeOK
      <3> QED BY <2>1, <3>1 DEF Sound, Safe
    <2> QED BY <2>2, <2>3
  <1> QED BY <1>1, <1>3 DEF Safe

LEMMA ClientKeepsSafe ==
  ASSUME Safe, (\E k \in Runs : FinishRun(k)) \/ MoveContext
  PROVE  Safe'
  <1>1. TypeOK'
    BY ClientType DEF Safe
  <1>2. Grows(runs, runs') /\ UNCHANGED <<stored, request>>
    BY DEF Grows, FinishRun, MoveContext, Safe, TypeOK
  <1>3. Authoritative(stored', runs')
    BY <1>2, AuthoritativeGrows DEF Safe, TypeOK
  <1>4. ASSUME NEW q \in Requests
        PROVE  Sound(runs, fresh[q], phase[q], work[q], todo[q])'
    <2>1. Authoritative(work[q], runs')
      BY <1>2, AuthoritativeGrows DEF Safe, Sound
    <2> QED BY <1>2, <2>1 DEF Sound, Safe, request
  <1> QED BY <1>1, <1>3, <1>4 DEF Safe

LEMMA StepSafe == Safe /\ [Next]_vars => Safe'
  <1> SUFFICES ASSUME Safe, [Next]_vars PROVE Safe'
    OBVIOUS
  <1>0. TypeOK'
    BY StepType DEF Safe
  <1>1. CASE UNCHANGED vars
    BY <1>0, <1>1 DEF vars, client, request, Safe, Sound
  <1>2. ASSUME NEW r \in Requests, Call(r) \/ ProposeUnavailable(r) PROVE Safe'
    BY <1>0, <1>2, SubmitBaselineCallKeepsSafe, BaselineCallsKeepSafe,
       PlanCallKeepsSafe, SubmitPlanCallKeepsSafe, RefreshPlanCallKeepsSafe,
       ReleaseKeepsSafe DEF Call, StaleContext
  <1>3. ASSUME NEW r \in Requests, End(r) \/ Abort(r) PROVE Safe'
    BY <1>0, <1>3, CommitKeepsSafe, ReleaseKeepsSafe
       DEF End, Save, Conflict, Overwrite, Abort
  <1> QED BY <1>1, <1>2, <1>3, StartKeepsSafe, ClientKeepsSafe DEF Next

THEOREM AlwaysSafe == Spec => []Safe
  BY InitSafe, StepSafe, PTL DEF Spec

\* Every stored result and failure is the client's, about exactly the frozen
\* scenario, whatever requests overlap, conflict or die.
THEOREM StoredResultsAreAuthoritative == Spec => []ResultsAreAuthoritative
  <1>1. Safe => ResultsAreAuthoritative
    BY DEF Safe, ResultsAreAuthoritative
  <1> QED BY <1>1, AlwaysSafe, PTL

\* What a step does to the stored snapshot: nothing, or a commit of the copy
\* of a fresh request, or of a new draft.
LEMMA StoredChanges ==
  ASSUME Safe, [Next]_vars
  PROVE  \/ UNCHANGED stored
         \/ \E r \in Requests : stored' = work[r] /\ Follows(stored, work[r])
         \/ "create" \in Ops /\ stored' = Blank
  <1>1. CASE UNCHANGED vars
    BY <1>1 DEF vars
  <1>2. ASSUME NEW r \in Requests, Start(r) \/ Call(r) PROVE UNCHANGED stored
    BY <1>2 DEF Start, StartCreate, StartScenario, StartProposals, StartRank,
       StartBaseline, StartAdvance, StartApprove, StartReject, StartSubmitPlan,
       StartRefreshPlan, Call, SubmitBaselineCall, RefreshBaselineCall, ProposeCall,
       PlanCall, SubmitPlanCall, RefreshPlanCall, StaleContext
  <1>3. ASSUME NEW r \in Requests, ProposeUnavailable(r) \/ Abort(r) \/ Conflict(r)
        PROVE  UNCHANGED stored
    BY <1>3 DEF ProposeUnavailable, Abort, Conflict
  <1>4. ASSUME NEW r \in Requests, Save(r)
        PROVE  stored' = work[r] /\ Follows(stored, work[r])
    BY <1>4 DEF Save, Commit, Safe, Sound
  <1>5. ASSUME NEW r \in Requests, Overwrite(r)
        PROVE  "create" \in Ops /\ stored' = Blank
    BY <1>5 DEF Overwrite, Commit, Safe, Sound
  <1>6. ASSUME (\E k \in Runs : FinishRun(k)) \/ MoveContext PROVE UNCHANGED stored
    BY <1>6 DEF FinishRun, MoveContext
  <1> QED BY <1>1, <1>2, <1>3, <1>4, <1>5, <1>6 DEF Next, End

\* No commit approves a plan that is not recommended at that moment.
THEOREM ApprovalsFollowRecommendations == Spec => ApprovalFollowsRecommendation
  <1> DEFINE Approves == \A p \in Plans :
          /\ stored'.plans[p].status = "APPROVED"
          /\ stored.plans[p].status # "APPROVED"
          => stored.plans[p].status = "RECOMMENDED"
  <1>1. Safe /\ [Next]_vars => [Approves]_vars
    <2>1. \A p \in Plans : Blank.plans[p].status # "APPROVED"
      BY DEF Blank, Draft, NoPlans, PlanWith
    <2> QED BY <2>1, StoredChanges DEF Follows
  <1>2. Spec => [][Approves]_vars
    BY <1>1, AlwaysSafe, PTL DEF Spec
  <1> QED BY <1>2 DEF ApprovalFollowsRecommendation

\* While no caller creates the cycle anew, a recorded run and its scenario
\* stay, whatever scenario edits were in flight when it was recorded.
THEOREM SubmittedScenarioIsFrozen ==
  ASSUME "create" \notin Ops
  PROVE  Spec => ScenarioFrozen
  <1> DEFINE Frozen == stored.run # NoRun =>
                          stored'.run = stored.run /\ stored'.scenario = stored.scenario
  <1>1. Safe /\ [Next]_vars => [Frozen]_vars
    BY StoredChanges DEF Follows
  <1>2. Spec => [][Frozen]_vars
    BY <1>1, AlwaysSafe, PTL DEF Spec
  <1> QED BY <1>2 DEF ScenarioFrozen

\* Whoever calls what, a recorded run and its scenario only give way to a
\* cycle that is created anew.
THEOREM OnlyCreationReplacesScenarios == Spec => OnlyCreationReplaces
  <1> DEFINE Stays == stored.run # NoRun =>
                         \/ stored'.run = stored.run /\ stored'.scenario = stored.scenario
                         \/ stored' = Blank
  <1>1. Safe /\ [Next]_vars => [Stays]_vars
    BY StoredChanges DEF Follows
  <1>2. Spec => [][Stays]_vars
    BY <1>1, AlwaysSafe, PTL DEF Spec
  <1> QED BY <1>2 DEF OnlyCreationReplaces

(***************************************************************************)
(* What the plans of a snapshot rest on.  Earned says it of a snapshot,    *)
(* Worthy of a request: one that is about to propose, or still has plans   *)
(* to visit, holds a baseline that was measured.                           *)
(***************************************************************************)
Earned(c) ==
    \A p \in Plans :
        /\ c.plans[p].status # "ABSENT" => c.metrics # NoRun
        /\ c.plans[p].status \in {"RECOMMENDED", "APPROVED"} =>
              c.plans[p].metrics # NoRun /\ c.plans[p].rank = 1 /\ p \notin Violating

Worthy(next, c, plans) ==
    Earned(c) /\ (next = "propose" \/ plans # {} => c.metrics # NoRun)

AllEarned ==
    /\ TypeOK
    /\ Earned(stored)
    /\ \A r \in Requests : Worthy(phase[r], work[r], todo[r])

LEMMA DraftIsEarned == \A s \in Scenarios : Earned(Draft(s))
  BY DEF Earned, Draft, NoPlans, PlanWith

LEMMA BlankIsEarned == Earned(Blank)
  BY DraftIsEarned, CycleAssumption DEF Blank, Generated

LEMMA ComposeIsEarned ==
  ASSUME NEW c \in Cycle, NEW s \in Scenarios
  PROVE  Earned(Compose(c, s))
  BY DEF Earned, Compose, NoPlans, PlanWith, Cycle

\* As long as there is no measurement there are no plans.
LEMMA RefreshBaselineIsEarned ==
  ASSUME NEW c \in Cycle, NEW seen, Earned(c)
  PROVE  Earned(RefreshBaseline(c, seen))
  <1>1. CASE c.metrics # NoRun
    BY <1>1 DEF RefreshBaseline
  <1>2. CASE c.metrics = NoRun
    <2>1. RefreshBaseline(c, seen).plans = c.plans
      BY <1>2 DEF RefreshBaseline, Cycle
    <2>2. \A p \in Plans : c.plans[p].status = "ABSENT"
      BY <1>2 DEF Earned
    <2> QED BY <2>1, <2>2 DEF Earned
  <1> QED BY <1>1, <1>2

LEMMA SubmitBaselineIsEarned ==
  ASSUME NEW c \in Cycle, NEW accepted \in RunState, Earned(c)
  PROVE  Earned(SubmitBaseline(c, accepted))
  <1> DEFINE sent == [c EXCEPT !.run = BaselineRun(c.scenario),
                          !.status = CASE accepted = "RUNNING" -> "RUNNING"
                                       [] accepted = "FAILED"  -> "FAILED"
                                       [] OTHER                -> "SUBMITTED"]
  <1>1. sent \in Cycle
    BY RunTypes DEF Cycle, Lifecycle
  <1>2. sent.plans = c.plans /\ sent.metrics = c.metrics
    BY DEF Cycle
  <1>3. SubmitBaseline(c, accepted) =
           IF accepted = "COMPLETED" THEN RefreshBaseline(sent, accepted) ELSE sent
    BY DEF SubmitBaseline
  <1> HIDE DEF sent
  <1>4. Earned(sent)
    BY <1>2 DEF Earned
  <1> QED BY <1>1, <1>3, <1>4, RefreshBaselineIsEarned

LEMMA ProposePlansIsEarned ==
  ASSUME NEW c \in Cycle, NEW P, c.metrics # NoRun
  PROVE  Earned(ProposePlans(c, P)) /\ ProposePlans(c, P).metrics # NoRun
  <1>1. /\ ProposePlans(c, P).metrics = c.metrics
        /\ \A p \in Plans : ProposePlans(c, P).plans[p].status \in {"VALIDATED", "ABSENT"}
    BY DEF ProposePlans, PlanWith, Cycle
  <1> QED BY <1>1 DEF Earned

\* A plan record that recommends nothing, on top of a measurement.
LEMMA SetPlanIsEarned ==
  ASSUME NEW c \in Cycle, NEW p \in Plans, NEW plan, Earned(c), c.metrics # NoRun,
         plan.status \notin {"RECOMMENDED", "APPROVED"}
  PROVE  Earned(SetPlan(c, p, plan)) /\ SetPlan(c, p, plan).metrics # NoRun
  <1>1. /\ SetPlan(c, p, plan).metrics = c.metrics
        /\ \A q \in Plans : SetPlan(c, p, plan).plans[q] = IF q = p THEN plan ELSE c.plans[q]
    BY DEF SetPlan, Cycle
  <1> QED BY <1>1 DEF Earned

LEMMA RefreshPlanIsEarned ==
  ASSUME NEW c \in Cycle, NEW p \in Plans, NEW seen, Earned(c), c.metrics # NoRun
  PROVE  Earned(RefreshPlan(c, p, seen)) /\ RefreshPlan(c, p, seen).metrics # NoRun
  <1> DEFINE failed == [c.plans[p] EXCEPT !.status = "FAILED"]
             done == [c.plans[p] EXCEPT !.status = "EVALUATED",
                                        !.metrics = c.plans[p].run]
  <1>1. failed.status = "FAILED" /\ done.status = "EVALUATED"
    BY DEF Cycle, Plan
  <1>2. RefreshPlan(c, p, seen) \in {c, SetPlan(c, p, failed), SetPlan(c, p, done)}
    BY DEF RefreshPlan
  <1> HIDE DEF failed, done
  <1> QED BY <1>1, <1>2, SetPlanIsEarned

LEMMA SubmitPlanIsEarned ==
  ASSUME NEW c \in Cycle, NEW p \in Plans, NEW accepted, Earned(c), c.metrics # NoRun
  PROVE  Earned(SubmitPlan(c, p, accepted)) /\ SubmitPlan(c, p, accepted).metrics # NoRun
  <1> DEFINE plan == [c.plans[p] EXCEPT
                        !.run = PlanRun(c.scenario, p),
                        !.status = IF accepted = "FAILED" THEN "FAILED"
                                   ELSE "RUNNING"]
             sent == SetPlan(c, p, plan)
  <1>1. plan \in Plan /\ plan.status \in {"FAILED", "RUNNING"}
    BY RunTypes DEF Cycle, Plan, Lifecycle
  <1>2. SubmitPlan(c, p, accepted) =
          IF accepted = "COMPLETED" THEN RefreshPlan(sent, p, accepted) ELSE sent
    BY DEF SubmitPlan
  <1> HIDE DEF plan
  <1>3. sent \in Cycle /\ Earned(sent) /\ sent.metrics # NoRun
    BY <1>1, SetPlanIsEarned, SetPlanType
  <1> HIDE DEF sent
  <1> QED BY <1>2, <1>3, RefreshPlanIsEarned

\* Only plans that were measured take part in a ranking.
LEMMA RankIsEarned ==
  ASSUME NEW c \in Cycle, Earned(c)
  PROVE  Earned(Rank(c)) /\ Earned(RankIfTerminal(c))
  <1>1. \A p \in Plans :
           /\ RankedPlan(c, p).metrics = c.plans[p].metrics
           /\ RankedPlan(c, p).rank = Position(Rankable(c), p)
           /\ RankedPlan(c, p).status \in {"RECOMMENDED", "EVALUATED"}
           /\ RankedPlan(c, p).status = "RECOMMENDED" =>
                 Position(Rankable(c), p) = 1 /\ p \notin Violating
    BY DEF RankedPlan, Cycle, Plan
  <1>2. /\ Rank(c).metrics = c.metrics
        /\ \A p \in Plans : Rank(c).plans[p] =
              IF p \in Rankable(c) THEN RankedPlan(c, p) ELSE c.plans[p]
    BY DEF Rank, Cycle
  <1>3. \A p \in Rankable(c) : c.plans[p].metrics # NoRun /\ c.plans[p].status = "EVALUATED"
    BY DEF Rankable, WithStatus
  <1>4. Earned(Rank(c))
    BY <1>1, <1>2, <1>3 DEF Earned
  <1> QED BY <1>4 DEF RankIfTerminal

LEMMA DecideIsEarned ==
  ASSUME NEW c \in Cycle, NEW p \in Plans, Earned(c),
         NEW decision \in {"APPROVED", "REJECTED"}, CanDecide(c, p, decision)
  PROVE  Earned(Decide(c, p, decision))
  <1>1. /\ Decide(c, p, decision).metrics = c.metrics
        /\ \A q \in Plans :
              /\ Decide(c, p, decision).plans[q].metrics = c.plans[q].metrics
              /\ Decide(c, p, decision).plans[q].rank = c.plans[q].rank
              /\ Decide(c, p, decision).plans[q].status =
                    IF q = p THEN decision ELSE c.plans[q].status
    BY DEF Decide, SetPlan, Cycle, Plan
  <1> QED BY <1>1 DEF Earned, CanDecide, Present

(***************************************************************************)
(* A request moves on.                                                     *)
(***************************************************************************)
LEMMA MoveKeepsEarned ==
  ASSUME AllEarned, TypeOK', UNCHANGED stored, NEW r \in Requests, NEW next, NEW c, NEW plans,
         GoTo(r, next, c, plans), Worthy(next, c, plans)
  PROVE  AllEarned'
  <1>1. Earned(stored')
    BY DEF AllEarned
  <1>2. ASSUME NEW q \in Requests PROVE Worthy(phase[q], work[q], todo[q])'
    <2>1. CASE q = r
      <3>1. phase'[q] = next /\ work'[q] = c /\ todo'[q] = plans
        BY <2>1 DEF GoTo, AllEarned, TypeOK
      <3> QED BY <3>1 DEF Worthy, Earned
    <2>2. CASE q # r
      <3>1. phase'[q] = phase[q] /\ work'[q] = work[q] /\ todo'[q] = todo[q]
        BY <2>2 DEF GoTo, AllEarned, TypeOK
      <3> QED BY <3>1 DEF Worthy, Earned, AllEarned
    <2> QED BY <2>1, <2>2
  <1> QED BY <1>1, <1>2 DEF AllEarned, Earned

LEMMA VisitKeepsEarned ==
  ASSUME AllEarned, TypeOK', UNCHANGED stored, NEW r \in Requests, NEW c \in Cycle, NEW plans,
         Earned(c), c.metrics # NoRun, VisitPlans(r, c, plans)
  PROVE  AllEarned'
  <1>1. CASE GoTo(r, "save", RankIfTerminal(c), {})
    BY <1>1, RankIsEarned, MoveKeepsEarned DEF Worthy
  <1>2. CASE GoTo(r, "plans", c, plans)
    BY <1>2, MoveKeepsEarned DEF Worthy
  <1> QED BY <1>1, <1>2 DEF VisitPlans

LEMMA AfterBaselineKeepsEarned ==
  ASSUME AllEarned, TypeOK', UNCHANGED stored, NEW r \in Requests, NEW c \in Cycle,
         Earned(c), AfterBaseline(r, c)
  PROVE  AllEarned'
  <1>1. CASE GoTo(r, "save", c, {})
    BY <1>1, MoveKeepsEarned DEF Worthy
  <1>2. CASE c.metrics # NoRun /\ GoTo(r, "propose", c, {})
    BY <1>2, MoveKeepsEarned DEF Worthy
  <1>3. CASE c.metrics # NoRun /\ VisitPlans(r, c, NeedsCall(c))
    BY <1>3, VisitKeepsEarned
  <1> QED BY <1>1, <1>2, <1>3 DEF AfterBaseline

LEMMA AdvanceKeepsEarned ==
  ASSUME AllEarned, TypeOK', UNCHANGED stored, NEW r \in Requests, NEW c \in Cycle,
         Earned(c), AdvanceFrom(r, c)
  PROVE  AllEarned'
  <1>1. CASE GoTo(r, "refreshBaseline", c, {})
    BY <1>1, MoveKeepsEarned DEF Worthy
  <1>2. CASE AfterBaseline(r, c)
    BY <1>2, AfterBaselineKeepsEarned
  <1> QED BY <1>1, <1>2 DEF AdvanceFrom

LEMMA StartKeepsEarned ==
  ASSUME AllEarned, NEW r \in Requests, Start(r)
  PROVE  AllEarned'
  <1>0. TypeOK' /\ UNCHANGED stored
    BY StartType DEF AllEarned, Start, StartCreate, StartScenario, StartProposals, StartRank,
       StartBaseline, StartAdvance, StartApprove, StartReject, StartSubmitPlan, StartRefreshPlan
  <1>1. stored \in Cycle /\ Earned(stored)
    BY DEF AllEarned, TypeOK
  <1>2. CASE StartCreate(r)
    BY <1>0, <1>2, BlankIsEarned, MoveKeepsEarned DEF StartCreate, Worthy, Blank
  <1>3. ASSUME NEW s \in Scenarios, StartScenario(r, s) PROVE AllEarned'
    BY <1>0, <1>1, <1>3, ComposeIsEarned, MoveKeepsEarned DEF StartScenario, Worthy
  <1>4. ASSUME NEW P \in SUBSET Plans, StartProposals(r, P) PROVE AllEarned'
    BY <1>0, <1>1, <1>4, ProposePlansIsEarned, MoveKeepsEarned
       DEF StartProposals, CanPropose, Worthy
  <1>5. CASE StartRank(r)
    BY <1>0, <1>1, <1>5, RankIsEarned, MoveKeepsEarned DEF StartRank, Worthy
  <1>6. CASE StartBaseline(r)
    BY <1>0, <1>1, <1>6, MoveKeepsEarned DEF StartBaseline, Worthy
  <1>7. CASE StartAdvance(r)
    BY <1>0, <1>1, <1>7, AdvanceKeepsEarned DEF StartAdvance
  <1>8. ASSUME NEW p \in Plans, StartApprove(r, p) \/ StartReject(r, p) PROVE AllEarned'
    BY <1>0, <1>1, <1>8, DecideIsEarned, MoveKeepsEarned DEF StartApprove, StartReject, Worthy
  <1>9. ASSUME NEW p \in Plans, StartSubmitPlan(r, p) \/ StartRefreshPlan(r, p)
        PROVE  AllEarned'
    <2>1. p \in Present(stored) => stored.metrics # NoRun
      BY <1>1 DEF Present, Earned
    <2>2. CASE AdvanceFrom(r, stored)
      BY <1>0, <1>1, <2>2, AdvanceKeepsEarned
    <2>3. ASSUME NEW next, stored.metrics # NoRun, GoTo(r, next, stored, {p})
          PROVE  AllEarned'
      BY <1>0, <1>1, <2>3, MoveKeepsEarned DEF Worthy
    <2> QED BY <1>9, <2>1, <2>2, <2>3 DEF StartSubmitPlan, StartRefreshPlan
  <1> QED BY <1>2, <1>3, <1>4, <1>5, <1>6, <1>7, <1>8, <1>9 DEF Start

LEMMA CallKeepsEarned ==
  ASSUME AllEarned, NEW r \in Requests, Call(r) \/ ProposeUnavailable(r)
  PROVE  AllEarned'
  <1> DEFINE d == work[r]
  <1>0. TypeOK' /\ UNCHANGED stored
    BY CallType DEF AllEarned, Call, SubmitBaselineCall, RefreshBaselineCall, ProposeCall,
       PlanCall, SubmitPlanCall, RefreshPlanCall, StaleContext, ProposeUnavailable
  <1>1. /\ d \in Cycle /\ Earned(d) /\ todo[r] \subseteq Plans
        /\ phase[r] = "propose" \/ todo[r] # {} => d.metrics # NoRun
    BY DEF AllEarned, TypeOK, Worthy
  <1>2. CASE SubmitBaselineCall(r)
    BY <1>0, <1>1, <1>2, SubmitBaselineIsEarned, SubmitBaselineType, AdvanceKeepsEarned
       DEF SubmitBaselineCall
  <1>3. CASE RefreshBaselineCall(r)
    BY <1>0, <1>1, <1>3, RefreshBaselineIsEarned, RefreshBaselineType, AfterBaselineKeepsEarned
       DEF RefreshBaselineCall
  <1>4. CASE ProposeCall(r)
    <2>1. PICK P \in SUBSET Plans :
            LET c == ProposePlans(d, P)
            IN  IF P = {} THEN GoTo(r, "save", [c EXCEPT !.status = "EVALUATED"], {})
                          ELSE VisitPlans(r, c, NeedsCall(c))
      BY <1>4 DEF ProposeCall
    <2> DEFINE c == ProposePlans(d, P)
    <2>2. c \in Cycle /\ Earned(c) /\ c.metrics # NoRun
      BY <1>1, <1>4, ProposePlansIsEarned, ProposePlansType DEF ProposeCall
    <2> HIDE DEF c
    <2>3. Earned([c EXCEPT !.status = "EVALUATED"])
      BY <2>2 DEF Earned, Cycle
    <2>4. CASE GoTo(r, "save", [c EXCEPT !.status = "EVALUATED"], {})
      BY <1>0, <2>3, <2>4, MoveKeepsEarned DEF Worthy
    <2>5. CASE VisitPlans(r, c, NeedsCall(c))
      BY <1>0, <2>2, <2>5, VisitKeepsEarned
    <2> QED BY <2>1, <2>4, <2>5 DEF c
  <1>5. CASE PlanCall(r)
    <2>1. PICK p \in todo[r] :
            \/ \E accepted \in RunState :
                  VisitPlans(r, SubmitPlan(d, p, accepted), todo[r] \ {p})
            \/ VisitPlans(r, RefreshPlan(d, p, runs[d.plans[p].run]), todo[r] \ {p})
      BY <1>5 DEF PlanCall
    <2>2. ASSUME NEW e, VisitPlans(r, e, todo[r] \ {p}),
                 e \in Cycle, Earned(e), e.metrics # NoRun
          PROVE  AllEarned'
      BY <1>0, <2>2, VisitKeepsEarned
    <2>3. CASE VisitPlans(r, RefreshPlan(d, p, runs[d.plans[p].run]), todo[r] \ {p})
      BY <1>1, <2>1, <2>2, <2>3, RefreshPlanIsEarned, RefreshPlanType
    <2>4. ASSUME NEW accepted \in RunState,
                 VisitPlans(r, SubmitPlan(d, p, accepted), todo[r] \ {p})
          PROVE  AllEarned'
      BY <1>1, <2>1, <2>2, <2>4, SubmitPlanIsEarned, SubmitPlanType
    <2> QED BY <2>1, <2>3, <2>4
  <1>6. CASE SubmitPlanCall(r)
    <2>1. PICK p \in todo[r], accepted \in RunState :
             GoTo(r, "save", SubmitPlan(d, p, accepted), {})
      BY <1>6 DEF SubmitPlanCall
    <2>2. Earned(SubmitPlan(d, p, accepted))
      BY <1>1, SubmitPlanIsEarned
    <2> QED BY <1>0, <2>1, <2>2, MoveKeepsEarned DEF Worthy
  <1>7. CASE RefreshPlanCall(r)
    <2>1. PICK p \in todo[r] : AdvanceFrom(r, RefreshPlan(d, p, runs[d.plans[p].run]))
      BY <1>7 DEF RefreshPlanCall
    <2>2. /\ RefreshPlan(d, p, runs[d.plans[p].run]) \in Cycle
          /\ Earned(RefreshPlan(d, p, runs[d.plans[p].run]))
      BY <1>1, RefreshPlanIsEarned, RefreshPlanType
    <2> QED BY <1>0, <2>1, <2>2, AdvanceKeepsEarned
  <1>8. CASE StaleContext(r)
    BY <1>0, <1>8, BlankIsEarned, MoveKeepsEarned DEF StaleContext, Release, Worthy
  <1>9. CASE ProposeUnavailable(r)
    BY <1>0, <1>1, <1>9, MoveKeepsEarned DEF ProposeUnavailable, Worthy
  <1> QED BY <1>2, <1>3, <1>4, <1>5, <1>6, <1>7, <1>8, <1>9 DEF Call

\* A commit installs the private copy; every other end drops it.
LEMMA EndKeepsEarned ==
  ASSUME AllEarned, NEW r \in Requests, End(r) \/ Abort(r)
  PROVE  AllEarned'
  <1>0. TypeOK'
    BY EndType DEF AllEarned
  <1>1. CASE Conflict(r) \/ Abort(r)
    BY <1>0, <1>1, BlankIsEarned, MoveKeepsEarned DEF Conflict, Abort, Release, Worthy
  <1>2. CASE Commit(r)
    <2>1. Earned(stored')
      BY <1>2 DEF Commit, AllEarned, Worthy
    <2>2. ASSUME NEW q \in Requests PROVE Worthy(phase[q], work[q], todo[q])'
      <3>1. \/ phase'[q] = "idle" /\ work'[q] = Blank /\ todo'[q] = {}
            \/ phase'[q] = phase[q] /\ work'[q] = work[q] /\ todo'[q] = todo[q]
        BY <1>2 DEF Commit, GoTo, AllEarned, TypeOK
      <3> QED BY <3>1, BlankIsEarned DEF Worthy, Earned, AllEarned
    <2> QED BY <1>0, <2>1, <2>2 DEF AllEarned, Earned
  <1> QED BY <1>1, <1>2 DEF End, Save, Overwrite

LEMMA AlwaysEarned == Spec => []AllEarned
  <1>1. Init => AllEarned
    BY InitType, BlankIsEarned DEF Init, AllEarned, Worthy, Blank
  <1>2. AllEarned /\ [Next]_vars => AllEarned'
    <2> SUFFICES ASSUME AllEarned, [Next]_vars PROVE AllEarned'
      OBVIOUS
    <2>0. TypeOK'
      BY StepType DEF AllEarned
    <2>1. CASE UNCHANGED vars \/ (\E k \in Runs : FinishRun(k)) \/ MoveContext
      <3>1. UNCHANGED <<stored, phase, work, todo>>
        BY <2>1 DEF vars, client, request, FinishRun, MoveContext
      <3> QED BY <2>0, <3>1 DEF AllEarned, Worthy, Earned
    <2> QED BY <2>1, StartKeepsEarned, CallKeepsEarned, EndKeepsEarned DEF Next
  <1> QED BY <1>1, <1>2, PTL DEF Spec

\* No stored snapshot holds plans without the measured baseline they were
\* proposed from, whatever proposals, edits and refreshes overlap.
THEOREM PlansRestOnBaseline == Spec => []PlansFollowBaseline
  <1>1. AllEarned => PlansFollowBaseline
    BY DEF AllEarned, Earned, PlansFollowBaseline, Present
  <1> QED BY <1>1, AlwaysEarned, PTL

\* What is recommended or approved was measured, breaks no constraint and came
\* first in a ranking, whatever calls overlap and in whatever order they come.
THEOREM RecommendationsAreEarned == Spec => []RecommendationIsEarned
  <1>1. AllEarned => RecommendationIsEarned
    BY DEF AllEarned, Earned, RecommendationIsEarned, WithStatus
  <1> QED BY <1>1, AlwaysEarned, PTL
=============================================================================
