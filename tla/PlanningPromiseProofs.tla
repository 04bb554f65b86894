------------------------ MODULE PlanningPromiseProofs ------------------------
(***************************************************************************)
(* What the person who works with a cycle may rely on, for any number of   *)
(* requests, scenarios and plans, as long as only the browser's calls are  *)
(* made: the plan that is recommended or approved is the best one, and the *)
(* workflow implements PlanningPromise.                                    *)
(***************************************************************************)
EXTENDS PlanningProofs

\* What the browser calls (PlanningConsole.tsx).
BrowserCalls == {"scenario", "baseline", "advance", "approve", "reject"}

\* What an invariant can say of a snapshot by itself.  Results need a run,
\* and a plan's results a baseline's; a plan that failed has none.
Tidy(c) ==
    /\ c.run = NoRun => c.metrics = NoRun
    /\ \A p \in Plans :
          /\ c.plans[p].status \in {"ABSENT", "FAILED"} => c.plans[p].metrics = NoRun
          /\ c.plans[p].run = NoRun => c.plans[p].metrics = NoRun
          /\ c.plans[p].metrics # NoRun => c.metrics # NoRun

\* BestPlanSelected of a snapshot.
Best(c) ==
    \A p \in WithStatus(c, {"RECOMMENDED", "APPROVED"}) :
        \A q \in Present(c) \ {p} :
            /\ c.plans[q].status \notin {"VALIDATED", "RUNNING", "RECOMMENDED", "APPROVED"}
            /\ c.plans[q].metrics # NoRun => ~Better(q, p)

(***************************************************************************)
(* From a snapshot c to a later one d in terms of the promise: the         *)
(* platform got further, recommended a plan, or did what a person asked.   *)
(***************************************************************************)
Measured(c) == {p \in Plans : c.plans[p].metrics # NoRun}
Standing(c) == [p \in Plans |-> StandingOf(c.plans[p])]

Onward(c, d) ==
    /\ d.scenario = c.scenario
    /\ \/ StageOf(d) = StageOf(c)
       \/ StageOf(c) = "draft"
       \/ StageOf(c) = "submitted" /\ StageOf(d) \in {"failed", "measured"}
    /\ Measured(c) \subseteq Measured(d)

Advances(c, d) == Onward(c, d) /\ Standing(d) = Standing(c)

Recommends(c, d) ==
    /\ Onward(c, d)
    /\ \A p \in Plans : Standing(c)[p] = "open"
    /\ \E p \in Measured(d) : Standing(d) = [Standing(c) EXCEPT ![p] = "recommended"]

Edits(c, d) ==
    /\ StageOf(c) = "draft" /\ StageOf(d) = "draft"
    /\ Measured(d) = Measured(c) /\ Standing(d) = Standing(c)

Decides(c, d) ==
    /\ d.scenario = c.scenario /\ StageOf(d) = StageOf(c) /\ Measured(d) = Measured(c)
    /\ \E p \in Plans :
          \/ /\ Standing(c)[p] = "recommended"
             /\ Standing(d) = [Standing(c) EXCEPT ![p] = "approved"]
          \/ /\ StageOf(c) = "measured"
             /\ Standing(d) = [Standing(c) EXCEPT ![p] = "rejected"]

Keeps(c, d) == Advances(c, d) \/ Recommends(c, d) \/ Edits(c, d) \/ Decides(c, d)

(***************************************************************************)
(* The invariant: a request whose read is still fresh holds a copy that    *)
(* keeps the promise, and until it saves has only brought it forward.      *)
(***************************************************************************)
Awaiting == {"submitBaseline", "refreshBaseline", "propose", "plans"}

Faithful(isFresh, next, c) ==
    /\ next \in Awaiting \cup {"idle", "save"}
    /\ Tidy(c) /\ Best(c)
    /\ next = "propose" => Present(c) = {}
    /\ isFresh /\ next \in Awaiting => Advances(stored, c)
    /\ isFresh /\ next = "save" => Keeps(stored, c)

Keeping ==
    /\ Tidy(stored) /\ Best(stored)
    /\ \A r \in Requests : Faithful(fresh[r], phase[r], work[r])

-----------------------------------------------------------------------------
(***************************************************************************)
(* Going forward twice is going forward.                                   *)
(***************************************************************************)
LEMMA AdvancesReflexive == \A c : Advances(c, c)
  BY DEF Advances, Onward

LEMMA AdvancesTransitive ==
  ASSUME NEW b, NEW c, NEW d, Advances(b, c), Advances(c, d)
  PROVE  Advances(b, d)
  <1>1. StageOf(c) \in {"measured", "draft", "failed", "submitted"}
    BY DEF StageOf
  <1>2. /\ c.scenario = b.scenario /\ d.scenario = c.scenario
        /\ Measured(b) \subseteq Measured(c) /\ Measured(c) \subseteq Measured(d)
        /\ Standing(c) = Standing(b) /\ Standing(d) = Standing(c)
    BY DEF Advances, Onward
  <1>3. \/ StageOf(d) = StageOf(b)
        \/ StageOf(b) = "draft"
        \/ StageOf(b) = "submitted" /\ StageOf(d) \in {"failed", "measured"}
    BY <1>1 DEF Advances, Onward
  <1> QED BY <1>2, <1>3 DEF Advances, Onward

\* The standing of a plan is decided by its status.
LEMMA OpenStandings ==
  ASSUME NEW plan
  PROVE  /\ plan.status \in Lifecycle \cup {"ABSENT"} =>
               (StandingOf(plan) = "open" <=>
                    plan.status \notin {"RECOMMENDED", "APPROVED", "REJECTED"})
         /\ StandingOf(plan) = "recommended" <=> plan.status = "RECOMMENDED"
  BY DEF StandingOf

LEMMA SameStatusSameStanding ==
  ASSUME NEW c, NEW d,
         \A p \in Plans : \/ d.plans[p].status = c.plans[p].status
                          \/ /\ StandingOf(c.plans[p]) = "open"
                             /\ StandingOf(d.plans[p]) = "open"
  PROVE  Standing(d) = Standing(c)
  <1>1. \A p \in Plans : StandingOf(d.plans[p]) = StandingOf(c.plans[p])
    BY DEF StandingOf
  <1> QED BY <1>1 DEF Standing

\* Without a recommended or an approved plan there is nothing to compare.
LEMMA NothingSelected ==
  ASSUME NEW c, WithStatus(c, {"RECOMMENDED", "APPROVED"}) = {}
  PROVE  Best(c)
  BY DEF Best

\* As long as a plan has yet to be submitted or runs, none is selected.
LEMMA RunningMeansUndecided ==
  ASSUME NEW c, Best(c), NEW p \in Plans, c.plans[p].status \in {"VALIDATED", "RUNNING"}
  PROVE  WithStatus(c, {"RECOMMENDED", "APPROVED"}) = {}
  <1>1. p \in Present(c)
    BY DEF Present
  <1>2. ASSUME NEW q \in WithStatus(c, {"RECOMMENDED", "APPROVED"}) PROVE FALSE
    <2>1. p \in Present(c) \ {q}
      BY <1>1 DEF WithStatus
    <2> QED BY <2>1 DEF Best
  <1> QED BY <1>2

(***************************************************************************)
(* The operations.                                                         *)
(***************************************************************************)
LEMMA DraftIsTidy == \A s \in Scenarios : Tidy(Draft(s)) /\ Best(Draft(s))
  BY DEF Tidy, Best, WithStatus, Draft, NoPlans, PlanWith

LEMMA ComposeKeeps ==
  ASSUME NEW c \in Cycle, NEW s \in Scenarios, CanCompose(c), Tidy(c), Earned(c)
  PROVE  Tidy(Compose(c, s)) /\ Best(Compose(c, s)) /\ Edits(c, Compose(c, s))
  <1> DEFINE d == Compose(c, s)
  <1>1. d.run = NoRun /\ d.metrics = NoRun /\ d.plans = NoPlans
    BY DEF Compose, CanCompose, Cycle
  <1> HIDE DEF d
  <1>2. \A p \in Plans : d.plans[p].status = "ABSENT" /\ d.plans[p].metrics = NoRun
    BY <1>1 DEF NoPlans, PlanWith
  <1>3. c.run = NoRun /\ c.metrics = NoRun
    BY DEF CanCompose, Tidy
  <1>4. \A p \in Plans : c.plans[p].status = "ABSENT" /\ c.plans[p].metrics = NoRun
    BY <1>3 DEF Earned, Tidy
  <1>5. Tidy(d)
    BY <1>1, <1>2 DEF Tidy
  <1>6. Best(d)
    BY <1>2 DEF Best, WithStatus
  <1>7. Standing(d) = Standing(c)
    BY <1>2, <1>4, SameStatusSameStanding
  <1>8. Edits(c, d)
    BY <1>1, <1>2, <1>3, <1>4, <1>7 DEF Edits, StageOf, Measured
  <1> QED BY <1>5, <1>6, <1>8 DEF d

\* What leaves the plans alone keeps what was said of them.
LEMMA SamePlans ==
  ASSUME NEW c, NEW d, Tidy(c), Best(c), d.plans = c.plans,
         d.run = NoRun => d.metrics = NoRun, c.metrics # NoRun => d.metrics # NoRun
  PROVE  /\ Tidy(d) /\ Best(d)
         /\ Measured(d) = Measured(c) /\ Standing(d) = Standing(c)
  BY DEF Tidy, Best, WithStatus, Present, Measured, Standing

LEMMA RefreshBaselineKeeps ==
  ASSUME NEW c \in Cycle, NEW known, c.run # NoRun, Authoritative(c, known), Tidy(c), Best(c)
  PROVE  /\ Tidy(RefreshBaseline(c, known[c.run])) /\ Best(RefreshBaseline(c, known[c.run]))
         /\ Advances(c, RefreshBaseline(c, known[c.run]))
  <1> DEFINE seen == known[c.run]
             d == RefreshBaseline(c, seen)
  <1>1. CASE c.metrics # NoRun
    BY <1>1, AdvancesReflexive DEF RefreshBaseline
  <1>2. CASE c.metrics = NoRun
    <2>1. c.status = "FAILED" => seen = "FAILED"
      BY DEF Authoritative
    <2> HIDE DEF seen
    <2>2. /\ d.scenario = c.scenario /\ d.run = c.run /\ d.plans = c.plans
          /\ d.metrics = (IF seen = "COMPLETED" THEN c.run ELSE NoRun)
          /\ d.status = (CASE seen = "FAILED"    -> "FAILED"
                           [] seen = "COMPLETED" -> "VALIDATED"
                           [] OTHER              -> "RUNNING")
      BY <1>2 DEF RefreshBaseline, Cycle
    <2> HIDE DEF d
    <2>3. /\ Tidy(d) /\ Best(d)
          /\ Measured(d) = Measured(c) /\ Standing(d) = Standing(c)
      BY <1>2, <2>2, SamePlans
    <2>4. \/ StageOf(d) = StageOf(c)
          \/ StageOf(c) = "submitted" /\ StageOf(d) \in {"failed", "measured"}
      BY <1>2, <2>1, <2>2 DEF StageOf
    <2> QED BY <2>2, <2>3, <2>4 DEF Advances, Onward, d, seen
  <1> QED BY <1>1, <1>2

LEMMA SubmitBaselineKeeps ==
  ASSUME NEW c \in Cycle, NEW accepted \in RunState, c.run = NoRun, Tidy(c), Best(c)
  PROVE  /\ Tidy(SubmitBaseline(c, accepted)) /\ Best(SubmitBaseline(c, accepted))
         /\ Advances(c, SubmitBaseline(c, accepted))
  <1> DEFINE sent == [c EXCEPT !.run = BaselineRun(c.scenario),
                          !.status = CASE accepted = "RUNNING" -> "RUNNING"
                                       [] accepted = "FAILED"  -> "FAILED"
                                       [] OTHER                -> "SUBMITTED"]
             d == SubmitBaseline(c, accepted)
  <1>1. sent \in Cycle
    BY RunTypes DEF Cycle, Lifecycle
  <1>2. /\ sent.plans = c.plans /\ sent.scenario = c.scenario /\ sent.metrics = c.metrics
        /\ sent.run = BaselineRun(c.scenario)
    BY DEF Cycle
  <1>3. d = IF accepted = "COMPLETED" THEN RefreshBaseline(sent, accepted) ELSE sent
    BY DEF SubmitBaseline
  <1> HIDE DEF sent, d
  <1>4. c.metrics = NoRun /\ sent.run # NoRun
    <2>1. BaselineRun(c.scenario) \in Runs
      BY RunTypes DEF Cycle
    <2> QED BY <1>2, <2>1, CycleAssumption DEF Tidy, Runs
  <1>5. d.plans = c.plans /\ d.scenario = c.scenario /\ d.run # NoRun
    BY <1>1, <1>2, <1>3, <1>4 DEF RefreshBaseline, Cycle
  <1>6. /\ Tidy(d) /\ Best(d)
        /\ Measured(d) = Measured(c) /\ Standing(d) = Standing(c)
    BY <1>4, <1>5, SamePlans
  <1>7. StageOf(c) = "draft"
    BY <1>4 DEF StageOf
  <1> QED BY <1>5, <1>6, <1>7 DEF Advances, Onward, d

\* New plans where there were none.
LEMMA ProposePlansKeeps ==
  ASSUME NEW c \in Cycle, NEW P, Tidy(c), Present(c) = {}, c.metrics # NoRun,
         NEW status \in Lifecycle
  PROVE  LET d == ProposePlans(c, P)
             e == [d EXCEPT !.status = status]
         IN  Tidy(d) /\ Best(d) /\ Advances(c, d) /\ Tidy(e) /\ Best(e) /\ Advances(c, e)
  <1>1. ASSUME NEW d, d.scenario = c.scenario, d.run = c.run, d.metrics = c.metrics,
               d.plans = ProposePlans(c, P).plans
        PROVE  Tidy(d) /\ Best(d) /\ Advances(c, d)
    <2>1. \A p \in Plans : d.plans[p].status \in {"VALIDATED", "ABSENT"}
                           /\ d.plans[p].metrics = NoRun
      BY <1>1 DEF ProposePlans, PlanWith, Cycle
    <2>2. \A p \in Plans : c.plans[p].status = "ABSENT" /\ c.plans[p].metrics = NoRun
      BY DEF Present, Tidy
    <2>3. Standing(d) = Standing(c)
      <3>1. \A p \in Plans : StandingOf(d.plans[p]) = "open" /\ StandingOf(c.plans[p]) = "open"
        BY <2>1, <2>2 DEF StandingOf
      <3> QED BY <3>1, SameStatusSameStanding
    <2>4. Tidy(d)
      BY <1>1, <2>1 DEF Tidy
    <2>5. Best(d)
      BY <2>1 DEF Best, WithStatus
    <2>6. StageOf(d) = "measured" /\ StageOf(c) = "measured" /\ Measured(c) = {}
      BY <1>1, <2>2 DEF StageOf, Measured
    <2> QED BY <1>1, <2>3, <2>4, <2>5, <2>6 DEF Advances, Onward
  <1> DEFINE d == ProposePlans(c, P)
             e == [d EXCEPT !.status = status]
  <1>2. d \in Cycle
    BY ProposePlansType
  <1>3. d.scenario = c.scenario /\ d.run = c.run /\ d.metrics = c.metrics
    BY DEF ProposePlans, Cycle
  <1>4. /\ e.scenario = d.scenario /\ e.run = d.run /\ e.metrics = d.metrics
        /\ e.plans = d.plans
    BY <1>2 DEF Cycle
  <1>5. Tidy(d) /\ Best(d) /\ Advances(c, d)
    BY <1>1, <1>3
  <1> HIDE DEF e
  <1>6. Tidy(e) /\ Best(e) /\ Advances(c, e)
    BY <1>1, <1>3, <1>4
  <1> QED BY <1>5, <1>6 DEF e

\* A plan that has yet to be submitted, or runs, moves on and is not decided
\* about; it keeps the results it has.
LEMMA SetPlanKeeps ==
  ASSUME NEW c \in Cycle, NEW p \in Plans, NEW plan, Tidy(c), Best(c), c.metrics # NoRun,
         c.plans[p].status \in {"VALIDATED", "RUNNING"}, c.plans[p].metrics = NoRun,
         plan.status \in {"RUNNING", "FAILED", "EVALUATED"},
         plan.status = "FAILED" \/ plan.run = NoRun => plan.metrics = NoRun
  PROVE  LET d == SetPlan(c, p, plan) IN Tidy(d) /\ Best(d) /\ Advances(c, d)
  <1> DEFINE d == SetPlan(c, p, plan)
  <1>1. /\ d.run = c.run /\ d.scenario = c.scenario /\ d.metrics = c.metrics /\ d.status = c.status
        /\ \A q \in Plans : d.plans[q] = IF q = p THEN plan ELSE c.plans[q]
    BY DEF SetPlan, Cycle
  <1> HIDE DEF d
  <1>2. Tidy(d)
    BY <1>1 DEF Tidy
  <1>3. WithStatus(d, {"RECOMMENDED", "APPROVED"}) = {}
    BY <1>1, RunningMeansUndecided DEF WithStatus
  <1>4. Standing(d) = Standing(c)
    <2>1. StandingOf(plan) = "open" /\ StandingOf(c.plans[p]) = "open"
      BY DEF StandingOf
    <2> QED BY <1>1, <2>1, SameStatusSameStanding
  <1>5. Measured(c) \subseteq Measured(d) /\ StageOf(d) = StageOf(c)
    BY <1>1 DEF Measured, StageOf
  <1> QED BY <1>1, <1>2, <1>3, <1>4, <1>5, NothingSelected DEF Advances, Onward, d

LEMMA RefreshPlanKeeps ==
  ASSUME NEW c \in Cycle, NEW p \in Plans, NEW seen, Tidy(c), Best(c), c.metrics # NoRun,
         c.plans[p].status = "RUNNING"
  PROVE  LET d == RefreshPlan(c, p, seen) IN Tidy(d) /\ Best(d) /\ Advances(c, d)
  <1> DEFINE failed == [c.plans[p] EXCEPT !.status = "FAILED"]
             done == [c.plans[p] EXCEPT !.status = "EVALUATED",
                                        !.metrics = c.plans[p].run]
  <1>1. CASE RefreshPlan(c, p, seen) = c
    BY <1>1, AdvancesReflexive
  <1>2. CASE RefreshPlan(c, p, seen) # c
    <2>1. /\ c.plans[p].metrics = NoRun
          /\ RefreshPlan(c, p, seen) = SetPlan(c, p, IF seen = "FAILED" THEN failed ELSE done)
      BY <1>2 DEF RefreshPlan
    <2>2. /\ failed.status = "FAILED" /\ failed.metrics = NoRun
          /\ done.status = "EVALUATED" /\ done.metrics = c.plans[p].run
          /\ done.run = c.plans[p].run
      BY <2>1 DEF Cycle, Plan
    <2> HIDE DEF failed, done
    <2>3. CASE seen = "FAILED"
      BY <2>1, <2>2, <2>3, SetPlanKeeps
    <2>4. CASE seen # "FAILED"
      BY <2>1, <2>2, <2>4, SetPlanKeeps
    <2> QED BY <2>3, <2>4
  <1> QED BY <1>1, <1>2

LEMMA SubmitPlanKeeps ==
  ASSUME NEW c \in Cycle, NEW p \in Plans, NEW accepted, Tidy(c), Best(c), c.metrics # NoRun,
         NeedsSubmit(c, p)
  PROVE  LET d == SubmitPlan(c, p, accepted) IN Tidy(d) /\ Best(d) /\ Advances(c, d)
  <1> DEFINE plan == [c.plans[p] EXCEPT
                        !.run = PlanRun(c.scenario, p),
                        !.status = IF accepted = "FAILED" THEN "FAILED"
                                   ELSE "RUNNING"]
             sent == SetPlan(c, p, plan)
             d == SubmitPlan(c, p, accepted)
  <1>1. c.plans[p].status = "VALIDATED" /\ c.plans[p].metrics = NoRun
    BY DEF NeedsSubmit, Tidy
  <1>2. /\ plan \in Plan /\ plan.metrics = NoRun
        /\ plan.status = IF accepted = "FAILED" THEN "FAILED" ELSE "RUNNING"
    BY <1>1, RunTypes DEF Cycle, Plan, Lifecycle
  <1>3. d = IF accepted = "COMPLETED" THEN RefreshPlan(sent, p, accepted) ELSE sent
    BY DEF SubmitPlan
  <1> HIDE DEF plan, d
  <1>4. Tidy(sent) /\ Best(sent) /\ Advances(c, sent)
    BY <1>1, <1>2, SetPlanKeeps
  <1>5. sent \in Cycle /\ sent.metrics # NoRun /\ sent.plans[p] = plan
    BY <1>2, SetPlanType DEF SetPlan, Cycle
  <1> HIDE DEF sent
  <1>6. CASE accepted = "COMPLETED"
    <2>1. d = RefreshPlan(sent, p, accepted) /\ sent.plans[p].status = "RUNNING"
      BY <1>2, <1>3, <1>5, <1>6
    <2>2. Tidy(d) /\ Best(d) /\ Advances(sent, d)
      BY <1>4, <1>5, <2>1, RefreshPlanKeeps
    <2> QED BY <1>4, <2>2, AdvancesTransitive DEF d
  <1>7. CASE accepted # "COMPLETED"
    BY <1>3, <1>4, <1>7 DEF d
  <1> QED BY <1>6, <1>7

-----------------------------------------------------------------------------
(***************************************************************************)
(* The ranking.                                                            *)
(***************************************************************************)
LEMMA BetterIsTotal ==
  ASSUME NEW p \in Plans, NEW q \in Plans, p # q
  PROVE  Better(p, q) \/ Better(q, p)
  <1>1. Cost[p] \in Nat /\ Cost[q] \in Nat /\ p \in Nat /\ q \in Nat
    BY CycleAssumption DEF Plans
  <1> QED BY <1>1 DEF Better

\* None of those ranked comes before the first.
LEMMA FirstIsBest ==
  ASSUME NEW E \in SUBSET Plans, NEW p, Position(E, p) = 1
  PROVE  \A q \in E : ~Better(q, p)
  <1> DEFINE ahead == {q \in E : Better(q, p)}
  <1>1. IsFiniteSet(Plans)
    BY FS_Interval, CycleAssumption DEF Plans
  <1>2. IsFiniteSet(ahead)
    BY <1>1, FS_Subset
  <1>3. Cardinality(ahead) \in Nat
    BY <1>2, FS_CardinalityType
  <1>4. Cardinality(ahead) = 0
    BY <1>3 DEF Position
  <1>5. ahead = {}
    BY <1>2, <1>4, FS_EmptySet
  <1> QED BY <1>5

LEMMA RankKeeps ==
  ASSUME NEW s, NEW c \in Cycle, Tidy(c), Best(c), c.metrics # NoRun, Advances(s, c)
  PROVE  LET d == RankIfTerminal(c) IN Tidy(d) /\ Best(d) /\ Keeps(s, d)
  <1> DEFINE E == Rankable(c)
             d == Rank(c)
             chosen(p) == p \in E /\ Position(E, p) = 1 /\ p \notin Violating
  <1>1. CASE RankIfTerminal(c) = c
    BY <1>1 DEF Keeps
  <1>2. CASE RankIfTerminal(c) # c
    <2>1. /\ RankIfTerminal(c) = d
          /\ \A p \in Plans : c.plans[p].status \in {"ABSENT", "EVALUATED", "FAILED"}
      BY <1>2 DEF RankIfTerminal, WithStatus, Present
    <2>2. /\ d.scenario = c.scenario /\ d.run = c.run /\ d.metrics = c.metrics
          /\ \A p \in Plans : d.plans[p] = IF p \in E THEN RankedPlan(c, p) ELSE c.plans[p]
      BY DEF Rank, Cycle
    <2>3. \A p \in Plans :
             /\ RankedPlan(c, p).metrics = c.plans[p].metrics
             /\ RankedPlan(c, p).run = c.plans[p].run
             /\ RankedPlan(c, p).status =
                   IF Position(E, p) = 1 /\ p \notin Violating THEN "RECOMMENDED" ELSE "EVALUATED"
      BY DEF RankedPlan, Cycle, Plan
    <2>4. E \subseteq Plans /\ \A p \in Plans : p \in E <=>
              c.plans[p].status = "EVALUATED" /\ c.plans[p].metrics # NoRun
      BY DEF Rankable, WithStatus
    <2> HIDE DEF d, E
    <2>5. \A p \in Plans :
             /\ d.plans[p].metrics = c.plans[p].metrics
             /\ d.plans[p].run = c.plans[p].run
             /\ d.plans[p].status = IF chosen(p) THEN "RECOMMENDED" ELSE c.plans[p].status
      BY <2>2, <2>3, <2>4
    <2>6. Tidy(d)
      <3>1. \A p \in Plans : chosen(p) => c.plans[p].status = "EVALUATED"
        BY <2>4
      <3> QED BY <2>2, <2>5, <3>1 DEF Tidy
    <2>7. ASSUME NEW p \in Plans, chosen(p), NEW q \in Plans \ {p}
          PROVE  ~chosen(q) /\ (c.plans[q].metrics # NoRun => ~Better(q, p))
      <3>1. \A x \in E : ~Better(x, p)
        BY <2>4, <2>7, FirstIsBest
      <3>2. chosen(q) => ~Better(p, q)
        BY <2>4, <2>7, FirstIsBest
      <3>3. ~chosen(q)
        BY <2>7, <3>1, <3>2, BetterIsTotal
      <3>4. c.plans[q].metrics # NoRun => q \in E
        BY <2>1, <2>4 DEF Tidy
      <3> QED BY <3>1, <3>3, <3>4
    <2>8. Best(d)
      <3>1. \A p \in WithStatus(d, {"RECOMMENDED", "APPROVED"}) : p \in Plans /\ chosen(p)
        BY <2>1, <2>5 DEF WithStatus
      <3> QED BY <2>1, <2>5, <2>7, <3>1 DEF Best, Present
    <2>9. Measured(d) = Measured(c) /\ StageOf(d) = StageOf(c)
      BY <2>2, <2>5 DEF Measured, StageOf
    <2>10. Onward(s, d) /\ Standing(s) = Standing(c)
      BY <2>2, <2>9 DEF Advances, Onward
    <2>11. \A p \in Plans : StandingOf(c.plans[p]) = "open"
      BY <2>1 DEF StandingOf
    <2>12. CASE \A p \in Plans : ~chosen(p)
      <3>1. \A p \in Plans : d.plans[p].status = c.plans[p].status
        BY <2>5, <2>12
      <3>2. Standing(d) = Standing(c)
        BY <3>1, SameStatusSameStanding
      <3> QED BY <2>1, <2>6, <2>8, <2>10, <3>2 DEF Keeps, Advances
    <2>13. ASSUME NEW p \in Plans, chosen(p) PROVE Recommends(s, d)
      <3>1. \A q \in Plans : d.plans[q].status =
                IF q = p THEN "RECOMMENDED" ELSE c.plans[q].status
        BY <2>5, <2>7, <2>13
      <3>2. \A q \in Plans : StandingOf(d.plans[q]) =
                IF q = p THEN "recommended" ELSE StandingOf(c.plans[q])
        BY <3>1 DEF StandingOf
      <3>3. Standing(d) = [Standing(s) EXCEPT ![p] = "recommended"]
        BY <2>10, <3>2 DEF Standing
      <3>4. p \in Measured(d)
        BY <2>4, <2>5, <2>13 DEF Measured
      <3>5. \A q \in Plans : Standing(s)[q] = "open"
        BY <2>10, <2>11 DEF Standing
      <3> QED BY <2>10, <3>3, <3>4, <3>5 DEF Recommends
    <2> QED BY <2>1, <2>6, <2>8, <2>12, <2>13 DEF Keeps
  <1> QED BY <1>1, <1>2

(***************************************************************************)
(* The decision of a person.                                               *)
(***************************************************************************)
LEMMA DecideKeeps ==
  ASSUME NEW c \in Cycle, NEW p \in Plans, Tidy(c), Best(c), Earned(c),
         NEW decision \in {"APPROVED", "REJECTED"}, CanDecide(c, p, decision)
  PROVE  LET d == Decide(c, p, decision) IN Tidy(d) /\ Best(d) /\ Keeps(c, d)
  <1> DEFINE d == Decide(c, p, decision)
  <1>1. /\ d.scenario = c.scenario /\ d.run = c.run /\ d.metrics = c.metrics
        /\ \A q \in Plans :
              /\ d.plans[q].metrics = c.plans[q].metrics /\ d.plans[q].run = c.plans[q].run
              /\ d.plans[q].status = IF q = p THEN decision ELSE c.plans[q].status
    BY DEF Decide, SetPlan, Cycle, Plan
  <1> HIDE DEF d
  <1>2. c.plans[p].status # "ABSENT" /\ c.metrics # NoRun
    BY DEF CanDecide, Present, Earned
  <1>3. Tidy(d)
    BY <1>1 DEF Tidy
  <1>4. Present(d) = Present(c)
    BY <1>1, <1>2 DEF Present
  <1>5. StageOf(d) = "measured" /\ StageOf(c) = "measured" /\ Measured(d) = Measured(c)
    BY <1>1, <1>2 DEF StageOf, Measured
  <1>6. \A q \in Plans : StandingOf(d.plans[q]) =
            IF q = p THEN (IF decision = "APPROVED" THEN "approved" ELSE "rejected")
                     ELSE StandingOf(c.plans[q])
    BY <1>1 DEF StandingOf
  <1>7. CASE decision = "APPROVED"
    <2>1. c.plans[p].status \in {"RECOMMENDED", "APPROVED"}
      BY <1>7 DEF CanDecide
    <2>2. p \in WithStatus(c, {"RECOMMENDED", "APPROVED"})
      BY <2>1 DEF WithStatus
    <2>3. Best(d)
      <3>1. \A q \in WithStatus(d, {"RECOMMENDED", "APPROVED"}) :
               q \in WithStatus(c, {"RECOMMENDED", "APPROVED"})
        BY <1>1, <2>1 DEF WithStatus
      <3>2. \A q \in Plans : d.plans[q].status # c.plans[q].status =>
               q = p /\ c.plans[q].status = "RECOMMENDED"
        BY <1>1, <1>7, <2>1
      <3> QED BY <1>1, <1>4, <3>1, <3>2 DEF Best, Present
    <2>4. CASE c.plans[p].status = "RECOMMENDED"
      <3>1. Standing(c)[p] = "recommended"
        BY <2>4 DEF Standing, StandingOf
      <3>2. Standing(d) = [Standing(c) EXCEPT ![p] = "approved"]
        BY <1>6, <1>7 DEF Standing
      <3> QED BY <1>1, <1>3, <1>5, <2>3, <3>1, <3>2 DEF Keeps, Decides, d
    <2>5. CASE c.plans[p].status = "APPROVED"
      <3>1. \A q \in Plans : d.plans[q].status = c.plans[q].status
        BY <1>1, <1>7, <2>5
      <3>2. Standing(d) = Standing(c)
        BY <3>1, SameStatusSameStanding
      <3> QED BY <1>1, <1>3, <1>5, <2>3, <3>2 DEF Keeps, Advances, Onward, d
    <2> QED BY <2>1, <2>4, <2>5
  <1>8. CASE decision = "REJECTED"
    <2>1. \A q \in WithStatus(d, {"RECOMMENDED", "APPROVED"}) :
             q # p /\ q \in WithStatus(c, {"RECOMMENDED", "APPROVED"})
      BY <1>1, <1>8 DEF WithStatus
    <2>2. Best(d)
      BY <1>1, <1>4, <1>8, <2>1 DEF Best, Present
    <2>3. Standing(d) = [Standing(c) EXCEPT ![p] = "rejected"]
      BY <1>6, <1>8 DEF Standing
    <2> QED BY <1>1, <1>3, <1>5, <2>2, <2>3 DEF Keeps, Decides, d
  <1> QED BY <1>7, <1>8

-----------------------------------------------------------------------------
(***************************************************************************)
(* A request moves on: nothing is committed, and the others stay where     *)
(* they are.  Ready is what a snapshot needs on the way.                   *)
(***************************************************************************)
Alone(r) == UNCHANGED stored /\ \A q \in Requests \ {r} : fresh'[q] = fresh[q]

Ready(r, c) ==
    c \in Cycle /\ Tidy(c) /\ Best(c) /\ (fresh[r]' => Advances(stored, c))

LEMMA MoveFaithfully ==
  ASSUME TypeOK, Keeping, NEW r \in Requests, Alone(r), NEW next, NEW c, NEW plans,
         GoTo(r, next, c, plans), Faithful(fresh[r]', next, c)
  PROVE  Keeping'
  <1>1. phase'[r] = next /\ work'[r] = c
    BY DEF GoTo, TypeOK
  <1>2. \A q \in Requests \ {r} :
           phase'[q] = phase[q] /\ work'[q] = work[q] /\ fresh'[q] = fresh[q]
    BY DEF GoTo, TypeOK, Alone
  <1>3. stored' = stored
    BY DEF Alone
  <1>4. ASSUME NEW q \in Requests PROVE Faithful(fresh[q], phase[q], work[q])'
    <2>1. CASE q = r
      BY <1>1, <1>3, <2>1 DEF Faithful
    <2>2. CASE q # r
      BY <1>2, <1>3, <2>2 DEF Faithful, Keeping
    <2> QED BY <2>1, <2>2
  <1> QED BY <1>3, <1>4 DEF Keeping

LEMMA ReadyToSave ==
  ASSUME TypeOK, Keeping, NEW r \in Requests, Alone(r), NEW c, Ready(r, c),
         GoTo(r, "save", c, {})
  PROVE  Keeping'
  <1>1. Faithful(fresh[r]', "save", c)
    BY DEF Faithful, Ready, Keeps, Awaiting
  <1> QED BY <1>1, MoveFaithfully

LEMMA VisitFaithfully ==
  ASSUME TypeOK, Keeping, NEW r \in Requests, Alone(r), NEW c, Ready(r, c), c.metrics # NoRun,
         NEW plans, VisitPlans(r, c, plans)
  PROVE  Keeping'
  <1>1. CASE GoTo(r, "save", RankIfTerminal(c), {})
    <2>1. /\ Tidy(RankIfTerminal(c)) /\ Best(RankIfTerminal(c))
          /\ fresh[r]' => Keeps(stored, RankIfTerminal(c))
      <3>1. CASE fresh[r]'
        BY <3>1, RankKeeps DEF Ready
      <3>2. CASE ~fresh[r]'
        BY <3>2, RankKeeps, AdvancesReflexive DEF Ready
      <3> QED BY <3>1, <3>2
    <2>2. Faithful(fresh[r]', "save", RankIfTerminal(c))
      BY <2>1 DEF Faithful, Awaiting
    <2> QED BY <1>1, <2>2, MoveFaithfully
  <1>2. CASE GoTo(r, "plans", c, plans)
    <2>1. Faithful(fresh[r]', "plans", c)
      BY DEF Faithful, Ready, Awaiting
    <2> QED BY <1>2, <2>1, MoveFaithfully
  <1> QED BY <1>1, <1>2 DEF VisitPlans

LEMMA AfterBaselineFaithfully ==
  ASSUME TypeOK, Keeping, NEW r \in Requests, Alone(r), NEW c, Ready(r, c), AfterBaseline(r, c)
  PROVE  Keeping'
  <1>1. CASE GoTo(r, "save", c, {})
    BY <1>1, ReadyToSave
  <1>2. CASE Present(c) = {} /\ GoTo(r, "propose", c, {})
    <2>1. Faithful(fresh[r]', "propose", c)
      BY <1>2 DEF Faithful, Ready, Awaiting
    <2> QED BY <1>2, <2>1, MoveFaithfully
  <1>3. CASE c.metrics # NoRun /\ VisitPlans(r, c, NeedsCall(c))
    BY <1>3, VisitFaithfully
  <1> QED BY <1>1, <1>2, <1>3 DEF AfterBaseline

LEMMA AdvanceFaithfully ==
  ASSUME TypeOK, Keeping, NEW r \in Requests, Alone(r), NEW c, Ready(r, c), AdvanceFrom(r, c)
  PROVE  Keeping'
  <1>1. CASE GoTo(r, "refreshBaseline", c, {})
    <2>1. Faithful(fresh[r]', "refreshBaseline", c)
      BY DEF Faithful, Ready, Awaiting
    <2> QED BY <1>1, <2>1, MoveFaithfully
  <1>2. CASE AfterBaseline(r, c)
    BY <1>2, AfterBaselineFaithfully
  <1> QED BY <1>1, <1>2 DEF AdvanceFrom

(***************************************************************************)
(* One lemma per group of steps.                                           *)
(***************************************************************************)
LEMMA StartFaithfully ==
  ASSUME Ops \subseteq BrowserCalls, Safe, AllEarned, Keeping, NEW r \in Requests, Start(r)
  PROVE  Keeping'
  <1>1. /\ stored \in Cycle /\ Tidy(stored) /\ Best(stored) /\ Earned(stored) /\ TypeOK
    BY DEF Safe, TypeOK, AllEarned, Keeping
  <1>2. Alone(r) /\ fresh[r]'
    BY <1>1 DEF Start, StartCreate, StartScenario, StartProposals, StartRank, StartBaseline,
       StartAdvance, StartApprove, StartReject, StartSubmitPlan, StartRefreshPlan, Read, Alone,
       TypeOK
  <1>3. Ready(r, stored)
    BY <1>1, AdvancesReflexive DEF Ready
  <1>4. ASSUME NEW c, Tidy(c), Best(c), Keeps(stored, c), GoTo(r, "save", c, {})
        PROVE  Keeping'
    <2>1. Faithful(fresh[r]', "save", c)
      BY <1>4 DEF Faithful, Awaiting
    <2> QED BY <1>1, <1>2, <1>4, <2>1, MoveFaithfully
  <1>5. ASSUME NEW s \in Scenarios, StartScenario(r, s) PROVE Keeping'
    BY <1>1, <1>4, <1>5, ComposeKeeps DEF StartScenario, Keeps
  <1>6. ASSUME StartBaseline(r) PROVE Keeping'
    <2>1. Faithful(fresh[r]', "submitBaseline", stored)
      BY <1>3 DEF Faithful, Ready, Awaiting
    <2> QED BY <1>1, <1>2, <1>6, <2>1, MoveFaithfully DEF StartBaseline
  <1>7. ASSUME StartAdvance(r) PROVE Keeping'
    BY <1>1, <1>2, <1>3, <1>7, AdvanceFaithfully DEF StartAdvance
  <1>8. ASSUME NEW p \in Plans, StartApprove(r, p) \/ StartReject(r, p) PROVE Keeping'
    <2>1. PICK decision \in {"APPROVED", "REJECTED"} :
             /\ CanDecide(stored, p, decision)
             /\ GoTo(r, "save", Decide(stored, p, decision), {})
      BY <1>8 DEF StartApprove, StartReject
    <2> QED BY <1>1, <1>4, <2>1, DecideKeeps
  <1>9. \A op \in {"create", "proposals", "rank", "submit", "refresh"} : ~Begin(r, op)
    BY DEF Begin, BrowserCalls
  <1> QED BY <1>5, <1>6, <1>7, <1>8, <1>9
          DEF Start, StartCreate, StartProposals, StartRank, StartSubmitPlan, StartRefreshPlan

LEMMA CallFaithfully ==
  ASSUME Safe, AllEarned, Keeping, NEW r \in Requests, Call(r) \/ ProposeUnavailable(r)
  PROVE  Keeping'
  <1> DEFINE d == work[r]
  <1>1. TypeOK /\ d \in Cycle /\ Authoritative(d, runs) /\ Earned(d) /\ Tidy(d) /\ Best(d)
    BY DEF Safe, Sound, TypeOK, AllEarned, Worthy, Keeping, Faithful
  <1>2. Faithful(fresh[r], phase[r], d)
    BY DEF Keeping
  <1>3. CASE StaleContext(r)
    <2>1. Faithful(FALSE, "idle", Blank)
      BY DraftIsTidy, CycleAssumption DEF Faithful, Blank, Generated, Awaiting
    <2>2. fresh[r]' = FALSE /\ Alone(r) /\ GoTo(r, "idle", Blank, {})
      BY <1>1, <1>3 DEF StaleContext, Release, Alone, TypeOK
    <2> QED BY <1>1, <2>1, <2>2, MoveFaithfully
  <1>4. ASSUME ~StaleContext(r)
        PROVE  Alone(r) /\ fresh[r]' = fresh[r]
    BY <1>4 DEF Call, SubmitBaselineCall, RefreshBaselineCall, ProposeCall, PlanCall,
       SubmitPlanCall, RefreshPlanCall, ProposeUnavailable, Alone
  <1>5. ASSUME NEW e \in Cycle, Tidy(e), Best(e), Advances(d, e), phase[r] \in Awaiting,
               ~StaleContext(r)
        PROVE  Ready(r, e) /\ Alone(r)
    BY <1>2, <1>4, <1>5, AdvancesTransitive DEF Ready, Faithful
  <1>6. CASE ~StaleContext(r) /\ SubmitBaselineCall(r)
    <2>1. PICK accepted \in RunState : AdvanceFrom(r, SubmitBaseline(d, accepted))
      BY <1>6 DEF SubmitBaselineCall
    <2>2. phase[r] \in Awaiting /\ d.run = NoRun
      BY <1>6 DEF SubmitBaselineCall, Awaiting, Safe, Sound
    <2> DEFINE e == SubmitBaseline(d, accepted)
    <2>3. e \in Cycle /\ Tidy(e) /\ Best(e) /\ Advances(d, e)
      BY <1>1, <2>2, SubmitBaselineKeeps, SubmitBaselineType
    <2> HIDE DEF e
    <2> QED BY <1>1, <1>5, <1>6, <2>1, <2>2, <2>3, AdvanceFaithfully DEF e
  <1>7. CASE ~StaleContext(r) /\ RefreshBaselineCall(r)
    <2> DEFINE e == RefreshBaseline(d, runs[d.run])
    <2>1. phase[r] \in Awaiting /\ d.run # NoRun /\ AfterBaseline(r, e)
      BY <1>7 DEF RefreshBaselineCall, Awaiting, Safe, Sound
    <2>2. e \in Cycle /\ Tidy(e) /\ Best(e) /\ Advances(d, e)
      BY <1>1, <2>1, RefreshBaselineKeeps, RefreshBaselineType
    <2> HIDE DEF e
    <2> QED BY <1>1, <1>5, <1>7, <2>1, <2>2, AfterBaselineFaithfully
  <1>8. CASE ~StaleContext(r) /\ ProposeCall(r)
    <2>1. PICK P \in SUBSET Plans :
            LET c == ProposePlans(d, P)
            IN  IF P = {} THEN GoTo(r, "save", [c EXCEPT !.status = "EVALUATED"], {})
                          ELSE VisitPlans(r, c, NeedsCall(c))
      BY <1>8 DEF ProposeCall
    <2>2. phase[r] = "propose" /\ phase[r] \in Awaiting
      BY <1>8 DEF ProposeCall, Awaiting
    <2>3. Present(d) = {} /\ d.metrics # NoRun
      BY <1>2, <2>2 DEF Faithful, AllEarned, Worthy
    <2> DEFINE c == ProposePlans(d, P)
               e == [c EXCEPT !.status = "EVALUATED"]
    <2>4. Tidy(c) /\ Best(c) /\ Advances(d, c) /\ Tidy(e) /\ Best(e) /\ Advances(d, e)
      BY <1>1, <2>3, ProposePlansKeeps DEF Lifecycle
    <2>5. c \in Cycle /\ e \in Cycle /\ c.metrics # NoRun
      BY <1>1, <2>3, ProposePlansType, ProposePlansIsEarned DEF Cycle, Lifecycle
    <2> HIDE DEF c
    <2>6. CASE VisitPlans(r, c, NeedsCall(c))
      BY <1>1, <1>5, <1>8, <2>2, <2>4, <2>5, <2>6, VisitFaithfully
    <2> HIDE DEF e
    <2>7. CASE GoTo(r, "save", e, {})
      BY <1>1, <1>5, <1>8, <2>2, <2>4, <2>5, <2>7, ReadyToSave
    <2> QED BY <2>1, <2>6, <2>7 DEF c, e
  <1>9. CASE ~StaleContext(r) /\ PlanCall(r)
    <2>1. PICK p \in todo[r] :
          \/ /\ NeedsSubmit(d, p)
             /\ \E accepted \in RunState :
                   VisitPlans(r, SubmitPlan(d, p, accepted), todo[r] \ {p})
          \/ /\ ~NeedsSubmit(d, p)
             /\ VisitPlans(r, RefreshPlan(d, p, runs[d.plans[p].run]), todo[r] \ {p})
      BY <1>9 DEF PlanCall
    <2>2. /\ phase[r] \in Awaiting /\ p \in Plans /\ d.metrics # NoRun
          /\ NeedsSubmit(d, p) \/ d.plans[p].status = "RUNNING"
      BY <1>9 DEF PlanCall, Awaiting, Safe, Sound, NeedsCall, AllEarned, Worthy
    <2>3. ASSUME NEW e \in Cycle, Tidy(e), Best(e), Advances(d, e), e.metrics # NoRun,
                 VisitPlans(r, e, todo[r] \ {p})
          PROVE  Keeping'
      BY <1>1, <1>5, <1>9, <2>2, <2>3, VisitFaithfully
    <2>4. CASE /\ NeedsSubmit(d, p)
               /\ \E accepted \in RunState :
                     VisitPlans(r, SubmitPlan(d, p, accepted), todo[r] \ {p})
      <3>1. PICK accepted \in RunState :
                VisitPlans(r, SubmitPlan(d, p, accepted), todo[r] \ {p})
        BY <2>4
      <3> QED BY <1>1, <2>2, <2>3, <2>4, <3>1, SubmitPlanKeeps, SubmitPlanType, SubmitPlanIsEarned
    <2>5. CASE /\ ~NeedsSubmit(d, p)
               /\ VisitPlans(r, RefreshPlan(d, p, runs[d.plans[p].run]), todo[r] \ {p})
      BY <1>1, <2>2, <2>3, <2>5, RefreshPlanKeeps, RefreshPlanType, RefreshPlanIsEarned
    <2> QED BY <2>1, <2>4, <2>5
  <1>10. CASE SubmitPlanCall(r) \/ RefreshPlanCall(r)
    BY <1>2, <1>10 DEF SubmitPlanCall, RefreshPlanCall, Faithful, Awaiting
  <1>11. CASE ~StaleContext(r) /\ ProposeUnavailable(r)
    <2>1. phase[r] \in Awaiting /\ GoTo(r, "save", d, {})
      BY <1>11 DEF ProposeUnavailable, Awaiting
    <2>2. Ready(r, d) /\ Alone(r)
      BY <1>1, <1>5, <1>11, <2>1, AdvancesReflexive
    <2> QED BY <1>1, <2>1, <2>2, ReadyToSave
  <1> QED BY <1>3, <1>6, <1>7, <1>8, <1>9, <1>10, <1>11 DEF Call

\* A commit installs the private copy and makes every other one stale.
LEMMA EndFaithfully ==
  ASSUME TypeOK, Keeping, NEW r \in Requests, End(r) \/ Abort(r)
  PROVE  Keeping'
  <1>1. Faithful(FALSE, "idle", Blank)
    BY DraftIsTidy, CycleAssumption DEF Faithful, Blank, Generated, Awaiting
  <1>2. CASE Conflict(r) \/ Abort(r)
    <2>1. fresh[r]' = FALSE /\ Alone(r) /\ GoTo(r, "idle", Blank, {})
      BY <1>2 DEF Conflict, Abort, Release, Alone, TypeOK
    <2> QED BY <1>1, <2>1, MoveFaithfully
  <1>3. CASE Commit(r)
    <2>1. Tidy(stored') /\ Best(stored')
      BY <1>3 DEF Commit, Keeping, Faithful
    <2>2. ASSUME NEW q \in Requests PROVE Faithful(fresh[q], phase[q], work[q])'
      <3>1. /\ fresh'[q] = FALSE
            /\ \/ phase'[q] = "idle" /\ work'[q] = Blank
               \/ phase'[q] = phase[q] /\ work'[q] = work[q]
        BY <1>3 DEF Commit, GoTo, TypeOK
      <3> QED BY <1>1, <3>1 DEF Faithful, Keeping
    <2> QED BY <2>1, <2>2 DEF Keeping
  <1> QED BY <1>2, <1>3 DEF End, Save, Overwrite

LEMMA StepFaithfully ==
  ASSUME Ops \subseteq BrowserCalls, Safe, AllEarned, Keeping, [Next]_vars
  PROVE  Keeping'
  <1>0. TypeOK
    BY DEF Safe
  <1>1. CASE UNCHANGED vars \/ (\E k \in Runs : FinishRun(k)) \/ MoveContext
    <2>1. UNCHANGED <<stored, phase, work, fresh>>
      BY <1>1 DEF vars, client, request, FinishRun, MoveContext
    <2> QED BY <2>1 DEF Keeping, Faithful
  <1> QED BY <1>0, <1>1, StartFaithfully, CallFaithfully, EndFaithfully DEF Next

LEMMA AlwaysKeeping ==
  ASSUME Ops \subseteq BrowserCalls
  PROVE  Spec => [](Safe /\ AllEarned /\ Keeping)
  <1>1. Init => Keeping
    BY DraftIsTidy, CycleAssumption
       DEF Init, Keeping, Faithful, Blank, Generated, Awaiting
  <1>2. Safe /\ AllEarned /\ Keeping /\ [Next]_vars => Keeping'
    BY StepFaithfully
  <1> QED BY <1>1, <1>2, AlwaysSafe, AlwaysEarned, PTL DEF Spec

\* As long as only the browser's calls are made, a plan that is recommended or
\* approved is the best of those measured, and no other plan is under way,
\* whatever requests overlap, fail or are abandoned.
THEOREM BestPlansAreSelected ==
  ASSUME Ops \subseteq BrowserCalls
  PROVE  Spec => []BestPlanSelected
  <1>1. Keeping => BestPlanSelected
    BY DEF Keeping, Best, BestPlanSelected
  <1> QED BY <1>1, AlwaysKeeping, PTL

(***************************************************************************)
(* The refinement.                                                         *)
(***************************************************************************)
LEMMA PromiseStarts == Init => Promised!Init
  <1> SUFFICES ASSUME Init PROVE Promised!Init
    OBVIOUS
  <1>1. stored = Draft(Generated) /\ Generated \in Scenarios
    BY CycleAssumption DEF Init, Generated
  <1>2. \A p \in Plans : stored.plans[p].metrics = NoRun /\ StandingOf(stored.plans[p]) = "open"
    BY <1>1 DEF Draft, NoPlans, PlanWith, StandingOf
  <1>3. stored.scenario \in Scenarios /\ StageOf(stored) = "draft"
    BY <1>1 DEF Draft, StageOf
  <1> QED BY <1>2, <1>3 DEF Promised!Init

\* A commit that keeps the promise is a step of it.
LEMMA PromiseKept ==
  ASSUME stored' \in Cycle, Tidy(stored'), Keeps(stored, stored')
  PROVE  [Promised!Next]_(Promised!promise)
  <1> DEFINE standing == [p \in Plans |-> StandingOf(stored.plans[p])]
             measured == {p \in Plans : stored.plans[p].metrics # NoRun}
  <1>1. /\ Standing(stored) = standing /\ Standing(stored') = standing'
        /\ Measured(stored) = measured /\ Measured(stored') = measured'
    BY DEF Standing, Measured
  <1>2. /\ StageOf(stored') = StageOf(stored)' /\ stored'.scenario \in Scenarios
        /\ StageOf(stored)' \in Promised!Stages
        /\ measured' # {} => StageOf(stored)' = "measured"
    BY DEF StageOf, Cycle, Tidy, Promised!Stages
  <1>3. CASE Advances(stored, stored') \/ Recommends(stored, stored')
    <2>1. /\ stored'.scenario = stored.scenario /\ measured \subseteq measured'
          /\ Promised!Forward
      BY <1>1, <1>2, <1>3 DEF Advances, Recommends, Onward, Promised!Forward
    <2>2. UNCHANGED standing \/ Promised!Recommend
      BY <1>1, <1>3 DEF Advances, Recommends, Promised!Recommend
    <2>3. Promised!Progress
      BY <1>2, <2>1, <2>2 DEF Promised!Progress
    <2> QED BY <2>3 DEF Promised!Next
  <1>4. CASE Edits(stored, stored')
    <2>1. Promised!Edit
      BY <1>1, <1>2, <1>4 DEF Edits, Promised!Edit
    <2> QED BY <2>1 DEF Promised!Next
  <1>5. CASE Decides(stored, stored')
    <2>1. PICK p \in Plans :
             \/ /\ Standing(stored)[p] = "recommended"
                /\ Standing(stored') = [Standing(stored) EXCEPT ![p] = "approved"]
             \/ /\ StageOf(stored) = "measured"
                /\ Standing(stored') = [Standing(stored) EXCEPT ![p] = "rejected"]
      BY <1>5 DEF Decides
    <2>2. Promised!Approve(p) \/ Promised!Reject(p)
      BY <1>1, <1>2, <1>5, <2>1 DEF Decides, Promised!Approve, Promised!Reject
    <2> QED BY <2>2 DEF Promised!Next
  <1> QED BY <1>3, <1>4, <1>5 DEF Keeps

\* The overlapping requests of the browser implement the promise: a submitted
\* scenario is frozen, results are only added, at most one plan is
\* recommended, and only a person decides.
THEOREM WorkflowKeepsPromise ==
  ASSUME Ops \subseteq BrowserCalls
  PROVE  Spec => KeepsPromise
  <1>1. Safe /\ AllEarned /\ Keeping /\ (Safe /\ AllEarned /\ Keeping)' /\ [Next]_vars
            => [Promised!Next]_(Promised!promise)
    <2> SUFFICES ASSUME Safe, Keeping, Safe', Keeping', [Next]_vars
                 PROVE  [Promised!Next]_(Promised!promise)
      OBVIOUS
    <2>1. CASE UNCHANGED stored
      BY <2>1 DEF Promised!promise, StageOf, StandingOf
    <2>2. ASSUME NEW r \in Requests, Save(r) PROVE [Promised!Next]_(Promised!promise)
      <3>1. stored' = work[r] /\ Keeps(stored, work[r])
        BY <2>2 DEF Save, Commit, Keeping, Faithful
      <3>2. stored' \in Cycle /\ Tidy(stored')
        BY DEF Safe, TypeOK, Keeping
      <3> QED BY <3>1, <3>2, PromiseKept
    <2>3. \A r \in Requests : ~Overwrite(r)
      BY DEF Overwrite, Keeping, Faithful, Awaiting
    <2>4. UNCHANGED stored \/ \E r \in Requests : Save(r) \/ Overwrite(r)
      BY DEF Next, Start, StartCreate, StartScenario, StartProposals, StartRank,
         StartBaseline, StartAdvance, StartApprove, StartReject, StartSubmitPlan,
         StartRefreshPlan, Call, SubmitBaselineCall, RefreshBaselineCall, ProposeCall,
         PlanCall, SubmitPlanCall, RefreshPlanCall, StaleContext, End, Conflict,
         ProposeUnavailable, Abort, FinishRun, MoveContext, vars
    <2> QED BY <2>1, <2>2, <2>3, <2>4
  <1> QED BY <1>1, PromiseStarts, AlwaysKeeping, PTL DEF Spec, KeepsPromise, Promised!Spec

=============================================================================
