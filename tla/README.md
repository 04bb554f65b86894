# PortMind (AEGIS) in TLA+

A verification development for the AEGIS server of PortMind: a FastAPI application that collects
evidence from sources, turns it into candidate risk signals with a language model, and drives a
*planning cycle* with an external simulation client: a scenario is composed and frozen, a baseline is
simulated, interventions are proposed, simulated and ranked, and a person approves or rejects one.
Storage is PostgreSQL or DynamoDB, behind the same repository interfaces. Paths below are relative to
`src/`; `app/` abbreviates `server/app/`.

Contents: [inventory](#inventory), [modules](#modules), [runs](#runs-and-bounds),
[fairness](#fairness), [proofs](#proofs), [findings](#findings), [limits](#what-is-not-modelled),
[plan](#plan).

## Inventory

| Component | State it keeps | Operations | Interacts with | What is hard |
|---|---|---|---|---|
| Planning workflow (`app/api/planning.py`, `app/services/planning_service.py`, `app/domain/plan.py`) | a cycle snapshot: lifecycle, composed scenario, baseline run and metrics, plans with runs, metrics, ranks, statuses | create, scenario, baseline, advance, proposals, submit, refresh, rank, approve, reject | reads and saves the snapshot, awaits the client and the planner in between | requests overlap at every await; a save can conflict after client calls with effects were made; calls in an order the page never uses |
| Planning-cycle repositories (`app/repositories/{postgres,dynamodb}/planning.py`) | one versioned snapshot (DynamoDB: META and chunk rows) | get, save with or without expected version | planning workflow | check and write are separate steps |
| Simulation client gateway (`app/integrations/gateway.py`) | none here; the client holds runs by idempotency key and a context version | submit, get, capability reads | planning workflow, experiments | runs finish at any time and in any order; calls fail after they took effect; the context moves on |
| Browser (`client/components/PlanningConsole.tsx`, `client/lib/planning-ui.mjs`) | the last cycle it saw, a timer | polls advance every five seconds, the buttons | planning API | the only driver of the workflow |
| Source scheduling and collection (`app/services/scheduler_service.py`, `collection_service.py`, `app/repositories/*/source.py`) | source records with `next_run_at`, lease rows | passes, leases, run records; create, edit, delete; manual collection | evidence store, signal pipeline | several processes; leases shorter than runs; edits and deletions during a collection; processes that die |
| Signal pipeline (`app/services/signal_service.py`, `app/repositories/*/signal.py`) | signals and versions, attempts, reviews | process evidence, review, relate | model providers, the client's entities and effects, evidence, planning | eligibility is read before long calls; DynamoDB puts back whole versions that a reviewer may have changed |
| Experiment handoff (`app/services/experiment_service.py`, `app/repositories/*/experiment.py`) | packages under an idempotency key, run, status, results | create, submit, refresh | client gateway, signals and relationships | sources read one by one; a key raced for; marks and saves that overwrite each other |
| Evidence store (`app/services/evidence_service.py`, `app/repositories/*/evidence.py`) | evidence rows, hash locks, duplicate references, citations | store, archive, redact, edit, delete, clean up duplicates | collection, signals | protection is computed first and used later; items deleted row by row |
| Scenario generation (`generate_scenarios` in `app/services/planning_service.py`) | none until the cycle is saved | one request of eight steps | client gateway, model providers, signals | the client and the signals move between any two steps |
| Model providers (`app/integrations/{bedrock,gemini,model_provider,providers}.py`) | none | a call with retries and corrections, a panel of calls | planning, signal pipeline | calls run at once, fail one by one and are answered together |
| Ingestion and discovery (`app/ingestion/*.py`) | the queue and the seen URLs of one crawl | crawl a source | evidence store, collection | sites of any shape, also cyclic |
| Prompts, schema validation, legacy reads, DynamoDB foundation, migrations | mostly stateless or read and written whole | | | text, layout |

What makes the modelled components correct:

- *Planning workflow.* What is stored about runs is what the client said about the frozen scenario.
  A submitted scenario does not change. A recommendation is measured, feasible and best. An approval
  falls on the recommendation of that moment. The machine part of the workflow gets done.
- *Repositories.* An acknowledged save is not lost; a version names one snapshot.
- *Scheduling.* One process at a time within a lease; recording a run undoes no edit; evidence keeps
  its source; due sources are collected; a run accounts for every item it stored.
- *Signals.* An evidence item has one candidate at a time; what a reviewer accepted is complete, does not
  change afterwards and is what planning reads; a candidate is not left half mapped.
- *Evidence.* A duplicate has its canonical item; what a signal cites is kept, and its text is not replaced; what was
  removed stays removed; a content has one canonical item.
- *Experiments.* A key names one package; a package holds accepted, compatible signals and never
  changes; a stored result stands.
- *Scenarios.* What is frozen was judged by one version of the client and contradicts itself nowhere.
- *Remote calls.* A Bedrock panel answers with every role's proposal or failure; a Gemini panel answers only when no
  role failed, and its first failure discards the proposals that succeeded. Calls end within their bounds.

`PROJECT.json` lists every hazard met while reading, at its line, with the properties that cover it, and
a note where none does yet.

## Modules

```
PlanningPromise   <= refinement =  PlanningWorkflow  --EXTENDS-->  PlanningCycle
                                     ^ MCPlanning, PlanningProofs <-- PlanningPromiseProofs
UpdateRegister    <= refinement =  CycleStore            ^ MCCycleStore, CycleStoreProofs
                                   SourceCollection      ^ MCSourceCollection, SourceCollectionProofs

Storage <-- SignalPipeline     --.      ^ SignalPipelineProofs --.
            RemoteCalls        --+-- MCIntake                  --+-- IntakeProofs
            CollectionRun      --'
Storage <-- EvidenceStore      --.      ^ EvidenceStoreProofs  --.
Storage <-- ExperimentHandoff  --+-- MCCustody                 --+-- CustodyProofs
            ScenarioGeneration --'
```

**PlanningCycle** translates `PlanningService`: every method is an operator from a snapshot (and what
the client answers) to a snapshot. `Cycle` and `Plan` are the fields of `domain/plan.py` that decide
control. A run key is `BaselineRun(s)` or `PlanRun(s, p)`, because the wire key of a submission is a
hash of exactly these; the metrics of a plan are the key of the run they came from, which is what makes
"authoritative" checkable, and `Cost` and `Violating` are what ranking sees of them. A
composition is a member of `Scenarios`: the rules that only accept or refuse a selection are not
spelled out.

**PlanningWorkflow** puts those operators behind the endpoints. A request is `phase`, `work` (its private
snapshot), `todo` (plans left to visit) and `fresh` (nobody committed since it read). One action
starts each endpoint; each awaited client call is an action; `Save`, `Conflict`, `Overwrite`
and `Abort` end a request. So everything between two awaits of the code is one step, and everything
that can happen at an await can happen between two steps. `FinishRun` and `MoveContext` are the
client's own steps and are external to the repository. `ProposeUnavailable` is the one failure that the
code catches and saves after.

**PlanningPromise** is what a cycle promises its reviewer with no requests or saves in sight: a frozen
scenario, results that only accumulate, one recommendation, decisions that only a person makes.
`KeepsPromise` is the refinement, under the mapping `StageOf`/`StandingOf`.

**CycleStore** opens the save that the workflow takes as atomic: get, check, conditional
write (DynamoDB) or unconditional update (PostgreSQL). A snapshot is the set of updates it contains.
A creator (`POST /cycles`) saves without an expected version. **UpdateRegister** is the
atomic register; `SavesAreAtomic` is the refinement.

**SourceCollection** has schedulers (application processes), users of the source API, and time. A pass
reads the due list once and visits it; `Acquire`, `Collect`, `RecordRead`/`RecordWrite` (the two halves
of `record_run`) and `Release`/`Unlock` follow the loop of `collect_due_sources`; the exception paths
end the pass after the release, as `finally` does. Both backends are in the module, chosen at `Init`:
`Merged` says what a write leaves (the whole DynamoDB item, or the columns PostgreSQL sees as changed),
`MayWrite` when it succeeds, `Release` and `Unlock` how a lease goes away. Time is abstract: a source
with a next run may become due at any moment (`BecomeDue`) and a lease may run out at any moment
(`LeaseRunsOut`). A lease is owned by the process and not by the visit: a process that takes over its
own expired lease is its only owner either way. Two things are coarser than the code: the due
index of DynamoDB is read consistently, and evidence that lost the race for its content hash is stored with
the check for its source (the code's fallback, `dynamodb/evidence.py:62`, does not make it; `EvidenceStore`
models that fallback, for the item it refers to).

**Storage** is the backend a deployment selects. The three modules that extend it take both.

**SignalPipeline** follows one evidence item through `process_evidence` and `review_signal`. A worker is
one call: `Check` reads the attempts, `CreateCandidate` comes after the model calls without a second look,
`GroundMention`, `MapEffect` or `MappingFails` and `FinalizeSignal` update the version. On PostgreSQL
an update writes its own columns; on DynamoDB `ReadVersion` reads the item and `Save` later puts all of it back
without a condition, so a worker and a reviewer may undo each other. Only META rows are guarded by a
version (`Current`). Three ghosts say when the properties may be expected: `contested` (eligibility checks overlapped,
the query of the attempts was out of date, or a rejected signal was accepted after all),
`early` (a DynamoDB reviewer decided from a version that was still being processed), and `decided`, a counter. A worker
that dies is one that takes no more steps.

**RemoteCalls** is `asyncio.gather`: a few calls of one service at once. The loops of the gateway, of Gemini
(`_post_with_retry` inside `_generate`) and of Bedrock differ in which replies are transient and
whether an invalid output is asked for again. A Bedrock panel waits for all and answers with what it has; Gemini's
panel and the client's catalogs fail with the first failure while the other calls go on unheard.

**CollectionRun** is one manual or scheduled collection of a website: the queue of `discover_and_scrape_source` with
its seeds, depth, path filters and limits, then the loop of `collect_and_process_source` with its deferral
after a rate limit. The site is arbitrary: what a page is and where it links is chosen when it is read.

**EvidenceStore** splits each request where the code reads and later writes: collectors look up the
canonical item and then put (`StoreItem`, the fallback `StoreLoser`, `StoreRefused`); operators
read (`Reread`, `RequestDelete`, `RequestCleanup`) and then write (`WriteBack`, `DeleteRows` in one PostgreSQL
transaction, or `NextVictim` and `Erase` row by row on DynamoDB); processings load and later cite. `Stop` is a
request that is refused or dies between two steps. PostgreSQL's foreign keys are the guards `MayInsert`, `MayCite` and
`Restricted`. A processing reads the text of an item (`ReadingOf`: its hash, and whether the text is still there) and
may load any item that is kept: only pending and accepted attempts bar one, and reviews end those at any
time. A redaction takes the text and leaves the hash. `WriteBack` writes in one step what DynamoDB's `update` writes row by
row; a request that reads between those rows has overlapped the edit and is marked as such. Three ghosts record overlaps:
`crossed`, the items on which a changing request overlapped another or whose deletion was cut short (DynamoDB promises
little about those); `overtaken`, the items an edit and a processing worked on at once; and `edited`.

What the properties except, because nothing in the code closes the window:

| Property | On PostgreSQL | On DynamoDB |
|---|---|---|
| `DuplicatesHaveCanonical` | nothing | a duplicate, or the item it refers to, that is crossed or being deleted |
| `UneditedDuplicatesMatch` | an edited duplicate; an edit of the canonical item that crosses a store | also any edit of the canonical item |
| `CitedEvidenceStands`, never deleted | nothing | crossed items |
| `CitedEvidenceStands`, text as read or redacted | items edited and processed at once | crossed items |
| `OneCanonicalPerContent` | not stated | once any item was edited or crossed |
| `RemovalIsFinal` | nothing | crossed items: a whole item read before may be put after |

**ExperimentHandoff** splits `create_experiment` into its reads (`ReadSignals` and `ReadRelationships`: one statement
each on PostgreSQL, two calls per version on DynamoDB), the validation, and the two steps of `create_if_absent`;
`submit_experiment` and `refresh_results` into the client's answer and the store of it. Reviews, relationships and the
client's context change at any moment (`Change`); a creation they overlap is marked `raced`, and `PackagesAreValid` excepts
it: the code does not look again before it stores. A package submitted more than once is in `again`, and `ResultsStand`
says of its status nothing. A signal that is not accepted ends the model's request at once; the code judges it after all
reads, with the same outcome.

**ScenarioGeneration** is the one request that makes the scenarios of a cycle: context, catalog (two
reads at once), candidates, relationships, proposals of a model, of the demo provider or of a person, the judgement, and the
client's validation and reconciliation. The client's context, state and contracts, reviews and relationships
move between any two steps. The catalog check compares the context only and the validation names no state, as in the code; only
the reconciliation compares all three, and that is what makes a frozen scenario one of a single state.

**MCIntake** and **MCCustody** put three modules each side by side. The parts share no state, so a
behaviour is one of a single part (`part` chooses it) and the run takes the sum of their state spaces and not the
product.

Operators commented "Mutant of X" are plausible bugs of X. They are used by nothing in the model; each
shows that a property notices it.

## Runs and bounds

| Run | Question | Bounds |
|---|---|---|
| `planning_api` | any endpoint in any order on an existing cycle | 1 request at a time, 1 scenario, 2 plans of which one violates a constraint, 1 fault, context may move |
| `planning_races` | two overlapping requests on any endpoint, edits and re-creation included | 2 requests, 2 scenarios, 1 plan, no faults |
| `planning_browser` | two tabs of the page: best plan, refinement of the promise, and the poll finishes the machine's work | 2 requests, 1 scenario, 2 plans, 1 fault |
| `store_dynamodb` | no lost update, atomic register | 4 writers, one of them a creator |
| `collection` | leases, edits, deletions, failures | 2 processes, 1 source, 1 user, 1 fault, both backends |
| `collection_progress` | due sources are collected | 1 process, 2 sources, 1 user, 1 fault, DynamoDB |
| `intake` | signals, remote calls and crawls | *signals*: PostgreSQL with 2 workers and 2 reviewers, DynamoDB with 1 and 1, 2 candidates of 2 and 1 mentions, 2 decisions; *calls*: 2 roles, 3 attempts, all services; *run*: 5 pages in any link structure, depth 2, 4 fetched pages |
| `custody` | evidence, packages, scenarios | *evidence*: 2 collectors, 2 operators with 2 requests in all, 1 processing, 2 contents, 2 items, both backends; *packages*: 2 requests, 1 key, 2 packages, 1 change, selections that hold the first signal, both backends; *scenarios*: 2 entities, 2 types, 2 signals, at most 2 hypotheses, 2 moves |
| `recreate_resets`, `store_postgres`, `rejected_planned`, `linked_edited` | one disagreement each, see [findings](#findings) | a small instance that shows it |

Two requests are enough for every read-await-save window: a third only adds a second winner, and
`CycleStore` has four. Two plans are enough for a ranking to reorder, for one plan to fail, be
rejected or be infeasible while the other is not. The ranking constant `MCCost` makes the first proposal
the worse one, so an unsorted ranking is wrong. Scenarios are two where an edit or a re-creation can replace
one by another; that run has one plan, because the races it looks for are between a request and the commit of
another, and the choice between plans is the business of `planning_api` and `planning_browser`. One fault is one crash or failing call anywhere; the retries after it are fault-free. With
one source in `collection` the due list has one element; the order of visits and a pass that ends early
are the business of `collection_progress`, which takes the backend whose run records can also fail with a conflict. A second process on the same due list is in `collection`.
Two processes with two sources together, and two concurrent edits of one source, were left out for
size.

In `intake` two candidates are what an item has when a rejected attempt is retried or two checks overlap, and
two mentions let one be resolved and another not. The item puts of DynamoDB concern one version at a
time, so one worker and one reviewer show what they do to each other. The site of the crawl has a root, a feed that
robots.txt bars, a sitemap the path filters exclude and two articles: enough for cycles, for a page that is
linked and listed at once, and for a limit of pages that cuts the crawl short. In `custody` two items
are a canonical item and its duplicate, or two items that race for one hash; two operator requests are any two
that overlap, or one after the other. One key is the case in which creations race; packages of different
keys share nothing. The first signal is accepted at the start and in every selection: the second one
alone satisfies every relationship. Store requests and package requests are the same two model values, so
that one symmetry serves both; no behaviour has requests of both kinds.

Deadlock is checked in the planning runs: a request can always be started. `CycleStore` writers make one
update each and stop, a `SourceCollection` with all sources deleted has nothing to do, and the
behaviours of `intake` and `custody` end when a call is answered, a crawl is over, a scenario is frozen or the
bounds are used up, so those runs switch it off.

Symmetry is used for requests, writers that are not creators, processes, collectors and operators, and only in runs without
liveness properties.

## Fairness

*Planning.* `WF` for the calls and the end of each started request: the event loop runs it, and every
client call has a timeout, after which the call fails. `WF` for `FinishRun`: the client's runs end.
`SF` for the page's poll: the effect in `PlanningConsole.tsx:382` rearms a five-second timer after
every answer and every error as long as `workflowNeedsAdvance` holds of the cycle it shows; other requests may
occupy the model's request slots now and then, which makes a poll repeatedly but not
continuously enabled. The poll is enabled by the *stored* snapshot: the page refreshes its copy with each answer.
The runs of liveness do not assume that saves succeed: polls conflict.

*Collection.* `WF` for each scheduler: the job runs every minute and its steps have timeouts. `WF` for
lease expiry: time passes. No fairness for users, evidence or due times.

*Intake.* One `WF` for the steps of what has begun: the processing of a candidate after its creation, a
remote call (every request has a timeout), and a crawl (every fetch has one). They run in one process that is scheduled as
long as it lives. Nobody has to check an item, decide, or go past a failed grounding: those steps are not in
`Progress`. One disjunction is enough because each behaviour is of one part, and within a part every
step is one of finitely many; which call or worker goes first is left open.

## Proofs

All constants are arbitrary: any number of requests, plans, scenarios, writers, processes, sources, users
and failures, any number of items, contents, packages, keys, workers, mentions, roles and attempts, and any site. The
assumptions are the `ASSUME`s of the modules: bounds are naturals, the articles of a site and the roles of a
panel are finitely many, a deployment runs on one of the two backends, and choices are sets of what they choose from.

Every safety invariant and every action property of a passing run is a theorem. The shape is the same throughout: an invariant
that is inductive, checked by TLC first, one lemma per action or per kind of step, and the property from it.

**Planning.**

- `PlanningProofs!TypeCorrect`: `TypeOK`, by one lemma for each service method (it returns a cycle) and one
  for each action.
- The invariant `Safe` says of the stored snapshot *and of every private copy* that what it
  records about runs is what the client knows (`Authoritative`), and of a request that is still
  fresh that its copy `Follows` the stored snapshot: an approval in the copy was an approval or a recommendation
  in the store, and a recorded baseline is the same baseline. Without the copies the invariant
  is not inductive, because a save installs whatever the copy holds; without `Follows` nothing relates the commit
  to what it replaces. Freshness is what the version check gives, so `StaleContext`, late polls and conflicts need
  no case of their own. From `Safe` follow `StoredResultsAreAuthoritative`,
  `ApprovalsFollowRecommendations`, `OnlyCreationReplacesScenarios` and, when nobody creates the cycle again,
  `SubmittedScenarioIsFrozen`. The run `recreate_resets` shows that this last assumption is needed.
- `AllEarned` says what plans rest on: `Earned`, of the stored snapshot and of every copy, that
  plans come with a measured baseline and that a recommended or approved plan was measured, is within the
  constraints and has rank one; `Worthy`, of a request that is about to propose or still has plans to visit, that its
  copy holds the measurement, without which the planner's answer could land on an unmeasured baseline. It
  gives `PlansRestOnBaseline` and `RecommendationsAreEarned`.
- `PlanningPromiseProofs`: the refinement. A request changes its copy over several awaits and shows all of it in one
  commit, so the invariant `Keeping` says of each fresh copy what that commit would be: until the request saves, the copy
  `Advances` the stored snapshot, and when it is about to save the step from one to the other is one of the promise
  (`Keeps`: advance, recommend, edit, decide). Each service method is shown to be such a step of a snapshot, and
  advances compose. `Best` is `BestPlanSelected` of every copy; it holds because ranking waits for every run and
  nothing is proposed or submitted afterwards. They give `BestPlansAreSelected` and `WorkflowKeepsPromise`
  under the hypothesis `Ops \subseteq BrowserCalls`, the calls of `PlanningConsole.tsx`. It is needed: through the other
  endpoints a caller may propose again, rank early or create the cycle again.
- `CycleStoreProofs`: `StoreInv` says that a request never holds a version from the future and
  that a held version names the stored snapshot, so that a write whose condition holds writes the
  stored snapshot plus its own update. It gives `DynamoKeepsUpdates`, `DynamoVersionNamesSnapshot` and the refinement
  `DynamoSavesAreAtomic`.

**Intake.**

- `SourceCollectionProofs`: `CollectionInv` has three parts. `Typed` is the part of the type invariant the
  others need. `ReadsHold` says that a record an actor holds agrees in its settings
  with the source as long as nobody wrote it. `LeasesHold` says that on DynamoDB the lease of a scheduler
  within its time is still in the table. They give `LeasesExclude` and `RecordedRunsKeepSettings`.
  `SourcesInv` adds the types, that an actor between two steps is at a source (`Placed`), and
  `PostgresEvidenceHasSource` itself: a write installs a whole record, so it keeps the foreign key only because what
  was read was a stored source and a write of a source that is gone is refused. It gives `CollectionTypesHold` and
  `EvidenceKeepsItsSource`. The due list is filtered with `Among`, which says by indices what `SelectSeq` says by
  recursion; `AmongKeeps` proves its type and its elements.
- `SignalPipelineProofs`: `PipelineInv` relates four places that hold a version: the stored one, what its worker
  counts (`InStep`), the worker's copy and each reviewer's (`CopiesHold`). `OneCall` says that a version has one worker
  and that no copy shows fewer missing mentions than are left, which is why a stale put can
  not make a version look complete; `Outcome` says what mapped and accepted versions are. Where DynamoDB's puts may undo each
  other (`early`) only `OneCall` and `ReviewsHold` survive. It gives `AcceptedSignalsAreComplete`,
  `AcceptedSignalsReachPlanning` and `FinishedVersionsAreFrozen`. `AttemptsHold` says that without a contest one call
  is between its eligibility check and its candidate, and holds the right attempt to retry; it gives `AttemptsAreOrderly`.
- `IntakeProofs`: `CallsInv` relates the requests sent to the loop counters (`Paid`, where Gemini's two
  loops multiply) and keeps an answer equal to what the calls came to (`Settled`); it gives `AnswersAreWhole`. `RunInv`
  says of a crawl that the queue is distinct and disjoint from what was visited, and that the outcomes told add up to the
  position in the list of items, deferred ones only at the end (`Tallied`); with the finiteness of the site it gives
  `UrlsAreVisitedOnce` and `EveryItemIsTold`. `IntakeTypesHold` puts the parts together.

**Custody.**

- `EvidenceStoreProofs`: `EvidenceInv` has a part for each backend. `ForeignKeys` is PostgreSQL's.
  `NoClash` says that an item that is not crossed belongs to one changing request or to readers, and that what they
  have read of it is still so; `References` says that DynamoDB's reference rows then
  tell the truth, also half-way through a deletion. Without `NoClash` nothing relates a late put to the row
  it replaces. They give `DuplicatesKeepTheirCanonical` and `RemovalsAreFinal`, on DynamoDB for items that are not crossed.
  `ReadingInv` adds what is known of readings, of items no edit has overtaken: what a processing holds and what citing
  signals were read from is `AsRead`, and an item under edit is neither cited nor being processed (`ReadingsStand`), which
  is what lets the edit's write change a text. It gives `CitationsStand`, with the exceptions of the table above.
  `ContentInv` adds
  what is known of contents: an unedited item has the content of its lock, of the stores that found it and of its
  duplicates (`ContentsStand`), an item edited on PostgreSQL has no duplicate as long as no store crosses the edit
  (`EditsStandAlone`), and an
  undeleted canonical item owns its hash lock (`LocksHold`). It gives `DuplicatesMatch` and `ContentsHaveOneCanonical`.
- `CustodyProofs`: `HandoffInv` says of a request that is about to write a package that its copy
  has the package's key and selection, and, when it stores a result, that the run it asked about was completed and
  known (`WritesHold`); and that a package submitted once is marked by one request only
  (`MarksHold`), without which a late mark could take back the status of a stored result. It gives
  `KeysNameOnePackage`, `StoredResultsStand` and `PackagesNeverChange`. `CreationsHold` follows a creation
  from read to read: the signals it has read are still accepted, and it knows the relationship as soon as it has read one
  version under which it is found; it gives `UnracedPackagesAreValid`. `GenerationInv` says that the client judged by the
  requested context and contracts so far, by states between the one that was read and its own (`Judged`), and that the
  proposal holds together since the judgement. A state never falls, so when the reconciliation finds it to be the requested
  one it was so at every validation before; that gives `FrozenScenariosAreSound`. `CustodyTypesHold` puts the parts together.

Only model-checked: the liveness properties (`BaselineAnswered`, `PlansRanked`, `DueSourcesCollected`, `MappingEnds`,
`RemoteWorkEnds`), because the prover reasons neither about fairness nor about ENABLED; and that the operators
`Seeds` and `Among` compute what the code's loops do, which is induction over their data: what is
proved of them is what the invariants need.

## Findings

Each is a run that must find its one property violated; `PROJECT.json` quotes the sentence of the
repository that says otherwise.

- `recreate_resets`: `POST /cycles` saves with no expected version under an id that repeats for the same generated content, so
  it replaces a cycle whose baseline already runs.
- `store_postgres`: compare in Python, then update by primary key: two overlapping transactions both succeed.
- `rejected_planned`: on DynamoDB an acceptance adds the version to the index planning reads, and a later
  rejection does not take it out.
- `linked_edited`: `update_evidence` counts citations in one transaction and writes in another
  (`app/repositories/postgres/evidence.py:203-207`), so evidence that a processing has cited in between is edited all the same. The
  same happens on DynamoDB.

Other disagreements met while modelling, which the properties step around and no run shows:

- `REJECTED` is missing from the statuses that count as terminal (`app/api/planning.py:208`), so a plan that is rejected
  early keeps the others unranked, against `docs/simulation-and-planning.md:154`. `PlansRanked` excepts a
  plan that was rejected before the ranking.
- A moved client context makes `propose_plans` raise a plain `ValueError` (`app/services/planning_service.py:410`),
  and the completed baseline in hand is not saved, against the comment at `app/api/planning.py:195`.
  `planning_browser` keeps the context where it is.
- DynamoDB counts references and deletes a source in two steps (`app/repositories/dynamodb/source.py:43`), so evidence
  stored between them has no source, against `docs/dynamodb-data-model.md:53`. `PostgresEvidenceHasSource` is about
  the other backend.
- A duplicate that no signal cites can be edited on both backends and keeps its `duplicate_of_id`
  (`app/repositories/dynamodb/evidence.py:119`), so it no longer has the content of the item it refers to, against
  `docs/ingestion-and-review.md:4`. `UneditedDuplicatesMatch` excepts it.
- DynamoDB's cleanup of duplicates deletes item after item, and each item's rows in a batch
  (`app/repositories/dynamodb/evidence.py:108-115`), and skips only what the preview found protected, against "Duplicate cleanup uses
  a transaction and returns protected skips" (`docs/dynamodb-data-model.md:43`). `NextVictim` and `Erase` follow the code, and the
  properties except what such a cleanup crosses.
- Neither `mark_submitted` nor `save_result` has a condition on status or version (`app/repositories/dynamodb/experiment.py:46-61`,
  `app/repositories/postgres/experiment.py:50-66`), against "Submission/result transitions require expected status/version"
  (`docs/dynamodb-data-model.md:48`): a second submission that was answered before the result was stored takes the package back
  from `COMPLETED` to `RUNNING`. `ResultsStand` excepts packages submitted more than once.
- PostgreSQL never derives a legal hold from the retention class (`app/repositories/postgres/evidence.py:85`), DynamoDB
  does (`app/repositories/dynamodb/evidence.py:97`).

## What is not modelled

- Composition rules, texts, prompts, schema validation, wire formats and rendering decide acceptance or
  wording, not the order of state changes; where a decision matters the models take either outcome.
- `get` of a DynamoDB snapshot reads META and then pages of chunks. CycleStore takes it as one step, so a torn
  read between two pages is not in the model.
- Clock skew between processes: a lease runs out for its owner and for the others at the same moment.
- Hypothetical proposals of the signal pipeline, which name no evidence and leave no attempt.
- Legal hold and retention dates of evidence, which only refuse operations, and the content chunks.
- The health and error texts of a run record.
- SourceCollection, CollectionRun and SignalPipeline are not composed: a collection is one step of the first, its
  items are processed in one step each in the second, and the third has any number of calls at any time, which
  includes the schedulers' and the manual ones.
- Prompt settings are one value per agent, read and written whole. Legacy scenario and plan reads, seeding and
  migrations keep no state of their own. The DynamoDB foundation is codec and paging; its conditional put and
  its transaction are the atomic steps of the modules above.

## Plan

Done, in the order of importance: the planning workflow with its promise; the save it takes as atomic; source
collection; then the signal pipeline, the evidence store, the experiment handoff, scenario generation, the remote
calls and the collection run. Left:

1. Theorems: with the chunk rows of item 2, that a returned snapshot was stored whole; the steps of the
   refinement of item 4; what a saved signal version may lose on DynamoDB when a decision was `early`.
2. CycleStore with chunk rows: a get that reads META and then pages of chunks next to a save. Property: a
   snapshot that is returned was once stored whole.
3. SourceCollection composed with SignalPipeline: two schedulers that process one item, and the deferral that only
   a manual retry picks up.
4. An abstract specification of the evidence store (a set of contents with one owner each) and the refinement on
   PostgreSQL.
