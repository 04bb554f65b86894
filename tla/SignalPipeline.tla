--------------------------- MODULE SignalPipeline ---------------------------
(***************************************************************************)
(* From one canonical evidence item to a reviewed signal                   *)
(* (server/app/services/signal_service.py and the two signal               *)
(* repositories).  process_evidence checks that every earlier attempt was  *)
(* rejected, asks the filter and the interpreter, stores a candidate,      *)
(* grounds its mentions one by one, maps its effect and finalizes it;      *)
(* scheduler passes and manual retries of one item may overlap.  Reviewers *)
(* decide about a signal at any time, also while it is being processed.    *)
(*                                                                         *)
(* PostgreSQL keeps mentions, effect, state and review in rows of their    *)
(* own, so every update touches its own columns.  DynamoDB keeps a version *)
(* as one item, and every update reads the item and later puts all of it   *)
(* back without a condition; only the META row of a signal has a version.  *)
(*                                                                         *)
(* A worker that dies stops here for ever, which the safety properties     *)
(* allow at any step.                                                      *)
(***************************************************************************)
EXTENDS Storage, Integers, FiniteSets

CONSTANTS
    Workers,     \* calls of process_evidence in flight at once
    Reviewers,   \* review requests in flight at once
    MaxSignals,  \* bound: candidates created from the evidence
    MaxMentions, \* bound: MaxMentions[s]: entity mentions of proposal s
    MaxReviews,  \* bound: decisions made or under way
    Calls        \* Calls[b]: the workers and reviewers that run on backend b

ASSUME PipelineAssumption ==
    /\ MaxSignals \in Nat /\ MaxReviews \in Nat
    /\ MaxMentions \in [1 .. MaxSignals -> Nat]
    /\ Calls \in [Backends -> SUBSET (Workers \cup Reviewers)]

\* Signals are numbered in the order of their creation.
Signals == 1 .. MaxSignals
NoSignal == 0

VARIABLES
    version,   \* version[s]: the version row of signal s
    retryOf,   \* retryOf[s]: the attempt signal s retries
    review,    \* review[s]: the review status in the signal's META row
    revision,  \* revision[s]: the version number of that row
    worker,    \* worker[w]: what call w does next, and its local variables
    reviewer,  \* reviewer[x]: what request x does next, and what it has read
    decided,   \* how many decisions were answered with success
    contested, \* ghost: what the eligibility check relies on was not given
    early      \* ghost: the signals a DynamoDB reviewer read while they were processed

signals == <<version, retryOf, review, revision>>
ghosts == <<decided, contested, early>>
signalVars == <<backend, signals, worker, reviewer, ghosts>>

Final == {"READY_FOR_REVIEW", "NEEDS_RESOLUTION", "MAPPING_FAILED"}
ProcessingStates == {"GROUNDING_PENDING", "MAPPING_PENDING"} \cup Final
\* FAILED stands for the five outcomes that finalize treats alike.  MAPPED has
\* the payload the client normalized.
Outcomes == {"MAPPED", "NO_ENTITIES", "UNRESOLVED_ENTITIES", "FAILED", "NONE"}
Decisions == {"ACCEPTED", "REJECTED"}

\* A version: the mentions that are not stored yet, whether a stored one is
\* unresolved, the effect, the copy of the review status, and whether the
\* DynamoDB item is in the index planning reads.
Version == [state      : ProcessingStates \cup {"ABSENT"},
            missing    : Nat,
            unresolved : BOOLEAN,
            outcome    : Outcomes,
            review     : Decisions \cup {"PENDING"},
            risk       : BOOLEAN]
Absent == [state |-> "ABSENT", missing |-> 0, unresolved |-> FALSE, outcome |-> "NONE",
           review |-> "PENDING", risk |-> FALSE]

Worker == [step : {"idle", "create", "ground", "map", "finish"},
           on : Signals \cup {NoSignal}, retry : Signals \cup {NoSignal},
           left : Nat, target : {"none", "resolved", "unresolved"},
           copy : Version]
Idle == [step |-> "idle", on |-> NoSignal, retry |-> NoSignal, left |-> 0,
         target |-> "none", copy |-> Absent]

Reviewer == [on : Signals \cup {NoSignal}, decision : Decisions,
             expected : Nat, copy : Version]
Waiting == [on |-> NoSignal, decision |-> "REJECTED", expected |-> 0, copy |-> Absent]

SignalTypeOK ==
    /\ backend \in Backends
    /\ version \in [Signals -> Version]
    /\ retryOf \in [Signals -> Signals \cup {NoSignal}]
    /\ review \in [Signals -> Decisions \cup {"PENDING"}]
    /\ revision \in [Signals -> Nat]
    /\ worker \in [Workers -> Worker]
    /\ reviewer \in [Reviewers -> Reviewer]
    /\ decided \in Nat
    /\ contested \in BOOLEAN
    /\ early \subseteq Signals

SignalInit ==
    /\ backend \in Backends
    /\ version = [s \in Signals |-> Absent]
    /\ retryOf = [s \in Signals |-> NoSignal]
    /\ review = [s \in Signals |-> "PENDING"]
    /\ revision = [s \in Signals |-> 0]
    /\ worker = [w \in Workers |-> Idle]
    /\ reviewer = [x \in Reviewers |-> Waiting]
    /\ decided = 0
    /\ contested = FALSE
    /\ early = {}

\* The attempts.  A hypothetical proposal, which names no evidence and leaves
\* no attempt, is not modelled.
Created == {s \in Signals : version[s].state # "ABSENT"}
Active == {s \in Created : review[s] # "REJECTED"}

-----------------------------------------------------------------------------
(***************************************************************************)
(* process_evidence up to the candidate.                                   *)
(***************************************************************************)
\* The DynamoDB query of the attempts is eventually consistent.
Visible == IF OnPostgres THEN {Created} ELSE SUBSET Created

\* attempts[-1]: PostgreSQL orders them by creation, DynamoDB by random id.
LastOf(attempts) ==
    IF attempts = {} THEN {NoSignal}
    ELSE IF OnPostgres THEN {s \in attempts : \A t \in attempts : t <= s}
    ELSE attempts

\* Mutant of Eligible: only an accepted signal blocks another attempt.
EligibleUnlessAccepted(attempts) == \A s \in attempts : review[s] # "ACCEPTED"

\* can_process: every attempt that is seen was rejected.
Eligible(attempts) == \A s \in attempts : review[s] = "REJECTED"

\* The evidence is loaded and its eligibility checked.
Check(w) ==
    /\ w \in Calls[backend] /\ worker[w].step = "idle" /\ Created # Signals
    /\ \E seen \in Visible : \E last \in LastOf(seen) :
          /\ Eligible(seen)
          /\ worker' = [worker EXCEPT ![w].step = "create", ![w].retry = last]
          /\ contested' = (\/ contested
                           \/ seen # Created
                           \/ \E v \in Workers : worker[v].step = "create")
    /\ UNCHANGED <<backend, signals, reviewer, decided, early>>

\* The filter does not accept the evidence, or the client or a model fails.
GiveUp(w) ==
    /\ worker[w].step = "create"
    /\ worker' = [worker EXCEPT ![w] = Idle]
    /\ UNCHANGED <<backend, signals, reviewer, ghosts>>

\* create_candidate, where nothing looks at the attempts again, and the state
\* that is set right after it.
CreateCandidate(w) ==
    /\ worker[w].step = "create"
    /\ \E s \in Signals \ Created : \E mentions \in 0 .. MaxMentions[s] :
          /\ \A t \in Signals \ Created : s <= t
          /\ version' = [version EXCEPT ![s] =
                [Absent EXCEPT !.state = "GROUNDING_PENDING", !.missing = mentions]]
          /\ retryOf' = [retryOf EXCEPT ![s] = worker[w].retry]
          /\ worker' = [worker EXCEPT ![w] =
                [Idle EXCEPT !.step = "ground", !.on = s, !.left = mentions]]
    /\ UNCHANGED <<backend, review, revision, reviewer, ghosts>>

-----------------------------------------------------------------------------
(***************************************************************************)
(* The updates of a version.                                               *)
(***************************************************************************)
\* get_version before a DynamoDB update.
ReadVersion(w) ==
    /\ OnDynamo /\ worker[w].on # NoSignal /\ worker[w].copy = Absent
    /\ worker' = [worker EXCEPT ![w].copy = version[worker[w].on]]
    /\ UNCHANGED <<backend, signals, reviewer, ghosts>>

MayWrite(w) == OnDynamo => worker[w].copy # Absent
Base(w) == IF OnDynamo THEN worker[w].copy ELSE version[worker[w].on]

\* _save_version: the payload that was read and changed; the row it is put
\* into was read again in between, for its index keys.
Save(w, payload, local) ==
    /\ MayWrite(w)
    /\ \E risk \in {payload.risk, version[worker[w].on].risk} :
          version' = [version EXCEPT ![worker[w].on] = [payload EXCEPT !.risk = risk]]
    /\ worker' = [worker EXCEPT ![w] = local]
    /\ UNCHANGED <<backend, retryOf, review, revision, reviewer, ghosts>>

\* The local variables of w at its next step.
At(w, step) == [worker[w] EXCEPT !.step = step, !.copy = Absent]

\* resolve_entity and add_entity for the next mention.
GroundMention(w) ==
    /\ worker[w].step = "ground" /\ worker[w].left > 0
    /\ \E resolved \in BOOLEAN, target \in BOOLEAN :
          Save(w, [Base(w) EXCEPT !.missing = @ - 1,
                                  !.unresolved = @ \/ ~resolved],
               [At(w, "ground") EXCEPT
                   !.left = @ - 1,
                   !.target = IF ~target THEN @
                              ELSE IF resolved /\ @ # "unresolved" THEN "resolved"
                              ELSE "unresolved"])

\* resolve_entity raises: nothing catches it, the candidate stays as it is.
GroundingFails(w) ==
    /\ worker[w].step = "ground" /\ worker[w].left > 0 /\ worker[w].copy = Absent
    /\ worker' = [worker EXCEPT ![w] = Idle]
    /\ UNCHANGED <<backend, signals, reviewer, ghosts>>

BeginMapping(w) ==
    /\ worker[w].step = "ground" /\ worker[w].left = 0
    /\ Save(w, [Base(w) EXCEPT !.state = "MAPPING_PENDING"], At(w, "map"))

\* What mapping and validation may come to.
MappingOutcomes(target) ==
    CASE target = "none" -> {"NO_ENTITIES"}
      [] target = "unresolved" -> {"UNRESOLVED_ENTITIES"}
      [] OTHER -> {"MAPPED", "FAILED"}

\* Mutant of MappingFails: nothing catches the exception.
MappingStops(w) ==
    /\ worker[w].step = "map" /\ worker[w].copy = Absent
    /\ worker' = [worker EXCEPT ![w] = Idle]
    /\ UNCHANGED <<backend, signals, reviewer, ghosts>>

\* An unexpected exception is stored as an outcome of its own.
MappingFails(w) ==
    /\ worker[w].step = "map"
    /\ Save(w, [Base(w) EXCEPT !.outcome = "FAILED"], At(w, "finish"))

MapEffect(w) ==
    /\ worker[w].step = "map"
    /\ \E outcome \in MappingOutcomes(worker[w].target) :
          Save(w, [Base(w) EXCEPT !.outcome = outcome], At(w, "finish"))

StateFor(outcome) ==
    CASE outcome = "MAPPED" -> "READY_FOR_REVIEW"
      [] outcome \in {"NO_ENTITIES", "UNRESOLVED_ENTITIES"} -> "NEEDS_RESOLUTION"
      [] OTHER -> "MAPPING_FAILED"

\* Mutant of FinalizeSignal: the state is set before the effect is stored.
FinalizeTooEarly(w) ==
    /\ worker[w].step = "map"
    /\ Save(w, [Base(w) EXCEPT !.state = StateFor(Base(w).outcome)], At(w, "map"))

FinalizeSignal(w) ==
    /\ worker[w].step = "finish"
    /\ Save(w, [Base(w) EXCEPT !.state = StateFor(Base(w).outcome)], Idle)

-----------------------------------------------------------------------------
(***************************************************************************)
(* review_signal: read and check, then decide under the version read.      *)
(***************************************************************************)
\* Mutant of Acceptable: the effect decides alone.
AcceptableIfMapped(v) == v.outcome = "MAPPED"

Acceptable(v) == ~v.unresolved /\ v.outcome = "MAPPED"

Processed(s) == \A w \in Workers : worker[w].on # s

\* Any decision about any signal, also a second one.
ReadForReview(x, s, decision) ==
    /\ x \in Calls[backend] /\ reviewer[x].on = NoSignal /\ s \in Created
    /\ decided + Cardinality({y \in Reviewers : reviewer[y].on # NoSignal}) < MaxReviews
    /\ decision = "ACCEPTED" => Acceptable(version[s])
    /\ reviewer' = [reviewer EXCEPT ![x] =
          [on |-> s, decision |-> decision, expected |-> revision[s],
           copy |-> IF OnDynamo THEN version[s] ELSE Absent]]
    /\ early' = IF OnPostgres \/ Processed(s) THEN early ELSE early \cup {s}
    /\ UNCHANGED <<backend, signals, worker, decided, contested>>

Current(x) == revision[reviewer[x].on] = reviewer[x].expected

\* Mutant of Reviewed: the item leaves the index whatever is decided.
ReviewedUnindexed(x, s) ==
    IF OnPostgres THEN [version[s] EXCEPT !.review = reviewer[x].decision]
    ELSE [reviewer[x].copy EXCEPT !.review = reviewer[x].decision, !.risk = FALSE]

\* The version row after the decision: DynamoDB puts the payload it read and,
\* when it accepts, adds the key of the index planning reads.
Reviewed(x, s) ==
    IF OnPostgres THEN [version[s] EXCEPT !.review = reviewer[x].decision]
    ELSE [reviewer[x].copy EXCEPT !.review = reviewer[x].decision,
                                  !.risk = @ \/ reviewer[x].decision = "ACCEPTED"]

CommitReview(x) ==
    LET s == reviewer[x].on IN
    /\ s # NoSignal /\ Current(x)
    /\ version' = [version EXCEPT ![s] = Reviewed(x, s)]
    /\ review' = [review EXCEPT ![s] = reviewer[x].decision]
    /\ revision' = [revision EXCEPT ![s] = reviewer[x].expected + 1]
    /\ decided' = decided + 1
    /\ contested' = (contested \/ (review[s] = "REJECTED" /\ reviewer[x].decision = "ACCEPTED"))
    /\ reviewer' = [reviewer EXCEPT ![x] = Waiting]
    /\ UNCHANGED <<backend, retryOf, worker, early>>

\* "signal version conflict"
ReviewConflict(x) ==
    /\ reviewer[x].on # NoSignal /\ ~Current(x)
    /\ reviewer' = [reviewer EXCEPT ![x] = Waiting]
    /\ UNCHANGED <<backend, signals, worker, ghosts>>

-----------------------------------------------------------------------------
ProcessingStep(w) ==
    \/ ReadVersion(w) \/ GroundMention(w) \/ BeginMapping(w)
    \/ MapEffect(w) \/ MappingFails(w) \/ FinalizeSignal(w)

Work(w) == Check(w) \/ GiveUp(w) \/ CreateCandidate(w) \/ GroundingFails(w)

Review(x) ==
    \/ \E s \in Signals, decision \in Decisions : ReadForReview(x, s, decision)
    \/ CommitReview(x) \/ ReviewConflict(x)

SignalNext ==
    \/ \E w \in Workers : Work(w) \/ ProcessingStep(w)
    \/ \E x \in Reviewers : Review(x)

SignalSpec == SignalInit /\ [][SignalNext]_signalVars

\* A processing that has started goes on; nobody has to process or review.
SignalFairSpec == SignalSpec /\ WF_signalVars(\E w \in Workers : ProcessingStep(w))

-----------------------------------------------------------------------------
(***************************************************************************)
(* Properties.                                                             *)
(***************************************************************************)
\* On PostgreSQL every decision counts.  On DynamoDB a decision that was read
\* while the signal was processed is written around the worker's own
\* unconditional puts, and each may undo the other.
Undisturbed(s) == OnPostgres \/ s \notin early

OneActiveCandidate == Cardinality(Active) <= 1
RetriesFormChain == \A s \in Created : retryOf[s] \in LastOf({t \in Created : t < s})

\* docs/ingestion-and-review.md promises at most one pending or accepted
\* candidate for an evidence item "in normal operation".  Normal means: no two
\* eligibility checks overlap before their candidates are stored, the
\* DynamoDB query of the attempts is up to date, and no rejected signal is
\* accepted after all.  Then, on PostgreSQL, the retries also form a chain:
\* each points to the attempt created last before it.
AttemptHistory == contested \/ (OneActiveCandidate /\ (OnPostgres => RetriesFormChain))

\* An accepted signal is complete: every mention of the proposal is stored
\* and resolved, and the client has normalized its effect.
AcceptedIsComplete ==
    \A s \in Signals : review[s] = "ACCEPTED" /\ Undisturbed(s) =>
        /\ version[s].missing = 0 /\ ~version[s].unresolved
        /\ version[s].outcome = "MAPPED"

\* What planning reads as a risk candidate (risk_candidates).
Planned(s) ==
    /\ version[s].state = "READY_FOR_REVIEW" /\ version[s].outcome = "MAPPED"
    /\ IF OnPostgres THEN review[s] = "ACCEPTED" ELSE version[s].risk

\* An accepted, finished signal reaches planning on both backends.
AcceptedReachesPlanning ==
    \A s \in Signals : review[s] = "ACCEPTED" /\ Processed(s) /\ Undisturbed(s) => Planned(s)

\* docs/dynamodb-data-model.md: planning reads accepted versions.
PlannedIsAccepted == \A s \in Signals : Planned(s) => review[s] = "ACCEPTED"

Content(v) == <<v.missing, v.unresolved, v.outcome, v.state>>

\* A finished version is immutable: decisions change nothing of what was
\* grounded, mapped and validated.
FinishedVersionFrozen ==
    [][\A s \in Signals : version[s].state \in Final /\ Undisturbed(s)
          => Content(version'[s]) = Content(version[s])]_signalVars

\* A candidate that has reached mapping is not left there: whatever the
\* mapping comes to, also an exception, again and again no candidate is
\* between mapping and a final state.
MappingEnds ==
    []<>(\A s \in Signals : version[s].state = "MAPPING_PENDING" => ~Undisturbed(s))
=============================================================================
