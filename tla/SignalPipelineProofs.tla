------------------------ MODULE SignalPipelineProofs ------------------------
(***************************************************************************)
(* What the signal pipeline guarantees for every number of workers,        *)
(* reviewers, signals and mentions on both backends: an accepted signal is *)
(* complete and is planned with, a finished version is never worked on     *)
(* again, and the attempts of an evidence item follow one another.         *)
(***************************************************************************)
EXTENDS SignalPipeline, FiniteSetTheorems, TLAPS

(***************************************************************************)
(* One call at a time works on a signal, and what it, or a reviewer, has   *)
(* read of a version never tells of fewer missing mentions than are left.  *)
(***************************************************************************)
OneCall ==
    \A w \in Workers :
        LET me == worker[w] IN
        /\ me.on = NoSignal <=> me.step \in {"idle", "create"}
        /\ me.on # NoSignal =>
              /\ me.on \in Created
              /\ \A v \in Workers : worker[v].on = me.on => v = w
              /\ version[me.on].missing >= me.left
              /\ me.copy # Absent => me.copy.state # "ABSENT" /\ me.copy.missing >= me.left

ReviewsHold ==
    \A x \in Reviewers :
        LET mine == reviewer[x] IN
        mine.on # NoSignal =>
            /\ mine.on \in Created
            /\ OnDynamo => /\ mine.copy.state # "ABSENT"
                           /\ \A w \in Workers : worker[w].on = mine.on =>
                                 mine.copy.missing >= worker[w].left

\* What an undisturbed version shows is what its call has done so far.
Shows(v, me) ==
    /\ v.missing = me.left
    /\ me.step # "ground" => me.left = 0
    /\ v.state = (IF me.step = "ground" THEN "GROUNDING_PENDING" ELSE "MAPPING_PENDING")
    /\ me.step # "finish" => v.outcome = "NONE"

InStep ==
    \A w \in Workers :
        worker[w].on # NoSignal /\ Undisturbed(worker[w].on) =>
            /\ Shows(version[worker[w].on], worker[w])
            /\ OnDynamo /\ worker[w].copy # Absent => worker[w].copy = version[worker[w].on]

\* A reviewer's copy of an undisturbed version is up to date but for earlier
\* decisions, and what was acceptable when it was read still is.
FullyMapped(v) == v.missing = 0 /\ ~v.unresolved /\ v.outcome = "MAPPED"

CopiesHold ==
    \A x \in Reviewers :
        LET mine == reviewer[x] IN
        mine.on # NoSignal /\ Undisturbed(mine.on) =>
            /\ OnDynamo => Processed(mine.on) /\ Content(mine.copy) = Content(version[mine.on])
            /\ mine.decision = "ACCEPTED" => FullyMapped(version[mine.on])

\* A mapped version is whole, and final once its call is over; an accepted
\* one is complete and, on DynamoDB, indexed.
Outcome ==
    \A s \in Signals :
        /\ review[s] # "PENDING" => s \in Created
        /\ Undisturbed(s) =>
              /\ version[s].outcome = "MAPPED" =>
                    /\ version[s].missing = 0
                    /\ Processed(s) => version[s].state = "READY_FOR_REVIEW"
              /\ review[s] = "ACCEPTED" =>
                    /\ FullyMapped(version[s])
                    /\ OnDynamo => version[s].risk

PipelineInv ==
    /\ SignalTypeOK
    /\ OneCall /\ ReviewsHold /\ InStep /\ CopiesHold /\ Outcome

LEMMA InitPipelineInv == SignalInit => PipelineInv
  <1> SUFFICES ASSUME SignalInit PROVE PipelineInv
    OBVIOUS
  <1>1. /\ Absent \in Version /\ Absent.outcome = "NONE"
        /\ Idle \in Worker /\ Idle.on = NoSignal /\ Idle.step = "idle"
        /\ Waiting \in Reviewer /\ Waiting.on = NoSignal
    BY DEF Absent, Idle, Waiting, Version, Worker, Reviewer, Outcomes, Decisions
  <1>2. SignalTypeOK
    BY <1>1 DEF SignalInit, SignalTypeOK
  <1>3. OneCall /\ ReviewsHold /\ InStep /\ CopiesHold /\ Outcome
    BY <1>1 DEF SignalInit, OneCall, ReviewsHold, InStep, CopiesHold, Outcome
  <1> QED BY <1>2, <1>3 DEF PipelineInv

\* What no step may do to a finished version.
FrozenStep ==
    \A s \in Signals : version[s].state \in Final /\ Undisturbed(s)
        => Content(version'[s]) = Content(version[s])

-----------------------------------------------------------------------------
(***************************************************************************)
(* A step of one call: it moves to the local variables me and, when it has *)
(* a signal, leaves v as the version of it.                                *)
(***************************************************************************)
Moves(w, me, v) ==
    LET s == worker[w].on IN
    /\ worker' = [worker EXCEPT ![w] = me]
    /\ version' = IF s = NoSignal THEN version ELSE [version EXCEPT ![s] = v]
    /\ UNCHANGED <<backend, retryOf, review, revision, reviewer, early>>
    /\ decided' \in Nat /\ contested' \in BOOLEAN

Legal(w, me, v) ==
    LET s == worker[w].on IN
    /\ me \in Worker
    /\ me.on = NoSignal <=> me.step \in {"idle", "create"}
    /\ me.on \in {NoSignal, s}
    /\ s # NoSignal => v \in Version /\ v.state # "ABSENT"
    /\ me.on # NoSignal =>
          /\ v.missing >= me.left /\ me.left <= worker[w].left
          /\ me.copy # Absent => me.copy.state # "ABSENT" /\ me.copy.missing >= me.left
    /\ s # NoSignal /\ Undisturbed(s) =>
          /\ FullyMapped(version[s]) => FullyMapped(v)
          /\ v.risk = version[s].risk
          /\ v.outcome = "MAPPED" => v.missing = 0
          /\ me.on = NoSignal /\ v.outcome = "MAPPED" => v.state = "READY_FOR_REVIEW"
          /\ me.on # NoSignal => /\ Shows(v, me)
                                 /\ OnDynamo /\ me.copy # Absent => me.copy = v

LEMMA CallStepKeeps ==
  ASSUME PipelineInv, NEW w \in Workers, NEW me, NEW v, Moves(w, me, v), Legal(w, me, v)
  PROVE  PipelineInv' /\ FrozenStep /\ Created' = Created
  <1> DEFINE s == worker[w].on
  <1> USE DEF Moves, Legal
  <1>1. /\ s \in Signals \cup {NoSignal} /\ NoSignal \notin Signals
        /\ \A x \in Workers : worker'[x] = IF x = w THEN me ELSE worker[x]
        /\ \A t \in Signals : version'[t] = IF t = s THEN v ELSE version[t]
    BY PipelineAssumption DEF PipelineInv, SignalTypeOK, Worker, Signals, NoSignal
  <1>2. SignalTypeOK'
    BY <1>1 DEF PipelineInv, SignalTypeOK
  <1>3. Created' = Created
    BY <1>1, <1>2 DEF PipelineInv, SignalTypeOK, OneCall, Created
  <1>4. OneCall'
    BY <1>1, <1>2, <1>3 DEF PipelineInv, OneCall
  <1>5. ReviewsHold'
    BY <1>1, <1>2, <1>3 DEF PipelineInv, SignalTypeOK, ReviewsHold, OneCall, OnDynamo, Worker, Reviewer, Version
  <1>6. \A t \in Signals : Undisturbed(t)' <=> Undisturbed(t)
    BY DEF Undisturbed, OnPostgres
  <1>7. \A t \in Signals \ {s} : Processed(t)' <=> Processed(t)
    BY <1>1 DEF Processed
  <1>8. InStep'
    BY <1>1, <1>3, <1>4, <1>6 DEF PipelineInv, OneCall, InStep, OnDynamo, Shows, Created
  <1>9. CopiesHold'
    BY <1>1, <1>3, <1>6, <1>7 DEF PipelineInv, ReviewsHold, CopiesHold, OnDynamo, Content, Created, Processed
  <1>10. Outcome'
    <2> SUFFICES ASSUME NEW t \in Signals
                 PROVE  /\ review'[t] # "PENDING" => t \in Created'
                        /\ Undisturbed(t)' =>
                              /\ version'[t].outcome = "MAPPED" =>
                                    /\ version'[t].missing = 0
                                    /\ Processed(t)' => version'[t].state = "READY_FOR_REVIEW"
                              /\ review'[t] = "ACCEPTED" =>
                                    /\ FullyMapped(version'[t])
                                    /\ OnDynamo => version'[t].risk
      BY DEF Outcome, OnDynamo, FullyMapped
    <2>1. CASE t = s
      <3>1. Processed(s)' => me.on = NoSignal
        BY <1>1, <2>1 DEF Processed
      <3> QED BY <1>1, <1>3, <1>6, <2>1, <3>1 DEF PipelineInv, Outcome
    <2>2. CASE t # s
      BY <1>1, <1>3, <1>6, <1>7, <2>2 DEF PipelineInv, Outcome
    <2> QED BY <2>1, <2>2
  <1>11. FrozenStep
    BY <1>1 DEF PipelineInv, InStep, Shows, FrozenStep, Final, Content
  <1> QED BY <1>2, <1>3, <1>4, <1>5, <1>8, <1>9, <1>10, <1>11 DEF PipelineInv
LEMMA WorkerTypes ==
  ASSUME SignalTypeOK, NEW w \in Workers
  PROVE  /\ Idle \in Worker /\ worker[w] \in Worker /\ Absent \in Version
         /\ worker[w].on # NoSignal => version[worker[w].on] \in Version
  BY DEF SignalTypeOK, Idle, Worker, Absent, Version, Outcomes

\* The call has no signal before and after.
LEMMA UnassignedKeeps ==
  ASSUME PipelineInv, NEW w \in Workers, Check(w) \/ GiveUp(w)
  PROVE  PipelineInv' /\ FrozenStep /\ Created' = Created
  <1>1. CASE GiveUp(w)
    <2>1. Moves(w, Idle, Absent)
      BY <1>1 DEF GiveUp, Moves, signals, ghosts, PipelineInv, SignalTypeOK, OneCall
    <2>2. Legal(w, Idle, Absent)
      BY <1>1, WorkerTypes DEF GiveUp, Legal, Idle, PipelineInv, OneCall
    <2> QED BY <2>1, <2>2, CallStepKeeps
  <1>2. CASE Check(w)
    <2>1. PICK last \in Signals \cup {NoSignal} :
            worker' = [worker EXCEPT ![w].step = "create", ![w].retry = last]
      BY <1>2 DEF Check, LastOf, Visible, Created
    <2> DEFINE me == [worker[w] EXCEPT !.step = "create", !.retry = last]
    <2>2. worker[w] \in Worker /\ worker[w].on = NoSignal
      BY <1>2 DEF Check, PipelineInv, OneCall, SignalTypeOK
    <2>3. me \in Worker /\ me.on = NoSignal /\ me.step = "create"
      BY <2>2 DEF Worker
    <2>4. worker' = [worker EXCEPT ![w] = me]
      BY <2>1 DEF PipelineInv, SignalTypeOK
    <2> HIDE DEF me
    <2>5. Moves(w, me, Absent)
      BY <1>2, <2>2, <2>4 DEF Check, Moves, signals, PipelineInv, SignalTypeOK
    <2>6. Legal(w, me, Absent)
      BY <2>2, <2>3 DEF Legal
    <2> QED BY <2>5, <2>6, CallStepKeeps
  <1> QED BY <1>1, <1>2

\* The exception leaves the candidate without an outcome.
LEMMA GroundingFailsKeeps ==
  ASSUME PipelineInv, NEW w \in Workers, GroundingFails(w)
  PROVE  PipelineInv' /\ FrozenStep /\ Created' = Created
  <1> DEFINE s == worker[w].on
  <1>1. /\ s \in Signals /\ s # NoSignal /\ version[s] \in Version /\ s \in Created
        /\ Undisturbed(s) => version[s].outcome = "NONE"
    BY WorkerTypes DEF GroundingFails, PipelineInv, SignalTypeOK, OneCall, InStep, Shows, Created
  <1>2. Moves(w, Idle, version[s])
    BY <1>1 DEF GroundingFails, Moves, signals, ghosts, PipelineInv, SignalTypeOK
  <1>3. Legal(w, Idle, version[s])
    BY <1>1, WorkerTypes DEF Legal, Idle, PipelineInv, Created
  <1> QED BY <1>2, <1>3, CallStepKeeps

LEMMA ReadVersionKeeps ==
  ASSUME PipelineInv, NEW w \in Workers, ReadVersion(w)
  PROVE  PipelineInv' /\ FrozenStep /\ Created' = Created
  <1> DEFINE s == worker[w].on
             me == [worker[w] EXCEPT !.copy = version[s]]
  <1>1. /\ s \in Signals /\ s # NoSignal /\ version[s] \in Version /\ s \in Created
        /\ worker[w] \in Worker
    BY WorkerTypes DEF ReadVersion, PipelineInv, SignalTypeOK, OneCall, Created
  <1>2. /\ me \in Worker /\ me.on = s /\ me.step = worker[w].step /\ me.left = worker[w].left
        /\ me.copy = version[s]
    BY <1>1 DEF Worker
  <1>3. worker' = [worker EXCEPT ![w] = me]
    BY DEF ReadVersion, PipelineInv, SignalTypeOK
  <1> HIDE DEF me
  <1>4. Moves(w, me, version[s])
    BY <1>1, <1>3 DEF ReadVersion, Moves, signals, ghosts, PipelineInv, SignalTypeOK
  <1>5. Legal(w, me, version[s])
    BY <1>1, <1>2 DEF Legal, PipelineInv, OneCall, InStep, Shows, Created, Outcome, Worker
  <1> QED BY <1>4, <1>5, CallStepKeeps

\* What an update starts from: never less than what is left, and for an
\* undisturbed signal the version itself.
LEMMA BaseHolds ==
  ASSUME PipelineInv, NEW w \in Workers, worker[w].on # NoSignal, MayWrite(w)
  PROVE  /\ worker[w].on \in Signals /\ worker[w] \in Worker
         /\ Base(w) \in Version /\ Base(w).state # "ABSENT"
         /\ Base(w).missing >= worker[w].left
         /\ Undisturbed(worker[w].on) =>
               /\ Base(w) = version[worker[w].on]
               /\ Shows(Base(w), worker[w])
  BY WorkerTypes DEF MayWrite, Base, PipelineInv, SignalTypeOK, OneCall, InStep, Created, Worker

LEMMA SaveKeeps ==
  ASSUME PipelineInv, NEW w \in Workers, worker[w].on # NoSignal,
         NEW payload \in Version, NEW me, Save(w, payload, me),
         payload.risk = Base(w).risk,
         \A risk \in BOOLEAN : payload.risk = risk \/ ~Undisturbed(worker[w].on) =>
             Legal(w, me, [payload EXCEPT !.risk = risk])
  PROVE  PipelineInv' /\ FrozenStep /\ Created' = Created
  <1> DEFINE s == worker[w].on
  <1>1. PICK risk \in {payload.risk, version[s].risk} :
          version' = [version EXCEPT ![s] = [payload EXCEPT !.risk = risk]]
    BY DEF Save
  <1>2. risk \in BOOLEAN /\ (Undisturbed(s) => risk = payload.risk)
    BY BaseHolds DEF Save, PipelineInv, SignalTypeOK, Version
  <1>3. Moves(w, me, [payload EXCEPT !.risk = risk])
    BY <1>1 DEF Save, Moves, ghosts, PipelineInv, SignalTypeOK
  <1> QED BY <1>2, <1>3, CallStepKeeps
LEMMA GroundMentionKeeps ==
  ASSUME PipelineInv, NEW w \in Workers, GroundMention(w)
  PROVE  PipelineInv' /\ FrozenStep /\ Created' = Created
  <1> DEFINE s == worker[w].on
  <1>1. PICK resolved \in BOOLEAN, target \in BOOLEAN :
          Save(w, [Base(w) EXCEPT !.missing = @ - 1, !.unresolved = @ \/ ~resolved],
               [At(w, "ground") EXCEPT
                   !.left = @ - 1,
                   !.target = IF ~target THEN @
                              ELSE IF resolved /\ @ # "unresolved" THEN "resolved"
                              ELSE "unresolved"])
    BY DEF GroundMention
  <1>2. /\ s # NoSignal /\ worker[w].step = "ground" /\ worker[w].left \in Nat
        /\ worker[w].left > 0 /\ MayWrite(w)
    BY <1>1, WorkerTypes DEF GroundMention, Save, PipelineInv, SignalTypeOK, OneCall, Worker
  <1> DEFINE unresolved == Base(w).unresolved \/ ~resolved
             found == IF ~target THEN At(w, "ground").target
                      ELSE IF resolved /\ At(w, "ground").target # "unresolved" THEN "resolved"
                      ELSE "unresolved"
             payload == [Base(w) EXCEPT !.missing = Base(w).missing - 1,
                                        !.unresolved = unresolved]
             me == [At(w, "ground") EXCEPT !.left = At(w, "ground").left - 1,
                                           !.target = found]
  <1>3. Save(w, payload, me)
    BY <1>1
  <1>4. unresolved \in BOOLEAN /\ found \in {"none", "resolved", "unresolved"}
    BY <1>2, BaseHolds DEF At, Worker
  <1> HIDE DEF unresolved, found
  <1>5. Base(w) \in Version /\ Base(w).missing - 1 \in Nat
    <2>1. Base(w).missing \in Nat /\ Base(w).missing >= worker[w].left
      BY <1>2, BaseHolds DEF Version
    <2> QED BY <1>2, <2>1, BaseHolds
  <1>6. /\ payload \in Version /\ payload.missing = Base(w).missing - 1
        /\ payload.state = Base(w).state /\ payload.outcome = Base(w).outcome
        /\ payload.risk = Base(w).risk
    BY <1>4, <1>5 DEF Version
  <1>7. /\ At(w, "ground") \in Worker /\ At(w, "ground").on = s
        /\ At(w, "ground").step = "ground" /\ At(w, "ground").copy = Absent
        /\ At(w, "ground").left = worker[w].left
    BY <1>2, BaseHolds, WorkerTypes DEF At, Worker, PipelineInv
  <1>8. worker[w].left - 1 \in Nat
    BY <1>2
  <1>9. /\ me \in Worker /\ me.on = s /\ me.step = "ground" /\ me.copy = Absent
        /\ me.left = worker[w].left - 1
    BY <1>4, <1>7, <1>8 DEF Worker
  <1> HIDE DEF payload, me
  <1>10. ASSUME NEW risk \in BOOLEAN, payload.risk = risk \/ ~Undisturbed(s)
        PROVE  Legal(w, me, [payload EXCEPT !.risk = risk])
    <2> DEFINE v == [payload EXCEPT !.risk = risk]
    <2>1. /\ v \in Version /\ v.missing = payload.missing /\ v.state = payload.state
          /\ v.outcome = payload.outcome /\ v.risk = risk
      BY <1>6, <1>10 DEF Version
    <2> HIDE DEF v
    <2>2. v.missing >= me.left /\ me.left <= worker[w].left
      BY <1>2, <1>6, <1>9, <2>1, BaseHolds DEF Version
    <2>3. Undisturbed(s) => /\ Shows(v, me)
                            /\ v.risk = version[s].risk
                            /\ ~FullyMapped(version[s]) /\ v.outcome = "NONE"
      BY <1>2, <1>6, <1>9, <1>10, <2>1, BaseHolds DEF Shows, FullyMapped
    <2> QED BY <1>2, <1>6, <1>9, <2>1, <2>2, <2>3, BaseHolds DEF Legal, v
  <1> QED BY <1>2, <1>6, <1>3, <1>10, SaveKeeps

LEMMA BeginMappingKeeps ==
  ASSUME PipelineInv, NEW w \in Workers, BeginMapping(w)
  PROVE  PipelineInv' /\ FrozenStep /\ Created' = Created
  <1> DEFINE s == worker[w].on
             payload == [Base(w) EXCEPT !.state = "MAPPING_PENDING"]
             me == At(w, "map")
  <1>1. Save(w, payload, me) /\ MayWrite(w)
    BY DEF BeginMapping, Save
  <1>2. /\ s # NoSignal /\ worker[w].step = "ground" /\ worker[w].left = 0
    BY DEF BeginMapping, PipelineInv, OneCall
  <1>3. /\ payload \in Version /\ payload.missing = Base(w).missing
        /\ payload.state = "MAPPING_PENDING" /\ payload.outcome = Base(w).outcome
        /\ payload.risk = Base(w).risk
    BY <1>1, <1>2, BaseHolds DEF Version, ProcessingStates
  <1>4. /\ me \in Worker /\ me.on = s /\ me.step = "map" /\ me.copy = Absent
        /\ me.left = worker[w].left
    BY <1>1, <1>2, BaseHolds, WorkerTypes DEF At, Worker, PipelineInv
  <1> HIDE DEF payload, me
  <1>5. ASSUME NEW risk \in BOOLEAN, payload.risk = risk \/ ~Undisturbed(s)
        PROVE  Legal(w, me, [payload EXCEPT !.risk = risk])
    <2> DEFINE v == [payload EXCEPT !.risk = risk]
    <2>1. /\ v \in Version /\ v.missing = payload.missing /\ v.state = payload.state
          /\ v.outcome = payload.outcome /\ v.risk = risk
      BY <1>3, <1>5 DEF Version
    <2> HIDE DEF v
    <2>2. Undisturbed(s) => /\ Shows(v, me)
                            /\ v.risk = version[s].risk
                            /\ ~FullyMapped(version[s]) /\ v.outcome = "NONE"
      BY <1>1, <1>2, <1>3, <1>4, <1>5, <2>1, BaseHolds DEF Shows, FullyMapped
    <2> QED BY <1>1, <1>2, <1>3, <1>4, <2>1, <2>2, BaseHolds DEF Legal, Worker, v
  <1> QED BY <1>1, <1>2, <1>3, <1>5, SaveKeeps

\* Whatever the mapping comes to, and also when it fails.
LEMMA MapKeeps ==
  ASSUME PipelineInv, NEW w \in Workers, MapEffect(w) \/ MappingFails(w)
  PROVE  PipelineInv' /\ FrozenStep /\ Created' = Created
  <1> DEFINE s == worker[w].on
             me == At(w, "finish")
  <1>1. PICK outcome \in Outcomes : Save(w, [Base(w) EXCEPT !.outcome = outcome], me)
    BY DEF MapEffect, MappingFails, MappingOutcomes, Outcomes
  <1> DEFINE payload == [Base(w) EXCEPT !.outcome = outcome]
  <1>2. s # NoSignal /\ worker[w].step = "map" /\ MayWrite(w)
    BY <1>1 DEF MapEffect, MappingFails, Save, PipelineInv, OneCall
  <1>3. /\ payload \in Version /\ payload.missing = Base(w).missing
        /\ payload.state = Base(w).state /\ payload.risk = Base(w).risk
    BY <1>2, BaseHolds DEF Version
  <1>4. /\ me \in Worker /\ me.on = s /\ me.step = "finish" /\ me.copy = Absent
        /\ me.left = worker[w].left
    BY <1>2, BaseHolds, WorkerTypes DEF At, Worker, PipelineInv
  <1> HIDE DEF payload, me
  <1>5. ASSUME NEW risk \in BOOLEAN, payload.risk = risk \/ ~Undisturbed(s)
        PROVE  Legal(w, me, [payload EXCEPT !.risk = risk])
    <2> DEFINE v == [payload EXCEPT !.risk = risk]
    <2>1. /\ v \in Version /\ v.missing = payload.missing /\ v.state = payload.state
          /\ v.risk = risk
      BY <1>3, <1>5 DEF Version
    <2> HIDE DEF v
    <2>2. Undisturbed(s) => /\ Shows(v, me) /\ v.missing = 0
                            /\ v.risk = version[s].risk
                            /\ ~FullyMapped(version[s])
      BY <1>2, <1>3, <1>4, <1>5, <2>1, BaseHolds DEF Shows, FullyMapped
    <2> QED BY <1>2, <1>3, <1>4, <2>1, <2>2, BaseHolds DEF Legal, Worker, v
  <1> QED BY <1>1, <1>2, <1>3, <1>5, SaveKeeps DEF payload

LEMMA FinalizeKeeps ==
  ASSUME PipelineInv, NEW w \in Workers, FinalizeSignal(w)
  PROVE  PipelineInv' /\ FrozenStep /\ Created' = Created
  <1> DEFINE s == worker[w].on
             payload == [Base(w) EXCEPT !.state = StateFor(Base(w).outcome)]
  <1>1. Save(w, payload, Idle) /\ MayWrite(w)
    BY DEF FinalizeSignal, Save
  <1>2. s # NoSignal /\ worker[w].step = "finish"
    BY DEF FinalizeSignal, PipelineInv, OneCall
  <1>3. /\ payload \in Version /\ payload.missing = Base(w).missing
        /\ payload.state = StateFor(Base(w).outcome) /\ payload.state # "ABSENT"
        /\ payload.outcome = Base(w).outcome /\ payload.unresolved = Base(w).unresolved
        /\ payload.risk = Base(w).risk
    BY <1>1, <1>2, BaseHolds DEF Version, ProcessingStates, Final, StateFor
  <1> HIDE DEF payload
  <1>4. ASSUME NEW risk \in BOOLEAN, payload.risk = risk \/ ~Undisturbed(s)
        PROVE  Legal(w, Idle, [payload EXCEPT !.risk = risk])
    <2> DEFINE v == [payload EXCEPT !.risk = risk]
    <2>1. /\ v \in Version /\ v.missing = payload.missing /\ v.state = payload.state
          /\ v.outcome = payload.outcome /\ v.unresolved = payload.unresolved /\ v.risk = risk
      BY <1>3, <1>4 DEF Version
    <2> HIDE DEF v
    <2>2. Idle \in Worker /\ Idle.on = NoSignal /\ Idle.step = "idle"
      BY WorkerTypes DEF Idle, PipelineInv
    <2>3. Undisturbed(s) => /\ v.missing = 0 /\ v.risk = version[s].risk
                            /\ v.outcome = "MAPPED" => v.state = "READY_FOR_REVIEW"
                            /\ FullyMapped(version[s]) => FullyMapped(v)
      BY <1>1, <1>2, <1>3, <1>4, <2>1, BaseHolds DEF Shows, FullyMapped, StateFor
    <2> QED BY <1>2, <1>3, <2>1, <2>2, <2>3 DEF Legal, v
  <1> QED BY <1>1, <1>2, <1>3, <1>4, SaveKeeps
LEMMA CreateCandidateKeeps ==
  ASSUME PipelineInv, NEW w \in Workers, CreateCandidate(w)
  PROVE  PipelineInv' /\ FrozenStep
  <1>0. PICK s \in Signals \ Created : \E mentions \in 0 .. MaxMentions[s] :
          /\ version' = [version EXCEPT ![s] =
                [Absent EXCEPT !.state = "GROUNDING_PENDING", !.missing = mentions]]
          /\ retryOf' = [retryOf EXCEPT ![s] = worker[w].retry]
          /\ worker' = [worker EXCEPT ![w] =
                [Idle EXCEPT !.step = "ground", !.on = s, !.left = mentions]]
    BY DEF CreateCandidate
  <1>1. PICK mentions \in Nat :
          /\ version' = [version EXCEPT ![s] =
                [Absent EXCEPT !.state = "GROUNDING_PENDING", !.missing = mentions]]
          /\ retryOf' = [retryOf EXCEPT ![s] = worker[w].retry]
          /\ worker' = [worker EXCEPT ![w] =
                [Idle EXCEPT !.step = "ground", !.on = s, !.left = mentions]]
    <2>1. MaxMentions[s] \in Nat
      BY PipelineAssumption DEF Signals
    <2>2. \A m \in 0 .. MaxMentions[s] : m \in Nat
      BY <2>1
    <2> QED BY <1>0, <2>2
  <1> DEFINE v == [Absent EXCEPT !.state = "GROUNDING_PENDING", !.missing = mentions]
             me == [Idle EXCEPT !.step = "ground", !.on = s, !.left = mentions]
  <1>2. /\ v \in Version /\ v.state = "GROUNDING_PENDING" /\ v.missing = mentions
        /\ v.outcome = "NONE"
    BY DEF Absent, Version, ProcessingStates, Outcomes
  <1>3. /\ me \in Worker /\ me.step = "ground" /\ me.on = s /\ me.left = mentions
        /\ me.copy = Absent
    BY DEF Idle, Worker, Version, Absent, Outcomes
  <1>4. version' = [version EXCEPT ![s] = v] /\ worker' = [worker EXCEPT ![w] = me]
    BY <1>1
  <1> HIDE DEF v, me
  <1>5. /\ s \in Signals /\ s # NoSignal /\ s \notin Created
        /\ \A x \in Workers : worker'[x] = IF x = w THEN me ELSE worker[x]
        /\ \A t \in Signals : version'[t] = IF t = s THEN v ELSE version[t]
        /\ UNCHANGED <<backend, review, revision, reviewer, ghosts>>
        /\ worker[w].on = NoSignal /\ NoSignal \notin Signals
    BY <1>4, PipelineAssumption
       DEF CreateCandidate, PipelineInv, SignalTypeOK, OneCall, Signals, NoSignal
  <1>6. SignalTypeOK'
    BY <1>1, <1>2, <1>3, <1>4, <1>5, WorkerTypes
       DEF CreateCandidate, PipelineInv, SignalTypeOK, ghosts, Worker
  <1>7. Created' = Created \cup {s}
    BY <1>2, <1>5 DEF Created
  <1>8. OneCall'
    <2>1. \A x \in Workers \ {w} : worker[x].on # s /\ worker'[x] = worker[x]
      BY <1>5 DEF PipelineInv, OneCall
    <2>2. version'[s].missing >= me.left
      BY <1>2, <1>3, <1>5
    <2>3. \A x \in Workers \ {w} : worker[x].on # NoSignal => version'[worker[x].on] = version[worker[x].on]
      BY <1>5, <2>1 DEF PipelineInv, OneCall, Created
    <2> QED BY <1>3, <1>5, <1>7, <2>1, <2>2, <2>3 DEF PipelineInv, OneCall
  <1>9. ReviewsHold'
    BY <1>3, <1>5, <1>7 DEF PipelineInv, ReviewsHold, OnDynamo
  <1>10. \A t \in Signals : Undisturbed(t)' <=> Undisturbed(t)
    BY <1>5 DEF Undisturbed, OnPostgres, ghosts
  <1>11. \A t \in Signals \ {s} : Processed(t)' <=> Processed(t)
    BY <1>3, <1>5 DEF Processed, PipelineInv, OneCall
  <1>12. InStep'
    BY <1>2, <1>3, <1>5, <1>6, <1>10 DEF PipelineInv, OneCall, InStep, OnDynamo, Shows, Created
  <1>13. CopiesHold'
    BY <1>5, <1>7, <1>10, <1>11 DEF PipelineInv, ReviewsHold, CopiesHold, OnDynamo, Content, Created
  <1>14. Outcome'
    BY <1>2, <1>5, <1>7, <1>10, <1>11 DEF PipelineInv, Outcome, OnDynamo, FullyMapped
  <1>15. FrozenStep
    BY <1>5 DEF FrozenStep, Created, Final, Content
  <1> QED BY <1>6, <1>8, <1>9, <1>12, <1>13, <1>14, <1>15 DEF PipelineInv

(***************************************************************************)
(* The reviewers.                                                          *)
(***************************************************************************)
LEMMA ReadForReviewKeeps ==
  ASSUME PipelineInv, NEW x \in Reviewers, NEW s \in Signals, NEW decision \in Decisions,
         ReadForReview(x, s, decision)
  PROVE  PipelineInv' /\ FrozenStep /\ Created' = Created
  <1> DEFINE mine == [on |-> s, decision |-> decision, expected |-> revision[s],
                      copy |-> IF OnDynamo THEN version[s] ELSE Absent]
  <1>1. /\ mine \in Reviewer /\ mine.on = s /\ mine.decision = decision
        /\ OnDynamo => mine.copy = version[s]
    BY DEF PipelineInv, SignalTypeOK, Reviewer, Absent, Version, Outcomes
  <1>2. /\ \A y \in Reviewers : reviewer'[y] = IF y = x THEN mine ELSE reviewer[y]
        /\ UNCHANGED <<backend, version, review, worker>>
        /\ s \in Created /\ (decision = "ACCEPTED" => Acceptable(version[s]))
    BY DEF ReadForReview, PipelineInv, SignalTypeOK, signals
  <1>3. /\ early \subseteq early' /\ early' \subseteq Signals
        /\ s \in early' \/ OnPostgres \/ Processed(s)
    BY DEF ReadForReview, PipelineInv, SignalTypeOK
  <1>4. SignalTypeOK'
    BY <1>1, <1>3 DEF ReadForReview, PipelineInv, SignalTypeOK, signals
  <1> HIDE DEF mine
  <1>5. Created' = Created /\ OnDynamo' = OnDynamo /\ \A t \in Signals : Processed(t)' = Processed(t)
    BY <1>2 DEF Created, OnDynamo, Processed
  <1>6. \A t \in Signals : Undisturbed(t)' => Undisturbed(t)
    BY <1>2, <1>3 DEF Undisturbed, OnPostgres
  <1>7. Undisturbed(s)' => OnPostgres \/ Processed(s)
    BY <1>2, <1>3 DEF Undisturbed, OnPostgres
  <1>8. OneCall'
    BY <1>2, <1>5 DEF PipelineInv, OneCall
  <1>9. ReviewsHold'
    BY <1>1, <1>2, <1>5 DEF PipelineInv, ReviewsHold, OneCall, Created
  <1>10. InStep'
    BY <1>2, <1>5, <1>6 DEF PipelineInv, InStep, OneCall, Created, Shows
  <1>11. CopiesHold'
    <2>1. Acceptable(version[s]) /\ Undisturbed(s)' => FullyMapped(version[s])
      BY <1>6 DEF PipelineInv, Outcome, Acceptable, FullyMapped
    <2>2. ~(OnPostgres /\ OnDynamo)
      BY DEF OnPostgres, OnDynamo
    <2> QED BY <1>1, <1>2, <1>5, <1>6, <1>7, <2>1, <2>2
            DEF PipelineInv, ReviewsHold, CopiesHold, Content, Created, FullyMapped
  <1>12. Outcome'
    BY <1>2, <1>5, <1>6 DEF PipelineInv, Outcome, FullyMapped
  <1>13. FrozenStep
    BY <1>2 DEF FrozenStep, Content
  <1> QED BY <1>4, <1>5, <1>8, <1>9, <1>10, <1>11, <1>12, <1>13 DEF PipelineInv

LEMMA ReviewConflictKeeps ==
  ASSUME PipelineInv, NEW x \in Reviewers, ReviewConflict(x)
  PROVE  PipelineInv' /\ FrozenStep /\ Created' = Created
  <1>1. /\ \A y \in Reviewers : reviewer'[y] = IF y = x THEN Waiting ELSE reviewer[y]
        /\ UNCHANGED <<backend, version, review, worker, ghosts>>
        /\ Waiting.on = NoSignal
    BY DEF ReviewConflict, PipelineInv, SignalTypeOK, signals, Waiting
  <1>2. SignalTypeOK'
    BY DEF ReviewConflict, PipelineInv, SignalTypeOK, signals, ghosts, Waiting, Reviewer, Absent,
           Version, Outcomes, Decisions
  <1>3. /\ Created' = Created /\ OnDynamo' = OnDynamo
        /\ \A t \in Signals : Processed(t)' = Processed(t) /\ Undisturbed(t)' = Undisturbed(t)
    BY <1>1 DEF Created, OnDynamo, Processed, Undisturbed, OnPostgres, ghosts
  <1>4. OneCall' /\ ReviewsHold'
    BY <1>1, <1>3 DEF PipelineInv, OneCall, ReviewsHold
  <1>5. InStep' /\ CopiesHold' /\ Outcome'
    BY <1>1, <1>3 DEF PipelineInv, InStep, CopiesHold, Outcome, OneCall, ReviewsHold, Created,
                      Shows, Content, FullyMapped
  <1>6. FrozenStep
    BY <1>1 DEF FrozenStep, Content
  <1> QED BY <1>2, <1>3, <1>4, <1>5, <1>6 DEF PipelineInv

\* The decision: on PostgreSQL the review column alone, on DynamoDB the whole
\* item, which for an undisturbed signal says what the version says.
LEMMA CommitReviewKeeps ==
  ASSUME PipelineInv, NEW x \in Reviewers, CommitReview(x)
  PROVE  PipelineInv' /\ FrozenStep /\ Created' = Created
  <1> DEFINE s == reviewer[x].on
             v == Reviewed(x, s)
             decision == reviewer[x].decision
  <1>1. /\ s \in Signals /\ s # NoSignal /\ s \in Created /\ reviewer[x] \in Reviewer
        /\ version[s] \in Version /\ decision \in Decisions
    BY DEF CommitReview, PipelineInv, SignalTypeOK, Reviewer, ReviewsHold
  <1>2. /\ v \in Version /\ v.state # "ABSENT"
        /\ \A w \in Workers : worker[w].on = s => v.missing >= worker[w].left
        /\ Undisturbed(s) => Content(v) = Content(version[s])
        /\ OnPostgres => v.risk = version[s].risk /\ Content(v) = Content(version[s])
        /\ OnDynamo /\ decision = "ACCEPTED" => v.risk
    <2>1. CASE OnPostgres
      <3>1. v = [version[s] EXCEPT !.review = decision] /\ ~OnDynamo
        BY <2>1 DEF Reviewed, OnPostgres, OnDynamo
      <3> HIDE DEF v
      <3>2. v \in Version /\ Content(v) = Content(version[s]) /\ v.risk = version[s].risk
        BY <1>1, <3>1 DEF Version, Content, Decisions
      <3>3. v.missing = version[s].missing /\ v.state = version[s].state
        BY <3>2 DEF Content
      <3> QED BY <1>1, <3>1, <3>2, <3>3 DEF PipelineInv, OneCall, Created
    <2>2. CASE ~OnPostgres
      <3> DEFINE c == reviewer[x].copy
                 risk == c.risk \/ decision = "ACCEPTED"
      <3>1. v = [c EXCEPT !.review = decision, !.risk = risk]
        BY <2>2 DEF Reviewed
      <3>2. c \in Version /\ risk \in BOOLEAN /\ OnDynamo
        BY <1>1, <2>2, BackendAssumption DEF Reviewer, PipelineInv, SignalTypeOK, OnPostgres, OnDynamo
      <3>3. decision = "ACCEPTED" => risk
        OBVIOUS
      <3> HIDE DEF v, risk
      <3>4. v \in Version /\ Content(v) = Content(c) /\ v.risk = risk
        BY <1>1, <3>1, <3>2 DEF Version, Content, Decisions
      <3>5. v.missing = c.missing /\ v.state = c.state
        BY <3>4 DEF Content
      <3> QED BY <1>1, <2>2, <3>2, <3>3, <3>4, <3>5 DEF PipelineInv, ReviewsHold, CopiesHold
    <2> QED BY <2>1, <2>2
  <1> HIDE DEF v
  <1>3. /\ \A y \in Reviewers : reviewer'[y] = IF y = x THEN Waiting ELSE reviewer[y]
        /\ \A t \in Signals : version'[t] = IF t = s THEN v ELSE version[t]
        /\ \A t \in Signals : review'[t] = IF t = s THEN decision ELSE review[t]
        /\ UNCHANGED <<backend, worker, early>>
        /\ Waiting.on = NoSignal
    BY <1>1 DEF CommitReview, PipelineInv, SignalTypeOK, signals, Waiting, v
  <1>4. SignalTypeOK'
    <2>1. Waiting \in Reviewer
      BY DEF Waiting, Reviewer, Absent, Version, Outcomes, Decisions
    <2>2. contested' \in BOOLEAN /\ decided' \in Nat /\ revision' \in [Signals -> Nat]
      BY <1>1 DEF CommitReview, PipelineInv, SignalTypeOK, Reviewer
    <2>3. /\ version' \in [Signals -> Version]
          /\ review' \in [Signals -> Decisions \cup {"PENDING"}]
          /\ reviewer' \in [Reviewers -> Reviewer]
      BY <1>1, <1>2, <2>1 DEF CommitReview, PipelineInv, SignalTypeOK, v
    <2> QED BY <2>2, <2>3 DEF CommitReview, PipelineInv, SignalTypeOK
  <1>5. /\ Created' = Created /\ OnDynamo' = OnDynamo /\ OnPostgres' = OnPostgres
        /\ \A t \in Signals : Processed(t)' = Processed(t) /\ Undisturbed(t)' = Undisturbed(t)
    BY <1>1, <1>2, <1>3 DEF Created, OnDynamo, Processed, Undisturbed, OnPostgres
  <1>6. OneCall'
    BY <1>1, <1>2, <1>3, <1>5 DEF PipelineInv, OneCall, Created
  <1>7. ReviewsHold'
    BY <1>3, <1>5 DEF PipelineInv, ReviewsHold
  <1>8. OnDynamo /\ Undisturbed(s) => Processed(s)
    BY <1>1 DEF PipelineInv, CopiesHold
  <1>9. OnDynamo \/ OnPostgres
    BY BackendAssumption DEF PipelineInv, SignalTypeOK, OnPostgres, OnDynamo
  <1>10. Undisturbed(s) => /\ v.missing = version[s].missing /\ v.unresolved = version[s].unresolved
                           /\ v.outcome = version[s].outcome /\ v.state = version[s].state
    BY <1>2 DEF Content
  <1>11. InStep'
    BY <1>1, <1>3, <1>5, <1>8, <1>9, <1>10
       DEF PipelineInv, InStep, OneCall, Created, Shows, Processed, OnDynamo, OnPostgres
  <1>12. CopiesHold'
    BY <1>1, <1>3, <1>5, <1>10 DEF PipelineInv, ReviewsHold, CopiesHold, Content, Created, FullyMapped
  <1>13. Outcome'
    BY <1>1, <1>2, <1>3, <1>5, <1>10 DEF PipelineInv, CopiesHold, Outcome, FullyMapped, Decisions
  <1>14. FrozenStep
    BY <1>2, <1>3 DEF FrozenStep, Content
  <1> QED BY <1>4, <1>5, <1>6, <1>7, <1>11, <1>12, <1>13, <1>14 DEF PipelineInv
LEMMA StutterKeepsPipeline ==
  ASSUME PipelineInv, UNCHANGED signalVars
  PROVE  PipelineInv' /\ FrozenStep /\ Created' = Created
  <1> USE DEF signalVars, signals, ghosts
  <1>1. /\ Created' = Created /\ OnDynamo' = OnDynamo
        /\ \A t \in Signals : Processed(t)' = Processed(t) /\ Undisturbed(t)' = Undisturbed(t)
    BY DEF Created, OnDynamo, Processed, Undisturbed, OnPostgres
  <1>2. SignalTypeOK' /\ OneCall' /\ ReviewsHold'
    BY <1>1 DEF PipelineInv, SignalTypeOK, OneCall, ReviewsHold
  <1>3. InStep' /\ CopiesHold' /\ Outcome'
    BY <1>1 DEF PipelineInv, InStep, CopiesHold, Outcome, OneCall, ReviewsHold, Created,
                Shows, Content, FullyMapped
  <1> QED BY <1>1, <1>2, <1>3 DEF PipelineInv, FrozenStep, Content

LEMMA PipelineStep ==
  ASSUME PipelineInv, [SignalNext]_signalVars
  PROVE  /\ PipelineInv' /\ FrozenStep
         /\ Created' = Created \/ \E w \in Workers : CreateCandidate(w)
  BY StutterKeepsPipeline, UnassignedKeeps, GroundingFailsKeeps, ReadVersionKeeps,
     CreateCandidateKeeps, GroundMentionKeeps, BeginMappingKeeps, MapKeeps, FinalizeKeeps,
     ReadForReviewKeeps, CommitReviewKeeps, ReviewConflictKeeps
     DEF SignalNext, Work, ProcessingStep, Review

LEMMA AlwaysPipelineInv == SignalSpec => []PipelineInv
  <1>1. PipelineInv /\ [SignalNext]_signalVars => PipelineInv'
    BY PipelineStep
  <1> QED BY InitPipelineInv, <1>1, PTL DEF SignalSpec

\* Every version, copy and local variable of the pipeline is of its type,
\* also the count of missing mentions, which updates of stale copies lower.
THEOREM SignalTypesHold == SignalSpec => []SignalTypeOK
  <1>1. PipelineInv => SignalTypeOK
    BY DEF PipelineInv
  <1> QED BY <1>1, AlwaysPipelineInv, PTL

\* For any number of calls and reviewers, an accepted signal has all its
\* mentions stored and resolved, and an effect the client normalized.
THEOREM AcceptedSignalsAreComplete == SignalSpec => []AcceptedIsComplete
  <1>1. PipelineInv => AcceptedIsComplete
    BY DEF PipelineInv, Outcome, AcceptedIsComplete, FullyMapped
  <1> QED BY <1>1, AlwaysPipelineInv, PTL

\* An accepted signal whose processing is over is one that planning reads.
THEOREM AcceptedSignalsReachPlanning == SignalSpec => []AcceptedReachesPlanning
  <1>1. PipelineInv => AcceptedReachesPlanning
    BY BackendAssumption
       DEF PipelineInv, SignalTypeOK, Outcome, AcceptedReachesPlanning, Planned, FullyMapped,
           OnPostgres, OnDynamo
  <1> QED BY <1>1, AlwaysPipelineInv, PTL

\* No step changes what was grounded, mapped and validated of a finished
\* version.
THEOREM FinishedVersionsAreFrozen == SignalSpec => FinishedVersionFrozen
  <1>1. PipelineInv /\ [SignalNext]_signalVars => [FrozenStep]_signalVars
    BY PipelineStep
  <1>2. SignalSpec => [][FrozenStep]_signalVars
    BY <1>1, AlwaysPipelineInv, PTL DEF SignalSpec
  <1> QED BY <1>2 DEF FinishedVersionFrozen, FrozenStep

-----------------------------------------------------------------------------
(***************************************************************************)
(* The attempts.  A call that is about to store a candidate has seen every *)
(* attempt rejected, and while the history is not contested it is the only *)
(* one.                                                                    *)
(***************************************************************************)
AttemptsHold ==
    /\ \A s \in Created, t \in Signals : t < s => t \in Created
    /\ ~contested =>
          /\ \A s, t \in Active : s = t
          /\ \A w \in Workers : worker[w].step = "create" =>
                /\ Active = {}
                /\ \A v \in Workers : worker[v].step = "create" => v = w
                /\ OnPostgres => worker[w].retry \in LastOf(Created)
          /\ OnPostgres => RetriesFormChain

\* Steps that store no candidate, begin none and revive no rejected signal.
LEMMA SameAttempts ==
  ASSUME AttemptsHold, Created' = Created, UNCHANGED <<backend, retryOf>>,
         ~contested' => /\ ~contested
                        /\ Active' \subseteq Active
                        /\ \A w \in Workers : worker'[w].step = "create" =>
                              /\ worker[w].step = "create"
                              /\ worker'[w].retry = worker[w].retry
  PROVE  AttemptsHold'
  <1>1. OnPostgres' = OnPostgres /\ \A S : LastOf(S)' = LastOf(S)
    BY DEF LastOf, OnPostgres
  <1>2. RetriesFormChain => RetriesFormChain'
    BY <1>1 DEF RetriesFormChain
  <1> QED BY <1>1, <1>2 DEF AttemptsHold

LEMMA CheckKeepsAttempts ==
  ASSUME PipelineInv, AttemptsHold, NEW w \in Workers, Check(w)
  PROVE  AttemptsHold'
  <1>1. PICK seen \in Visible, last \in Signals \cup {NoSignal} :
          /\ last \in LastOf(seen) /\ Eligible(seen)
          /\ worker' = [worker EXCEPT ![w].step = "create", ![w].retry = last]
          /\ contested' = (\/ contested
                           \/ seen # Created
                           \/ \E v \in Workers : worker[v].step = "create")
    BY DEF Check, LastOf, Visible, Created
  <1>2. /\ UNCHANGED <<backend, version, review, retryOf>>
        /\ \A v \in Workers \ {w} : worker'[v] = worker[v]
        /\ worker'[w].step = "create" /\ worker'[w].retry = last
    BY <1>1 DEF Check, signals, PipelineInv, SignalTypeOK, Worker
  <1>3. /\ Created' = Created /\ Active' = Active /\ OnPostgres' = OnPostgres
        /\ \A S : LastOf(S)' = LastOf(S)
    BY <1>2 DEF Created, Active, LastOf, OnPostgres
  <1>4. RetriesFormChain' <=> RetriesFormChain
    BY <1>2, <1>3 DEF RetriesFormChain
  <1>5. ASSUME ~contested'
        PROVE  /\ ~contested /\ Active = {} /\ last \in LastOf(Created)
               /\ \A v \in Workers : worker'[v].step = "create" => v = w
    BY <1>1, <1>2, <1>5 DEF Eligible, Active
  <1> QED BY <1>2, <1>3, <1>4, <1>5 DEF AttemptsHold

\* The new candidate is the only active one, and the last.
LEMMA CreateKeepsAttempts ==
  ASSUME PipelineInv, AttemptsHold, NEW w \in Workers, CreateCandidate(w)
  PROVE  AttemptsHold'
  <1>1. PICK s \in Signals \ Created :
          /\ \A t \in Signals \ Created : s <= t
          /\ \E mentions \in 0 .. MaxMentions[s] :
                /\ version' = [version EXCEPT ![s] =
                      [Absent EXCEPT !.state = "GROUNDING_PENDING", !.missing = mentions]]
                /\ worker' = [worker EXCEPT ![w] =
                      [Idle EXCEPT !.step = "ground", !.on = s, !.left = mentions]]
          /\ retryOf' = [retryOf EXCEPT ![s] = worker[w].retry]
    BY DEF CreateCandidate
  <1>2. /\ UNCHANGED <<backend, review, contested>>
        /\ worker[w].step = "create" /\ worker'[w].step # "create"
        /\ \A v \in Workers \ {w} : worker'[v] = worker[v]
        /\ \A t \in Signals : /\ t # s => version'[t] = version[t]
                              /\ retryOf'[t] = IF t = s THEN worker[w].retry ELSE retryOf[t]
        /\ version'[s].state # "ABSENT"
    <2>1. PICK mentions \in 0 .. MaxMentions[s] :
            /\ version' = [version EXCEPT ![s] =
                  [Absent EXCEPT !.state = "GROUNDING_PENDING", !.missing = mentions]]
            /\ worker' = [worker EXCEPT ![w] =
                  [Idle EXCEPT !.step = "ground", !.on = s, !.left = mentions]]
      BY <1>1
    <2>2. /\ [Absent EXCEPT !.state = "GROUNDING_PENDING", !.missing = mentions].state # "ABSENT"
          /\ [Idle EXCEPT !.step = "ground", !.on = s, !.left = mentions].step # "create"
      BY DEF Absent, Idle
    <2> QED BY <1>1, <2>1, <2>2 DEF CreateCandidate, ghosts, PipelineInv, SignalTypeOK
  <1>3. Created' = Created \cup {s} /\ Active' \subseteq Active \cup {s}
    BY <1>2 DEF Created, Active
  <1>4. /\ \A t \in Created : t < s
        /\ \A t \in Signals : t < s => t \in Created
    BY <1>1 DEF AttemptsHold, Created, Signals
  <1>5. OnPostgres' = OnPostgres
    BY <1>2 DEF OnPostgres
  <1>6. /\ {t \in Created' : t < s} = Created
        /\ \A u \in Created : {t \in Created' : t < u} = {t \in Created : t < u}
    BY <1>3, <1>4 DEF Created, Signals
  <1>7. ASSUME ~contested, OnPostgres PROVE RetriesFormChain'
    <2>1. worker[w].retry \in LastOf(Created) /\ RetriesFormChain
      BY <1>2, <1>7 DEF AttemptsHold
    <2> SUFFICES ASSUME NEW u \in Created'
                 PROVE  retryOf'[u] \in LastOf({t \in Created' : t < u})
      BY <1>2 DEF RetriesFormChain, LastOf, OnPostgres
    <2>2. CASE u = s
      BY <1>2, <1>6, <2>1, <2>2
    <2>3. CASE u # s
      BY <1>2, <1>3, <1>6, <2>1, <2>3 DEF RetriesFormChain, Created
    <2> QED BY <2>2, <2>3
  <1>8. \A u \in Created', t \in Signals : t < u => t \in Created'
    BY <1>3, <1>4 DEF AttemptsHold
  <1> QED BY <1>2, <1>3, <1>5, <1>7, <1>8 DEF AttemptsHold

LEMMA OthersKeepAttempts ==
  ASSUME PipelineInv, AttemptsHold, Created' = Created, [SignalNext]_signalVars,
         \A w \in Workers : ~Check(w) /\ ~CreateCandidate(w)
  PROVE  AttemptsHold'
  <1>1. ASSUME UNCHANGED <<backend, retryOf, review, contested>>,
               \A w \in Workers : worker'[w].step = "create" => worker'[w] = worker[w]
        PROVE  AttemptsHold'
    <2>1. Active' = Active
      BY <1>1 DEF Active
    <2> QED BY <1>1, <2>1, SameAttempts
  <1>2. CASE UNCHANGED signalVars
    BY <1>1, <1>2 DEF signalVars, signals, ghosts
  <1>3. ASSUME NEW w \in Workers, GiveUp(w) \/ GroundingFails(w)
        PROVE  AttemptsHold'
    <2>1. /\ UNCHANGED <<backend, retryOf, review, contested>>
          /\ \A v \in Workers : worker'[v].step = "create" => worker'[v] = worker[v]
      BY <1>3 DEF GiveUp, GroundingFails, signals, ghosts, Idle, PipelineInv, SignalTypeOK
    <2> QED BY <1>1, <2>1
  <1>4. ASSUME NEW w \in Workers, ReadVersion(w)
        PROVE  AttemptsHold'
    <2>1. /\ UNCHANGED <<backend, retryOf, review, contested>>
          /\ \A v \in Workers : worker'[v].step = worker[v].step /\ worker'[v].retry = worker[v].retry
      BY <1>4 DEF ReadVersion, signals, ghosts, PipelineInv, SignalTypeOK, Worker
    <2>2. Active' = Active
      BY <2>1 DEF Active
    <2> QED BY <2>1, <2>2, SameAttempts
  <1>5. ASSUME NEW w \in Workers, NEW payload, NEW me, Save(w, payload, me), me.step # "create"
        PROVE  AttemptsHold'
    <2>1. /\ UNCHANGED <<backend, retryOf, review, contested>>
          /\ \A v \in Workers : worker'[v].step = "create" => worker'[v] = worker[v]
      BY <1>5 DEF Save, ghosts, PipelineInv, SignalTypeOK
    <2> QED BY <1>1, <2>1
  <1>6. ASSUME NEW w \in Workers, \/ GroundMention(w) \/ BeginMapping(w) \/ MapEffect(w)
                                  \/ MappingFails(w) \/ FinalizeSignal(w)
        PROVE  AttemptsHold'
    <2>1. /\ worker[w] \in Worker
          /\ \A step \in {"ground", "map", "finish"} : At(w, step).step # "create" /\ At(w, step) \in Worker
          /\ Idle.step # "create"
      BY WorkerTypes DEF At, Worker, Idle, PipelineInv
    <2>2. CASE GroundMention(w)
      <3>1. PICK left, target, payload :
              Save(w, payload, [At(w, "ground") EXCEPT !.left = left, !.target = target])
        BY <2>2 DEF GroundMention
      <3>2. [At(w, "ground") EXCEPT !.left = left, !.target = target].step # "create"
        BY <2>1 DEF Worker
      <3> QED BY <1>5, <3>1, <3>2
    <2>3. CASE ~GroundMention(w)
      BY <1>5, <1>6, <2>1, <2>3 DEF BeginMapping, MapEffect, MappingFails, FinalizeSignal
    <2> QED BY <2>2, <2>3
  <1>7. ASSUME NEW x \in Reviewers, ReviewConflict(x) \/
               \E s \in Signals, decision \in Decisions : ReadForReview(x, s, decision)
        PROVE  AttemptsHold'
    BY <1>1, <1>7 DEF ReviewConflict, ReadForReview, signals, ghosts
  <1>8. ASSUME NEW x \in Reviewers, CommitReview(x)
        PROVE  AttemptsHold'
    <2>1. /\ UNCHANGED <<backend, retryOf, worker>>
          /\ ~contested' => ~contested
          /\ ~contested' => ~(review[reviewer[x].on] = "REJECTED" /\ reviewer[x].decision = "ACCEPTED")
          /\ \A t \in Signals : review'[t] = IF t = reviewer[x].on THEN reviewer[x].decision ELSE review[t]
          /\ reviewer[x].decision \in {"ACCEPTED", "REJECTED"}
      BY <1>8 DEF CommitReview, PipelineInv, SignalTypeOK, Reviewer, Decisions
    <2>2. ~contested' => Active' \subseteq Active
      BY <2>1 DEF Active, Created
    <2> QED BY <2>1, <2>2, SameAttempts
  <1> QED BY <1>2, <1>3, <1>4, <1>6, <1>7, <1>8
          DEF SignalNext, Work, ProcessingStep, Review

LEMMA AlwaysAttemptsHold == SignalSpec => [](PipelineInv /\ AttemptsHold)
  <1>1. SignalInit => AttemptsHold
    BY DEF SignalInit, AttemptsHold, Created, Active, Absent, Idle, RetriesFormChain
  <1>2. PipelineInv /\ AttemptsHold /\ [SignalNext]_signalVars => AttemptsHold'
    <2> SUFFICES ASSUME PipelineInv, AttemptsHold, [SignalNext]_signalVars PROVE AttemptsHold'
      OBVIOUS
    <2>1. CASE \E w \in Workers : Check(w) \/ CreateCandidate(w)
      BY <2>1, CheckKeepsAttempts, CreateKeepsAttempts
    <2>2. CASE \A w \in Workers : ~Check(w) /\ ~CreateCandidate(w)
      BY <2>2, PipelineStep, OthersKeepAttempts
    <2> QED BY <2>1, <2>2
  <1> QED BY <1>1, <1>2, AlwaysPipelineInv, PTL DEF SignalSpec

\* In normal operation an evidence item never has two pending or accepted
\* candidates, and on PostgreSQL each retry points to the attempt before it.
THEOREM AttemptsAreOrderly == SignalSpec => []AttemptHistory
  <1>1. AttemptsHold => AttemptHistory
    <2> SUFFICES ASSUME AttemptsHold, ~contested PROVE OneActiveCandidate
      BY DEF AttemptsHold, AttemptHistory
    <2>1. CASE Active = {}
      BY <2>1, FS_EmptySet DEF OneActiveCandidate
    <2>2. ASSUME NEW s \in Active PROVE OneActiveCandidate
      <3>1. Active = {s}
        BY <2>2 DEF AttemptsHold
      <3> QED BY <3>1, FS_Singleton DEF OneActiveCandidate
    <2> QED BY <2>1, <2>2
  <1> QED BY <1>1, AlwaysAttemptsHold, PTL
=============================================================================
