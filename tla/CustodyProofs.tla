---------------------------- MODULE CustodyProofs ----------------------------
(***************************************************************************)
(* Proofs about what is kept for planning and simulation, for any number   *)
(* of requests: the packages handed to the client, the frozen scenarios,   *)
(* and these two and the evidence store (EvidenceStoreProofs) together.    *)
(***************************************************************************)
EXTENDS MCCustody, EvidenceStoreProofs

(***************************************************************************)
(* ExperimentHandoff, on both backends: a key names one package, a package *)
(* never changes what it selects or forgets its run, and a stored result   *)
(* stands.                                                                 *)
(***************************************************************************)
\* A request that writes a stored package has read this package, whole, and
\* the client has a run for it.  A request that stores a result has asked
\* about a completed run that the package knows.
WritesHold ==
    \A q \in Requests :
        LET r == request[q] IN
        /\ r.step \in {"mark", "save"} =>
              /\ r.on \in Packages /\ Stored(r.on) /\ runOf[r.on] # "ABSENT"
              /\ r.hasCopy => /\ r.copy.key = package[r.on].key
                              /\ r.copy.select = package[r.on].select
        /\ r.step = "save" => /\ runOf[r.on] = "COMPLETED" /\ package[r.on].run
                              /\ r.hasCopy => r.copy.run
        /\ r.step \notin {"mark", "save"} => ~r.draft.run

\* A package that was submitted once is marked by one request, and has no run
\* and so no result before that.
MarksHold ==
    /\ \A q \in Requests : request[q].step = "mark" /\ request[q].on \notin again =>
          /\ ~package[request[q].on].run
          /\ \A p \in Requests \ {q} :
                request[p].step = "mark" => request[p].on # request[q].on
    /\ \A x \in Packages : package[x].run => Stored(x) /\ runOf[x] # "ABSENT"

HandoffInv ==
    HandoffTypeOK /\ KeyNamesOnePackage /\ WritesHold /\ MarksHold /\ ResultsStand

LEMMA RestingRequest ==
    /\ NoneYet \in Package /\ NoneYet.status = "NONE" /\ ~NoneYet.run
    /\ Resting \in Request /\ Resting.step = "idle" /\ ~Resting.draft.run
  <1>1. (CHOOSE k \in Keys : TRUE) \in Keys
    BY HandoffAssumption
  <1>2. NoneYet \in Package /\ NoneYet.status = "NONE" /\ ~NoneYet.run
    BY <1>1 DEF NoneYet, Package, RunStates
  <1> HIDE DEF NoneYet
  <1> QED BY <1>2 DEF Resting, Request, Relations, RunStates

LEMMA InitHandoffInv == HandoffInit => HandoffInv
  <1> SUFFICES ASSUME HandoffInit PROVE HandoffInv
    OBVIOUS
  <1>1. /\ package = [x \in Packages |-> NoneYet] /\ request = [q \in Requests |-> Resting]
        /\ NoneYet \in Package /\ NoneYet.status = "NONE" /\ ~NoneYet.run
        /\ Resting \in Request /\ Resting.step = "idle" /\ ~Resting.draft.run
    BY RestingRequest DEF HandoffInit
  <1>2. HandoffTypeOK
    <2> HIDE DEF NoneYet, Resting
    <2>1. package \in [Packages -> Package] /\ request \in [Requests -> Request]
      BY <1>1
    <2>2. changes \in 0 .. MaxChanges
      BY HandoffAssumption DEF HandoffInit
    <2>3. runOf \in [Packages -> RunStates \cup {"ABSENT"}]
      BY DEF HandoffInit
    <2>4. /\ backend \in Backends /\ accepted \subseteq Selectable
          /\ relRows \subseteq Selectable /\ relation \in Relations /\ moved \in BOOLEAN
          /\ result \subseteq Packages /\ again \subseteq Packages
      BY DEF HandoffInit, Relations
    <2> QED BY <2>1, <2>2, <2>3, <2>4 DEF HandoffTypeOK
  <1>3. KeyNamesOnePackage
    BY <1>1 DEF KeyNamesOnePackage, Stored
  <1>4. WritesHold
    BY <1>1 DEF WritesHold
  <1>5. MarksHold
    BY <1>1 DEF MarksHold
  <1>6. ResultsStand
    BY DEF HandoffInit, ResultsStand
  <1> QED BY <1>2, <1>3, <1>4, <1>5, <1>6 DEF HandoffInv

-----------------------------------------------------------------------------
\* What changes meanwhile touches no package and nothing a writing request
\* relies on.
LEMMA ChangeKeeps ==
  ASSUME HandoffInv,
         \/ \E s \in Selectable : ReviewSignal(s)
         \/ \E kind \in Relations : Relate(kind)
         \/ ContextMoves
  PROVE  HandoffInv'
  <1>1. /\ Change /\ accepted' \subseteq Selectable /\ relRows' \subseteq Selectable
        /\ relation' \in Relations /\ moved' \in BOOLEAN
    BY DEF HandoffInv, HandoffTypeOK, ReviewSignal, Relate, ContextMoves
  <1>2. /\ UNCHANGED <<backend, package, result, runOf, again>>
        /\ changes' \in 0 .. MaxChanges
    BY <1>1, HandoffAssumption DEF Change, HandoffInv, HandoffTypeOK
  <1>3. \A q \in Requests :
           /\ request'[q] \in Request
           /\ request'[q].step = request[q].step /\ request'[q].on = request[q].on
           /\ request'[q].copy = request[q].copy /\ request'[q].hasCopy = request[q].hasCopy
           /\ request'[q].draft.run = request[q].draft.run
    <2> SUFFICES ASSUME NEW q \in Requests
                 PROVE  /\ request'[q] \in Request
                        /\ request'[q].step = request[q].step
                        /\ request'[q].on = request[q].on
                        /\ request'[q].copy = request[q].copy
                        /\ request'[q].hasCopy = request[q].hasCopy
                        /\ request'[q].draft.run = request[q].draft.run
      OBVIOUS
    <2> DEFINE draft == [request[q].draft EXCEPT !.raced = TRUE]
               new == [request[q] EXCEPT !.draft = draft]
    <2>1. request[q] \in Request /\ request[q].draft \in Package
      BY DEF HandoffInv, HandoffTypeOK, Request
    <2>2. draft \in Package /\ draft.run = request[q].draft.run
      BY <2>1 DEF Package
    <2>3. request'[q] = request[q] \/ request'[q] = [request[q] EXCEPT !.draft.raced = TRUE]
      BY <1>1 DEF Change
    <2>4. [request[q] EXCEPT !.draft.raced = TRUE] = new
      BY <2>1 DEF Request, Package
    <2> HIDE DEF draft
    <2>5. /\ new \in Request /\ new.step = request[q].step /\ new.on = request[q].on
          /\ new.copy = request[q].copy /\ new.hasCopy = request[q].hasCopy
          /\ new.draft = draft
      BY <2>1, <2>2 DEF Request
    <2> QED BY <2>1, <2>2, <2>3, <2>4, <2>5
  <1>4. HandoffTypeOK'
    <2>1. request' \in [Requests -> Request]
      BY <1>1, <1>3 DEF Change
    <2> QED BY <1>1, <1>2, <2>1 DEF HandoffInv, HandoffTypeOK
  <1>5. (KeyNamesOnePackage /\ WritesHold /\ MarksHold /\ ResultsStand)'
    BY <1>2, <1>3 DEF HandoffInv, KeyNamesOnePackage, WritesHold, MarksHold, ResultsStand, Stored
  <1> QED BY <1>4, <1>5 DEF HandoffInv

LEMMA RunEndsKeeps ==
  ASSUME HandoffInv, NEW x \in Packages, NEW end \in RunStates, RunEnds(x, end)
  PROVE  HandoffInv'
  BY DEF HandoffInv, HandoffTypeOK, KeyNamesOnePackage, WritesHold, MarksHold, ResultsStand,
         Stored, RunEnds, RunStates, sources

\* A request that goes on without writing and without an accepted run.
LEMMA QuietStepKeeps ==
  ASSUME HandoffInv, NEW q \in Requests, NEW new \in Request, Do(q, new),
         new.step \notin {"mark", "save"}, ~new.draft.run,
         UNCHANGED <<backend, sources, package, result, runOf, again>>
  PROVE  HandoffInv'
  <1>1. /\ request' \in [Requests -> Request] /\ request'[q] = new
        /\ \A p \in Requests \ {q} : request'[p] = request[p]
    BY DEF Do, HandoffInv, HandoffTypeOK
  <1>2. HandoffTypeOK'
    BY <1>1 DEF HandoffInv, HandoffTypeOK, sources
  <1>3. (KeyNamesOnePackage /\ WritesHold /\ MarksHold /\ ResultsStand)'
    BY <1>1 DEF HandoffInv, KeyNamesOnePackage, WritesHold, MarksHold, ResultsStand, Stored
  <1> QED BY <1>2, <1>3 DEF HandoffInv

\* A creation up to its insertion.
LEMMA PreparationKeeps ==
  ASSUME HandoffInv, NEW q \in Requests,
         \/ \E key \in Keys, select \in SUBSET Selectable : CreateExperiment(q, key, select)
         \/ ReadSignals(q) \/ ReadRelationships(q) \/ Validate(q)
         \/ LookUpKey(q) \/ InsertRefused(q)
  PROVE  HandoffInv'
  <1>1. /\ request[q] \in Request /\ relation \in Relations
        /\ request[q].step \notin {"mark", "save"} => ~request[q].draft.run
        /\ request[q].draft \in Package
    BY DEF HandoffInv, HandoffTypeOK, WritesHold, Request
  <1>2. CASE End(q) /\ UNCHANGED <<backend, sources, package, result, runOf, again>>
    BY <1>2, RestingRequest, QuietStepKeeps DEF End
  <1>3. ASSUME NEW key \in Keys, NEW select \in SUBSET Selectable,
               CreateExperiment(q, key, select)
        PROVE  HandoffInv'
    <2> DEFINE draft == [NoneYet EXCEPT !.key = key, !.select = select]
               new == [Resting EXCEPT !.step = "prepare", !.todo = select, !.draft = draft]
    <2>1. draft \in Package /\ ~draft.run
      BY RestingRequest DEF Package
    <2> HIDE DEF draft
    <2>2. new \in Request /\ new.step = "prepare" /\ ~new.draft.run
      BY <2>1, RestingRequest DEF Request
    <2> HIDE DEF new
    <2>3. Do(q, new) /\ UNCHANGED <<backend, sources, package, result, runOf, again>>
      BY <1>3 DEF CreateExperiment, new, draft
    <2> QED BY <2>2, <2>3, QuietStepKeeps
  <1>4. CASE ReadSignals(q)
    <2> PICK now \in SUBSET request[q].todo :
              IF now \subseteq accepted
              THEN Do(q, [request[q] EXCEPT !.todo = @ \ now, !.asked = now])
              ELSE End(q)
      BY <1>4 DEF ReadSignals
    <2> DEFINE new == [request[q] EXCEPT !.todo = @ \ now, !.asked = now]
    <2>1. request[q].step = "prepare" /\ UNCHANGED <<backend, sources, package, result, runOf, again>>
      BY <1>4 DEF ReadSignals
    <2>2. new \in Request /\ new.step = "prepare" /\ ~new.draft.run
      BY <1>1, <2>1 DEF Request
    <2> HIDE DEF new
    <2>3. Do(q, new) \/ End(q)
      BY DEF new
    <2> QED BY <1>2, <2>1, <2>2, <2>3, QuietStepKeeps
  <1>8. CASE ReadRelationships(q)
    <2> DEFINE there == request[q].asked \cap relRows
    <2> PICK rows : Do(q, [request[q] EXCEPT !.asked = {},
                               !.found = IF rows # {} THEN relation ELSE @,
                               !.draft.raced = @ \/ rows # there])
      BY <1>8 DEF ReadRelationships
    <2> DEFINE new == [request[q] EXCEPT !.asked = {},
                           !.found = IF rows # {} THEN relation ELSE @,
                           !.draft.raced = @ \/ rows # there]
    <2>1. request[q].step = "prepare" /\ UNCHANGED <<backend, sources, package, result, runOf, again>>
      BY <1>8 DEF ReadRelationships
    <2> HIDE DEF there
    <2>2. new \in Request /\ new.step = "prepare" /\ ~new.draft.run
      BY <1>1, <2>1 DEF Request, Package
    <2>3. Do(q, new)
      OBVIOUS
    <2> HIDE DEF new
    <2> QED BY <2>1, <2>2, <2>3, QuietStepKeeps
  <1>5. CASE Validate(q)
    <2> DEFINE new == [request[q] EXCEPT !.step = "lookup", !.found = "NONE"]
    <2>1. new \in Request /\ new.step = "lookup" /\ ~new.draft.run
      BY <1>1, <1>5 DEF Request, Relations, Validate
    <2>2. Do(q, new) \/ End(q)
      BY <1>5 DEF Validate
    <2>3. UNCHANGED <<backend, sources, package, result, runOf, again>>
      BY <1>5 DEF Validate
    <2> HIDE DEF new
    <2> QED BY <1>2, <2>1, <2>2, <2>3, QuietStepKeeps
  <1>6. CASE LookUpKey(q)
    <2> DEFINE new == [request[q] EXCEPT !.step = "insert"]
    <2>1. new \in Request /\ new.step = "insert" /\ ~new.draft.run
      BY <1>1, <1>6 DEF Request, LookUpKey
    <2>2. Do(q, new) \/ End(q)
      BY <1>6 DEF LookUpKey
    <2>3. UNCHANGED <<backend, sources, package, result, runOf, again>>
      BY <1>6 DEF LookUpKey
    <2> HIDE DEF new
    <2> QED BY <1>2, <2>1, <2>2, <2>3, QuietStepKeeps
  <1>7. CASE InsertRefused(q)
    BY <1>2, <1>7 DEF InsertRefused
  <1> QED BY <1>3, <1>4, <1>5, <1>6, <1>7, <1>8

\* The key is free at the moment of the insertion, whatever the request saw
\* when it looked.
LEMMA PackageInsertKeeps ==
  ASSUME HandoffInv, NEW q \in Requests, InsertPackage(q)
  PROVE  HandoffInv'
  <1> DEFINE new == [request[q].draft EXCEPT !.status = "READY", !.raced = FALSE]
  <1> PICK x \in Packages : ~Stored(x) /\ package' = [package EXCEPT ![x] = new]
    BY DEF InsertPackage
  <1>1. /\ request[q].step = "insert" /\ KeyFree(request[q].draft.key)
        /\ request' = [request EXCEPT ![q] = Resting]
        /\ UNCHANGED <<backend, sources, result, runOf, again>>
    BY DEF InsertPackage, End, Do
  <1>2. /\ new \in Package /\ new.status = "READY" /\ ~new.run
        /\ new.key = request[q].draft.key
    <2>1. request[q].draft \in Package /\ ~request[q].draft.run
      BY <1>1 DEF HandoffInv, HandoffTypeOK, WritesHold, Request
    <2> QED BY <2>1 DEF Package
  <1> HIDE DEF new
  <1>3. /\ package' \in [Packages -> Package] /\ package'[x] = new
        /\ \A y \in Packages \ {x} : package'[y] = package[y]
    BY <1>2 DEF HandoffInv, HandoffTypeOK
  <1>4. /\ request' \in [Requests -> Request] /\ request'[q] = Resting
        /\ \A p \in Requests \ {q} : request'[p] = request[p]
    BY <1>1, RestingRequest DEF HandoffInv, HandoffTypeOK
  <1>5. HandoffTypeOK'
    BY <1>1, <1>3, <1>4 DEF HandoffInv, HandoffTypeOK, sources
  <1>6. KeyNamesOnePackage'
    <2>1. \A y \in Packages : Stored(y) => package[y].key # new.key
      BY <1>1, <1>2 DEF KeyFree, WithKey
    <2> QED BY <1>3, <2>1 DEF HandoffInv, KeyNamesOnePackage, Stored
  <1>7. (WritesHold /\ MarksHold /\ ResultsStand)'
    <2>1. x \notin result /\ ~package[x].run
      BY DEF HandoffInv, ResultsStand, MarksHold
    <2>2. \A p \in Requests : request[p].step \in {"mark", "save"} => request[p].on # x
      BY DEF HandoffInv, WritesHold
    <2>3. WritesHold'
      BY <1>1, <1>3, <1>4, <2>2, RestingRequest DEF HandoffInv, WritesHold, Stored
    <2>4. MarksHold'
      BY <1>1, <1>2, <1>3, <1>4, <2>2, RestingRequest DEF HandoffInv, MarksHold, WritesHold, Stored
    <2>5. ResultsStand'
      BY <1>1, <1>3, <2>1 DEF HandoffInv, ResultsStand
    <2> QED BY <2>3, <2>4, <2>5
  <1> QED BY <1>5, <1>6, <1>7 DEF HandoffInv

-----------------------------------------------------------------------------
LEMMA SubmitKeeps ==
  ASSUME HandoffInv, NEW q \in Requests, NEW x \in Packages, SubmitExperiment(q, x)
  PROVE  HandoffInv'
  <1> DEFINE new == [Resting EXCEPT !.step = "mark", !.on = x, !.status = runOf'[x]]
  <1>1. /\ request[q].step = "idle" /\ Stored(x)
        /\ runOf' = [runOf EXCEPT ![x] = IF @ = "ABSENT" THEN "RUNNING" ELSE @]
        /\ request' = [request EXCEPT ![q] = new] \/ request' = request
        /\ again' = IF runOf[x] = "ABSENT" THEN again ELSE again \cup {x}
        /\ UNCHANGED <<backend, sources, package, result>>
    BY DEF SubmitExperiment, Do
  <1>2. /\ runOf' \in [Packages -> RunStates \cup {"ABSENT"}] /\ runOf'[x] \in RunStates
        /\ \A y \in Packages : runOf[y] # "ABSENT" => runOf'[y] = runOf[y]
        /\ runOf'[x] # "ABSENT" /\ \A y \in Packages \ {x} : runOf'[y] = runOf[y]
    BY <1>1 DEF HandoffInv, HandoffTypeOK, RunStates
  <1>3. /\ new \in Request /\ new.step = "mark" /\ new.on = x /\ ~new.hasCopy
    BY <1>2, RestingRequest DEF Request, Resting
  <1> HIDE DEF new
  <1>4. HandoffTypeOK'
    BY <1>1, <1>2, <1>3 DEF HandoffInv, HandoffTypeOK, sources
  <1>5. request \in [Requests -> Request] /\ request' \in [Requests -> Request]
    BY <1>4 DEF HandoffInv, HandoffTypeOK
  <1>6. \A p \in Requests : request'[p] = request[p] \/ (p = q /\ request'[p] = new)
    BY <1>1, <1>5
  <1>7. KeyNamesOnePackage' /\ ResultsStand'
    BY <1>1, <1>2 DEF HandoffInv, KeyNamesOnePackage, ResultsStand, MarksHold, Stored
  <1>8. WritesHold'
    BY <1>1, <1>2, <1>3, <1>6 DEF HandoffInv, WritesHold, Stored
  <1>9. MarksHold'
    <2>1. again \subseteq again'
      BY <1>1
    <2>2. x \notin again' => /\ runOf[x] = "ABSENT" /\ ~package[x].run
                             /\ \A p \in Requests : request[p].step = "mark" => request[p].on # x
      BY <1>1 DEF HandoffInv, MarksHold, WritesHold
    <2>3. ASSUME NEW p \in Requests, request'[p].step = "mark", request'[p].on \notin again'
          PROVE  /\ ~package'[request'[p].on].run
                 /\ \A r \in Requests \ {p} :
                       request'[r].step = "mark" => request'[r].on # request'[p].on
      BY <1>1, <1>3, <1>6, <2>1, <2>2, <2>3 DEF HandoffInv, MarksHold
    <2> QED BY <1>1, <1>2, <2>3 DEF HandoffInv, MarksHold, Stored
  <1> QED BY <1>4, <1>7, <1>8, <1>9 DEF HandoffInv

LEMMA RefreshKeeps ==
  ASSUME HandoffInv, NEW q \in Requests, NEW x \in Packages, RefreshResults(q, x)
  PROVE  HandoffInv'
  <1> DEFINE new == [Resting EXCEPT !.step = "save", !.on = x]
  <1>1. /\ request[q].step = "idle" /\ Stored(x) /\ package[x].run /\ runOf[x] = "COMPLETED"
        /\ request' = [request EXCEPT ![q] = new]
        /\ UNCHANGED <<backend, sources, package, result, runOf, again>>
    BY DEF RefreshResults, Do
  <1>2. new \in Request /\ new.step = "save" /\ new.on = x /\ ~new.hasCopy
    BY RestingRequest DEF Request, Resting
  <1> HIDE DEF new
  <1>3. /\ request' \in [Requests -> Request] /\ request'[q] = new
        /\ \A p \in Requests \ {q} : request'[p] = request[p]
    BY <1>1, <1>2 DEF HandoffInv, HandoffTypeOK
  <1>4. HandoffTypeOK'
    BY <1>1, <1>3 DEF HandoffInv, HandoffTypeOK, sources
  <1>5. (KeyNamesOnePackage /\ ResultsStand)'
    BY <1>1 DEF HandoffInv, KeyNamesOnePackage, ResultsStand, Stored
  <1>6. (WritesHold /\ MarksHold)'
    BY <1>1, <1>2, <1>3 DEF HandoffInv, WritesHold, MarksHold, Stored
  <1> QED BY <1>4, <1>5, <1>6 DEF HandoffInv

LEMMA ReadKeeps ==
  ASSUME HandoffInv, NEW q \in Requests, ReadPackage(q)
  PROVE  HandoffInv'
  <1> DEFINE r == request[q]
             new == [r EXCEPT !.copy = package[r.on], !.hasCopy = TRUE]
  <1>1. /\ r.step \in {"mark", "save"} /\ request' = [request EXCEPT ![q] = new]
        /\ UNCHANGED <<backend, sources, package, result, runOf, again>>
    BY DEF ReadPackage, Do
  <1>2. r \in Request /\ r.on \in Packages /\ package[r.on] \in Package
    BY <1>1 DEF HandoffInv, HandoffTypeOK, WritesHold
  <1>3. /\ new \in Request /\ new.step = r.step /\ new.on = r.on
        /\ new.copy = package[r.on] /\ new.draft = r.draft
    BY <1>2 DEF Request
  <1> HIDE DEF new
  <1>4. /\ request' \in [Requests -> Request] /\ request'[q] = new
        /\ \A p \in Requests \ {q} : request'[p] = request[p]
    BY <1>1, <1>3 DEF HandoffInv, HandoffTypeOK
  <1>5. HandoffTypeOK'
    BY <1>1, <1>4 DEF HandoffInv, HandoffTypeOK, sources
  <1>6. (KeyNamesOnePackage /\ ResultsStand)'
    BY <1>1 DEF HandoffInv, KeyNamesOnePackage, ResultsStand, Stored
  <1>7. WritesHold'
    BY <1>1, <1>3, <1>4 DEF HandoffInv, WritesHold, Stored
  <1>8. MarksHold'
    BY <1>1, <1>3, <1>4 DEF HandoffInv, MarksHold, Stored
  <1> QED BY <1>5, <1>6, <1>7, <1>8 DEF HandoffInv

\* Both writes keep the key and the selection of a stored package, and record
\* or keep its run.
LEMMA WriteKeepsPackage ==
  ASSUME HandoffInv, NEW q \in Requests, MarkSubmitted(q) \/ SaveResult(q)
  PROVE  LET x == request[q].on IN
         /\ x \in Packages /\ Stored(x)
         /\ package' \in [Packages -> Package]
         /\ \A y \in Packages \ {x} : package'[y] = package[y]
         /\ package'[x].key = package[x].key /\ package'[x].select = package[x].select
         /\ package'[x].run /\ package'[x].status # "NONE"
         /\ SaveResult(q) => package'[x].status = "COMPLETED"
  <1> DEFINE r == request[q]
             x == r.on
  <1>1. /\ r \in Request /\ x \in Packages /\ Stored(x) /\ package \in [Packages -> Package]
    BY DEF HandoffInv, HandoffTypeOK, WritesHold, MarkSubmitted, SaveResult, Ready
  <1>2. /\ Old(q) \in Package /\ Old(q).key = package[x].key
        /\ Old(q).select = package[x].select
        /\ r.step = "save" => Old(q).run
    BY <1>1 DEF HandoffInv, WritesHold, MarkSubmitted, SaveResult, Ready, Old, Request
  <1>3. CASE MarkSubmitted(q)
    <2> DEFINE new == [Old(q) EXCEPT !.run = TRUE, !.status = r.status]
    <2>1. /\ new \in Package /\ new.key = Old(q).key /\ new.select = Old(q).select
          /\ new.run /\ new.status # "NONE"
      BY <1>1, <1>2 DEF Package, Request, RunStates
    <2>2. package' = [package EXCEPT ![x] = new] /\ r.step = "mark"
      BY <1>3 DEF MarkSubmitted, Ready
    <2>3. ~SaveResult(q)
      BY <2>2 DEF SaveResult, Ready
    <2> HIDE DEF new
    <2> QED BY <1>1, <1>2, <2>1, <2>2, <2>3
  <1>4. CASE SaveResult(q)
    <2> DEFINE new == [Old(q) EXCEPT !.status = "COMPLETED"]
    <2>1. package' = [package EXCEPT ![x] = new] /\ r.step = "save"
      BY <1>4 DEF SaveResult, Ready
    <2>2. /\ new \in Package /\ new.key = Old(q).key /\ new.select = Old(q).select
          /\ new.run /\ new.status = "COMPLETED"
      BY <1>1, <1>2, <2>1 DEF Package, RunStates
    <2> HIDE DEF new
    <2> QED BY <1>1, <1>2, <2>1, <2>2
  <1> QED BY <1>3, <1>4

LEMMA WriteKeeps ==
  ASSUME HandoffInv, NEW q \in Requests, MarkSubmitted(q) \/ SaveResult(q)
  PROVE  HandoffInv'
  <1> DEFINE x == request[q].on
  <1>1. /\ x \in Packages /\ Stored(x)
        /\ package' \in [Packages -> Package]
        /\ \A y \in Packages \ {x} : package'[y] = package[y]
        /\ package'[x].key = package[x].key /\ package'[x].select = package[x].select
        /\ package'[x].run /\ package'[x].status # "NONE"
        /\ SaveResult(q) => package'[x].status = "COMPLETED"
    BY WriteKeepsPackage
  <1>2. /\ request' = [request EXCEPT ![q] = Resting]
        /\ UNCHANGED <<backend, sources, runOf, again>>
        /\ result' = IF request[q].step = "save" THEN result \cup {x} ELSE result
        /\ request[q].step \in {"mark", "save"} /\ runOf[x] # "ABSENT"
        /\ request[q].step = "save" => SaveResult(q) /\ runOf[x] = "COMPLETED"
    BY DEF MarkSubmitted, SaveResult, Ready, End, Do, HandoffInv, WritesHold
  <1>3. /\ request' \in [Requests -> Request] /\ request'[q] = Resting
        /\ \A p \in Requests \ {q} : request'[p] = request[p]
    BY <1>2, RestingRequest DEF HandoffInv, HandoffTypeOK
  <1> HIDE DEF x
  <1>4. HandoffTypeOK'
    BY <1>1, <1>2, <1>3 DEF HandoffInv, HandoffTypeOK, sources
  <1>5. KeyNamesOnePackage'
    BY <1>1 DEF HandoffInv, KeyNamesOnePackage, Stored
  <1>6. WritesHold'
    BY <1>1, <1>2, <1>3, RestingRequest DEF HandoffInv, WritesHold, Stored
  <1>7. MarksHold'
    <2>1. ASSUME NEW p \in Requests, request'[p].step = "mark", request'[p].on \notin again'
          PROVE  /\ ~package'[request'[p].on].run
                 /\ \A r \in Requests \ {p} :
                       request'[r].step = "mark" => request'[r].on # request'[p].on
      <3>1. p # q /\ request'[p] = request[p] /\ request[p].on \notin again
        BY <1>2, <1>3, <2>1, RestingRequest
      <3>2. ~package[request[p].on].run /\ request[p].on \in Packages
        BY <1>3, <2>1, <3>1 DEF HandoffInv, MarksHold, WritesHold
      <3>3. request[p].on # x
        BY <1>2, <2>1, <3>1, <3>2 DEF HandoffInv, MarksHold, WritesHold, x
      <3>4. ASSUME NEW r \in Requests \ {p}, request'[r].step = "mark"
            PROVE  request'[r].on # request'[p].on
        <4>1. r # q /\ request'[r] = request[r]
          BY <1>3, <3>4, RestingRequest
        <4> QED BY <2>1, <3>1, <3>4, <4>1 DEF HandoffInv, MarksHold
      <3> QED BY <1>1, <3>1, <3>2, <3>3, <3>4
    <2> QED BY <1>1, <1>2, <2>1 DEF HandoffInv, MarksHold, Stored
  <1>8. ResultsStand'
    <2>1. request[q].step = "mark" /\ x \notin again => x \notin result
      BY DEF HandoffInv, MarksHold, ResultsStand, x
    <2>2. ASSUME NEW y \in result', y # x
          PROVE  y \in result /\ y \in Packages \ {x} /\ package'[y] = package[y]
      BY <1>1, <1>2, <2>2 DEF HandoffInv, HandoffTypeOK
    <2>3. ASSUME x \in result'
          PROVE  /\ runOf[x] = "COMPLETED" /\ package'[x].run
                 /\ x \notin again => package'[x].status = "COMPLETED"
      BY <1>1, <1>2, <2>1, <2>3 DEF HandoffInv, ResultsStand
    <2> QED BY <1>2, <2>2, <2>3 DEF HandoffInv, ResultsStand
  <1> QED BY <1>4, <1>5, <1>6, <1>7, <1>8 DEF HandoffInv

-----------------------------------------------------------------------------
LEMMA AlwaysHandoffInv == HandoffSpec => []HandoffInv
  <1>1. HandoffInv /\ [HandoffNext]_handoffVars => HandoffInv'
    <2> SUFFICES ASSUME HandoffInv, [HandoffNext]_handoffVars PROVE HandoffInv'
      OBVIOUS
    <2>1. CASE UNCHANGED handoffVars
      BY <2>1 DEF handoffVars, sources, HandoffInv, HandoffTypeOK, KeyNamesOnePackage,
                  WritesHold, MarksHold, ResultsStand, Stored
    <2>2. CASE \/ \E s \in Selectable : ReviewSignal(s)
               \/ \E kind \in Relations : Relate(kind)
               \/ ContextMoves
      BY <2>2, ChangeKeeps
    <2>3. ASSUME NEW x \in Packages, NEW end \in RunStates, RunEnds(x, end) PROVE HandoffInv'
      BY <2>3, RunEndsKeeps
    <2>4. ASSUME NEW q \in Requests,
                 \/ \E key \in Keys, select \in SUBSET Selectable :
                       CreateExperiment(q, key, select)
                 \/ ReadSignals(q) \/ ReadRelationships(q) \/ Validate(q)
                 \/ LookUpKey(q) \/ InsertRefused(q)
          PROVE  HandoffInv'
      BY <2>4, PreparationKeeps
    <2>5. ASSUME NEW q \in Requests, InsertPackage(q) PROVE HandoffInv'
      BY <2>5, PackageInsertKeeps
    <2>6. ASSUME NEW q \in Requests, NEW x \in Packages,
                 SubmitExperiment(q, x) \/ RefreshResults(q, x)
          PROVE  HandoffInv'
      BY <2>6, SubmitKeeps, RefreshKeeps
    <2>7. ASSUME NEW q \in Requests, ReadPackage(q) \/ MarkSubmitted(q) \/ SaveResult(q)
          PROVE  HandoffInv'
      BY <2>7, ReadKeeps, WriteKeeps
    <2> QED BY <2>1, <2>2, <2>3, <2>4, <2>5, <2>6, <2>7 DEF HandoffNext
  <1> QED BY <1>1, InitHandoffInv, PTL DEF HandoffSpec

\* However creations with the same idempotency key overlap, on either backend
\* one package is stored under it.
THEOREM KeysNameOnePackage == HandoffSpec => []KeyNamesOnePackage
  BY AlwaysHandoffInv, PTL DEF HandoffInv

\* A stored result is the result of a completed run the package knows; of a
\* package that was submitted once it is also what the status says.
THEOREM StoredResultsStand == HandoffSpec => []ResultsStand
  BY AlwaysHandoffInv, PTL DEF HandoffInv

\* No step of any request changes the selection of a stored package or loses
\* the run it has recorded.
THEOREM PackagesNeverChange == HandoffSpec => PackagesAreImmutable
  <1> DEFINE Immutable == \A x \in Packages : Stored(x) =>
                             /\ package'[x].select = package[x].select
                             /\ package[x].run => package'[x].run
  <1>1. HandoffInv /\ [HandoffNext]_handoffVars => [Immutable]_handoffVars
    <2> SUFFICES ASSUME HandoffInv, [HandoffNext]_handoffVars, NEW x \in Packages, Stored(x)
                 PROVE  /\ package'[x].select = package[x].select
                        /\ package[x].run => package'[x].run
      OBVIOUS
    <2> DEFINE Same == /\ package'[x].select = package[x].select
                       /\ package[x].run => package'[x].run
    <2>1. CASE UNCHANGED package
      BY <2>1
    <2>2. ASSUME NEW q \in Requests, MarkSubmitted(q) \/ SaveResult(q) PROVE Same
      BY <2>2, WriteKeepsPackage
    <2>3. ASSUME NEW q \in Requests, InsertPackage(q) PROVE Same
      BY <2>3 DEF InsertPackage, HandoffInv, HandoffTypeOK
    <2> QED BY <2>1, <2>2, <2>3
            DEF HandoffNext, handoffVars, ReviewSignal, Relate, ContextMoves, Change, RunEnds,
                CreateExperiment, ReadSignals, ReadRelationships, Validate, LookUpKey,
                InsertRefused, SubmitExperiment, RefreshResults, ReadPackage
  <1> QED BY <1>1, AlwaysHandoffInv, PTL DEF HandoffSpec, PackagesAreImmutable

-----------------------------------------------------------------------------
(***************************************************************************)
(* What a creation has read stays true until it is raced.                  *)
(***************************************************************************)
Creating(q) == request[q].step \in {"prepare", "lookup", "insert"}

\* The signals whose status the creation of request q has read, and those
\* whose relationships it has read.
SignalsRead(q) == request[q].draft.select \ request[q].todo
RelationsRead(q) == SignalsRead(q) \ request[q].asked

\* The former are accepted and of the current context.  The creation knows of a
\* relationship as soon as it has read a version it is found under, and has
\* judged it before it looks for its key.
ReadingHolds(q) ==
    /\ ~moved /\ SignalsRead(q) \subseteq accepted
    /\ request[q].step = "prepare" =>
          request[q].found = IF RelationsRead(q) \cap relRows = {} THEN "NONE" ELSE relation
    /\ request[q].step # "prepare" =>
          /\ request[q].todo = {}
          /\ request[q].draft.select \cap relRows # {} =>
                Compatible(relation, request[q].draft.select)

CreationHolds(q) ==
    Creating(q) =>
        /\ request[q].draft.select # {} /\ request[q].todo \subseteq request[q].draft.select
        /\ request[q].asked \subseteq SignalsRead(q)
        /\ ~request[q].draft.raced => ReadingHolds(q)

CreationsHold ==
    /\ relRows = {} <=> relation = "NONE"
    /\ \A q \in Requests : CreationHolds(q)

\* A change races every creation.
LEMMA ChangeRaces ==
  ASSUME HandoffInv, CreationsHold,
         \/ \E s \in Selectable : ReviewSignal(s)
         \/ \E kind \in Relations : Relate(kind)
         \/ ContextMoves
  PROVE  CreationsHold'
  <1>1. Change /\ (relRows' = {} <=> relation' = "NONE")
    BY DEF CreationsHold, ReviewSignal, Relate, ContextMoves
  <1>2. ASSUME NEW q \in Requests PROVE CreationHolds(q)'
    <2>1. CASE Creating(q)
      <3> DEFINE draft == [request[q].draft EXCEPT !.raced = TRUE]
                 new == [request[q] EXCEPT !.draft = draft]
      <3>1. request[q] \in Request /\ request[q].draft \in Package
        BY DEF HandoffInv, HandoffTypeOK, Request
      <3>2. draft.raced /\ draft.select = request[q].draft.select
        BY <3>1 DEF Package
      <3>3. request'[q] = [request[q] EXCEPT !.draft.raced = TRUE]
        BY <1>1, <2>1 DEF Change, Creating
      <3>4. [request[q] EXCEPT !.draft.raced = TRUE] = new
        BY <3>1 DEF Request, Package
      <3> HIDE DEF draft
      <3>5. new.draft = draft /\ new.todo = request[q].todo /\ new.asked = request[q].asked
        BY <3>1 DEF Request
      <3> HIDE DEF new
      <3> QED BY <2>1, <3>2, <3>3, <3>4, <3>5 DEF CreationsHold, CreationHolds, SignalsRead
    <2>2. CASE ~Creating(q)
      <3>1. request'[q] = request[q]
        BY <1>1, <2>2 DEF Change, Creating
      <3> QED BY <2>2, <3>1 DEF CreationHolds, Creating
    <2> QED BY <2>1, <2>2
  <1> QED BY <1>1, <1>2 DEF CreationsHold

\* A step of one request disturbs no other creation.
LEMMA OneRequestMoves ==
  ASSUME CreationsHold, NEW q \in Requests, UNCHANGED sources,
         \A p \in Requests \ {q} : request'[p] = request[p],
         CreationHolds(q)'
  PROVE  CreationsHold'
  <1>1. UNCHANGED <<accepted, relation, relRows, moved>>
    BY DEF sources
  <1>2. ASSUME NEW p \in Requests \ {q} PROVE CreationHolds(p)'
    BY <1>1, <1>2 DEF CreationsHold, CreationHolds, Creating, ReadingHolds,
           SignalsRead, RelationsRead
  <1> QED BY <1>1, <1>2 DEF CreationsHold

LEMMA RestHolds ==
  ASSUME HandoffInv, CreationsHold, NEW q \in Requests, End(q), UNCHANGED sources
  PROVE  CreationsHold'
  <1>1. request'[q] = Resting /\ \A p \in Requests \ {q} : request'[p] = request[p]
    BY DEF HandoffInv, HandoffTypeOK, End, Do
  <1>2. CreationHolds(q)'
    BY <1>1, RestingRequest DEF CreationHolds, Creating
  <1> QED BY <1>1, <1>2, OneRequestMoves

LEMMA CreateHolds ==
  ASSUME HandoffInv, CreationsHold, NEW q \in Requests, NEW key \in Keys,
         NEW select \in SUBSET Selectable, CreateExperiment(q, key, select)
  PROVE  CreationsHold'
  <1> DEFINE draft == [NoneYet EXCEPT !.key = key, !.select = select]
             new == [Resting EXCEPT !.step = "prepare", !.todo = select, !.draft = draft]
  <1>1. draft.select = select
    BY RestingRequest DEF Package
  <1> HIDE DEF draft
  <1>2. /\ new.step = "prepare" /\ new.todo = select /\ new.draft = draft
        /\ new.found = "NONE" /\ new.asked = {}
    BY DEF Resting
  <1>3. select # {} /\ ~moved /\ Do(q, new) /\ UNCHANGED sources
    BY DEF CreateExperiment, new, draft
  <1> HIDE DEF new
  <1>4. request'[q] = new /\ \A p \in Requests \ {q} : request'[p] = request[p]
    BY <1>3 DEF HandoffInv, HandoffTypeOK, Do
  <1>5. CreationHolds(q)'
    BY <1>1, <1>2, <1>3, <1>4
    DEF CreationHolds, Creating, ReadingHolds, SignalsRead, RelationsRead, sources
  <1> QED BY <1>3, <1>4, <1>5, OneRequestMoves

LEMMA ReadSignalsHolds ==
  ASSUME HandoffInv, CreationsHold, NEW q \in Requests, ReadSignals(q)
  PROVE  CreationsHold'
  <1> DEFINE r == request[q]
  <1>1. /\ r \in Request /\ r.step = "prepare" /\ r.asked = {}
        /\ UNCHANGED sources /\ UNCHANGED <<accepted, relation, relRows, moved>>
    BY DEF HandoffInv, HandoffTypeOK, ReadSignals, sources
  <1> PICK now \in SUBSET r.todo :
            IF now \subseteq accepted
            THEN Do(q, [r EXCEPT !.todo = @ \ now, !.asked = now])
            ELSE End(q)
    BY DEF ReadSignals
  <1> DEFINE new == [r EXCEPT !.todo = @ \ now, !.asked = now]
  <1>2. CASE End(q)
    BY <1>1, <1>2, RestHolds
  <1>3. CASE ~End(q)
    <2>1. now \subseteq accepted /\ Do(q, new)
      BY <1>3
    <2>2. /\ new.todo = r.todo \ now /\ new.asked = now /\ new.found = r.found
          /\ new.draft = r.draft /\ new.step = "prepare"
      BY <1>1 DEF Request
    <2> HIDE DEF new
    <2>3. request'[q] = new /\ \A p \in Requests \ {q} : request'[p] = request[p]
      BY <2>1 DEF HandoffInv, HandoffTypeOK, Do
    <2>4. Creating(q) /\ CreationHolds(q)
      BY <1>1 DEF CreationsHold, Creating
    <2>5. /\ SignalsRead(q)' = SignalsRead(q) \cup now
          /\ RelationsRead(q)' = RelationsRead(q)
      BY <1>1, <2>2, <2>3, <2>4 DEF CreationHolds, SignalsRead, RelationsRead
    <2>6. ASSUME ~r.draft.raced PROVE ReadingHolds(q)'
      <3>1. ReadingHolds(q)
        BY <2>4, <2>6 DEF CreationHolds
      <3> QED BY <1>1, <2>1, <2>2, <2>3, <2>5, <3>1 DEF ReadingHolds
    <2>7. new.asked \subseteq SignalsRead(q)'
      BY <2>2, <2>5
    <2>8. CreationHolds(q)'
      BY <2>2, <2>3, <2>4, <2>6, <2>7 DEF CreationHolds
    <2> QED BY <1>1, <2>3, <2>8, OneRequestMoves
  <1> QED BY <1>2, <1>3

\* A query that was up to date finds the relationship under a version that
\* has been read now, and one found earlier is kept.
LEMMA ReadRelationshipsHolds ==
  ASSUME HandoffInv, CreationsHold, NEW q \in Requests, ReadRelationships(q)
  PROVE  CreationsHold'
  <1> DEFINE r == request[q]
             there == r.asked \cap relRows
  <1>1. /\ r \in Request /\ r.draft \in Package /\ r.step = "prepare"
        /\ UNCHANGED sources /\ UNCHANGED <<accepted, relation, relRows, moved>>
    BY DEF HandoffInv, HandoffTypeOK, Request, ReadRelationships, sources
  <1> PICK rows : Do(q, [r EXCEPT !.asked = {}, !.found = IF rows # {} THEN relation ELSE @,
                                  !.draft.raced = @ \/ rows # there])
    BY DEF ReadRelationships
  <1> DEFINE found == IF rows # {} THEN relation ELSE r.found
             draft == [r.draft EXCEPT !.raced = @ \/ rows # there]
             new == [r EXCEPT !.asked = {}, !.found = found, !.draft = draft]
  <1>2. [r EXCEPT !.asked = {}, !.found = IF rows # {} THEN relation ELSE @,
                  !.draft.raced = @ \/ rows # there] = new
    BY <1>1 DEF Request, Package
  <1>3. Do(q, new)
    BY <1>2
  <1>4. /\ draft.select = r.draft.select
        /\ ~draft.raced => ~r.draft.raced /\ rows = there
    BY <1>1 DEF Package
  <1> HIDE DEF draft, found
  <1>5. /\ new.todo = r.todo /\ new.asked = {} /\ new.found = found
        /\ new.draft = draft /\ new.step = "prepare"
    BY <1>1 DEF Request
  <1> HIDE DEF new
  <1>6. request'[q] = new /\ \A p \in Requests \ {q} : request'[p] = request[p]
    BY <1>3 DEF HandoffInv, HandoffTypeOK, Do
  <1>7. Creating(q) /\ CreationHolds(q)
    BY <1>1 DEF CreationsHold, Creating
  <1>8. /\ SignalsRead(q)' = SignalsRead(q)
        /\ RelationsRead(q)' = RelationsRead(q) \cup r.asked
    BY <1>4, <1>5, <1>6, <1>7 DEF CreationHolds, SignalsRead, RelationsRead
  <1>9. ASSUME ~new.draft.raced PROVE ReadingHolds(q)'
    <2>1. ReadingHolds(q) /\ rows = there
      BY <1>4, <1>5, <1>7, <1>9 DEF CreationHolds
    <2>2. ~moved /\ SignalsRead(q) \subseteq accepted
      BY <2>1 DEF ReadingHolds
    <2>3. r.found = IF RelationsRead(q) \cap relRows = {} THEN "NONE" ELSE relation
      BY <1>1, <2>1 DEF ReadingHolds
    <2>4. found = IF (RelationsRead(q) \cup r.asked) \cap relRows = {} THEN "NONE" ELSE relation
      BY <2>1, <2>3 DEF found
    <2> QED BY <1>1, <1>5, <1>6, <1>8, <2>2, <2>4 DEF ReadingHolds
  <1>10. CreationHolds(q)'
    BY <1>4, <1>5, <1>6, <1>7, <1>8, <1>9 DEF CreationHolds
  <1> QED BY <1>1, <1>6, <1>10, OneRequestMoves

LEMMA JudgeAndLookHold ==
  ASSUME HandoffInv, CreationsHold, NEW q \in Requests, Validate(q) \/ LookUpKey(q)
  PROVE  CreationsHold'
  <1> DEFINE r == request[q]
             judged == [r EXCEPT !.step = "lookup", !.found = "NONE"]
             looked == [r EXCEPT !.step = "insert"]
  <1>1. r \in Request /\ UNCHANGED sources /\ UNCHANGED <<accepted, relation, relRows, moved>>
    BY DEF HandoffInv, HandoffTypeOK, Validate, LookUpKey, sources
  <1>2. Creating(q) /\ CreationHolds(q)
    BY DEF CreationsHold, Creating, Validate, LookUpKey
  <1>3. CASE End(q)
    BY <1>1, <1>3, RestHolds
  <1>4. CASE Validate(q) /\ ~End(q)
    <2>1. /\ judged.step = "lookup" /\ judged.todo = r.todo /\ judged.asked = r.asked
          /\ judged.draft = r.draft
      BY <1>1 DEF Request
    <2>2. /\ Do(q, judged) /\ r.todo = {} /\ r.asked = {} /\ r.step = "prepare"
          /\ Compatible(r.found, r.draft.select)
      BY <1>4 DEF Validate
    <2> HIDE DEF judged
    <2>3. request'[q] = judged /\ \A p \in Requests \ {q} : request'[p] = request[p]
      BY <2>2 DEF HandoffInv, HandoffTypeOK, Do
    <2>4. ASSUME ~r.draft.raced PROVE ReadingHolds(q)'
      <3>1. ReadingHolds(q)
        BY <1>2, <2>4 DEF CreationHolds
      <3>2. r.draft.select \cap relRows # {} => Compatible(relation, r.draft.select)
        BY <2>2, <3>1 DEF ReadingHolds, SignalsRead, RelationsRead
      <3> QED BY <1>1, <2>1, <2>2, <2>3, <3>1, <3>2 DEF ReadingHolds, SignalsRead, Compatible
    <2>5. CreationHolds(q)'
      BY <1>2, <2>1, <2>3, <2>4 DEF CreationHolds, SignalsRead
    <2> QED BY <1>1, <2>3, <2>5, OneRequestMoves
  <1>5. CASE LookUpKey(q) /\ ~End(q)
    <2>1. /\ looked.step = "insert" /\ looked.todo = r.todo /\ looked.asked = r.asked
          /\ looked.draft = r.draft
      BY <1>1 DEF Request
    <2>2. Do(q, looked) /\ r.step = "lookup"
      BY <1>5 DEF LookUpKey
    <2> HIDE DEF looked
    <2>3. request'[q] = looked /\ \A p \in Requests \ {q} : request'[p] = request[p]
      BY <2>2 DEF HandoffInv, HandoffTypeOK, Do
    <2>4. CreationHolds(q)'
      BY <1>1, <1>2, <2>1, <2>2, <2>3 DEF CreationHolds, ReadingHolds, SignalsRead, Compatible
    <2> QED BY <1>1, <2>3, <2>4, OneRequestMoves
  <1> QED BY <1>3, <1>4, <1>5

\* The requests that submit or refresh create nothing.
LEMMA WritersHold ==
  ASSUME HandoffInv, CreationsHold, NEW q \in Requests,
         \/ \E x \in Packages : SubmitExperiment(q, x) \/ RefreshResults(q, x)
         \/ ReadPackage(q)
  PROVE  CreationsHold'
  <1>1. CASE UNCHANGED request
    <2>1. UNCHANGED sources
      BY <1>1 DEF SubmitExperiment, RefreshResults, ReadPackage
    <2> QED BY <1>1, <2>1 DEF sources, CreationsHold, CreationHolds, Creating, ReadingHolds,
           SignalsRead, RelationsRead
  <1>2. ASSUME NEW new, Do(q, new), new.step \in {"mark", "save"}, UNCHANGED sources
        PROVE  CreationsHold'
    <2>1. request'[q] = new /\ \A p \in Requests \ {q} : request'[p] = request[p]
      BY <1>2 DEF HandoffInv, HandoffTypeOK, Do
    <2>2. CreationHolds(q)'
      BY <1>2, <2>1 DEF CreationHolds, Creating
    <2> QED BY <1>2, <2>1, <2>2, OneRequestMoves
  <1>3. ASSUME NEW x \in Packages, SubmitExperiment(q, x) \/ RefreshResults(q, x)
        PROVE  CreationsHold'
    <2> DEFINE mark == [Resting EXCEPT !.step = "mark", !.on = x, !.status = runOf'[x]]
               save == [Resting EXCEPT !.step = "save", !.on = x]
    <2>1. mark.step = "mark" /\ save.step = "save"
      BY DEF Resting
    <2>2. Do(q, mark) \/ Do(q, save) \/ UNCHANGED request
      BY <1>3 DEF SubmitExperiment, RefreshResults
    <2>3. UNCHANGED sources
      BY <1>3 DEF SubmitExperiment, RefreshResults
    <2> HIDE DEF mark, save
    <2> QED BY <1>1, <1>2, <2>1, <2>2, <2>3
  <1>4. CASE ReadPackage(q)
    <2> DEFINE new == [request[q] EXCEPT !.copy = package[request[q].on], !.hasCopy = TRUE]
    <2>1. request[q] \in Request /\ request[q].step \in {"mark", "save"}
      BY <1>4 DEF HandoffInv, HandoffTypeOK, ReadPackage
    <2>2. new.step = request[q].step
      BY <2>1 DEF Request
    <2>3. Do(q, new) /\ UNCHANGED sources
      BY <1>4 DEF ReadPackage
    <2> HIDE DEF new
    <2> QED BY <1>2, <2>1, <2>2, <2>3
  <1> QED BY <1>3, <1>4

LEMMA AlwaysCreationsHold == HandoffSpec => []CreationsHold
  <1>1. HandoffInit => CreationsHold
    <2> SUFFICES ASSUME HandoffInit PROVE CreationsHold
      OBVIOUS
    <2>1. \A q \in Requests : request[q].step = "idle"
      BY RestingRequest DEF HandoffInit
    <2> QED BY <2>1 DEF HandoffInit, CreationsHold, CreationHolds, Creating
  <1>2. HandoffInv /\ CreationsHold /\ [HandoffNext]_handoffVars => CreationsHold'
    <2> SUFFICES ASSUME HandoffInv, CreationsHold, [HandoffNext]_handoffVars
                 PROVE  CreationsHold'
      OBVIOUS
    <2>1. CASE UNCHANGED <<sources, request>>
      BY <2>1 DEF sources, CreationsHold, CreationHolds, Creating, ReadingHolds,
           SignalsRead, RelationsRead
    <2>2. CASE \/ \E s \in Selectable : ReviewSignal(s)
               \/ \E kind \in Relations : Relate(kind)
               \/ ContextMoves
      BY <2>2, ChangeRaces
    <2>3. ASSUME NEW x \in Packages, NEW end \in RunStates, RunEnds(x, end)
          PROVE  CreationsHold'
      BY <2>1, <2>3 DEF RunEnds
    <2>4. ASSUME NEW q \in Requests,
                 \E key \in Keys, select \in SUBSET Selectable : CreateExperiment(q, key, select)
          PROVE  CreationsHold'
      BY <2>4, CreateHolds
    <2>5. ASSUME NEW q \in Requests,
                 ReadSignals(q) \/ ReadRelationships(q) \/ Validate(q) \/ LookUpKey(q)
          PROVE  CreationsHold'
      BY <2>5, ReadSignalsHolds, ReadRelationshipsHolds, JudgeAndLookHold
    <2>6. ASSUME NEW q \in Requests,
                 InsertPackage(q) \/ InsertRefused(q) \/ MarkSubmitted(q) \/ SaveResult(q)
          PROVE  CreationsHold'
      <3>1. End(q) /\ UNCHANGED sources
        BY <2>6 DEF InsertPackage, InsertRefused, MarkSubmitted, SaveResult
      <3> QED BY <3>1, RestHolds
    <2>7. ASSUME NEW q \in Requests,
                 \/ \E x \in Packages : SubmitExperiment(q, x) \/ RefreshResults(q, x)
                 \/ ReadPackage(q)
          PROVE  CreationsHold'
      BY <2>7, WritersHold
    <2> QED BY <2>1, <2>2, <2>3, <2>4, <2>5, <2>6, <2>7 DEF HandoffNext, handoffVars
  <1> QED BY <1>1, <1>2, AlwaysHandoffInv, PTL DEF HandoffSpec

\* Only an insertion stores a package, and it stores the draft of the request.
LEMMA InsertionStoresDraft ==
  ASSUME HandoffInv, [HandoffNext]_handoffVars, NEW x \in Packages, NEW q \in Requests,
         ~Stored(x), Stored(x)', Inserts(q)
  PROVE  package'[x].select = request[q].draft.select
  <1>1. package' # package
    BY DEF Stored
  <1>2. ASSUME NEW p \in Requests, MarkSubmitted(p) \/ SaveResult(p) PROVE FALSE
    <2>1. /\ Stored(request[p].on)
          /\ \A y \in Packages \ {request[p].on} : package'[y] = package[y]
      BY <1>2, WriteKeepsPackage
    <2> QED BY <2>1 DEF Stored
  <1>3. PICK p \in Requests : InsertPackage(p)
    BY <1>1, <1>2 DEF HandoffNext, handoffVars, ReviewSignal, Relate, ContextMoves, Change,
       RunEnds, CreateExperiment, ReadSignals, ReadRelationships, Validate, LookUpKey,
       InsertRefused, SubmitExperiment, RefreshResults, ReadPackage
  <1>4. p = q
    BY <1>3 DEF InsertPackage, End, Do, Inserts, HandoffInv, HandoffTypeOK
  <1> DEFINE new == [request[q].draft EXCEPT !.status = "READY", !.raced = FALSE]
  <1> PICK y \in Packages : ~Stored(y) /\ package' = [package EXCEPT ![y] = new]
    BY <1>3, <1>4 DEF InsertPackage
  <1>5. new.select = request[q].draft.select
    BY DEF HandoffInv, HandoffTypeOK, Request, Package
  <1> HIDE DEF new
  <1>6. y = x
    BY DEF HandoffInv, HandoffTypeOK, Stored
  <1> QED BY <1>5, <1>6 DEF HandoffInv, HandoffTypeOK

\* A package that was stored without a change of its sources meanwhile holds
\* accepted signals of the current context that satisfy every relationship
\* answered with success, although the signals were read one after the other
\* and the key was looked up in between.
THEOREM UnracedPackagesAreValid == HandoffSpec => PackagesAreValid
  <1> DEFINE Valid == \A x \in Packages, q \in Requests :
                ~Stored(x) /\ Stored(x)' /\ Inserts(q) /\ ~request[q].draft.raced =>
                /\ package'[x].select \subseteq accepted /\ ~moved
                /\ Answered /\ relation = "REQUIRES" => package'[x].select # {First}
                /\ Answered /\ relation # "REQUIRES" => package'[x].select # Selectable
  <1>1. HandoffInv /\ CreationsHold /\ [HandoffNext]_handoffVars => [Valid]_handoffVars
    <2> SUFFICES ASSUME HandoffInv, CreationsHold, [HandoffNext]_handoffVars,
                        NEW x \in Packages, NEW q \in Requests,
                        ~Stored(x), Stored(x)', Inserts(q), ~request[q].draft.raced
                 PROVE  /\ package'[x].select \subseteq accepted /\ ~moved
                        /\ Answered /\ relation = "REQUIRES" => package'[x].select # {First}
                        /\ Answered /\ relation # "REQUIRES" => package'[x].select # Selectable
      OBVIOUS
    <2> DEFINE select == request[q].draft.select
    <2>1. package'[x].select = select
      BY InsertionStoresDraft
    <2>2. /\ ReadingHolds(q) /\ select # {} /\ request[q].step = "insert"
      BY DEF CreationsHold, CreationHolds, Creating, Inserts
    <2>3. /\ ~moved /\ select \subseteq accepted
          /\ select \cap relRows # {} => Compatible(relation, select)
      BY <2>2 DEF ReadingHolds, SignalsRead
    <2>4. select \subseteq Selectable /\ relation \in Relations
      BY DEF HandoffInv, HandoffTypeOK, Request, Package
    <2>5. Answered => Compatible(relation, select) /\ relation # "NONE"
      BY <2>2, <2>3, <2>4 DEF Answered, CreationsHold, Selectable
    <2>6. Answered /\ relation = "REQUIRES" => select # {First}
      BY <2>5 DEF Compatible, First, Second
    <2>7. Answered /\ relation # "REQUIRES" => select # Selectable
      BY <2>4, <2>5 DEF Compatible, Relations
    <2> HIDE DEF select
    <2> QED BY <2>1, <2>3, <2>6, <2>7
  <1> QED BY <1>1, AlwaysHandoffInv, AlwaysCreationsHold, PTL DEF HandoffSpec, PackagesAreValid

-----------------------------------------------------------------------------
(***************************************************************************)
(* ScenarioGeneration: a frozen scenario is sound for any entities,        *)
(* disruption types and signals, and any moves of the client and reviews.  *)
(***************************************************************************)
\* From the judgement on, the proposal holds together; and what the client has
\* judged so far it judged by the requested context and contracts, which no
\* later step of the request replaces, and by a state between the one the
\* request has read and the client's own.
Judged ==
    /\ gen.step \in {"validate", "frozen"} => RelationshipsHold(gen) /\ ~Contradicts(gen)
    /\ gen.step \notin {"validate", "frozen", "refused"} => gen.judged = {}
    /\ gen.state <= client.state
    /\ gen.step = "validate" => \A v \in gen.judged :
          /\ v.context = gen.context /\ v.contracts = gen.catalog.contracts
          /\ gen.state <= v.state /\ v.state <= client.state
    /\ gen.step = "frozen" => gen.judged = {Requested}

GenerationInv == GenerationTypeOK /\ Judged

LEMMA InitGenerationInv == GenerationInit => GenerationInv
  BY GenerationAssumption
     DEF GenerationInit, GenerationInv, GenerationTypeOK, Judged, NewRequest, Generation,
         Versions, Links

\* Whatever moves outside leaves the request alone, and the client's state
\* only grows.
LEMMA MovesKeep ==
  ASSUME GenerationInv,
         (\E moving \in {"context", "state", "contracts"} : ClientMoves(moving)) \/ SignalMoves
  PROVE  GenerationInv'
  <1> USE DEF GenerationInv
  <1>1. gen' = gen /\ moves' \in 0 .. MaxMoves
    BY GenerationAssumption DEF GenerationTypeOK, ClientMoves, SignalMoves, Move
  <1>2. client' \in Versions /\ client.state <= client'.state
    <2>1. client \in Versions
      BY DEF GenerationTypeOK
    <2>2. CASE ClientMoves("context")
      BY <2>1, <2>2 DEF ClientMoves, Versions
    <2>3. CASE ClientMoves("state")
      BY <2>1, <2>3 DEF ClientMoves, Versions
    <2>4. CASE ClientMoves("contracts")
      BY <2>1, <2>4 DEF ClientMoves, Versions
    <2>5. CASE SignalMoves
      BY <2>1, <2>5 DEF SignalMoves, Versions
    <2> QED BY <2>2, <2>3, <2>4, <2>5
  <1>3. eligible' \subseteq Candidates /\ link' \in Links
    BY DEF ClientMoves, SignalMoves, GenerationTypeOK
  <1>4. GenerationTypeOK'
    BY <1>1, <1>2, <1>3 DEF GenerationTypeOK
  <1>5. /\ gen.state \in Nat /\ client.state \in Nat /\ client'.state \in Nat
        /\ \A v \in gen.judged : v.state \in Nat
    BY <1>2 DEF GenerationTypeOK, Generation, Versions
  <1>6. /\ gen.state <= client.state => gen.state <= client'.state
        /\ \A v \in gen.judged : v.state <= client.state => v.state <= client'.state
    BY <1>2, <1>5
  <1>7. Judged'
    BY <1>1, <1>6 DEF Judged, RelationshipsHold, Contradicts, Combined, StoredEffects, Requested
  <1> QED BY <1>4, <1>7

\* A request that goes on before its judgement, with the state it had or with
\* the client's.
LEMMA PreparingKeeps ==
  ASSUME GenerationInv, NEW new \in Generation, Continue(new),
         new.step \notin {"validate", "frozen"},
         new.step = "refused" \/ new.judged = {},
         new.state \in {gen.state, client.state}
  PROVE  GenerationInv'
  <1>1. new.state <= client'.state
    <2>1. gen.state <= client.state /\ client.state \in Nat /\ client' = client
      BY DEF GenerationInv, GenerationTypeOK, Judged, Continue, Versions
    <2> QED BY <2>1
  <1> QED BY <1>1 DEF GenerationInv, GenerationTypeOK, Judged, Continue

LEMMA RefuseKeeps ==
  ASSUME GenerationInv, Refuse
  PROVE  GenerationInv'
  <1> DEFINE new == [gen EXCEPT !.step = "refused"]
  <1>1. new \in Generation /\ new.step = "refused" /\ new.state = gen.state
    BY DEF GenerationInv, GenerationTypeOK, Generation
  <1>2. Continue(new)
    BY DEF Refuse
  <1> HIDE DEF new
  <1> QED BY <1>1, <1>2, PreparingKeeps

LEMMA ClientReadKeeps ==
  ASSUME GenerationInv,
         GetContext \/ (\E half \in {"context", "contracts"} : GetContracts(half))
                    \/ CheckCatalog
  PROVE  GenerationInv'
  <1>1. /\ gen \in Generation /\ client \in Versions
        /\ gen.step \notin {"validate", "frozen", "refused"} => gen.judged = {}
    BY DEF GenerationInv, GenerationTypeOK, Judged
  <1>2. CASE GetContext
    <2> DEFINE new == [gen EXCEPT !.step = "contracts", !.context = client.context,
                                  !.state = client.state]
    <2>1. new \in Generation /\ new.step = "contracts" /\ new.judged = {}
          /\ new.state = client.state
      BY <1>1, <1>2 DEF GetContext, Generation, Versions
    <2>2. Continue(new)
      BY <1>2 DEF GetContext
    <2> HIDE DEF new
    <2> QED BY <2>1, <2>2, PreparingKeeps
  <1>3. ASSUME NEW half \in {"context", "contracts"}, GetContracts(half)
        PROVE  GenerationInv'
    <2> DEFINE catalog == [gen.catalog EXCEPT ![half] = client[half]]
               new == [gen EXCEPT !.unread = @ \ {half}, !.catalog = catalog]
    <2>1. catalog \in [context : Nat, contracts : Nat]
      <3>1. CASE half = "context"
        BY <1>1, <3>1 DEF Generation, Versions
      <3>2. CASE half = "contracts"
        BY <1>1, <3>2 DEF Generation, Versions
      <3> QED BY <3>1, <3>2
    <2>2. [gen EXCEPT !.unread = @ \ {half}, !.catalog[half] = client[half]] = new
      BY <1>1 DEF Generation
    <2> HIDE DEF catalog
    <2>3. /\ new \in Generation /\ new.step = gen.step /\ new.judged = {}
          /\ new.state = gen.state /\ gen.step = "contracts"
      BY <1>1, <1>3, <2>1 DEF GetContracts, Generation
    <2>4. Continue(new)
      BY <1>3, <2>2 DEF GetContracts
    <2> HIDE DEF new
    <2> QED BY <2>3, <2>4, PreparingKeeps
  <1>4. CASE CheckCatalog
    <2> DEFINE new == [gen EXCEPT !.step = "load"]
    <2>1. CASE Refuse
      BY <2>1, RefuseKeeps
    <2>2. CASE Continue(new)
      <3>1. /\ new \in Generation /\ new.step = "load" /\ new.judged = {}
            /\ new.state = gen.state
        BY <1>1, <1>4 DEF CheckCatalog, Generation
      <3> HIDE DEF new
      <3> QED BY <2>2, <3>1, PreparingKeeps
    <2> QED BY <1>4, <2>1, <2>2 DEF CheckCatalog
  <1> QED BY <1>2, <1>3, <1>4

\* What is loaded was stored.
LEMMA CandidatesKeep ==
  ASSUME GenerationInv,
         \/ \E horizon \in SUBSET Candidates, named \in SUBSET Entities :
               LoadCandidates(horizon, named)
         \/ LoadRelationships
  PROVE  GenerationInv'
  <1>1. /\ gen \in Generation /\ eligible \subseteq Candidates /\ link \in Links
        /\ gen.step \notin {"validate", "frozen", "refused"} => gen.judged = {}
    BY DEF GenerationInv, GenerationTypeOK, Judged
  <1>2. ASSUME NEW horizon \in SUBSET Candidates, NEW named \in SUBSET Entities,
               LoadCandidates(horizon, named)
        PROVE  GenerationInv'
    <2> DEFINE loaded == IF gen.context = 0 THEN eligible \cap horizon ELSE {}
               scope == named \cup {Effect[s].target : s \in loaded}
               new == [gen EXCEPT !.step = "relate", !.signals = loaded, !.scope = scope]
    <2>1. loaded \subseteq Candidates /\ \A s \in loaded : Effect[s].target \in Entities
      BY <1>1, GenerationAssumption DEF Disruptions
    <2>2. scope \subseteq Entities
      BY <2>1
    <2>3. Continue(new) /\ gen.step = "load"
      BY <1>2 DEF LoadCandidates
    <2> HIDE DEF loaded, scope
    <2>4. /\ new \in Generation /\ new.step = "relate" /\ new.judged = {}
          /\ new.state = gen.state
      BY <1>1, <2>1, <2>2, <2>3 DEF Generation
    <2> HIDE DEF new
    <2> QED BY <2>3, <2>4, PreparingKeeps
  <1>3. CASE LoadRelationships
    <2> DEFINE new == [gen EXCEPT !.step = "propose", !.link = link]
    <2>1. /\ new \in Generation /\ new.step = "propose" /\ new.judged = {}
          /\ new.state = gen.state
      BY <1>1, <1>3 DEF LoadRelationships, Generation
    <2>2. Continue(new)
      BY <1>3 DEF LoadRelationships
    <2> HIDE DEF new
    <2> QED BY <2>1, <2>2, PreparingKeeps
  <1> QED BY <1>2, <1>3

LEMMA ProposalKeeps ==
  ASSUME GenerationInv, NEW hypothetical \in SUBSET Disruptions,
         \/ \E selected \in SUBSET Candidates : ProposeByModel(selected, hypothetical)
         \/ ProposeByStub(hypothetical)
         \/ ProposeByHuman(hypothetical)
  PROVE  GenerationInv'
  <1>1. /\ gen \in Generation
        /\ gen.step \notin {"validate", "frozen", "refused"} => gen.judged = {}
    BY DEF GenerationInv, GenerationTypeOK, Judged
  <1>2. ASSUME NEW selected \in SUBSET Candidates, ProposeByModel(selected, hypothetical)
        PROVE  GenerationInv'
    <2> DEFINE new == [gen EXCEPT !.step = "check", !.selected = selected,
                                  !.hypothetical = hypothetical]
    <2>1. /\ new \in Generation /\ new.step = "check" /\ new.judged = {}
          /\ new.state = gen.state
      BY <1>1, <1>2 DEF ProposeByModel, Generation
    <2>2. Continue(new)
      BY <1>2 DEF ProposeByModel
    <2> HIDE DEF new
    <2> QED BY <2>1, <2>2, PreparingKeeps
  <1>3. CASE ProposeByStub(hypothetical)
    <2>1. gen.signals \in SUBSET Candidates
      BY <1>1 DEF Generation
    <2> QED BY <1>2, <1>3, <2>1 DEF ProposeByStub
  <1>4. CASE ProposeByHuman(hypothetical)
    <2> DEFINE new == [gen EXCEPT !.step = "check", !.hypothetical = hypothetical]
    <2>1. /\ new \in Generation /\ new.step = "check" /\ new.judged = {}
          /\ new.state = gen.state
      BY <1>1, <1>4 DEF ProposeByHuman, Generation
    <2>2. Continue(new)
      BY <1>4 DEF ProposeByHuman
    <2> HIDE DEF new
    <2> QED BY <2>1, <2>2, PreparingKeeps
  <1> QED BY <1>2, <1>3, <1>4

LEMMA JudgeKeeps ==
  ASSUME GenerationInv, Judge
  PROVE  GenerationInv'
  <1> DEFINE new == [gen EXCEPT !.step = "validate", !.todo = gen.hypothetical]
  <1>1. CASE Refuse
    BY <1>1, RefuseKeeps
  <1>2. CASE ~Refuse
    <2>1. /\ Continue(new) /\ RelationshipsHold(gen) /\ ~Contradicts(gen) /\ gen.judged = {}
      BY <1>2 DEF Judge, GenerationInv, Judged
    <2>2. /\ new \in Generation /\ new.step = "validate" /\ new.judged = {}
          /\ new.link = gen.link /\ new.selected = gen.selected
          /\ new.hypothetical = gen.hypothetical /\ new.state = gen.state
      BY <2>1 DEF GenerationInv, GenerationTypeOK, Generation
    <2> HIDE DEF new
    <2>3. RelationshipsHold(new) /\ ~Contradicts(new)
      BY <2>1, <2>2 DEF RelationshipsHold, Contradicts, Combined, StoredEffects
    <2> QED BY <2>1, <2>2, <2>3 DEF GenerationInv, GenerationTypeOK, Judged, Continue
  <1> QED BY <1>1, <1>2

\* The client answers for its own versions.  It compares no state, but the
\* scenario is frozen only when its state, which never falls, is at last the
\* requested one: then it was so at every answer before.
LEMMA ClientAnswerKeeps ==
  ASSUME GenerationInv, ValidateNext \/ Reconcile
  PROVE  GenerationInv'
  <1>1. CASE Refuse
    BY <1>1, RefuseKeeps
  <1>2. CASE ~Refuse
    <2> PICK todo \in SUBSET Disruptions, step \in {"validate", "frozen"} :
              gen' = [gen EXCEPT !.step = step, !.todo = todo, !.judged = @ \cup {client}]
      <3>1. gen \in Generation /\ gen.todo \in SUBSET Disruptions
        BY DEF GenerationInv, GenerationTypeOK, Generation
      <3>2. CASE ValidateNext
        <4> PICK d \in gen.todo :
                  Continue([gen EXCEPT !.todo = @ \ {d}, !.judged = @ \cup {client}])
          BY <1>2, <3>2 DEF ValidateNext
        <4>1. gen' = [gen EXCEPT !.step = "validate", !.todo = gen.todo \ {d},
                                 !.judged = @ \cup {client}]
          BY <3>1, <3>2 DEF ValidateNext, Continue, Generation
        <4>2. gen.todo \ {d} \in SUBSET Disruptions
          BY <3>1
        <4> QED BY <4>1, <4>2
      <3>3. CASE Reconcile
        <4>1. gen' = [gen EXCEPT !.step = "frozen", !.todo = gen.todo,
                                 !.judged = @ \cup {client}]
          BY <1>2, <3>1, <3>3 DEF Reconcile, Continue, Generation
        <4> QED BY <3>1, <4>1
      <3> QED BY <3>2, <3>3
    <2>1. /\ gen.step = "validate" /\ UNCHANGED <<client, eligible, link, moves>>
          /\ client.context = gen.context /\ client.contracts = gen.catalog.contracts
          /\ step = "frozen" => client = Requested
      <3>1. CASE ValidateNext
        <4>1. gen'.step = gen.step
          BY <1>2, <3>1 DEF ValidateNext, Continue, GenerationInv, GenerationTypeOK, Generation
        <4>2. step = gen'.step
          BY DEF GenerationInv, GenerationTypeOK, Generation
        <4> QED BY <1>2, <3>1, <4>1, <4>2 DEF ValidateNext, Continue
      <3>2. CASE Reconcile
        BY <1>2, <3>2 DEF Reconcile, VersionsMatch, Continue, Requested
      <3> QED BY <3>1, <3>2
    <2> DEFINE new == [gen EXCEPT !.step = step, !.todo = todo, !.judged = @ \cup {client}]
    <2>2. /\ new \in Generation /\ new.step = step
          /\ new.judged = gen.judged \cup {client}
          /\ new.link = gen.link /\ new.selected = gen.selected
          /\ new.hypothetical = gen.hypothetical /\ new.context = gen.context
          /\ new.catalog = gen.catalog /\ new.state = gen.state
      BY DEF GenerationInv, GenerationTypeOK, Generation
    <2>3. gen' = new
      OBVIOUS
    <2> HIDE DEF new
    <2>4. GenerationTypeOK'
      BY <2>1, <2>2, <2>3 DEF GenerationInv, GenerationTypeOK
    <2>5. RelationshipsHold(gen') /\ ~Contradicts(gen')
      BY <2>1, <2>2, <2>3
         DEF GenerationInv, Judged, RelationshipsHold, Contradicts, Combined, StoredEffects
    <2>6. Requested' = Requested
      BY <2>2, <2>3 DEF Requested
    <2>7. /\ client \in Versions /\ client.state \in Nat /\ gen.state <= client.state
          /\ \A v \in gen.judged :
                /\ v \in Versions /\ v.state \in Nat
                /\ v.context = gen.context /\ v.contracts = gen.catalog.contracts
                /\ gen.state <= v.state /\ v.state <= client.state
      BY <2>1 DEF GenerationInv, GenerationTypeOK, Judged, Generation, Versions
    <2>8. client.state <= client.state
      BY <2>7
    <2>9. step = "frozen" => gen'.judged = {Requested}
      <3> SUFFICES ASSUME client = Requested PROVE gen.judged \subseteq {Requested}
        BY <2>1, <2>2, <2>3
      <3>1. client.state = gen.state
        BY DEF Requested
      <3>2. ASSUME NEW v \in gen.judged PROVE v = client
        <4>1. v.state = client.state
          BY <2>7, <3>1
        <4>2. v.context = client.context /\ v.contracts = client.contracts
          BY <2>1, <2>7
        <4> QED BY <2>7, <4>1, <4>2 DEF Versions
      <3> QED BY <3>2
    <2>10. Judged'
      BY <2>1, <2>2, <2>3, <2>5, <2>6, <2>7, <2>8, <2>9 DEF Judged
    <2> QED BY <2>4, <2>10 DEF GenerationInv
  <1> QED BY <1>1, <1>2

LEMMA AlwaysGenerationInv == GenerationSpec => []GenerationInv
  <1>1. GenerationInv /\ [GenerationNext]_genVars => GenerationInv'
    <2> SUFFICES ASSUME GenerationInv, [GenerationNext]_genVars PROVE GenerationInv'
      OBVIOUS
    <2>1. CASE UNCHANGED genVars
      BY <2>1 DEF genVars, GenerationInv, GenerationTypeOK, Judged, RelationshipsHold,
                  Contradicts, Combined, StoredEffects, Requested
    <2>2. CASE (\E moving \in {"context", "state", "contracts"} : ClientMoves(moving))
               \/ SignalMoves
      BY <2>2, MovesKeep
    <2>3. CASE GetContext \/ (\E half \in {"context", "contracts"} : GetContracts(half))
                          \/ CheckCatalog
      BY <2>3, ClientReadKeeps
    <2>4. CASE \/ \E horizon \in SUBSET Candidates, named \in SUBSET Entities :
                     LoadCandidates(horizon, named)
               \/ LoadRelationships
      BY <2>4, CandidatesKeep
    <2>5. ASSUME NEW hypothetical \in {h \in SUBSET Disruptions : Cardinality(h) <= 2},
                 \/ \E selected \in SUBSET Candidates : ProposeByModel(selected, hypothetical)
                 \/ ProposeByStub(hypothetical)
                 \/ ProposeByHuman(hypothetical)
          PROVE  GenerationInv'
      BY <2>5, ProposalKeeps
    <2>6. CASE Judge \/ ValidateNext \/ Reconcile
      BY <2>6, JudgeKeeps, ClientAnswerKeeps
    <2> QED BY <2>1, <2>2, <2>3, <2>4, <2>5, <2>6 DEF GenerationNext
  <1> QED BY <1>1, InitGenerationInv, PTL DEF GenerationSpec

\* The request keeps its types, whatever moves and whatever is proposed.
THEOREM GenerationTypeCorrect == GenerationSpec => []GenerationTypeOK
  BY AlwaysGenerationInv, PTL DEF GenerationInv

\* A scenario that is frozen was judged as a whole by the client, by the
\* context, state and contracts it names, and holds nothing that excludes each
\* other, however these and the signals moved while it was made.
THEOREM FrozenScenariosAreSound == GenerationSpec => []FrozenScenarioSound
  <1>1. GenerationInv => FrozenScenarioSound
    BY DEF GenerationInv, Judged, FrozenScenarioSound, RelationshipsHold, Contradicts,
           Requested
  <1> QED BY <1>1, AlwaysGenerationInv, PTL

-----------------------------------------------------------------------------
(***************************************************************************)
(* The parts together.                                                     *)
(***************************************************************************)
\* A behaviour of the three stores is one of each: none disturbs another, so
\* what was proved of one holds in their composition.
LEMMA EachStoreBehaves == CustodySpec => EvidenceSpec /\ HandoffSpec /\ GenerationSpec
  <1>1. CustodyInit => EvidenceInit /\ HandoffInit /\ GenerationInit
    BY DEF CustodyInit
  <1>2. [CustodyNext]_custodyVars
            => /\ [EvidenceNext]_evidenceVars
               /\ [HandoffNext]_handoffVars
               /\ [GenerationNext]_genVars
    <2>1. EvidenceNext => backend' = backend
      <3>1. ASSUME NEW k \in Collectors,
                   \/ \E c \in Contents : LookUp(k, c)
                   \/ StoreItem(k) \/ StoreLoser(k) \/ StoreRefused(k)
            PROVE  backend' = backend
        BY <3>1 DEF LookUp, StoreItem, StoreLoser, Insert, StoreRefused
      <3>2. ASSUME NEW p \in Processors,
                   (\E e \in Items : LoadEvidence(p, e)) \/ Cite(p) \/ NoCitation(p)
            PROVE  backend' = backend
        BY <3>2 DEF LoadEvidence, Cite, NoCitation
      <3>3. ASSUME NEW o \in Operators, NEW new, Ask(o, new) PROVE backend' = backend
        BY <3>3 DEF Ask
      <3>4. ASSUME NEW o \in Operators, NEW e \in Items,
                   \/ \E op \in Edits, c \in Contents : Reread(o, op, e, c)
                   \/ RequestDelete(o, e)
                   \/ \E canonicalToo \in BOOLEAN : RequestCleanup(o, e, canonicalToo)
            PROVE  backend' = backend
        BY <3>3, <3>4 DEF Reread, RequestDelete, RequestCleanup
      <3>5. ASSUME NEW o \in Operators,
                   \/ WriteBack(o) \/ DeleteRows(o) \/ NextVictim(o)
                   \/ \E half \in {"meta", "ref"} : Erase(o, half)
                   \/ Stop(o)
            PROVE  backend' = backend
        BY <3>5 DEF WriteBack, DeleteRows, NextVictim, Erase, Stop
      <3> QED BY <3>1, <3>2, <3>4, <3>5 DEF EvidenceNext, Edits
    <2>2. HandoffNext => backend' = backend
      BY DEF HandoffNext, ReviewSignal, Relate, ContextMoves, Change, RunEnds,
             CreateExperiment, ReadSignals, ReadRelationships, Validate, LookUpKey,
             InsertRefused, InsertPackage, SubmitExperiment, RefreshResults, ReadPackage, MarkSubmitted, SaveResult
    <2>3. EvidencePart => EvidenceNext /\ UNCHANGED <<handoffVars, genVars>>
      BY <2>1 DEF EvidencePart, handoffVars
    <2>4. PackagePart => HandoffNext /\ UNCHANGED <<evidenceVars, genVars>>
      BY <2>2 DEF PackagePart, evidenceVars
    <2>5. ScenarioPart => GenerationNext /\ UNCHANGED <<evidenceVars, handoffVars>>
      BY DEF ScenarioPart, evidenceVars, handoffVars
    <2>6. UNCHANGED custodyVars => UNCHANGED <<evidenceVars, handoffVars, genVars>>
      BY DEF custodyVars
    <2> QED BY <2>3, <2>4, <2>5, <2>6 DEF CustodyNext
  <1> QED BY <1>1, <1>2, PTL DEF CustodySpec, EvidenceSpec, HandoffSpec, GenerationSpec

\* The variables of all three stores keep their types.
THEOREM CustodyTypesHold == CustodySpec => []CustodyTypeOK
  <1>1. EvidenceInv /\ HandoffInv /\ GenerationInv => CustodyTypeOK
    BY DEF EvidenceInv, HandoffInv, GenerationInv, CustodyTypeOK
  <1> QED BY <1>1, EachStoreBehaves, AlwaysEvidenceInv, AlwaysHandoffInv,
             AlwaysGenerationInv, PTL
=============================================================================
