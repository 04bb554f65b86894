-------------------------- MODULE ExperimentHandoff --------------------------
(***************************************************************************)
(* Accepted signals become an immutable experiment package that is handed  *)
(* to the simulation client (server/app/services/experiment_service.py and *)
(* the two experiment repositories).  A creation reads the client's        *)
(* context, then the signals and their relationships, then stores the      *)
(* package under its idempotency key; a submission calls the client and    *)
(* then marks the package; a refresh asks the client and then stores the   *)
(* result.  Reviews, new relationships and context changes go on           *)
(* meanwhile, requests overlap, and answers of the client may be lost.     *)
(***************************************************************************)
EXTENDS Storage, Integers, FiniteSets

CONSTANTS
    Requests,    \* requests in flight at once
    Keys,        \* the idempotency keys
    MaxPackages, \* bound: packages
    MaxChanges   \* bound: reviews, relationships and context changes

ASSUME HandoffAssumption == MaxPackages \in Nat /\ MaxChanges \in Nat /\ Keys # {}

\* Two grounded signal versions; a relationship, if any, leads from the
\* first to the second.
First == 1
Second == 2
Selectable == {First, Second}
Packages == 1 .. MaxPackages
NoPackage == 0

VARIABLES
    accepted, \* the signals whose review status is ACCEPTED
    relation, \* the relationship between the two signals
    relRows,  \* the versions under which the relationship is found
    moved,    \* the client's context is no longer the one of the signals
    package,  \* package[x]: the stored package
    result,   \* the packages whose result is stored
    runOf,    \* runOf[x]: the client's run for package x
    request,  \* request[q]: what request q does next, and its local variables
    changes,  \* reviews, relationships and context changes so far
    again     \* ghost: the packages submitted more than once

sources == <<accepted, relation, relRows, moved, changes>>
handoffVars == <<backend, sources, package, result, runOf, request, again>>

Relations == {"NONE", "MUTUALLY_EXCLUSIVE", "REQUIRES", "SUPERSEDES"}
RunStates == {"RUNNING", "COMPLETED", "FAILED"}

\* raced is a ghost: a source changed while the package was created, or the
\* query for the relationships was not up to date.
Package == [key : Keys, select : SUBSET Selectable, run : BOOLEAN,
            status : RunStates \cup {"NONE", "READY"}, raced : BOOLEAN]
NoneYet == [key |-> CHOOSE k \in Keys : TRUE, select |-> {}, run |-> FALSE,
            status |-> "NONE", raced |-> FALSE]
Stored(x) == package[x].status # "NONE"

Request == [step : {"idle", "prepare", "lookup", "insert", "mark", "save"},
            draft : Package, todo : SUBSET Selectable, asked : SUBSET Selectable,
            found : Relations,
            on : Packages \cup {NoPackage}, status : RunStates,
            copy : Package, hasCopy : BOOLEAN]
Resting == [step |-> "idle", draft |-> NoneYet, todo |-> {}, asked |-> {}, found |-> "NONE",
            on |-> NoPackage, status |-> "RUNNING", copy |-> NoneYet, hasCopy |-> FALSE]

HandoffTypeOK ==
    /\ backend \in Backends
    /\ accepted \subseteq Selectable /\ relRows \subseteq Selectable
    /\ relation \in Relations /\ moved \in BOOLEAN
    /\ package \in [Packages -> Package]
    /\ result \subseteq Packages /\ again \subseteq Packages
    /\ runOf \in [Packages -> RunStates \cup {"ABSENT"}]
    /\ request \in [Requests -> Request]
    /\ changes \in 0 .. MaxChanges

HandoffInit ==
    /\ backend \in Backends
    /\ accepted \in SUBSET Selectable
    /\ relation = "NONE" /\ relRows = {} /\ moved = FALSE
    /\ package = [x \in Packages |-> NoneYet]
    /\ result = {} /\ again = {}
    /\ runOf = [x \in Packages |-> "ABSENT"]
    /\ request = [q \in Requests |-> Resting]
    /\ changes = 0

-----------------------------------------------------------------------------
(***************************************************************************)
(* What changes meanwhile.                                                 *)
(***************************************************************************)
\* The creations that are under way are raced by a change.
Change ==
    /\ changes < MaxChanges /\ changes' = changes + 1
    /\ request' = [q \in Requests |->
          IF request[q].step \in {"prepare", "lookup", "insert"}
          THEN [request[q] EXCEPT !.draft.raced = TRUE] ELSE request[q]]
    /\ UNCHANGED <<backend, package, result, runOf, again>>

ReviewSignal(s) ==
    /\ Change
    /\ accepted' = IF s \in accepted THEN accepted \ {s} ELSE accepted \cup {s}
    /\ UNCHANGED <<relation, relRows, moved>>

\* relate: one row on PostgreSQL, one row per version on DynamoDB.  When it
\* fails between them it is not answered with success.
Relate(kind) ==
    /\ Change
    /\ relation = "NONE" /\ kind # "NONE"
    /\ \E rows \in SUBSET Selectable :
          /\ OnPostgres => rows = Selectable
          /\ relRows' = rows
          /\ relation' = IF rows = {} THEN relation ELSE kind
    /\ UNCHANGED <<accepted, moved>>

ContextMoves == Change /\ ~moved /\ moved' = TRUE /\ UNCHANGED <<accepted, relation, relRows>>

RunEnds(x, end) ==
    /\ runOf[x] = "RUNNING" /\ end \in {"COMPLETED", "FAILED"}
    /\ runOf' = [runOf EXCEPT ![x] = end]
    /\ UNCHANGED <<backend, sources, package, result, request, again>>

-----------------------------------------------------------------------------
(***************************************************************************)
(* create_experiment.                                                      *)
(***************************************************************************)
Do(q, new) == request' = [request EXCEPT ![q] = new]
End(q) == Do(q, Resting)

\* A non-empty selection; the key is the caller's or a hash of the content.
\* The context has to be the one the signals were grounded in.
CreateExperiment(q, key, select) ==
    /\ request[q].step = "idle" /\ select # {} /\ ~moved
    /\ Do(q, [Resting EXCEPT !.step = "prepare", !.todo = select,
                             !.draft = [NoneYet EXCEPT !.key = key, !.select = select]])
    /\ UNCHANGED <<backend, sources, package, result, runOf, again>>

\* The rows a query for relationships returns: on DynamoDB it is eventually
\* consistent, and may miss those of some versions.
Found(rows) == IF OnPostgres THEN {rows} ELSE SUBSET rows

\* prepare reads review statuses, then relationships: DynamoDB of one version
\* after the other, PostgreSQL in one statement each.  Here a signal that is
\* not accepted ends the request at once; the code judges it after prepare.
ReadSignals(q) ==
    LET todo == request[q].todo IN
    /\ request[q].step = "prepare" /\ todo # {} /\ request[q].asked = {}
    /\ \E now \in IF OnPostgres THEN {todo} ELSE {{s} : s \in todo} :
          IF now \subseteq accepted
          THEN Do(q, [request[q] EXCEPT !.todo = @ \ now, !.asked = now])
          ELSE End(q)
    /\ UNCHANGED <<backend, sources, package, result, runOf, again>>

ReadRelationships(q) ==
    LET there == request[q].asked \cap relRows IN
    /\ request[q].step = "prepare" /\ request[q].asked # {}
    /\ \E rows \in Found(there) :
          Do(q, [request[q] EXCEPT !.asked = {},
                     !.found = IF rows # {} THEN relation ELSE @,
                     !.draft.raced = @ \/ rows # there])
    /\ UNCHANGED <<backend, sources, package, result, runOf, again>>

\* Mutant of Compatible: a missing required signal is not noticed.
CompatibleIgnoringRequired(kind, select) ==
    kind \in {"MUTUALLY_EXCLUSIVE", "SUPERSEDES"} => select # Selectable

\* _validate_relationships
Compatible(kind, select) ==
    /\ kind \in {"MUTUALLY_EXCLUSIVE", "SUPERSEDES"} => select # Selectable
    /\ kind = "REQUIRES" => (First \in select => Second \in select)

Validate(q) ==
    /\ request[q].step = "prepare" /\ request[q].todo = {} /\ request[q].asked = {}
    /\ IF Compatible(request[q].found, request[q].draft.select)
       THEN Do(q, [request[q] EXCEPT !.step = "lookup", !.found = "NONE"])
       ELSE End(q)
    /\ UNCHANGED <<backend, sources, package, result, runOf, again>>

WithKey(key) == {x \in Packages : Stored(x) /\ package[x].key = key}

\* create_if_absent returns the package that has the key, whatever is in it.
LookUpKey(q) ==
    /\ request[q].step = "lookup"
    /\ IF WithKey(request[q].draft.key) # {} THEN End(q)
       ELSE Do(q, [request[q] EXCEPT !.step = "insert"])
    /\ UNCHANGED <<backend, sources, package, result, runOf, again>>

\* Mutant of KeyFree: nothing makes the key unique.
KeyFreeAlways(key) == key \in Keys

\* The unique column, or the condition on the key's row.
KeyFree(key) == WithKey(key) = {}

InsertPackage(q) ==
    /\ request[q].step = "insert" /\ KeyFree(request[q].draft.key)
    /\ \E x \in Packages :
          /\ ~Stored(x) /\ \A y \in Packages : ~Stored(y) => x <= y
          /\ package' = [package EXCEPT ![x] = [request[q].draft EXCEPT !.status = "READY",
                                                                  !.raced = FALSE]]
    /\ End(q)
    /\ UNCHANGED <<backend, sources, result, runOf, again>>

\* The race for the key is lost: DynamoDB returns the winner, PostgreSQL fails.
InsertRefused(q) ==
    /\ request[q].step = "insert" /\ ~KeyFree(request[q].draft.key)
    /\ End(q)
    /\ UNCHANGED <<backend, sources, package, result, runOf, again>>

-----------------------------------------------------------------------------
(***************************************************************************)
(* submit_experiment and refresh_results.                                  *)
(***************************************************************************)
\* Mutant of SubmitExperiment: it records the state before the submission.
SubmitRecordingBefore(q, x) ==
    /\ request[q].step = "idle" /\ Stored(x)
    /\ runOf[x] = "ABSENT" => ~moved
    /\ runOf' = [runOf EXCEPT ![x] = IF @ = "ABSENT" THEN "RUNNING" ELSE @]
    /\ Do(q, [Resting EXCEPT !.step = "mark", !.on = x, !.status = runOf[x]])
    /\ again' = IF runOf[x] = "ABSENT" THEN again ELSE again \cup {x}
    /\ UNCHANGED <<backend, sources, package, result>>

\* The wire key is a hash of the package, so the client runs it once; it
\* refuses a new run in a context that has moved.  The answer may be lost.
SubmitExperiment(q, x) ==
    /\ request[q].step = "idle" /\ Stored(x)
    /\ runOf[x] = "ABSENT" => ~moved
    /\ runOf' = [runOf EXCEPT ![x] = IF @ = "ABSENT" THEN "RUNNING" ELSE @]
    /\ \/ Do(q, [Resting EXCEPT !.step = "mark", !.on = x, !.status = runOf'[x]])
       \/ UNCHANGED request
    /\ again' = IF runOf[x] = "ABSENT" THEN again ELSE again \cup {x}
    /\ UNCHANGED <<backend, sources, package, result>>

\* DynamoDB reads the package before it writes all of it back.
ReadPackage(q) ==
    /\ OnDynamo /\ request[q].step \in {"mark", "save"} /\ ~request[q].hasCopy
    /\ Do(q, [request[q] EXCEPT !.copy = package[request[q].on], !.hasCopy = TRUE])
    /\ UNCHANGED <<backend, sources, package, result, runOf, again>>

Ready(q, step) == request[q].step = step /\ (OnDynamo => request[q].hasCopy)
Old(q) == IF OnDynamo THEN request[q].copy ELSE package[request[q].on]

\* mark_submitted compares no status.
MarkSubmitted(q) ==
    /\ Ready(q, "mark")
    /\ package' = [package EXCEPT ![request[q].on] =
          [Old(q) EXCEPT !.run = TRUE, !.status = request[q].status]]
    /\ End(q)
    /\ UNCHANGED <<backend, sources, result, runOf, again>>

\* Mutant of RefreshResults: it trusts the stored status.
RefreshWithoutAsking(q, x) ==
    /\ request[q].step = "idle" /\ Stored(x) /\ package[x].run
    /\ Do(q, [Resting EXCEPT !.step = "save", !.on = x])
    /\ UNCHANGED <<backend, sources, package, result, runOf, again>>

\* The client is asked for the run; only a completed run has results.
RefreshResults(q, x) ==
    /\ request[q].step = "idle" /\ Stored(x) /\ package[x].run
    /\ runOf[x] = "COMPLETED"
    /\ Do(q, [Resting EXCEPT !.step = "save", !.on = x])
    /\ UNCHANGED <<backend, sources, package, result, runOf, again>>

\* Mutant of SaveResult: DynamoDB puts a new package item.
SaveResultAnew(q) ==
    /\ Ready(q, "save")
    /\ package' = [package EXCEPT ![request[q].on] =
          [Old(q) EXCEPT !.run = FALSE, !.status = "COMPLETED"]]
    /\ result' = result \cup {request[q].on}
    /\ End(q)
    /\ UNCHANGED <<backend, sources, runOf, again>>

\* save_result: the copy of the result and the status, in one transaction.
SaveResult(q) ==
    /\ Ready(q, "save")
    /\ package' = [package EXCEPT ![request[q].on] = [Old(q) EXCEPT !.status = "COMPLETED"]]
    /\ result' = result \cup {request[q].on}
    /\ End(q)
    /\ UNCHANGED <<backend, sources, runOf, again>>

-----------------------------------------------------------------------------
HandoffNext ==
    \/ \E s \in Selectable : ReviewSignal(s)
    \/ \E kind \in Relations : Relate(kind)
    \/ ContextMoves
    \/ \E x \in Packages, end \in RunStates : RunEnds(x, end)
    \/ \E q \in Requests :
          \/ \E key \in Keys, select \in SUBSET Selectable : CreateExperiment(q, key, select)
          \/ ReadSignals(q) \/ ReadRelationships(q) \/ Validate(q)
          \/ LookUpKey(q) \/ InsertPackage(q) \/ InsertRefused(q)
          \/ \E x \in Packages : SubmitExperiment(q, x) \/ RefreshResults(q, x)
          \/ ReadPackage(q) \/ MarkSubmitted(q) \/ SaveResult(q)

HandoffSpec == HandoffInit /\ [][HandoffNext]_handoffVars

-----------------------------------------------------------------------------
(***************************************************************************)
(* Properties.                                                             *)
(***************************************************************************)
\* An idempotency key names one package, also when creations with the same
\* key overlap.
KeyNamesOnePackage ==
    \A x, y \in Packages : Stored(x) /\ Stored(y) /\ package[x].key = package[y].key => x = y

\* The relationship was answered with success.
Answered == relRows = Selectable

\* Request q inserts its package in this step.
Inserts(q) == request[q].step = "insert" /\ request'[q].step = "idle"

\* A package whose sources did not change while it was created, and whose
\* relationships were read up to date, holds accepted signals of the current
\* context that satisfy every relationship answered with success, although
\* they were read one after the other.
PackagesAreValid ==
    [][\A x \in Packages, q \in Requests :
          ~Stored(x) /\ Stored(x)' /\ Inserts(q) /\ ~request[q].draft.raced =>
          /\ package'[x].select \subseteq accepted /\ ~moved
          /\ Answered /\ relation = "REQUIRES" => package'[x].select # {First}
          /\ Answered /\ relation # "REQUIRES" => package'[x].select # Selectable]_handoffVars

\* A package is immutable: its selection never changes, and a recorded run
\* stays recorded through every overlapping mark and save.
PackagesAreImmutable ==
    [][\A x \in Packages : Stored(x) =>
          /\ package'[x].select = package[x].select
          /\ package[x].run => package'[x].run]_handoffVars

\* A stored result is the result of a completed run of a package that knows
\* its run, and of a package that was submitted once only it stays visible in
\* the status.  This excepts a second submission that was answered before the
\* result was stored: its mark, which compares no status, takes the package
\* back to RUNNING.
ResultsStand ==
    \A x \in result :
        /\ runOf[x] = "COMPLETED" /\ package[x].run
        /\ x \notin again => package[x].status = "COMPLETED"
=============================================================================
