----------------------------- MODULE CycleStore -----------------------------
(***************************************************************************)
(* The planning-cycle repositories under overlapping requests: one row     *)
(* that carries a version and a snapshot, writers that read it, change     *)
(* their copy and save it with the version they read.                      *)
(*                                                                         *)
(*   - DynamoPlanningCycleRepository.save reads META, compares, and then   *)
(*     transacts with the condition that the version is still the one it   *)
(*     just read;                                                          *)
(*   - PostgresPlanningCycleRepository.save selects the record, compares   *)
(*     in Python, and then updates it by primary key: under READ COMMITTED *)
(*     nothing in the UPDATE looks at the version again.                   *)
(*                                                                         *)
(* A snapshot is the set of updates it contains.  Each writer is one       *)
(* request and makes one update, named after it.                           *)
(***************************************************************************)
EXTENDS Integers, FiniteSets

CONSTANTS Writers,  \* the requests
          Creators, \* those that save without an expected version
          Backend   \* "dynamodb" or "postgres"

ASSUME StoreAssumption ==
    /\ Creators \subseteq Writers
    /\ Backend \in {"dynamodb", "postgres"}

VARIABLES row,    \* the stored version and snapshot
          step,   \* step[w]: where request w is
          seen,   \* seen[w]: the version request w read
          copy,   \* copy[w]: the snapshot request w wants to save
          base    \* base[w]: the version its save read back

vars == <<row, step, seen, copy, base>>

TypeOK ==
    /\ row \in [version : Nat, content : SUBSET Writers]
    /\ step \in [Writers -> {"new", "read", "checked", "saved", "refused"}]
    /\ seen \in [Writers -> Nat]
    /\ copy \in [Writers -> SUBSET Writers]
    /\ base \in [Writers -> Nat]

\* The draft has been saved once.
Init ==
    /\ row = [version |-> 1, content |-> {}]
    /\ step = [w \in Writers |-> "new"]
    /\ seen = [w \in Writers |-> 0]
    /\ copy = [w \in Writers |-> {}]
    /\ base = [w \in Writers |-> 0]

\* required(cycle_id), then the request's own change; a creator composes a
\* new draft instead.
Get(w) ==
    /\ step[w] = "new"
    /\ step' = [step EXCEPT ![w] = "read"]
    /\ seen' = [seen EXCEPT ![w] = row.version]
    /\ copy' = [copy EXCEPT ![w] = IF w \in Creators THEN {w}
                                   ELSE row.content \cup {w}]
    /\ UNCHANGED <<row, base>>

\* Mutant of Check: the expected version is not compared.
CheckNothing(w) ==
    /\ step[w] = "read"
    /\ base' = [base EXCEPT ![w] = row.version]
    /\ step' = [step EXCEPT ![w] = "checked"]
    /\ UNCHANGED <<row, seen, copy>>

\* The first half of save(): read the row back and compare the versions.
Check(w) ==
    /\ step[w] = "read"
    /\ IF w \in Creators \/ seen[w] = row.version
       THEN /\ base' = [base EXCEPT ![w] = row.version]
            /\ step' = [step EXCEPT ![w] = "checked"]
       ELSE /\ step' = [step EXCEPT ![w] = "refused"]
            /\ UNCHANGED base
    /\ UNCHANGED <<row, seen, copy>>

\* Mutant of WriteHolds: the DynamoDB put is unconditional too.
WriteHoldsAlways(w) == TRUE

\* The second half of save(): the write, and for DynamoDB its condition.
WriteHolds(w) == Backend = "dynamodb" => row.version = base[w]

\* Mutant of Write: the version is written back as it was read.
WriteUncounted(w) ==
    /\ step[w] = "checked"
    /\ IF WriteHolds(w)
       THEN /\ row' = [version |-> base[w], content |-> copy[w]]
            /\ step' = [step EXCEPT ![w] = "saved"]
       ELSE /\ step' = [step EXCEPT ![w] = "refused"]
            /\ UNCHANGED row
    /\ UNCHANGED <<seen, copy, base>>

Write(w) ==
    /\ step[w] = "checked"
    /\ IF WriteHolds(w)
       THEN /\ row' = [version |-> base[w] + 1, content |-> copy[w]]
            /\ step' = [step EXCEPT ![w] = "saved"]
       ELSE /\ step' = [step EXCEPT ![w] = "refused"]
            /\ UNCHANGED row
    /\ UNCHANGED <<seen, copy, base>>

\* The database is throttled or unreachable, or the worker dies.
Fail(w) ==
    /\ step[w] \in {"read", "checked"}
    /\ step' = [step EXCEPT ![w] = "refused"]
    /\ UNCHANGED <<row, seen, copy, base>>

Next == \E w \in Writers : Get(w) \/ Check(w) \/ Write(w) \/ Fail(w)

Spec == Init /\ [][Next]_vars

-----------------------------------------------------------------------------
\* An update that was acknowledged stays in the stored snapshot unless the
\* cycle was created again: two people, or a person and the polling page, who
\* change the same cycle at once never silently erase one another (dynamodb-
\* data-model.md: updates use version = :expected, conditional failures become
\* conflicts).
NoLostUpdate ==
    (\A k \in Creators : step[k] # "saved")
        => \A w \in Writers : step[w] = "saved" => w \in row.content

\* A version number names one snapshot: a request that holds the stored
\* version holds the stored snapshot with its own change.  PlanningWorkflow
\* relies on it when it compares freshness instead of numbers.
VersionNamesSnapshot ==
    \A w \in Writers \ Creators :
        /\ step[w] \in {"read", "checked"}
        /\ seen[w] = row.version
        => copy[w] = row.content \cup {w}

(***************************************************************************)
(* The register the repositories promise: each save takes effect at once.  *)
(***************************************************************************)
Register == INSTANCE UpdateRegister WITH Update <- Writers,
                                         Reset  <- Creators,
                                         value  <- row.content

\* Overlapping saves behave like saves one after the other, each applied once.
SavesAreAtomic == Register!Spec
=============================================================================
