----------------------------- MODULE MCCustody -----------------------------
(***************************************************************************)
(* What is kept for planning and simulation: the evidence, the packages    *)
(* handed to the client, and the scenarios frozen for a cycle.  The three  *)
(* share no state, so each behaviour is one of one part only.              *)
(***************************************************************************)
EXTENDS EvidenceStore, ExperimentHandoff, ScenarioGeneration, TLC

CONSTANT Parts  \* the parts that are checked

VARIABLE part   \* the part this behaviour is of

custodyVars == <<part, evidenceVars, handoffVars, genVars>>

CustodyInit ==
    /\ part \in Parts
    /\ EvidenceInit /\ HandoffInit /\ GenerationInit
    /\ IF part = "packages" THEN First \in accepted ELSE accepted = {}
    /\ part # "scenarios" => eligible = {}
    /\ part = "scenarios" => OnPostgres

\* Bound: every selection holds the first signal.  The second one alone
\* satisfies every relationship.
SelectionsBounded == \A q \in Requests : request[q].draft.select # {Second}

EvidencePart ==
    /\ part = "evidence" /\ EvidenceNext
    /\ UNCHANGED <<part, sources, package, result, runOf, request, again, genVars>>
PackagePart ==
    /\ part = "packages" /\ HandoffNext /\ SelectionsBounded'
    /\ UNCHANGED <<part, store, basis, actors, ghosts, genVars>>
ScenarioPart ==
    /\ part = "scenarios" /\ GenerationNext
    /\ UNCHANGED <<part, evidenceVars, sources, package, result, runOf, request, again>>

CustodyNext == EvidencePart \/ PackagePart \/ ScenarioPart
CustodySpec == CustodyInit /\ [][CustodyNext]_custodyVars

CustodyTypeOK == EvidenceTypeOK /\ HandoffTypeOK /\ GenerationTypeOK

\* Two entities of two types; a port may close or be delayed, a supplier only
\* be delayed.  The second signal delays what the first one closes.
MCKind == [e \in Entities |-> IF e = "port" THEN "PORT" ELSE "SUPPLIER"]
MCTargetKinds == [t \in Types |-> IF t = "closure" THEN {"PORT"} ELSE {"PORT", "SUPPLIER"}]
MCEffect == <<[type |-> "closure", target |-> "port"], [type |-> "delay", target |-> "port"]>>

\* Collectors and requests are the same model values: no behaviour has both.
CustodySymmetry == Permutations(Collectors) \cup Permutations(Operators)
=============================================================================
