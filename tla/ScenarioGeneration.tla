------------------------- MODULE ScenarioGeneration -------------------------
(***************************************************************************)
(* The risk scenarios of a new planning cycle (generate_scenarios in       *)
(* server/app/services/planning_service.py).  The request reads the        *)
(* client's context, then its contracts and its context again, both at     *)
(* once; loads the accepted signals and their relationships; takes         *)
(* proposals from a model, which judges them by itself, or from a human,   *)
(* who need not; has the client validate every hypothetical disruption and *)
(* reconcile them all; and freezes the result.  The client's context,      *)
(* state and contracts may move, and signals may be reviewed, between any  *)
(* two steps.                                                              *)
(*                                                                         *)
(* What the client normalizes is not looked at again, here or in the code. *)
(***************************************************************************)
EXTENDS Integers, FiniteSets

CONSTANTS
    Entities,    \* the entities of the client
    Kind,        \* Kind[e]: the type of entity e
    Types,       \* the types of disruptions
    TargetKinds, \* TargetKinds[t]: the types of entities t may target
    Closing, Delaying, \* the types whose name says "clos" or "delay"
    Effect,      \* Effect[s]: the stored disruption of signal s
    MaxMoves     \* bound: moves of the client, reviews and relationships

Candidates == DOMAIN Effect
Links == {"NONE", "MUTUALLY_EXCLUSIVE", "REQUIRES", "SUPERSEDES"}
Disruptions == [type : Types, target : Entities]

ASSUME GenerationAssumption == MaxMoves \in Nat /\ Effect \in [Candidates -> Disruptions]

VARIABLES
    client,    \* the versions of the client's context, state and contracts
    eligible,  \* the accepted signals, grounded in context 0
    link,      \* the relationship from the first signal to the second
    gen,       \* the request: its step and its local variables
    moves      \* moves so far

genVars == <<client, eligible, link, gen, moves>>

Versions == [context : Nat, state : Nat, contracts : Nat]

Generation == [
    step : {"context", "contracts", "load", "relate", "propose", "check",
            "validate", "frozen", "refused"},
    context : Nat, state : Nat,                        \* get_context
    unread : SUBSET {"contracts", "context"},          \* of the catalog
    catalog : [context : Nat, contracts : Nat],        \* get_disruption_contracts
    scope : SUBSET Entities,                           \* the entity scope
    signals : SUBSET Candidates, link : Links,         \* what was loaded
    selected : SUBSET Candidates,                      \* the proposal
    hypothetical : SUBSET Disruptions,
    todo : SUBSET Disruptions,                         \* to be validated
    judged : SUBSET Versions]                          \* ghost: the versions
                                                       \* the client judged by
NewRequest == [step |-> "context", context |-> 0, state |-> 0,
               unread |-> {"contracts", "context"},
               catalog |-> [context |-> 0, contracts |-> 0], scope |-> {},
               signals |-> {}, link |-> "NONE", selected |-> {}, hypothetical |-> {},
               todo |-> {}, judged |-> {}]

GenerationTypeOK ==
    /\ client \in Versions /\ gen \in Generation
    /\ eligible \subseteq Candidates /\ link \in Links
    /\ moves \in 0 .. MaxMoves

GenerationInit ==
    /\ client = [context |-> 0, state |-> 0, contracts |-> 0]
    /\ eligible \in SUBSET Candidates
    /\ link = "NONE"
    /\ gen = NewRequest
    /\ moves = 0

-----------------------------------------------------------------------------
(***************************************************************************)
(* What moves meanwhile.                                                   *)
(***************************************************************************)
Move == moves < MaxMoves /\ moves' = moves + 1

ClientMoves(part) ==
    /\ Move /\ client' = [client EXCEPT ![part] = @ + 1]
    /\ UNCHANGED <<eligible, link, gen>>

SignalMoves ==
    /\ Move
    /\ eligible' \in SUBSET Candidates
    /\ link' \in IF link = "NONE" THEN Links ELSE {link}
    /\ UNCHANGED <<client, gen>>

-----------------------------------------------------------------------------
(***************************************************************************)
(* The request up to the proposals.                                        *)
(***************************************************************************)
Continue(new) == gen' = new /\ UNCHANGED <<client, eligible, link, moves>>
Refuse == Continue([gen EXCEPT !.step = "refused"])

GetContext ==
    /\ gen.step = "context"
    /\ Continue([gen EXCEPT !.step = "contracts", !.context = client.context,
                         !.state = client.state])

\* get_disruption_contracts: two requests at once, in either order.
GetContracts(half) ==
    /\ gen.step = "contracts" /\ half \in gen.unread
    /\ Continue([gen EXCEPT !.unread = @ \ {half}, !.catalog[half] = client[half]])

\* "Disruption catalog context is stale"; the state is not compared here.
CheckCatalog ==
    /\ gen.step = "contracts" /\ gen.unread = {}
    /\ IF gen.catalog.context = gen.context
       THEN Continue([gen EXCEPT !.step = "load"])
       ELSE Refuse

\* _load_risk_candidates: the signals of this context in the horizon.  The
\* entities of their mentions and those the caller names make the scope.
LoadCandidates(horizon, named) ==
    /\ gen.step = "load"
    /\ LET loaded == IF gen.context = 0 THEN eligible \cap horizon ELSE {} IN
       Continue([gen EXCEPT !.step = "relate", !.signals = loaded,
                            !.scope = named \cup {Effect[s].target : s \in loaded}])

\* The relationships are read after the signals.
LoadRelationships ==
    /\ gen.step = "relate"
    /\ Continue([gen EXCEPT !.step = "propose", !.link = link])

\* compatible_targets
CompatibleTarget(disruption) == Kind[disruption.target] \in TargetKinds[disruption.type]

\* What a model may return: its output is checked and asked for again until
\* it selects loaded signals and targets compatible entities of the scope.
ProposeByModel(selected, hypothetical) ==
    /\ gen.step = "propose"
    /\ selected \subseteq gen.signals
    /\ \A d \in hypothetical : d.target \in gen.scope /\ CompatibleTarget(d)
    /\ Continue([gen EXCEPT !.step = "check", !.selected = selected,
                            !.hypothetical = hypothetical])

\* The demo provider takes every loaded signal, whether they go together or
\* not, and at most one disruption.
ProposeByStub(hypothetical) ==
    Cardinality(hypothetical) <= 1 /\ ProposeByModel(gen.signals, hypothetical)

\* Hypotheses confirmed in a browser, perhaps for another context and scope.
ProposeByHuman(hypothetical) ==
    /\ gen.step = "propose" /\ hypothetical # {}
    /\ Continue([gen EXCEPT !.step = "check", !.hypothetical = hypothetical])

-----------------------------------------------------------------------------
(***************************************************************************)
(* The judgement of a proposal.                                            *)
(***************************************************************************)
\* _validate_selected_relationships
RelationshipsHold(g) ==
    /\ g.link \in {"MUTUALLY_EXCLUSIVE", "SUPERSEDES"} => ~(Candidates \subseteq g.selected)
    /\ g.link = "REQUIRES" => (1 \in g.selected => 2 \in g.selected)

StoredEffects(g) == {Effect[s] : s \in g.selected}
Combined(g) == StoredEffects(g) \cup g.hypothetical

\* Mutant of Contradicts: hypothetical disruptions are compared to each other.
ContradictsIfHypothetical(g) ==
    \E c, d \in g.hypothetical :
        c.target = d.target /\ c.type \in Closing /\ d.type \in Delaying

\* "A target cannot be both closed and delayed"
Contradicts(g) ==
    \E c, d \in Combined(g) :
        c.target = d.target /\ c.type \in Closing /\ d.type \in Delaying

\* "Duplicate disruptions are not allowed"
Duplicates(g) ==
    \/ Cardinality(StoredEffects(g)) # Cardinality(g.selected)
    \/ StoredEffects(g) \cap g.hypothetical # {}

KnownTargets(g) == \A d \in g.hypothetical : d.target \in g.scope /\ CompatibleTarget(d)

Judge ==
    /\ gen.step = "check"
    /\ IF /\ gen.selected \subseteq gen.signals /\ RelationshipsHold(gen)
          /\ ~Duplicates(gen) /\ ~Contradicts(gen) /\ KnownTargets(gen)
       THEN Continue([gen EXCEPT !.step = "validate", !.todo = gen.hypothetical])
       ELSE Refuse

\* The versions of a scenario.
Requested == [context |-> gen.context, state |-> gen.state,
              contracts |-> gen.catalog.contracts]

\* validate_disruption: the client refuses another context or other contracts
\* than its own, and what it finds invalid.  No state is named.
ValidateNext ==
    /\ gen.step = "validate"
    /\ \E d \in gen.todo :
          \/ /\ client.context = gen.context /\ client.contracts = gen.catalog.contracts
             /\ Continue([gen EXCEPT !.todo = @ \ {d}, !.judged = @ \cup {client}])
          \/ Refuse

\* Mutant of VersionsMatch: the versions of the answer are not compared.
VersionsNamed(versions) == versions \in Versions

\* "Client reconciliation returned mismatched versions"
VersionsMatch(versions) == versions = Requested

\* reconcile_disruptions: the client answers for its own versions; an answer
\* that is not complete or leaves a disruption unknown is refused.
Reconcile ==
    /\ gen.step = "validate" /\ gen.todo = {}
    /\ \/ /\ VersionsMatch(client)
          /\ Continue([gen EXCEPT !.step = "frozen", !.judged = @ \cup {client}])
       \/ Refuse

GenerationNext ==
    \/ \E part \in {"context", "state", "contracts"} : ClientMoves(part)
    \/ SignalMoves
    \/ GetContext
    \/ \E half \in {"context", "contracts"} : GetContracts(half)
    \/ CheckCatalog \/ LoadRelationships
    \/ \E horizon \in SUBSET Candidates, named \in SUBSET Entities :
          LoadCandidates(horizon, named)
    \/ \E hypothetical \in {h \in SUBSET Disruptions : Cardinality(h) <= 2} :
          \/ \E selected \in SUBSET Candidates : ProposeByModel(selected, hypothetical)
          \/ ProposeByStub(hypothetical)
          \/ ProposeByHuman(hypothetical)
    \/ Judge \/ ValidateNext \/ Reconcile

GenerationSpec == GenerationInit /\ [][GenerationNext]_genVars

-----------------------------------------------------------------------------
\* A frozen scenario is of one piece, however the client and the signals
\* moved: the client judged all of it by the context and the state the scenario
\* names and by the contracts that belong to them, although no disruption is
\* validated against a state; no two of its disruptions, stored or
\* hypothetical, exclude each other.
FrozenScenarioSound ==
    gen.step = "frozen" =>
        /\ gen.judged = {Requested}
        /\ \A c, d \in Combined(gen) :
              c.target = d.target /\ c.type \in Closing => d.type \notin Delaying
        /\ gen.link = "REQUIRES" /\ 2 \notin gen.selected => 1 \notin gen.selected
=============================================================================
