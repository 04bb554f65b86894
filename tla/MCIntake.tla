------------------------------ MODULE MCIntake ------------------------------
(***************************************************************************)
(* The intake of signals: the collection of a source, the processing and   *)
(* review of one evidence item, and the remote calls both rely on.  The    *)
(* three share no state, so each behaviour is one of one part only.        *)
(***************************************************************************)
EXTENDS SignalPipeline, RemoteCalls, CollectionRun, TLC

CONSTANT Parts  \* the parts that are checked

VARIABLE part   \* the part this behaviour is of

intakeVars == <<part, signalVars, callVars, runVars>>

IntakeInit ==
    /\ part \in Parts
    /\ SignalInit /\ CallsInit /\ RunInit
    /\ part # "calls" => service = "client"
    /\ part # "signals" => OnPostgres

SignalPart == part = "signals" /\ SignalNext /\ UNCHANGED <<part, callVars, runVars>>
CallPart == part = "calls" /\ CallStep /\ UNCHANGED <<part, signalVars, runVars>>
RunPart == part = "run" /\ RunStep /\ UNCHANGED <<part, signalVars, callVars>>

IntakeNext == SignalPart \/ CallPart \/ RunPart

\* A processing that has started, a panel and a collection go on; nobody has
\* to process or review.
Progress ==
    \/ /\ part = "signals" /\ \E w \in Workers : ProcessingStep(w)
       /\ UNCHANGED <<part, callVars, runVars>>
    \/ CallPart
    \/ RunPart

IntakeSpec == IntakeInit /\ [][IntakeNext]_intakeVars /\ WF_intakeVars(Progress)

IntakeTypeOK == SignalTypeOK /\ CallsTypeOK /\ RunTypeOK

\* Every caller of a panel gets an answer, and a collection that has begun
\* ends, whatever the remote services and the site do.
RemoteWorkEnds ==
    <>[](/\ part = "calls" => answer # "waiting"
         /\ phase \in {"idle", "done", "failed"})

\* Two overlapping calls and reviews on PostgreSQL.  The rows of two signals
\* are independent, so one of each is enough for the item puts of DynamoDB.
MCCalls == [b \in Backends |->
              IF b = "postgres" THEN Workers \cup Reviewers
              ELSE {CHOOSE w \in Workers : TRUE, CHOOSE x \in Reviewers : TRUE}]

\* Two mentions, one of them perhaps no target of the effect, for a candidate,
\* one for its retry.
MCMentions == [s \in Signals |-> IF s = 1 THEN 2 ELSE 1]
=============================================================================
