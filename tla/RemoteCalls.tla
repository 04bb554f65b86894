---------------------------- MODULE RemoteCalls ----------------------------
(***************************************************************************)
(* Several calls of a remote service that run at once and are answered     *)
(* together (asyncio.gather): the roles of a planner panel on Bedrock or   *)
(* Gemini, or the two requests behind a catalog of the simulation client.  *)
(* Each call retries what its service calls transient                      *)
(* (server/app/integrations/gateway.py, gemini.py); a model call also asks *)
(* again, with a fresh round of retries, when its output is not valid      *)
(* (gemini.py, bedrock.py).                                                *)
(*                                                                         *)
(* The Bedrock panel answers with the roles that succeeded.  Elsewhere one *)
(* failed call fails the answer at once, while the others go on unheard.   *)
(***************************************************************************)
EXTENDS Integers, FiniteSets

CONSTANTS
    Roles,       \* the calls of a panel
    MaxAttempts  \* attempts of each loop (client: max_retries + 1)

ASSUME CallsAssumption == MaxAttempts \in Nat \ {0} /\ Roles # {} /\ IsFiniteSet(Roles)

VARIABLES
    service,   \* the service that is called
    call,      \* call[r]: the loops of call r
    sent,      \* ghost: sent[r]: the requests of call r so far
    answer,    \* what the caller has got
    proposals, \* the roles whose proposal is in the answer
    warnings   \* the roles the answer has a warning for

callVars == <<service, call, sent, answer, proposals, warnings>>

Services == {"client", "bedrock", "gemini"}
Call == [step : {"post", "done", "limited", "failed"},
         attempt : 1 .. MaxAttempts,  \* the attempt at a valid output
         post : 1 .. MaxAttempts]     \* the request within that attempt
Fresh == [step |-> "post", attempt |-> 1, post |-> 1]

CallsTypeOK ==
    /\ service \in Services
    /\ call \in [Roles -> Call]
    /\ sent \in [Roles -> Nat]
    /\ answer \in {"waiting", "answered", "failed"}
    /\ proposals \subseteq Roles /\ warnings \subseteq Roles

CallsInit ==
    /\ service \in Services
    /\ call = [r \in Roles |-> Fresh]
    /\ sent = [r \in Roles |-> 0]
    /\ answer = "waiting" /\ proposals = {} /\ warnings = {}

-----------------------------------------------------------------------------
(***************************************************************************)
(* What a request may come back with: "lost" is a timeout, or for Gemini   *)
(* any network error; "limited" is status 429, "error" a 5xx status,       *)
(* "refused" every other status and, for the client, a broken connection;  *)
(* "invalid" is a body or an output that does not have the expected form.  *)
(* Bedrock's SDK retries by itself: its "error" is what is left of that.   *)
(***************************************************************************)
Replies == {"ok", "lost", "limited", "error", "refused", "invalid"}

Transient == CASE service = "client" -> {"lost", "error"}
               [] service = "gemini" -> {"lost", "limited", "error"}
               [] service = "bedrock" -> {}

\* Mutant of MayRepeat: one request more.
MayRepeatOnce(c, reply) == reply \in Transient /\ c.post <= MaxAttempts

\* for attempt in range: the same request once more.
MayRepeat(c, reply) == reply \in Transient /\ c.post < MaxAttempts

\* The output of a model is corrected; the client's is not.
MayCorrect(c, reply) ==
    reply = "invalid" /\ service # "client" /\ c.attempt < MaxAttempts

\* How a call ends: with its output, with the rate-limit error that makes the
\* collector defer its evidence, or with another error.
EndOf(reply) ==
    CASE reply = "ok" -> "done"
      [] reply = "limited" -> "limited"
      [] OTHER -> "failed"

AfterReply(c, reply) ==
    IF MayRepeat(c, reply) THEN [c EXCEPT !.post = @ + 1]
    ELSE IF MayCorrect(c, reply) THEN [c EXCEPT !.attempt = @ + 1, !.post = 1]
    ELSE [c EXCEPT !.step = EndOf(reply)]

\* One request of call r and its reply.  It is sent although the answer may
\* have been given: nothing cancels it.
Send(r) ==
    /\ call[r].step = "post"
    /\ \E reply \in Replies : call' = [call EXCEPT ![r] = AfterReply(call[r], reply)]
    /\ sent' = [sent EXCEPT ![r] = @ + 1]
    /\ UNCHANGED <<service, answer, proposals, warnings>>

In(step) == {r \in Roles : call[r].step = step}
Ended == Roles \ In("post")

\* Mutant of Complete: the answer waits for the first call only.
CompleteWithOne == Ended # {}

\* Mutant of Complete: the answer waits for the success of every call.
CompleteWhenDone == In("done") = Roles

\* gather waits for every call.
Complete == Ended = Roles

\* The Bedrock panel: a failed role is a warning.
AnswerPartly ==
    /\ answer = "waiting" /\ service = "bedrock" /\ Complete
    /\ answer' = "answered"
    /\ proposals' = In("done")
    /\ warnings' = Roles \ In("done")
    /\ UNCHANGED <<service, call, sent>>

\* The Gemini panel and the client's catalogs: every call has its output.
AnswerFully ==
    /\ answer = "waiting" /\ service # "bedrock" /\ Complete /\ In("done") = Roles
    /\ answer' = "answered"
    /\ proposals' = Roles
    /\ UNCHANGED <<service, call, sent, warnings>>

\* The first error is the answer.
FailAll ==
    /\ answer = "waiting" /\ service # "bedrock" /\ Ended \ In("done") # {}
    /\ answer' = "failed"
    /\ UNCHANGED <<service, call, sent, proposals, warnings>>

CallStep == (\E r \in Roles : Send(r)) \/ AnswerPartly \/ AnswerFully \/ FailAll

CallsSpec == CallsInit /\ [][CallStep]_callVars

-----------------------------------------------------------------------------
(***************************************************************************)
(* Properties.                                                             *)
(***************************************************************************)
\* The requests one call may cost: the loops of Gemini multiply.
Bound == IF service = "gemini" THEN MaxAttempts * MaxAttempts ELSE MaxAttempts

\* An answer is whole: no proposal or failure of a role is lost however the
\* calls interleave, a panel that fails has a failed role, and no call costs
\* more requests than the product of its loops.
AnswerIsWhole ==
    /\ answer = "answered" => /\ proposals \cup warnings = Roles
                              /\ proposals = In("done")
    /\ answer = "failed" => Ended \ In("done") # {}
    /\ \A r \in Roles : sent[r] <= Bound
=============================================================================
