----------------------------- MODULE IntakeProofs -----------------------------
(***************************************************************************)
(* What the parts of the intake that ask others guarantee, for every site, *)
(* any number of roles and attempts and whatever is replied: a set of      *)
(* remote calls answers in whole, a collection visits no URL twice and     *)
(* tells of every new item.  Last, the parts together.                     *)
(***************************************************************************)
EXTENDS MCIntake, SignalPipelineProofs

(***************************************************************************)
(* Remote calls.                                                           *)
(***************************************************************************)
\* The requests the loops of a call have been through before the current
\* round: only Gemini asks several times within one attempt.
Earlier(c) == IF service = "gemini" THEN (c.attempt - 1) * MaxAttempts ELSE c.attempt - 1

\* The loops count the requests.  The client corrects nothing, and Bedrock
\* repeats nothing.
Paid ==
    \A r \in Roles :
        /\ sent[r] <= Earlier(call[r]) + call[r].post - (IF call[r].step = "post" THEN 1 ELSE 0)
        /\ service = "client" => call[r].attempt = 1
        /\ service = "bedrock" => call[r].post = 1

\* An answer that was given stays what the calls came to: the calls are over,
\* or one of them has failed for good.
Settled ==
    /\ answer = "answered" => /\ Complete
                              /\ proposals = In("done")
                              /\ proposals \cup warnings = Roles
    /\ answer = "failed" => Ended \ In("done") # {}

CallsInv == CallsTypeOK /\ Paid /\ Settled

LEMMA InitCallsInv == CallsInit => CallsInv
  <1> SUFFICES ASSUME CallsInit PROVE CallsInv
    OBVIOUS
  <1> USE CallsAssumption DEF CallsInit
  <1>1. CallsTypeOK
    BY DEF CallsTypeOK, Call, Fresh
  <1>2. Paid
    <2>1. \A r \in Roles : Earlier(call[r]) = 0
      BY DEF Earlier, Fresh
    <2> QED BY <2>1 DEF Paid, Fresh
  <1>3. Settled
    BY DEF Settled
  <1> QED BY <1>1, <1>2, <1>3 DEF CallsInv

\* What a reply makes of a call that is under way.
LEMMA ReplyCounts ==
  ASSUME CallsInv, NEW r \in Roles, call[r].step = "post", NEW reply \in Replies
  PROVE  LET c == call[r]
             d == AfterReply(c, reply)
         IN  /\ d \in Call
             /\ Earlier(c) + c.post <= Earlier(d) + d.post - (IF d.step = "post" THEN 1 ELSE 0)
             /\ service = "client" => d.attempt = 1
             /\ service = "bedrock" => d.post = 1
  <1> DEFINE c == call[r]
             d == AfterReply(c, reply)
  <1>1. /\ c \in Call /\ c.step = "post" /\ service \in Services
        /\ service = "client" => c.attempt = 1
        /\ service = "bedrock" => c.post = 1
    BY DEF CallsInv, CallsTypeOK, Paid
  <1>2. /\ c.attempt \in 1 .. MaxAttempts /\ c.post \in 1 .. MaxAttempts
        /\ MaxAttempts \in Nat \ {0}
    BY <1>1, CallsAssumption DEF Call
  <1> HIDE DEF c
  <1>3. CASE MayRepeat(c, reply)
    <2>1. service # "bedrock"
      BY <1>3 DEF MayRepeat, Transient
    <2>2. d = [c EXCEPT !.post = @ + 1] /\ c.post + 1 \in 1 .. MaxAttempts
      BY <1>2, <1>3 DEF AfterReply, MayRepeat
    <2>3. d \in Call /\ d.attempt = c.attempt /\ d.post = c.post + 1 /\ d.step = "post"
      BY <1>1, <2>2 DEF Call
    <2>4. Earlier(d) = Earlier(c) /\ Earlier(c) \in Int
      BY <1>2, <2>3 DEF Earlier
    <2> QED BY <1>1, <1>2, <2>1, <2>3, <2>4 DEF c
  <1>4. CASE ~MayRepeat(c, reply) /\ MayCorrect(c, reply)
    <2>1. service # "client"
      BY <1>4 DEF MayCorrect
    <2>2. /\ d = [c EXCEPT !.attempt = @ + 1, !.post = 1]
          /\ c.attempt + 1 \in 1 .. MaxAttempts /\ 1 \in 1 .. MaxAttempts
      BY <1>2, <1>4 DEF AfterReply, MayCorrect
    <2>3. d \in Call /\ d.attempt = c.attempt + 1 /\ d.post = 1 /\ d.step = "post"
      BY <1>1, <2>2 DEF Call
    <2>4. CASE service = "gemini"
      <3>1. /\ Earlier(d) = c.attempt * MaxAttempts
            /\ Earlier(c) = (c.attempt - 1) * MaxAttempts
        BY <1>2, <2>3, <2>4 DEF Earlier
      <3>2. (c.attempt - 1) * MaxAttempts + MaxAttempts = c.attempt * MaxAttempts
        BY <1>2
      <3>3. (c.attempt - 1) * MaxAttempts \in Int /\ c.attempt * MaxAttempts \in Int
        BY <1>2
      <3> QED BY <1>2, <2>1, <2>3, <2>4, <3>1, <3>2, <3>3 DEF c
    <2>5. CASE service = "bedrock"
      BY <1>1, <1>2, <2>3, <2>5 DEF Earlier, c
    <2> QED BY <1>1, <2>1, <2>4, <2>5 DEF Services
  <1>5. CASE ~MayRepeat(c, reply) /\ ~MayCorrect(c, reply)
    <2>1. d = [c EXCEPT !.step = EndOf(reply)]
      BY <1>5 DEF AfterReply
    <2>2. EndOf(reply) \in {"done", "limited", "failed"}
      BY DEF EndOf
    <2>3. d \in Call /\ d.attempt = c.attempt /\ d.post = c.post /\ d.step # "post"
      BY <1>1, <2>1, <2>2 DEF Call
    <2>4. Earlier(d) = Earlier(c) /\ Earlier(c) \in Int
      BY <1>2, <2>3 DEF Earlier
    <2> QED BY <1>1, <1>2, <2>3, <2>4 DEF c
  <1> QED BY <1>3, <1>4, <1>5 DEF c

\* A call that is under way cannot be part of an answer that is complete, nor
\* be the one that failed it.
LEMMA SendKeeps ==
  ASSUME CallsInv, NEW r \in Roles, Send(r)
  PROVE  CallsInv'
  <1> PICK reply \in Replies : call' = [call EXCEPT ![r] = AfterReply(call[r], reply)]
    BY DEF Send
  <1> DEFINE d == AfterReply(call[r], reply)
  <1>1. /\ CallsTypeOK /\ Paid /\ Settled
        /\ call[r].step = "post" /\ sent' = [sent EXCEPT ![r] = @ + 1]
        /\ UNCHANGED <<service, answer, proposals, warnings>>
    BY DEF CallsInv, Send
  <1>2. /\ d \in Call
        /\ Earlier(call[r]) + call[r].post <= Earlier(d) + d.post - (IF d.step = "post" THEN 1 ELSE 0)
        /\ service = "client" => d.attempt = 1
        /\ service = "bedrock" => d.post = 1
    BY <1>1, ReplyCounts
  <1> HIDE DEF d
  <1>3. /\ call' \in [Roles -> Call] /\ call'[r] = d /\ sent'[r] = sent[r] + 1
        /\ \A q \in Roles \ {r} : call'[q] = call[q] /\ sent'[q] = sent[q]
    BY <1>1, <1>2 DEF CallsTypeOK, d
  <1>4. CallsTypeOK'
    BY <1>1, <1>3 DEF CallsTypeOK
  <1>5. Paid'
    <2> SUFFICES ASSUME NEW q \in Roles
                 PROVE  /\ sent'[q] <= Earlier(call'[q]) + call'[q].post
                                       - (IF call'[q].step = "post" THEN 1 ELSE 0)
                        /\ service = "client" => call'[q].attempt = 1
                        /\ service = "bedrock" => call'[q].post = 1
      BY <1>1 DEF Paid, Earlier
    <2>1. CASE q # r
      BY <1>1, <1>3, <2>1 DEF Paid
    <2>2. CASE q = r
      <3>1. sent[r] <= Earlier(call[r]) + call[r].post - 1
        BY <1>1 DEF Paid
      <3>2. /\ sent[r] \in Nat /\ call[r] \in Call /\ MaxAttempts \in Nat
            /\ call[r].post \in Int /\ call[r].attempt \in Int
            /\ d.post \in Int /\ d.attempt \in Int
        BY <1>1, <1>2, CallsAssumption DEF CallsTypeOK, Call
      <3>3. Earlier(call[r]) \in Int /\ Earlier(d) \in Int
        BY <3>2 DEF Earlier
      <3> QED BY <1>2, <1>3, <2>2, <3>1, <3>2, <3>3
    <2> QED BY <2>1, <2>2
  <1>6. Settled'
    <2>1. r \in In("post") /\ r \notin In("done")
      BY <1>1 DEF In
    <2>2. answer # "answered"
      BY <1>1, <2>1 DEF Settled, Complete, Ended
    <2>3. \A q \in Roles \ {r} : /\ q \in In("post")' <=> q \in In("post")
                                 /\ q \in In("done")' <=> q \in In("done")
      BY <1>3 DEF In
    <2>4. Ended \ In("done") # {} => (Ended \ In("done"))' # {}
      BY <2>1, <2>3 DEF Ended
    <2> QED BY <1>1, <2>2, <2>4 DEF Settled
  <1> QED BY <1>4, <1>5, <1>6 DEF CallsInv

LEMMA AnswerKeeps ==
  ASSUME CallsInv, AnswerPartly \/ AnswerFully \/ FailAll
  PROVE  CallsInv'
  <1> USE DEF CallsInv, AnswerPartly, AnswerFully, FailAll
  <1>1. UNCHANGED <<service, call, sent>>
    OBVIOUS
  <1>2. CallsTypeOK'
    BY <1>1 DEF CallsTypeOK, In
  <1>3. Paid'
    BY <1>1 DEF Paid, Earlier
  <1>4. /\ Complete' = Complete /\ In("done")' = In("done")
        /\ Ended' = Ended
    BY <1>1 DEF Complete, Ended, In
  <1>5. Settled'
    <2>1. CASE AnswerPartly \/ AnswerFully
      <3>1. /\ Complete /\ proposals' = In("done") /\ answer' = "answered"
            /\ proposals' \cup warnings' = Roles
        BY <2>1 DEF CallsTypeOK, In
      <3> QED BY <1>4, <3>1 DEF Settled
    <2>2. CASE FailAll
      BY <1>4, <2>2 DEF Settled
    <2> QED BY <2>1, <2>2
  <1> QED BY <1>2, <1>3, <1>5

LEMMA AlwaysCallsInv == CallsSpec => []CallsInv
  <1>1. CallsInv /\ [CallStep]_callVars => CallsInv'
    <2> SUFFICES ASSUME CallsInv, [CallStep]_callVars PROVE CallsInv'
      OBVIOUS
    <2>1. CASE \E r \in Roles : Send(r)
      BY <2>1, SendKeeps
    <2>2. CASE AnswerPartly \/ AnswerFully \/ FailAll
      BY <2>2, AnswerKeeps
    <2>3. CASE UNCHANGED callVars
      BY <2>3 DEF callVars, CallsInv, CallsTypeOK, Paid, Settled, Earlier, Complete, Ended, In
    <2> QED BY <2>1, <2>2, <2>3 DEF CallStep
  <1> QED BY <1>1, InitCallsInv, PTL DEF CallsSpec

\* However the calls interleave, are repeated, corrected or fail, an answer
\* holds every proposal and every failure there was, and the requests of a
\* call stay within the product of its loops.
THEOREM AnswersAreWhole == CallsSpec => []AnswerIsWhole
  <1>1. CallsInv => AnswerIsWhole
    <2> SUFFICES ASSUME CallsInv PROVE AnswerIsWhole
      OBVIOUS
    <2>1. ASSUME NEW r \in Roles PROVE sent[r] <= Bound
      <3> DEFINE c == call[r]
      <3>1. /\ c.attempt \in 1 .. MaxAttempts /\ c.post \in 1 .. MaxAttempts
            /\ MaxAttempts \in Nat /\ sent[r] \in Nat /\ service \in Services
        BY CallsAssumption DEF CallsInv, CallsTypeOK, Call
      <3>2. /\ sent[r] <= Earlier(c) + c.post - (IF c.step = "post" THEN 1 ELSE 0)
            /\ service = "client" => c.attempt = 1
            /\ service = "bedrock" => c.post = 1
        BY DEF CallsInv, Paid
      <3> HIDE DEF c
      <3>3. Earlier(c) \in Int
        BY <3>1 DEF Earlier
      <3>4. sent[r] <= Earlier(c) + c.post
        BY <3>1, <3>2, <3>3
      <3>5. CASE service = "gemini"
        <4>1. Earlier(c) = (c.attempt - 1) * MaxAttempts
          BY <3>5 DEF Earlier
        <4>2. (c.attempt - 1) * MaxAttempts <= (MaxAttempts - 1) * MaxAttempts
          BY <3>1
        <4>3. (MaxAttempts - 1) * MaxAttempts + MaxAttempts = MaxAttempts * MaxAttempts
          BY <3>1
        <4>4. /\ (c.attempt - 1) * MaxAttempts \in Int
              /\ (MaxAttempts - 1) * MaxAttempts \in Int
              /\ MaxAttempts * MaxAttempts \in Int
          BY <3>1
        <4> QED BY <3>1, <3>4, <3>5, <4>1, <4>2, <4>3, <4>4 DEF Bound
      <3>6. CASE service # "gemini"
        BY <3>1, <3>2, <3>4, <3>6 DEF Bound, Earlier, Services
      <3> QED BY <3>5, <3>6
    <2> QED BY <2>1 DEF CallsInv, Settled, AnswerIsWhole
  <1> QED BY <1>1, AlwaysCallsInv, PTL

-----------------------------------------------------------------------------
(***************************************************************************)
(* A collection.                                                           *)
(***************************************************************************)
Urls(q) == {q[i].url : i \in DOMAIN q}
Distinct(q) == \A i, j \in DOMAIN q : q[i].url = q[j].url => i = j

\* The items whose outcome was counted.
Told == counted["finished"] + counted["filtered"] + counted["failed"] + counted["deferred"]

\* Until the run is done it has told of each item it attempted, and deferred
\* none: a rate limit can only count what is left because of that.
Tallied ==
    /\ phase # "done" => Told = index /\ counted["deferred"] = 0
    /\ phase = "done" => Told = created
    /\ phase \notin {"process", "done"} => index = 0
    /\ phase = "idle" => queue = <<>> /\ seen = {}

\* No URL waits twice or waits visited; every item comes from a page fetched,
\* which keeps the items within max_pages.
RunInv ==
    /\ RunTypeOK
    /\ Distinct(queue) /\ Queued \cap seen = {}
    /\ created <= fetched
    /\ Tallied

LEMMA PagesFinite == IsFiniteSet(Pages)
<1>1. IsFiniteSet({Root, FeedPage, MapPage})
  <2>1. IsFiniteSet({})
    BY FS_EmptySet
  <2>2. IsFiniteSet({} \cup {Root})
    BY <2>1, FS_AddElement
  <2>3. IsFiniteSet(({} \cup {Root}) \cup {FeedPage})
    BY <2>2, FS_AddElement
  <2>4. IsFiniteSet((({} \cup {Root}) \cup {FeedPage}) \cup {MapPage})
    BY <2>3, FS_AddElement
  <2>5. {Root, FeedPage, MapPage} = (({} \cup {Root}) \cup {FeedPage}) \cup {MapPage}
    OBVIOUS
  <2> QED BY <2>4, <2>5
<1> QED BY <1>1, RunAssumption, FS_Union DEF Pages

\* A list of entries made from the pages of a set has each of them once.
LEMMA ListedOnce ==
    ASSUME NEW S \in SUBSET Pages, NEW f \in SetToSeqs(S),
           NEW d \in 0 .. MaxDepth, NEW t \in BOOLEAN
    PROVE  /\ EntriesOf(f, d, t) \in Seq(Entry)
           /\ Distinct(EntriesOf(f, d, t))
           /\ Urls(EntriesOf(f, d, t)) \subseteq S
<1> DEFINE n == Cardinality(S)
<1>1. n \in Nat
  BY PagesFinite, FS_Subset, FS_CardinalityType
<1>2. /\ f \in [1 .. n -> S]
      /\ \A i, j \in 1 .. n : i # j => f[i] # f[j]
  BY DEF SetToSeqs
<1> HIDE DEF n
<1>3. EntriesOf(f, d, t) = [i \in 1 .. n |-> [url |-> f[i], depth |-> d, terminal |-> t]]
  BY <1>2 DEF EntriesOf
<1>4. EntriesOf(f, d, t) \in [1 .. n -> Entry]
  BY <1>2, <1>3 DEF Entry
<1>5. EntriesOf(f, d, t) \in Seq(Entry)
  BY <1>1, <1>4
<1>6. Distinct(EntriesOf(f, d, t))
  BY <1>2, <1>3 DEF Distinct
<1>7. Urls(EntriesOf(f, d, t)) \subseteq S
  BY <1>2, <1>3 DEF Urls
<1> QED BY <1>5, <1>6, <1>7

\* One list behind another.
LEMMA Joined ==
    ASSUME NEW q \in Seq(Entry), NEW more \in Seq(Entry),
           Distinct(q), Distinct(more), Urls(q) \cap Urls(more) = {}
    PROVE  /\ q \o more \in Seq(Entry)
           /\ Distinct(q \o more)
           /\ Urls(q \o more) = Urls(q) \cup Urls(more)
<1> DEFINE r == q \o more
<1>1. /\ r \in Seq(Entry) /\ Len(r) = Len(q) + Len(more)
      /\ \A i \in 1 .. Len(r) : r[i] = IF i <= Len(q) THEN q[i] ELSE more[i - Len(q)]
  OBVIOUS
<1>2. /\ DOMAIN r = 1 .. Len(r) /\ DOMAIN q = 1 .. Len(q) /\ DOMAIN more = 1 .. Len(more)
      /\ Len(q) \in Nat /\ Len(more) \in Nat
  OBVIOUS
<1> HIDE DEF r
<1>3. Distinct(r)
  <2> SUFFICES ASSUME NEW i \in 1 .. Len(r), NEW j \in 1 .. Len(r), r[i].url = r[j].url
              PROVE  i = j
    BY <1>2 DEF Distinct
  <2>1. CASE i <= Len(q) /\ j <= Len(q)
    <3>1. r[i] = q[i] /\ r[j] = q[j] /\ i \in DOMAIN q /\ j \in DOMAIN q
      BY <2>1, <1>1, <1>2
    <3> QED BY <3>1 DEF Distinct
  <2>2. CASE i > Len(q) /\ j > Len(q)
    <3>1. /\ r[i] = more[i - Len(q)] /\ r[j] = more[j - Len(q)]
          /\ i - Len(q) \in DOMAIN more /\ j - Len(q) \in DOMAIN more
      BY <2>2, <1>1, <1>2
    <3>2. i - Len(q) = j - Len(q)
      BY <3>1 DEF Distinct
    <3> QED BY <3>2, <1>2
  <2>3. CASE i <= Len(q) /\ j > Len(q)
    <3>1. r[i] = q[i] /\ i \in DOMAIN q /\ r[j] = more[j - Len(q)] /\ j - Len(q) \in DOMAIN more
      BY <2>3, <1>1, <1>2
    <3> QED BY <3>1 DEF Urls
  <2>4. CASE i > Len(q) /\ j <= Len(q)
    <3>1. r[j] = q[j] /\ j \in DOMAIN q /\ r[i] = more[i - Len(q)] /\ i - Len(q) \in DOMAIN more
      BY <2>4, <1>1, <1>2
    <3> QED BY <3>1 DEF Urls
  <2> QED BY <2>1, <2>2, <2>3, <2>4, <1>2
<1>4. Urls(r) \subseteq Urls(q) \cup Urls(more)
  <2> SUFFICES ASSUME NEW i \in 1 .. Len(r) PROVE r[i].url \in Urls(q) \cup Urls(more)
    BY <1>2 DEF Urls
  <2>1. CASE i <= Len(q)
    <3>1. r[i] = q[i] /\ i \in DOMAIN q
      BY <2>1, <1>1, <1>2
    <3> QED BY <3>1 DEF Urls
  <2>2. CASE i > Len(q)
    <3>1. r[i] = more[i - Len(q)] /\ i - Len(q) \in DOMAIN more
      BY <2>2, <1>1, <1>2
    <3> QED BY <3>1 DEF Urls
  <2> QED BY <2>1, <2>2, <1>2
<1>5. Urls(q) \subseteq Urls(r)
  <2> SUFFICES ASSUME NEW i \in DOMAIN q PROVE q[i].url \in Urls(r)
    BY DEF Urls
  <2>1. i \in DOMAIN r /\ r[i] = q[i]
    BY <1>1, <1>2
  <2> QED BY <2>1 DEF Urls
<1>6. Urls(more) \subseteq Urls(r)
  <2> SUFFICES ASSUME NEW i \in DOMAIN more PROVE more[i].url \in Urls(r)
    BY DEF Urls
  <2>1. Len(q) + i \in DOMAIN r /\ r[Len(q) + i] = more[i]
    BY <1>1, <1>2
  <2> QED BY <2>1 DEF Urls
<1> QED BY <1>1, <1>3, <1>4, <1>5, <1>6 DEF r

\* What is behind the head of a queue.
LEMMA Behind ==
    ASSUME NEW q \in Seq(Entry), q # <<>>, Distinct(q)
    PROVE  /\ Head(q) \in Entry
           /\ Tail(q) \in Seq(Entry)
           /\ Distinct(Tail(q))
           /\ Urls(Tail(q)) \subseteq Urls(q) \ {Head(q).url}
           /\ Head(q).url \in Urls(q)
<1>1. /\ Len(q) \in Nat \ {0} /\ DOMAIN q = 1 .. Len(q)
      /\ Tail(q) \in Seq(Entry) /\ Len(Tail(q)) = Len(q) - 1
      /\ DOMAIN Tail(q) = 1 .. (Len(q) - 1)
      /\ \A i \in 1 .. (Len(q) - 1) : Tail(q)[i] = q[i + 1]
      /\ Head(q) = q[1] /\ Head(q) \in Entry
  OBVIOUS
<1>2. Distinct(Tail(q))
  <2> SUFFICES ASSUME NEW i \in 1 .. (Len(q) - 1), NEW j \in 1 .. (Len(q) - 1),
                      q[i + 1].url = q[j + 1].url
              PROVE  i = j
    BY <1>1 DEF Distinct
  <2>1. i + 1 \in DOMAIN q /\ j + 1 \in DOMAIN q
    BY <1>1
  <2>2. i + 1 = j + 1
    BY <2>1 DEF Distinct
  <2> QED BY <2>2, <1>1
<1>3. Urls(Tail(q)) \subseteq Urls(q) \ {Head(q).url}
  <2> SUFFICES ASSUME NEW i \in 1 .. (Len(q) - 1)
              PROVE  q[i + 1].url \in Urls(q) /\ q[i + 1].url # q[1].url
    BY <1>1 DEF Urls
  <2>1. i + 1 \in DOMAIN q /\ 1 \in DOMAIN q /\ i + 1 # 1
    BY <1>1
  <2> QED BY <2>1 DEF Urls, Distinct
<1>4. 1 \in DOMAIN q
  BY <1>1
<1> QED BY <1>1, <1>2, <1>3, <1>4 DEF Urls

-----------------------------------------------------------------------------
LEMMA SeededOnce ==
    ASSUME NEW q \in Seq(Entry), Distinct(q),
           NEW wanted, NEW u \in Pages, NEW t \in BOOLEAN
    PROVE  Seeded(q, wanted, u, t) \in Seq(Entry) /\ Distinct(Seeded(q, wanted, u, t))
<1> DEFINE more == EntriesOf(<<u>>, 0, t)
<1>1. CASE wanted /\ \A i \in DOMAIN q : q[i].url # u
  <2>1. more = <<[url |-> u, depth |-> 0, terminal |-> t]>>
    BY DEF EntriesOf
  <2>2. [url |-> u, depth |-> 0, terminal |-> t] \in Entry
    BY RunAssumption DEF Entry
  <2> HIDE DEF more
  <2>3. more \in Seq(Entry) /\ DOMAIN more = {1} /\ more[1].url = u
    BY <2>1, <2>2
  <2>4. more \in Seq(Entry) /\ Distinct(more) /\ Urls(more) = {u}
    BY <2>3 DEF Distinct, Urls
  <2>5. Urls(q) \cap Urls(more) = {}
    BY <2>4, <1>1 DEF Urls
  <2>6. q \o more \in Seq(Entry) /\ Distinct(q \o more)
    BY <2>4, <2>5, Joined
  <2> QED BY <1>1, <2>6 DEF Seeded, more
<1>2. CASE ~(wanted /\ \A i \in DOMAIN q : q[i].url # u)
  BY <1>2 DEF Seeded
<1> QED BY <1>1, <1>2

\* No seed is queued twice, whatever the mode and the configuration.
LEMMA SeedsOnce ==
    ASSUME NEW mode \in Modes, NEW feed \in BOOLEAN, NEW map \in BOOLEAN
    PROVE  Seeds(mode, feed, map) \in Seq(Entry) /\ Distinct(Seeds(mode, feed, map))
<1> DEFINE page == Seeded(<<>>, mode \in {"PAGE", "AUTO"}, Root, FALSE)
           feedUrl == IF feed THEN FeedPage ELSE Root
           feeds == Seeded(page, feed \/ mode = "RSS", feedUrl, TRUE)
           mapUrl == IF map \/ mode = "AUTO" THEN MapPage ELSE Root
<1>1. <<>> \in Seq(Entry) /\ Distinct(<<>>)
  BY DEF Distinct
<1>2. Root \in Pages /\ feedUrl \in Pages /\ mapUrl \in Pages
  BY DEF Pages
<1>3. page \in Seq(Entry) /\ Distinct(page)
  BY <1>1, <1>2, SeededOnce
<1> HIDE DEF page, feedUrl, mapUrl
<1>4. feeds \in Seq(Entry) /\ Distinct(feeds)
  BY <1>2, <1>3, SeededOnce
<1> HIDE DEF feeds
<1>5. LET all == Seeded(feeds, map \/ mode \in {"SITEMAP", "AUTO"}, mapUrl, TRUE)
      IN all \in Seq(Entry) /\ Distinct(all)
  BY <1>2, <1>4, SeededOnce
<1> QED BY <1>5 DEF Seeds, page, feeds, feedUrl, mapUrl

-----------------------------------------------------------------------------
\* What a visit adds: entries of pages neither queued nor visited, none twice.
FreshEntries(more) ==
    /\ more \in Seq(Entry) /\ Distinct(more)
    /\ Urls(more) \cap (seen \cup Queued) = {}

\* A visit takes the head from the queue and puts fresh entries behind it.
LEMMA VisitKeepsOnce ==
    ASSUME RunTypeOK, Distinct(queue), Queued \cap seen = {}, queue # <<>>,
           NEW more, FreshEntries(more), NEW pages \in {0, 1}, Visit(more, pages)
    PROVE  /\ queue' \in Seq(Entry) /\ Distinct(queue)'
           /\ seen' \subseteq Pages /\ (Queued \cap seen = {})'
           /\ fetched' \in 0 .. MaxPages /\ fetched' = fetched + pages
<1>1. Queued = Urls(queue)
  BY DEF Queued, Urls
<1>2. /\ Head(queue) \in Entry /\ Tail(queue) \in Seq(Entry) /\ Distinct(Tail(queue))
      /\ Urls(Tail(queue)) \subseteq Queued \ {Head(queue).url}
      /\ Head(queue).url \in Queued
  BY <1>1, Behind DEF RunTypeOK
<1>3. /\ queue' \in Seq(Entry) /\ Distinct(queue')
      /\ Urls(queue') = Urls(Tail(queue)) \cup Urls(more)
  <2>1. Urls(Tail(queue)) \cap Urls(more) = {}
    BY <1>2 DEF FreshEntries
  <2> QED BY <1>2, <2>1, Joined DEF FreshEntries, Visit
<1>4. seen' = seen \cup {Head(queue).url} /\ seen' \subseteq Pages
  BY <1>2 DEF Visit, RunTypeOK, Entry
<1>5. Urls(queue') \cap seen' = {}
  BY <1>2, <1>3, <1>4 DEF FreshEntries
<1>6. Queued' = Urls(queue') /\ (Distinct(queue') <=> Distinct(queue)')
  BY DEF Queued, Urls, Distinct
<1>7. fetched' \in 0 .. MaxPages /\ fetched' = fetched + pages
  BY RunAssumption DEF Visit, RunTypeOK
<1> QED BY <1>3, <1>4, <1>5, <1>6, <1>7

LEMMA NothingFresh == RunTypeOK => FreshEntries(<<>>)
<1>1. <<>> \in Seq(Entry) /\ Distinct(<<>>) /\ Urls(<<>>) = {}
  BY DEF Distinct, Urls
<1> QED BY <1>1 DEF FreshEntries

\* The entries that a page, a feed or a sitemap gives rise to are fresh.
LEMMA WantedFresh ==
    ASSUME NEW found \in SUBSET Pages, NEW seed \in BOOLEAN,
           NEW S \in SUBSET Wanted(found, seed), NEW f \in SetToSeqs(S),
           NEW d \in 0 .. MaxDepth, NEW t \in BOOLEAN
    PROVE  FreshEntries(EntriesOf(f, d, t)) /\ Urls(EntriesOf(f, d, t)) \subseteq S
<1>1. S \subseteq Pages /\ S \cap (seen \cup Queued) = {}
  BY DEF Wanted
<1> QED BY <1>1, ListedOnce DEF FreshEntries

LEMMA FreshJoined ==
    ASSUME NEW a, NEW b, FreshEntries(a), FreshEntries(b), Urls(a) \cap Urls(b) = {}
    PROVE  FreshEntries(a \o b)
BY Joined DEF FreshEntries

-----------------------------------------------------------------------------
LEMMA RunInitKeeps == RunInit => RunInv
<1> SUFFICES ASSUME RunInit PROVE RunInv
  OBVIOUS
<1>1. queue = <<>> /\ DOMAIN queue = {}
  BY DEF RunInit
<1>2. Distinct(queue) /\ Queued \cap seen = {}
  BY <1>1 DEF Distinct, Queued
<1>3. RunTypeOK
  BY <1>1, RunAssumption DEF RunInit, RunTypeOK, ItemOutcomes
<1>4. Told = 0 /\ counted["deferred"] = 0
  BY DEF RunInit, Told, ItemOutcomes
<1> QED BY <1>1, <1>2, <1>3, <1>4 DEF RunInv, Tallied, RunInit

LEMMA ToldIsNat == RunTypeOK => \A k \in ItemOutcomes : counted[k] \in Nat /\ Told \in Nat
BY RunAssumption DEF RunTypeOK, ItemOutcomes, Told

\* A visit that stores at most the page it fetched.
LEMMA VisitKeeps ==
    ASSUME RunInv, Open, NEW more, FreshEntries(more), NEW pages \in {0, 1}, Visit(more, pages),
           NEW new \in {0, 1}, new <= pages, created' = created + new
    PROVE  RunInv'
<1>1. /\ queue' \in Seq(Entry) /\ Distinct(queue)'
      /\ seen' \subseteq Pages /\ (Queued \cap seen = {})'
      /\ fetched' \in 0 .. MaxPages /\ fetched' = fetched + pages
  BY VisitKeepsOnce DEF RunInv, Open
<1>2. phase' = "crawl" /\ phase = "crawl" /\ counted' = counted /\ index' = index
  BY DEF Visit, Open
<1>3. index = 0 /\ Told = 0 /\ counted["deferred"] = 0
  BY <1>2 DEF RunInv, Tallied
<1>4. created' \in 0 .. MaxPages /\ created' <= fetched'
  BY <1>1, RunAssumption DEF RunInv, RunTypeOK
<1>5. Told' = Told
  BY <1>2 DEF Told
<1>6. RunTypeOK'
  BY <1>1, <1>2, <1>3, <1>4 DEF RunInv, RunTypeOK
<1>7. Tallied'
  BY <1>2, <1>3, <1>5 DEF Tallied
<1> QED BY <1>1, <1>4, <1>6, <1>7 DEF RunInv

LEMMA ReadPageKeeps ==
    ASSUME RunInv, NEW feeds \in SUBSET {FeedPage}, NEW links \in SUBSET Pages,
           ReadPage(feeds, links)
    PROVE  RunInv'
<1> DEFINE W == Wanted(feeds, TRUE)
           L == Wanted(links, FALSE) \ W
           d == Head(queue).depth
<1>1. RunTypeOK /\ Open /\ created' = created + 0 /\ created \in Nat
  BY DEF RunInv, RunTypeOK, ReadPage, MayRead
<1>2. Head(queue) \in Entry /\ d \in 0 .. MaxDepth
  BY <1>1, Behind DEF RunInv, RunTypeOK, Open, Entry
<1>3. feeds \in SUBSET Pages
  BY DEF Pages
<1>4. PICK first \in SetToSeqs(W), then \in SetToSeqs(L) :
          IF d < MaxDepth
          THEN Visit(EntriesOf(first, 0, TRUE) \o EntriesOf(then, d + 1, FALSE), 1)
          ELSE Visit(<<>>, 1)
  BY DEF ReadPage
<1>5. CASE d < MaxDepth
  <2> DEFINE a == EntriesOf(first, 0, TRUE)
             b == EntriesOf(then, d + 1, FALSE)
  <2>1. 0 \in 0 .. MaxDepth /\ d + 1 \in 0 .. MaxDepth
    BY <1>2, <1>5, RunAssumption
  <2>2. FreshEntries(a) /\ Urls(a) \subseteq W
    BY <1>3, <1>4, <2>1, WantedFresh
  <2>3. L \in SUBSET Wanted(links, FALSE)
    OBVIOUS
  <2> HIDE DEF W, d
  <2>4. FreshEntries(b) /\ Urls(b) \subseteq L
    BY <1>4, <2>1, <2>3, WantedFresh
  <2>5. FreshEntries(a \o b)
    BY <2>2, <2>4, FreshJoined
  <2>6. Visit(a \o b, 1)
    BY <1>4, <1>5
  <2> HIDE DEF a, b
  <2> QED BY <1>1, <2>5, <2>6, VisitKeeps
<1>6. CASE ~ (d < MaxDepth)
  <2>1. Visit(<<>>, 1)
    BY <1>4, <1>6
  <2> QED BY <1>1, <2>1, NothingFresh, VisitKeeps
<1> QED BY <1>5, <1>6

\* What the crawl does.
LEMMA CrawlKeeps ==
    ASSUME RunInv,
           \/ \E mode \in Modes, feed, map \in BOOLEAN : Begin(mode, feed, map)
           \/ \E new \in {0, 1} : ScrapeOnly(new)
           \/ VisitInVain
           \/ \E found \in SUBSET Pages, ofSitemaps \in BOOLEAN : ReadList(found, ofSitemaps)
           \/ \E markup \in BOOLEAN, new \in {0, 1} : ReadArticle(markup, new)
           \/ \E feeds \in SUBSET {FeedPage}, links \in SUBSET Pages : ReadPage(feeds, links)
           \/ StoreFails \/ EndCrawl
    PROVE  RunInv'
<1>1. RunTypeOK /\ Tallied /\ created <= fetched /\ created \in Nat /\ created = created + 0
  BY DEF RunInv, RunTypeOK
<1>2. CASE \E mode \in Modes, feed, map \in BOOLEAN : Begin(mode, feed, map)
  <2>1. PICK mode \in Modes, feed \in BOOLEAN, map \in BOOLEAN : Begin(mode, feed, map)
    BY <1>2
  <2>2. /\ phase = "idle" /\ phase' = "crawl" /\ queue' = Seeds(mode, feed, map)
        /\ seen' = seen /\ fetched' = fetched /\ created' = created
        /\ counted' = counted /\ index' = index
    BY <2>1 DEF Begin
  <2>3. queue' \in Seq(Entry) /\ Distinct(queue')
    BY <2>2, SeedsOnce
  <2>4. seen = {}
    BY <2>2 DEF RunInv, Tallied
  <2>5. RunTypeOK'
    BY <1>1, <2>2, <2>3 DEF RunTypeOK
  <2>6. Told' = Told
    BY <2>2 DEF Told
  <2>7. Tallied'
    BY <1>1, <2>2, <2>6 DEF Tallied
  <2> QED BY <1>1, <2>2, <2>3, <2>4, <2>5, <2>7 DEF RunInv, Distinct
<1>3. CASE \E new \in {0, 1} : ScrapeOnly(new)
  <2>1. PICK new \in {0, 1} : ScrapeOnly(new)
    BY <1>3
  <2>2. /\ phase = "idle" /\ phase' \in {"process", "failed"}
        /\ queue' = queue /\ seen' = seen /\ counted' = counted /\ index' = index
        /\ \/ fetched' = 1 /\ created' = new
           \/ fetched' = fetched /\ created' = created
    BY <2>1 DEF ScrapeOnly
  <2>3. fetched' \in 0 .. MaxPages /\ created' \in 0 .. MaxPages /\ created' <= fetched'
    BY <1>1, <2>2, RunAssumption DEF RunTypeOK
  <2>4. Told' = Told /\ index = 0
    BY <1>1, <2>2 DEF Told, Tallied
  <2>5. RunTypeOK'
    BY <1>1, <2>2, <2>3, <2>4 DEF RunTypeOK
  <2>6. Tallied'
    BY <1>1, <2>2, <2>4 DEF Tallied
  <2>7. (Distinct(queue) /\ Queued \cap seen = {})'
    BY <2>2 DEF RunInv, Distinct, Queued
  <2> QED BY <2>3, <2>5, <2>6, <2>7 DEF RunInv
<1>4. CASE VisitInVain
  <2>1. PICK pages \in {0, 1} : Visit(<<>>, pages)
    BY <1>4 DEF VisitInVain
  <2> QED BY <1>1, <1>4, <2>1, NothingFresh, VisitKeeps DEF VisitInVain
<1>5. CASE \E found \in SUBSET Pages, ofSitemaps \in BOOLEAN : ReadList(found, ofSitemaps)
  <2>1. PICK found \in SUBSET Pages, ofSitemaps \in BOOLEAN : ReadList(found, ofSitemaps)
    BY <1>5
  <2>2. PICK urls \in SetToSeqs(Wanted(found, ofSitemaps)) :
            Visit(EntriesOf(urls, 0, ~ofSitemaps), 1)
    BY <2>1 DEF ReadList
  <2> DEFINE S == Wanted(found, ofSitemaps)
             terminal == ~ofSitemaps
             more == EntriesOf(urls, 0, terminal)
  <2>3. S \in SUBSET Wanted(found, ofSitemaps) /\ terminal \in BOOLEAN /\ 0 \in 0 .. MaxDepth
    BY RunAssumption
  <2> HIDE DEF terminal
  <2>4. FreshEntries(more)
    BY <2>3, WantedFresh
  <2>5. Visit(more, 1)
    BY <2>2 DEF terminal
  <2> HIDE DEF more
  <2> QED BY <1>1, <2>1, <2>4, <2>5, VisitKeeps DEF ReadList, MayRead
<1>6. CASE \E markup \in BOOLEAN, new \in {0, 1} : ReadArticle(markup, new)
  BY <1>1, <1>6, NothingFresh, VisitKeeps DEF ReadArticle, MayRead
<1>7. CASE \E feeds \in SUBSET {FeedPage}, links \in SUBSET Pages : ReadPage(feeds, links)
  BY <1>7, ReadPageKeeps
<1>8. CASE StoreFails \/ EndCrawl
  <2>1. /\ phase = "crawl" /\ phase' \in {"process", "failed"}
        /\ UNCHANGED <<queue, seen, fetched, created, counted, index>>
    BY <1>8 DEF StoreFails, EndCrawl, MayRead, Open
  <2>2. Told' = Told
    BY <2>1 DEF Told
  <2>3. Tallied'
    BY <1>1, <2>1, <2>2 DEF Tallied
  <2>4. RunTypeOK'
    BY <1>1, <2>1 DEF RunTypeOK
  <2>5. (Distinct(queue) /\ Queued \cap seen = {})'
    BY <2>1 DEF RunInv, Distinct, Queued
  <2> QED BY <1>1, <2>1, <2>3, <2>4, <2>5 DEF RunInv
<1> QED BY <1>2, <1>3, <1>4, <1>5, <1>6, <1>7, <1>8

-----------------------------------------------------------------------------
\* One more outcome is told: of n items, no more than created.
LEMMA TellKeeps ==
    ASSUME RunInv, phase = "process", index < created,
           NEW outcome \in ItemOutcomes, NEW n \in 1 .. (created - index),
           counted' = [counted EXCEPT ![outcome] = @ + n]
    PROVE  /\ counted' \in [ItemOutcomes -> 0 .. MaxPages]
           /\ Told' = Told + n
           /\ outcome # "deferred" => counted'["deferred"] = counted["deferred"]
<1> DEFINE a == counted["finished"]
           b == counted["filtered"]
           c == counted["failed"]
           e == counted["deferred"]
           x == counted[outcome]
           y == x + n
<1>1. /\ counted \in [ItemOutcomes -> 0 .. MaxPages] /\ Told = index
      /\ index \in Nat /\ created \in 0 .. MaxPages /\ MaxPages \in Nat
  BY RunAssumption DEF RunInv, RunTypeOK, Tallied
<1>2. a \in Nat /\ b \in Nat /\ c \in Nat /\ e \in Nat /\ x \in {a, b, c, e}
  BY <1>1 DEF ItemOutcomes
<1>3. Told = a + b + c + e
  BY DEF Told
<1>4. counted' = [counted EXCEPT ![outcome] = y]
  OBVIOUS
<1>5. y \in 0 .. MaxPages
  <2> HIDE DEF a, b, c, e, x
  <2>1. x <= index
    BY <1>1, <1>2, <1>3
  <2> QED BY <1>1, <1>2, <2>1
<1> HIDE DEF y
<1>6. counted' \in [ItemOutcomes -> 0 .. MaxPages]
  BY <1>1, <1>4, <1>5
<1>7. Told' = Told + n
  <2>1. \A k \in ItemOutcomes : counted'[k] = IF k = outcome THEN y ELSE counted[k]
    BY <1>1, <1>4
  <2>2. Told' = counted'["finished"] + counted'["filtered"]
                + counted'["failed"] + counted'["deferred"]
    BY DEF Told
  <2>3. {"finished", "filtered", "failed", "deferred"} = ItemOutcomes
    BY DEF ItemOutcomes
  <2>4. CASE outcome = "finished"
    <3>1. Told' = y + b + c + e /\ y = a + n
      BY <2>1, <2>2, <2>3, <2>4 DEF y
    <3> QED BY <3>1, <1>2, <1>3
  <2>5. CASE outcome = "filtered"
    <3>1. Told' = a + y + c + e /\ y = b + n
      BY <2>1, <2>2, <2>3, <2>5 DEF y
    <3> QED BY <3>1, <1>2, <1>3
  <2>6. CASE outcome = "failed"
    <3>1. Told' = a + b + y + e /\ y = c + n
      BY <2>1, <2>2, <2>3, <2>6 DEF y
    <3> QED BY <3>1, <1>2, <1>3
  <2>7. CASE outcome = "deferred"
    <3>1. Told' = a + b + c + y /\ y = e + n
      BY <2>1, <2>2, <2>3, <2>7 DEF y
    <3> QED BY <3>1, <1>2, <1>3
  <2> QED BY <2>3, <2>4, <2>5, <2>6, <2>7
<1>8. outcome # "deferred" => counted'["deferred"] = counted["deferred"]
  BY <1>1, <1>4 DEF ItemOutcomes
<1> QED BY <1>6, <1>7, <1>8

\* What the processing of the new items does.
LEMMA ProcessingKeeps ==
    ASSUME RunInv,
           \/ \E outcome \in ItemOutcomes \ {"deferred"} : ProcessItem(outcome)
           \/ RateLimited \/ EndRun
    PROVE  RunInv'
<1>1. /\ RunTypeOK /\ Tallied /\ created <= fetched
      /\ index \in Nat /\ created \in Nat /\ index <= created
  BY DEF RunInv, RunTypeOK
<1>2. /\ phase = "process" /\ phase' \in {"process", "done"}
      /\ UNCHANGED <<queue, seen, fetched, created>>
  BY DEF ProcessItem, RateLimited, EndRun
<1>3. (Distinct(queue) /\ Queued \cap seen = {})'
  BY <1>2 DEF RunInv, Distinct, Queued
<1>4. Told = index /\ counted["deferred"] = 0
  BY <1>1, <1>2 DEF Tallied
<1>5. CASE \E outcome \in ItemOutcomes \ {"deferred"} : ProcessItem(outcome)
  <2>1. PICK outcome \in ItemOutcomes \ {"deferred"} : ProcessItem(outcome)
    BY <1>5
  <2>2. /\ index < created /\ index' = index + 1 /\ phase' = phase
        /\ counted' = [counted EXCEPT ![outcome] = @ + 1]
    BY <2>1 DEF ProcessItem
  <2>3. 1 \in 1 .. (created - index)
    BY <1>1, <2>2
  <2>4. /\ counted' \in [ItemOutcomes -> 0 .. MaxPages] /\ Told' = Told + 1
        /\ counted'["deferred"] = counted["deferred"]
    BY <1>2, <2>2, <2>3, TellKeeps
  <2>5. RunTypeOK'
    BY <1>1, <1>2, <2>2, <2>4 DEF RunTypeOK
  <2>6. Tallied'
    BY <1>2, <1>4, <2>2, <2>4 DEF Tallied
  <2> QED BY <1>1, <1>2, <1>3, <2>5, <2>6 DEF RunInv
<1>6. CASE RateLimited
  <2> DEFINE rest == created - index
  <2>1. /\ index < created /\ index' = index + 1 /\ phase' = "done"
        /\ counted' = [counted EXCEPT !["deferred"] = @ + rest]
    BY <1>6 DEF RateLimited
  <2>2. rest \in 1 .. (created - index) /\ "deferred" \in ItemOutcomes
    BY <1>1, <2>1 DEF ItemOutcomes
  <2>3. counted' \in [ItemOutcomes -> 0 .. MaxPages] /\ Told' = Told + rest
    <3> HIDE DEF rest
    <3> QED BY <1>2, <2>1, <2>2, TellKeeps
  <2>4. Told' = created'
    BY <1>1, <1>2, <1>4, <2>3
  <2>5. RunTypeOK'
    BY <1>1, <1>2, <2>1, <2>3 DEF RunTypeOK
  <2>6. Tallied'
    BY <2>1, <2>4 DEF Tallied
  <2> QED BY <1>1, <1>2, <1>3, <2>5, <2>6 DEF RunInv
<1>7. CASE EndRun
  <2>1. index = created /\ phase' = "done" /\ counted' = counted /\ index' = index
    BY <1>7 DEF EndRun
  <2>2. Told' = created'
    BY <1>2, <1>4, <2>1 DEF Told
  <2>3. RunTypeOK'
    BY <1>1, <1>2, <2>1 DEF RunTypeOK
  <2>4. Tallied'
    BY <2>1, <2>2 DEF Tallied
  <2> QED BY <1>1, <1>2, <1>3, <2>3, <2>4 DEF RunInv
<1> QED BY <1>5, <1>6, <1>7

LEMMA RunStepKeeps == RunInv /\ [RunStep]_runVars => RunInv'
<1> SUFFICES ASSUME RunInv, [RunStep]_runVars PROVE RunInv'
  OBVIOUS
<1>1. CASE UNCHANGED runVars
  BY <1>1 DEF runVars, RunInv, RunTypeOK, Distinct, Queued, Tallied, Told
<1>2. CASE RunStep
  BY <1>2, CrawlKeeps, ProcessingKeeps DEF RunStep
<1> QED BY <1>1, <1>2

LEMMA RunHolds == RunSpec => []RunInv
BY RunInitKeeps, RunStepKeeps, PTL DEF RunSpec

\* The variables of a run keep their types: the crawl stores no more pages
\* than max_pages and tells of no more items than it stored.
THEOREM RunTypesHold == RunSpec => []RunTypeOK
<1>1. RunInv => RunTypeOK
  BY DEF RunInv
<1> QED BY <1>1, RunHolds, PTL

\* The entries of a queue without repetition are as many as their URLs.
LEMMA AsManyAsUrls ==
    ASSUME NEW q \in Seq(Entry), Distinct(q)
    PROVE  /\ Urls(q) \subseteq Pages /\ IsFiniteSet(Urls(q))
           /\ Cardinality(Urls(q)) = Len(q)
<1>1. Len(q) \in Nat /\ DOMAIN q = 1 .. Len(q) /\ \A i \in 1 .. Len(q) : q[i] \in Entry
  OBVIOUS
<1>2. Urls(q) \subseteq Pages
  BY <1>1 DEF Urls, Entry
<1>3. IsFiniteSet(1 .. Len(q)) /\ Cardinality(1 .. Len(q)) = Len(q)
  <2>1. 1 \in Int /\ Len(q) \in Int
    BY <1>1
  <2>2. /\ IsFiniteSet(1 .. Len(q))
        /\ Cardinality(1 .. Len(q)) = IF 1 > Len(q) THEN 0 ELSE Len(q) - 1 + 1
    BY <2>1, FS_Interval
  <2> QED BY <1>1, <2>2
<1> DEFINE f == [i \in 1 .. Len(q) |-> q[i].url]
<1>4. f \in Bijection(1 .. Len(q), Urls(q))
  BY <1>1 DEF Urls, Distinct, Bijection, Injection, IsInjective, Surjection
<1>5. ExistsBijection(1 .. Len(q), Urls(q))
  BY <1>4 DEF ExistsBijection
<1>6. IsFiniteSet(Urls(q)) /\ Cardinality(Urls(q)) = Cardinality(1 .. Len(q))
  <2> DEFINE S == 1 .. Len(q)
             T == Urls(q)
  <2>1. IsFiniteSet(S) /\ ExistsBijection(S, T)
    BY <1>3, <1>5
  <2> HIDE DEF S, T, f
  <2>2. IsFiniteSet(T) /\ Cardinality(T) = Cardinality(S)
    BY <2>1, FS_Bijection
  <2> QED BY <2>2 DEF S, T
<1> QED BY <1>2, <1>3, <1>6

\* Whatever a site links to, no URL waits twice, none that was visited waits
\* again, and what was visited and what waits are together no more than the
\* pages of the site.
THEOREM UrlsAreVisitedOnce == RunSpec => []EachUrlOnce
<1>1. ASSUME RunInv PROVE EachUrlOnce
  <2>1. queue \in Seq(Entry) /\ Distinct(queue) /\ Queued = Urls(queue)
        /\ seen \subseteq Pages /\ Urls(queue) \cap seen = {}
    BY <1>1 DEF RunInv, RunTypeOK, Queued, Urls
  <2>2. /\ Urls(queue) \subseteq Pages /\ IsFiniteSet(Urls(queue))
        /\ Cardinality(Urls(queue)) = Len(queue)
    BY <2>1, AsManyAsUrls
  <2>3. IsFiniteSet(seen) /\ IsFiniteSet(Pages)
    BY <2>1, PagesFinite, FS_Subset
  <2>4. seen \cap Urls(queue) = {} /\ seen \cup Urls(queue) \in SUBSET Pages
    BY <2>1, <2>2
  <2>5. /\ Cardinality(seen) \in Nat /\ Cardinality(Urls(queue)) \in Nat
        /\ Cardinality(Pages) \in Nat /\ Cardinality({}) = 0
    BY <2>2, <2>3, FS_CardinalityType, FS_EmptySet
  <2>6. Cardinality(seen \cup Urls(queue)) = Cardinality(seen) + Cardinality(Urls(queue))
    <3>1. Cardinality(seen \cup Urls(queue)) =
              Cardinality(seen) + Cardinality(Urls(queue)) - Cardinality(seen \cap Urls(queue))
      BY <2>2, <2>3, FS_Union
    <3>2. Cardinality(seen \cap Urls(queue)) = 0
      BY <2>4, <2>5
    <3> QED BY <2>5, <3>1, <3>2
  <2>7. Cardinality(seen \cup Urls(queue)) <= Cardinality(Pages)
    BY <2>3, <2>4, FS_Subset
  <2>8. Cardinality(seen) + Len(queue) <= Cardinality(Pages)
    BY <2>2, <2>5, <2>6, <2>7
  <2> QED BY <2>1, <2>8 DEF EachUrlOnce, Distinct
<1> QED BY <1>1, RunHolds, PTL

\* A run that is done has told of every new item, and of no item twice, even
\* when a rate limit ended it.
THEOREM EveryItemIsTold == RunSpec => []RunAccounted
<1>1. RunInv => RunAccounted
  BY DEF RunInv, Tallied, Told, RunAccounted
<1> QED BY <1>1, RunHolds, PTL

-----------------------------------------------------------------------------
(***************************************************************************)
(* The parts together.                                                     *)
(***************************************************************************)
\* A behaviour of the intake is one of each part: the parts disturb each
\* other in nothing, so what was proved of one holds in their composition.
LEMMA EachPartBehaves == IntakeSpec => SignalSpec /\ CallsSpec /\ RunSpec
<1>1. IntakeInit => SignalInit /\ CallsInit /\ RunInit
  BY DEF IntakeInit
<1>2. [IntakeNext]_intakeVars
          => [SignalNext]_signalVars /\ [CallStep]_callVars /\ [RunStep]_runVars
  BY DEF IntakeNext, SignalPart, CallPart, RunPart, intakeVars
<1> QED BY <1>1, <1>2, PTL DEF IntakeSpec, SignalSpec, CallsSpec, RunSpec

\* The variables of all three parts keep their types.
THEOREM IntakeTypesHold == IntakeSpec => []IntakeTypeOK
<1>1. CallsInv => CallsTypeOK
  BY DEF CallsInv
<1>2. SignalTypeOK /\ CallsTypeOK /\ RunTypeOK => IntakeTypeOK
  BY DEF IntakeTypeOK
<1> QED BY <1>1, <1>2, EachPartBehaves, SignalTypesHold, AlwaysCallsInv, RunTypesHold, PTL
===============================================================================
