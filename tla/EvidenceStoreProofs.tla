------------------------- MODULE EvidenceStoreProofs -------------------------
(***************************************************************************)
(* Proofs about the evidence store, for any number of requests, contents   *)
(* and items.  On PostgreSQL the foreign keys carry the argument.  On      *)
(* DynamoDB it is that an item which no two requests worked on at once     *)
(* belongs to the one request that changes it: what that request read is   *)
(* still so when it writes.  EvidenceInv says this.                        *)
(***************************************************************************)
EXTENDS EvidenceStore, TLAPS

Edits == {"archive", "redact", "edit"}

\* The items a request changes or is about to change.
WorkOf(r) == (r.todo \cup {r.on, r.last}) \ {None}

\* A request whose deletion of e is under way.
Erasing(e) == \E o \in Operators : operator[o].on = e /\ operator[o].rows # {}

\* The shape of a maintenance request.
WellFormed(r) ==
    /\ r.op = "idle" => WorkOf(r) = {} /\ r.rows = {}
    /\ r.op \in Edits => r.on # None /\ r.rows = {} /\ r.copy.life = "stored"
    /\ r.op = "delete" \/ r.rows # {} => r.on # None
    /\ r.op = "delete" => r.todo = {} /\ r.last = None

RequestsMakeSense ==
    /\ \A o \in Operators :
          /\ WellFormed(operator[o])
          /\ \A e \in WorkOf(operator[o]) : row[e].life # "none"
    /\ \A k \in Collectors :
          collector[k].step = "fallback" => OnDynamo /\ collector[k].canon # None
    /\ \A d \in dupRefs : row[d].life # "none"

\* An item that is not crossed belongs to one maintenance request or to
\* requests that only read it, and what they read of it is still so.
NoClash ==
    \A e \in Items \ crossed :
        /\ \A o, p \in Operators :
              e \in WorkOf(operator[o]) /\ e \in WorkOf(operator[p]) => o = p
        /\ \A k \in Collectors : collector[k].canon = e =>
              Kept(e) /\ \A o \in Operators : e \notin WorkOf(operator[o])
        /\ \A p \in Processors : processor[p].on = e =>
              Kept(e) /\ \A o \in Operators : e \notin WorkOf(operator[o])
        /\ \A o \in Operators : operator[o].op \in Edits /\ operator[o].on = e =>
              /\ Kept(e) /\ operator[o].copy = row[e]
              /\ operator[o].op = "edit" => e \notin cited

\* What the foreign keys of PostgreSQL say.
ForeignKeys ==
    OnPostgres =>
        /\ \A e \in cited : Kept(e)
        /\ \A d, e \in Items : Kept(d) /\ row[d].dupOf = e => Kept(e)

\* What the rows of DynamoDB say of items that are not crossed.
References ==
    OnDynamo =>
        /\ \A e \in cited \ crossed : Kept(e) /\ ~Erasing(e)
        /\ \A d \in Items \ crossed, e \in Items :
              Kept(d) /\ row[d].dupOf = e /\ ~Erasing(d) =>
                  d \in dupRefs /\ (e \notin crossed => Kept(e) /\ ~Erasing(e))
        /\ \A o \in Operators, e \in Items \ crossed :
              operator[o].on = e /\ operator[o].rows # {} /\ "meta" \notin operator[o].rows
              => ~Kept(e)

EvidenceInv ==
    EvidenceTypeOK /\ RequestsMakeSense /\ NoClash /\ ForeignKeys /\ References

-----------------------------------------------------------------------------
LEMMA NothingInHand ==
    /\ Blank \in Row /\ Blank.life = "none"
    /\ NotStoring \in Collector /\ NotStoring.step = "idle" /\ NotStoring.canon = None
    /\ NotProcessing \in Processor /\ NotProcessing.on = None
    /\ NoRequest \in Operator /\ WellFormed(NoRequest) /\ WorkOf(NoRequest) = {}
    /\ NoRequest.op = "idle" /\ NoRequest.on = None /\ NoRequest.rows = {}
    /\ NoRequest.todo = {} /\ NoRequest.last = None
  <1>1. (CHOOSE c \in Contents : TRUE) \in Contents
    BY EvidenceAssumption
  <1>2. Blank \in Row /\ Blank.life = "none" /\ Blank.content \in Contents
    BY <1>1 DEF Blank, Row
  <1> HIDE DEF Blank
  <1>3. NoRequest \in Operator
    BY <1>2 DEF NoRequest, Operator
  <1>4. /\ NoRequest.op = "idle" /\ NoRequest.on = None /\ NoRequest.rows = {}
        /\ NoRequest.todo = {} /\ NoRequest.last = None
    BY DEF NoRequest
  <1>5. WellFormed(NoRequest) /\ WorkOf(NoRequest) = {}
    BY <1>4 DEF WellFormed, WorkOf, Edits
  <1> QED
    BY <1>2, <1>3, <1>4, <1>5 DEF NotStoring, Collector, NotProcessing, Processor, Reading

LEMMA NoneIsNoItem == None \notin Items
  BY DEF None, Items

\* Changing and Using, in terms of the requests.
LEMMA ChangingIsWork ==
  ASSUME NEW e \in Items
  PROVE  /\ Changing(e) <=> \E o \in Operators : e \in WorkOf(operator[o])
         /\ Erasing(e) => Changing(e)
  BY NoneIsNoItem DEF Changing, WorkOf, Erasing

LEMMA InitEvidenceInv == EvidenceInit => EvidenceInv
  <1> SUFFICES ASSUME EvidenceInit PROVE EvidenceInv
    OBVIOUS
  <1>1. /\ row = [e \in Items |-> Blank] /\ cited = {} /\ dupRefs = {} /\ crossed = {}
        /\ collector = [k \in Collectors |-> NotStoring]
        /\ operator = [o \in Operators |-> NoRequest]
        /\ processor = [p \in Processors |-> NotProcessing]
    BY DEF EvidenceInit
  <1>2. EvidenceTypeOK
    <2> HIDE DEF Blank, NotStoring, NoRequest, NotProcessing
    <2>1. Blank.content \in Contents /\ ops \in 0 .. MaxOps
      BY NothingInHand, EvidenceAssumption DEF Row, EvidenceInit
    <2> QED BY <1>1, <2>1, NothingInHand DEF EvidenceInit, EvidenceTypeOK
  <1>3. RequestsMakeSense
    BY <1>1, NothingInHand DEF RequestsMakeSense
  <1>4. NoClash
    BY <1>1, NothingInHand, NoneIsNoItem DEF NoClash, Edits
  <1>5. ForeignKeys
    BY <1>1, NothingInHand DEF ForeignKeys, Kept
  <1>6. References
    BY <1>1, NothingInHand DEF References, Kept
  <1> QED BY <1>2, <1>3, <1>4, <1>5, <1>6 DEF EvidenceInv

-----------------------------------------------------------------------------
\* The canonical item that a store finds is stored.
LEMMA CanonicalIsStored ==
  ASSUME EvidenceTypeOK, NEW c \in Contents, NEW canon \in CanonicalOf(c)
  PROVE  canon = None \/ (canon \in Items /\ Kept(canon))
  BY DEF CanonicalOf

\* A step that changes no row and no maintenance request, and only crosses
\* more items, keeps what says nothing about the readers.
LEMMA ReadersTouchNothing ==
  ASSUME EvidenceInv,
         UNCHANGED <<backend, row, dupRefs, cited, basis, operator>>,
         crossed \subseteq crossed'
  PROVE  ForeignKeys' /\ References'
  BY DEF EvidenceInv, ForeignKeys, References, Kept, Erasing, OnPostgres, OnDynamo

\* What NoClash says besides the readers.
LEMMA OwnersStand ==
  ASSUME EvidenceInv, UNCHANGED <<row, cited, basis, operator>>,
         crossed \subseteq crossed', NEW e \in Items, e \notin crossed'
  PROVE  /\ \A o, p \in Operators :
              e \in WorkOf(operator'[o]) /\ e \in WorkOf(operator'[p]) => o = p
         /\ \A o \in Operators : operator'[o].op \in Edits /\ operator'[o].on = e =>
              /\ Kept(e)' /\ operator'[o].copy = row'[e]
              /\ operator'[o].op = "edit" => e \notin cited'
  BY DEF EvidenceInv, NoClash, Kept

LEMMA CollectorKeeps ==
  ASSUME EvidenceInv, NEW k \in Collectors, NEW new \in Collector,
         collector' = [collector EXCEPT ![k] = new],
         UNCHANGED <<backend, store, basis, operator, processor, ops, overtaken, edited>>,
         crossed \subseteq crossed', crossed' \subseteq Items,
         new.step = "fallback" => OnDynamo /\ new.canon # None,
         new.canon # None => /\ Kept(new.canon)
                             /\ Changing(new.canon) => new.canon \in crossed'
  PROVE  EvidenceInv'
  <1> USE DEF store
  <1>1. EvidenceTypeOK'
    BY DEF EvidenceInv, EvidenceTypeOK
  <1>2. RequestsMakeSense'
    BY DEF EvidenceInv, EvidenceTypeOK, RequestsMakeSense, OnDynamo
  <1>3. NoClash'
    <2>1. ASSUME NEW e \in Items, e \notin crossed', NEW j \in Collectors, collector'[j].canon = e
          PROVE  Kept(e)' /\ \A o \in Operators : e \notin WorkOf(operator'[o])
      <3>1. CASE j = k
        BY <2>1, <3>1, ChangingIsWork, NoneIsNoItem DEF EvidenceInv, EvidenceTypeOK, Kept
      <3>2. CASE j # k
        BY <2>1, <3>2 DEF EvidenceInv, EvidenceTypeOK, NoClash, Kept
      <3> QED BY <3>1, <3>2
    <2>2. ASSUME NEW e \in Items, e \notin crossed', NEW p \in Processors, processor'[p].on = e
          PROVE  Kept(e)' /\ \A o \in Operators : e \notin WorkOf(operator'[o])
      BY <2>2 DEF EvidenceInv, NoClash, Kept
    <2> QED BY <2>1, <2>2, OwnersStand DEF NoClash
  <1> QED BY <1>1, <1>2, <1>3, ReadersTouchNothing DEF EvidenceInv

LEMMA ProcessorKeeps ==
  ASSUME EvidenceInv, NEW q \in Processors, NEW new \in Processor,
         processor' = [processor EXCEPT ![q] = new],
         UNCHANGED <<backend, store, basis, operator, collector, ops, edited>>,
         crossed \subseteq crossed', crossed' \subseteq Items, overtaken' \subseteq Items,
         new.on # None => Kept(new.on) /\ (Changing(new.on) => new.on \in crossed')
  PROVE  EvidenceInv'
  <1> USE DEF store
  <1>1. EvidenceTypeOK'
    BY DEF EvidenceInv, EvidenceTypeOK
  <1>2. RequestsMakeSense'
    BY DEF EvidenceInv, RequestsMakeSense, OnDynamo
  <1>3. NoClash'
    <2>1. ASSUME NEW e \in Items, e \notin crossed', NEW p \in Processors, processor'[p].on = e
          PROVE  Kept(e)' /\ \A o \in Operators : e \notin WorkOf(operator'[o])
      <3>1. CASE p = q
        BY <2>1, <3>1, ChangingIsWork, NoneIsNoItem DEF EvidenceInv, EvidenceTypeOK, Kept
      <3>2. CASE p # q
        BY <2>1, <3>2 DEF EvidenceInv, EvidenceTypeOK, NoClash, Kept
      <3> QED BY <3>1, <3>2
    <2>2. ASSUME NEW e \in Items, e \notin crossed', NEW j \in Collectors, collector'[j].canon = e
          PROVE  Kept(e)' /\ \A o \in Operators : e \notin WorkOf(operator'[o])
      BY <2>2 DEF EvidenceInv, NoClash, Kept
    <2> QED BY <2>1, <2>2, OwnersStand DEF NoClash
  <1> QED BY <1>1, <1>2, <1>3, ReadersTouchNothing DEF EvidenceInv

LEMMA LookUpKeeps ==
  ASSUME EvidenceInv, NEW k \in Collectors, NEW c \in Contents, LookUp(k, c)
  PROVE  EvidenceInv'
  <1>1. PICK canon \in CanonicalOf(c) :
          /\ collector' = [collector EXCEPT ![k] =
                [step |-> "put", content |-> c, canon |-> canon]]
          /\ crossed' = crossed \cup {e \in Items : e = canon /\ Changing(e)}
    BY DEF LookUp
  <1> DEFINE new == [step |-> "put", content |-> c, canon |-> canon]
  <1>2. canon = None \/ (canon \in Items /\ Kept(canon))
    BY CanonicalIsStored DEF EvidenceInv
  <1>3. new \in Collector /\ new.canon = canon /\ new.step = "put"
    BY <1>2 DEF Collector
  <1>4. crossed \subseteq crossed' /\ crossed' \subseteq Items
    BY <1>1 DEF EvidenceInv, EvidenceTypeOK
  <1>5. collector' = [collector EXCEPT ![k] = new]
    BY <1>1
  <1> HIDE DEF new
  <1> QED BY <1>1, <1>2, <1>3, <1>4, <1>5, CollectorKeeps DEF LookUp

LEMMA StoreRefusedKeeps ==
  ASSUME EvidenceInv, NEW k \in Collectors, StoreRefused(k)
  PROVE  EvidenceInv'
  <1>1. PICK winner \in CanonicalOf(collector[k].content) :
          /\ IF OnDynamo /\ winner # None /\ Fresh # {}
             THEN collector' = [collector EXCEPT ![k].step = "fallback", ![k].canon = winner]
             ELSE collector' = [collector EXCEPT ![k] = NotStoring]
          /\ crossed' = crossed \cup {e \in Items : e = winner /\ Changing(e)}
    BY DEF StoreRefused
  <1>2. winner = None \/ (winner \in Items /\ Kept(winner))
    BY CanonicalIsStored DEF EvidenceInv, EvidenceTypeOK, Collector
  <1>3. crossed \subseteq crossed' /\ crossed' \subseteq Items
    BY <1>1 DEF EvidenceInv, EvidenceTypeOK
  <1>4. CASE OnDynamo /\ winner # None /\ Fresh # {}
    <2> DEFINE new == [collector[k] EXCEPT !.step = "fallback", !.canon = winner]
    <2>1. new \in Collector /\ new.canon = winner
      BY <1>2, <1>4 DEF Collector, EvidenceInv, EvidenceTypeOK
    <2>2. collector' = [collector EXCEPT ![k] = new]
      BY <1>1, <1>4
    <2> HIDE DEF new
    <2> QED BY <1>1, <1>2, <1>3, <1>4, <2>1, <2>2, CollectorKeeps DEF StoreRefused
  <1>5. CASE ~(OnDynamo /\ winner # None /\ Fresh # {})
    BY <1>1, <1>3, <1>5, NothingInHand, CollectorKeeps DEF StoreRefused
  <1> QED BY <1>4, <1>5

LEMMA LoadKeeps ==
  ASSUME EvidenceInv, NEW p \in Processors, NEW e \in Items, LoadEvidence(p, e)
  PROVE  EvidenceInv'
  <1> DEFINE new == [on |-> e, read |-> ReadingOf(e)]
  <1>1. new \in Processor /\ new.on = e
    BY DEF Processor, Reading, ReadingOf, EvidenceInv, EvidenceTypeOK, Row
  <1>2. processor' = [processor EXCEPT ![p] = new]
    BY DEF LoadEvidence
  <1> HIDE DEF new
  <1>3. /\ crossed \subseteq crossed' /\ crossed' \subseteq Items /\ (Changing(e) => e \in crossed')
        /\ overtaken' \subseteq Items
    BY DEF LoadEvidence, EvidenceInv, EvidenceTypeOK
  <1> QED BY <1>1, <1>2, <1>3, ProcessorKeeps DEF LoadEvidence

LEMMA NoCitationKeeps ==
  ASSUME EvidenceInv, NEW p \in Processors, NoCitation(p)
  PROVE  EvidenceInv'
  <1>1. crossed' \subseteq Items /\ crossed' = crossed /\ overtaken' \subseteq Items
    BY DEF NoCitation, ghosts, EvidenceInv, EvidenceTypeOK
  <1> QED BY <1>1, NothingInHand, ProcessorKeeps DEF NoCitation, ghosts

-----------------------------------------------------------------------------
\* A citation of an item that is not crossed finds it stored.
LEMMA CiteKeeps ==
  ASSUME EvidenceInv, NEW p \in Processors, Cite(p)
  PROVE  EvidenceInv'
  <1> DEFINE e == processor[p].on
  <1>1. /\ e \in Items /\ MayCite(e) /\ cited' = cited \cup {e}
        /\ basis' = [basis EXCEPT ![e] = @ \cup {processor[p].read}]
        /\ processor' = [processor EXCEPT ![p] = NotProcessing]
        /\ UNCHANGED <<backend, row, lock, dupRefs, collector, operator, ops,
                       crossed, overtaken, edited>>
    BY DEF Cite, ghosts, EvidenceInv, EvidenceTypeOK, Processor
  <1>2. e \notin crossed => Kept(e) /\ \A o \in Operators : e \notin WorkOf(operator[o])
    BY <1>1 DEF EvidenceInv, NoClash
  <1>3. basis' \in [Items -> SUBSET Reading]
    BY <1>1 DEF EvidenceInv, EvidenceTypeOK, Processor
  <1> HIDE DEF e
  <1>4. EvidenceTypeOK'
    BY <1>1, <1>3, NothingInHand DEF EvidenceInv, EvidenceTypeOK
  <1>5. RequestsMakeSense'
    BY <1>1 DEF EvidenceInv, RequestsMakeSense, OnDynamo
  <1>6. NoClash'
    <2>1. \A q \in Processors : processor'[q].on \in Items => processor'[q] = processor[q]
      BY <1>1, NothingInHand, NoneIsNoItem DEF EvidenceInv, EvidenceTypeOK
    <2>2. ASSUME NEW x \in Items \ crossed
          PROVE  \A o \in Operators : operator[o].op = "edit" /\ operator[o].on = x => x \notin cited'
      <3>1. CASE x = e
        BY <1>1, <1>2, <2>2, <3>1, NoneIsNoItem DEF EvidenceInv, EvidenceTypeOK, NoClash, WorkOf
      <3>2. CASE x # e
        BY <1>1, <2>2, <3>2 DEF EvidenceInv, EvidenceTypeOK, NoClash, Edits
      <3> QED BY <3>1, <3>2
    <2> QED BY <1>1, <2>1, <2>2 DEF EvidenceInv, NoClash, Kept
  <1>7. ForeignKeys'
    BY <1>1 DEF EvidenceInv, ForeignKeys, MayCite, Kept, OnPostgres
  <1>8. References'
    <2>1. e \notin crossed => ~Erasing(e)
      BY <1>1, <1>2, ChangingIsWork
    <2> QED BY <1>1, <1>2, <2>1 DEF EvidenceInv, References, Kept, Erasing, OnDynamo
  <1> QED BY <1>4, <1>5, <1>6, <1>7, <1>8 DEF EvidenceInv

-----------------------------------------------------------------------------
\* Storing an item: its id is new, so no request works on it.
LEMMA InsertKeeps ==
  ASSUME EvidenceInv, NEW k \in Collectors,
         Insert(k, collector[k].canon),
         OnPostgres /\ collector[k].canon # None => Kept(collector[k].canon)
  PROVE  EvidenceInv'
  <1> DEFINE canon == collector[k].canon
             new == [life |-> "stored", content |-> collector[k].content,
                     dupOf |-> canon, raw |-> (canon = None)]
  <1>1. PICK d \in Fresh :
          /\ row' = [row EXCEPT ![d] = new]
          /\ dupRefs' = IF OnDynamo /\ canon # None THEN dupRefs \cup {d} ELSE dupRefs
          /\ lock' = IF OnDynamo /\ canon = None
                     THEN [lock EXCEPT ![collector[k].content] = d] ELSE lock
          /\ collector' = [collector EXCEPT ![k] = NotStoring]
          /\ UNCHANGED <<backend, cited, basis, operator, processor, ops,
                         crossed, overtaken, edited>>
    BY DEF Insert, ghosts
  <1>2. d \in Items /\ row[d].life = "none" /\ ~Kept(d)
    BY DEF Fresh, Kept
  <1>3. /\ canon \in Items \cup {None} /\ new \in Row
        /\ new.life = "stored" /\ new.dupOf = canon
    BY DEF EvidenceInv, EvidenceTypeOK, Collector, Row
  <1>4. canon # None /\ canon \notin crossed => Kept(canon) /\ ~Erasing(canon)
    BY <1>3, ChangingIsWork DEF EvidenceInv, NoClash
  <1> HIDE DEF new, canon
  <1>5. /\ row' \in [Items -> Row] /\ row'[d] = new
        /\ \A e \in Items \ {d} : row'[e] = row[e]
    BY <1>1, <1>2, <1>3 DEF EvidenceInv, EvidenceTypeOK
  <1>6. \A o \in Operators : d \notin WorkOf(operator[o])
    BY <1>2 DEF EvidenceInv, RequestsMakeSense
  <1>7. EvidenceTypeOK'
    <2>1. dupRefs' \subseteq Items
      BY <1>1, <1>2 DEF EvidenceInv, EvidenceTypeOK
    <2>2. lock' \in [Contents -> Items \cup {None}]
      BY <1>1, <1>2 DEF EvidenceInv, EvidenceTypeOK
    <2>3. collector' \in [Collectors -> Collector]
      BY <1>1, NothingInHand DEF EvidenceInv, EvidenceTypeOK
    <2> QED BY <1>1, <1>5, <2>1, <2>2, <2>3 DEF EvidenceInv, EvidenceTypeOK
  <1>8. RequestsMakeSense'
    <2>1. \A o \in Operators : \A e \in WorkOf(operator'[o]) : row'[e].life # "none"
      BY <1>1, <1>3, <1>5 DEF EvidenceInv, EvidenceTypeOK, RequestsMakeSense, Operator, WorkOf
    <2>2. \A x \in dupRefs' : row'[x].life # "none"
      BY <1>1, <1>2, <1>3, <1>5 DEF EvidenceInv, EvidenceTypeOK, RequestsMakeSense
    <2> QED BY <1>1, <2>1, <2>2, NothingInHand
            DEF EvidenceInv, EvidenceTypeOK, RequestsMakeSense, OnDynamo
  <1>9. NoClash'
    <2>1. ASSUME NEW e \in Items, e \notin crossed', NEW j \in Collectors, collector'[j].canon = e
          PROVE  Kept(e)' /\ \A o \in Operators : e \notin WorkOf(operator'[o])
      <3>1. collector[j].canon = e
        BY <1>1, <2>1, NothingInHand, NoneIsNoItem DEF EvidenceInv, EvidenceTypeOK
      <3> QED BY <1>1, <1>2, <1>5, <2>1, <3>1 DEF EvidenceInv, NoClash, Kept
    <2>2. ASSUME NEW e \in Items, e \notin crossed', NEW q \in Processors, processor'[q].on = e
          PROVE  Kept(e)' /\ \A o \in Operators : e \notin WorkOf(operator'[o])
      BY <1>1, <1>2, <1>5, <2>2 DEF EvidenceInv, NoClash, Kept
    <2>3. ASSUME NEW e \in Items, e \notin crossed'
          PROVE  \A o \in Operators : operator'[o].op \in Edits /\ operator'[o].on = e =>
                    /\ Kept(e)' /\ operator'[o].copy = row'[e]
                    /\ operator'[o].op = "edit" => e \notin cited'
      BY <1>1, <1>2, <1>5, <2>3 DEF EvidenceInv, NoClash, Kept
    <2> QED BY <1>1, <2>1, <2>2, <2>3 DEF EvidenceInv, NoClash
  <1>10. ForeignKeys'
    <2>1. \A x \in Items \ {d} : Kept(x)' = Kept(x)
      BY <1>5 DEF Kept
    <2>2. cited' = cited /\ cited \subseteq Items /\ OnPostgres' = OnPostgres
      BY <1>1 DEF EvidenceInv, EvidenceTypeOK, OnPostgres
    <2>3. ASSUME OnPostgres, NEW e \in cited PROVE Kept(e)'
      BY <1>2, <2>1, <2>2, <2>3 DEF EvidenceInv, ForeignKeys
    <2>4. ASSUME OnPostgres, NEW x \in Items, NEW e \in Items, Kept(x)', row'[x].dupOf = e
          PROVE  Kept(e)'
      <3>1. CASE x = d
        BY <1>2, <1>3, <1>5, <2>1, <2>4, <3>1, NoneIsNoItem DEF canon
      <3>2. CASE x # d
        BY <1>2, <1>5, <2>1, <2>4, <3>2 DEF EvidenceInv, ForeignKeys
      <3> QED BY <3>1, <3>2
    <2> QED BY <2>2, <2>3, <2>4 DEF ForeignKeys
  <1>11. References'
    <2>1. /\ cited' = cited /\ crossed' = crossed /\ operator' = operator
          /\ cited \subseteq Items /\ OnDynamo' = OnDynamo
      BY <1>1 DEF EvidenceInv, EvidenceTypeOK, OnDynamo
    <2>2. \A x : Erasing(x)' = Erasing(x)
      BY <2>1 DEF Erasing
    <2>3. \A x \in Items \ {d} : Kept(x)' = Kept(x)
      BY <1>5 DEF Kept
    <2>4. ASSUME OnDynamo, NEW e \in cited, e \notin crossed PROVE Kept(e)' /\ ~Erasing(e)'
      <3>1. Kept(e) /\ ~Erasing(e) /\ e \in Items
        BY <2>1, <2>4 DEF EvidenceInv, References
      <3> QED BY <1>2, <2>2, <2>3, <3>1
    <2>5. ASSUME OnDynamo, NEW x \in Items, x \notin crossed, NEW e \in Items,
                 Kept(x)', row'[x].dupOf = e, ~Erasing(x)'
          PROVE  x \in dupRefs' /\ (e \notin crossed => Kept(e)' /\ ~Erasing(e)')
      <3>1. CASE x = d
        <4>1. canon = e /\ x \in dupRefs'
          BY <1>1, <1>3, <1>5, <2>5, <3>1, NoneIsNoItem
        <4>2. e \notin crossed => Kept(e) /\ ~Erasing(e)
          BY <1>4, <4>1, NoneIsNoItem
        <4> QED BY <1>2, <2>2, <2>3, <4>1, <4>2
      <3>2. CASE x # d
        <4>1. row[x].dupOf = e /\ Kept(x) /\ ~Erasing(x)
          BY <1>5, <2>2, <2>3, <2>5, <3>2
        <4>2. x \in dupRefs /\ (e \notin crossed => Kept(e) /\ ~Erasing(e))
          BY <2>5, <4>1 DEF EvidenceInv, References
        <4> QED BY <1>1, <1>2, <2>2, <2>3, <4>2
      <3> QED BY <3>1, <3>2
    <2>6. ASSUME OnDynamo, NEW o \in Operators, NEW e \in Items, e \notin crossed,
                 operator[o].on = e, operator[o].rows # {}, "meta" \notin operator[o].rows
          PROVE  ~Kept(e)'
      <3>1. e # d
        BY <1>6, <2>6, NoneIsNoItem DEF WorkOf
      <3> QED BY <2>3, <2>6, <3>1 DEF EvidenceInv, References
    <2> QED BY <2>1, <2>4, <2>5, <2>6 DEF References
  <1> QED BY <1>7, <1>8, <1>9, <1>10, <1>11 DEF EvidenceInv

LEMMA StoreKeeps ==
  ASSUME EvidenceInv, NEW k \in Collectors, StoreItem(k) \/ StoreLoser(k)
  PROVE  EvidenceInv'
  <1>1. Insert(k, collector[k].canon)
    BY DEF StoreItem, StoreLoser
  <1>2. OnPostgres /\ collector[k].canon # None => Kept(collector[k].canon)
    BY DEF StoreItem, StoreLoser, MayInsert, EvidenceInv, RequestsMakeSense, OnPostgres, OnDynamo
  <1> QED BY <1>1, <1>2, InsertKeeps

-----------------------------------------------------------------------------
\* A new maintenance request.  The items it shares with another request are
\* crossed from now on.
LEMMA AskKeeps ==
  ASSUME EvidenceInv, NEW o \in Operators, NEW new \in Operator, Ask(o, new),
         WellFormed(new), new.op # "idle",
         \A e \in WorkOf(new) : e \in Items /\ row[e].life # "none",
         new.op \in Edits => Kept(new.on),
         new.op \in Edits => /\ new.copy = row[new.on]
                             /\ new.op = "edit" => ~Protected(new.on),
         new.rows # {} => new.rows = {"meta", "ref"} /\ ~Protected(new.on)
  PROVE  EvidenceInv'
  <1>1. /\ operator[o].op = "idle" /\ operator' = [operator EXCEPT ![o] = new]
        /\ crossed' = crossed \cup {e \in WorkOf(new) : Changing(e) \/ Using(e)}
        /\ ops < MaxOps /\ ops' = ops + 1
        /\ overtaken' = IF new.op = "edit" /\ Processing(new.on)
                        THEN overtaken \cup {new.on} ELSE overtaken
        /\ UNCHANGED <<backend, row, lock, dupRefs, cited, basis, collector, processor, edited>>
    BY DEF Ask, store, WorkOf
  <1>2. /\ operator'[o] = new /\ \A p \in Operators \ {o} : operator'[p] = operator[p]
        /\ WorkOf(operator[o]) = {} /\ operator[o].rows = {}
    BY <1>1 DEF EvidenceInv, EvidenceTypeOK, RequestsMakeSense, WellFormed
  <1>3. ASSUME NEW e \in Items, e \notin crossed', e \in WorkOf(new)
        PROVE  /\ \A p \in Operators : e \notin WorkOf(operator[p])
               /\ \A k \in Collectors : collector[k].canon # e
               /\ \A p \in Processors : processor[p].on # e
    BY <1>1, <1>3, ChangingIsWork DEF Using, Processing
  <1>4. EvidenceTypeOK'
    <2>1. ops' \in 0 .. MaxOps
      BY <1>1, EvidenceAssumption DEF EvidenceInv, EvidenceTypeOK
    <2>2. new.op = "edit" => new.on \in Items
      BY DEF WellFormed, WorkOf, Edits
    <2>3. crossed' \subseteq Items
      BY <1>1 DEF EvidenceInv, EvidenceTypeOK
    <2>4. overtaken' \subseteq Items
      BY <1>1, <2>2 DEF EvidenceInv, EvidenceTypeOK
    <2> QED BY <1>1, <2>1, <2>3, <2>4 DEF EvidenceInv, EvidenceTypeOK
  <1>5. RequestsMakeSense'
    <2>1. \A p \in Operators : /\ WellFormed(operator'[p])
                               /\ \A e \in WorkOf(operator'[p]) : row[e].life # "none"
      BY <1>2 DEF EvidenceInv, RequestsMakeSense
    <2> QED BY <1>1, <2>1 DEF EvidenceInv, RequestsMakeSense, OnDynamo
  <1>6. NoClash'
    <2>1. ASSUME NEW e \in Items, e \notin crossed',
                 NEW p \in Operators, NEW q \in Operators,
                 e \in WorkOf(operator'[p]), e \in WorkOf(operator'[q])
          PROVE  p = q
      BY <1>1, <1>2, <1>3, <2>1 DEF EvidenceInv, NoClash
    <2>2. ASSUME NEW e \in Items, e \notin crossed', NEW k \in Collectors, collector[k].canon = e
          PROVE  Kept(e) /\ \A p \in Operators : e \notin WorkOf(operator'[p])
      BY <1>1, <1>2, <1>3, <2>2 DEF EvidenceInv, NoClash
    <2>3. ASSUME NEW e \in Items, e \notin crossed', NEW q \in Processors, processor[q].on = e
          PROVE  Kept(e) /\ \A p \in Operators : e \notin WorkOf(operator'[p])
      BY <1>1, <1>2, <1>3, <2>3 DEF EvidenceInv, NoClash
    <2>4. ASSUME NEW e \in Items, e \notin crossed',
                 NEW p \in Operators, operator'[p].op \in Edits, operator'[p].on = e
          PROVE  /\ Kept(e) /\ operator'[p].copy = row[e]
                 /\ operator'[p].op = "edit" => e \notin cited
      <3>1. CASE p = o
        BY <1>2, <2>4, <3>1, NoneIsNoItem DEF WorkOf, Protected
      <3>2. CASE p # o
        BY <1>1, <1>2, <2>4, <3>2 DEF EvidenceInv, NoClash
      <3> QED BY <3>1, <3>2
    <2> QED BY <1>1, <2>1, <2>2, <2>3, <2>4 DEF NoClash, Kept
  <1>7. ForeignKeys'
    BY <1>1 DEF EvidenceInv, ForeignKeys, Kept, OnPostgres
  <1>8. References'
    <2>1. \A x : Kept(x)' = Kept(x)
      BY <1>1 DEF Kept
    <2>2. \A x : Erasing(x)' => Erasing(x) \/ (x = new.on /\ new.rows # {})
      BY <1>2 DEF Erasing
    <2>3. \A x : Erasing(x) => Erasing(x)'
      BY <1>1, <1>2 DEF Erasing
    <2>4. ASSUME OnDynamo, NEW e \in cited, e \notin crossed' PROVE Kept(e) /\ ~Erasing(e)'
      <3>1. Kept(e) /\ ~Erasing(e)
        BY <1>1, <2>4 DEF EvidenceInv, References
      <3> QED BY <2>2, <2>4, <3>1 DEF Protected
    <2>5. ASSUME OnDynamo, NEW x \in Items, x \notin crossed', NEW e \in Items,
                 Kept(x), row[x].dupOf = e, ~Erasing(x)'
          PROVE  x \in dupRefs /\ (e \notin crossed' => Kept(e) /\ ~Erasing(e)')
      <3>1. x \in dupRefs /\ (e \notin crossed => Kept(e) /\ ~Erasing(e))
        BY <1>1, <2>3, <2>5 DEF EvidenceInv, References
      <3>2. new.rows # {} => e # new.on
        BY <2>5, <3>1 DEF Protected, OnDynamo, OnPostgres
      <3> QED BY <1>1, <2>2, <3>1, <3>2
    <2>6. ASSUME OnDynamo, NEW p \in Operators, NEW e \in Items, e \notin crossed',
                 operator'[p].on = e, operator'[p].rows # {}, "meta" \notin operator'[p].rows
          PROVE  ~Kept(e)
      BY <1>1, <1>2, <2>6 DEF EvidenceInv, References
    <2> QED BY <1>1, <2>1, <2>4, <2>5, <2>6 DEF References, OnDynamo
  <1> QED BY <1>4, <1>5, <1>6, <1>7, <1>8 DEF EvidenceInv

LEMMA RequestsKeep ==
  ASSUME EvidenceInv, NEW o \in Operators, NEW e \in Items,
         \/ \E op \in Edits, c \in Contents : Reread(o, op, e, c)
         \/ RequestDelete(o, e)
         \/ \E canonicalToo \in BOOLEAN : RequestCleanup(o, e, canonicalToo)
  PROVE  EvidenceInv'
  <1> USE NothingInHand, NoneIsNoItem
  <1> HIDE DEF NoRequest
  <1>1. row[e] \in Row /\ {} \in SUBSET Items
    BY DEF EvidenceInv, EvidenceTypeOK
  <1>2. ASSUME NEW op \in Edits, NEW c \in Contents, Reread(o, op, e, c) PROVE EvidenceInv'
    <2> DEFINE new == [NoRequest EXCEPT !.op = op, !.on = e, !.copy = row[e], !.content = c]
    <2>1. /\ new \in Operator /\ new.op = op /\ new.on = e /\ new.copy = row[e]
          /\ new.rows = {} /\ new.todo = {} /\ new.last = None
      BY <1>1, <1>2 DEF Operator, Edits
    <2>2. Ask(o, new) /\ Kept(e) /\ (op = "edit" => ~Protected(e))
      BY <1>2 DEF Reread
    <2> HIDE DEF new
    <2>3. /\ WellFormed(new) /\ new.op # "idle" /\ WorkOf(new) = {e}
          /\ row[e].life = "stored"
      BY <1>2, <2>1, <2>2 DEF WellFormed, WorkOf, Edits, Kept
    <2> QED BY <2>1, <2>2, <2>3, AskKeeps
  <1>3. ASSUME RequestDelete(o, e) PROVE EvidenceInv'
    <2> DEFINE new == [NoRequest EXCEPT !.op = "delete", !.on = e, !.copy = row[e],
                                        !.rows = {"meta", "ref"}]
    <2>1. /\ new \in Operator /\ new.op = "delete" /\ new.on = e
          /\ new.rows = {"meta", "ref"} /\ new.todo = {} /\ new.last = None
      BY <1>1 DEF Operator
    <2>2. Ask(o, new) /\ Kept(e) /\ ~Protected(e)
      BY <1>3 DEF RequestDelete, Deleting
    <2> HIDE DEF new
    <2>3. /\ WellFormed(new) /\ new.op # "idle" /\ new.op \notin Edits /\ WorkOf(new) = {e}
          /\ row[e].life = "stored"
      BY <2>1, <2>2 DEF WellFormed, WorkOf, Edits, Kept
    <2> QED BY <2>1, <2>2, <2>3, AskKeeps
  <1>4. ASSUME NEW canonicalToo \in BOOLEAN, RequestCleanup(o, e, canonicalToo)
        PROVE  EvidenceInv'
    <2> DEFINE duplicates == IF OnPostgres THEN DuplicatesOf(e)
                             ELSE {d \in dupRefs : row[d].dupOf = e}
               new == [NoRequest EXCEPT !.op = "cleanup",
                           !.todo = {d \in duplicates : ~Protected(d)},
                           !.last = IF canonicalToo THEN e ELSE None]
    <2>1. Ask(o, new) /\ Kept(e)
      BY <1>4 DEF RequestCleanup
    <2>2. duplicates \subseteq Items
      BY DEF DuplicatesOf, EvidenceInv, EvidenceTypeOK
    <2>3. /\ new \in Operator /\ new.op = "cleanup" /\ new.on = None /\ new.rows = {}
          /\ new.todo \subseteq duplicates /\ new.last \in {e, None}
      BY <2>2 DEF Operator
    <2>4. \A d \in duplicates : d \in Items /\ row[d].life # "none"
      BY <2>2 DEF DuplicatesOf, Kept, EvidenceInv, RequestsMakeSense
    <2> HIDE DEF new, duplicates
    <2>5. /\ WellFormed(new) /\ new.op # "idle" /\ new.op \notin Edits
          /\ \A x \in WorkOf(new) : x \in Items /\ row[x].life # "none"
      BY <2>1, <2>3, <2>4 DEF WellFormed, WorkOf, Edits, Kept
    <2> QED BY <2>1, <2>3, <2>5, AskKeeps
  <1> QED BY <1>2, <1>3, <1>4

-----------------------------------------------------------------------------
\* What a write makes of a row.
LEMMA ChangedRow ==
  ASSUME NEW r \in Row, NEW request \in Operator, request.op \in Edits
  PROVE  /\ Changed(r, request) \in Row
         /\ Changed(r, request).life = r.life /\ Changed(r, request).dupOf = r.dupOf
         /\ request.op # "edit" => /\ Changed(r, request).content = r.content
                                   /\ Changed(r, request).raw => r.raw
  <1>1. CASE request.op = "archive"
    BY <1>1 DEF Changed
  <1>2. CASE request.op = "redact"
    BY <1>2 DEF Changed, Row
  <1>3. CASE request.op = "edit"
    BY <1>3 DEF Changed, Row, Operator
  <1> QED BY <1>1, <1>2, <1>3 DEF Edits

\* The row a write leaves: on PostgreSQL and where nothing crossed, it is the
\* row as it was but for the change.
LEMMA WrittenRow ==
  ASSUME EvidenceInv, NEW o \in Operators, WriteBack(o)
  PROVE  LET e == operator[o].on
             new == Changed(Base(o), operator[o])
         IN  /\ e \in Items /\ row' = [row EXCEPT ![e] = new] /\ new \in Row
             /\ new.life = "stored" /\ operator[o].op \in Edits /\ operator[o].rows = {}
             /\ OnPostgres \/ e \notin crossed =>
                  /\ Kept(e) /\ new.dupOf = row[e].dupOf
                  /\ operator[o].op # "edit" => /\ new.content = row[e].content
                                                /\ new.raw => row[e].raw
             /\ e \notin crossed /\ operator[o].op = "edit" => e \notin cited
  <1> DEFINE e == operator[o].on
             new == Changed(Base(o), operator[o])
  <1>1. /\ operator[o].op \in Edits /\ MayUpdate(e) /\ row' = [row EXCEPT ![e] = new]
        /\ operator[o] \in Operator /\ e \in Items \cup {None} /\ operator[o].copy \in Row
    BY DEF WriteBack, Edits, EvidenceInv, EvidenceTypeOK, Operator
  <1>2. e \in Items /\ operator[o].rows = {} /\ operator[o].copy.life = "stored"
    BY <1>1 DEF EvidenceInv, RequestsMakeSense, WellFormed
  <1>3. e \notin crossed => /\ Kept(e) /\ operator[o].copy = row[e]
                            /\ operator[o].op = "edit" => e \notin cited
    BY <1>1, <1>2 DEF EvidenceInv, NoClash
  <1>4. /\ Base(o) \in Row /\ Base(o).life = "stored"
        /\ OnPostgres \/ e \notin crossed => Kept(e) /\ Base(o) = row[e]
    BY <1>1, <1>2, <1>3, BackendAssumption
    DEF Base, MayUpdate, Kept, EvidenceInv, EvidenceTypeOK, OnPostgres, OnDynamo
  <1>5. /\ new \in Row /\ new.life = Base(o).life /\ new.dupOf = Base(o).dupOf
        /\ operator[o].op # "edit" => /\ new.content = Base(o).content
                                      /\ new.raw => Base(o).raw
    BY <1>1, <1>4, ChangedRow
  <1> QED BY <1>1, <1>2, <1>3, <1>4, <1>5

LEMMA WriteBackKeeps ==
  ASSUME EvidenceInv, NEW o \in Operators, WriteBack(o)
  PROVE  EvidenceInv'
  <1> DEFINE e == operator[o].on
             new == Changed(Base(o), operator[o])
  <1>1. /\ e \in Items /\ row' = [row EXCEPT ![e] = new] /\ new \in Row
        /\ new.life = "stored" /\ operator[o].op \in Edits /\ operator[o].rows = {}
        /\ OnPostgres \/ e \notin crossed =>
             Kept(e) /\ new.dupOf = row[e].dupOf
    BY WrittenRow
  <1>2. /\ dupRefs \subseteq dupRefs' /\ dupRefs' \subseteq dupRefs \cup {e}
        /\ edited \subseteq edited' /\ edited' \subseteq edited \cup {e}
        /\ operator' = [operator EXCEPT ![o] = NoRequest]
        /\ UNCHANGED <<backend, lock, cited, basis, collector, processor, ops, crossed, overtaken>>
    BY DEF WriteBack
  <1>3. e \in WorkOf(operator[o])
    BY <1>1, NoneIsNoItem DEF WorkOf
  <1> HIDE DEF e, new
  <1>4. /\ row' \in [Items -> Row] /\ row'[e] = new
        /\ \A x \in Items \ {e} : row'[x] = row[x]
    BY <1>1 DEF EvidenceInv, EvidenceTypeOK
  <1>5. /\ \A x \in Items : Kept(x) => Kept(x)'
        /\ \A x \in Items \ {e} : Kept(x)' = Kept(x)
    BY <1>1, <1>4 DEF Kept
  <1>6. \A x : Erasing(x)' = Erasing(x)
    BY <1>1, <1>2, NothingInHand DEF Erasing, EvidenceInv, EvidenceTypeOK
  <1>7. /\ operator'[o] = NoRequest /\ \A p \in Operators \ {o} : operator'[p] = operator[p]
        /\ \A p \in Operators : WorkOf(operator'[p]) \subseteq WorkOf(operator[p])
    BY <1>2, NothingInHand DEF EvidenceInv, EvidenceTypeOK
  <1>8. EvidenceTypeOK'
    <2>1. dupRefs' \subseteq Items /\ edited' \subseteq Items
      BY <1>1, <1>2 DEF EvidenceInv, EvidenceTypeOK
    <2> QED BY <1>2, <1>4, <2>1, NothingInHand DEF EvidenceInv, EvidenceTypeOK
  <1>9. RequestsMakeSense'
    <2>1. \A x \in Items : row[x].life # "none" => row'[x].life # "none"
      BY <1>1, <1>4
    <2>2. \A p \in Operators : WellFormed(operator'[p])
      BY <1>7, NothingInHand DEF EvidenceInv, RequestsMakeSense
    <2>3. \A p \in Operators : \A x \in WorkOf(operator'[p]) : row'[x].life # "none"
      BY <1>7, <2>1 DEF EvidenceInv, EvidenceTypeOK, RequestsMakeSense, Operator, WorkOf
    <2>4. \A x \in dupRefs' : row'[x].life # "none"
      BY <1>1, <1>2, <1>4, <2>1 DEF EvidenceInv, EvidenceTypeOK, RequestsMakeSense
    <2> QED BY <1>2, <2>2, <2>3, <2>4 DEF EvidenceInv, RequestsMakeSense, OnDynamo
  <1>10. NoClash'
    <2>1. ASSUME NEW x \in Items, x \notin crossed,
                 NEW p \in Operators, NEW q \in Operators,
                 x \in WorkOf(operator'[p]), x \in WorkOf(operator'[q])
          PROVE  p = q
      BY <1>7, <2>1 DEF EvidenceInv, NoClash
    <2>2. ASSUME NEW x \in Items, x \notin crossed, NEW k \in Collectors, collector[k].canon = x
          PROVE  Kept(x)' /\ \A p \in Operators : x \notin WorkOf(operator'[p])
      BY <1>5, <1>7, <2>2 DEF EvidenceInv, NoClash
    <2>3. ASSUME NEW x \in Items, x \notin crossed, NEW q \in Processors, processor[q].on = x
          PROVE  Kept(x)' /\ \A p \in Operators : x \notin WorkOf(operator'[p])
      BY <1>5, <1>7, <2>3 DEF EvidenceInv, NoClash
    <2>4. ASSUME NEW x \in Items, x \notin crossed,
                 NEW p \in Operators, operator'[p].op \in Edits, operator'[p].on = x
          PROVE  /\ Kept(x)' /\ operator'[p].copy = row'[x]
                 /\ operator'[p].op = "edit" => x \notin cited
      <3>1. p # o /\ operator'[p] = operator[p] /\ x \in WorkOf(operator[p])
        BY <1>7, <2>4, NothingInHand, NoneIsNoItem DEF Edits, WorkOf
      <3>2. x # e
        BY <1>3, <2>4, <3>1 DEF EvidenceInv, NoClash
      <3> QED BY <1>4, <1>5, <2>4, <3>1, <3>2 DEF EvidenceInv, NoClash
    <2> QED BY <1>2, <2>1, <2>2, <2>3, <2>4 DEF NoClash
  <1>11. ForeignKeys'
    <2>1. cited \subseteq Items
      BY DEF EvidenceInv, EvidenceTypeOK
    <2>2. ASSUME OnPostgres, NEW d \in Items, NEW x \in Items, Kept(d)', row'[d].dupOf = x
          PROVE  Kept(x)'
      <3>1. Kept(d) /\ row[d].dupOf = x
        BY <1>1, <1>4, <1>5, <2>2
      <3> QED BY <1>5, <2>2, <3>1 DEF EvidenceInv, ForeignKeys
    <2> QED BY <1>2, <1>5, <2>1, <2>2 DEF EvidenceInv, ForeignKeys, OnPostgres
  <1>12. References'
    <2>1. ASSUME OnDynamo, NEW x \in cited, x \notin crossed PROVE Kept(x)' /\ ~Erasing(x)'
      <3>1. x \in Items /\ Kept(x) /\ ~Erasing(x)
        BY <2>1 DEF EvidenceInv, EvidenceTypeOK, References
      <3> QED BY <1>5, <1>6, <3>1
    <2>2. ASSUME OnDynamo, NEW d \in Items, d \notin crossed, NEW x \in Items,
                 Kept(d)', row'[d].dupOf = x, ~Erasing(d)'
          PROVE  d \in dupRefs' /\ (x \notin crossed => Kept(x)' /\ ~Erasing(x)')
      <3>1. Kept(d) /\ row[d].dupOf = x /\ ~Erasing(d)
        BY <1>1, <1>4, <1>5, <1>6, <2>2
      <3>2. d \in dupRefs /\ (x \notin crossed => Kept(x) /\ ~Erasing(x))
        BY <2>2, <3>1 DEF EvidenceInv, References
      <3> QED BY <1>2, <1>5, <1>6, <3>2
    <2>3. ASSUME OnDynamo, NEW p \in Operators, NEW x \in Items, x \notin crossed,
                 operator'[p].on = x, operator'[p].rows # {}, "meta" \notin operator'[p].rows
          PROVE  ~Kept(x)'
      <3>1. p # o /\ operator'[p] = operator[p] /\ x \in WorkOf(operator[p])
        BY <1>7, <2>3, NothingInHand, NoneIsNoItem DEF WorkOf
      <3>2. x # e
        BY <1>3, <2>3, <3>1 DEF EvidenceInv, NoClash
      <3> QED BY <1>5, <2>3, <3>1, <3>2 DEF EvidenceInv, References
    <2> QED BY <1>2, <2>1, <2>2, <2>3 DEF References, OnDynamo
  <1> QED BY <1>8, <1>9, <1>10, <1>11, <1>12 DEF EvidenceInv

-----------------------------------------------------------------------------
\* A maintenance request that moves on, or stops, without touching a row.
LEMMA MovingOnKeeps ==
  ASSUME EvidenceInv, NEW o \in Operators, NEW new \in Operator,
         operator' = [operator EXCEPT ![o] = new],
         UNCHANGED <<backend, store, basis, collector, processor, ops, overtaken, edited>>,
         crossed \subseteq crossed', crossed' \subseteq Items,
         WellFormed(new), new.op \notin Edits, WorkOf(new) \subseteq WorkOf(operator[o]),
         new.rows # {} => /\ new.rows = {"meta", "ref"} /\ ~Protected(new.on)
                          /\ operator[o].rows = {},
         operator[o].rows # {} => OnPostgres \/ operator[o].on \in crossed'
  PROVE  EvidenceInv'
  <1>1. /\ operator'[o] = new /\ \A p \in Operators \ {o} : operator'[p] = operator[p]
        /\ \A p \in Operators : WorkOf(operator'[p]) \subseteq WorkOf(operator[p])
        /\ \A p \in Operators : operator'[p].op \in Edits => operator'[p] = operator[p]
    BY DEF EvidenceInv, EvidenceTypeOK
  <1>2. UNCHANGED <<row, dupRefs, cited>>
    BY DEF store
  <1>3. EvidenceTypeOK'
    BY DEF EvidenceInv, EvidenceTypeOK, store
  <1>4. RequestsMakeSense'
    <2>1. \A p \in Operators : WellFormed(operator'[p])
      BY <1>1 DEF EvidenceInv, RequestsMakeSense
    <2>2. \A p \in Operators : \A x \in WorkOf(operator'[p]) : row[x].life # "none"
      BY <1>1 DEF EvidenceInv, RequestsMakeSense
    <2> QED BY <1>2, <2>1, <2>2 DEF EvidenceInv, RequestsMakeSense, OnDynamo
  <1>5. NoClash'
    BY <1>1, <1>2 DEF EvidenceInv, NoClash, Kept
  <1>6. ForeignKeys'
    BY <1>2 DEF EvidenceInv, ForeignKeys, Kept, OnPostgres
  <1>7. References'
    <2>1. \A x : Kept(x)' = Kept(x)
      BY <1>2 DEF Kept
    <2>2. \A x : Erasing(x)' => Erasing(x) \/ (x = new.on /\ new.rows # {})
      BY <1>1 DEF Erasing
    <2>3. ASSUME OnDynamo, NEW x, x \notin crossed', Erasing(x) PROVE Erasing(x)'
      BY <1>1, <2>3 DEF Erasing, OnDynamo, OnPostgres
    <2>4. ASSUME OnDynamo, NEW e \in cited, e \notin crossed' PROVE Kept(e) /\ ~Erasing(e)'
      <3>1. Kept(e) /\ ~Erasing(e)
        BY <2>4 DEF EvidenceInv, References
      <3> QED BY <2>2, <2>4, <3>1 DEF Protected
    <2>5. ASSUME OnDynamo, NEW x \in Items, x \notin crossed', NEW e \in Items,
                 Kept(x), row[x].dupOf = e, ~Erasing(x)'
          PROVE  x \in dupRefs /\ (e \notin crossed' => Kept(e) /\ ~Erasing(e)')
      <3>1. x \in dupRefs /\ (e \notin crossed => Kept(e) /\ ~Erasing(e))
        BY <2>3, <2>5 DEF EvidenceInv, References
      <3>2. new.rows # {} => e # new.on
        BY <2>5, <3>1 DEF Protected, OnDynamo, OnPostgres
      <3> QED BY <2>2, <3>1, <3>2
    <2>6. ASSUME OnDynamo, NEW p \in Operators, NEW e \in Items, e \notin crossed',
                 operator'[p].on = e, operator'[p].rows # {}, "meta" \notin operator'[p].rows
          PROVE  ~Kept(e)
      BY <1>1, <2>6 DEF EvidenceInv, References
    <2> QED BY <1>2, <2>1, <2>4, <2>5, <2>6 DEF References, OnDynamo
  <1> QED BY <1>3, <1>4, <1>5, <1>6, <1>7 DEF EvidenceInv

LEMMA StopKeeps ==
  ASSUME EvidenceInv, NEW o \in Operators, Stop(o)
  PROVE  EvidenceInv'
  <1>1. operator[o].rows # {} => operator[o].on \in Items
    BY DEF EvidenceInv, EvidenceTypeOK, RequestsMakeSense, WellFormed, Operator
  <1>2. /\ crossed \subseteq crossed' /\ crossed' \subseteq Items
        /\ operator[o].rows # {} => OnPostgres \/ operator[o].on \in crossed'
    BY <1>1 DEF Stop, EvidenceInv, EvidenceTypeOK
  <1>3. /\ operator' = [operator EXCEPT ![o] = NoRequest] /\ NoRequest.op \notin Edits
        /\ UNCHANGED <<backend, store, basis, collector, processor, ops, overtaken, edited>>
    BY NothingInHand DEF Stop, Edits
  <1> HIDE DEF NoRequest
  <1> QED BY <1>2, <1>3, NothingInHand, MovingOnKeeps

LEMMA NextVictimKeeps ==
  ASSUME EvidenceInv, NEW o \in Operators, NextVictim(o)
  PROVE  EvidenceInv'
  <1>1. PICK e \in operator[o].todo \cup {operator[o].last} :
          /\ e # None /\ Kept(e) /\ ~Protected(e)
          /\ operator' = [operator EXCEPT ![o] =
                [operator[o] EXCEPT !.on = e, !.copy = row[e], !.rows = {"meta", "ref"},
                          !.todo = operator[o].todo \ {e},
                          !.last = IF operator[o].last = e THEN None ELSE operator[o].last]]
    BY DEF NextVictim
  <1>2. /\ operator[o] \in Operator /\ operator[o].op = "cleanup" /\ operator[o].rows = {}
        /\ e \in Items /\ row[e] \in Row
    BY <1>1 DEF NextVictim, EvidenceInv, EvidenceTypeOK, Operator
  <1> DEFINE new == [operator[o] EXCEPT !.on = e, !.copy = row[e], !.rows = {"meta", "ref"},
                          !.todo = operator[o].todo \ {e},
                          !.last = IF operator[o].last = e THEN None ELSE operator[o].last]
  <1>3. /\ new \in Operator /\ new.op = "cleanup" /\ new.on = e /\ new.rows = {"meta", "ref"}
        /\ new.todo \subseteq operator[o].todo /\ new.last \in {operator[o].last, None}
    BY <1>2 DEF Operator
  <1>4. operator' = [operator EXCEPT ![o] = new]
    BY <1>1
  <1> HIDE DEF new
  <1>5. WellFormed(new) /\ new.op \notin Edits /\ WorkOf(new) \subseteq WorkOf(operator[o])
    BY <1>1, <1>3 DEF WellFormed, WorkOf, Edits
  <1>6. crossed' = crossed /\ crossed \subseteq Items
    BY DEF NextVictim, ghosts, EvidenceInv, EvidenceTypeOK
  <1> QED BY <1>1, <1>2, <1>3, <1>4, <1>5, <1>6, MovingOnKeeps DEF NextVictim, ghosts

-----------------------------------------------------------------------------
\* A PostgreSQL deletion: the foreign keys refuse one that leaves a citation
\* or a duplicate behind.
LEMMA DeleteRowsKeeps ==
  ASSUME EvidenceInv, NEW o \in Operators, DeleteRows(o)
  PROVE  EvidenceInv'
  <1> DEFINE gone == Victims(o)
  <1>1. /\ OnPostgres /\ ~Restricted(gone)
        /\ row' = [e \in Items |-> IF e \in gone THEN [row[e] EXCEPT !.life = "gone"] ELSE row[e]]
        /\ operator' = [operator EXCEPT ![o] = NoRequest]
        /\ UNCHANGED <<backend, lock, dupRefs, cited, basis, collector, processor, ops,
                       crossed, overtaken, edited>>
    BY DEF DeleteRows, ghosts
  <1>2. gone \subseteq WorkOf(operator[o])
    <2>1. /\ None \notin operator[o].todo
          /\ operator[o].op = "delete" => operator[o].on # None
      BY NoneIsNoItem DEF EvidenceInv, EvidenceTypeOK, Operator, RequestsMakeSense, WellFormed
    <2>2. CASE operator[o].op = "delete"
      BY <2>1, <2>2 DEF Victims, WorkOf
    <2>3. CASE operator[o].op # "delete"
      BY <2>1, <2>3 DEF Victims, WorkOf
    <2> QED BY <2>2, <2>3
  <1> HIDE DEF gone
  <1>3. /\ row' \in [Items -> Row]
        /\ \A x \in Items : row'[x].dupOf = row[x].dupOf /\ row'[x].content = row[x].content
        /\ \A x \in Items : row[x].life # "none" => row'[x].life # "none"
        /\ \A x \in Items : Kept(x)' => Kept(x) /\ x \notin gone
        /\ \A x \in Items \ gone : row'[x] = row[x] /\ Kept(x)' = Kept(x)
    BY <1>1 DEF EvidenceInv, EvidenceTypeOK, Row, Kept
  <1>4. /\ operator'[o] = NoRequest /\ \A p \in Operators \ {o} : operator'[p] = operator[p]
        /\ \A p \in Operators : WorkOf(operator'[p]) \subseteq WorkOf(operator[p])
    BY <1>1, NothingInHand DEF EvidenceInv, EvidenceTypeOK
  <1>5. EvidenceTypeOK'
    BY <1>1, <1>3, NothingInHand DEF EvidenceInv, EvidenceTypeOK
  <1>6. RequestsMakeSense'
    <2>1. \A p \in Operators : WellFormed(operator'[p])
      BY <1>4, NothingInHand DEF EvidenceInv, RequestsMakeSense
    <2>2. \A p \in Operators : \A x \in WorkOf(operator'[p]) : row'[x].life # "none"
      BY <1>3, <1>4 DEF EvidenceInv, EvidenceTypeOK, RequestsMakeSense, Operator, WorkOf
    <2>3. \A x \in dupRefs' : row'[x].life # "none"
      BY <1>1, <1>3 DEF EvidenceInv, EvidenceTypeOK, RequestsMakeSense
    <2> QED BY <1>1, <2>1, <2>2, <2>3 DEF EvidenceInv, RequestsMakeSense, OnDynamo
  <1>7. NoClash'
    <2>1. ASSUME NEW x \in Items, x \notin crossed,
                 NEW p \in Operators, NEW q \in Operators,
                 x \in WorkOf(operator'[p]), x \in WorkOf(operator'[q])
          PROVE  p = q
      BY <1>4, <2>1 DEF EvidenceInv, NoClash
    <2>2. ASSUME NEW x \in Items, x \notin crossed, NEW k \in Collectors, collector[k].canon = x
          PROVE  Kept(x)' /\ \A p \in Operators : x \notin WorkOf(operator'[p])
      <3>1. Kept(x) /\ \A p \in Operators : x \notin WorkOf(operator[p])
        BY <2>2 DEF EvidenceInv, NoClash
      <3> QED BY <1>2, <1>3, <1>4, <3>1
    <2>3. ASSUME NEW x \in Items, x \notin crossed, NEW q \in Processors, processor[q].on = x
          PROVE  Kept(x)' /\ \A p \in Operators : x \notin WorkOf(operator'[p])
      <3>1. Kept(x) /\ \A p \in Operators : x \notin WorkOf(operator[p])
        BY <2>3 DEF EvidenceInv, NoClash
      <3> QED BY <1>2, <1>3, <1>4, <3>1
    <2>4. ASSUME NEW x \in Items, x \notin crossed,
                 NEW p \in Operators, operator'[p].op \in Edits, operator'[p].on = x
          PROVE  /\ Kept(x)' /\ operator'[p].copy = row'[x]
                 /\ operator'[p].op = "edit" => x \notin cited
      <3>1. p # o /\ operator'[p] = operator[p] /\ x \in WorkOf(operator[p])
        BY <1>4, <2>4, NothingInHand, NoneIsNoItem DEF Edits, WorkOf
      <3>2. x \notin gone
        BY <1>2, <2>4, <3>1 DEF EvidenceInv, NoClash
      <3> QED BY <1>3, <2>4, <3>1, <3>2 DEF EvidenceInv, NoClash
    <2> QED BY <1>1, <2>1, <2>2, <2>3, <2>4 DEF NoClash
  <1>8. ForeignKeys'
    <2>1. ASSUME NEW e \in cited PROVE Kept(e)'
      <3>1. e \in Items /\ Kept(e) /\ e \notin gone
        BY <1>1, <2>1 DEF EvidenceInv, EvidenceTypeOK, ForeignKeys, Restricted
      <3> QED BY <1>3, <3>1
    <2>2. ASSUME NEW d \in Items, NEW x \in Items, Kept(d)', row'[d].dupOf = x PROVE Kept(x)'
      <3>1. Kept(d) /\ d \notin gone /\ row[d].dupOf = x
        BY <1>3, <2>2
      <3>2. Kept(x) /\ x \notin gone
        BY <1>1, <3>1 DEF EvidenceInv, ForeignKeys, Restricted, DuplicatesOf
      <3> QED BY <1>3, <3>2
    <2>3. cited' = cited
      BY <1>1
    <2> QED BY <2>1, <2>2, <2>3 DEF ForeignKeys
  <1>9. References'
    <2>1. ~OnDynamo'
      BY <1>1 DEF OnPostgres, OnDynamo
    <2> QED BY <2>1 DEF References
  <1> QED BY <1>5, <1>6, <1>7, <1>8, <1>9 DEF EvidenceInv

-----------------------------------------------------------------------------
\* One row of a DynamoDB deletion goes.  An item that is not crossed is gone
\* when its deletion has ended.
LEMMA EraseKeeps ==
  ASSUME EvidenceInv, NEW o \in Operators, NEW part \in {"meta", "ref"}, Erase(o, part)
  PROVE  EvidenceInv'
  <1> DEFINE old == operator[o]
             left == old.rows \ {part}
             new == IF left = {} /\ old.todo = {} /\ old.last = None THEN NoRequest
                    ELSE [old EXCEPT !.rows = left, !.on = IF left = {} THEN None ELSE old.on]
  <1>0. PICK e \in Items : e = operator[o].on
    BY DEF Erase, EvidenceInv, EvidenceTypeOK, Operator, RequestsMakeSense, WellFormed
  <1>1. /\ OnDynamo /\ part \in old.rows
        /\ row' = IF part = "meta" THEN [row EXCEPT ![e].life = "gone"] ELSE row
        /\ dupRefs' \subseteq dupRefs /\ dupRefs \ {e} \subseteq dupRefs'
        /\ UNCHANGED <<backend, cited, basis, collector, processor, ops,
                       crossed, overtaken, edited>>
    BY <1>0 DEF Erase, ghosts
  <1>2. old \in Operator /\ WellFormed(old)
    BY DEF EvidenceInv, EvidenceTypeOK, RequestsMakeSense
  <1>3. /\ e \in Items /\ e \in WorkOf(old) /\ Erasing(e) /\ old.op \notin Edits
    BY <1>0, <1>1, <1>2, NoneIsNoItem DEF Operator, WellFormed, WorkOf, Erasing, Edits
  <1>4. operator' = [operator EXCEPT ![o] = new]
    BY DEF Erase
  <1>5. /\ new \in Operator /\ WorkOf(new) \subseteq WorkOf(old) /\ new.op \notin Edits
        /\ new.rows = left \/ (new.rows = {} /\ left = {})
        /\ new.rows # {} => new.on = e
    <2> HIDE DEF NoRequest
    <2>1. CASE left = {} /\ old.todo = {} /\ old.last = None
      BY <2>1, NothingInHand DEF Edits
    <2>2. CASE ~(left = {} /\ old.todo = {} /\ old.last = None)
      BY <1>0, <1>2, <1>3, <2>2 DEF Operator, WorkOf, Edits
    <2> QED BY <2>1, <2>2
  <1>6. WellFormed(new)
    <2> HIDE DEF NoRequest
    <2>1. CASE left = {} /\ old.todo = {} /\ old.last = None
      BY <2>1, NothingInHand
    <2>2. CASE ~(left = {} /\ old.todo = {} /\ old.last = None)
      BY <1>0, <1>1, <1>2, <1>3, <2>2 DEF Operator, WellFormed, WorkOf, Edits
    <2> QED BY <2>1, <2>2
  <1>7. lock' \in [Contents -> Items \cup {None}]
    BY <1>2 DEF Erase, EvidenceInv, EvidenceTypeOK, Operator, Row
  <1>8. left = old.rows \ {part}
    OBVIOUS
  <1>9. e = operator[o].on /\ old = operator[o]
    BY <1>0
  <1> HIDE DEF old, left, new
  <1>10. /\ row' \in [Items -> Row]
         /\ \A x \in Items : row'[x].content = row[x].content
         /\ \A x \in Items : row[x].life # "none" => row'[x].life # "none"
         /\ \A x \in Items \ {e} : row'[x] = row[x] /\ Kept(x)' = Kept(x)
         /\ part = "meta" => ~Kept(e)'
         /\ Kept(e)' => Kept(e)
    BY <1>1, <1>3 DEF EvidenceInv, EvidenceTypeOK, Row, Kept
  <1>11. /\ operator'[o] = new /\ \A p \in Operators \ {o} : operator'[p] = operator[p]
         /\ \A p \in Operators : WorkOf(operator'[p]) \subseteq WorkOf(operator[p])
    BY <1>4, <1>5, <1>9 DEF EvidenceInv, EvidenceTypeOK
  <1>12. EvidenceTypeOK'
    <2>1. dupRefs' \subseteq Items
      BY <1>1 DEF EvidenceInv, EvidenceTypeOK
    <2> QED BY <1>1, <1>4, <1>5, <1>7, <1>10, <2>1 DEF EvidenceInv, EvidenceTypeOK
  <1>13. RequestsMakeSense'
    <2>1. \A p \in Operators : WellFormed(operator'[p])
      BY <1>6, <1>11 DEF EvidenceInv, RequestsMakeSense
    <2>2. \A p \in Operators : \A x \in WorkOf(operator'[p]) : row'[x].life # "none"
      BY <1>10, <1>11 DEF EvidenceInv, EvidenceTypeOK, RequestsMakeSense, Operator, WorkOf
    <2>3. \A x \in dupRefs' : row'[x].life # "none"
      BY <1>1, <1>10 DEF EvidenceInv, EvidenceTypeOK, RequestsMakeSense
    <2> QED BY <1>1, <2>1, <2>2, <2>3 DEF EvidenceInv, RequestsMakeSense, OnDynamo
  <1>14. NoClash'
    <2>1. ASSUME NEW x \in Items, x \notin crossed,
                 NEW p \in Operators, NEW q \in Operators,
                 x \in WorkOf(operator'[p]), x \in WorkOf(operator'[q])
          PROVE  p = q
      BY <1>11, <2>1 DEF EvidenceInv, NoClash
    <2>2. ASSUME NEW x \in Items, x \notin crossed, NEW k \in Collectors, collector[k].canon = x
          PROVE  Kept(x)' /\ \A p \in Operators : x \notin WorkOf(operator'[p])
      <3>1. Kept(x) /\ \A p \in Operators : x \notin WorkOf(operator[p])
        BY <2>2 DEF EvidenceInv, NoClash
      <3> QED BY <1>3, <1>9, <1>10, <1>11, <3>1
    <2>3. ASSUME NEW x \in Items, x \notin crossed, NEW q \in Processors, processor[q].on = x
          PROVE  Kept(x)' /\ \A p \in Operators : x \notin WorkOf(operator'[p])
      <3>1. Kept(x) /\ \A p \in Operators : x \notin WorkOf(operator[p])
        BY <2>3 DEF EvidenceInv, NoClash
      <3> QED BY <1>3, <1>9, <1>10, <1>11, <3>1
    <2>4. ASSUME NEW x \in Items, x \notin crossed,
                 NEW p \in Operators, operator'[p].op \in Edits, operator'[p].on = x
          PROVE  /\ Kept(x)' /\ operator'[p].copy = row'[x]
                 /\ operator'[p].op = "edit" => x \notin cited
      <3>1. p # o /\ operator'[p] = operator[p] /\ x \in WorkOf(operator[p])
        BY <1>5, <1>11, <2>4, NoneIsNoItem DEF WorkOf
      <3>2. x # e
        BY <1>3, <1>9, <2>4, <3>1 DEF EvidenceInv, NoClash
      <3> QED BY <1>10, <2>4, <3>1, <3>2 DEF EvidenceInv, NoClash
    <2> QED BY <1>1, <2>1, <2>2, <2>3, <2>4 DEF NoClash
  <1>15. ForeignKeys'
    <2>1. ~OnPostgres'
      BY <1>1 DEF OnPostgres, OnDynamo
    <2> QED BY <2>1 DEF ForeignKeys
  <1>16. References'
    <2>1. \A x : Erasing(x)' => Erasing(x)
      BY <1>1, <1>5, <1>9, <1>11 DEF Erasing
    <2>2. \A x : Erasing(x) /\ x # e => Erasing(x)'
      BY <1>9, <1>11 DEF Erasing
    <2>3. e \notin crossed /\ "meta" \notin old.rows => ~Kept(e)
      BY <1>1, <1>3, <1>9 DEF EvidenceInv, References
    <2>4. e \notin crossed /\ Kept(e)' => Erasing(e)'
      <3>1. SUFFICES ASSUME e \notin crossed, Kept(e)' PROVE new.rows # {} /\ new.on = e
        BY <1>11 DEF Erasing
      <3>2. part = "ref" /\ "meta" \in old.rows
        BY <1>10, <2>3, <3>1
      <3> QED BY <1>5, <1>8, <3>2
    <2>5. ASSUME NEW x \in cited, x \notin crossed PROVE Kept(x)' /\ ~Erasing(x)'
      <3>1. x \in Items /\ Kept(x) /\ ~Erasing(x)
        BY <1>1, <2>5 DEF EvidenceInv, EvidenceTypeOK, References
      <3> QED BY <1>3, <1>10, <2>1, <3>1
    <2>6. ASSUME NEW d \in Items, d \notin crossed, NEW x \in Items,
                 Kept(d)', row'[d].dupOf = x, ~Erasing(d)'
          PROVE  d \in dupRefs' /\ (x \notin crossed => Kept(x)' /\ ~Erasing(x)')
      <3>1. d # e /\ Kept(d) /\ row[d].dupOf = x /\ ~Erasing(d)
        BY <1>10, <2>2, <2>4, <2>6
      <3>2. d \in dupRefs /\ (x \notin crossed => Kept(x) /\ ~Erasing(x))
        BY <1>1, <2>6, <3>1 DEF EvidenceInv, References
      <3> QED BY <1>1, <1>3, <1>10, <2>1, <3>1, <3>2
    <2>7. ASSUME NEW p \in Operators, NEW x \in Items, x \notin crossed,
                 operator'[p].on = x, operator'[p].rows # {}, "meta" \notin operator'[p].rows
          PROVE  ~Kept(x)'
      <3>1. CASE p = o
        <4>1. x = e /\ "meta" \notin left
          BY <1>5, <1>11, <2>7, <3>1
        <4> QED BY <1>8, <1>10, <2>3, <2>7, <4>1
      <3>2. CASE p # o
        <4>1. operator'[p] = operator[p] /\ x \in WorkOf(operator[p])
          BY <1>11, <2>7, <3>2, NoneIsNoItem DEF WorkOf
        <4>2. x # e
          BY <1>3, <1>9, <2>7, <3>2, <4>1 DEF EvidenceInv, NoClash
        <4> QED BY <1>1, <1>10, <2>7, <4>1, <4>2 DEF EvidenceInv, References
      <3> QED BY <3>1, <3>2
    <2> QED BY <1>1, <2>5, <2>6, <2>7 DEF References
  <1> QED BY <1>12, <1>13, <1>14, <1>15, <1>16 DEF EvidenceInv

-----------------------------------------------------------------------------
LEMMA AlwaysEvidenceInv == EvidenceSpec => []EvidenceInv
  <1>1. EvidenceInv /\ [EvidenceNext]_evidenceVars => EvidenceInv'
    <2> SUFFICES ASSUME EvidenceInv, [EvidenceNext]_evidenceVars PROVE EvidenceInv'
      OBVIOUS
    <2>1. CASE UNCHANGED evidenceVars
      BY <2>1 DEF evidenceVars, store, actors, ghosts, EvidenceInv, EvidenceTypeOK, RequestsMakeSense,
                  NoClash, ForeignKeys, References, Kept, Erasing, OnPostgres, OnDynamo
    <2>2. ASSUME NEW k \in Collectors,
                 \/ \E c \in Contents : LookUp(k, c)
                 \/ StoreItem(k) \/ StoreLoser(k) \/ StoreRefused(k)
          PROVE  EvidenceInv'
      BY <2>2, LookUpKeeps, StoreKeeps, StoreRefusedKeeps
    <2>3. ASSUME NEW p \in Processors,
                 (\E e \in Items : LoadEvidence(p, e)) \/ Cite(p) \/ NoCitation(p)
          PROVE  EvidenceInv'
      BY <2>3, LoadKeeps, CiteKeeps, NoCitationKeeps
    <2>4. ASSUME NEW o \in Operators, NEW e \in Items,
                 \/ \E op \in Edits, c \in Contents : Reread(o, op, e, c)
                 \/ RequestDelete(o, e)
                 \/ \E canonicalToo \in BOOLEAN : RequestCleanup(o, e, canonicalToo)
          PROVE  EvidenceInv'
      BY <2>4, RequestsKeep
    <2>5. ASSUME NEW o \in Operators,
                 \/ WriteBack(o) \/ DeleteRows(o) \/ NextVictim(o)
                 \/ \E part \in {"meta", "ref"} : Erase(o, part)
                 \/ Stop(o)
          PROVE  EvidenceInv'
      BY <2>5, WriteBackKeeps, DeleteRowsKeeps, NextVictimKeeps, EraseKeeps, StopKeeps
    <2> QED BY <2>1, <2>2, <2>3, <2>4, <2>5 DEF EvidenceNext, Edits
  <1> QED BY <1>1, InitEvidenceInv, PTL DEF EvidenceSpec

\* However stores, deletions and cleanups overlap, a stored duplicate refers
\* to a stored item: always on PostgreSQL, and on DynamoDB where no two
\* requests worked on either item at once.
THEOREM DuplicatesKeepTheirCanonical == EvidenceSpec => []DuplicatesHaveCanonical
  <1>1. EvidenceInv => DuplicatesHaveCanonical
    <2> SUFFICES ASSUME EvidenceInv, NEW d \in Items, Kept(d), row[d].dupOf # None,
                        Guarded(row[d].dupOf),
                        OnPostgres \/ (d \notin crossed /\ ~Changing(d))
                 PROVE  Kept(row[d].dupOf)
      BY DEF DuplicatesHaveCanonical
    <2>1. row[d].dupOf \in Items
      BY DEF EvidenceInv, EvidenceTypeOK, Row
    <2>2. CASE OnPostgres
      BY <2>1, <2>2 DEF EvidenceInv, ForeignKeys
    <2>3. CASE OnDynamo
      BY <2>1, <2>3, ChangingIsWork DEF EvidenceInv, References, Guarded, OnPostgres, OnDynamo
    <2> QED BY <2>2, <2>3, BackendAssumption DEF EvidenceInv, EvidenceTypeOK, OnPostgres, OnDynamo
  <1> QED BY <1>1, AlwaysEvidenceInv, PTL

-----------------------------------------------------------------------------
(***************************************************************************)
(* Readings.  An edit is the only request that may replace a text, and it  *)
(* finds no citation when it begins.  Where it did not overlap a           *)
(* processing, there is none when it writes either, so what was read of an *)
(* item is still what the item says, or was redacted.                      *)
(***************************************************************************)
\* Only a cited item has readings, and only an item that was stored is cited
\* or processed.
ReadingsHaveItems ==
    \A e \in Items :
        /\ e \notin cited => basis[e] = {}
        /\ row[e].life = "none" => e \notin cited /\ ~Processing(e)

ReadingsStand ==
    \A e \in Items : Steady(e) =>
        /\ \A p \in Processors : processor[p].on = e => AsRead(e, processor[p].read)
        /\ \A reading \in basis[e] : AsRead(e, reading)
        /\ Editing(e) => e \notin cited /\ ~Processing(e)

ReadingInv == EvidenceInv /\ ReadingsHaveItems /\ ReadingsStand

LEMMA InitReadingInv == EvidenceInit => ReadingInv
  <1> SUFFICES ASSUME EvidenceInit PROVE ReadingInv
    OBVIOUS
  <1>1. /\ cited = {} /\ basis = [e \in Items |-> {}]
        /\ operator = [o \in Operators |-> NoRequest]
        /\ processor = [p \in Processors |-> NotProcessing]
    BY DEF EvidenceInit
  <1>2. ReadingsHaveItems /\ ReadingsStand
    BY <1>1, NothingInHand, NoneIsNoItem
    DEF ReadingsHaveItems, ReadingsStand, Processing, Editing
  <1> QED BY <1>2, InitEvidenceInv DEF ReadingInv

\* A step that leaves the text of what was read of an item, or removes it,
\* and begins no edit of an item that is cited or processed.
LEMMA TextKept ==
  ASSUME ReadingInv, UNCHANGED <<cited, basis, processor>>,
         \A e \in Items :
            /\ row'[e].life = "none" => row[e].life = "none"
            /\ Steady(e)' =>
                 /\ Steady(e)
                 /\ e \in cited \/ Processing(e) =>
                      /\ row'[e].content = row[e].content
                      /\ row'[e].raw => row[e].raw
                      /\ Editing(e)' => Editing(e)
  PROVE  ReadingsHaveItems' /\ ReadingsStand'
  <1>1. \A e : Processing(e)' = Processing(e)
    BY DEF Processing
  <1>2. ReadingsHaveItems'
    BY <1>1 DEF ReadingInv, ReadingsHaveItems
  <1>3. ASSUME NEW e \in Items, Steady(e)', NEW reading, AsRead(e, reading),
               e \in cited \/ Processing(e)
        PROVE  AsRead(e, reading)'
    BY <1>3 DEF AsRead
  <1>4. ASSUME NEW e \in Items, Steady(e)', NEW p \in Processors, processor'[p].on = e
        PROVE  AsRead(e, processor[p].read)'
    <2>1. Processing(e) /\ AsRead(e, processor[p].read)
      BY <1>4 DEF Processing, ReadingInv, ReadingsStand
    <2> QED BY <1>4, <2>1 DEF AsRead
  <1>5. ASSUME NEW e \in Items, Steady(e)', NEW reading \in basis[e]
        PROVE  AsRead(e, reading)'
    <2>1. e \in cited /\ AsRead(e, reading)
      BY <1>5 DEF ReadingInv, ReadingsHaveItems, ReadingsStand
    <2> QED BY <1>3, <1>5, <2>1
  <1>6. ASSUME NEW e \in Items, Steady(e)', Editing(e)'
        PROVE  e \notin cited /\ ~Processing(e)
    BY <1>6 DEF ReadingInv, ReadingsStand
  <1>7. ReadingsStand'
    BY <1>1, <1>4, <1>5, <1>6 DEF ReadingsStand
  <1> QED BY <1>2, <1>7

LEMMA StoresKeepReadings ==
  ASSUME ReadingInv, NEW k \in Collectors,
         \/ \E c \in Contents : LookUp(k, c)
         \/ StoreItem(k) \/ StoreLoser(k) \/ StoreRefused(k)
  PROVE  ReadingsHaveItems' /\ ReadingsStand'
  <1>1. /\ UNCHANGED <<backend, cited, basis, operator, processor, overtaken>>
        /\ crossed \subseteq crossed'
        /\ \A e \in Items : row[e].life # "none" => row'[e] = row[e]
    <2>1. CASE (\E c \in Contents : LookUp(k, c)) \/ StoreRefused(k)
      BY <2>1 DEF LookUp, StoreRefused, store
    <2>2. CASE StoreItem(k) \/ StoreLoser(k)
      <3>1. PICK d \in Fresh :
              /\ row' = [row EXCEPT ![d] = [life |-> "stored", content |-> collector[k].content,
                            dupOf |-> collector[k].canon, raw |-> (collector[k].canon = None)]]
              /\ UNCHANGED <<backend, cited, basis, operator, processor, ghosts>>
        BY <2>2 DEF StoreItem, StoreLoser, Insert
      <3> QED BY <3>1 DEF ghosts, Fresh, ReadingInv, EvidenceInv, EvidenceTypeOK
    <2> QED BY <2>1, <2>2
  <1>2. \A e \in Items : /\ Steady(e)' => Steady(e)
                         /\ Editing(e)' = Editing(e)
    BY <1>1 DEF Steady, Editing, OnPostgres
  <1>3. \A e \in Items : /\ row'[e].life = "none" => row[e].life = "none"
                         /\ e \in cited \/ Processing(e) => row'[e] = row[e]
    BY <1>1 DEF ReadingInv, ReadingsHaveItems
  <1> QED BY <1>1, <1>2, <1>3, TextKept

\* What a processing reads is what the item says.
LEMMA LoadKeepsReadings ==
  ASSUME ReadingInv, NEW p \in Processors, NEW e \in Items, LoadEvidence(p, e)
  PROVE  ReadingsHaveItems' /\ ReadingsStand'
  <1>1. /\ processor' = [processor EXCEPT ![p] = [on |-> e, read |-> ReadingOf(e)]]
        /\ Kept(e) /\ UNCHANGED <<backend, row, cited, basis, operator>>
        /\ crossed \subseteq crossed' /\ overtaken \subseteq overtaken'
        /\ Changing(e) => e \in crossed'
        /\ Editing(e) => e \in overtaken'
    BY DEF LoadEvidence, store
  <1>2. /\ processor'[p] = [on |-> e, read |-> ReadingOf(e)]
        /\ \A q \in Processors \ {p} : processor'[q] = processor[q]
    BY <1>1 DEF ReadingInv, EvidenceInv, EvidenceTypeOK
  <1>3. \A x \in Items : /\ Steady(x)' => Steady(x)
                         /\ Editing(x)' = Editing(x)
                         /\ Processing(x)' => Processing(x) \/ x = e
    BY <1>1, <1>2 DEF Steady, Editing, Processing, OnPostgres
  <1>4. Steady(e)' => ~Editing(e)
    BY <1>1 DEF Steady, Editing, Changing, OnPostgres
  <1>5. AsRead(e, ReadingOf(e))
    BY DEF AsRead, ReadingOf
  <1>6. ReadingsHaveItems'
    BY <1>1, <1>3 DEF ReadingInv, ReadingsHaveItems, Kept
  <1>7. ASSUME NEW x \in Items, Steady(x)'
        PROVE  /\ \A q \in Processors : processor'[q].on = x => AsRead(x, processor'[q].read)
               /\ \A reading \in basis[x] : AsRead(x, reading)
               /\ Editing(x) => x \notin cited /\ ~Processing(x)'
    <2>1. ASSUME NEW q \in Processors, processor'[q].on = x
          PROVE  AsRead(x, processor'[q].read)
      <3>1. CASE q = p
        BY <1>2, <1>5, <2>1, <3>1
      <3>2. CASE q # p
        BY <1>2, <1>3, <1>7, <2>1, <3>2 DEF ReadingInv, ReadingsStand
      <3> QED BY <3>1, <3>2
    <2> QED BY <1>3, <1>4, <1>7, <2>1 DEF ReadingInv, ReadingsStand
  <1>8. ReadingsStand'
    BY <1>1, <1>3, <1>7 DEF ReadingsStand, AsRead
  <1> QED BY <1>6, <1>8

\* A citation hands the reading of the processing to the signal.
LEMMA CitingKeepsReadings ==
  ASSUME ReadingInv, NEW p \in Processors, Cite(p) \/ NoCitation(p)
  PROVE  ReadingsHaveItems' /\ ReadingsStand'
  <1> DEFINE e == processor[p].on
             given == IF Cite(p) THEN {processor[p].read} ELSE {}
  <1>1. /\ processor' = [processor EXCEPT ![p] = NotProcessing]
        /\ UNCHANGED <<backend, row, operator, crossed, overtaken>> /\ e \in Items
    BY DEF Cite, NoCitation, store, ghosts, ReadingInv, EvidenceInv, EvidenceTypeOK, Processor
  <1>2. /\ Processing(e)
        /\ \/ UNCHANGED <<cited, basis>>
           \/ cited' = cited \cup {e} /\ basis' = [basis EXCEPT ![e] = @ \cup {processor[p].read}]
    BY DEF Cite, NoCitation, store, Processing
  <1>3. /\ cited \subseteq cited' /\ cited' \subseteq cited \cup {e}
        /\ \A x \in Items : \A reading \in basis'[x] :
              reading \in basis[x] \/ (x = e /\ reading = processor[p].read)
        /\ \A x \in Items : x \notin cited' => basis'[x] = basis[x]
    BY <1>1, <1>2 DEF ReadingInv, EvidenceInv, EvidenceTypeOK
  <1>4. /\ \A q \in Processors : processor'[q].on \in Items => processor'[q] = processor[q]
        /\ \A x \in Items : /\ Processing(x)' => Processing(x)
                            /\ Steady(x)' = Steady(x) /\ Editing(x)' = Editing(x)
    BY <1>1, NothingInHand, NoneIsNoItem
    DEF Processing, Steady, Editing, OnPostgres, ReadingInv, EvidenceInv, EvidenceTypeOK
  <1>5. e = processor[p].on
    OBVIOUS
  <1> HIDE DEF e
  <1>6. ReadingsHaveItems'
    BY <1>1, <1>2, <1>3, <1>4 DEF ReadingInv, ReadingsHaveItems
  <1>7. ASSUME NEW x \in Items, Steady(x)
        PROVE  /\ \A q \in Processors : processor'[q].on = x => AsRead(x, processor'[q].read)
               /\ \A reading \in basis'[x] : AsRead(x, reading)
               /\ Editing(x) => x \notin cited' /\ ~Processing(x)'
    BY <1>2, <1>3, <1>4, <1>5, <1>7 DEF ReadingInv, ReadingsStand
  <1>8. ReadingsStand'
    BY <1>1, <1>4, <1>7 DEF ReadingsStand, AsRead
  <1> QED BY <1>6, <1>8

LEMMA AskKeepsReadings ==
  ASSUME ReadingInv, NEW o \in Operators, NEW new, Ask(o, new),
         new.op = "edit" => new.on # None /\ ~Protected(new.on)
  PROVE  ReadingsHaveItems' /\ ReadingsStand'
  <1>1. /\ operator' = [operator EXCEPT ![o] = new]
        /\ UNCHANGED <<backend, row, cited, basis, processor>>
        /\ crossed \subseteq crossed' /\ overtaken \subseteq overtaken'
        /\ new.op = "edit" /\ Processing(new.on) =>
              new.on \in overtaken' /\ new.on \in crossed'
    BY DEF Ask, store, Using
  <1>2. ASSUME NEW e \in Items, Steady(e)', Editing(e)', ~Editing(e)
        PROVE  e \notin cited /\ ~Processing(e)
    <2>1. new.op = "edit" /\ new.on = e
      BY <1>1, <1>2 DEF Editing, ReadingInv, EvidenceInv, EvidenceTypeOK
    <2> QED BY <1>1, <1>2, <2>1 DEF Steady, Protected
  <1>3. \A e \in Items : Steady(e)' => Steady(e)
    BY <1>1 DEF Steady, OnPostgres
  <1> QED BY <1>1, <1>2, <1>3, TextKept

LEMMA RequestsKeepReadings ==
  ASSUME ReadingInv, NEW o \in Operators, NEW e \in Items,
         \/ \E op \in Edits, c \in Contents : Reread(o, op, e, c)
         \/ RequestDelete(o, e)
         \/ \E canonicalToo \in BOOLEAN : RequestCleanup(o, e, canonicalToo)
  PROVE  ReadingsHaveItems' /\ ReadingsStand'
  <1>1. ASSUME NEW op \in Edits, NEW c \in Contents, Reread(o, op, e, c)
        PROVE  ReadingsHaveItems' /\ ReadingsStand'
    <2> DEFINE new == [NoRequest EXCEPT !.op = op, !.on = e, !.copy = row[e], !.content = c]
    <2>1. new.op = op /\ new.on = e
      BY DEF NoRequest
    <2>2. Ask(o, new) /\ (op = "edit" => ~Protected(e))
      BY <1>1 DEF Reread
    <2> HIDE DEF new
    <2> QED BY <2>1, <2>2, NoneIsNoItem, AskKeepsReadings
  <1>2. ASSUME RequestDelete(o, e) PROVE ReadingsHaveItems' /\ ReadingsStand'
    <2>1. Deleting(e).op = "delete"
      BY DEF Deleting, NoRequest
    <2> QED BY <1>2, <2>1, AskKeepsReadings DEF RequestDelete
  <1>3. ASSUME NEW canonicalToo \in BOOLEAN, RequestCleanup(o, e, canonicalToo)
        PROVE  ReadingsHaveItems' /\ ReadingsStand'
    <2>1. PICK todo, last :
             Ask(o, [NoRequest EXCEPT !.op = "cleanup", !.todo = todo, !.last = last])
      BY <1>3 DEF RequestCleanup
    <2> DEFINE new == [NoRequest EXCEPT !.op = "cleanup", !.todo = todo, !.last = last]
    <2>2. new.op = "cleanup" /\ Ask(o, new)
      BY <2>1 DEF NoRequest
    <2> HIDE DEF new
    <2> QED BY <2>2, AskKeepsReadings
  <1> QED BY <1>1, <1>2, <1>3

\* An edit replaces the text of no steady item that is cited or processed,
\* the other requests replace none.
LEMMA WriteBackKeepsReadings ==
  ASSUME ReadingInv, NEW o \in Operators, WriteBack(o)
  PROVE  ReadingsHaveItems' /\ ReadingsStand'
  <1> DEFINE e == operator[o].on
             new == Changed(Base(o), operator[o])
  <1>1. /\ e \in Items /\ row' = [row EXCEPT ![e] = new] /\ new.life = "stored"
        /\ (OnPostgres \/ e \notin crossed) /\ operator[o].op # "edit" =>
             new.content = row[e].content /\ (new.raw => row[e].raw)
    BY WrittenRow DEF ReadingInv
  <1>2. /\ operator' = [operator EXCEPT ![o] = NoRequest]
        /\ UNCHANGED <<backend, cited, basis, processor, crossed, overtaken>>
    BY DEF WriteBack
  <1>3. operator[o].op = "edit" => Editing(e)
    BY DEF Editing
  <1> HIDE DEF e, new
  <1>4. /\ row'[e] = new /\ \A x \in Items \ {e} : row'[x] = row[x]
        /\ \A x \in Items : /\ Steady(x)' = Steady(x)
                            /\ Editing(x)' => Editing(x)
    BY <1>1, <1>2, NothingInHand
    DEF Steady, Editing, OnPostgres, ReadingInv, EvidenceInv, EvidenceTypeOK
  <1>5. Steady(e) /\ (e \in cited \/ Processing(e)) =>
          new.content = row[e].content /\ (new.raw => row[e].raw)
    BY <1>1, <1>3 DEF ReadingInv, ReadingsStand, Steady
  <1> QED BY <1>1, <1>2, <1>4, <1>5, TextKept

\* A deletion takes the row, not what is in it.
LEMMA DeletionKeepsReadings ==
  ASSUME ReadingInv, NEW o \in Operators,
         \/ DeleteRows(o) \/ NextVictim(o)
         \/ \E part \in {"meta", "ref"} : Erase(o, part)
         \/ Stop(o)
  PROVE  ReadingsHaveItems' /\ ReadingsStand'
  <1>1. /\ UNCHANGED <<backend, cited, basis, processor, overtaken>> /\ crossed \subseteq crossed'
        /\ \A x \in Items : /\ row'[x].content = row[x].content /\ row'[x].raw = row[x].raw
                            /\ row'[x].life = "none" => row[x].life = "none"
    <2>1. CASE DeleteRows(o)
      BY <2>1 DEF DeleteRows, ghosts, ReadingInv, EvidenceInv, EvidenceTypeOK, Row
    <2>2. CASE NextVictim(o) \/ Stop(o)
      BY <2>2 DEF NextVictim, Stop, store, ghosts
    <2>3. ASSUME NEW part \in {"meta", "ref"}, Erase(o, part)
          PROVE  /\ UNCHANGED <<backend, cited, basis, processor, overtaken>>
                 /\ crossed \subseteq crossed'
                 /\ \A x \in Items : /\ row'[x].content = row[x].content /\ row'[x].raw = row[x].raw
                                     /\ row'[x].life = "none" => row[x].life = "none"
      BY <2>3 DEF Erase, ghosts, ReadingInv, EvidenceInv, EvidenceTypeOK, Row
    <2> QED BY <2>1, <2>2, <2>3
  <1>2. \A p \in Operators : operator'[p].op = "edit" => operator'[p] = operator[p]
    <2>1. ASSUME NEW new, operator' = [operator EXCEPT ![o] = new], new.op # "edit"
          PROVE  \A p \in Operators : operator'[p].op = "edit" => operator'[p] = operator[p]
      BY <2>1 DEF ReadingInv, EvidenceInv, EvidenceTypeOK
    <2>2. CASE DeleteRows(o) \/ Stop(o)
      BY <2>1, <2>2, NothingInHand DEF DeleteRows, Stop
    <2>3. CASE NextVictim(o)
      <3>1. PICK new : operator' = [operator EXCEPT ![o] = new] /\ new.op = "cleanup"
        <4>1. operator[o] \in Operator /\ operator[o].op = "cleanup"
          BY <2>3 DEF NextVictim, ReadingInv, EvidenceInv, EvidenceTypeOK
        <4> DEFINE old == operator[o]
        <4>2. PICK e \in IF old.todo # {} THEN old.todo ELSE {old.last} :
                 operator' = [operator EXCEPT ![o] =
                    [old EXCEPT !.on = e, !.copy = row[e], !.rows = {"meta", "ref"},
                                !.todo = old.todo \ {e},
                                !.last = IF old.last = e THEN None ELSE old.last]]
          BY <2>3 DEF NextVictim
        <4> DEFINE new == [old EXCEPT !.on = e, !.copy = row[e], !.rows = {"meta", "ref"},
                                      !.todo = old.todo \ {e},
                                      !.last = IF old.last = e THEN None ELSE old.last]
        <4>3. new.op = "cleanup"
          BY <4>1 DEF Operator
        <4>4. operator' = [operator EXCEPT ![o] = new]
          BY <4>2
        <4> HIDE DEF new
        <4> QED BY <4>3, <4>4
      <3> QED BY <2>1, <3>1
    <2>4. ASSUME NEW part \in {"meta", "ref"}, Erase(o, part)
          PROVE  \A p \in Operators : operator'[p].op = "edit" => operator'[p] = operator[p]
      <3> DEFINE left == operator[o].rows \ {part}
                 new == [operator[o] EXCEPT !.rows = left,
                                            !.on = IF left = {} THEN None ELSE operator[o].on]
      <3>1. operator[o] \in Operator /\ operator[o].op # "edit"
        BY <2>4 DEF Erase, ReadingInv, EvidenceInv, EvidenceTypeOK, RequestsMakeSense,
                    WellFormed, Edits
      <3>2. new.op # "edit"
        BY <3>1 DEF Operator
      <3>3. \/ operator' = [operator EXCEPT ![o] = NoRequest]
            \/ operator' = [operator EXCEPT ![o] = new]
        BY <2>4 DEF Erase
      <3> HIDE DEF new
      <3> QED BY <2>1, <3>2, <3>3, NothingInHand
    <2> QED BY <2>2, <2>3, <2>4
  <1>3. \A x \in Items : (Steady(x)' => Steady(x)) /\ (Editing(x)' => Editing(x))
    BY <1>1, <1>2 DEF Steady, Editing, OnPostgres, ReadingInv, EvidenceInv, EvidenceTypeOK
  <1> QED BY <1>1, <1>3, TextKept

LEMMA AlwaysReadingInv == EvidenceSpec => []ReadingInv
  <1> DEFINE Readings2 == ReadingsHaveItems /\ ReadingsStand
  <1>1. ReadingInv /\ [EvidenceNext]_evidenceVars => Readings2'
    <2> SUFFICES ASSUME ReadingInv, [EvidenceNext]_evidenceVars PROVE Readings2'
      OBVIOUS
    <2>1. CASE UNCHANGED evidenceVars
      BY <2>1 DEF evidenceVars, store, actors, ghosts, ReadingInv, ReadingsHaveItems,
                  ReadingsStand, Steady, AsRead, Editing, Processing, OnPostgres
    <2>2. ASSUME NEW k \in Collectors,
                 \/ \E c \in Contents : LookUp(k, c)
                 \/ StoreItem(k) \/ StoreLoser(k) \/ StoreRefused(k)
          PROVE  Readings2'
      BY <2>2, StoresKeepReadings
    <2>3. ASSUME NEW p \in Processors,
                 (\E e \in Items : LoadEvidence(p, e)) \/ Cite(p) \/ NoCitation(p)
          PROVE  Readings2'
      BY <2>3, LoadKeepsReadings, CitingKeepsReadings
    <2>4. ASSUME NEW o \in Operators, NEW e \in Items,
                 \/ \E op \in Edits, c \in Contents : Reread(o, op, e, c)
                 \/ RequestDelete(o, e)
                 \/ \E canonicalToo \in BOOLEAN : RequestCleanup(o, e, canonicalToo)
          PROVE  Readings2'
      BY <2>4, RequestsKeepReadings
    <2>5. ASSUME NEW o \in Operators,
                 \/ WriteBack(o) \/ DeleteRows(o) \/ NextVictim(o)
                 \/ \E part \in {"meta", "ref"} : Erase(o, part)
                 \/ Stop(o)
          PROVE  Readings2'
      BY <2>5, WriteBackKeepsReadings, DeletionKeepsReadings
    <2> HIDE DEF Readings2
    <2> QED BY <2>1, <2>2, <2>3, <2>4, <2>5 DEF EvidenceNext, Edits
  <1>2. ReadingInv /\ EvidenceInv' /\ [EvidenceNext]_evidenceVars => ReadingInv'
    BY <1>1 DEF ReadingInv
  <1> QED BY <1>2, InitReadingInv, AlwaysEvidenceInv, PTL DEF EvidenceSpec

\* Evidence a signal cites is never deleted on PostgreSQL, nor on DynamoDB
\* where no requests crossed on it; and it holds the text that every citing
\* signal was read from, or none, unless on PostgreSQL an edit and a
\* processing, on DynamoDB any two requests, worked on it at once.
THEOREM CitationsStand == EvidenceSpec => []CitedEvidenceStands
  <1>1. ReadingInv => CitedEvidenceStands
    <2> SUFFICES ASSUME ReadingInv, NEW e \in cited
                 PROVE  /\ Guarded(e) => Kept(e)
                        /\ Steady(e) => \A reading \in basis[e] : AsRead(e, reading)
      BY DEF CitedEvidenceStands
    <2>1. e \in Items
      BY DEF ReadingInv, EvidenceInv, EvidenceTypeOK
    <2>2. Guarded(e) => Kept(e)
      BY BackendAssumption
      DEF ReadingInv, EvidenceInv, EvidenceTypeOK, ForeignKeys, References, Guarded,
          OnPostgres, OnDynamo
    <2> QED BY <2>1, <2>2 DEF ReadingInv, ReadingsStand
  <1> QED BY <1>1, AlwaysReadingInv, PTL

\* No step brings a deleted item back or, but for an edit, content that an
\* operator removed: on PostgreSQL whatever overlaps, on DynamoDB for the
\* items on which no requests crossed.  Elsewhere a stale item may be put.
THEOREM RemovalsAreFinal == EvidenceSpec => RemovalIsFinal
  <1> DEFINE Final(e) ==
         /\ row[e].life = "gone" => row'[e].life = "gone"
         /\ row[e].life = "stored" /\ ~row[e].raw /\ row'[e].raw => e \in edited'
  <1>1. EvidenceInv /\ [EvidenceNext]_evidenceVars
          => [\A e \in Items : Guarded(e) => Final(e)]_evidenceVars
    <2> SUFFICES ASSUME EvidenceInv, [EvidenceNext]_evidenceVars, NEW e \in Items, Guarded(e)
                 PROVE  Final(e)
      OBVIOUS
    <2>1. CASE UNCHANGED row
      BY <2>1
    <2>2. ASSUME NEW k \in Collectors, Insert(k, collector[k].canon) PROVE Final(e)
      BY <2>2 DEF Insert, Fresh, EvidenceInv, EvidenceTypeOK
    <2>3. ASSUME NEW o \in Operators, WriteBack(o) PROVE Final(e)
      <3> DEFINE new == Changed(Base(o), operator[o])
      <3>1. PICK x \in Items : x = operator[o].on
        BY <2>3, WrittenRow
      <3>2. /\ row' = [row EXCEPT ![x] = new] /\ new.life = "stored" /\ new \in Row
            /\ OnPostgres \/ x \notin crossed =>
                  Kept(x) /\ (operator[o].op # "edit" => (new.raw => row[x].raw))
        BY <2>3, <3>1, WrittenRow
      <3>3. operator[o].op = "edit" => x \in edited'
        BY <2>3, <3>1 DEF WriteBack
      <3> HIDE DEF new
      <3>4. CASE e = x
        BY <3>2, <3>3, <3>4 DEF Guarded, Kept, EvidenceInv, EvidenceTypeOK, Row
      <3>5. CASE e # x
        BY <3>2, <3>5 DEF EvidenceInv, EvidenceTypeOK
      <3> QED BY <3>4, <3>5
    <2>4. ASSUME NEW o \in Operators, DeleteRows(o) PROVE Final(e)
      BY <2>4 DEF DeleteRows, EvidenceInv, EvidenceTypeOK, Row
    <2>5. ASSUME NEW o \in Operators, NEW part \in {"meta", "ref"}, Erase(o, part) PROVE Final(e)
      BY <2>5 DEF Erase, EvidenceInv, EvidenceTypeOK, Row
    <2> HIDE DEF Final
    <2>6. ASSUME NEW k \in Collectors,
                 \/ \E c \in Contents : LookUp(k, c)
                 \/ StoreItem(k) \/ StoreLoser(k) \/ StoreRefused(k)
          PROVE  Final(e)
      BY <2>1, <2>2, <2>6 DEF LookUp, StoreItem, StoreLoser, StoreRefused, store
    <2>7. ASSUME NEW p \in Processors,
                 (\E x \in Items : LoadEvidence(p, x)) \/ Cite(p) \/ NoCitation(p)
          PROVE  Final(e)
      BY <2>1, <2>7 DEF LoadEvidence, Cite, NoCitation, store
    <2>8. ASSUME NEW o \in Operators, NEW x \in Items,
                 \/ \E op \in Edits, c \in Contents : Reread(o, op, x, c)
                 \/ RequestDelete(o, x)
                 \/ \E canonicalToo \in BOOLEAN : RequestCleanup(o, x, canonicalToo)
          PROVE  Final(e)
      BY <2>1, <2>8 DEF Reread, RequestDelete, RequestCleanup, Ask, store
    <2>9. ASSUME NEW o \in Operators, NextVictim(o) \/ Stop(o) PROVE Final(e)
      BY <2>1, <2>9 DEF NextVictim, Stop, store
    <2> QED BY <2>1, <2>3, <2>4, <2>5, <2>6, <2>7, <2>8, <2>9
            DEF EvidenceNext, evidenceVars, store, Edits
  <1> QED BY <1>1, AlwaysEvidenceInv, PTL DEF EvidenceSpec, RemovalIsFinal

-----------------------------------------------------------------------------
(***************************************************************************)
(* Contents.  An edit is the only request that changes the content of an   *)
(* item, but on DynamoDB every request writes what it has read, and an     *)
(* item may be edited between that and the write.                          *)
(***************************************************************************)
\* What was read or locked of an item that was never edited is still so, and
\* its duplicates have its content, whether the items are deleted by now or
\* not: on DynamoDB a delayed write may bring a deleted item back.
ContentsStand ==
    /\ \A o \in Operators : operator[o].op \in Edits =>
          LET e == operator[o].on IN
          /\ operator[o].copy.dupOf = row[e].dupOf
          /\ e \notin edited => operator[o].copy.content = row[e].content
    /\ \A c \in Contents, e \in Items : lock[c] = e =>
          /\ row[e].life # "none"
          /\ e \notin edited => row[e].content = c
    /\ \A k \in Collectors, e \in Items : collector[k].canon = e =>
          /\ row[e].life # "none"
          /\ e \notin edited => row[e].content = collector[k].content
    /\ \A d, e \in Items : row[d].life # "none" /\ row[d].dupOf = e =>
          /\ row[e].life # "none"
          /\ d \notin edited /\ e \notin edited => row[d].content = row[e].content

\* On PostgreSQL an item is edited when no duplicate refers to it: as long as
\* the edit crosses no store, it has none when the edit is written either.
EditsStandAlone ==
    OnPostgres => \A e \in Items \ crossed :
        /\ \A k \in Collectors : collector[k].canon = e => row[e].content = collector[k].content
        /\ \A d \in Items : Kept(d) /\ row[d].dupOf = e =>
              /\ d \notin edited => row[d].content = row[e].content
              /\ \A o \in Operators : ~(operator[o].op = "edit" /\ operator[o].on = e)

\* A canonical item owns the lock of its hash until its deletion erases it.
LocksHold ==
    OnDynamo /\ edited = {} /\ crossed = {} =>
        /\ \A e \in Items : Kept(e) /\ row[e].dupOf = None /\ ~Erasing(e) =>
              lock[row[e].content] = e
        /\ \A o \in Operators : "ref" \in operator[o].rows /\ operator[o].copy.dupOf = None =>
              lock[operator[o].copy.content] = operator[o].on

ContentInv == EvidenceInv /\ ContentsStand /\ EditsStandAlone /\ LocksHold

LEMMA InitContentInv == EvidenceInit => ContentInv
  <1> SUFFICES ASSUME EvidenceInit PROVE ContentInv
    OBVIOUS
  <1>1. /\ row = [e \in Items |-> Blank] /\ lock = [c \in Contents |-> None]
        /\ collector = [k \in Collectors |-> NotStoring]
        /\ operator = [o \in Operators |-> NoRequest]
    BY DEF EvidenceInit
  <1>2. ContentsStand
    BY <1>1, NothingInHand, NoneIsNoItem DEF ContentsStand, Edits
  <1>3. EditsStandAlone
    BY <1>1, NothingInHand, NoneIsNoItem DEF EditsStandAlone, Kept
  <1>4. LocksHold
    BY <1>1, NothingInHand DEF LocksHold, Kept
  <1> QED BY <1>2, <1>3, <1>4, InitEvidenceInv DEF ContentInv

\* A store that looks for the item that stands for its content.
LEMMA FindingKeeps ==
  ASSUME ContentInv, NEW k \in Collectors, NEW new \in Collector,
         new.canon # None => new.canon \in CanonicalOf(new.content),
         collector' = [collector EXCEPT ![k] = new],
         UNCHANGED <<backend, store, operator, edited>>, crossed \subseteq crossed'
  PROVE  ContentsStand' /\ EditsStandAlone' /\ LocksHold'
  <1>1. new.content \in Contents /\ new.canon \in Items \cup {None}
    BY DEF Collector
  <1>2. new.canon # None => /\ Kept(new.canon)
                            /\ OnPostgres => row[new.canon].content = new.content
                            /\ ~OnPostgres => lock[new.content] = new.canon
    BY <1>1 DEF CanonicalOf
  <1>3. /\ collector'[k] = new /\ \A j \in Collectors \ {k} : collector'[j] = collector[j]
        /\ row' = row /\ lock' = lock /\ OnPostgres' = OnPostgres /\ OnDynamo' = OnDynamo
        /\ \A e : Erasing(e)' = Erasing(e) /\ Kept(e)' = Kept(e)
    BY DEF ContentInv, EvidenceInv, EvidenceTypeOK, store, OnPostgres, OnDynamo, Erasing, Kept
  <1>4. ASSUME NEW j \in Collectors, NEW e \in Items, collector'[j].canon = e
        PROVE  /\ row[e].life # "none"
               /\ OnPostgres /\ e \notin crossed' => row[e].content = collector'[j].content
               /\ e \notin edited => row[e].content = collector'[j].content
    <2>1. CASE j = k
      BY <1>1, <1>2, <1>3, <1>4, <2>1, NoneIsNoItem DEF ContentInv, ContentsStand, Kept
    <2>2. CASE j # k
      BY <1>3, <1>4, <2>2 DEF ContentInv, ContentsStand, EditsStandAlone
    <2> QED BY <2>1, <2>2
  <1>5. ContentsStand'
    BY <1>3, <1>4 DEF ContentInv, ContentsStand
  <1>6. EditsStandAlone'
    BY <1>3, <1>4 DEF ContentInv, EditsStandAlone
  <1>7. LocksHold'
    BY <1>3 DEF ContentInv, LocksHold
  <1> QED BY <1>5, <1>6, <1>7

LEMMA SearchKeeps ==
  ASSUME ContentInv, NEW k \in Collectors,
         (\E c \in Contents : LookUp(k, c)) \/ StoreRefused(k)
  PROVE  ContentsStand' /\ EditsStandAlone' /\ LocksHold'
  <1>1. ASSUME NEW c \in Contents, LookUp(k, c)
        PROVE  ContentsStand' /\ EditsStandAlone' /\ LocksHold'
    <2>1. PICK canon \in CanonicalOf(c) :
             collector' = [collector EXCEPT ![k] = [step |-> "put", content |-> c, canon |-> canon]]
      BY <1>1 DEF LookUp
    <2>2. canon \in Items \cup {None}
      BY CanonicalIsStored DEF ContentInv, EvidenceInv
    <2> DEFINE new == [step |-> "put", content |-> c, canon |-> canon]
    <2>3. new \in Collector /\ new.content = c /\ new.canon = canon
      BY <2>2 DEF Collector
    <2> HIDE DEF new
    <2>4. UNCHANGED <<backend, store, operator, edited>> /\ crossed \subseteq crossed'
      BY <1>1 DEF LookUp
    <2> QED BY <2>1, <2>3, <2>4, FindingKeeps DEF new
  <1>2. ASSUME StoreRefused(k)
        PROVE  ContentsStand' /\ EditsStandAlone' /\ LocksHold'
    <2>1. UNCHANGED <<backend, store, operator, edited>> /\ crossed \subseteq crossed'
      BY <1>2 DEF StoreRefused
    <2>2. PICK winner \in CanonicalOf(collector[k].content) :
             IF OnDynamo /\ winner # None /\ Fresh # {}
             THEN collector' = [collector EXCEPT ![k].step = "fallback", ![k].canon = winner]
             ELSE collector' = [collector EXCEPT ![k] = NotStoring]
      BY <1>2 DEF StoreRefused
    <2>3. collector[k] \in Collector /\ winner \in Items \cup {None}
      BY CanonicalIsStored DEF ContentInv, EvidenceInv, EvidenceTypeOK, Collector
    <2> DEFINE new == [collector[k] EXCEPT !.step = "fallback", !.canon = winner]
    <2>4. new \in Collector /\ new.content = collector[k].content /\ new.canon = winner
      BY <2>3 DEF Collector
    <2>5. \/ collector' = [collector EXCEPT ![k] = new]
          \/ collector' = [collector EXCEPT ![k] = NotStoring]
      BY <2>2
    <2> HIDE DEF new
    <2>6. CASE collector' = [collector EXCEPT ![k] = new]
      BY <2>1, <2>4, <2>6, FindingKeeps
    <2>7. CASE collector' = [collector EXCEPT ![k] = NotStoring]
      BY <2>1, <2>7, FindingKeeps, NothingInHand
    <2> QED BY <2>5, <2>6, <2>7
  <1> QED BY <1>1, <1>2

\* Processing reads items and changes none.
LEMMA ProcessingKeeps ==
  ASSUME ContentInv, UNCHANGED <<backend, row, lock, collector, operator, edited>>,
         crossed \subseteq crossed'
  PROVE  ContentsStand' /\ EditsStandAlone' /\ LocksHold'
  BY DEF ContentInv, ContentsStand, EditsStandAlone, LocksHold, Kept, Erasing, OnPostgres, OnDynamo

\* A new item has the content of its request, and of the item it is a
\* duplicate of; a canonical item finds the lock of its hash free.
LEMMA InsertKeepsContents ==
  ASSUME ContentInv, NEW k \in Collectors, StoreItem(k) \/ StoreLoser(k)
  PROVE  ContentsStand' /\ EditsStandAlone' /\ LocksHold'
  <1> DEFINE canon == collector[k].canon
             c == collector[k].content
             new == [life |-> "stored", content |-> c, dupOf |-> canon, raw |-> (canon = None)]
  <1>1. PICK d \in Fresh :
          /\ row' = [row EXCEPT ![d] = new]
          /\ lock' = IF OnDynamo /\ canon = None THEN [lock EXCEPT ![c] = d] ELSE lock
          /\ collector' = [collector EXCEPT ![k] = NotStoring]
          /\ UNCHANGED <<backend, operator, crossed, edited>>
    BY DEF StoreItem, StoreLoser, Insert, ghosts
  <1>2. d \in Items /\ row[d].life = "none" /\ d # None
    BY NoneIsNoItem DEF Fresh
  <1>3. /\ canon \in Items \cup {None} /\ c \in Contents
        /\ canon = None /\ OnDynamo => lock[c] = None
    BY DEF ContentInv, EvidenceInv, EvidenceTypeOK, Collector, RequestsMakeSense,
           StoreItem, StoreLoser, MayInsert
  <1>4. new.life = "stored" /\ new.content = c /\ new.dupOf = canon
    OBVIOUS
  <1>5. canon # None => /\ row[canon].life # "none" /\ canon # d
                        /\ canon \notin edited => row[canon].content = c
                        /\ OnPostgres /\ canon \notin crossed =>
                              /\ row[canon].content = c
                              /\ \A o \in Operators : canon \notin WorkOf(operator[o])
    BY <1>2, <1>3 DEF ContentInv, ContentsStand, EditsStandAlone, EvidenceInv, NoClash
  <1>6. \A o \in Operators : d \notin WorkOf(operator[o])
    BY <1>2 DEF ContentInv, EvidenceInv, RequestsMakeSense
  <1> HIDE DEF new, canon, c
  <1>7. /\ row'[d] = new /\ \A e \in Items \ {d} : row'[e] = row[e]
        /\ \A e : Erasing(e)' = Erasing(e)
        /\ OnPostgres' = OnPostgres /\ OnDynamo' = OnDynamo
        /\ collector'[k].canon = None /\ \A j \in Collectors \ {k} : collector'[j] = collector[j]
    BY <1>1, <1>2, NothingInHand
    DEF ContentInv, EvidenceInv, EvidenceTypeOK, Erasing, OnPostgres, OnDynamo
  <1>8. \A o \in Operators : operator[o].op \in Edits =>
           operator[o].on \in Items /\ operator[o].on # d
    BY <1>2, <1>6 DEF ContentInv, EvidenceInv, EvidenceTypeOK, Operator, RequestsMakeSense,
                      WellFormed, WorkOf
  <1>9. ContentsStand'
    <2>1. ASSUME NEW o \in Operators, operator'[o].op \in Edits
          PROVE  LET e == operator'[o].on IN
                 /\ operator'[o].copy.dupOf = row'[e].dupOf
                 /\ e \notin edited' => operator'[o].copy.content = row'[e].content
      BY <1>1, <1>7, <1>8, <2>1 DEF ContentInv, ContentsStand
    <2>2. ASSUME NEW b \in Contents, NEW e \in Items, lock'[b] = e
          PROVE  row'[e].life # "none" /\ (e \notin edited' => row'[e].content = b)
      <3>1. CASE e = d
        <4>1. lock[b] # d
          BY <1>2, <3>1 DEF ContentInv, ContentsStand
        <4>2. b = c
          BY <1>1, <1>3, <2>2, <3>1, <4>1 DEF ContentInv, EvidenceInv, EvidenceTypeOK
        <4> QED BY <1>4, <1>7, <3>1, <4>2
      <3>2. CASE e # d
        <4>1. lock[b] = e
          BY <1>1, <1>3, <2>2, <3>2 DEF ContentInv, EvidenceInv, EvidenceTypeOK
        <4> QED BY <1>1, <1>7, <3>2, <4>1 DEF ContentInv, ContentsStand
      <3> QED BY <3>1, <3>2
    <2>3. ASSUME NEW j \in Collectors, NEW e \in Items, collector'[j].canon = e
          PROVE  /\ row'[e].life # "none"
                 /\ e \notin edited' => row'[e].content = collector'[j].content
      <3>1. j # k /\ collector'[j] = collector[j]
        BY <1>7, <2>3, NoneIsNoItem
      <3>2. row[e].life # "none" /\ (e \notin edited => row[e].content = collector[j].content)
        BY <2>3, <3>1 DEF ContentInv, ContentsStand
      <3> QED BY <1>1, <1>2, <1>7, <3>1, <3>2
    <2>4. ASSUME NEW x \in Items, NEW e \in Items, row'[x].life # "none", row'[x].dupOf = e
          PROVE  /\ row'[e].life # "none"
                 /\ x \notin edited' /\ e \notin edited' => row'[x].content = row'[e].content
      <3>1. CASE x = d
        BY <1>1, <1>2, <1>4, <1>5, <1>7, <2>4, <3>1, NoneIsNoItem
      <3>2. CASE x # d
        BY <1>1, <1>2, <1>7, <2>4, <3>2 DEF ContentInv, ContentsStand
      <3> QED BY <3>1, <3>2
    <2> QED BY <2>1, <2>2, <2>3, <2>4 DEF ContentsStand
  <1>10. EditsStandAlone'
    <2> SUFFICES ASSUME OnPostgres, NEW e \in Items, e \notin crossed
                 PROVE  /\ \A j \in Collectors : collector'[j].canon = e =>
                               row'[e].content = collector'[j].content
                        /\ \A x \in Items : Kept(x)' /\ row'[x].dupOf = e =>
                              /\ x \notin edited' => row'[x].content = row'[e].content
                              /\ \A o \in Operators :
                                    ~(operator'[o].op = "edit" /\ operator'[o].on = e)
      BY <1>1, <1>7 DEF EditsStandAlone
    <2>1. ASSUME NEW j \in Collectors, collector'[j].canon = e
          PROVE  row'[e].content = collector'[j].content
      <3>1. collector[j].canon = e /\ collector'[j] = collector[j]
        BY <1>7, <2>1, NoneIsNoItem
      <3>2. row[e].life # "none" /\ row[e].content = collector[j].content
        BY <3>1 DEF ContentInv, ContentsStand, EditsStandAlone
      <3> QED BY <1>2, <1>7, <3>1, <3>2
    <2>2. ASSUME NEW x \in Items, Kept(x)', row'[x].dupOf = e
          PROVE  /\ x \notin edited' => row'[x].content = row'[e].content
                 /\ \A o \in Operators : ~(operator'[o].op = "edit" /\ operator'[o].on = e)
      <3>1. CASE x = d
        <4>1. e = canon /\ canon # None
          BY <1>4, <1>7, <2>2, <3>1, NoneIsNoItem
        <4>2. e # d /\ row[e].content = c /\ \A o \in Operators : e \notin WorkOf(operator[o])
          BY <1>5, <4>1
        <4>3. \A o \in Operators : operator[o].on # e
          BY <4>2, NoneIsNoItem DEF WorkOf
        <4> QED BY <1>1, <1>4, <1>7, <3>1, <4>2, <4>3
      <3>2. CASE x # d
        <4>1. row'[x] = row[x] /\ Kept(x)
          BY <1>7, <2>2, <3>2 DEF Kept
        <4>2. row[e].life # "none"
          BY <2>2, <4>1 DEF ContentInv, ContentsStand, Kept
        <4>3. row'[e] = row[e]
          BY <1>2, <1>7, <4>2
        <4> QED BY <1>1, <2>2, <4>1, <4>3 DEF ContentInv, EditsStandAlone
      <3> QED BY <3>1, <3>2
    <2> QED BY <2>1, <2>2
  <1>11. LocksHold'
    <2> SUFFICES ASSUME OnDynamo, edited = {}, crossed = {}
                 PROVE  /\ \A e \in Items : Kept(e)' /\ row'[e].dupOf = None /\ ~Erasing(e) =>
                              lock'[row'[e].content] = e
                        /\ \A o \in Operators :
                              "ref" \in operator[o].rows /\ operator[o].copy.dupOf = None =>
                                 lock'[operator[o].copy.content] = operator[o].on
      BY <1>1, <1>7 DEF LocksHold
    <2>1. \A b \in Contents : lock[b] # None => lock'[b] = lock[b]
      BY <1>1, <1>3 DEF ContentInv, EvidenceInv, EvidenceTypeOK
    <2>2. ASSUME NEW e \in Items, Kept(e)', row'[e].dupOf = None, ~Erasing(e)
          PROVE  lock'[row'[e].content] = e
      <3>1. CASE e = d
        BY <1>1, <1>3, <1>4, <1>7, <2>2, <3>1 DEF ContentInv, EvidenceInv, EvidenceTypeOK
      <3>2. CASE e # d
        <4>1. row'[e] = row[e] /\ row[e].content \in Contents /\ Kept(e)
          BY <1>7, <2>2, <3>2 DEF ContentInv, EvidenceInv, EvidenceTypeOK, Row, Kept
        <4>2. lock[row[e].content] = e
          BY <2>2, <4>1 DEF ContentInv, LocksHold
        <4> QED BY <2>1, <4>1, <4>2, NoneIsNoItem
      <3> QED BY <3>1, <3>2
    <2>3. ASSUME NEW o \in Operators, "ref" \in operator[o].rows, operator[o].copy.dupOf = None
          PROVE  lock'[operator[o].copy.content] = operator[o].on
      <3>1. lock[operator[o].copy.content] = operator[o].on
        BY <2>3 DEF ContentInv, LocksHold
      <3>2. operator[o].copy.content \in Contents /\ operator[o].on # None
        BY <2>3 DEF ContentInv, EvidenceInv, EvidenceTypeOK, Operator, Row, RequestsMakeSense,
                    WellFormed
      <3> QED BY <2>1, <3>1, <3>2
    <2> QED BY <2>2, <2>3
  <1> QED BY <1>9, <1>10, <1>11

-----------------------------------------------------------------------------
\* A maintenance request that begins, or goes on to its next item: it reads
\* rows as they are, and an edit finds no duplicate.
LEMMA ReadingKeeps ==
  ASSUME ContentInv, NEW o \in Operators, NEW new,
         operator' = [operator EXCEPT ![o] = new],
         UNCHANGED <<backend, store, collector, edited>>, crossed \subseteq crossed',
         new.op \in Edits \/ new.rows # {} => new.on \in Items /\ new.copy = row[new.on],
         new.op = "edit" => ~Protected(new.on),
         operator[o].rows = {},
         "ref" \in new.rows => Kept(new.on) /\ (crossed' = {} => ~Erasing(new.on))
  PROVE  ContentsStand' /\ EditsStandAlone' /\ LocksHold'
  <1>1. /\ operator'[o] = new /\ \A p \in Operators \ {o} : operator'[p] = operator[p]
        /\ row' = row /\ lock' = lock /\ OnPostgres' = OnPostgres /\ OnDynamo' = OnDynamo
        /\ \A e : Kept(e)' = Kept(e)
    BY DEF ContentInv, EvidenceInv, EvidenceTypeOK, store, OnPostgres, OnDynamo, Kept
  <1>2. \A e : Erasing(e) => Erasing(e)'
    BY <1>1 DEF Erasing
  <1>3. ContentsStand'
    BY <1>1 DEF ContentInv, ContentsStand
  <1>4. EditsStandAlone'
    <2>1. OnPostgres /\ new.op = "edit" => DuplicatesOf(new.on) = {}
      BY DEF Protected
    <2>2. ASSUME OnPostgres, NEW e \in Items \ crossed', NEW d \in Items, Kept(d), row[d].dupOf = e,
                 NEW p \in Operators, operator'[p].op = "edit", operator'[p].on = e
          PROVE  FALSE
      <3>1. CASE p = o
        BY <1>1, <2>1, <2>2, <3>1 DEF DuplicatesOf
      <3>2. CASE p # o
        BY <1>1, <2>2, <3>2 DEF ContentInv, EditsStandAlone
      <3> QED BY <3>1, <3>2
    <2> QED BY <1>1, <2>2 DEF ContentInv, EditsStandAlone
  <1>5. LocksHold'
    <2> SUFFICES ASSUME OnDynamo, edited = {}, crossed = {}, crossed' = {}
                 PROVE  /\ \A e \in Items : Kept(e) /\ row[e].dupOf = None /\ ~Erasing(e)' =>
                              lock[row[e].content] = e
                        /\ \A p \in Operators :
                              "ref" \in operator'[p].rows /\ operator'[p].copy.dupOf = None =>
                                 lock[operator'[p].copy.content] = operator'[p].on
      BY <1>1 DEF LocksHold
    <2>1. ASSUME "ref" \in new.rows, new.copy.dupOf = None
          PROVE  lock[new.copy.content] = new.on
      BY <2>1 DEF ContentInv, LocksHold
    <2> QED BY <1>1, <1>2, <2>1 DEF ContentInv, LocksHold
  <1> QED BY <1>3, <1>4, <1>5

LEMMA RequestsKeepContents ==
  ASSUME ContentInv, NEW o \in Operators, NEW e \in Items,
         \/ \E op \in Edits, c \in Contents : Reread(o, op, e, c)
         \/ RequestDelete(o, e)
         \/ \E canonicalToo \in BOOLEAN : RequestCleanup(o, e, canonicalToo)
  PROVE  ContentsStand' /\ EditsStandAlone' /\ LocksHold'
  <1>1. ASSUME NEW new, Ask(o, new),
               new.op \in Edits \/ new.rows # {} => new.on \in Items /\ new.copy = row[new.on],
               new.op = "edit" => ~Protected(new.on),
               "ref" \in new.rows => Kept(new.on)
        PROVE  ContentsStand' /\ EditsStandAlone' /\ LocksHold'
    <2>1. /\ operator' = [operator EXCEPT ![o] = new] /\ crossed \subseteq crossed'
          /\ UNCHANGED <<backend, store, collector, edited>>
          /\ operator[o].op = "idle"
          /\ new.on # None /\ Changing(new.on) => new.on \in crossed'
      BY <1>1 DEF Ask
    <2>2. operator[o].rows = {}
      BY <2>1 DEF ContentInv, EvidenceInv, RequestsMakeSense, WellFormed
    <2>3. "ref" \in new.rows /\ crossed' = {} => ~Erasing(new.on)
      BY <1>1, <2>1, ChangingIsWork, NoneIsNoItem
    <2> QED BY <1>1, <2>1, <2>2, <2>3, ReadingKeeps
  <1>2. NoRequest \in [op : {"idle"}, on : {None}, copy : {Blank}, content : {Blank.content},
                       rows : {{}}, todo : {{}}, last : {None}]
    BY DEF NoRequest
  <1>3. ASSUME NEW op \in Edits, NEW c \in Contents, Reread(o, op, e, c)
        PROVE  ContentsStand' /\ EditsStandAlone' /\ LocksHold'
    <2> DEFINE new == [NoRequest EXCEPT !.op = op, !.on = e, !.copy = row[e], !.content = c]
    <2>1. new.op = op /\ new.on = e /\ new.copy = row[e] /\ new.rows = {}
      BY <1>2
    <2>2. Ask(o, new) /\ (op = "edit" => ~Protected(e))
      BY <1>3 DEF Reread
    <2> HIDE DEF new
    <2> QED BY <1>1, <2>1, <2>2
  <1>4. ASSUME RequestDelete(o, e)
        PROVE  ContentsStand' /\ EditsStandAlone' /\ LocksHold'
    <2>1. LET new == Deleting(e) IN
          new.op = "delete" /\ new.on = e /\ new.copy = row[e] /\ new.rows = {"meta", "ref"}
      BY <1>2 DEF Deleting
    <2>2. Ask(o, Deleting(e)) /\ Kept(e)
      BY <1>4 DEF RequestDelete
    <2> QED BY <1>1, <2>1, <2>2
  <1>5. ASSUME NEW canonicalToo \in BOOLEAN, RequestCleanup(o, e, canonicalToo)
        PROVE  ContentsStand' /\ EditsStandAlone' /\ LocksHold'
    <2>1. PICK todo, last :
             Ask(o, [NoRequest EXCEPT !.op = "cleanup", !.todo = todo, !.last = last])
      BY <1>5 DEF RequestCleanup
    <2> DEFINE new == [NoRequest EXCEPT !.op = "cleanup", !.todo = todo, !.last = last]
    <2>2. new.op = "cleanup" /\ new.rows = {}
      BY <1>2
    <2>3. Ask(o, new)
      BY <2>1
    <2> HIDE DEF new
    <2> QED BY <1>1, <2>2, <2>3 DEF Edits
  <1> QED BY <1>3, <1>4, <1>5

LEMMA NextVictimKeepsContents ==
  ASSUME ContentInv, NEW o \in Operators, NextVictim(o)
  PROVE  ContentsStand' /\ EditsStandAlone' /\ LocksHold'
  <1> DEFINE old == operator[o]
  <1>1. PICK e \in IF old.todo # {} THEN old.todo ELSE {old.last} :
          /\ e # None /\ Kept(e)
          /\ operator' = [operator EXCEPT ![o] =
                [old EXCEPT !.on = e, !.copy = row[e], !.rows = {"meta", "ref"},
                            !.todo = old.todo \ {e},
                            !.last = IF old.last = e THEN None ELSE old.last]]
    BY DEF NextVictim
  <1> DEFINE new == [old EXCEPT !.on = e, !.copy = row[e], !.rows = {"meta", "ref"},
                                !.todo = old.todo \ {e},
                                !.last = IF old.last = e THEN None ELSE old.last]
  <1>2. old \in Operator /\ old.op = "cleanup" /\ old.rows = {}
    BY DEF NextVictim, ContentInv, EvidenceInv, EvidenceTypeOK
  <1>3. e \in Items /\ e \in WorkOf(old)
    BY <1>1, <1>2 DEF Operator, WorkOf
  <1>4. new.op = "cleanup" /\ new.on = e /\ new.copy = row[e] /\ new.rows = {"meta", "ref"}
    BY <1>2 DEF Operator
  <1>5. crossed = {} => ~Erasing(e)
    <2> SUFFICES ASSUME crossed = {}, NEW p \in Operators, operator[p].on = e, operator[p].rows # {}
                 PROVE  FALSE
      BY DEF Erasing
    <2>1. e \in WorkOf(operator[p])
      BY <1>3, NoneIsNoItem DEF WorkOf
    <2>2. p = o
      BY <1>3, <2>1 DEF ContentInv, EvidenceInv, NoClash
    <2> QED BY <1>2, <2>2
  <1>6. UNCHANGED <<backend, store, collector, edited>> /\ crossed' = crossed
    BY DEF NextVictim, ghosts
  <1>7. operator' = [operator EXCEPT ![o] = new]
    BY <1>1
  <1> HIDE DEF new, old
  <1>8. operator[o].rows = {}
    BY <1>2 DEF old
  <1> QED BY <1>1, <1>3, <1>4, <1>5, <1>6, <1>7, <1>8, ReadingKeeps DEF Edits

\* A request that is given up; where it leaves a deletion half done on
\* DynamoDB, the item is crossed.
LEMMA StopKeepsContents ==
  ASSUME ContentInv, NEW o \in Operators, Stop(o)
  PROVE  ContentsStand' /\ EditsStandAlone' /\ LocksHold'
  <1>1. /\ operator' = [operator EXCEPT ![o] = NoRequest]
        /\ UNCHANGED <<backend, store, collector, edited>>
        /\ crossed \subseteq crossed'
        /\ OnDynamo /\ operator[o].rows # {} => crossed' # {}
    BY DEF Stop, OnPostgres, OnDynamo
  <1>2. /\ operator'[o] = NoRequest /\ \A p \in Operators \ {o} : operator'[p] = operator[p]
        /\ row' = row /\ lock' = lock /\ OnPostgres' = OnPostgres /\ OnDynamo' = OnDynamo
        /\ \A e : Kept(e)' = Kept(e)
    BY <1>1 DEF ContentInv, EvidenceInv, EvidenceTypeOK, store, OnPostgres, OnDynamo, Kept
  <1>3. ContentsStand'
    BY <1>1, <1>2, NothingInHand DEF ContentInv, ContentsStand, Edits
  <1>4. EditsStandAlone'
    BY <1>1, <1>2, NothingInHand DEF ContentInv, EditsStandAlone
  <1>5. OnDynamo /\ crossed' = {} => \A e : Erasing(e) => Erasing(e)'
    BY <1>1, <1>2 DEF Erasing
  <1>6. LocksHold'
    BY <1>1, <1>2, <1>5, NothingInHand DEF ContentInv, LocksHold
  <1> QED BY <1>3, <1>4, <1>6

\* A write leaves what an item is a duplicate of and, but for an edit, the
\* content, even where it brings a deleted item back.
LEMMA WriteBackKeepsContents ==
  ASSUME ContentInv, NEW o \in Operators, WriteBack(o)
  PROVE  ContentsStand' /\ EditsStandAlone' /\ LocksHold'
  <1> DEFINE e == operator[o].on
             new == Changed(Base(o), operator[o])
  <1>1. /\ e \in Items /\ row' = [row EXCEPT ![e] = new] /\ new \in Row
        /\ new.life = "stored" /\ operator[o].op \in Edits /\ operator[o].rows = {}
        /\ OnPostgres \/ e \notin crossed => Kept(e)
    BY WrittenRow DEF ContentInv
  <1>2. /\ edited' = IF operator[o].op = "edit" THEN edited \cup {e} ELSE edited
        /\ operator' = [operator EXCEPT ![o] = NoRequest]
        /\ UNCHANGED <<backend, lock, collector, crossed>>
    BY DEF WriteBack
  <1>3. operator[o] \in Operator /\ Base(o) \in Row
    BY <1>1 DEF ContentInv, EvidenceInv, EvidenceTypeOK, Operator, Base
  <1>4. /\ new.dupOf = Base(o).dupOf
        /\ operator[o].op # "edit" => new.content = Base(o).content
    BY <1>1, <1>3, ChangedRow
  <1>5. /\ Base(o).dupOf = row[e].dupOf
        /\ e \notin edited => Base(o).content = row[e].content
        /\ OnPostgres => Base(o).content = row[e].content
    BY <1>1 DEF ContentInv, ContentsStand, Base, OnPostgres, OnDynamo
  <1>6. e \in WorkOf(operator[o]) /\ row[e].life # "none"
    BY <1>1, NoneIsNoItem DEF WorkOf, ContentInv, EvidenceInv, RequestsMakeSense
  <1> HIDE DEF e, new
  <1>7. /\ row'[e] = new /\ \A x \in Items \ {e} : row'[x] = row[x]
        /\ operator'[o] = NoRequest /\ \A p \in Operators \ {o} : operator'[p] = operator[p]
        /\ OnPostgres' = OnPostgres /\ OnDynamo' = OnDynamo
    BY <1>1, <1>2 DEF ContentInv, EvidenceInv, EvidenceTypeOK, OnPostgres, OnDynamo
  <1>8. \A x \in Items : /\ row'[x].dupOf = row[x].dupOf
                         /\ row[x].life # "none" <=> row'[x].life # "none"
                         /\ x \notin edited' => row'[x].content = row[x].content
    BY <1>1, <1>2, <1>4, <1>5, <1>6, <1>7
  <1>9. edited \subseteq edited'
    BY <1>2
  <1>10. \A p \in Operators : operator'[p].op \in Edits =>
            operator'[p] = operator[p] /\ operator[p].on \in Items
    BY <1>7, NothingInHand
    DEF Edits, ContentInv, EvidenceInv, EvidenceTypeOK, Operator, RequestsMakeSense, WellFormed
  <1>11. ContentsStand'
    <2>1. ASSUME NEW p \in Operators, operator'[p].op \in Edits
          PROVE  LET x == operator'[p].on IN
                 /\ operator'[p].copy.dupOf = row'[x].dupOf
                 /\ x \notin edited' => operator'[p].copy.content = row'[x].content
      BY <1>8, <1>9, <1>10, <2>1 DEF ContentInv, ContentsStand
    <2> QED BY <1>2, <1>8, <1>9, <2>1 DEF ContentInv, ContentsStand
  <1>12. EditsStandAlone'
    <2> SUFFICES ASSUME OnPostgres, NEW x \in Items, x \notin crossed
                 PROVE  /\ \A k \in Collectors : collector[k].canon = x =>
                               row'[x].content = collector[k].content
                        /\ \A d \in Items : Kept(d)' /\ row'[d].dupOf = x =>
                              /\ d \notin edited' => row'[d].content = row'[x].content
                              /\ \A p \in Operators :
                                    ~(operator'[p].op = "edit" /\ operator'[p].on = x)
      BY <1>2, <1>7 DEF EditsStandAlone
    <2>1. ASSUME NEW k \in Collectors, collector[k].canon = x
          PROVE  row'[x].content = collector[k].content
      <3>1. x \notin WorkOf(operator[o])
        BY <2>1 DEF ContentInv, EvidenceInv, NoClash
      <3>2. x # e
        BY <1>6, <3>1
      <3> QED BY <1>7, <2>1, <3>2 DEF ContentInv, EditsStandAlone
    <2>2. ASSUME NEW d \in Items, Kept(d)', row'[d].dupOf = x
          PROVE  /\ d \notin edited' => row'[d].content = row'[x].content
                 /\ \A p \in Operators : ~(operator'[p].op = "edit" /\ operator'[p].on = x)
      <3>1. Kept(d) /\ row[d].dupOf = x
        BY <1>1, <1>7, <1>8, <2>2 DEF Kept
      <3>2. \A p \in Operators : ~(operator[p].op = "edit" /\ operator[p].on = x)
        BY <3>1 DEF ContentInv, EditsStandAlone
      <3>3. row'[x].content = row[x].content
        BY <1>4, <1>5, <1>7, <3>2 DEF e
      <3> QED BY <1>8, <1>9, <1>10, <3>1, <3>2, <3>3 DEF ContentInv, EditsStandAlone, Edits
    <2> QED BY <2>1, <2>2
  <1>13. LocksHold'
    <2> SUFFICES ASSUME OnDynamo, edited' = {}, edited = {}, crossed = {}
                 PROVE  /\ \A x \in Items : Kept(x)' /\ row'[x].dupOf = None /\ ~Erasing(x)' =>
                              lock[row'[x].content] = x
                        /\ \A p \in Operators :
                              "ref" \in operator'[p].rows /\ operator'[p].copy.dupOf = None =>
                                 lock[operator'[p].copy.content] = operator'[p].on
      BY <1>2, <1>7, <1>9 DEF LocksHold
    <2>1. \A x \in Items : (Kept(x)' => Kept(x)) /\ (Erasing(x) => Erasing(x)')
      BY <1>1, <1>7 DEF Kept, Erasing
    <2> QED BY <1>7, <1>8, <2>1, NothingInHand DEF ContentInv, LocksHold
  <1> QED BY <1>11, <1>12, <1>13

\* PostgreSQL deletes rows and moves no content.
LEMMA DeleteRowsKeepsContents ==
  ASSUME ContentInv, NEW o \in Operators, DeleteRows(o)
  PROVE  ContentsStand' /\ EditsStandAlone' /\ LocksHold'
  <1>1. /\ row' = [e \in Items |-> IF e \in Victims(o) THEN [row[e] EXCEPT !.life = "gone"]
                                   ELSE row[e]]
        /\ operator' = [operator EXCEPT ![o] = NoRequest]
        /\ UNCHANGED <<backend, lock, collector, crossed, edited>>
        /\ OnPostgres /\ ~OnDynamo
        /\ \A e \in Victims(o) : Kept(e)
    BY DEF DeleteRows, ghosts, OnPostgres, OnDynamo
  <1>2. \A e \in Items : /\ row'[e].content = row[e].content /\ row'[e].dupOf = row[e].dupOf
                         /\ row[e].life # "none" <=> row'[e].life # "none"
                         /\ Kept(e)' => Kept(e)
    BY <1>1 DEF Kept, ContentInv, EvidenceInv, EvidenceTypeOK, Row
  <1>3. \A p \in Operators : operator'[p].op \in Edits =>
           operator'[p] = operator[p] /\ operator[p].on \in Items
    BY <1>1, NothingInHand
    DEF Edits, ContentInv, EvidenceInv, EvidenceTypeOK, Operator, RequestsMakeSense, WellFormed
  <1>4. ContentsStand'
    BY <1>1, <1>2, <1>3 DEF ContentInv, ContentsStand
  <1>5. EditsStandAlone'
    BY <1>1, <1>2, <1>3 DEF ContentInv, EditsStandAlone, OnPostgres, Edits
  <1>6. LocksHold'
    BY <1>1 DEF LocksHold, OnPostgres, OnDynamo
  <1> QED BY <1>4, <1>5, <1>6

\* An item keeps its lock while its rows are erased, until the lock's own
\* turn comes: no other item has that lock.
LEMMA EraseKeepsContents ==
  ASSUME ContentInv, NEW o \in Operators, NEW part \in {"meta", "ref"}, Erase(o, part)
  PROVE  ContentsStand' /\ EditsStandAlone' /\ LocksHold'
  <1> DEFINE old == operator[o]
             left == old.rows \ {part}
             new == operator'[o]
  <1>1. /\ OnDynamo /\ ~OnPostgres /\ part \in old.rows
        /\ row' = IF part = "meta" THEN [row EXCEPT ![old.on].life = "gone"] ELSE row
        /\ lock' = IF part = "ref" /\ old.copy.dupOf = None
                   THEN [lock EXCEPT ![old.copy.content] = None] ELSE lock
        /\ UNCHANGED <<backend, collector, crossed, edited>>
    BY DEF Erase, ghosts, OnPostgres, OnDynamo
  <1>2. operator' = [operator EXCEPT ![o] =
          IF left = {} /\ old.todo = {} /\ old.last = None THEN NoRequest
          ELSE [old EXCEPT !.rows = left, !.on = IF left = {} THEN None ELSE old.on]]
    BY DEF Erase
  <1>3. /\ old \in Operator /\ old.op \notin Edits
        /\ old.on \in Items /\ old.on \in WorkOf(old) /\ row[old.on].life # "none"
    BY <1>1, NoneIsNoItem
    DEF ContentInv, EvidenceInv, EvidenceTypeOK, Operator, RequestsMakeSense, WellFormed, WorkOf
  <1>4. /\ new.op \notin Edits /\ new.rows = left
        /\ left # {} => new.on = old.on /\ new.copy = old.copy
        /\ \A p \in Operators \ {o} : operator'[p] = operator[p]
    BY <1>2, <1>3, NothingInHand DEF ContentInv, EvidenceInv, EvidenceTypeOK, Operator, Edits
  <1> HIDE DEF left, new, old
  <1>5. \A x \in Items :
           /\ row'[x].content = row[x].content /\ row'[x].dupOf = row[x].dupOf
           /\ row[x].life # "none" <=> row'[x].life # "none"
           /\ Kept(x)' <=> Kept(x) /\ ~(part = "meta" /\ x = old.on)
    BY <1>1, <1>3 DEF Kept, ContentInv, EvidenceInv, EvidenceTypeOK, Row
  <1>6. \A p \in Operators : operator'[p].op \in Edits => p # o /\ operator[p].on \in Items
    BY <1>4
    DEF new, ContentInv, EvidenceInv, EvidenceTypeOK, Operator, RequestsMakeSense, WellFormed
  <1>7. \A c \in Contents, e \in Items : lock'[c] = e => lock[c] = e
    BY <1>1, NoneIsNoItem DEF ContentInv, EvidenceInv, EvidenceTypeOK
  <1>8. ContentsStand'
    BY <1>1, <1>4, <1>5, <1>6, <1>7 DEF ContentInv, ContentsStand
  <1>9. EditsStandAlone'
    BY <1>1 DEF EditsStandAlone, OnPostgres, OnDynamo
  <1>10. LocksHold'
    <2> SUFFICES ASSUME edited = {}, crossed = {}
                 PROVE  /\ \A x \in Items : Kept(x)' /\ row'[x].dupOf = None /\ ~Erasing(x)' =>
                              lock'[row'[x].content] = x
                        /\ \A p \in Operators :
                              "ref" \in operator'[p].rows /\ operator'[p].copy.dupOf = None =>
                                 lock'[operator'[p].copy.content] = operator'[p].on
      BY <1>1 DEF LocksHold
    <2>1. ASSUME NEW c \in Contents, lock'[c] # lock[c]
          PROVE  part = "ref" /\ lock[c] = old.on
      <3>1. part = "ref" /\ old.copy.dupOf = None /\ old.copy.content = c
        BY <1>1, <2>1 DEF ContentInv, EvidenceInv, EvidenceTypeOK
      <3>2. lock[old.copy.content] = old.on
        BY <1>1, <3>1 DEF ContentInv, LocksHold, old
      <3> QED BY <3>1, <3>2
    <2>2. ASSUME NEW x \in Items, Kept(x)', row'[x].dupOf = None, ~Erasing(x)'
          PROVE  lock'[row'[x].content] = x
      <3>1. x # old.on
        <4> SUFFICES ASSUME x = old.on PROVE FALSE
          OBVIOUS
        <4>1. left = {}
          BY <1>4, <2>2 DEF Erasing, new
        <4>2. part = "ref" /\ "meta" \notin old.rows
          BY <1>5, <2>2, <4>1 DEF left
        <4>3. ~Kept(x)
          BY <1>1, <4>2 DEF ContentInv, EvidenceInv, References, old
        <4> QED BY <1>5, <2>2, <4>3
      <3>2. ~Erasing(x)
        BY <1>4, <2>2, <3>1 DEF Erasing, old
      <3>3. lock[row[x].content] = x /\ row[x].content \in Contents
        BY <1>1, <1>5, <2>2, <3>2 DEF ContentInv, LocksHold, EvidenceInv, EvidenceTypeOK, Row
      <3> QED BY <1>5, <2>1, <3>1, <3>3
    <2>3. ASSUME NEW p \in Operators,
                 "ref" \in operator'[p].rows, operator'[p].copy.dupOf = None
          PROVE  lock'[operator'[p].copy.content] = operator'[p].on
      <3>1. /\ operator'[p].on = operator[p].on /\ operator'[p].copy = operator[p].copy
            /\ "ref" \in operator[p].rows /\ (p = o => part # "ref")
        BY <1>4, <2>3 DEF left, new, old
      <3>2. /\ lock[operator[p].copy.content] = operator[p].on
            /\ operator[p].copy.content \in Contents /\ operator[p].on \in Items
        BY <1>1, <2>3, <3>1
        DEF ContentInv, LocksHold, EvidenceInv, EvidenceTypeOK, Operator, Row,
            RequestsMakeSense, WellFormed
      <3>3. p # o => operator[p].on # old.on
        BY <1>3, <3>2, NoneIsNoItem DEF ContentInv, EvidenceInv, NoClash, WorkOf, old
      <3> QED BY <2>1, <3>1, <3>2, <3>3
    <2> QED BY <2>2, <2>3
  <1> QED BY <1>8, <1>9, <1>10

LEMMA AlwaysContentInv == EvidenceSpec => []ContentInv
  <1> DEFINE Contents3 == ContentsStand /\ EditsStandAlone /\ LocksHold
  <1>1. ContentInv /\ [EvidenceNext]_evidenceVars => Contents3'
    <2> SUFFICES ASSUME ContentInv, [EvidenceNext]_evidenceVars PROVE Contents3'
      OBVIOUS
    <2>1. CASE UNCHANGED evidenceVars
      BY <2>1 DEF evidenceVars, store, actors, ghosts, ContentInv, ContentsStand, EditsStandAlone,
                  LocksHold, Kept, Erasing, OnPostgres, OnDynamo
    <2>2. ASSUME NEW k \in Collectors,
                 \/ \E c \in Contents : LookUp(k, c)
                 \/ StoreItem(k) \/ StoreLoser(k) \/ StoreRefused(k)
          PROVE  Contents3'
      BY <2>2, SearchKeeps, InsertKeepsContents
    <2>3. ASSUME NEW p \in Processors,
                 (\E e \in Items : LoadEvidence(p, e)) \/ Cite(p) \/ NoCitation(p)
          PROVE  Contents3'
      <3>1. UNCHANGED <<backend, row, lock, collector, operator, edited>> /\ crossed \subseteq crossed'
        BY <2>3 DEF LoadEvidence, Cite, NoCitation, store, ghosts
      <3> QED BY <3>1, ProcessingKeeps
    <2>4. ASSUME NEW o \in Operators, NEW e \in Items,
                 \/ \E op \in Edits, c \in Contents : Reread(o, op, e, c)
                 \/ RequestDelete(o, e)
                 \/ \E canonicalToo \in BOOLEAN : RequestCleanup(o, e, canonicalToo)
          PROVE  Contents3'
      BY <2>4, RequestsKeepContents
    <2>5. ASSUME NEW o \in Operators,
                 \/ WriteBack(o) \/ DeleteRows(o) \/ NextVictim(o)
                 \/ \E part \in {"meta", "ref"} : Erase(o, part)
                 \/ Stop(o)
          PROVE  Contents3'
      BY <2>5, WriteBackKeepsContents, DeleteRowsKeepsContents, NextVictimKeepsContents,
         EraseKeepsContents, StopKeepsContents
    <2> HIDE DEF Contents3
    <2> QED BY <2>1, <2>2, <2>3, <2>4, <2>5 DEF EvidenceNext, Edits
  <1>2. ContentInv /\ EvidenceInv' /\ [EvidenceNext]_evidenceVars => ContentInv'
    BY <1>1 DEF ContentInv
  <1> QED BY <1>2, InitContentInv, AlwaysEvidenceInv, PTL DEF EvidenceSpec

\* The content of a stored duplicate is that of the item that stands for it:
\* on PostgreSQL unless the duplicate is edited or an edit of the item crosses
\* a store, on DynamoDB if neither was ever edited.
THEOREM DuplicatesMatch == EvidenceSpec => []UneditedDuplicatesMatch
  <1>1. ContentInv => UneditedDuplicatesMatch
    <2> SUFFICES ASSUME ContentInv, NEW d \in Items, Kept(d), row[d].dupOf # None,
                        d \notin edited, row[d].dupOf \notin crossed,
                        OnPostgres \/ row[d].dupOf \notin edited
                 PROVE  row[d].content = row[row[d].dupOf].content
      BY DEF UneditedDuplicatesMatch
    <2>1. row[d].dupOf \in Items /\ row[d].life # "none"
      BY DEF ContentInv, EvidenceInv, EvidenceTypeOK, Row, Kept
    <2> QED BY <2>1 DEF ContentInv, ContentsStand, EditsStandAlone
  <1> QED BY <1>1, AlwaysContentInv, PTL

\* On DynamoDB the lock of a hash has one owner: as long as nothing was edited
\* and no two requests worked on an item at once, no content is stored twice
\* as a canonical item.
THEOREM ContentsHaveOneCanonical == EvidenceSpec => []OneCanonicalPerContent
  <1>1. ContentInv => OneCanonicalPerContent
    BY ChangingIsWork DEF ContentInv, LocksHold, OneCanonicalPerContent
  <1> QED BY <1>1, AlwaysContentInv, PTL
=============================================================================
