---------------------------- MODULE EvidenceStore ----------------------------
(***************************************************************************)
(* The canonical evidence store (server/app/services/evidence_service.py   *)
(* and its two repositories).  Collectors store items and find duplicates  *)
(* by content hash; operators archive, redact, edit and delete items and   *)
(* clean up duplicates; evidence processing cites an item in a signal.     *)
(* Every request reads first and writes later.                             *)
(*                                                                         *)
(* PostgreSQL updates columns of rows that exist and has foreign keys from *)
(* duplicates and signals to the evidence row.  DynamoDB keeps a lock per  *)
(* content hash and a reference row per duplicate, puts whole items, and   *)
(* deletes an item's rows one by one.                                      *)
(***************************************************************************)
EXTENDS Storage, Integers

CONSTANTS
    Collectors, \* store requests in flight at once
    Operators,  \* maintenance requests in flight at once
    Processors, \* evidence processings in flight at once
    Contents,   \* the contents (their hashes)
    MaxItems,   \* bound: items ever stored
    MaxOps      \* bound: maintenance requests

ASSUME EvidenceAssumption == MaxItems \in Nat /\ MaxOps \in Nat /\ Contents # {}

Items == 1 .. MaxItems
None == 0

VARIABLES
    row,       \* row[e]: the evidence row
    lock,      \* lock[c]: the item that owns the hash of content c (DynamoDB)
    dupRefs,   \* the duplicates whose reference row exists (DynamoDB)
    cited,     \* the items that signals refer to
    basis,     \* ghost: basis[e]: what the signals that cite e were read from
    collector, \* collector[k]: the state of a store request
    operator,  \* operator[o]: the state of a maintenance request
    processor, \* processor[p]: the state of a processing
    ops,       \* maintenance requests so far
    crossed,   \* ghost: items two requests worked on at once, one to change it,
               \* and items whose deletion was cut short
    overtaken, \* ghost: items an edit and a processing worked on at once
    edited     \* ghost: items whose content was edited

store == <<row, lock, dupRefs, cited>>
actors == <<collector, operator, processor, ops>>
ghosts == <<crossed, overtaken, edited>>
evidenceVars == <<backend, store, basis, actors, ghosts>>

Row == [life : {"none", "stored", "gone"}, content : Contents,
        dupOf : Items \cup {None}, raw : BOOLEAN]
Blank == [life |-> "none", content |-> CHOOSE c \in Contents : TRUE,
          dupOf |-> None, raw |-> FALSE]

Collector == [step : {"idle", "put", "fallback"}, content : Contents, canon : Items \cup {None}]
NotStoring == [step |-> "idle", content |-> Blank.content, canon |-> None]

Operator == [op : {"idle", "archive", "redact", "edit", "delete", "cleanup"},
             on : Items \cup {None},         \* the item it works on
             copy : Row,                     \* the row it has read
             content : Contents,             \* the new content of an edit
             rows : SUBSET {"meta", "ref"},  \* the rows a deletion still erases
             todo : SUBSET Items,            \* the duplicates still to delete
             last : Items \cup {None}]       \* the canonical item to delete last
NoRequest == [op |-> "idle", on |-> None, copy |-> Blank, content |-> Blank.content,
              rows |-> {}, todo |-> {}, last |-> None]

\* What the text of an item says: its hash stands for the text while it is
\* there; a duplicate and a redacted item have a hash and no text.
Reading == [content : Contents, raw : BOOLEAN]
ReadingOf(e) == [content |-> row[e].content, raw |-> row[e].raw]

Processor == [on : Items \cup {None}, read : Reading]
NotProcessing == [on |-> None, read |-> [content |-> Blank.content, raw |-> FALSE]]

EvidenceTypeOK ==
    /\ backend \in Backends
    /\ row \in [Items -> Row]
    /\ lock \in [Contents -> Items \cup {None}]
    /\ dupRefs \subseteq Items /\ cited \subseteq Items
    /\ basis \in [Items -> SUBSET Reading]
    /\ collector \in [Collectors -> Collector]
    /\ operator \in [Operators -> Operator]
    /\ processor \in [Processors -> Processor]
    /\ ops \in 0 .. MaxOps
    /\ crossed \subseteq Items /\ overtaken \subseteq Items /\ edited \subseteq Items

EvidenceInit ==
    /\ backend \in Backends
    /\ row = [e \in Items |-> Blank]
    /\ lock = [c \in Contents |-> None]
    /\ dupRefs = {} /\ cited = {}
    /\ basis = [e \in Items |-> {}]
    /\ collector = [k \in Collectors |-> NotStoring]
    /\ operator = [o \in Operators |-> NoRequest]
    /\ processor = [p \in Processors |-> NotProcessing]
    /\ ops = 0
    /\ crossed = {} /\ overtaken = {} /\ edited = {}

Kept(e) == row[e].life = "stored"
Fresh == {e \in Items : row[e].life = "none"}
DuplicatesOf(e) == {d \in Items : Kept(d) /\ row[d].dupOf = e}

Changing(e) == \E o \in Operators : operator[o].on = e \/ e \in operator[o].todo \/ operator[o].last = e
Editing(e) == \E o \in Operators : operator[o].op = "edit" /\ operator[o].on = e
Processing(e) == \E p \in Processors : processor[p].on = e
Using(e) == Processing(e) \/ \E k \in Collectors : collector[k].canon = e

-----------------------------------------------------------------------------
(***************************************************************************)
(* store.                                                                  *)
(***************************************************************************)
\* The canonical item of a content: the oldest row with this hash, or the
\* owner of the hash lock if its row exists, whatever its content is now
\* (the set of what the query may answer).
CanonicalOf(c) ==
    LET found == IF OnPostgres
                 THEN {e \in Items : Kept(e) /\ row[e].content = c /\ row[e].dupOf = None}
                 ELSE {e \in Items : lock[c] = e /\ Kept(e)}
    IN  IF found = {} THEN {None} ELSE {e \in found : \A d \in found : e <= d}

LookUp(k, c) ==
    /\ collector[k].step = "idle" /\ Fresh # {}
    /\ \E canon \in CanonicalOf(c) :
          /\ collector' = [collector EXCEPT ![k] =
                [step |-> "put", content |-> c, canon |-> canon]]
          /\ crossed' = crossed \cup {e \in Items : e = canon /\ Changing(e)}
    /\ UNCHANGED <<backend, store, basis, operator, processor, ops, overtaken, edited>>

\* The id of the new item; a duplicate keeps no raw content.
Insert(k, canon) ==
    \E e \in Fresh :
        /\ \A d \in Fresh : e <= d
        /\ row' = [row EXCEPT ![e] = [life |-> "stored", content |-> collector[k].content,
                                      dupOf |-> canon, raw |-> (canon = None)]]
        /\ dupRefs' = IF OnDynamo /\ canon # None THEN dupRefs \cup {e} ELSE dupRefs
        /\ lock' = IF OnDynamo /\ canon = None
                   THEN [lock EXCEPT ![collector[k].content] = e] ELSE lock
        /\ collector' = [collector EXCEPT ![k] = NotStoring]
        /\ UNCHANGED <<backend, cited, basis, operator, processor, ops, ghosts>>

\* Mutant of MayInsert: the hash lock has no condition.
MayInsertUnlocked(k) == collector[k].canon # None /\ OnPostgres => Kept(collector[k].canon)

\* The foreign key of a duplicate, or the condition on the hash lock.  The
\* duplicate of a DynamoDB item is put whether the item still exists or not.
MayInsert(k) ==
    LET canon == collector[k].canon IN
    IF canon # None THEN OnPostgres => Kept(canon)
    ELSE OnDynamo => lock[collector[k].content] = None

StoreItem(k) ==
    /\ collector[k].step = "put" /\ Fresh # {} /\ MayInsert(k)
    /\ Insert(k, collector[k].canon)

\* A duplicate of the winner of the race for the hash.
StoreLoser(k) ==
    /\ collector[k].step = "fallback" /\ Fresh # {}
    /\ Insert(k, collector[k].canon)

\* The transaction is refused: DynamoDB looks for the winner of the race, and
\* fails if it is gone; PostgreSQL fails.
StoreRefused(k) ==
    /\ collector[k].step = "put" /\ (Fresh = {} \/ ~MayInsert(k))
    /\ \E winner \in CanonicalOf(collector[k].content) :
          /\ IF OnDynamo /\ winner # None /\ Fresh # {}
             THEN collector' = [collector EXCEPT ![k].step = "fallback", ![k].canon = winner]
             ELSE collector' = [collector EXCEPT ![k] = NotStoring]
          /\ crossed' = crossed \cup {e \in Items : e = winner /\ Changing(e)}
    /\ UNCHANGED <<backend, store, basis, operator, processor, ops, overtaken, edited>>

-----------------------------------------------------------------------------
(***************************************************************************)
(* Processing cites an item.                                               *)
(***************************************************************************)
\* An item bars its processing while an attempt of it is pending or accepted.
\* Reviews end that at any time, so any item that is there may be read, also
\* one that was cited before, a duplicate, and one without its text.
LoadEvidence(p, e) ==
    /\ processor[p].on = None /\ Kept(e)
    /\ processor' = [processor EXCEPT ![p] = [on |-> e, read |-> ReadingOf(e)]]
    /\ crossed' = IF Changing(e) THEN crossed \cup {e} ELSE crossed
    /\ overtaken' = IF Editing(e) THEN overtaken \cup {e} ELSE overtaken
    /\ UNCHANGED <<backend, store, basis, collector, operator, ops, edited>>

\* The citation is a foreign key on PostgreSQL.
MayCite(e) == OnPostgres => Kept(e)

\* create_candidate inserts the citation.
Cite(p) ==
    LET e == processor[p].on IN
    /\ e # None /\ MayCite(e)
    /\ cited' = cited \cup {e}
    /\ basis' = [basis EXCEPT ![e] = @ \cup {processor[p].read}]
    /\ processor' = [processor EXCEPT ![p] = NotProcessing]
    /\ UNCHANGED <<backend, row, lock, dupRefs, collector, operator, ops, ghosts>>

\* The evidence is barred or filtered out, or the processing fails.
NoCitation(p) ==
    /\ processor[p].on # None
    /\ processor' = [processor EXCEPT ![p] = NotProcessing]
    /\ UNCHANGED <<backend, store, basis, collector, operator, ops, ghosts>>

-----------------------------------------------------------------------------
(***************************************************************************)
(* Maintenance: deletion_impact and what each request does after it.       *)
(***************************************************************************)
\* Mutant of Protected: signals do not protect.
ProtectedByDuplicates(e) ==
    IF OnPostgres THEN DuplicatesOf(e) # {} ELSE \E d \in dupRefs : row[d].dupOf = e

\* Mutant of Protected: duplicates do not protect.
ProtectedByCitations(e) == e \in cited

\* protected_by
Protected(e) ==
    \/ e \in cited
    \/ IF OnPostgres THEN DuplicatesOf(e) # {} ELSE \E d \in dupRefs : row[d].dupOf = e

Ask(o, new) ==
    /\ operator[o].op = "idle" /\ ops < MaxOps
    /\ operator' = [operator EXCEPT ![o] = new]
    /\ ops' = ops + 1
    /\ crossed' = crossed \cup {e \in new.todo \cup {new.on, new.last} :
                                  e # None /\ (Changing(e) \/ Using(e))}
    /\ overtaken' = IF new.op = "edit" /\ Processing(new.on)
                    THEN overtaken \cup {new.on} ELSE overtaken
    /\ UNCHANGED <<backend, store, basis, collector, processor, edited>>

\* set_archived, remove_raw_content and update read the row.  Archiving
\* changes nothing that matters here but is a write of the item.
Reread(o, op, e, c) ==
    /\ Kept(e) /\ IF op = "edit" THEN ~Protected(e) ELSE c = Blank.content
    /\ Ask(o, [NoRequest EXCEPT !.op = op, !.on = e, !.copy = row[e], !.content = c])

\* A redaction takes the text and leaves the hash.
Changed(r, request) ==
    CASE request.op = "archive" -> r
      [] request.op = "redact" -> [r EXCEPT !.raw = FALSE]
      [] request.op = "edit" -> [r EXCEPT !.content = request.content, !.raw = TRUE]

\* Mutant of Base: PostgreSQL writes the row that was read.
BaseCopy(o) == operator[o].copy

\* The row a write starts from: DynamoDB puts the item that was read.
Base(o) == IF OnDynamo THEN operator[o].copy ELSE row[operator[o].on]

\* PostgreSQL updates a row only if it is there.
MayUpdate(e) == OnPostgres => Kept(e)

\* An edit moves no hash lock.  DynamoDB writes the rows of an item one after
\* the other: a request that read between them has crossed this one anyway.
WriteBack(o) ==
    LET e == operator[o].on IN
    /\ operator[o].op \in {"archive", "redact", "edit"} /\ MayUpdate(e)
    /\ row' = [row EXCEPT ![e] = Changed(Base(o), operator[o])]
    /\ dupRefs' = IF OnDynamo /\ operator[o].op = "edit" /\ operator[o].copy.dupOf # None
                  THEN dupRefs \cup {e} ELSE dupRefs
    /\ edited' = IF operator[o].op = "edit" THEN edited \cup {e} ELSE edited
    /\ operator' = [operator EXCEPT ![o] = NoRequest]
    /\ UNCHANGED <<backend, lock, cited, basis, collector, processor, ops, crossed, overtaken>>

Deleting(e) == [NoRequest EXCEPT !.op = "delete", !.on = e, !.copy = row[e],
                                 !.rows = {"meta", "ref"}]

RequestDelete(o, e) == Kept(e) /\ ~Protected(e) /\ Ask(o, Deleting(e))

\* duplicate_deletion_preview: the duplicates that may go.
RequestCleanup(o, e, canonicalToo) ==
    /\ Kept(e) /\ row[e].dupOf = None
    /\ LET duplicates == IF OnPostgres THEN DuplicatesOf(e)
                         ELSE {d \in dupRefs : row[d].dupOf = e}
       IN  Ask(o, [NoRequest EXCEPT !.op = "cleanup",
                          !.todo = {d \in duplicates : ~Protected(d)},
                          !.last = IF canonicalToo THEN e ELSE None])

\* Mutant of Restricted: no foreign key restricts a deletion.
RestrictedNever(gone) == gone = {}

\* The foreign keys that restrict a PostgreSQL deletion.
Restricted(gone) ==
    \E e \in gone : e \in cited \/ DuplicatesOf(e) \ gone # {}

\* What a PostgreSQL transaction deletes.  Cleanup judges the canonical item
\* after its duplicates are gone.
Victims(o) ==
    IF operator[o].op = "delete" THEN {operator[o].on}
    ELSE LET gone == operator[o].todo
             last == operator[o].last
         IN  IF last # None /\ last \notin cited /\ DuplicatesOf(last) \subseteq gone
             THEN gone \cup {last} ELSE gone

DeleteRows(o) ==
    LET gone == Victims(o) IN
    /\ OnPostgres /\ operator[o].op \in {"delete", "cleanup"}
    /\ ~Restricted(gone) /\ \A e \in gone : Kept(e)
    /\ row' = [e \in Items |-> IF e \in gone THEN [row[e] EXCEPT !.life = "gone"] ELSE row[e]]
    /\ operator' = [operator EXCEPT ![o] = NoRequest]
    /\ UNCHANGED <<backend, lock, dupRefs, cited, basis, collector, processor, ops, ghosts>>

\* DynamoDB: the next item of a cleanup, checked again; a protected duplicate
\* ends the cleanup, a protected canonical item is spared.
NextVictim(o) ==
    LET old == operator[o] IN
    /\ OnDynamo /\ old.op = "cleanup" /\ old.rows = {}
    /\ \E e \in IF old.todo # {} THEN old.todo ELSE {old.last} :
          /\ e # None /\ Kept(e) /\ ~Protected(e)
          /\ operator' = [operator EXCEPT ![o] =
                [old EXCEPT !.on = e, !.copy = row[e], !.rows = {"meta", "ref"},
                            !.todo = old.todo \ {e},
                            !.last = IF old.last = e THEN None ELSE old.last]]
    /\ UNCHANGED <<backend, store, basis, collector, processor, ops, ghosts>>

\* The batch deletes the item's rows in no fixed order; the hash lock is
\* deleted whoever owns it by now.
Erase(o, part) ==
    LET old == operator[o]
        left == old.rows \ {part}
    IN
    /\ OnDynamo /\ part \in old.rows
    /\ row' = IF part = "meta" THEN [row EXCEPT ![old.on].life = "gone"] ELSE row
    /\ dupRefs' = IF part = "ref" /\ old.copy.dupOf # None THEN dupRefs \ {old.on} ELSE dupRefs
    /\ lock' = IF part = "ref" /\ old.copy.dupOf = None
               THEN [lock EXCEPT ![old.copy.content] = None] ELSE lock
    /\ operator' = [operator EXCEPT ![o] =
          IF left = {} /\ old.todo = {} /\ old.last = None THEN NoRequest
          ELSE [old EXCEPT !.rows = left, !.on = IF left = {} THEN None ELSE old.on]]
    /\ UNCHANGED <<backend, cited, basis, collector, processor, ops, ghosts>>

\* A request that cannot go on: refused by a foreign key, the row is gone, or
\* protected by now; or a process that dies between two steps.
Stop(o) ==
    /\ operator[o].op # "idle"
    /\ operator' = [operator EXCEPT ![o] = NoRequest]
    /\ crossed' = IF operator[o].rows = {} \/ OnPostgres THEN crossed
                  ELSE crossed \cup {operator[o].on}
    /\ UNCHANGED <<backend, store, basis, collector, processor, ops, overtaken, edited>>

-----------------------------------------------------------------------------
EvidenceNext ==
    \/ \E k \in Collectors : (\E c \in Contents : LookUp(k, c))
                             \/ StoreItem(k) \/ StoreLoser(k) \/ StoreRefused(k)
    \/ \E p \in Processors : (\E e \in Items : LoadEvidence(p, e)) \/ Cite(p) \/ NoCitation(p)
    \/ \E o \in Operators :
          \/ \E e \in Items :
                \/ \E op \in {"archive", "redact", "edit"}, c \in Contents : Reread(o, op, e, c)
                \/ RequestDelete(o, e)
                \/ \E canonicalToo \in BOOLEAN : RequestCleanup(o, e, canonicalToo)
          \/ WriteBack(o) \/ DeleteRows(o) \/ NextVictim(o)
          \/ \E part \in {"meta", "ref"} : Erase(o, part)
          \/ Stop(o)

EvidenceSpec == EvidenceInit /\ [][EvidenceNext]_evidenceVars

-----------------------------------------------------------------------------
(***************************************************************************)
(* Properties.  On DynamoDB nothing but the checks at the start of a       *)
(* request protects an item, so they hold there for items on which         *)
(* requests did not cross.                                                 *)
(***************************************************************************)
Guarded(e) == OnPostgres \/ e \notin crossed

\* A duplicate keeps no raw content of its own: the item it refers to is
\* never deleted under it, whatever is stored, cleaned up and deleted at the
\* same time.
DuplicatesHaveCanonical ==
    \A d \in Items :
        /\ Kept(d) /\ row[d].dupOf # None
        /\ Guarded(row[d].dupOf) /\ (OnPostgres \/ (d \notin crossed /\ ~Changing(d)))
        => Kept(row[d].dupOf)

\* docs/ingestion-and-review.md: content hashes deduplicate raw content.  The
\* content of a duplicate is that of the item that stands for it: on
\* PostgreSQL as long as the duplicate itself is not edited and no edit of the
\* canonical item crosses the store, on DynamoDB if neither was ever edited.
UneditedDuplicatesMatch ==
    \A d \in Items : LET canon == row[d].dupOf IN
        /\ Kept(d) /\ canon # None /\ Kept(canon)
        /\ d \notin edited /\ canon \notin crossed
        /\ OnPostgres \/ canon \notin edited
        => row[d].content = row[canon].content

\* What an item holds against what was read of it: the same text, or the same
\* hash and no text.
AsRead(e, reading) ==
    row[e].content = reading.content /\ (row[e].raw => reading.raw)

\* Where no edit decided before a citation is written after it.
Steady(e) == IF OnPostgres THEN e \notin overtaken ELSE e \notin crossed

\* Evidence that a signal refers to, also a rejected one, is never deleted
\* (on DynamoDB: unless requests crossed on it).  Its hash stays that of what
\* every citing signal was read from, and its text is that or was redacted:
\* it is never replaced.  This excepts, on PostgreSQL too, the item that an
\* edit and a processing worked on at once, because update_evidence looks for
\* citations in one transaction and writes in another (see
\* LinkedEvidenceUnedited), and on DynamoDB every item that requests crossed
\* on.
CitedEvidenceStands ==
    \A e \in cited :
        /\ Guarded(e) => Kept(e)
        /\ Steady(e) => \A reading \in basis[e] : AsRead(e, reading)

\* "Evidence linked to an audit workflow cannot be edited" (update_evidence):
\* the content of a cited item never changes, also where requests overlap.
LinkedEvidenceUnedited ==
    [][\A e \in cited : row'[e].content = row[e].content]_evidenceVars

\* The hash lock lets one of several simultaneous stores win: no content has
\* two canonical items, except where one is just being deleted.
OneCanonicalPerContent ==
    OnDynamo /\ edited = {} /\ crossed = {} =>
        \A d, e \in {i \in Items : Kept(i) /\ row[i].dupOf = None /\ ~Changing(i)} :
            row[d].content = row[e].content => d = e

\* A deleted item does not come back, and removed content only by an edit:
\* on PostgreSQL always, whatever overlaps, on DynamoDB for the items on which
\* no requests crossed.  Where they did, a whole item that was read before the
\* deletion or the redaction may be put after it.
RemovalIsFinal ==
    [][\A e \in Items : Guarded(e) =>
          /\ row[e].life = "gone" => row'[e].life = "gone"
          /\ row[e].life = "stored" /\ ~row[e].raw /\ row'[e].raw => e \in edited']_evidenceVars
=============================================================================
