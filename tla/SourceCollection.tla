-------------------------- MODULE SourceCollection --------------------------
(***************************************************************************)
(* Scheduled collection of website sources.  Every application process     *)
(* runs a scheduler (server/app/scheduler.py, services/scheduler_service): *)
(* a pass reads the list of due sources once and then, source by source,   *)
(* takes a 15-minute lease, collects, records the run and releases the     *)
(* lease.  Users create, edit and delete sources meanwhile, a manual       *)
(* collection takes no lease, and a process can die at any step.           *)
(*                                                                         *)
(* Time is not a number here.  A source that has a next run becomes due at *)
(* any moment, and the time of a lease runs out at any moment: a run may   *)
(* be shorter or longer than its lease.                                    *)
(*                                                                         *)
(* The two repositories differ in what one atomic step is.  DynamoDB       *)
(* replaces the whole source item under a version condition and releases a *)
(* lease under a condition on its owner; PostgreSQL updates the columns    *)
(* that changed, looks at the lease before it deletes it, and has foreign  *)
(* keys.                                                                   *)
(***************************************************************************)
EXTENDS Integers, FiniteSets, Sequences, SequencesExt

CONSTANTS
    Sources,    \* the sources users may create
    Schedulers, \* the application processes
    Users,      \* concurrent requests of the source management API
    None,       \* "no owner" / "no source"
    Backends,   \* the storage backends a deployment may select
    MaxFaults   \* bound: storage failures and processes that die

ASSUME CollectionAssumption ==
    /\ Schedulers \cap Users = {}
    /\ None \notin Sources \cup Schedulers
    /\ Backends \subseteq {"dynamodb", "postgres"}
    /\ MaxFaults \in Nat

Actors == Schedulers \cup Users

VARIABLES
    backend,  \* the selected backend
    source,   \* the source records
    retained, \* the sources that evidence refers to
    dueOrder, \* the due sources, the one that has waited longest first
    lease,    \* the lease rows
    lapsed,   \* the schedulers whose current lease time has run out
    phase,    \* phase[x]: what actor x does next
    at,       \* at[x]: the source actor x works on
    read,     \* read[x]: the record actor x read
    fresh,    \* the actors whose record has not been written since
    pending,  \* pending[a]: the rest of the due list of scheduler a
    faults    \* failures so far

records == <<source, dueOrder, retained>>
leases == <<lease, lapsed>>
actor == <<phase, at, read, fresh, pending>>
vars == <<backend, records, leases, actor, faults>>

\* A website source; next says whether next_run_at is null, in the future or
\* in the past.
Source == [life      : {"new", "stored", "deleted"},
           enabled   : BOOLEAN,
           scheduled : BOOLEAN,
           next      : {"none", "later", "due"}]
Unsaved == [life |-> "new", enabled |-> FALSE, scheduled |-> FALSE, next |-> "none"]

Lease == [owner : Schedulers \cup {None}, live : BOOLEAN]
NoLease == [owner |-> None, live |-> FALSE]

\* A scheduler works on a source from "collect" on; only PostgreSQL has the
\* phase "unlock" between looking at the lease and deleting it.
Working == {"collect", "record", "write", "release", "unlock"}
Phases == {"idle", "visit", "update", "delete"} \cup Working

TypeOK ==
    /\ backend \in Backends
    /\ source \in [Sources -> Source]
    /\ retained \subseteq Sources
    /\ dueOrder \in Seq(Sources)
    /\ \A s \in Sources : source[s].next = "due" <=> s \in ToSet(dueOrder)
    /\ lease \in [Sources -> Lease]
    /\ lapsed \subseteq Schedulers
    /\ phase \in [Actors -> Phases]
    /\ at \in [Actors -> Sources \cup {None}]
    /\ read \in [Actors -> Source]
    /\ fresh \subseteq Actors
    /\ pending \in [Schedulers -> Seq(Sources)]
    /\ faults \in 0 .. MaxFaults

Init ==
    /\ backend \in Backends
    /\ source = [s \in Sources |-> Unsaved]
    /\ retained = {}
    /\ dueOrder = <<>>
    /\ lease = [s \in Sources |-> NoLease]
    /\ lapsed = {}
    /\ phase = [x \in Actors |-> "idle"]
    /\ at = [x \in Actors |-> None]
    /\ read = [x \in Actors |-> Unsaved]
    /\ fresh = {}
    /\ pending = [a \in Schedulers |-> <<>>]
    /\ faults = 0

-----------------------------------------------------------------------------
(***************************************************************************)
(* The source repository.                                                  *)
(***************************************************************************)
Stored(s) == source[s].life = "stored"
Scheduled(src) == src.enabled /\ src.scheduled
NextRun(src) == IF Scheduled(src) THEN "later" ELSE "none"

\* The elements of a sequence that are in a set, in their order (SelectSeq
\* says the same, but nothing can be proved of it).
Among(seq, keep) ==
    LET kept    == {i \in DOMAIN seq : seq[i] \in keep}
        rank(i) == Cardinality({k \in kept : k <= i})
    IN  [j \in 1 .. Cardinality(kept) |-> seq[CHOOSE i \in kept : rank(i) = j]]

\* The actor reads the record of s and is about to do "next" with it.
Look(x, s, next) ==
    /\ read' = [read EXCEPT ![x] = source[s]]
    /\ fresh' = fresh \cup {x}
    /\ at' = [at EXCEPT ![x] = s]
    /\ phase' = [phase EXCEPT ![x] = next]

Forget(x) == read' = [read EXCEPT ![x] = Unsaved]

\* What storing the record "want" leaves in the table.  DynamoDB puts the
\* whole item; PostgreSQL sets the columns that differ from what was read, and
\* a new next_run_at always differs.
Merged(x, s, want) ==
    IF backend = "dynamodb" THEN want
    ELSE [f \in DOMAIN want |->
             IF want[f] = read[x][f] /\ (f = "next" => want[f] # "later")
             THEN source[s][f] ELSE want[f]]

\* Mutant of MayWrite: the DynamoDB put is unconditional.
MayWriteAlways(x, s) == Stored(s)

\* The version condition of DynamoDB, or a row that is still there.
MayWrite(x, s) == Stored(s) /\ (backend = "dynamodb" => x \in fresh)

\* Mutant of PutSource: the entry of the due index is left behind.
PutSourceOnly(s, new) ==
    /\ source' = [source EXCEPT ![s] = new]
    /\ fresh' = {x \in fresh : at[x] # s}
    /\ UNCHANGED dueOrder

PutSource(s, new) ==
    /\ source' = [source EXCEPT ![s] = new]
    /\ dueOrder' = IF new.next = "due" THEN dueOrder ELSE Among(dueOrder, Sources \ {s})
    /\ fresh' = {x \in fresh : at[x] # s}

\* The actor is through with its source.
Leave(x, next) ==
    /\ phase' = [phase EXCEPT ![x] = next]
    /\ at' = [at EXCEPT ![x] = None]
    /\ lapsed' = lapsed \ {x}

-----------------------------------------------------------------------------
(***************************************************************************)
(* The users of the source management API.                                 *)
(***************************************************************************)
Create(s) ==
    /\ source[s].life = "new"
    /\ \E e, d \in BOOLEAN :
          LET flags == [Unsaved EXCEPT !.life = "stored", !.enabled = e, !.scheduled = d]
          IN  PutSource(s, [flags EXCEPT !.next = NextRun(flags)])
    /\ UNCHANGED <<backend, retained, leases, phase, at, read, pending, faults>>

BeginUpdate(u, s) ==
    /\ phase[u] = "idle" /\ Stored(s)
    /\ Look(u, s, "update")
    /\ UNCHANGED <<backend, records, leases, pending, faults>>

\* The patch changes any of the flags, or none of them.
EndUpdate(u) ==
    /\ phase[u] = "update"
    /\ IF MayWrite(u, at[u])
       THEN \E e, d \in BOOLEAN :
               LET want == [read[u] EXCEPT !.enabled = e, !.scheduled = d]
               IN  PutSource(at[u], Merged(u, at[u], [want EXCEPT !.next = NextRun(want)]))
       ELSE fresh' = fresh \ {u} /\ UNCHANGED <<source, dueOrder>>
    /\ Leave(u, "idle") /\ Forget(u)
    /\ UNCHANGED <<backend, retained, lease, pending, faults>>

\* delete: refused when evidence refers to the source.
BeginDelete(u, s) ==
    /\ phase[u] = "idle" /\ Stored(s) /\ s \notin retained
    /\ Look(u, s, "delete")
    /\ UNCHANGED <<backend, records, leases, pending, faults>>

\* Mutant of EndDelete: the evidence table has no foreign key.
EndDeleteUnreferenced(u) ==
    LET s == at[u] IN
    /\ phase[u] = "delete"
    /\ IF MayWrite(u, s)
       THEN /\ PutSource(s, [Unsaved EXCEPT !.life = "deleted"])
            /\ lease' = IF backend = "postgres"
                        THEN [lease EXCEPT ![s] = NoLease] ELSE lease
       ELSE fresh' = fresh \ {u} /\ UNCHANGED <<source, dueOrder, lease>>
    /\ Leave(u, "idle") /\ Forget(u)
    /\ UNCHANGED <<backend, retained, pending, faults>>

\* PostgreSQL has a foreign key to the source in the evidence table, and one
\* with ON DELETE CASCADE in the lease table.
EndDelete(u) ==
    LET s == at[u] IN
    /\ phase[u] = "delete"
    /\ IF MayWrite(u, s) /\ (backend = "postgres" => s \notin retained)
       THEN /\ PutSource(s, [Unsaved EXCEPT !.life = "deleted"])
            /\ lease' = IF backend = "postgres"
                        THEN [lease EXCEPT ![s] = NoLease] ELSE lease
       ELSE fresh' = fresh \ {u} /\ UNCHANGED <<source, dueOrder, lease>>
    /\ Leave(u, "idle") /\ Forget(u)
    /\ UNCHANGED <<backend, retained, pending, faults>>

\* store_evidence, by a manual collection or an upload: it checks that the
\* source is there in the same transaction.
StoreEvidence(s) ==
    /\ Stored(s) /\ s \notin retained
    /\ retained' = retained \cup {s}
    /\ UNCHANGED <<backend, source, dueOrder, leases, actor, faults>>

-----------------------------------------------------------------------------
(***************************************************************************)
(* A scheduler.                                                            *)
(***************************************************************************)
\* due(): the enabled and scheduled sources whose next run has come.
StartPass(a) ==
    LET due == Among(dueOrder, {s \in Sources : Scheduled(source[s])}) IN
    /\ phase[a] = "idle" /\ due # <<>>
    /\ pending' = [pending EXCEPT ![a] = due]
    /\ phase' = [phase EXCEPT ![a] = "visit"]
    /\ UNCHANGED <<backend, records, leases, at, read, fresh, faults>>

\* for source in due: the next source, or the end of the pass.
Visit(rest) == IF rest = <<>> THEN "idle" ELSE "visit"

\* Mutant of Free: an expired lease still counts.
FreeIfReleased(s) == lease[s].owner = None

\* acquire_lease: the row is inserted, or taken over once it has expired.
Free(s) == lease[s].owner = None \/ ~lease[s].live

\* A PostgreSQL lease refers to its source.
Acquirable(s) == Free(s) /\ (backend = "postgres" => Stored(s))
Acquire(a) ==
    LET s == Head(pending[a]) IN
    /\ phase[a] = "visit"
    /\ pending' = [pending EXCEPT ![a] = Tail(@)]
    /\ IF Acquirable(s)
       THEN /\ lease' = [lease EXCEPT ![s] = [owner |-> a, live |-> TRUE]]
            /\ at' = [at EXCEPT ![a] = s]
            /\ phase' = [phase EXCEPT ![a] = "collect"]
       ELSE /\ phase' = [phase EXCEPT ![a] = Visit(Tail(pending[a]))]
            /\ UNCHANGED <<lease, at>>
    /\ UNCHANGED <<backend, records, lapsed, read, fresh, faults>>

\* await collector(...): with evidence or without, finished or failed.
Collect(a) ==
    /\ phase[a] = "collect"
    /\ phase' = [phase EXCEPT ![a] = "record"]
    /\ retained' \in {retained, IF Stored(at[a]) THEN retained \cup {at[a]} ELSE retained}
    /\ UNCHANGED <<backend, source, dueOrder, leases, at, read, fresh, pending, faults>>

\* record_source_run raised: the lease is released and the pass ends.
EndPass(a) == pending' = [pending EXCEPT ![a] = <<>>]

\* record_run reads the record; a deleted source is an error.
RecordRead(a) ==
    /\ phase[a] = "record"
    /\ IF Stored(at[a])
       THEN Look(a, at[a], "write") /\ UNCHANGED pending
       ELSE /\ EndPass(a)
            /\ phase' = [phase EXCEPT ![a] = "release"]
            /\ UNCHANGED <<at, read, fresh>>
    /\ UNCHANGED <<backend, records, leases, faults>>

\* record_run writes it back with its next run; a conflict is an error too.
RecordWrite(a) ==
    /\ phase[a] = "write"
    /\ IF MayWrite(a, at[a])
       THEN /\ PutSource(at[a], Merged(a, at[a], [read[a] EXCEPT !.next = NextRun(read[a])]))
            /\ UNCHANGED pending
       ELSE /\ fresh' = fresh \ {a}
            /\ EndPass(a)
            /\ UNCHANGED <<source, dueOrder>>
    /\ phase' = [phase EXCEPT ![a] = "release"] /\ Forget(a)
    /\ UNCHANGED <<backend, retained, leases, at, faults>>

\* Mutant of Release: the lease is deleted whoever owns it.
ReleaseAnyone(a) ==
    /\ phase[a] = "release"
    /\ lease' = [lease EXCEPT ![at[a]] = NoLease]
    /\ Leave(a, Visit(pending[a]))
    /\ UNCHANGED <<backend, records, read, fresh, pending, faults>>

\* release_lease: DynamoDB deletes the item if it is still this scheduler's;
\* PostgreSQL reads the row first.
Release(a) ==
    LET mine == lease[at[a]].owner = a IN
    /\ phase[a] = "release"
    /\ IF backend = "postgres" /\ mine
       THEN /\ phase' = [phase EXCEPT ![a] = "unlock"]
            /\ UNCHANGED <<leases, at>>
       ELSE /\ lease' = IF mine THEN [lease EXCEPT ![at[a]] = NoLease] ELSE lease
            /\ Leave(a, Visit(pending[a]))
    /\ UNCHANGED <<backend, records, read, fresh, pending, faults>>

\* The delete of the row that was read, by its primary key.
Unlock(a) ==
    /\ phase[a] = "unlock"
    /\ lease' = [lease EXCEPT ![at[a]] = NoLease]
    /\ Leave(a, Visit(pending[a]))
    /\ UNCHANGED <<backend, records, read, fresh, pending, faults>>

\* The storage fails record_run.
RecordUnavailable(a) ==
    /\ phase[a] \in {"record", "write"} /\ faults < MaxFaults
    /\ faults' = faults + 1
    /\ fresh' = fresh \ {a}
    /\ EndPass(a)
    /\ phase' = [phase EXCEPT ![a] = "release"] /\ Forget(a)
    /\ UNCHANGED <<backend, records, leases, at>>

\* The process dies or loses the storage while it takes or returns a lease;
\* its lease row stays behind.
Die(a) ==
    /\ phase[a] # "idle" /\ faults < MaxFaults
    /\ faults' = faults + 1
    /\ fresh' = fresh \ {a}
    /\ EndPass(a)
    /\ Leave(a, "idle") /\ Forget(a)
    /\ UNCHANGED <<backend, records, lease>>

-----------------------------------------------------------------------------
(***************************************************************************)
(* Time.                                                                   *)
(***************************************************************************)
BecomeDue(s) ==
    /\ source[s].next = "later"
    /\ source' = [source EXCEPT ![s].next = "due"]
    /\ dueOrder' = Append(dueOrder, s)
    /\ UNCHANGED <<backend, retained, leases, actor, faults>>

InTime(a, s) == at[a] = s /\ a \notin lapsed

\* Fifteen minutes after scheduler a took its lease on s, which by then may be
\* the lease of a scheduler that died.
LeaseRunsOut(a, s) ==
    /\ InTime(a, s) \/ lease[s] = [owner |-> a, live |-> TRUE]
    /\ lapsed' = IF at[a] = s THEN lapsed \cup {a} ELSE lapsed
    /\ lease' = IF lease[s].owner = a THEN [lease EXCEPT ![s].live = FALSE] ELSE lease
    /\ UNCHANGED <<backend, records, actor, faults>>

User(u) ==
    \/ \E s \in Sources : BeginUpdate(u, s) \/ BeginDelete(u, s)
    \/ EndUpdate(u) \/ EndDelete(u)

Scheduler(a) ==
    \/ StartPass(a) \/ Acquire(a) \/ Collect(a)
    \/ RecordRead(a) \/ RecordWrite(a) \/ Release(a) \/ Unlock(a)

Next ==
    \/ \E s \in Sources : Create(s) \/ StoreEvidence(s) \/ BecomeDue(s)
    \/ \E u \in Users : User(u)
    \/ \E a \in Schedulers : Scheduler(a) \/ RecordUnavailable(a) \/ Die(a)
    \/ \E a \in Schedulers, s \in Sources : LeaseRunsOut(a, s)

Spec == Init /\ [][Next]_vars

\* The event loop runs every pass it has started, the scheduler starts one a
\* minute, collection is bounded by timeouts and page limits, and time passes.
Fairness ==
    /\ \A a \in Schedulers : WF_vars(Scheduler(a))
    /\ \A a \in Schedulers, s \in Sources : WF_vars(LeaseRunsOut(a, s))

FairSpec == Spec /\ Fairness

-----------------------------------------------------------------------------
(***************************************************************************)
(* Properties.                                                             *)
(***************************************************************************)
\* Two schedulers are never both within the time of a lease on one source:
\* the lease keeps processes from collecting the same source at once.
LeaseExcludes ==
    \A a, b \in Schedulers : \A s \in Sources :
        InTime(a, s) /\ InTime(b, s) => a = b

\* A lease on DynamoDB does exclude, although runs outlive their leases,
\* processes die and sources are deleted under them.
DynamoLeaseExcludes == backend = "dynamodb" => LeaseExcludes

\* Recording a run never changes whether a source is enabled and scheduled: an
\* edit made while the source is collected survives the run's own write.
RunsKeepSettings ==
    [][\A a \in Schedulers : phase[a] = "write" /\ phase'[a] # "write" =>
          \A s \in Sources : /\ source'[s].enabled = source[s].enabled
                              /\ source'[s].scheduled = source[s].scheduled]_vars

\* Evidence refers to a source that exists: a deletion races with collection
\* and with uploads.
EvidenceHasSource == \A s \in retained : Stored(s)

\* PostgreSQL keeps the reference with a foreign key.
PostgresEvidenceHasSource == backend = "postgres" => EvidenceHasSource

\* A due source does not wait for ever: leases of dead processes run out, and
\* passes that end early do not starve the sources behind.
DueSourcesCollected ==
    \A s \in Sources : []<>~(Scheduled(source[s]) /\ source[s].next = "due")
=============================================================================
