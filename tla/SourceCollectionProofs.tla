----------------------- MODULE SourceCollectionProofs -----------------------
(***************************************************************************)
(* What scheduled collection guarantees for any number of processes, users *)
(* and sources and any number of failures: on DynamoDB two processes are   *)
(* never within the time of a lease on one source, on both backends a      *)
(* recorded run keeps the settings of its source, and on PostgreSQL        *)
(* evidence keeps its source.                                              *)
(***************************************************************************)
EXTENDS SourceCollection, FiniteSetTheorems, TLAPS

\* The phases in which an actor holds a record it has read.
Reading == {"update", "delete", "write"}

Typed ==
    /\ backend \in {"dynamodb", "postgres"}
    /\ source \in [Sources -> Source]
    /\ lease \in [Sources -> Lease]
    /\ at = [x \in Actors |-> at[x]]
    /\ phase = [x \in Actors |-> phase[x]]
    /\ read = [x \in Actors |-> read[x]]
    /\ fresh \subseteq Actors
    /\ \A a \in Schedulers : phase[a] = "unlock" => backend = "postgres"

\* A record that an actor holds is one, and while nobody has written the
\* source since, its settings are those of the source.  Time alone changes no
\* setting.
ReadsHold ==
    /\ \A x \in Actors : phase[x] \in Reading /\ at[x] \in Sources => read[x] \in Source
    /\ \A x \in fresh : phase[x] \in Reading
    /\ \A x \in fresh : at[x] \in Sources =>
          /\ read[x].enabled = source[at[x]].enabled
          /\ read[x].scheduled = source[at[x]].scheduled

\* On DynamoDB the lease of a scheduler that is within its time is still there.
LeasesHold ==
    backend = "dynamodb" =>
        \A a \in Schedulers : \A s \in Sources :
            InTime(a, s) => lease[s] = [owner |-> a, live |-> TRUE]

CollectionInv == Typed /\ ReadsHold /\ LeasesHold

LEMMA InitCollectionInv == Init => CollectionInv
  <1> SUFFICES ASSUME Init PROVE CollectionInv
    OBVIOUS
  <1> USE CollectionAssumption DEF Init
  <1>1. Typed
    BY DEF Typed, Source, Unsaved, Lease, NoLease, Actors
  <1>2. ReadsHold
    BY DEF ReadsHold, Reading
  <1>3. LeasesHold
    BY DEF LeasesHold, InTime, Actors
  <1> QED BY <1>1, <1>2, <1>3 DEF CollectionInv

\* What is stored is a record, whatever was changed meanwhile.
LEMMA MergedIsSource ==
  ASSUME NEW x, NEW s, NEW want \in Source, source[s] \in Source
  PROVE  Merged(x, s, want) \in Source
  BY DEF Merged, Source

\* Replacing a record keeps the types and makes every earlier reading of it
\* stale.
LEMMA PutSourceKeeps ==
  ASSUME Typed, ReadsHold, NEW s, NEW new, PutSource(s, new),
         s \in Sources => new \in Source
  PROVE  /\ source' \in [Sources -> Source]
         /\ fresh' \subseteq fresh
         /\ \A x \in fresh' : at[x] \in Sources => source'[at[x]] = source[at[x]]
  <1>1. source' \in [Sources -> Source]
    BY DEF Typed, PutSource
  <1>2. fresh' \subseteq fresh
    BY DEF PutSource
  <1>3. \A x \in fresh' : at[x] \in Sources => source'[at[x]] = source[at[x]]
    BY DEF Typed, PutSource
  <1> QED BY <1>1, <1>2, <1>3

LEMMA CreateKeeps ==
  ASSUME CollectionInv, NEW s \in Sources, Create(s)
  PROVE  CollectionInv'
  <1> USE CollectionAssumption DEF CollectionInv, Create, records, leases, actor
  <1>1. PICK new \in Source : PutSource(s, new)
    BY DEF Source, Unsaved, NextRun, Scheduled
  <1>2. Typed'
    BY <1>1, PutSourceKeeps DEF Typed
  <1>3. ReadsHold'
    BY <1>1, PutSourceKeeps DEF Typed, ReadsHold
  <1>4. LeasesHold'
    BY DEF LeasesHold, InTime
  <1> QED BY <1>2, <1>3, <1>4

LEMMA StoreEvidenceKeeps ==
  ASSUME CollectionInv, NEW s \in Sources, StoreEvidence(s)
  PROVE  CollectionInv'
  <1> USE CollectionAssumption DEF CollectionInv, StoreEvidence, records, leases, actor
  <1>1. Typed'
    BY DEF Typed, Actors
  <1>2. ReadsHold'
    BY DEF Typed, ReadsHold, Reading, Actors
  <1>3. LeasesHold'
    BY DEF Typed, LeasesHold, InTime, Actors
  <1> QED BY <1>1, <1>2, <1>3

LEMMA BecomeDueKeeps ==
  ASSUME CollectionInv, NEW s \in Sources, BecomeDue(s)
  PROVE  CollectionInv'
  <1> USE CollectionAssumption DEF CollectionInv, BecomeDue, records, leases, actor
  <1>1. source[s] \in Source /\ [source[s] EXCEPT !.next = "due"] \in Source
    BY DEF Typed, Source
  <1>2. Typed'
    BY <1>1 DEF Typed
  <1>3. \A t \in Sources : /\ source'[t].enabled = source[t].enabled
                            /\ source'[t].scheduled = source[t].scheduled
    BY <1>1 DEF Typed, Source
  <1>4. ReadsHold'
    BY <1>3 DEF ReadsHold
  <1>5. LeasesHold'
    BY DEF LeasesHold, InTime
  <1> QED BY <1>2, <1>4, <1>5

LEMMA BeginUpdateKeeps ==
  ASSUME CollectionInv, NEW u \in Users, NEW s \in Sources, BeginUpdate(u, s)
  PROVE  CollectionInv'
  <1> USE CollectionAssumption DEF CollectionInv, BeginUpdate, records, leases, actor, Look
  <1>1. Typed'
    BY DEF Typed, Actors
  <1>2. ReadsHold'
    BY DEF Typed, ReadsHold, Reading, Actors
  <1>3. LeasesHold'
    BY DEF Typed, LeasesHold, InTime, Actors
  <1> QED BY <1>1, <1>2, <1>3

LEMMA BeginDeleteKeeps ==
  ASSUME CollectionInv, NEW u \in Users, NEW s \in Sources, BeginDelete(u, s)
  PROVE  CollectionInv'
  <1> USE CollectionAssumption DEF CollectionInv, BeginDelete, records, leases, actor, Look
  <1>1. Typed'
    BY DEF Typed, Actors
  <1>2. ReadsHold'
    BY DEF Typed, ReadsHold, Reading, Actors
  <1>3. LeasesHold'
    BY DEF Typed, LeasesHold, InTime, Actors
  <1> QED BY <1>1, <1>2, <1>3

LEMMA StartPassKeeps ==
  ASSUME CollectionInv, NEW a \in Schedulers, StartPass(a)
  PROVE  CollectionInv'
  <1> USE CollectionAssumption DEF CollectionInv, StartPass, records, leases, actor
  <1>1. Typed'
    BY DEF Typed, Actors
  <1>2. ReadsHold'
    BY DEF Typed, ReadsHold, Reading, Actors
  <1>3. LeasesHold'
    BY DEF Typed, LeasesHold, InTime, Actors
  <1> QED BY <1>1, <1>2, <1>3

LEMMA EndUpdateKeeps ==
  ASSUME CollectionInv, NEW u \in Users, EndUpdate(u)
  PROVE  CollectionInv'
  <1> USE CollectionAssumption DEF CollectionInv, EndUpdate, records, leases, actor, Leave, Forget
  <1>1. u \in Actors /\ u \notin Schedulers
    BY DEF Actors
  <1>2. ASSUME NEW e \in BOOLEAN, NEW d \in BOOLEAN, at[u] \in Sources
        PROVE  LET want == [read[u] EXCEPT !.enabled = e, !.scheduled = d]
               IN  Merged(u, at[u], [want EXCEPT !.next = NextRun(want)]) \in Source
    <2> DEFINE want == [read[u] EXCEPT !.enabled = e, !.scheduled = d]
    <2>1. read[u] \in Source
      BY <1>1, <1>2 DEF ReadsHold, Reading
    <2>2. want \in Source /\ [want EXCEPT !.next = NextRun(want)] \in Source
      BY <2>1 DEF Source, NextRun
    <2>3. source[at[u]] \in Source
      BY <1>2 DEF Typed
    <2> QED BY <2>2, <2>3, MergedIsSource
  <1>3. \/ \E new : /\ PutSource(at[u], new)
                    /\ at[u] \in Sources => new \in Source
        \/ source' = source /\ fresh' = fresh \ {u}
    <2>1. CASE MayWrite(u, at[u])
      <3>1. PICK e \in BOOLEAN, d \in BOOLEAN :
               LET want == [read[u] EXCEPT !.enabled = e, !.scheduled = d]
               IN  PutSource(at[u], Merged(u, at[u], [want EXCEPT !.next = NextRun(want)]))
        BY <2>1
      <3> QED BY <3>1, <1>2
    <2>2. CASE ~MayWrite(u, at[u])
      BY <2>2
    <2> QED BY <2>1, <2>2
  <1>4. u \notin fresh'
    BY <1>3 DEF PutSource
  <1>5. Typed'
    BY <1>1, <1>3, PutSourceKeeps DEF Typed, Actors
  <1>6. ReadsHold'
    BY <1>1, <1>3, <1>4, PutSourceKeeps DEF Typed, ReadsHold, Reading
  <1>7. LeasesHold'
    BY <1>1 DEF Typed, LeasesHold, InTime, Actors
  <1> QED BY <1>5, <1>6, <1>7

LEMMA EndDeleteKeeps ==
  ASSUME CollectionInv, NEW u \in Users, EndDelete(u)
  PROVE  CollectionInv'
  <1> USE CollectionAssumption DEF CollectionInv, EndDelete, records, leases, actor, Leave, Forget
  <1>1. u \in Actors /\ u \notin Schedulers
    BY DEF Actors
  <1>2. [Unsaved EXCEPT !.life = "deleted"] \in Source /\ NoLease \in Lease
    BY DEF Unsaved, Source, NoLease, Lease
  <1>3. \/ PutSource(at[u], [Unsaved EXCEPT !.life = "deleted"])
        \/ source' = source /\ fresh' = fresh \ {u}
    OBVIOUS
  <1>4. u \notin fresh'
    BY <1>3 DEF PutSource
  <1>5. Typed'
    BY <1>1, <1>2, <1>3, PutSourceKeeps DEF Typed, Actors
  <1>6. ReadsHold'
    BY <1>1, <1>2, <1>3, <1>4, PutSourceKeeps DEF Typed, ReadsHold, Reading
  <1>7. LeasesHold'
    BY <1>1 DEF Typed, LeasesHold, InTime, Actors
  <1> QED BY <1>5, <1>6, <1>7

LEMMA AcquireKeeps ==
  ASSUME CollectionInv, NEW a \in Schedulers, Acquire(a)
  PROVE  CollectionInv'
  <1> USE CollectionAssumption DEF CollectionInv, Acquire, records, leases, actor, Acquirable, Free, Visit
  <1>1. a \in Actors /\ [owner |-> a, live |-> TRUE] \in Lease
    BY DEF Actors, Lease
  <1>2. Typed'
    BY <1>1 DEF Typed, Actors
  <1>3. ReadsHold'
    BY <1>1 DEF Typed, ReadsHold, Reading
  <1>4. LeasesHold'
    <2> SUFFICES ASSUME backend = "dynamodb",
                        NEW b \in Schedulers, NEW s \in Sources, InTime(b, s)'
                 PROVE  lease'[s] = [owner |-> b, live |-> TRUE]
      BY DEF LeasesHold
    <2>1. CASE InTime(b, s)
      <3>1. lease[s] = [owner |-> b, live |-> TRUE]
        BY <2>1 DEF LeasesHold
      <3>2. ~Free(s)
        BY <3>1
      <3>3. lease'[s] = lease[s]
        BY <3>2 DEF Typed
      <3> QED BY <3>1, <3>3
    <2>2. CASE ~InTime(b, s)
      <3>1. b = a /\ at' # at
        BY <2>2, <1>1 DEF Typed, InTime, Actors
      <3> QED BY <3>1, <1>1 DEF Typed, InTime
    <2> QED BY <2>1, <2>2
  <1> QED BY <1>2, <1>3, <1>4

LEMMA CollectKeeps ==
  ASSUME CollectionInv, NEW a \in Schedulers, Collect(a)
  PROVE  CollectionInv'
  <1> USE CollectionAssumption DEF CollectionInv, Collect, records, leases, actor
  <1>1. Typed'
    BY DEF Typed, Actors
  <1>2. ReadsHold'
    BY DEF Typed, ReadsHold, Reading, Actors
  <1>3. LeasesHold'
    BY DEF Typed, LeasesHold, InTime, Actors
  <1> QED BY <1>1, <1>2, <1>3

LEMMA RecordReadKeeps ==
  ASSUME CollectionInv, NEW a \in Schedulers, RecordRead(a)
  PROVE  CollectionInv'
  <1> USE CollectionAssumption DEF CollectionInv, RecordRead, records, leases, actor, Look
  <1>1. a \in Actors
    BY DEF Actors
  <1>2. at' = at
    BY <1>1 DEF Typed
  <1>3. Typed'
    BY <1>1 DEF Typed, Actors
  <1>4. ReadsHold'
    <2>1. CASE Stored(at[a])
      <3>1. Look(a, at[a], "write")
        BY <2>1
      <3> QED BY <1>1, <1>2, <3>1 DEF Typed, ReadsHold, Reading
    <2>2. CASE ~Stored(at[a])
      BY <1>1, <2>2 DEF Typed, ReadsHold, Reading
    <2> QED BY <2>1, <2>2
  <1>5. LeasesHold'
    BY <1>2 DEF LeasesHold, InTime
  <1> QED BY <1>3, <1>4, <1>5

LEMMA RecordWriteKeeps ==
  ASSUME CollectionInv, NEW a \in Schedulers, RecordWrite(a)
  PROVE  CollectionInv'
  <1> USE CollectionAssumption DEF CollectionInv, RecordWrite, records, leases, actor, Forget
  <1>1. a \in Actors
    BY DEF Actors
  <1> DEFINE new == Merged(a, at[a], [read[a] EXCEPT !.next = NextRun(read[a])])
  <1>2. at[a] \in Sources => new \in Source
    <2> SUFFICES ASSUME at[a] \in Sources PROVE new \in Source
      OBVIOUS
    <2>1. read[a] \in Source
      BY <1>1 DEF ReadsHold, Reading
    <2>2. [read[a] EXCEPT !.next = NextRun(read[a])] \in Source
      BY <2>1 DEF Source, NextRun
    <2>3. source[at[a]] \in Source
      BY DEF Typed
    <2> QED BY <2>2, <2>3, MergedIsSource
  <1>3. PutSource(at[a], new) \/ (source' = source /\ fresh' = fresh \ {a})
    OBVIOUS
  <1>4. a \notin fresh'
    BY <1>3 DEF PutSource
  <1> HIDE DEF new
  <1>5. Typed'
    BY <1>1, <1>2, <1>3, PutSourceKeeps DEF Typed, Actors
  <1>6. ReadsHold'
    BY <1>1, <1>2, <1>3, <1>4, PutSourceKeeps DEF Typed, ReadsHold, Reading
  <1>7. LeasesHold'
    BY DEF LeasesHold, InTime
  <1> QED BY <1>5, <1>6, <1>7

LEMMA ReleaseKeeps ==
  ASSUME CollectionInv, NEW a \in Schedulers, Release(a)
  PROVE  CollectionInv'
  <1> USE CollectionAssumption DEF CollectionInv, Release, records, leases, actor, Leave, Visit
  <1>1. a \in Actors /\ NoLease \in Lease /\ None \notin Sources
    BY DEF Actors, NoLease, Lease
  <1>2. Typed'
    <2>1. phase'[a] = "unlock" => backend = "postgres"
      BY <1>1 DEF Typed
    <2>2. \A b \in Schedulers \ {a} : phase'[b] = phase[b]
      BY DEF Typed, Actors
    <2>3. \A b \in Schedulers : phase'[b] = "unlock" => backend' = "postgres"
      BY <2>1, <2>2 DEF Typed
    <2> QED BY <1>1, <2>3 DEF Typed
  <1>3. ReadsHold'
    BY <1>1 DEF Typed, ReadsHold, Reading
  <1>4. LeasesHold'
    <2> SUFFICES ASSUME backend = "dynamodb",
                        NEW b \in Schedulers, NEW s \in Sources, InTime(b, s)'
                 PROVE  lease'[s] = [owner |-> b, live |-> TRUE]
      BY DEF LeasesHold
    <2>1. at'[a] = None
      BY <1>1 DEF Typed
    <2>2. b # a /\ InTime(b, s)
      BY <2>1, <1>1 DEF Typed, InTime, Actors
    <2>3. lease[s] = [owner |-> b, live |-> TRUE]
      BY <2>2 DEF LeasesHold
    <2>4. lease[at[a]].owner = a => at[a] # s
      BY <2>2, <2>3
    <2> QED BY <2>3, <2>4 DEF Typed
  <1> QED BY <1>2, <1>3, <1>4

LEMMA UnlockKeeps ==
  ASSUME CollectionInv, NEW a \in Schedulers, Unlock(a)
  PROVE  CollectionInv'
  <1> USE CollectionAssumption DEF CollectionInv, Unlock, records, leases, actor, Leave, Visit
  <1>1. a \in Actors /\ NoLease \in Lease /\ None \notin Sources
    BY DEF Actors, NoLease, Lease
  <1>2. Typed'
    BY <1>1 DEF Typed
  <1>3. ReadsHold'
    BY <1>1 DEF Typed, ReadsHold, Reading
  <1>4. LeasesHold'
    BY <1>1 DEF Typed, LeasesHold, InTime, Actors
  <1> QED BY <1>2, <1>3, <1>4

LEMMA RecordUnavailableKeeps ==
  ASSUME CollectionInv, NEW a \in Schedulers, RecordUnavailable(a)
  PROVE  CollectionInv'
  <1> USE CollectionAssumption DEF CollectionInv, RecordUnavailable, records, leases, actor, Forget
  <1>1. Typed'
    BY DEF Typed, Actors
  <1>2. ReadsHold'
    BY DEF Typed, ReadsHold, Reading, Actors
  <1>3. LeasesHold'
    BY DEF Typed, LeasesHold, InTime, Actors
  <1> QED BY <1>1, <1>2, <1>3

LEMMA DieKeeps ==
  ASSUME CollectionInv, NEW a \in Schedulers, Die(a)
  PROVE  CollectionInv'
  <1> USE CollectionAssumption DEF CollectionInv, Die, records, leases, actor, Leave, Forget
  <1>1. Typed'
    BY DEF Typed, Actors
  <1>2. ReadsHold'
    BY DEF Typed, ReadsHold, Reading, Actors
  <1>3. LeasesHold'
    BY DEF Typed, LeasesHold, InTime, Actors
  <1> QED BY <1>1, <1>2, <1>3

LEMMA LeaseRunsOutKeeps ==
  ASSUME CollectionInv, NEW a \in Schedulers, NEW s \in Sources, LeaseRunsOut(a, s)
  PROVE  CollectionInv'
  <1> USE CollectionAssumption DEF CollectionInv, LeaseRunsOut, records, leases, actor
  <1>1. [lease[s] EXCEPT !.live = FALSE] \in Lease
    BY DEF Typed, Lease
  <1>2. Typed'
    BY <1>1 DEF Typed
  <1>3. ReadsHold'
    BY DEF ReadsHold
  <1>4. LeasesHold'
    <2> SUFFICES ASSUME backend = "dynamodb",
                        NEW b \in Schedulers, NEW t \in Sources, InTime(b, t)'
                 PROVE  lease'[t] = [owner |-> b, live |-> TRUE]
      BY DEF LeasesHold
    <2>1. InTime(b, t) /\ (b # a \/ t # s)
      BY DEF InTime
    <2>2. lease[t] = [owner |-> b, live |-> TRUE]
      BY <2>1 DEF LeasesHold
    <2>3. lease[s].owner = a => t # s
      BY <2>1, <2>2
    <2> QED BY <2>2, <2>3 DEF Typed
  <1> QED BY <1>2, <1>3, <1>4

LEMMA StepKeepsCollectionInv == CollectionInv /\ [Next]_vars => CollectionInv'
  <1> SUFFICES ASSUME CollectionInv, [Next]_vars PROVE CollectionInv'
    OBVIOUS
  <1>1. ASSUME NEW s \in Sources, Create(s) \/ StoreEvidence(s) \/ BecomeDue(s)
        PROVE  CollectionInv'
    BY <1>1, CreateKeeps, StoreEvidenceKeeps, BecomeDueKeeps
  <1>2. ASSUME NEW u \in Users, User(u) PROVE CollectionInv'
    BY <1>2, BeginUpdateKeeps, BeginDeleteKeeps, EndUpdateKeeps, EndDeleteKeeps DEF User
  <1>3. ASSUME NEW a \in Schedulers, Scheduler(a) PROVE CollectionInv'
    BY <1>3, StartPassKeeps, AcquireKeeps, CollectKeeps, RecordReadKeeps,
       RecordWriteKeeps, ReleaseKeeps, UnlockKeeps DEF Scheduler
  <1>4. ASSUME NEW a \in Schedulers, RecordUnavailable(a) \/ Die(a) PROVE CollectionInv'
    BY <1>4, RecordUnavailableKeeps, DieKeeps
  <1>5. ASSUME NEW a \in Schedulers, NEW s \in Sources, LeaseRunsOut(a, s)
        PROVE  CollectionInv'
    BY <1>5, LeaseRunsOutKeeps
  <1>6. CASE UNCHANGED vars
    BY <1>6 DEF vars, records, leases, actor, CollectionInv, Typed, ReadsHold, LeasesHold, InTime
  <1> QED BY <1>1, <1>2, <1>3, <1>4, <1>5, <1>6 DEF Next

LEMMA AlwaysCollectionInv == Spec => []CollectionInv
  <1> QED BY InitCollectionInv, StepKeepsCollectionInv, PTL DEF Spec

\* On DynamoDB two schedulers are never within the time of a lease on one
\* source, however long their runs take and whichever processes die.
THEOREM LeasesExclude == Spec => []DynamoLeaseExcludes
  <1>1. CollectionInv => DynamoLeaseExcludes
    <2> SUFFICES ASSUME CollectionInv, backend = "dynamodb",
                        NEW a \in Schedulers, NEW b \in Schedulers, NEW s \in Sources,
                        InTime(a, s), InTime(b, s)
                 PROVE  a = b
      BY DEF DynamoLeaseExcludes, LeaseExcludes
    <2>1. lease[s] = [owner |-> a, live |-> TRUE] /\ lease[s] = [owner |-> b, live |-> TRUE]
      BY DEF CollectionInv, LeasesHold
    <2> QED BY <2>1
  <1> QED BY <1>1, AlwaysCollectionInv, PTL

\* The write of a run, whatever was edited since its record was read, leaves
\* the settings of every source as they are.
LEMMA WriteKeepsSettings ==
  ASSUME CollectionInv, NEW a \in Schedulers, RecordWrite(a), NEW s \in Sources
  PROVE  source'[s].enabled = source[s].enabled /\ source'[s].scheduled = source[s].scheduled
  <1> DEFINE want == [read[a] EXCEPT !.next = NextRun(read[a])]
  <1>1. CASE ~MayWrite(a, at[a]) \/ at[a] # s
    BY <1>1 DEF RecordWrite, PutSource, CollectionInv, Typed
  <1>2. CASE MayWrite(a, at[a]) /\ at[a] = s
    <2>1. source'[s] = Merged(a, s, want)
      BY <1>2 DEF RecordWrite, PutSource, CollectionInv, Typed
    <2>2. read[a] \in Source /\ source[s] \in Source
      BY <1>2 DEF RecordWrite, CollectionInv, Typed, ReadsHold, Reading, Actors
    <2>3. DOMAIN want = {"life", "enabled", "scheduled", "next"}
          /\ want.enabled = read[a].enabled /\ want.scheduled = read[a].scheduled
      BY <2>2 DEF Source
    <2> HIDE DEF want
    <2>4. CASE backend = "dynamodb"
      <3>1. /\ read[a].enabled = source[s].enabled
            /\ read[a].scheduled = source[s].scheduled
        BY <1>2, <2>4 DEF MayWrite, CollectionInv, ReadsHold
      <3>2. source'[s] = want
        BY <2>1, <2>4 DEF Merged
      <3> QED BY <3>1, <3>2, <2>3
    <2>5. CASE backend # "dynamodb"
      BY <2>1, <2>3, <2>5 DEF Merged
    <2> QED BY <2>4, <2>5
  <1> QED BY <1>1, <1>2

\* Recording a run never changes whether a source is enabled and scheduled,
\* on either backend and whatever its users edit meanwhile.
THEOREM RecordedRunsKeepSettings == Spec => RunsKeepSettings
  <1> DEFINE Kept == \A a \in Schedulers : phase[a] = "write" /\ phase'[a] # "write" =>
                        \A s \in Sources : /\ source'[s].enabled = source[s].enabled
                                            /\ source'[s].scheduled = source[s].scheduled
  <1>1. CollectionInv /\ [Next]_vars => [Kept]_vars
    <2> SUFFICES ASSUME CollectionInv, [Next]_vars,
                        NEW a \in Schedulers, phase[a] = "write", phase'[a] # "write",
                        NEW s \in Sources
                 PROVE  /\ source'[s].enabled = source[s].enabled
                        /\ source'[s].scheduled = source[s].scheduled
      OBVIOUS
    <2> DEFINE Same == /\ source'[s].enabled = source[s].enabled
                       /\ source'[s].scheduled = source[s].scheduled
    <2>1. a \in Actors /\ a \notin Users
      BY CollectionAssumption DEF Actors
    <2>2. ASSUME NEW t \in Sources, Create(t) \/ StoreEvidence(t) \/ BecomeDue(t)
          PROVE  FALSE
      BY <2>2 DEF Create, StoreEvidence, BecomeDue, actor
    <2>3. ASSUME NEW u \in Users, User(u) PROVE FALSE
      <3>1. u # a /\ u \in Actors
        BY <2>1 DEF Actors
      <3>2. \E next : phase' = [phase EXCEPT ![u] = next]
        BY <2>3 DEF User, BeginUpdate, BeginDelete, EndUpdate, EndDelete, Look, Leave
      <3> QED BY <2>1, <3>1, <3>2 DEF CollectionInv, Typed
    <2>4. ASSUME NEW b \in Schedulers, Scheduler(b) PROVE Same
      <3>1. CASE RecordWrite(b)
        BY <3>1, WriteKeepsSettings
      <3>2. CASE ~RecordWrite(b)
        BY <2>4, <3>2 DEF Scheduler, StartPass, Acquire, Collect, RecordRead, Look,
                          Release, Unlock, records
      <3> QED BY <3>1, <3>2
    <2>5. ASSUME NEW b \in Schedulers, RecordUnavailable(b) \/ Die(b) PROVE Same
      BY <2>5 DEF RecordUnavailable, Die, records
    <2>6. ASSUME NEW b \in Schedulers, NEW t \in Sources, LeaseRunsOut(b, t)
          PROVE  FALSE
      BY <2>6 DEF LeaseRunsOut, actor
    <2>7. CASE UNCHANGED vars
      BY <2>7 DEF vars, actor
    <2> QED BY <2>2, <2>3, <2>4, <2>5, <2>6, <2>7 DEF Next
  <1>2. Spec => [][Kept]_vars
    BY <1>1, AlwaysCollectionInv, PTL DEF Spec
  <1> QED BY <1>2 DEF RunsKeepSettings

-----------------------------------------------------------------------------
(***************************************************************************)
(* Types and evidence.                                                     *)
(***************************************************************************)
\* What Among returns: the elements that are asked for, each where it was.
LEMMA AmongKeeps ==
  ASSUME NEW S, NEW seq \in Seq(S), NEW keep
  PROVE  /\ Among(seq, keep) \in Seq(S)
         /\ ToSet(Among(seq, keep)) = ToSet(seq) \cap keep
  <1> DEFINE kept == {i \in DOMAIN seq : seq[i] \in keep}
             rank(i) == Cardinality({k \in kept : k <= i})
             n == Cardinality(kept)
             ranks == [i \in kept |-> rank(i)]
             among == Among(seq, keep)
  <1>1. DOMAIN seq = 1 .. Len(seq) /\ Len(seq) \in Nat /\ kept \subseteq Nat
    OBVIOUS
  <1>2. IsFiniteSet(1 .. Len(seq))
    <2>1. 1 \in Int /\ Len(seq) \in Int
      BY <1>1
    <2> QED BY <2>1, FS_Interval
  <1>3. IsFiniteSet(kept)
    BY <1>1, <1>2, FS_Subset
  <1>4. n \in Nat
    BY <1>3, FS_CardinalityType
  <1>5. among = [j \in 1 .. n |-> seq[CHOOSE i \in kept : rank(i) = j]]
    BY DEF Among
  <1> HIDE DEF among
  <1>6. ASSUME NEW i \in kept PROVE rank(i) \in 1 .. n
    <2> DEFINE low == {k \in kept : k <= i}
    <2>1. IsFiniteSet(low) /\ Cardinality(low) <= n
      BY <1>3, FS_Subset
    <2>2. i \in low
      BY <1>1
    <2>3. Cardinality(low) # 0
      BY <2>1, <2>2, FS_EmptySet
    <2>4. Cardinality(low) \in Nat
      BY <2>1, FS_CardinalityType
    <2> HIDE DEF low, n
    <2>5. Cardinality(low) \in 1 .. n
      BY <1>4, <2>1, <2>3, <2>4
    <2> QED BY <2>5 DEF low
  <1>7. ASSUME NEW i \in kept, NEW j \in kept, i < j PROVE rank(i) # rank(j)
    <2> DEFINE low  == {k \in kept : k <= i}
               high == {k \in kept : k <= j}
    <2>1. low \subseteq high
      BY <1>1, <1>7
    <2>2. IsFiniteSet(high)
      BY <1>3, FS_Subset
    <2>3. j \in high /\ j \notin low
      BY <1>1, <1>7
    <2>4. Cardinality(low) # Cardinality(high)
      BY <2>1, <2>2, <2>3, FS_Subset
    <2> QED BY <2>4
  <1>8. ranks \in [kept -> 1 .. n]
    BY <1>6
  <1>9. ranks \in Injection(kept, 1 .. n)
    <2>1. ASSUME NEW i \in kept, NEW j \in kept, rank(i) = rank(j) PROVE i = j
      <3>1. ~(i < j) /\ ~(j < i)
        BY <1>7, <2>1
      <3>2. i \in Nat /\ j \in Nat
        BY <1>1
      <3> QED BY <3>1, <3>2
    <2> HIDE DEF rank
    <2> QED BY <1>8, <2>1 DEF Injection, IsInjective
  <1>10. IsFiniteSet(1 .. n) /\ Cardinality(1 .. n) = n
    <2>1. 1 \in Int /\ n \in Int
      BY <1>4
    <2>2. IsFiniteSet(1 .. n) /\ Cardinality(1 .. n) = IF 1 > n THEN 0 ELSE n - 1 + 1
      BY <2>1, FS_Interval
    <2> HIDE DEF n
    <2> QED BY <1>4, <2>2
  <1>11. ranks \in Surjection(kept, 1 .. n)
    <2> HIDE DEF ranks
    <2> QED BY <1>9, <1>10, FS_Injection
  <1>12. ASSUME NEW j \in 1 .. n
         PROVE  \E i \in kept : rank(i) = j /\ among[j] = seq[i]
    <2>1. \E i \in kept : ranks[i] = j
      BY <1>11 DEF Surjection
    <2>2. \E i \in kept : rank(i) = j
      BY <2>1
    <2> DEFINE i == CHOOSE i \in kept : rank(i) = j
    <2>3. i \in kept /\ rank(i) = j
      BY <2>2
    <2> HIDE DEF rank, n, kept
    <2> QED BY <1>5, <2>3
  <1> HIDE DEF n, rank, ranks
  <1>13. among \in Seq(S)
    <2>1. \A j \in 1 .. n : among[j] \in S
      BY <1>1, <1>12
    <2> HIDE DEF kept
    <2> QED BY <1>4, <1>5, <2>1
  <1>14. ToSet(among) = ToSet(seq) \cap keep
    <2>1. DOMAIN among = 1 .. n
      BY <1>5
    <2>2. ASSUME NEW x \in ToSet(among) PROVE x \in ToSet(seq) /\ x \in keep
      <3>1. PICK j \in 1 .. n : x = among[j]
        BY <2>1 DEF ToSet
      <3> QED BY <1>12, <3>1 DEF ToSet
    <2>3. ASSUME NEW x \in ToSet(seq), x \in keep PROVE x \in ToSet(among)
      <3>1. PICK i \in kept : x = seq[i]
        BY <2>3 DEF ToSet
      <3>2. rank(i) \in 1 .. n
        BY <1>6
      <3>3. PICK k \in kept : rank(k) = rank(i) /\ among[rank(i)] = seq[k]
        BY <1>12, <3>2
      <3>4. k = i
        BY <1>1, <1>7, <3>3
      <3> QED BY <2>1, <3>1, <3>2, <3>3, <3>4 DEF ToSet
    <2> QED BY <2>2, <2>3
  <1> QED BY <1>13, <1>14 DEF among

\* A scheduler that works and a user whose request is under way have a
\* source; a scheduler goes to the next source only if there is one.
Placed ==
    /\ \A x \in Actors : phase[x] \in Working \cup {"update", "delete"} => at[x] \in Sources
    /\ \A a \in Schedulers : phase[a] = "visit" => pending[a] # <<>>

SourcesInv == CollectionInv /\ TypeOK /\ Placed /\ PostgresEvidenceHasSource

\* Replacing a record keeps the order of the due sources that of their records.
LEMMA PutSourceTypes ==
  ASSUME SourcesInv, NEW s \in Sources, NEW new \in Source, PutSource(s, new),
         new.next = "due" => source[s].next = "due"
  PROVE  /\ source' \in [Sources -> Source] /\ fresh' \subseteq fresh
         /\ dueOrder' \in Seq(Sources)
         /\ \A t \in Sources : source'[t].next = "due" <=> t \in ToSet(dueOrder')
  <1>1. /\ source \in [Sources -> Source] /\ dueOrder \in Seq(Sources)
        /\ \A t \in Sources : source[t].next = "due" <=> t \in ToSet(dueOrder)
    BY DEF SourcesInv, TypeOK
  <1>2. /\ source' = [source EXCEPT ![s] = new] /\ fresh' \subseteq fresh
        /\ dueOrder' = IF new.next = "due" THEN dueOrder ELSE Among(dueOrder, Sources \ {s})
    BY DEF PutSource
  <1>3. /\ Among(dueOrder, Sources \ {s}) \in Seq(Sources)
        /\ ToSet(Among(dueOrder, Sources \ {s})) = ToSet(dueOrder) \cap (Sources \ {s})
    BY <1>1, AmongKeeps
  <1>4. CASE new.next = "due"
    BY <1>1, <1>2, <1>4
  <1>5. CASE new.next # "due"
    <2>1. dueOrder' = Among(dueOrder, Sources \ {s})
      BY <1>2, <1>5
    <2> QED BY <1>1, <1>2, <1>3, <1>5, <2>1
  <1> QED BY <1>4, <1>5

\* A write that is based on an earlier reading never makes a source due, and
\* on PostgreSQL does not bring it to life or end it.
LEMMA MergedFields ==
  ASSUME NEW x, NEW s, NEW r \in Source, read[x] \in Source, source[s] \in Source,
         r.life = read[x].life
  PROVE  LET new == Merged(x, s, [r EXCEPT !.next = NextRun(r)]) IN
         /\ new \in Source
         /\ new.next = "due" => source[s].next = "due"
         /\ backend # "dynamodb" => new.life = source[s].life
  <1> DEFINE want == [r EXCEPT !.next = NextRun(r)]
  <1>1. /\ want \in Source /\ want.next # "due" /\ want.life = read[x].life
        /\ DOMAIN want = {"life", "enabled", "scheduled", "next"}
    BY DEF Source, NextRun
  <1> HIDE DEF want
  <1>2. Merged(x, s, want) \in Source
    BY <1>1, MergedIsSource
  <1>3. Merged(x, s, want).next = "due" => source[s].next = "due"
    <2>1. CASE backend = "dynamodb"
      BY <1>1, <2>1 DEF Merged
    <2>2. CASE backend # "dynamodb"
      <3>1. Merged(x, s, want).next \in {source[s].next, want.next}
        BY <1>1, <2>2 DEF Merged
      <3> QED BY <1>1, <3>1
    <2> QED BY <2>1, <2>2
  <1>4. backend # "dynamodb" => Merged(x, s, want).life = source[s].life
    BY <1>1 DEF Merged
  <1> QED BY <1>2, <1>3, <1>4 DEF want

\* The write of an edit or of a recorded run, or the failure of it.
LEMMA WritingKeeps ==
  ASSUME SourcesInv, NEW x \in Actors, NEW r \in Source, r.life = read[x].life,
         phase[x] \in {"update", "write"},
         \/ /\ MayWrite(x, at[x])
            /\ PutSource(at[x], Merged(x, at[x], [r EXCEPT !.next = NextRun(r)]))
         \/ UNCHANGED <<source, dueOrder>> /\ fresh' \subseteq fresh,
         UNCHANGED <<backend, retained>>
  PROVE  /\ source' \in [Sources -> Source] /\ fresh' \subseteq fresh
         /\ dueOrder' \in Seq(Sources)
         /\ \A t \in Sources : source'[t].next = "due" <=> t \in ToSet(dueOrder')
         /\ PostgresEvidenceHasSource'
  <1>1. /\ source \in [Sources -> Source] /\ dueOrder \in Seq(Sources)
        /\ \A t \in Sources : source[t].next = "due" <=> t \in ToSet(dueOrder)
        /\ retained \subseteq Sources /\ read[x] \in Source /\ at[x] \in Sources
    BY DEF SourcesInv, TypeOK, Placed, Working
  <1> DEFINE new == Merged(x, at[x], [r EXCEPT !.next = NextRun(r)])
  <1>2. CASE MayWrite(x, at[x]) /\ PutSource(at[x], new)
    <2>1. /\ new \in Source
          /\ new.next = "due" => source[at[x]].next = "due"
          /\ backend # "dynamodb" => new.life = source[at[x]].life
      BY <1>1, MergedFields
    <2> HIDE DEF new
    <2>2. source' = [source EXCEPT ![at[x]] = new]
      BY <1>2 DEF PutSource
    <2>3. backend # "dynamodb" => \A t \in Sources : source'[t].life = source[t].life
      BY <1>1, <2>1, <2>2
    <2>4. PostgresEvidenceHasSource'
      BY <1>1, <2>3 DEF SourcesInv, PostgresEvidenceHasSource, EvidenceHasSource, Stored
    <2> QED BY <1>1, <1>2, <2>1, <2>4, PutSourceTypes
  <1>3. CASE UNCHANGED <<source, dueOrder>> /\ fresh' \subseteq fresh
    BY <1>1, <1>3 DEF SourcesInv, PostgresEvidenceHasSource, EvidenceHasSource, Stored
  <1> QED BY <1>2, <1>3

LEMMA InitSourcesInv == Init => SourcesInv
  <1> SUFFICES ASSUME Init PROVE SourcesInv
    OBVIOUS
  <1>1. TypeOK
    <2>1. Unsaved \in Source /\ Unsaved.next = "none" /\ NoLease \in Lease
      BY DEF Unsaved, Source, NoLease, Lease
    <2>2. <<>> \in Seq(Sources) /\ ToSet(<<>>) = {}
      BY DEF ToSet
    <2>3. 0 \in 0 .. MaxFaults
      BY CollectionAssumption
    <2> HIDE DEF Unsaved, NoLease
    <2> QED BY <2>1, <2>2, <2>3 DEF Init, TypeOK, Phases
  <1>2. Placed
    BY DEF Init, Placed, Working, Actors
  <1>3. PostgresEvidenceHasSource
    BY DEF Init, PostgresEvidenceHasSource, EvidenceHasSource
  <1> QED BY <1>1, <1>2, <1>3, InitCollectionInv DEF SourcesInv

LEMMA CreateKeepsSources ==
  ASSUME SourcesInv, NEW s \in Sources, Create(s)
  PROVE  TypeOK' /\ Placed' /\ PostgresEvidenceHasSource'
  <1> USE DEF Create, leases
  <1>1. PICK new \in Source : PutSource(s, new) /\ new.next # "due" /\ new.life = "stored"
    <2>1. PICK e \in BOOLEAN, d \in BOOLEAN :
             LET flags == [Unsaved EXCEPT !.life = "stored", !.enabled = e, !.scheduled = d]
             IN  PutSource(s, [flags EXCEPT !.next = NextRun(flags)])
      OBVIOUS
    <2> DEFINE flags == [Unsaved EXCEPT !.life = "stored", !.enabled = e, !.scheduled = d]
               new == [flags EXCEPT !.next = NextRun(flags)]
    <2>2. flags \in Source /\ flags.life = "stored"
      BY DEF Source, Unsaved
    <2> HIDE DEF flags
    <2>3. NextRun(flags) \in {"later", "none"}
      BY DEF NextRun
    <2>4. new \in Source /\ new.next # "due" /\ new.life = "stored"
      BY <2>2, <2>3 DEF Source
    <2>5. PutSource(s, new)
      BY <2>1 DEF flags
    <2> HIDE DEF new
    <2> QED BY <2>4, <2>5
  <1>2. TypeOK'
    <2>1. /\ source' \in [Sources -> Source] /\ fresh' \subseteq fresh
          /\ dueOrder' \in Seq(Sources)
          /\ \A t \in Sources : source'[t].next = "due" <=> t \in ToSet(dueOrder')
      BY <1>1, PutSourceTypes
    <2> QED BY <2>1 DEF SourcesInv, TypeOK
  <1>3. Placed'
    BY DEF SourcesInv, Placed
  <1>4. PostgresEvidenceHasSource'
    BY <1>1
    DEF SourcesInv, TypeOK, PutSource, PostgresEvidenceHasSource, EvidenceHasSource, Stored
  <1> QED BY <1>2, <1>3, <1>4

LEMMA StoreEvidenceKeepsSources ==
  ASSUME SourcesInv, NEW s \in Sources, StoreEvidence(s)
  PROVE  TypeOK' /\ Placed' /\ PostgresEvidenceHasSource'
  <1> USE DEF StoreEvidence, leases, actor
  <1>1. TypeOK'
    BY DEF SourcesInv, TypeOK
  <1>2. Placed'
    BY DEF SourcesInv, Placed
  <1>3. PostgresEvidenceHasSource'
    BY DEF SourcesInv, PostgresEvidenceHasSource, EvidenceHasSource, Stored
  <1> QED BY <1>1, <1>2, <1>3

LEMMA BecomeDueKeepsSources ==
  ASSUME SourcesInv, NEW s \in Sources, BecomeDue(s)
  PROVE  TypeOK' /\ Placed' /\ PostgresEvidenceHasSource'
  <1> USE DEF BecomeDue, leases, actor
  <1>1. /\ source' \in [Sources -> Source] /\ source'[s].next = "due"
        /\ \A t \in Sources \ {s} : source'[t] = source[t]
        /\ \A t \in Sources : source'[t].life = source[t].life
    BY DEF SourcesInv, TypeOK, Source
  <1>2. /\ dueOrder' \in Seq(Sources)
        /\ ToSet(dueOrder') = ToSet(dueOrder) \cup {s}
    <2>1. dueOrder \in Seq(Sources) /\ dueOrder' = Append(dueOrder, s)
      BY DEF SourcesInv, TypeOK
    <2>2. /\ dueOrder' \in Seq(Sources) /\ DOMAIN dueOrder' = 1 .. Len(dueOrder) + 1
          /\ DOMAIN dueOrder = 1 .. Len(dueOrder) /\ Len(dueOrder) \in Nat
          /\ \A i \in 1 .. Len(dueOrder) : dueOrder'[i] = dueOrder[i]
          /\ dueOrder'[Len(dueOrder) + 1] = s
      BY <2>1
    <2> QED BY <2>2 DEF ToSet
  <1>3. TypeOK'
    BY <1>1, <1>2 DEF SourcesInv, TypeOK
  <1>4. Placed'
    BY DEF SourcesInv, Placed
  <1>5. PostgresEvidenceHasSource'
    BY <1>1 DEF SourcesInv, TypeOK, PostgresEvidenceHasSource, EvidenceHasSource, Stored
  <1> QED BY <1>3, <1>4, <1>5

LEMMA BeginKeepsSources ==
  ASSUME SourcesInv, NEW u \in Users, NEW s \in Sources, BeginUpdate(u, s) \/ BeginDelete(u, s)
  PROVE  TypeOK' /\ Placed' /\ PostgresEvidenceHasSource'
  <1>1. /\ Look(u, s, "update") \/ Look(u, s, "delete")
        /\ UNCHANGED <<backend, records, leases, pending, faults>>
        /\ u \in Actors /\ u \notin Schedulers
    BY CollectionAssumption DEF BeginUpdate, BeginDelete, Actors
  <1>2. /\ phase' \in [Actors -> Phases] /\ at' \in [Actors -> Sources \cup {None}]
        /\ read' \in [Actors -> Source] /\ fresh' \subseteq Actors
    BY <1>1 DEF SourcesInv, TypeOK, Look, Phases
  <1>3. TypeOK'
    BY <1>1, <1>2 DEF SourcesInv, TypeOK, records, leases
  <1>4. Placed'
    BY <1>1 DEF SourcesInv, TypeOK, Placed, Look, Actors
  <1>5. PostgresEvidenceHasSource'
    BY <1>1 DEF SourcesInv, PostgresEvidenceHasSource, EvidenceHasSource, Stored, records
  <1> QED BY <1>3, <1>4, <1>5

\* An actor that is through with its source.
LEMMA LeavingKeeps ==
  ASSUME SourcesInv, NEW x \in Actors, NEW next \in {"idle", "visit"}, Leave(x, next)
  PROVE  /\ phase' \in [Actors -> Phases] /\ at' \in [Actors -> Sources \cup {None}]
         /\ lapsed' \subseteq Schedulers
         /\ \A y \in Actors : phase'[y] \in Working \cup {"update", "delete"} => at'[y] \in Sources
         /\ phase'[x] = next /\ \A y \in Actors \ {x} : phase'[y] = phase[y]
  BY DEF SourcesInv, TypeOK, Placed, Leave, Phases, Working

LEMMA NothingIsTyped == Unsaved \in Source /\ NoLease \in Lease
  BY DEF Unsaved, Source, NoLease, Lease

LEMMA EndUpdateKeepsSources ==
  ASSUME SourcesInv, NEW u \in Users, EndUpdate(u)
  PROVE  TypeOK' /\ Placed' /\ PostgresEvidenceHasSource'
  <1>1. /\ u \in Actors /\ u \notin Schedulers /\ phase[u] = "update"
        /\ Leave(u, "idle") /\ read' = [read EXCEPT ![u] = Unsaved]
        /\ UNCHANGED <<backend, retained, lease, pending, faults>>
    BY CollectionAssumption DEF EndUpdate, Actors, Forget
  <1>2. read[u] \in Source
    BY <1>1 DEF SourcesInv, TypeOK
  <1>3. PICK r \in Source : /\ r.life = read[u].life
          /\ \/ /\ MayWrite(u, at[u])
                /\ PutSource(at[u], Merged(u, at[u], [r EXCEPT !.next = NextRun(r)]))
             \/ UNCHANGED <<source, dueOrder>> /\ fresh' \subseteq fresh
    <2>1. CASE MayWrite(u, at[u])
      <3>1. PICK e \in BOOLEAN, d \in BOOLEAN :
               LET want == [read[u] EXCEPT !.enabled = e, !.scheduled = d]
               IN  PutSource(at[u], Merged(u, at[u], [want EXCEPT !.next = NextRun(want)]))
        BY <2>1 DEF EndUpdate
      <3> DEFINE want == [read[u] EXCEPT !.enabled = e, !.scheduled = d]
      <3>2. want \in Source /\ want.life = read[u].life
        BY <1>2 DEF Source
      <3>3. PutSource(at[u], Merged(u, at[u], [want EXCEPT !.next = NextRun(want)]))
        BY <3>1
      <3> HIDE DEF want
      <3> QED BY <2>1, <3>2, <3>3
    <2>2. CASE ~MayWrite(u, at[u])
      BY <1>2, <2>2 DEF EndUpdate
    <2> QED BY <2>1, <2>2
  <1>4. /\ source' \in [Sources -> Source] /\ fresh' \subseteq fresh
        /\ dueOrder' \in Seq(Sources)
        /\ \A t \in Sources : source'[t].next = "due" <=> t \in ToSet(dueOrder')
        /\ PostgresEvidenceHasSource'
    BY <1>1, <1>3, WritingKeeps
  <1>5. TypeOK'
    <2>1. read' \in [Actors -> Source]
      BY <1>1, NothingIsTyped DEF SourcesInv, TypeOK
    <2> QED BY <1>1, <1>4, <2>1, LeavingKeeps DEF SourcesInv, TypeOK
  <1>6. Placed'
    BY <1>1, LeavingKeeps DEF SourcesInv, Placed, Actors
  <1> QED BY <1>4, <1>5, <1>6

\* A deletion spares the sources that evidence refers to: PostgreSQL asks
\* again, at the moment it deletes.
LEMMA EndDeleteKeepsSources ==
  ASSUME SourcesInv, NEW u \in Users, EndDelete(u)
  PROVE  TypeOK' /\ Placed' /\ PostgresEvidenceHasSource'
  <1> DEFINE gone == [Unsaved EXCEPT !.life = "deleted"]
  <1>1. /\ u \in Actors /\ u \notin Schedulers /\ phase[u] = "delete"
        /\ Leave(u, "idle") /\ read' = [read EXCEPT ![u] = Unsaved]
        /\ UNCHANGED <<backend, retained, pending, faults>>
        /\ lease' = lease \/ lease' = [lease EXCEPT ![at[u]] = NoLease]
        /\ \/ (backend = "postgres" => at[u] \notin retained) /\ PutSource(at[u], gone)
           \/ UNCHANGED <<source, dueOrder>> /\ fresh' \subseteq fresh
    BY CollectionAssumption DEF EndDelete, Actors, Forget
  <1>2. gone \in Source /\ gone.next # "due" /\ at[u] \in Sources
    BY <1>1 DEF Unsaved, Source, SourcesInv, Placed
  <1> HIDE DEF gone
  <1>3. /\ source' \in [Sources -> Source] /\ fresh' \subseteq fresh
        /\ dueOrder' \in Seq(Sources)
        /\ \A t \in Sources : source'[t].next = "due" <=> t \in ToSet(dueOrder')
    <2>1. CASE PutSource(at[u], gone)
      BY <1>2, <2>1, PutSourceTypes
    <2>2. CASE UNCHANGED <<source, dueOrder>> /\ fresh' \subseteq fresh
      BY <2>2 DEF SourcesInv, TypeOK
    <2> QED BY <1>1, <2>1, <2>2
  <1>4. TypeOK'
    <2>1. read' \in [Actors -> Source]
      BY <1>1, NothingIsTyped DEF SourcesInv, TypeOK
    <2>2. lease' \in [Sources -> Lease]
      BY <1>1, NothingIsTyped DEF SourcesInv, TypeOK
    <2> QED BY <1>1, <1>3, <2>1, <2>2, LeavingKeeps DEF SourcesInv, TypeOK
  <1>5. Placed'
    BY <1>1, LeavingKeeps DEF SourcesInv, Placed, Actors
  <1>6. PostgresEvidenceHasSource'
    BY <1>1
    DEF SourcesInv, TypeOK, PutSource, PostgresEvidenceHasSource, EvidenceHasSource, Stored
  <1> QED BY <1>4, <1>5, <1>6

\* The rest of a pass is given up or not.
LEMMA PassTypes ==
  ASSUME SourcesInv, NEW a \in Schedulers,
         pending' = pending \/ pending' = [pending EXCEPT ![a] = <<>>]
  PROVE  pending' \in [Schedulers -> Seq(Sources)]
  <1>1. pending \in [Schedulers -> Seq(Sources)]
    BY DEF SourcesInv, TypeOK
  <1> DEFINE lists == Seq(Sources)
             none  == <<>>
  <1>2. none \in lists
    OBVIOUS
  <1>3. pending' = pending \/ pending' = [pending EXCEPT ![a] = none]
    OBVIOUS
  <1> HIDE DEF lists, none
  <1>4. pending' \in [Schedulers -> lists]
    BY <1>1, <1>2, <1>3 DEF lists
  <1> QED BY <1>4 DEF lists

\* The list of a pass holds due sources only.
LEMMA StartPassKeepsSources ==
  ASSUME SourcesInv, NEW a \in Schedulers, StartPass(a)
  PROVE  TypeOK' /\ Placed' /\ PostgresEvidenceHasSource'
  <1> DEFINE due == Among(dueOrder, {s \in Sources : Scheduled(source[s])})
  <1>1. /\ due # <<>> /\ a \in Actors
        /\ pending' = [pending EXCEPT ![a] = due] /\ phase' = [phase EXCEPT ![a] = "visit"]
        /\ UNCHANGED <<backend, records, leases, at, read, fresh, faults>>
    BY DEF StartPass, Actors
  <1>2. due \in Seq(Sources)
    BY AmongKeeps DEF SourcesInv, TypeOK
  <1> HIDE DEF due
  <1>3. TypeOK'
    BY <1>1, <1>2 DEF SourcesInv, TypeOK, records, leases, Phases
  <1>4. Placed'
    BY <1>1 DEF SourcesInv, TypeOK, Placed, Working
  <1>5. PostgresEvidenceHasSource'
    BY <1>1 DEF SourcesInv, PostgresEvidenceHasSource, EvidenceHasSource, Stored, records
  <1> QED BY <1>3, <1>4, <1>5

LEMMA AcquireKeepsSources ==
  ASSUME SourcesInv, NEW a \in Schedulers, Acquire(a)
  PROVE  TypeOK' /\ Placed' /\ PostgresEvidenceHasSource'
  <1> DEFINE s == Head(pending[a])
             rest == Tail(pending[a])
  <1>1. a \in Actors /\ phase[a] = "visit"
    BY DEF Acquire, Actors
  <1>2. s \in Sources /\ rest \in Seq(Sources)
    <2>1. pending[a] \in Seq(Sources) /\ pending[a] # <<>>
      BY <1>1 DEF SourcesInv, TypeOK, Placed
    <2> QED BY <2>1
  <1>3. /\ pending' = [pending EXCEPT ![a] = rest]
        /\ UNCHANGED <<backend, records, lapsed, read, fresh, faults>>
        /\ \/ /\ lease' = [lease EXCEPT ![s] = [owner |-> a, live |-> TRUE]]
              /\ at' = [at EXCEPT ![a] = s]
              /\ phase' = [phase EXCEPT ![a] = "collect"]
           \/ /\ phase' = [phase EXCEPT ![a] = Visit(rest)]
              /\ UNCHANGED <<lease, at>>
    BY DEF Acquire
  <1> HIDE DEF s, rest
  <1>4. Visit(rest) \in {"idle", "visit"} /\ (Visit(rest) = "visit" => rest # <<>>)
    BY DEF Visit
  <1>5. TypeOK'
    <2>1. lease' \in [Sources -> Lease]
      <3>1. [owner |-> a, live |-> TRUE] \in Lease
        BY DEF Lease
      <3> QED BY <1>3, <3>1 DEF SourcesInv, TypeOK
    <2>2. phase' \in [Actors -> Phases]
      BY <1>3, <1>4 DEF SourcesInv, TypeOK, Phases, Working
    <2>3. /\ at' \in [Actors -> Sources \cup {None}]
          /\ pending' \in [Schedulers -> Seq(Sources)]
      BY <1>2, <1>3 DEF SourcesInv, TypeOK
    <2> QED BY <1>3, <2>1, <2>2, <2>3 DEF SourcesInv, TypeOK, records
  <1>6. Placed'
    <2>1. \A x \in Actors : phase'[x] \in Working \cup {"update", "delete"} => at'[x] \in Sources
      BY <1>1, <1>2, <1>3, <1>4 DEF SourcesInv, TypeOK, Placed, Working
    <2>2. \A b \in Schedulers : phase'[b] = "visit" => pending'[b] # <<>>
      BY <1>1, <1>3, <1>4 DEF SourcesInv, TypeOK, Placed, Actors
    <2> QED BY <2>1, <2>2 DEF Placed
  <1>7. PostgresEvidenceHasSource'
    BY <1>3 DEF SourcesInv, PostgresEvidenceHasSource, EvidenceHasSource, Stored, records
  <1> QED BY <1>5, <1>6, <1>7

\* Collected evidence is stored only if its source still is.
LEMMA CollectKeepsSources ==
  ASSUME SourcesInv, NEW a \in Schedulers, Collect(a)
  PROVE  TypeOK' /\ Placed' /\ PostgresEvidenceHasSource'
  <1>1. /\ a \in Actors /\ phase[a] = "collect" /\ phase' = [phase EXCEPT ![a] = "record"]
        /\ retained' = retained \/ (Stored(at[a]) /\ retained' = retained \cup {at[a]})
        /\ UNCHANGED <<backend, source, dueOrder, leases, at, read, fresh, pending, faults>>
    BY DEF Collect, Actors
  <1>2. at[a] \in Sources
    BY <1>1 DEF SourcesInv, Placed, Working
  <1>3. TypeOK'
    BY <1>1, <1>2 DEF SourcesInv, TypeOK, leases, Phases, Working
  <1>4. Placed'
    BY <1>1, <1>2 DEF SourcesInv, TypeOK, Placed, Actors
  <1>5. PostgresEvidenceHasSource'
    BY <1>1 DEF SourcesInv, PostgresEvidenceHasSource, EvidenceHasSource, Stored
  <1> QED BY <1>3, <1>4, <1>5

LEMMA RecordReadKeepsSources ==
  ASSUME SourcesInv, NEW a \in Schedulers, RecordRead(a)
  PROVE  TypeOK' /\ Placed' /\ PostgresEvidenceHasSource'
  <1>1. /\ a \in Actors /\ phase[a] = "record"
        /\ UNCHANGED <<backend, records, leases, faults>>
        /\ \/ Look(a, at[a], "write") /\ UNCHANGED pending
           \/ /\ pending' = [pending EXCEPT ![a] = <<>>]
              /\ phase' = [phase EXCEPT ![a] = "release"]
              /\ UNCHANGED <<at, read, fresh>>
    BY DEF RecordRead, EndPass, Actors
  <1>2. at[a] \in Sources
    BY <1>1 DEF SourcesInv, Placed, Working
  <1>3. /\ at' = at /\ read' \in [Actors -> Source] /\ fresh' \subseteq Actors
        /\ phase' \in [Actors -> Phases]
        /\ phase'[a] \in {"write", "release"} /\ \A y \in Actors \ {a} : phase'[y] = phase[y]
    BY <1>1, <1>2 DEF SourcesInv, TypeOK, Look, Phases, Working
  <1>4. pending' \in [Schedulers -> Seq(Sources)]
    BY <1>1, PassTypes
  <1>5. TypeOK'
    BY <1>1, <1>3, <1>4 DEF SourcesInv, TypeOK, records, leases
  <1>6. Placed'
    <2>1. \A b \in Schedulers \ {a} : pending'[b] = pending[b]
      BY <1>1 DEF SourcesInv, TypeOK
    <2> QED BY <1>2, <1>3, <2>1 DEF SourcesInv, Placed, Actors
  <1>7. PostgresEvidenceHasSource'
    BY <1>1 DEF SourcesInv, PostgresEvidenceHasSource, EvidenceHasSource, Stored, records
  <1> QED BY <1>5, <1>6, <1>7

LEMMA RecordWriteKeepsSources ==
  ASSUME SourcesInv, NEW a \in Schedulers, RecordWrite(a)
  PROVE  TypeOK' /\ Placed' /\ PostgresEvidenceHasSource'
  <1>1. /\ a \in Actors /\ phase[a] = "write" /\ read[a] \in Source
        /\ phase' = [phase EXCEPT ![a] = "release"] /\ read' = [read EXCEPT ![a] = Unsaved]
        /\ UNCHANGED <<backend, retained, leases, at, faults>>
        /\ pending' = pending \/ pending' = [pending EXCEPT ![a] = <<>>]
        /\ \/ /\ MayWrite(a, at[a])
              /\ PutSource(at[a], Merged(a, at[a], [read[a] EXCEPT !.next = NextRun(read[a])]))
           \/ UNCHANGED <<source, dueOrder>> /\ fresh' \subseteq fresh
    BY DEF RecordWrite, Forget, EndPass, Actors, SourcesInv, TypeOK
  <1>2. /\ source' \in [Sources -> Source] /\ fresh' \subseteq fresh
        /\ dueOrder' \in Seq(Sources)
        /\ \A t \in Sources : source'[t].next = "due" <=> t \in ToSet(dueOrder')
        /\ PostgresEvidenceHasSource'
    BY <1>1, WritingKeeps
  <1>3. TypeOK'
    <2>1. read' \in [Actors -> Source] /\ phase' \in [Actors -> Phases]
      BY <1>1, NothingIsTyped DEF SourcesInv, TypeOK, Phases, Working
    <2>2. pending' \in [Schedulers -> Seq(Sources)]
      BY <1>1, PassTypes
    <2> QED BY <1>1, <1>2, <2>1, <2>2 DEF SourcesInv, TypeOK, leases
  <1>4. Placed'
    <2>1. \A b \in Schedulers \ {a} : pending'[b] = pending[b]
      BY <1>1 DEF SourcesInv, TypeOK
    <2> QED BY <1>1, <2>1 DEF SourcesInv, TypeOK, Placed, Actors, Working
  <1> QED BY <1>2, <1>3, <1>4

\* Returning a lease, dying and failing touch no source and no evidence.
LEMMA GivingUpKeepsSources ==
  ASSUME SourcesInv, NEW a \in Schedulers,
         Release(a) \/ Unlock(a) \/ RecordUnavailable(a) \/ Die(a)
  PROVE  TypeOK' /\ Placed' /\ PostgresEvidenceHasSource'
  <1>1. a \in Actors /\ Visit(pending[a]) \in {"idle", "visit"}
        /\ (Visit(pending[a]) = "visit" => pending[a] # <<>>)
    BY DEF Actors, Visit
  <1>2. /\ UNCHANGED <<backend, records>> /\ fresh' \subseteq fresh
        /\ lease' = lease \/ lease' = [lease EXCEPT ![at[a]] = NoLease]
        /\ read' = read \/ read' = [read EXCEPT ![a] = Unsaved]
        /\ faults' \in 0 .. MaxFaults
        /\ \/ Leave(a, Visit(pending[a])) /\ pending' = pending
           \/ Leave(a, "idle") /\ pending' = [pending EXCEPT ![a] = <<>>]
           \/ /\ phase' = [phase EXCEPT ![a] = "release"] /\ phase[a] \in {"record", "write"}
              /\ pending' = [pending EXCEPT ![a] = <<>>] /\ UNCHANGED <<at, lapsed>>
           \/ /\ phase' = [phase EXCEPT ![a] = "unlock"] /\ phase[a] = "release"
              /\ pending' = pending /\ UNCHANGED <<at, lapsed>>
    <2>1. faults' \in 0 .. MaxFaults
      BY CollectionAssumption
      DEF SourcesInv, TypeOK, Release, Unlock, RecordUnavailable, Die
    <2> QED BY <2>1 DEF Release, Unlock, RecordUnavailable, Die, leases, Forget, EndPass
  <1>3. /\ phase' \in [Actors -> Phases] /\ at' \in [Actors -> Sources \cup {None}]
        /\ lapsed' \subseteq Schedulers
        /\ \A y \in Actors : phase'[y] \in Working \cup {"update", "delete"} => at'[y] \in Sources
        /\ phase'[a] = "visit" => pending[a] # <<>> /\ pending' = pending
        /\ \A y \in Actors \ {a} : phase'[y] = phase[y]
    <2>1. CASE Leave(a, Visit(pending[a])) /\ pending' = pending
      BY <1>1, <2>1, LeavingKeeps
    <2>2. CASE Leave(a, "idle")
      BY <1>1, <2>2, LeavingKeeps
    <2>3. CASE /\ UNCHANGED <<at, lapsed>> /\ phase[a] \in {"record", "write", "release"}
               /\ \/ phase' = [phase EXCEPT ![a] = "release"]
                  \/ phase' = [phase EXCEPT ![a] = "unlock"]
      BY <1>1, <2>3 DEF SourcesInv, TypeOK, Placed, Phases, Working
    <2> QED BY <1>2, <2>1, <2>2, <2>3
  <1>4. pending' \in [Schedulers -> Seq(Sources)]
    BY <1>2, PassTypes
  <1>5. lease' \in [Sources -> Lease] /\ read' \in [Actors -> Source]
    BY <1>2, NothingIsTyped DEF SourcesInv, TypeOK
  <1>6. TypeOK'
    BY <1>2, <1>3, <1>4, <1>5 DEF SourcesInv, TypeOK, records
  <1>7. Placed'
    <2>1. \A b \in Schedulers \ {a} : pending'[b] = pending[b]
      BY <1>2 DEF SourcesInv, TypeOK
    <2> QED BY <1>1, <1>3, <2>1 DEF SourcesInv, Placed, Actors
  <1>8. PostgresEvidenceHasSource'
    BY <1>2 DEF SourcesInv, PostgresEvidenceHasSource, EvidenceHasSource, Stored, records
  <1> QED BY <1>6, <1>7, <1>8

LEMMA LeaseRunsOutKeepsSources ==
  ASSUME SourcesInv, NEW a \in Schedulers, NEW s \in Sources, LeaseRunsOut(a, s)
  PROVE  TypeOK' /\ Placed' /\ PostgresEvidenceHasSource'
  <1> USE DEF LeaseRunsOut, records, actor
  <1>1. [lease[s] EXCEPT !.live = FALSE] \in Lease
    BY DEF SourcesInv, TypeOK, Lease
  <1>2. TypeOK'
    BY <1>1 DEF SourcesInv, TypeOK
  <1>3. Placed'
    BY DEF SourcesInv, Placed
  <1>4. PostgresEvidenceHasSource'
    BY DEF SourcesInv, PostgresEvidenceHasSource, EvidenceHasSource, Stored
  <1> QED BY <1>2, <1>3, <1>4

LEMMA AlwaysSourcesInv == Spec => []SourcesInv
  <1> DEFINE Rest == TypeOK /\ Placed /\ PostgresEvidenceHasSource
  <1>1. SourcesInv /\ [Next]_vars => Rest'
    <2> SUFFICES ASSUME SourcesInv, [Next]_vars PROVE Rest'
      OBVIOUS
    <2>1. ASSUME NEW s \in Sources, Create(s) \/ StoreEvidence(s) \/ BecomeDue(s)
          PROVE  Rest'
      BY <2>1, CreateKeepsSources, StoreEvidenceKeepsSources, BecomeDueKeepsSources
    <2>2. ASSUME NEW u \in Users, User(u) PROVE Rest'
      BY <2>2, BeginKeepsSources, EndUpdateKeepsSources, EndDeleteKeepsSources DEF User
    <2>3. ASSUME NEW a \in Schedulers, Scheduler(a) \/ RecordUnavailable(a) \/ Die(a)
          PROVE  Rest'
      BY <2>3, StartPassKeepsSources, AcquireKeepsSources, CollectKeepsSources,
         RecordReadKeepsSources, RecordWriteKeepsSources, GivingUpKeepsSources DEF Scheduler
    <2>4. ASSUME NEW a \in Schedulers, NEW s \in Sources, LeaseRunsOut(a, s) PROVE Rest'
      BY <2>4, LeaseRunsOutKeepsSources
    <2>5. CASE UNCHANGED vars
      BY <2>5 DEF vars, records, leases, actor, SourcesInv, TypeOK, Placed,
                  PostgresEvidenceHasSource, EvidenceHasSource, Stored
    <2> HIDE DEF Rest
    <2> QED BY <2>1, <2>2, <2>3, <2>4, <2>5 DEF Next
  <1>2. SourcesInv /\ [Next]_vars => SourcesInv'
    BY <1>1, StepKeepsCollectionInv DEF SourcesInv
  <1> QED BY <1>2, InitSourcesInv, PTL DEF Spec

\* The variables keep their types; among them, the order of the due sources
\* holds exactly the sources whose record says that they are due, whatever
\* writes overtake each other.
THEOREM CollectionTypesHold == Spec => []TypeOK
  BY AlwaysSourcesInv, PTL DEF SourcesInv

\* On PostgreSQL evidence never refers to a source that is gone, however a
\* deletion overlaps with collections and uploads.
THEOREM EvidenceKeepsItsSource == Spec => []PostgresEvidenceHasSource
  BY AlwaysSourcesInv, PTL DEF SourcesInv
=============================================================================
