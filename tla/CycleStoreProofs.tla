-------------------------- MODULE CycleStoreProofs --------------------------
(***************************************************************************)
(* The DynamoDB save is an atomic compare-and-set for any set of writers.  *)
(***************************************************************************)
EXTENDS CycleStore, TLAPS

(***************************************************************************)
(* The inductive invariant.  A request never holds a version from the      *)
(* future, and a held version names the stored snapshot, so a write whose  *)
(* condition holds writes exactly the stored snapshot plus its own update. *)
(***************************************************************************)
HoldsPast ==
    \A w \in Writers : step[w] \in {"read", "checked"} => seen[w] <= row.version
ChecksPast ==
    \A w \in Writers : step[w] = "checked" =>
        base[w] <= row.version /\ (w \notin Creators => base[w] = seen[w])
CreatorsStartOver ==
    \A w \in Creators : step[w] \in {"read", "checked"} => copy[w] = {w}
OnlySaved == \A w \in row.content : step[w] = "saved"

StoreInv ==
    /\ TypeOK
    /\ HoldsPast
    /\ ChecksPast
    /\ VersionNamesSnapshot
    /\ CreatorsStartOver
    /\ OnlySaved
    /\ NoLostUpdate

LEMMA InitStoreInv == Init => StoreInv
  <1> SUFFICES ASSUME Init PROVE StoreInv
    OBVIOUS
  <1> USE StoreAssumption DEF Init
  <1>1. TypeOK
    BY DEF TypeOK
  <1>2. HoldsPast /\ ChecksPast /\ VersionNamesSnapshot
    BY DEF HoldsPast, ChecksPast, VersionNamesSnapshot
  <1>3. CreatorsStartOver /\ OnlySaved /\ NoLostUpdate
    BY DEF CreatorsStartOver, OnlySaved, NoLostUpdate
  <1> QED BY <1>1, <1>2, <1>3 DEF StoreInv

LEMMA GetKeeps ==
  ASSUME StoreInv, NEW w \in Writers, Get(w)
  PROVE  StoreInv'
  <1> USE DEF StoreInv, Get
  <1>1. TypeOK'
    BY DEF TypeOK
  <1>2. HoldsPast' /\ ChecksPast'
    BY DEF TypeOK, HoldsPast, ChecksPast
  <1>3. VersionNamesSnapshot' /\ CreatorsStartOver'
    BY DEF TypeOK, VersionNamesSnapshot, CreatorsStartOver
  <1>4. OnlySaved' /\ NoLostUpdate'
    BY DEF TypeOK, OnlySaved, NoLostUpdate
  <1> QED BY <1>1, <1>2, <1>3, <1>4

LEMMA CheckKeeps ==
  ASSUME StoreInv, NEW w \in Writers, Check(w)
  PROVE  StoreInv'
  <1> USE StoreAssumption DEF StoreInv, Check
  <1>1. TypeOK'
    BY DEF TypeOK
  <1>2. HoldsPast' /\ ChecksPast'
    BY DEF TypeOK, HoldsPast, ChecksPast
  <1>3. VersionNamesSnapshot' /\ CreatorsStartOver'
    BY DEF TypeOK, VersionNamesSnapshot, CreatorsStartOver
  <1>4. OnlySaved' /\ NoLostUpdate'
    BY DEF TypeOK, OnlySaved, NoLostUpdate
  <1> QED BY <1>1, <1>2, <1>3, <1>4

LEMMA FailKeeps ==
  ASSUME StoreInv, NEW w \in Writers, Fail(w)
  PROVE  StoreInv'
  BY DEF Fail, StoreInv, TypeOK, HoldsPast, ChecksPast, VersionNamesSnapshot,
         CreatorsStartOver, OnlySaved, NoLostUpdate

\* What a write does to the snapshot: its update is added once, or the
\* snapshot starts over.
LEMMA WriteAdds ==
  ASSUME Backend = "dynamodb", StoreInv, NEW w \in Writers, Write(w),
         row.version = base[w]
  PROVE  /\ row'.version = row.version + 1
         /\ w \in Creators => row'.content = {w}
         /\ w \notin Creators => /\ w \notin row.content
                                 /\ row'.content = row.content \cup {w}
  BY DEF Write, WriteHolds, StoreInv, TypeOK, ChecksPast, VersionNamesSnapshot,
         CreatorsStartOver, OnlySaved

LEMMA WriteKeeps ==
  ASSUME Backend = "dynamodb", StoreInv, NEW w \in Writers, Write(w)
  PROVE  StoreInv'
  <1>1. CASE row.version # base[w]
    <2> USE <1>1, StoreAssumption DEF StoreInv, Write, WriteHolds
    <2>1. TypeOK' /\ HoldsPast' /\ ChecksPast'
      BY DEF TypeOK, HoldsPast, ChecksPast
    <2>2. VersionNamesSnapshot' /\ CreatorsStartOver'
      BY DEF TypeOK, VersionNamesSnapshot, CreatorsStartOver
    <2>3. OnlySaved' /\ NoLostUpdate'
      BY DEF TypeOK, OnlySaved, NoLostUpdate
    <2> QED BY <2>1, <2>2, <2>3
  <1>2. CASE row.version = base[w]
    <2> USE <1>2, WriteAdds, StoreAssumption DEF StoreInv, Write, WriteHolds
    <2>1. TypeOK'
      BY DEF TypeOK
    <2>2. HoldsPast' /\ ChecksPast'
      BY DEF TypeOK, HoldsPast, ChecksPast
    <2>3. VersionNamesSnapshot'
      BY DEF TypeOK, HoldsPast, VersionNamesSnapshot
    <2>4. CreatorsStartOver' /\ OnlySaved'
      BY DEF TypeOK, CreatorsStartOver, OnlySaved
    <2>5. NoLostUpdate'
      BY DEF TypeOK, NoLostUpdate
    <2> QED BY <2>1, <2>2, <2>3, <2>4, <2>5
  <1> QED BY <1>1, <1>2

LEMMA StepKeeps ==
  ASSUME Backend = "dynamodb", StoreInv, [Next]_vars
  PROVE  StoreInv'
  <1>1. CASE UNCHANGED vars
    <2> USE <1>1 DEF vars, StoreInv
    <2>1. TypeOK' /\ HoldsPast' /\ ChecksPast'
      BY DEF TypeOK, HoldsPast, ChecksPast
    <2>2. VersionNamesSnapshot' /\ CreatorsStartOver'
      BY DEF VersionNamesSnapshot, CreatorsStartOver
    <2>3. OnlySaved' /\ NoLostUpdate'
      BY DEF OnlySaved, NoLostUpdate
    <2> QED BY <2>1, <2>2, <2>3
  <1>2. CASE Next
    BY <1>2, GetKeeps, CheckKeeps, WriteKeeps, FailKeeps DEF Next
  <1> QED BY <1>1, <1>2

\* Every state of the DynamoDB store satisfies the inductive invariant.
THEOREM StoreInvariant ==
  ASSUME Backend = "dynamodb"
  PROVE  Spec => []StoreInv
  <1>1. StoreInv /\ [Next]_vars => StoreInv'
    BY StepKeeps
  <1> QED BY <1>1, InitStoreInv, PTL DEF Spec

\* With DynamoDB no acknowledged update is ever lost, for any number of
\* overlapping requests.
THEOREM DynamoKeepsUpdates ==
  ASSUME Backend = "dynamodb"
  PROVE  Spec => []NoLostUpdate
  <1>1. StoreInv => NoLostUpdate
    BY DEF StoreInv
  <1> QED BY <1>1, StoreInvariant, PTL

\* With DynamoDB a version number names one snapshot, which is what lets
\* PlanningWorkflow speak of freshness.
THEOREM DynamoVersionNamesSnapshot ==
  ASSUME Backend = "dynamodb"
  PROVE  Spec => []VersionNamesSnapshot
  <1>1. StoreInv => VersionNamesSnapshot
    BY DEF StoreInv
  <1> QED BY <1>1, StoreInvariant, PTL

\* The DynamoDB repository implements a register whose updates take effect
\* at once: the write with its condition is the point where one does.
THEOREM DynamoSavesAreAtomic ==
  ASSUME Backend = "dynamodb"
  PROVE  Spec => SavesAreAtomic
  <1>1. Init => Register!Init
    BY DEF Init, Register!Init
  <1>2. StoreInv /\ [Next]_vars => [Register!Next]_(row.content)
    <2> SUFFICES ASSUME StoreInv, [Next]_vars
                 PROVE  [Register!Next]_(row.content)
      OBVIOUS
    <2>1. CASE UNCHANGED row
      BY <2>1
    <2>2. ASSUME NEW w \in Writers, Write(w), row.version = base[w]
          PROVE  Register!Next
      BY <2>2, WriteAdds, StoreAssumption
         DEF Register!Next, Register!Add, Register!Restart
    <2>3. ASSUME NEW w \in Writers, Get(w) \/ Check(w) \/ Fail(w)
          PROVE  UNCHANGED row
      BY <2>3 DEF Get, Check, Fail
    <2>4. ASSUME NEW w \in Writers, Write(w), row.version # base[w]
          PROVE  UNCHANGED row
      BY <2>4 DEF Write, WriteHolds
    <2> QED BY <2>1, <2>2, <2>3, <2>4 DEF Next, vars
  <1> QED BY <1>1, <1>2, StoreInvariant, PTL DEF Spec, SavesAreAtomic, Register!Spec
=============================================================================
