-------------------- MODULE EmbeddingCompatibilityProofs --------------------
(***************************************************************************)
(* Theorems about EmbeddingCompatibility for any number of stores,         *)
(* embedders and calls.                                                    *)
(*                                                                         *)
(* IInv is inductive.  A model is recorded only while none is, and         *)
(* then no check has passed, so no call inserts: the rows a check has read *)
(* can only have become fewer, and its inference still covers them.        *)
(***************************************************************************)
EXTENDS EmbeddingCompatibility, FiniteSetTheorems, TLAPS

IInv == EmbeddingInv /\ OneVectorSpace

Keys == Stores \X Embedders

LEMMA KeyType ==
  /\ \A c \in Calls : Key(c) \in Keys
  /\ \A k \in Keys : k[2] \in Embedders /\ ModelOf[k[2]] \in Models
BY EmbedderAssumption DEF Keys, Key

(* A set of models with at most one member is empty or a singleton.        *)
LEMMA FewModels ==
  ASSUME rows \subseteq Models
  PROVE  /\ Cardinality(rows) = 1 => \A m \in rows : rows = {m}
         /\ Cardinality(rows) <= 1 => \A m \in rows : rows = {m}
<1>1. IsFiniteSet(rows)
  BY EmbedderAssumption, FS_Subset
<1>2. Cardinality(rows) \in Nat
  BY <1>1, FS_CardinalityType
<1>3. Cardinality(rows) = 0 => rows = {}
  BY <1>1, FS_EmptySet
<1>4. Cardinality(rows) = 1 => \E x : rows = {x}
  BY <1>1, FS_Singleton
<1>5. QED BY <1>2, <1>3, <1>4

LEMMA InitInv == Init => IInv
<1> SUFFICES ASSUME Init PROVE IInv
  OBVIOUS
<1>1. TypeOK
  BY DEF Init, TypeOK, Checks
<1>2. CachedIsTrue /\ InferenceHolds /\ ChecksAreAwaited
  BY KeyType DEF Init, Keys, CachedIsTrue, InferenceHolds, ChecksAreAwaited,
                 Pending, Waiting
<1>3. QED BY <1>1, <1>2 DEF Init, IInv, EmbeddingInv, OneVectorSpace

(* Steps of calls and of deletes.                                          *)
LEMMA CallInv ==
  ASSUME IInv, NEW c \in Calls, Call(c)
  PROVE  IInv'
<1> USE DEF IInv, EmbeddingInv
<1> DEFINE K == Key(c)
<1>1. K \in Keys
  BY KeyType
<1>2. TypeOK'
  BY <1>1 DEF Call, TypeOK, Checks, Pending, Keys
<1>3. OneVectorSpace'
  BY DEF Call, OneVectorSpace
<1>4. \A k \in Keys : \/ check'[k] = check[k]
                      \/ k = K /\ check[k] = "none" /\ check'[k] = "meta"
  BY <1>1 DEF Call, TypeOK, Keys
<1>5. CachedIsTrue'
  BY <1>4 DEF Call, CachedIsTrue, Keys
<1>6. InferenceHolds'
  BY <1>4 DEF Call, InferenceHolds, Keys, Pending
<1>7. ChecksAreAwaited'
  <2>1. \A k \in Keys : k # K => Waiting(k)' = Waiting(k)
    BY DEF Call, TypeOK, Waiting, Key
  <2>2. check[K] = "passed" => Waiting(K)' = Waiting(K)
    BY DEF Call, TypeOK, Waiting
  <2>3. check[K] # "passed" => c \in Waiting(K)'
    BY DEF Call, TypeOK, Waiting, Key
  <2>4. check[K] \in Checks
    BY <1>1 DEF TypeOK, Keys
  <2>5. \A k \in Keys : check'[k] \in Pending <=> Waiting(k)' # {}
    BY <1>1, <1>4, <2>1, <2>2, <2>3, <2>4
    DEF Call, TypeOK, ChecksAreAwaited, Keys, Pending, Checks
  <2>6. ASSUME NEW d \in Calls, phase'[d] = "embedding"
        PROVE  check'[Key(d)] = "passed"
    BY <1>4, <2>6, KeyType DEF Call, TypeOK, ChecksAreAwaited, Key
  <2>7. QED BY <2>5, <2>6 DEF ChecksAreAwaited, Keys, Key
<1>8. QED BY <1>2, <1>3, <1>5, <1>6, <1>7

LEMMA InsertInv ==
  ASSUME IInv, NEW c \in Calls, Insert(c)
  PROVE  IInv'
<1> USE DEF IInv, EmbeddingInv
<1>1. Key(c) \in Keys /\ Key(c)[2] = EmbedderOf[c]
  BY KeyType DEF Key
<1>2. model = ModelOf[EmbedderOf[c]] /\ model \in Models
  BY <1>1, KeyType DEF Insert, ChecksAreAwaited, CachedIsTrue, Keys
<1>3. TypeOK'
  BY <1>2 DEF Insert, TypeOK
<1>4. OneVectorSpace' /\ CachedIsTrue'
  BY <1>2 DEF Insert, OneVectorSpace, CachedIsTrue
<1>5. InferenceHolds'
  BY <1>2, EmbedderAssumption DEF Insert, InferenceHolds
<1>6. ChecksAreAwaited'
  <2>1. \A k \in Keys : Waiting(k)' = Waiting(k)
    BY DEF Insert, TypeOK, Waiting, Key
  <2>2. QED BY <2>1 DEF Insert, TypeOK, ChecksAreAwaited, Keys, Key
<1>7. QED BY <1>3, <1>4, <1>5, <1>6

LEMMA DeleteInv ==
  ASSUME IInv, NEW m \in Models, Delete(m)
  PROVE  IInv'
BY DEF IInv, EmbeddingInv, Delete, TypeOK, OneVectorSpace, CachedIsTrue,
       InferenceHolds, ChecksAreAwaited, Waiting, Key

LEMMA MigrateInv ==
  ASSUME IInv, Migrate
  PROVE  IInv'
<1> USE DEF IInv, EmbeddingInv
<1>1. model = Missing /\ model' \in Models \union {Unset}
      /\ (model' \in Models => rows = {model'})
  <2>1. CASE Cardinality(rows) = 1 /\ model' \in rows
    BY <2>1, FewModels DEF Migrate, TypeOK
  <2>2. CASE model' = Unset
    BY <2>2, EmbedderAssumption DEF Migrate
  <2>3. QED BY <2>1, <2>2 DEF Migrate
<1>2. \A k \in Keys : check[k] \notin (Pending \ {"meta"}) \union {"passed"}
  <2>1. model \notin Models
    BY <1>1, EmbedderAssumption
  <2>2. \A k \in Keys : check[k] # "passed"
    BY <2>1, KeyType DEF CachedIsTrue, Keys
  <2>3. \A k \in Keys : check[k] \notin Pending \ {"meta"}
    BY <1>1 DEF InferenceHolds, Keys
  <2>4. QED BY <2>2, <2>3
<1>3. TypeOK' /\ OneVectorSpace'
  BY <1>1 DEF Migrate, TypeOK, OneVectorSpace
<1>4. CachedIsTrue' /\ InferenceHolds'
  BY <1>2 DEF Migrate, CachedIsTrue, InferenceHolds, Keys, Pending
<1>5. ChecksAreAwaited'
  BY DEF Migrate, ChecksAreAwaited, Waiting, Key
<1>6. QED BY <1>3, <1>4, <1>5

(* The end of a check ends the wait of its calls.                          *)
LEMMA EndAwaited ==
  ASSUME TypeOK, ChecksAreAwaited, NEW k \in Keys, check[k] \in Pending,
         \/ Pass(k)
         \/ \E code \in {"CONFIG", "MIGRATION", "FAILED"} : Fail(k, code)
  PROVE  ChecksAreAwaited'
<1>1. \A j \in Keys : j # k => /\ check'[j] = check[j]
                               /\ Waiting(j)' = Waiting(j)
  BY DEF Pass, Fail, TypeOK, Waiting, Keys, Key
<1>2. Waiting(k)' = {} /\ check'[k] \notin Pending
  BY DEF Pass, Fail, TypeOK, Waiting, Keys, Key, Pending
<1>3. ASSUME NEW c \in Calls, phase'[c] = "embedding"
      PROVE  check'[Key(c)] = "passed"
  <2>1. CASE Pass(k)
    <3>1. CASE c \in Waiting(k)
      BY <2>1, <3>1 DEF Pass, TypeOK, Waiting, Keys
    <3>2. CASE c \notin Waiting(k)
      <4>1. phase[c] = "embedding"
        BY <1>3, <2>1, <3>2 DEF Pass, TypeOK
      <4>2. check[Key(c)] = "passed" /\ Key(c) # k
        BY <4>1 DEF ChecksAreAwaited, Pending
      <4>3. QED BY <1>1, <4>2, KeyType
    <3>3. QED BY <3>1, <3>2
  <2>2. CASE \E code \in {"CONFIG", "MIGRATION", "FAILED"} : Fail(k, code)
    <3>1. phase[c] = "embedding"
      BY <1>3, <2>2 DEF Fail, TypeOK
    <3>2. check[Key(c)] = "passed" /\ Key(c) # k
      BY <3>1 DEF ChecksAreAwaited, Pending
    <3>3. QED BY <1>1, <3>2, KeyType
  <2>3. QED BY <2>1, <2>2
<1>4. QED BY <1>1, <1>2, <1>3 DEF ChecksAreAwaited, Keys, Key

(* A check fails without consequence for anything but its calls.           *)
LEMMA FailInv ==
  ASSUME IInv, NEW k \in Keys, check[k] \in Pending,
         NEW code \in {"CONFIG", "MIGRATION", "FAILED"}, Fail(k, code),
         UNCHANGED model
  PROVE  IInv'
<1> USE DEF IInv, EmbeddingInv
<1>1. TypeOK' /\ OneVectorSpace'
  BY DEF Fail, TypeOK, OneVectorSpace, Checks
<1>2. CachedIsTrue' /\ InferenceHolds'
  BY DEF Fail, TypeOK, CachedIsTrue, InferenceHolds, Keys, Pending
<1>3. ChecksAreAwaited'
  BY EndAwaited
<1>4. QED BY <1>1, <1>2, <1>3

LEMMA PassInv ==
  ASSUME IInv, NEW k \in Keys, check[k] = "compare",
         found[k] = ModelOf[k[2]], Pass(k)
  PROVE  IInv'
<1> USE DEF IInv, EmbeddingInv
<1>1. model = ModelOf[k[2]] /\ k[2] \in Fitting
  BY DEF InferenceHolds, Keys, Pending
<1>2. TypeOK' /\ OneVectorSpace'
  BY DEF Pass, TypeOK, OneVectorSpace, Checks
<1>3. CachedIsTrue' /\ InferenceHolds'
  BY <1>1 DEF Pass, TypeOK, CachedIsTrue, InferenceHolds, Keys, Pending
<1>4. ChecksAreAwaited'
  BY EndAwaited DEF Pending
<1>5. QED BY <1>2, <1>3, <1>4

(* A check that goes on is still awaited by the same calls.                *)
LEMMA GoOnAwaited ==
  ASSUME TypeOK, ChecksAreAwaited, NEW k \in Keys, check[k] \in Pending,
         NEW next \in Pending, NEW m, GoOn(k, next, m)
  PROVE  ChecksAreAwaited'
<1>1. \A j \in Keys : Waiting(j)' = Waiting(j)
  BY DEF GoOn, Waiting, Key
<1>2. \A j \in Keys : check'[j] \in Pending <=> check[j] \in Pending
  BY DEF GoOn, TypeOK, Keys
<1>3. \A j \in Keys : check[j] = "passed" => check'[j] = "passed"
  BY DEF GoOn, TypeOK, Keys, Pending
<1>4. QED BY <1>1, <1>2, <1>3, KeyType
  DEF GoOn, ChecksAreAwaited, Keys, Key

(* A check that goes on to compare has the recorded model in its hands.    *)
LEMMA GoOnInv ==
  ASSUME IInv, NEW k \in Keys, check[k] \in Pending,
         NEW next \in Pending \ {"meta"},
         NEW m \in Models \union {Unset}, GoOn(k, next, m), UNCHANGED model,
         model # Missing, k[2] \in Fitting,
         next = "record" => m \in Models /\ (model = Unset => rows \subseteq {m}),
         next = "reread" => model \in Models,
         next = "compare" => m \in Models /\ model = m
  PROVE  IInv'
<1> USE DEF IInv, EmbeddingInv
<1>1. TypeOK' /\ OneVectorSpace'
  BY DEF GoOn, TypeOK, OneVectorSpace, Checks
<1>2. CachedIsTrue'
  BY DEF GoOn, TypeOK, CachedIsTrue, Keys, Pending
<1>3. InferenceHolds'
  BY DEF GoOn, TypeOK, InferenceHolds, Keys, Pending
<1>4. ChecksAreAwaited'
  BY GoOnAwaited
<1>5. QED BY <1>1, <1>2, <1>3, <1>4

(* Where no model is recorded nothing has passed, and the rows are of the  *)
(* inferred model: recording it is safe.                                   *)
LEMMA RecordInv ==
  ASSUME IInv, NEW k \in Keys, Record(k)
  PROVE  IInv'
<1> USE DEF IInv, EmbeddingInv
<1>1. /\ check[k] = "record" /\ k[2] \in Fitting /\ model # Missing
      /\ found[k] \in Models /\ (model = Unset => rows \subseteq {found[k]})
  BY DEF Record, InferenceHolds, Keys, Pending
<1>2. CASE model # Unset
  <2>1. GoOn(k, "reread", found[k]) /\ UNCHANGED model /\ model \in Models
    BY <1>1, <1>2 DEF Record, TypeOK
  <2>2. QED BY <1>1, <2>1, GoOnInv DEF Pending
<1>3. CASE model = Unset
  <2>1. /\ model' = found[k]
        /\ GoOn(k, "compare", found[k]) \/ Fail(k, "FAILED")
    BY <1>3 DEF Record
  <2>2. \A j \in Keys : check[j] \notin {"passed", "reread", "compare"}
    BY <1>3, KeyType, EmbedderAssumption
    DEF CachedIsTrue, InferenceHolds, Keys
  <2>3. TypeOK' /\ OneVectorSpace'
    BY <1>1, <1>3, <2>1
    DEF GoOn, Fail, TypeOK, OneVectorSpace, Checks, Pending
  <2>4. CachedIsTrue'
    BY <2>1, <2>2 DEF GoOn, Fail, TypeOK, CachedIsTrue, Keys
  <2>5. InferenceHolds'
    <3>1. CASE GoOn(k, "compare", found[k])
      BY <1>1, <2>1, <2>2, <3>1, EmbedderAssumption
      DEF GoOn, TypeOK, InferenceHolds, Keys, Pending
    <3>2. CASE Fail(k, "FAILED")
      BY <1>1, <2>1, <2>2, <3>2, EmbedderAssumption
      DEF Fail, TypeOK, InferenceHolds, Keys, Pending
    <3>3. QED BY <2>1, <3>1, <3>2
  <2>6. ChecksAreAwaited'
    BY <1>1, <2>1, GoOnAwaited, EndAwaited DEF Pending
  <2>7. QED BY <2>3, <2>4, <2>5, <2>6
<1>4. QED BY <1>2, <1>3

LEMMA CheckInv ==
  ASSUME IInv, NEW k \in Keys, CheckStep(k)
  PROVE  IInv'
<1>1. TypeOK /\ InferenceHolds
  BY DEF IInv, EmbeddingInv
<1>2. CASE ReadMeta(k)
  <2>1. CASE \E code \in {"MIGRATION", "CONFIG"} : Fail(k, code)
    BY <1>2, <2>1, FailInv DEF ReadMeta, Pending
  <2>2. CASE /\ model # Missing /\ k[2] \in Fitting
             /\ GoOn(k, IF model = Unset THEN "stored" ELSE "compare", model)
    <3>1. CASE model = Unset
      BY <1>2, <2>2, <3>1, GoOnInv DEF ReadMeta, Pending
    <3>2. CASE model # Unset
      <4>1. model \in Models
        BY <1>1, <2>2, <3>2 DEF TypeOK
      <4>2. QED BY <1>2, <2>2, <3>2, <4>1, GoOnInv DEF ReadMeta, Pending
    <3>3. QED BY <3>1, <3>2
  <2>3. QED BY <1>2, <2>1, <2>2 DEF ReadMeta
<1>3. CASE ReadStored(k)
  <2>1. check[k] \in Pending /\ model # Missing /\ k[2] \in Fitting
    BY <1>1, <1>3 DEF ReadStored, InferenceHolds, Keys, Pending
  <2>2. CASE Fail(k, "MIGRATION")
    BY <1>3, <2>1, <2>2, FailInv DEF ReadStored
  <2>3. ASSUME NEW m \in (IF rows = {} THEN {ModelOf[k[2]]} ELSE rows),
               Cardinality(rows) <= 1, GoOn(k, "record", m), UNCHANGED model
        PROVE  IInv'
    <3>1. m \in Models /\ rows \subseteq {m}
      BY <1>1, <2>3, FewModels, KeyType DEF TypeOK
    <3>2. QED BY <2>1, <2>3, <3>1, GoOnInv DEF Pending
  <2>4. QED BY <1>3, <2>2, <2>3 DEF ReadStored
<1>4. CASE Record(k)
  BY <1>4, RecordInv
<1>5. CASE Reread(k)
  <2>1. /\ check[k] \in Pending /\ model \in Models /\ k[2] \in Fitting
        /\ model # Missing
    BY <1>1, <1>5 DEF Reread, InferenceHolds, Keys, Pending
  <2>2. QED BY <1>5, <2>1, GoOnInv DEF Reread, Pending
<1>6. CASE Compare(k)
  BY <1>6, PassInv, FailInv DEF Compare, Pending
<1>7. CASE QueryFails(k)
  BY <1>7, FailInv DEF QueryFails, Pending
<1>8. QED BY <1>2, <1>3, <1>4, <1>5, <1>6, <1>7 DEF CheckStep

LEMMA StepInv ==
  ASSUME IInv, [Next]_vars
  PROVE  IInv'
<1>1. CASE UNCHANGED vars
  BY <1>1 DEF vars, IInv, EmbeddingInv, TypeOK, OneVectorSpace, CachedIsTrue,
              InferenceHolds, ChecksAreAwaited, Waiting, Key
<1>2. CASE Next
  BY <1>1, <1>2, CallInv, InsertInv, CheckInv, DeleteInv, MigrateInv
  DEF Next, Quiet, Keys
<1>3. QED BY <1>1, <1>2

LEMMA InvHolds == Spec => []IInv
<1>1. IInv /\ [Next]_vars => IInv'
  BY StepInv
<1>2. QED BY InitInv, <1>1, PTL DEF Spec

-----------------------------------------------------------------------------
(* The invariant of the checks, for any number of stores and calls.        *)
THEOREM CompatibilityCorrect == Spec => []EmbeddingInv
<1>1. IInv => EmbeddingInv
  BY DEF IInv
<1>2. QED BY InvHolds, <1>1, PTL

(* Stored rows never mix models once one is recorded.                      *)
THEOREM VectorSpaceKept == Spec => []OneVectorSpace
<1>1. IInv => OneVectorSpace
  BY DEF IInv
<1>2. QED BY InvHolds, <1>1, PTL

(* A cached check is never stale, for lack of a step that unrecords.       *)
THEOREM CacheCorrect == Spec => []CachedIsTrue
<1>1. EmbeddingInv => CachedIsTrue
  BY DEF EmbeddingInv
<1>2. QED BY CompatibilityCorrect, <1>1, PTL

(* The recorded model is never overwritten.                                *)
THEOREM RecordKept == Spec => RecordedForGood
<1>1. [Next]_vars => [(model \in Models) => model' = model]_model
  <2>1. ASSUME NEW k \in Keys, CheckStep(k), model \in Models
        PROVE  model' = model
    BY <2>1, EmbedderAssumption
    DEF CheckStep, ReadMeta, ReadStored, Record, Reread, Compare, QueryFails,
        GoOn, Pass, Fail
  <2>2. QED BY <2>1, EmbedderAssumption
    DEF Next, Call, Insert, Delete, Migrate, Quiet, vars, Keys
<1>2. QED BY <1>1, PTL DEF Spec, RecordedForGood
=============================================================================
