-------------------------- MODULE MigrationsProofs --------------------------
(***************************************************************************)
(* Theorems about Migrations for any number of racing calls on any         *)
(* databases.                                                              *)
(*                                                                         *)
(* MigrationInv is inductive.  Only the holder of the lock has read the    *)
(* database and not yet ended its transaction (LockHeld), and so what it   *)
(* read still is the database (ReadIsCurrent): two transactions never      *)
(* decide on the same state.  Every version a call reported is in the      *)
(* tracking table (ReportsTracked), which makes reports disjoint, and a    *)
(* call met a statement or a row that fails only on a database that is not *)
(* sound, which never becomes so (RacersDoNotFail).                        *)
(***************************************************************************)
EXTENDS Migrations, FiniteSetTheorems, TLAPS

InTransaction == {"locked", "read"}
LockHeld == \A c \in Callers : phase[c] \in InTransaction => lock = c
ReadIsCurrent == \A c \in Callers : phase[c] = "read" => seen[c] = Now

OutcomeIsLast == \A c \in Callers : outcome[c] # "none" => phase[c] = "done"

ColumnOfTable == dimensions # Unset <=> "memories" \in catalog

Reported(c) == applied[c] \union adopted[c]
ReportsTracked ==
  \A c \in Callers : /\ Reported(c) \subseteq versions
                     /\ applied[c] \intersect adopted[c] = {}

ReportsDisjoint ==
  \A c, d \in Callers : c # d => Reported(c) \intersect Reported(d) = {}

SuccessMeansTracked ==
  \A c \in Callers : outcome[c] = "ok" =>
    /\ versions = 0 .. LastVersion
    /\ dimensions # Unset => size[c] \in {Unset, dimensions}

(* The last database that a successful call read was sound, so the one     *)
(* that it left has the newest schema; nobody changes it afterwards.       *)
SoundSuccessIsLatest ==
  \A c \in Callers :
    outcome[c] = "ok" /\ IsSound(seen[c]) => catalog = SchemaOf(LastVersion)

MigrationInv ==
  /\ TypeOK
  /\ LockHeld
  /\ ReadIsCurrent
  /\ OutcomeIsLast
  /\ ColumnOfTable
  /\ ReportsTracked
  /\ ReportsDisjoint
  /\ SuccessMeansTracked
  /\ RacersDoNotFail
  /\ SoundSuccessIsLatest

-----------------------------------------------------------------------------
(* Lemmas about the operators.                                             *)

LEMMA IntervalSize ==
  ASSUME NEW n \in Nat
  PROVE  IsFiniteSet(0 .. n - 1) /\ Cardinality(0 .. n - 1) = n
<1>1. 0 \in Int /\ n - 1 \in Int
  OBVIOUS
<1>2. Cardinality(0 .. n - 1) = IF 0 > n - 1 THEN 0 ELSE (n - 1) - 0 + 1
  BY <1>1, FS_Interval
<1>3. QED BY <1>1, <1>2, FS_Interval

LEMMA IntervalSuccessor ==
  ASSUME NEW n \in Nat
  PROVE  /\ (0 .. n - 1) \union {n} = 0 .. n
         /\ n \notin 0 .. n - 1
OBVIOUS

LEMMA SchemaStep ==
  ASSUME NEW v \in 0 .. LastVersion
  PROVE  SchemaOf(v) = SchemaOf(v - 1) \union CreatedBy(v)
<1>1. 0 .. v = (0 .. v - 1) \union {v}
  BY DEF LastVersion
<1>2. QED BY <1>1 DEF SchemaOf

LEMMA Schemas ==
  /\ SchemaOf(-1) = {}
  /\ SchemaOf(0) = {"memories", "events"}
  /\ SchemaOf(1) = {"memories", "events", "meta"}
  /\ SchemaOf(2) = {"memories", "events", "meta", "metaModel"}
  /\ SchemaOf(3) = Objects
<1>1. SchemaOf(-1) = {}
  BY 0 .. -1 = {} DEF SchemaOf
<1>2. SchemaOf(0) = {"memories", "events"}
  BY <1>1, SchemaStep, 0 \in 0 .. LastVersion, 0 - 1 = -1 DEF CreatedBy, LastVersion
<1>3. SchemaOf(1) = {"memories", "events", "meta"}
  BY <1>2, SchemaStep, 1 \in 0 .. LastVersion, 1 - 1 = 0 DEF CreatedBy, LastVersion
<1>4. SchemaOf(2) = {"memories", "events", "meta", "metaModel"}
  BY <1>3, SchemaStep, 2 \in 0 .. LastVersion, 2 - 1 = 1 DEF CreatedBy, LastVersion
<1>5. SchemaOf(3) = Objects
  BY <1>4, SchemaStep, 3 \in 0 .. LastVersion, 3 - 1 = 2
     DEF CreatedBy, LastVersion, Objects
<1>6. QED BY <1>1, <1>2, <1>3, <1>4, <1>5

LEMMA SchemaObjects ==
  ASSUME NEW v \in 0 .. LastVersion
  PROVE  "memories" \in SchemaOf(v) /\ SchemaOf(v) \subseteq Objects
<1>1. v = 0 \/ v = 1 \/ v = 2 \/ v = 3
  BY DEF LastVersion
<1>2. QED BY <1>1, Schemas DEF Objects

(* What a numbered migration creates is new to the schema that the one     *)
(* before it left, and what it needs is there.                             *)
LEMMA PendingFits ==
  ASSUME NEW n \in 1 .. LastVersion
  PROVE  /\ CreatedBy(n) \intersect SchemaOf(n - 1) = {}
         /\ NeededBy(n) \subseteq SchemaOf(n - 1)
         /\ CreatedBy(n) \subseteq Objects
         /\ "memories" \notin CreatedBy(n)
<1>1. CASE n = 1
  BY <1>1, Schemas, 1 - 1 = 0 DEF CreatedBy, NeededBy, Objects
<1>2. CASE n = 2
  BY <1>2, Schemas, 2 - 1 = 1 DEF CreatedBy, NeededBy, Objects
<1>3. CASE n = 3
  BY <1>3, Schemas, 3 - 1 = 2 DEF CreatedBy, NeededBy, Objects
<1>4. QED BY <1>1, <1>2, <1>3 DEF LastVersion

LEMMA InstalledVersionCorrect ==
  ASSUME NEW objects, IsKnownSchema(objects)
  PROVE  /\ InstalledVersion(objects) \in -1 .. LastVersion
         /\ objects = SchemaOf(InstalledVersion(objects))
BY DEF IsKnownSchema, InstalledVersion

(* A database whose tracking table lists 0 to n - 1 is sound if and only   *)
(* if its catalog is what these migrations leave.                          *)
LEMMA TrackedIsSound ==
  ASSUME NEW n \in 1 .. LastVersion + 1, NEW d, d.versions = 0 .. n - 1
  PROVE  IsSound(d) <=> d.catalog = SchemaOf(n - 1)
<1>1. Cardinality(d.versions) = n
  BY IntervalSize DEF LastVersion
<1>2. d.versions \subseteq 0 .. LastVersion
  BY DEF LastVersion
<1>3. IsContiguous(d.versions)
  BY <1>1 DEF IsContiguous
<1>4. Tracked(d.versions)
  <2>1. 0 \in 0 .. n - 1 /\ 0 # -1
    BY DEF LastVersion
  <2>2. QED BY <2>1 DEF Tracked, NoTable
<1>5. QED BY <1>1, <1>2, <1>3, <1>4 DEF IsSound

(* A tracking table that a transaction understands lists 0 to n - 1.       *)
LEMMA UnderstoodVersions ==
  ASSUME TypeOK, NEW c \in Callers, seen[c] = Now, IsUnderstood(c),
         Tracked(versions)
  PROVE  /\ Cardinality(versions) \in 1 .. LastVersion + 1
         /\ versions = 0 .. Cardinality(versions) - 1
<1>1. versions \subseteq 0 .. LastVersion + 1
  BY DEF TypeOK, Now, Database, Tracked
<1>2. IsFiniteSet(0 .. LastVersion + 1)
  BY FS_Interval, 0 \in Int, LastVersion + 1 \in Int DEF LastVersion
<1>3. IsFiniteSet(versions)
  BY <1>1, <1>2, FS_Subset
<1>4. Cardinality(versions) \in Nat /\ Cardinality(versions) # 0
  BY <1>3, FS_CardinalityType, FS_EmptySet DEF Tracked
<1>5. /\ versions = 0 .. Cardinality(versions) - 1
      /\ Cardinality(versions) <= LastVersion + 1
  BY DEF IsUnderstood, IsContiguous, Now
<1>6. QED BY <1>4, <1>5 DEF LastVersion

(* On a sound database a transaction understands what it read, and if it   *)
(* is still the database, what it writes succeeds.                         *)
LEMMA SoundIsUnderstood ==
  ASSUME TypeOK, NEW c \in Callers, seen[c] = Now, IsSound(Now)
  PROVE  IsUnderstood(c) /\ WritesSucceed(c)
<1> DEFINE n == Cardinality(versions)
<1>1. TableIsCreated(c)
  BY DEF TableIsCreated, Now
<1>2. CASE Tracked(versions)
  <2>1. /\ IsContiguous(versions)
        /\ versions \subseteq 0 .. LastVersion
        /\ catalog = SchemaOf(n - 1)
    BY <1>2 DEF IsSound, Now
  <2>2. IsFiniteSet(0 .. LastVersion) /\ Cardinality(0 .. LastVersion) = 4
    BY IntervalSize, 4 - 1 = 3, 4 \in Nat DEF LastVersion
  <2>3. IsFiniteSet(versions) /\ n <= 4 /\ n \in Nat
    BY <2>1, <2>2, FS_Subset, FS_CardinalityType
  <2>4. n # 0
    BY <1>2, <2>3, FS_EmptySet DEF Tracked
  <2>5. n \notin versions
    BY <2>1, <2>3, IntervalSuccessor DEF IsContiguous
  <2>6. IsUnderstood(c)
    BY <1>2, <2>1, <2>3 DEF IsUnderstood, Now, LastVersion
  <2>7. ~IsFresh(c) /\ NextVersion(c) = n /\ (IsPending(c) <=> n <= LastVersion)
    BY <1>2 DEF IsFresh, IsPending, NextVersion, Now
  <2> HIDE DEF n
  <2>8. CASE n <= LastVersion
    <3>1. n \in 1 .. LastVersion
      BY <2>3, <2>4, <2>8 DEF LastVersion
    <3>2. Creates(c) = CreatedBy(n) /\ Records(c) = {n}
      BY <1>2, <2>7, <2>8 DEF Creates, Records, NextRow, Now
    <3>3. StatementsRun(c) /\ RowsAreNew(c)
      BY <2>1, <2>5, <2>7, <3>1, <3>2, PendingFits DEF StatementsRun, RowsAreNew
    <3>4. QED BY <1>1, <2>6, <3>3 DEF WritesSucceed
  <2>9. CASE ~(n <= LastVersion)
    <3>1. Creates(c) = {} /\ Records(c) = {}
      BY <1>2, <2>7, <2>9 DEF Creates, Records, Now
    <3>2. QED
      BY <1>1, <2>6, <2>7, <2>9, <3>1
         DEF WritesSucceed, StatementsRun, RowsAreNew
  <2>10. QED BY <2>8, <2>9
<1>3. CASE ~Tracked(versions)
  <2>1. IsUnderstood(c) /\ IsKnownSchema(catalog)
    BY <1>3 DEF IsSound, IsUnderstood, Now
  <2>2. versions \intersect Nat = {}
    BY <1>3 DEF Tracked, NoTable
  <2>3. ~IsPending(c)
    BY <1>3 DEF IsPending, Now
  <2>4. CASE catalog = {}
    <3>1. IsFresh(c) /\ Records(c) = 0 .. LastVersion
      BY <1>3, <2>3, <2>4 DEF IsFresh, Records, Now
    <3>2. QED
      BY <1>1, <2>1, <2>2, <2>3, <2>4, <3>1
         DEF WritesSucceed, StatementsRun, RowsAreNew, LastVersion
  <2>5. CASE catalog # {}
    <3>1. ~IsFresh(c)
      BY <2>5 DEF IsFresh, Now
    <3>2. Creates(c) = {} /\ Records(c) = 0 .. InstalledVersion(catalog)
      BY <1>3, <2>3, <3>1 DEF Creates, Records, UpTo, Now
    <3>3. InstalledVersion(catalog) \in Int
      BY <2>1, InstalledVersionCorrect DEF LastVersion
    <3>4. QED
      BY <1>1, <2>1, <2>2, <2>3, <3>2, <3>3
         DEF WritesSucceed, StatementsRun, RowsAreNew
  <2>6. QED BY <2>4, <2>5
<1>4. QED BY <1>2, <1>3

-----------------------------------------------------------------------------
(* What every transaction that commits does to the database, and what it   *)
(* lets its call report.                                                   *)
CommitTo(c, C, V, n, A, P) ==
  /\ catalog' = C /\ versions' = V /\ UNCHANGED extension
  /\ Unlock(c)
  /\ applied' = [applied EXCEPT ![c] = @ \union A]
  /\ adopted' = [adopted EXCEPT ![c] = @ \union P]
  /\ phase' = [phase EXCEPT ![c] = IF IsLatest(n) THEN "done" ELSE "loop"]
  /\ outcome' = [outcome EXCEPT ![c] = IF IsLatest(n) THEN "ok" ELSE @]
  /\ UNCHANGED <<size, seen>>

Extends(c, C, V, n, A, P) ==
  /\ CommitTo(c, C, V, n, A, P)
  /\ C \subseteq Objects /\ V \subseteq 0 .. LastVersion
  /\ dimensions' \in Sizes \union {Unset}
  /\ dimensions' # Unset <=> "memories" \in C
  /\ versions = NoTable \/ versions \subseteq V
  /\ A \union P \subseteq V
  /\ A \intersect P = {} /\ (A \union P) \intersect versions = {}
  /\ n = LastVersion + 1 =>
       /\ V = 0 .. LastVersion
       /\ dimensions' # Unset => size[c] \in {Unset, dimensions'}
  /\ versions = 0 .. LastVersion => UNCHANGED database
  /\ MayChange \/ UNCHANGED database
  /\ IsSound(Now) <=> IsSound(Now)'

CommitFacts(c) ==
  \E C \in SUBSET Objects, V, A, P \in SUBSET (0 .. LastVersion),
     n \in 1 .. LastVersion + 1 : Extends(c, C, V, n, A, P)

LEMMA FreshInstallExtends ==
  ASSUME TypeOK, ColumnOfTable, NEW c \in Callers, seen[c] = Now,
         FreshInstall(c)
  PROVE  CommitFacts(c)
<1> DEFINE C == SchemaOf(LastVersion)
           V == 0 .. LastVersion
<1>1. ~Tracked(versions) /\ catalog = {} /\ size[c] \in Sizes
  BY DEF FreshInstall, Proceeds, IsFresh, TypeOK, Now
<1>2. Creates(c) = C /\ Records(c) = V /\ dimensions' = size[c]
  BY <1>1 DEF FreshInstall, Creates, Records, IsPending, Now
<1>3. versions = NoTable \/ versions = {}
  BY <1>1 DEF Tracked
<1>4. CommitTo(c, C, V, LastVersion + 1, V, {})
  BY <1>1, <1>2, <1>3 DEF FreshInstall, Commit, CommitTo, Reports
<1>5. LastVersion \in 0 .. LastVersion /\ LastVersion + 1 - 1 = LastVersion
  BY DEF LastVersion
<1>6. "memories" \in C /\ C \subseteq Objects
  BY <1>5, SchemaObjects
<1>7. IsKnownSchema(catalog)
  BY <1>1, -1 \in -1 .. LastVersion, Schemas DEF IsKnownSchema, LastVersion
<1>8. IsSound(Now) /\ MayChange
  BY <1>1, <1>7 DEF IsSound, MayChange, Now
<1>9. IsSound(Now)'
  <2>1. LastVersion + 1 \in 1 .. LastVersion + 1
    BY DEF LastVersion
  <2>2. Now'.versions = 0 .. (LastVersion + 1) - 1
        /\ Now'.catalog = SchemaOf((LastVersion + 1) - 1)
    BY <1>4, <1>5 DEF Now, CommitTo
  <2>3. IsSound(Now')
    BY <2>1, <2>2, TrackedIsSound
  <2>4. QED BY <2>3
<1>10. versions # V /\ V \intersect versions = {}
  BY <1>3, 0 \in V, -1 \notin V DEF NoTable, LastVersion
<1>11. Unset \notin Sizes
  BY MigrationAssumption
<1>12. Extends(c, C, V, LastVersion + 1, V, {})
  BY <1>1, <1>2, <1>3, <1>4, <1>6, <1>8, <1>9, <1>10, <1>11 DEF Extends
<1>13. LastVersion + 1 \in 1 .. LastVersion + 1
  BY DEF LastVersion
<1>14. QED BY <1>6, <1>12, <1>13 DEF CommitFacts

LEMMA AdoptExtends ==
  ASSUME TypeOK, ColumnOfTable, NEW c \in Callers, seen[c] = Now, Adopt(c)
  PROVE  CommitFacts(c)
<1> DEFINE v == InstalledVersion(catalog)
           V == 0 .. v
<1>1. /\ ~Tracked(versions) /\ catalog # {} /\ UNCHANGED dimensions
      /\ ~WrongDimensions(c)
  BY DEF Adopt, Proceeds, IsFresh, Now
<1>2. Creates(c) = {} /\ Records(c) = V
  BY <1>1 DEF Creates, Records, IsFresh, IsPending, UpTo, Now
<1>3. versions = NoTable \/ versions = {}
  BY <1>1 DEF Tracked
<1>4. CommitTo(c, catalog, V, v + 1, {}, V)
  BY <1>2, <1>3 DEF Adopt, Commit, CommitTo, Reports, Now
<1>5. IsKnownSchema(catalog)
  BY <1>1 DEF Adopt, Proceeds, IsUnderstood, Now
<1>6. v \in 0 .. LastVersion /\ catalog = SchemaOf(v)
  <2>1. v \in -1 .. LastVersion /\ catalog = SchemaOf(v)
    BY <1>5, InstalledVersionCorrect
  <2>2. v # -1
    BY <1>1, <2>1, Schemas
  <2>3. QED BY <2>1, <2>2 DEF LastVersion
<1> HIDE DEF v
<1>7. "memories" \in catalog /\ catalog \subseteq Objects
  BY <1>6, SchemaObjects
<1>8. IsSound(Now) /\ MayChange
  BY <1>1, <1>5 DEF IsSound, MayChange, Now
<1>9. v + 1 \in 1 .. LastVersion + 1 /\ v = (v + 1) - 1
  BY <1>6 DEF LastVersion
<1>10. IsSound(Now)'
  <2>1. Now'.versions = 0 .. (v + 1) - 1 /\ Now'.catalog = SchemaOf((v + 1) - 1)
    BY <1>4, <1>6, <1>9 DEF Now, CommitTo
  <2>2. IsSound(Now')
    BY <1>9, <2>1, TrackedIsSound
  <2>3. QED BY <2>2
<1>11. V \subseteq 0 .. LastVersion
  BY <1>6 DEF LastVersion
<1>12. versions # 0 .. LastVersion /\ V \intersect versions = {}
  <2>1. 0 \in 0 .. LastVersion /\ -1 \notin 0 .. LastVersion
    BY DEF LastVersion
  <2>2. QED BY <1>3, <1>11, <2>1 DEF NoTable
<1>13. v + 1 = LastVersion + 1 => v = LastVersion
  BY <1>6 DEF LastVersion
<1>14. dimensions' # Unset /\ dimensions' \in Sizes \union {Unset}
  BY <1>1, <1>7 DEF ColumnOfTable, TypeOK, Database, Now
<1>15. size[c] \in {Unset, dimensions'}
  BY <1>1, <1>14 DEF WrongDimensions, Now
<1>16. Extends(c, catalog, V, v + 1, {}, V)
  BY <1>1, <1>3, <1>4, <1>7, <1>8, <1>10, <1>11, <1>12, <1>13, <1>14, <1>15
     DEF Extends
<1>17. QED BY <1>7, <1>9, <1>11, <1>16 DEF CommitFacts

(* Unlike the others, a pending migration may run on a database that is    *)
(* not sound; it does not make it sound.                                   *)
LEMMA ApplyNextExtends ==
  ASSUME TypeOK, ColumnOfTable, NEW c \in Callers, seen[c] = Now,
         ApplyNext(c)
  PROVE  CommitFacts(c)
<1> DEFINE n == Cardinality(versions)
           C == catalog \union CreatedBy(n)
           V == versions \union {n}
<1>1. /\ Tracked(versions) /\ n <= LastVersion /\ UNCHANGED dimensions
      /\ ~WrongDimensions(c) /\ IsUnderstood(c)
      /\ NextVersion(c) = n /\ IsPending(c) /\ ~IsFresh(c)
  BY DEF ApplyNext, IsPending, IsFresh, NextVersion, Proceeds, Now
<1>2. Creates(c) = CreatedBy(n) /\ Records(c) = {n}
  BY <1>1 DEF Creates, Records, NextRow, Now
<1>3. CreatedBy(n) \intersect catalog = {} /\ n \notin versions
  BY <1>2 DEF ApplyNext, Commit, WritesSucceed, StatementsRun, RowsAreNew
<1>4. n \in 1 .. LastVersion + 1 /\ versions = 0 .. n - 1
  BY <1>1, UnderstoodVersions
<1>5. versions \ NoTable = versions
  BY <1>4 DEF NoTable
<1>6. CommitTo(c, C, V, n + 1, {n}, {})
  BY <1>1, <1>2, <1>5 DEF ApplyNext, Commit, CommitTo, Reports
<1> HIDE DEF n
<1>7. n \in 1 .. LastVersion /\ n - 1 \in 0 .. LastVersion - 1
      /\ n \in 0 .. LastVersion
  BY <1>1, <1>4 DEF LastVersion
<1>8. V = 0 .. n
  BY <1>4, <1>7, IntervalSuccessor DEF LastVersion
<1>9. /\ C \subseteq Objects
      /\ "memories" \in C <=> "memories" \in catalog
  BY <1>7, PendingFits DEF TypeOK, Now, Database
<1>10. IsSound(Now) <=> catalog = SchemaOf(n - 1)
  BY <1>4, TrackedIsSound DEF Now
<1>11. IsSound(Now)' <=> C = SchemaOf(n)
  <2>1. n + 1 \in 1 .. LastVersion + 1 /\ (n + 1) - 1 = n
    BY <1>7 DEF LastVersion
  <2>2. Now'.versions = 0 .. (n + 1) - 1 /\ Now'.catalog = C
    BY <1>6, <1>8, <2>1 DEF Now, CommitTo
  <2>3. IsSound(Now') <=> C = SchemaOf(n)
    BY <2>1, <2>2, TrackedIsSound
  <2>4. QED BY <2>3
<1>12. C = SchemaOf(n) <=> catalog = SchemaOf(n - 1)
  <2>1. SchemaOf(n) = SchemaOf(n - 1) \union CreatedBy(n)
    BY <1>7, SchemaStep
  <2>2. CreatedBy(n) \intersect SchemaOf(n - 1) = {}
    BY <1>7, PendingFits
  <2>3. QED BY <1>3, <2>1, <2>2
<1>13. MayChange
  BY <1>1, <1>4, <1>7 DEF MayChange
<1>14. V \subseteq 0 .. LastVersion
  BY <1>7, <1>8 DEF LastVersion
<1>15. n = LastVersion => V = 0 .. LastVersion
  BY <1>8
<1>16. versions # 0 .. LastVersion
  BY <1>3, <1>7
<1>17. dimensions' \in Sizes \union {Unset}
       /\ (dimensions' # Unset <=> "memories" \in C)
  BY <1>1, <1>9 DEF ColumnOfTable, TypeOK, Database, Now
<1>18. dimensions' # Unset => size[c] \in {Unset, dimensions'}
  BY <1>1 DEF WrongDimensions, Now
<1>19. n + 1 = LastVersion + 1 => n = LastVersion
  BY <1>7 DEF LastVersion
<1>20. Extends(c, C, V, n + 1, {n}, {})
  BY <1>3, <1>6, <1>9, <1>10, <1>11, <1>12, <1>13, <1>14, <1>15, <1>16, <1>17,
     <1>18, <1>19 DEF Extends
<1>21. n + 1 \in 1 .. LastVersion + 1 /\ {n} \in SUBSET (0 .. LastVersion)
  BY <1>7 DEF LastVersion
<1>22. QED BY <1>9, <1>14, <1>20, <1>21 DEF CommitFacts

LEMMA NothingLeftExtends ==
  ASSUME TypeOK, ColumnOfTable, NEW c \in Callers, seen[c] = Now,
         NothingLeft(c)
  PROVE  CommitFacts(c)
<1>1. /\ Tracked(versions) /\ ~(Cardinality(versions) <= LastVersion)
      /\ UNCHANGED dimensions
      /\ ~WrongDimensions(c) /\ IsUnderstood(c)
      /\ ~IsPending(c) /\ ~IsFresh(c)
  BY DEF NothingLeft, IsPending, IsFresh, NextVersion, Proceeds, Now
<1>2. Creates(c) = {} /\ Records(c) = {}
  BY <1>1 DEF Creates, Records, Now
<1>3. versions = 0 .. LastVersion
  <2>1. Cardinality(versions) \in 1 .. LastVersion + 1
        /\ versions = 0 .. Cardinality(versions) - 1
    BY <1>1, UnderstoodVersions
  <2>2. Cardinality(versions) = LastVersion + 1
    BY <1>1, <2>1 DEF LastVersion
  <2>3. QED BY <2>1, <2>2, LastVersion + 1 - 1 = LastVersion DEF LastVersion
<1>4. versions \ NoTable = versions
  BY <1>3 DEF NoTable, LastVersion
<1>5. CommitTo(c, catalog, versions, LastVersion + 1, {}, {})
  BY <1>2, <1>4 DEF NothingLeft, Commit, CommitTo
<1>6. UNCHANGED database /\ Now' = Now
  BY <1>1, <1>5 DEF CommitTo, database, Now
<1>7. IsSound(Now)' <=> IsSound(Now)
  <2>1. IsSound(Now') <=> IsSound(Now)
    BY <1>6
  <2>2. QED BY <2>1
<1>8. /\ catalog \subseteq Objects /\ dimensions \in Sizes \union {Unset}
      /\ size[c] \in Sizes \union {Unset}
  BY DEF TypeOK, Now, Database
<1>9. dimensions' # Unset => size[c] \in {Unset, dimensions'}
  BY <1>1, <1>8 DEF WrongDimensions, Now
<1>10. Extends(c, catalog, versions, LastVersion + 1, {}, {})
  BY <1>1, <1>3, <1>5, <1>6, <1>7, <1>8, <1>9 DEF Extends, ColumnOfTable
<1>11. LastVersion + 1 \in 1 .. LastVersion + 1
  BY DEF LastVersion
<1>12. QED BY <1>3, <1>8, <1>10, <1>11 DEF CommitFacts

Commits(c) == FreshInstall(c) \/ Adopt(c) \/ ApplyNext(c) \/ NothingLeft(c)

LEMMA CommitsExtend ==
  ASSUME MigrationInv, NEW c \in Callers, Commits(c)
  PROVE  /\ phase[c] = "read" /\ lock = c /\ CommitFacts(c)
<1>1. phase[c] = "read"
  BY DEF Commits, FreshInstall, Adopt, ApplyNext, NothingLeft, Proceeds
<1>2. lock = c /\ seen[c] = Now
  BY <1>1 DEF MigrationInv, LockHeld, InTransaction, ReadIsCurrent
<1>3. CommitFacts(c)
  BY <1>2, FreshInstallExtends, AdoptExtends, ApplyNextExtends,
     NothingLeftExtends DEF MigrationInv, Commits
<1>4. QED BY <1>1, <1>2, <1>3

-----------------------------------------------------------------------------
(* The invariant is inductive.                                             *)

LEMMA InitInv == Init => MigrationInv
<1> SUFFICES ASSUME Init PROVE MigrationInv
  OBVIOUS
<1>1. Now \in Databases
  BY MigrationAssumption DEF Init, Now, Database
<1>2. TypeOK
  BY <1>1, MigrationAssumption DEF Init, TypeOK
<1>3. ColumnOfTable
  BY <1>1, MigrationAssumption DEF ColumnOfTable, Now
<1>4. LockHeld /\ ReadIsCurrent /\ OutcomeIsLast
  BY DEF Init, LockHeld, InTransaction, ReadIsCurrent, OutcomeIsLast
<1>5. ReportsTracked /\ ReportsDisjoint
  BY DEF Init, ReportsTracked, ReportsDisjoint, Reported
<1>6. SuccessMeansTracked /\ SoundSuccessIsLatest /\ RacersDoNotFail
  BY DEF Init, SuccessMeansTracked, SoundSuccessIsLatest, RacersDoNotFail
<1>7. QED
  BY <1>2, <1>3, <1>4, <1>5, <1>6 DEF MigrationInv

(* Nothing that the database determines changes but by a commit.           *)
LEMMA DatabaseUnchanged ==
  ASSUME UNCHANGED database
  PROVE  /\ Now' = Now
         /\ IsSound(Now)' <=> IsSound(Now)
         /\ ColumnOfTable' <=> ColumnOfTable
<1>1. Now' = Now
  BY DEF database, Now
<1>2. QED
  BY <1>1 DEF database, IsSound, ColumnOfTable, Tracked, NoTable,
              IsContiguous, IsKnownSchema, SchemaOf, CreatedBy

LEMMA WaitInv ==
  ASSUME MigrationInv, NEW c \in Callers,
         Call(c) \/ Begin(c) \/ TakeLock(c) \/ Read(c)
  PROVE  MigrationInv'
<1> USE DEF MigrationInv
<1>1. UNCHANGED <<catalog, versions, dimensions, extension, applied, adopted,
                  outcome>>
  BY DEF Call, Begin, TakeLock, Read, database
<1>2. UNCHANGED database
  BY <1>1 DEF database
<1>3. TypeOK'
  BY <1>1, <1>2, DatabaseUnchanged
     DEF TypeOK, Call, Begin, TakeLock, Read
<1>4. LockHeld'
  <2>1. CASE TakeLock(c)
    BY <2>1, MigrationAssumption
       DEF TakeLock, LockIsFree, TypeOK, LockHeld, InTransaction
  <2>2. CASE Call(c) \/ Begin(c) \/ Read(c)
    BY <2>2 DEF TypeOK, LockHeld, InTransaction, Call, Begin, Read
  <2>3. QED BY <2>1, <2>2
<1>5. ReadIsCurrent'
  BY <1>2, DatabaseUnchanged
     DEF TypeOK, ReadIsCurrent, Call, Begin, TakeLock, Read
<1>6. ReportsTracked' /\ ReportsDisjoint'
  BY <1>1 DEF ReportsTracked, ReportsDisjoint, Reported
<1>7. SuccessMeansTracked'
  <2>1. ASSUME NEW d \in Callers, outcome[d] = "ok" PROVE size'[d] = size[d]
    BY <2>1 DEF Call, Begin, TakeLock, Read, OutcomeIsLast, TypeOK
  <2>2. QED BY <1>1, <2>1 DEF SuccessMeansTracked
<1>8. RacersDoNotFail'
  BY <1>1, <1>2, DatabaseUnchanged DEF RacersDoNotFail
<1>9. OutcomeIsLast'
  BY <1>1 DEF TypeOK, OutcomeIsLast, Call, Begin, TakeLock, Read
<1>10. SoundSuccessIsLatest'
  <2>1. ASSUME NEW d \in Callers, outcome[d] = "ok" PROVE seen'[d] = seen[d]
    BY <2>1 DEF Call, Begin, TakeLock, Read, OutcomeIsLast, TypeOK
  <2>2. QED BY <1>1, <2>1 DEF SoundSuccessIsLatest
<1>11. QED
  BY <1>2, <1>3, <1>4, <1>5, <1>6, <1>7, <1>8, <1>9, <1>10, DatabaseUnchanged

(* A call ends without a commit: refused, failed or interrupted.  Only on a*)
(* database that is not sound, or lacks the extension, is it MIGRATION or  *)
(* DB.                                                                     *)
LEMMA ThrowInv ==
  ASSUME MigrationInv, NEW c \in Callers,
         NEW code \in {"VALIDATION", "CONFIG", "MIGRATION", "DB",
                       "INTERRUPTED"},
         phase[c] \notin {"idle", "done"}, Throw(c, code),
         code \in {"MIGRATION", "DB"} => ~(IsSound(Now) /\ extension)
  PROVE  MigrationInv'
<1> USE DEF MigrationInv
<1>1. /\ UNCHANGED <<catalog, versions, dimensions, extension>>
      /\ UNCHANGED <<size, seen, applied, adopted>>
      /\ phase' = [phase EXCEPT ![c] = "done"]
      /\ outcome' = [outcome EXCEPT ![c] = code]
      /\ lock' = IF lock = c THEN NoCaller ELSE lock
  BY DEF Throw, Unlock, database
<1>2. UNCHANGED database
  BY <1>1 DEF database
<1>3. TypeOK'
  BY <1>1, <1>2, DatabaseUnchanged DEF TypeOK
<1>4. LockHeld' /\ OutcomeIsLast'
  BY <1>1 DEF TypeOK, LockHeld, InTransaction, OutcomeIsLast
<1>5. ReadIsCurrent'
  BY <1>1, <1>2, DatabaseUnchanged DEF TypeOK, ReadIsCurrent
<1>6. ReportsTracked' /\ ReportsDisjoint'
  BY <1>1 DEF ReportsTracked, ReportsDisjoint, Reported
<1>7. SuccessMeansTracked'
  BY <1>1 DEF TypeOK, SuccessMeansTracked
<1>8. RacersDoNotFail'
  BY <1>1, <1>2, DatabaseUnchanged DEF TypeOK, RacersDoNotFail
<1>9. SoundSuccessIsLatest'
  <2>1. ASSUME NEW d \in Callers, outcome'[d] = "ok" PROVE outcome[d] = "ok"
    BY <1>1, <2>1 DEF TypeOK
  <2>2. QED BY <1>1, <2>1 DEF SoundSuccessIsLatest
<1>10. QED
  BY <1>2, <1>3, <1>4, <1>5, <1>6, <1>7, <1>8, <1>9, DatabaseUnchanged

LEMMA FailureInv ==
  ASSUME MigrationInv, NEW c \in Callers,
         Reject(c) \/ WriteFails(c) \/ Interrupt(c)
  PROVE  MigrationInv'
<1>1. phase[c] \notin {"idle", "done"}
  BY DEF Reject, WriteFails, Proceeds, Interrupt
<1>2. phase[c] = "read" => seen[c] = Now
  BY DEF MigrationInv, ReadIsCurrent
<1>3. seen[c] = Now /\ IsSound(Now) => IsUnderstood(c) /\ WritesSucceed(c)
  BY SoundIsUnderstood DEF MigrationInv
<1>4. \E code \in {"VALIDATION", "CONFIG", "MIGRATION", "DB", "INTERRUPTED"} :
        /\ Throw(c, code)
        /\ code \in {"MIGRATION", "DB"} => ~(IsSound(Now) /\ extension)
  <2>1. CASE Reject(c)
    BY <2>1, <1>2, <1>3 DEF Reject, Now
  <2>2. CASE WriteFails(c)
    BY <2>2, <1>2, <1>3 DEF WriteFails, Proceeds
  <2>3. CASE Interrupt(c)
    BY <2>3 DEF Interrupt
  <2>4. QED BY <2>1, <2>2, <2>3
<1>5. QED BY <1>1, <1>4, ThrowInv

LEMMA CommitInv ==
  ASSUME MigrationInv, NEW c \in Callers, Commits(c)
  PROVE  MigrationInv'
<1> USE DEF MigrationInv
<1>1. phase[c] = "read" /\ lock = c
  BY CommitsExtend
<1>2. PICK C \in SUBSET Objects, V \in SUBSET (0 .. LastVersion),
           A \in SUBSET (0 .. LastVersion), P \in SUBSET (0 .. LastVersion),
           n \in 1 .. LastVersion + 1 : Extends(c, C, V, n, A, P)
  BY CommitsExtend DEF CommitFacts
<1>3. /\ catalog' = C /\ versions' = V /\ extension' = extension
      /\ lock' = NoCaller
      /\ applied' = [applied EXCEPT ![c] = @ \union A]
      /\ adopted' = [adopted EXCEPT ![c] = @ \union P]
      /\ phase' = [phase EXCEPT ![c] = IF n = LastVersion + 1
                                      THEN "done" ELSE "loop"]
      /\ outcome' = [outcome EXCEPT ![c] = IF n = LastVersion + 1
                                          THEN "ok" ELSE @]
      /\ UNCHANGED <<size, seen>>
  BY <1>1, <1>2 DEF Extends, CommitTo, Unlock, IsLatest
<1>4. /\ dimensions' \in Sizes \union {Unset}
      /\ dimensions' # Unset <=> "memories" \in C
      /\ versions = NoTable \/ versions \subseteq V
      /\ A \union P \subseteq V /\ A \intersect P = {}
      /\ (A \union P) \intersect versions = {}
  BY <1>2 DEF Extends
<1>5. TypeOK'
  <2>1. Now' \in Database
    BY <1>3, <1>4, V \in SUBSET (0 .. LastVersion + 1)
       DEF TypeOK, Now, Database, LastVersion
  <2>2. QED BY <1>3, <2>1 DEF TypeOK
<1>6. \A d \in Callers : d # c => phase[d] \notin InTransaction
  BY <1>1 DEF LockHeld
<1>7. LockHeld' /\ ReadIsCurrent' /\ OutcomeIsLast'
  BY <1>1, <1>3, <1>6
     DEF TypeOK, LockHeld, InTransaction, ReadIsCurrent, OutcomeIsLast
<1>8. ColumnOfTable'
  BY <1>3, <1>4 DEF ColumnOfTable
<1>9. \A d \in Callers : Reported(d) \subseteq V
                         /\ Reported(d) \intersect (A \union P) = {}
  <2>1. ASSUME NEW d \in Callers PROVE Reported(d) \subseteq 0 .. LastVersion
    BY DEF TypeOK, Reported
  <2>2. versions = NoTable => versions \intersect (0 .. LastVersion) = {}
    BY DEF NoTable, LastVersion
  <2>3. QED BY <1>4, <2>1, <2>2 DEF ReportsTracked
<1>10. \A d \in Callers :
         Reported(d)' = IF d = c THEN Reported(d) \union A \union P
                                 ELSE Reported(d)
  BY <1>3 DEF TypeOK, Reported
<1>11. ReportsTracked'
  <2>1. ASSUME NEW d \in Callers
        PROVE  Reported(d)' \subseteq V
    BY <1>4, <1>9, <1>10
  <2>2. ASSUME NEW d \in Callers
        PROVE  applied'[d] \intersect adopted'[d] = {}
    BY <1>3, <1>4, <1>9 DEF TypeOK, ReportsTracked, Reported
  <2>3. QED BY <1>3, <2>1, <2>2 DEF ReportsTracked
<1>12. ReportsDisjoint'
  BY <1>9, <1>10 DEF ReportsDisjoint
<1>13. SuccessMeansTracked'
  <2>1. ASSUME NEW d \in Callers, outcome'[d] = "ok"
        PROVE  /\ V = 0 .. LastVersion
               /\ dimensions' # Unset => size[d] \in {Unset, dimensions'}
    <3>1. CASE d = c
      <4>1. n = LastVersion + 1
        BY <1>1, <1>3, <2>1, <3>1 DEF TypeOK, OutcomeIsLast
      <4>2. QED BY <1>2, <3>1, <4>1 DEF Extends
    <3>2. CASE d # c
      <4>1. outcome[d] = "ok"
        BY <1>3, <2>1, <3>2 DEF TypeOK
      <4>2. UNCHANGED database
        BY <1>2, <4>1 DEF SuccessMeansTracked, Extends
      <4>3. QED BY <1>3, <4>1, <4>2 DEF SuccessMeansTracked, database
    <3>3. QED BY <3>1, <3>2
  <2>2. QED BY <1>3, <2>1 DEF SuccessMeansTracked
<1>14. RacersDoNotFail'
  <2>1. IsSound(Now)' /\ extension' => IsSound(Now) /\ extension
    BY <1>2, <1>3 DEF Extends
  <2>2. ASSUME NEW d \in Callers, outcome'[d] \in {"MIGRATION", "DB"}
        PROVE  outcome[d] = outcome'[d]
    BY <1>3, <2>2 DEF TypeOK
  <2>3. QED BY <2>1, <2>2 DEF RacersDoNotFail
<1>15. SoundSuccessIsLatest'
  <2>1. ASSUME NEW d \in Callers, outcome'[d] = "ok", IsSound(seen[d])
        PROVE  C = SchemaOf(LastVersion)
    <3>1. CASE d = c
      <4>1. n = LastVersion + 1
        BY <1>1, <1>3, <2>1, <3>1 DEF TypeOK, OutcomeIsLast
      <4>2. IsSound(Now)' /\ versions' = 0 .. LastVersion
        BY <1>1, <1>2, <1>3, <2>1, <3>1, <4>1 DEF Extends, ReadIsCurrent
      <4>3. IsSound(Now')
        BY <4>2
      <4>4. Now'.versions = 0 .. (LastVersion + 1) - 1 /\ Now'.catalog = C
        BY <1>3, <4>2, LastVersion + 1 - 1 = LastVersion DEF Now, LastVersion
      <4>5. LastVersion + 1 \in 1 .. LastVersion + 1
        BY DEF LastVersion
      <4>6. C = SchemaOf((LastVersion + 1) - 1)
        BY <4>3, <4>4, <4>5, TrackedIsSound
      <4>7. QED BY <4>6, LastVersion + 1 - 1 = LastVersion DEF LastVersion
    <3>2. CASE d # c
      <4>1. outcome[d] = "ok"
        BY <1>3, <2>1, <3>2 DEF TypeOK
      <4>2. UNCHANGED database /\ catalog = SchemaOf(LastVersion)
        BY <1>2, <2>1, <4>1
           DEF SuccessMeansTracked, SoundSuccessIsLatest, Extends
      <4>3. QED BY <1>3, <4>2 DEF database
    <3>3. QED BY <3>1, <3>2
  <2>2. QED BY <1>3, <2>1 DEF SoundSuccessIsLatest
<1>16. QED
  BY <1>5, <1>7, <1>8, <1>11, <1>12, <1>13, <1>14, <1>15

LEMMA StepInv == MigrationInv /\ [Next]_vars => MigrationInv'
<1> SUFFICES ASSUME MigrationInv, [Next]_vars PROVE MigrationInv'
  OBVIOUS
<1>1. ASSUME NEW c \in Callers, Call(c) \/ Progress(c) \/ Interrupt(c)
      PROVE  MigrationInv'
  BY <1>1, WaitInv, FailureInv, CommitInv DEF Progress, Commits
<1>2. CASE UNCHANGED vars
  <2>1. UNCHANGED database
    BY <1>2 DEF vars, database
  <2>2. QED
    BY <1>2, <2>1, DatabaseUnchanged
       DEF vars, MigrationInv, TypeOK, LockHeld, InTransaction, ReadIsCurrent,
           OutcomeIsLast, ReportsTracked, ReportsDisjoint, Reported,
           SuccessMeansTracked, SoundSuccessIsLatest, RacersDoNotFail
<1>3. QED BY <1>1, <1>2 DEF Next, Quiet

LEMMA Inductive == Spec => []MigrationInv
BY InitInv, StepInv, PTL DEF Spec

-----------------------------------------------------------------------------
(* Every state of the database and of the calls is one that migrate() can  *)
(* produce: the catalog, the table and the reports hold known objects and  *)
(* versions only.                                                          *)
THEOREM TypeCorrect == Spec => []TypeOK
<1>1. MigrationInv => TypeOK
  BY DEF MigrationInv
<1>2. QED BY Inductive, <1>1, PTL

(* However many calls of migrate() race, each migration is reported, as    *)
(* applied or as adopted, by one call only.                                *)
THEOREM OneReport == Spec => []ReportedByOne
<1>1. MigrationInv => ReportedByOne
  BY DEF MigrationInv, ReportsTracked, ReportsDisjoint, Reported, ReportedByOne
<1>2. QED BY Inductive, <1>1, PTL

(* A call of migrate() that succeeds leaves a complete table and a column  *)
(* of its dimensions, and the newest schema if what it last read was sound;*)
(* of a table that does not tell the truth nothing is assumed.             *)
THEOREM SuccessIsLatest == Spec => []SuccessMeansLatest
<1>1. MigrationInv => SuccessMeansLatest
  <2> SUFFICES ASSUME MigrationInv, NEW c \in Callers, outcome[c] = "ok"
               PROVE  /\ versions = 0 .. LastVersion
                      /\ dimensions # Unset => size[c] \in {Unset, dimensions}
                      /\ IsSound(seen[c]) =>
                           /\ catalog = SchemaOf(LastVersion)
                           /\ size[c] \in {Unset, dimensions}
    BY DEF SuccessMeansLatest
  <2>1. /\ versions = 0 .. LastVersion
        /\ dimensions # Unset => size[c] \in {Unset, dimensions}
    BY DEF MigrationInv, SuccessMeansTracked
  <2>2. IsSound(seen[c]) => catalog = SchemaOf(LastVersion)
    BY DEF MigrationInv, SoundSuccessIsLatest
  <2>3. "memories" \in SchemaOf(LastVersion)
    BY SchemaObjects, LastVersion \in 0 .. LastVersion DEF LastVersion
  <2>4. QED BY <2>1, <2>2, <2>3 DEF MigrationInv, ColumnOfTable
<1>2. QED BY Inductive, <1>1, PTL

(* Calls of migrate() never make one another fail: none reports MIGRATION  *)
(* or DB while the database is sound and has the extension.                *)
THEOREM NoRacerFails == Spec => []RacersDoNotFail
<1>1. MigrationInv => RacersDoNotFail
  BY DEF MigrationInv
<1>2. QED BY Inductive, <1>1, PTL

(* Which steps change the database: commits of calls that had work to do.  *)
LEMMA DatabaseStep ==
  ASSUME MigrationInv, [Next]_vars, ~UNCHANGED database
  PROVE  MayChange /\ (IsSound(Now) => IsSound(Now)')
<1>1. PICK c \in Callers : Commits(c)
  BY DEF Next, Quiet, vars, database, Call, Progress, Commits, Begin, TakeLock,
         Read, Reject, WriteFails, Interrupt, Throw
<1>2. CommitFacts(c)
  BY <1>1, CommitsExtend
<1>3. QED BY <1>2 DEF CommitFacts, Extends

(* A transaction of migrate() that finds a sound database, tracked or not, *)
(* leaves a sound one, whoever else runs or is cut off.                    *)
THEOREM SoundStaysSound == Spec => StaysSound
<1>1. MigrationInv /\ [Next]_vars => [IsSound(Now) => IsSound(Now)']_database
  BY DatabaseStep
<1>2. QED BY Inductive, <1>1, PTL DEF Spec, StaysSound

(* migrate() changes nothing in a database whose table has gaps, is        *)
(* complete or comes from a newer version, or that is untracked and has a  *)
(* catalog that no migration leaves, also when calls race.                 *)
THEOREM RefusedIsUntouched == Spec => RefusedUntouched
<1>1. MigrationInv /\ [Next]_vars => [MayChange]_database
  BY DatabaseStep
<1>2. QED BY Inductive, <1>1, PTL DEF Spec, RefusedUntouched
=============================================================================
