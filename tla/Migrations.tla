----------------------------- MODULE Migrations -----------------------------
(***************************************************************************)
(* migrate() (src/db/migrations/runner.ts), called at the same time by     *)
(* several application instances.  A call loops over transactions, each of *)
(* which takes an advisory lock, reads the tracking table and the catalog, *)
(* then installs, adopts or applies at most one step.                      *)
(*                                                                         *)
(* What a transaction writes nobody sees before it commits, so its writes  *)
(* and its commit are one step.  What it does was decided from what it     *)
(* read; whether the statements succeed depends on the database they meet. *)
(* Nothing compares the tracking table with the catalog.  A connection may *)
(* break anywhere and rolls back.  Bound: each member of Callers calls     *)
(* once.                                                                   *)
(***************************************************************************)
EXTENDS Integers, FiniteSets

CONSTANTS
  Callers,      \* application instances
  Sizes,        \* embedding dimensions
  Unset,        \* no dimensions; no embedding column
  NoCaller,     \* the holder of a free lock
  Databases     \* the databases that the calls may find

VARIABLES
  catalog,     \* which objects of the Mnemocyte schema exist
  versions,    \* the rows of mnemocyte_migrations
  dimensions,  \* of the embedding column
  extension,   \* whether pgvector is installed
  lock,        \* the holder of the advisory lock
  phase,       \* where each call is
  size,        \* the dimensions each call was given
  seen,        \* the database each call's transaction read
  applied,     \* the migrations each call reports as applied
  adopted,     \* and as adopted
  outcome      \* "none", "ok" or an error code

database == <<catalog, versions, dimensions, extension>>
callVars == <<phase, size, seen, applied, adopted, outcome>>
vars == <<catalog, versions, dimensions, extension, lock, phase, size, seen,
          applied, adopted, outcome>>

-----------------------------------------------------------------------------
(* MIGRATIONS: each creates an object that the previous one lacks, and its *)
(* statements name tables that must be there.                              *)
LastVersion == 3
Objects == {"memories", "events", "meta", "metaModel", "scoped"}
CreatedBy(v) == CASE v = 0 -> {"memories", "events"}
                  [] v = 1 -> {"meta"}
                  [] v = 2 -> {"metaModel"}
                  [] v = 3 -> {"scoped"}
NeededBy(v) == CASE v = 0 -> {}
                 [] v = 1 -> {}
                 [] v = 2 -> {"memories", "meta"}
                 [] v = 3 -> {"memories", "events", "meta"}
SchemaOf(v) == UNION {CreatedBy(w) : w \in 0 .. v}

(* installedVersion throws for a catalog that no migration leaves.         *)
IsKnownSchema(objects) == \E v \in -1 .. LastVersion : objects = SchemaOf(v)
InstalledVersion(objects) ==
  CHOOSE v \in -1 .. LastVersion : objects = SchemaOf(v)

NoTable == {-1}  \* the versions of a database without a tracking table
Tracked(vs) == vs # NoTable /\ vs # {}
IsContiguous(vs) == vs = 0 .. Cardinality(vs) - 1

(* The tracking table, if there is one, tells the truth about the catalog. *)
IsSound(d) ==
  IF Tracked(d.versions)
  THEN /\ IsContiguous(d.versions)
       /\ d.versions \subseteq 0 .. LastVersion
       /\ d.catalog = SchemaOf(Cardinality(d.versions) - 1)
  ELSE IsKnownSchema(d.catalog)

Database == [catalog : SUBSET Objects,
             versions : {NoTable} \union SUBSET (0 .. LastVersion + 1),
             dimensions : Sizes \union {Unset},
             extension : BOOLEAN]

(* Only a table has columns: the embedding and the namespace are columns of*)
(* memories, the model is one of meta.                                     *)
ASSUME MigrationAssumption ==
  /\ Unset \notin Sizes
  /\ NoCaller \notin Callers
  /\ Databases \subseteq Database
  /\ \A d \in Databases :
       /\ d.dimensions # Unset <=> "memories" \in d.catalog
       /\ "scoped" \in d.catalog => "memories" \in d.catalog
       /\ "metaModel" \in d.catalog => "meta" \in d.catalog

Now == [catalog |-> catalog, versions |-> versions,
        dimensions |-> dimensions, extension |-> extension]

TypeOK ==
  /\ Now \in Database
  /\ lock \in Callers \union {NoCaller}
  /\ phase \in [Callers -> {"idle", "loop", "begun", "locked", "read", "done"}]
  /\ size \in [Callers -> Sizes \union {Unset}]
  /\ seen \in [Callers -> Database]
  /\ applied \in [Callers -> SUBSET (0 .. LastVersion)]
  /\ adopted \in [Callers -> SUBSET (0 .. LastVersion)]
  /\ outcome \in [Callers -> {"none", "ok", "VALIDATION", "CONFIG",
                              "MIGRATION", "DB", "INTERRUPTED"}]

Init ==
  /\ \E d \in Databases :
       /\ catalog = d.catalog /\ versions = d.versions
       /\ dimensions = d.dimensions /\ extension = d.extension
  /\ lock = NoCaller
  /\ phase = [c \in Callers |-> "idle"]
  /\ size = [c \in Callers |-> Unset]
  /\ seen = [c \in Callers |-> Now]
  /\ applied = [c \in Callers |-> {}]
  /\ adopted = [c \in Callers |-> {}]
  /\ outcome = [c \in Callers |-> "none"]

-----------------------------------------------------------------------------
Call(c) ==
  /\ phase[c] = "idle"
  /\ phase' = [phase EXCEPT ![c] = "loop"]
  /\ \E s \in Sizes \union {Unset} : size' = [size EXCEPT ![c] = s]
  /\ UNCHANGED <<database, lock, seen, applied, adopted, outcome>>

Begin(c) ==
  /\ phase[c] = "loop"
  /\ phase' = [phase EXCEPT ![c] = "begun"]
  /\ UNCHANGED <<database, lock, size, seen, applied, adopted, outcome>>

NoLock == TRUE  \* fault: transactions do not wait for one another
LockIsFree == lock = NoCaller

TakeLock(c) ==
  /\ phase[c] = "begun"
  /\ LockIsFree
  /\ lock' = c
  /\ phase' = [phase EXCEPT ![c] = "locked"]
  /\ UNCHANGED <<database, size, seen, applied, adopted, outcome>>

(* Dimensions, tracking table and catalog, all under the lock.             *)
Read(c) ==
  /\ phase[c] = "locked"
  /\ seen' = [seen EXCEPT ![c] = Now]
  /\ phase' = [phase EXCEPT ![c] = "read"]
  /\ UNCHANGED <<database, lock, size, applied, adopted, outcome>>

(* The end of a transaction releases the lock.                             *)
Unlock(c) == lock' = IF lock = c THEN NoCaller ELSE lock

(* The transaction rolls back and the call throws.                         *)
Throw(c, code) ==
  /\ Unlock(c)
  /\ phase' = [phase EXCEPT ![c] = "done"]
  /\ outcome' = [outcome EXCEPT ![c] = code]
  /\ UNCHANGED <<database, size, seen, applied, adopted>>

DoneTooEarly(n) == n >= LastVersion  \* fault: the last migration is left out
NeverDone(n) == n > LastVersion + 1  \* fault: there is always one more
IsLatest(n) == n = LastVersion + 1

WrongDimensions(c) ==
  /\ size[c] # Unset
  /\ seen[c].dimensions # Unset
  /\ seen[c].dimensions # size[c]

IsFresh(c) == ~Tracked(seen[c].versions) /\ seen[c].catalog = {}

GapsUnderstood(c) ==  \* fault: only the number of rows is looked at
  IF Tracked(seen[c].versions)
  THEN Cardinality(seen[c].versions) <= LastVersion + 1
  ELSE IsKnownSchema(seen[c].catalog)
IsUnderstood(c) ==
  IF Tracked(seen[c].versions)
  THEN /\ IsContiguous(seen[c].versions)
       /\ Cardinality(seen[c].versions) <= LastVersion + 1
  ELSE IsKnownSchema(seen[c].catalog)

Reject(c) ==
  /\ phase[c] = "read"
  /\ \/ WrongDimensions(c) /\ Throw(c, "CONFIG")
     \/ ~WrongDimensions(c) /\ ~IsUnderstood(c) /\ Throw(c, "MIGRATION")
     \/ /\ ~WrongDimensions(c) /\ IsFresh(c) /\ size[c] = Unset
        /\ Throw(c, "VALIDATION")
     \/ /\ ~WrongDimensions(c) /\ IsFresh(c) /\ size[c] # Unset
        /\ ~seen[c].extension
        /\ Throw(c, "MIGRATION")

Proceeds(c) ==
  /\ phase[c] = "read"
  /\ ~WrongDimensions(c)
  /\ IsUnderstood(c)
  /\ IsFresh(c) => size[c] # Unset /\ seen[c].extension

-----------------------------------------------------------------------------
(* What a transaction writes, as decided from what it read.                *)
NextVersion(c) == Cardinality(seen[c].versions)
IsPending(c) == Tracked(seen[c].versions) /\ NextVersion(c) <= LastVersion

OneMore(v) == 0 .. IF v < LastVersion THEN v + 1 ELSE v
                                           \* fault: slice(0, installed + 2)
UpTo(v) == 0 .. v

Creates(c) == CASE IsFresh(c) -> SchemaOf(LastVersion)
                [] IsPending(c) -> CreatedBy(NextVersion(c))
                [] OTHER -> {}

RowAfterNext(c) == {NextVersion(c) + 1}  \* fault: next.version + 1
NextRow(c) == {NextVersion(c)}

Records(c) == CASE IsFresh(c) -> 0 .. LastVersion
                [] IsPending(c) -> NextRow(c)
                [] ~Tracked(seen[c].versions) /\ ~IsFresh(c) ->
                     UpTo(InstalledVersion(seen[c].catalog))
                [] OTHER -> {}

ReportsTable(c) == (versions \ NoTable) \union Records(c)
                         \* fault: what the table lists now is reported
Reports(c) == Records(c)

(* CREATE TABLE and ADD COLUMN fail on what exists, ALTER and UPDATE on    *)
(* what does not, and an INSERT on a version that is recorded.             *)
TableIsCreated(c) == seen[c].versions = NoTable => versions = NoTable
StatementsRun(c) ==
  /\ Creates(c) \intersect catalog = {}
  /\ IsPending(c) => NeededBy(NextVersion(c)) \subseteq catalog
RowsAreNew(c) == Records(c) \intersect versions = {}
WritesSucceed(c) == TableIsCreated(c) /\ StatementsRun(c) /\ RowsAreNew(c)

(* The first n versions are now recorded, A of them applied and P adopted  *)
(* by this call.                                                           *)
Commit(c, n, A, P) ==
  /\ WritesSucceed(c)
  /\ catalog' = catalog \union Creates(c)
  /\ versions' = (versions \ NoTable) \union Records(c)
  /\ UNCHANGED extension
  /\ Unlock(c)
  /\ applied' = [applied EXCEPT ![c] = @ \union A]
  /\ adopted' = [adopted EXCEPT ![c] = @ \union P]
  /\ phase' = [phase EXCEPT ![c] = IF IsLatest(n) THEN "done" ELSE "loop"]
  /\ outcome' = [outcome EXCEPT ![c] = IF IsLatest(n) THEN "ok" ELSE @]
  /\ UNCHANGED <<size, seen>>

FreshInstall(c) ==
  /\ Proceeds(c)
  /\ IsFresh(c)
  /\ Commit(c, LastVersion + 1, Reports(c), {})
  /\ dimensions' = size[c]

Adopt(c) ==
  /\ Proceeds(c)
  /\ ~Tracked(seen[c].versions)
  /\ ~IsFresh(c)
  /\ Commit(c, InstalledVersion(seen[c].catalog) + 1, {}, Reports(c))
  /\ UNCHANGED dimensions

ApplyNext(c) ==
  /\ Proceeds(c)
  /\ IsPending(c)
  /\ Commit(c, NextVersion(c) + 1, Reports(c), {})
  /\ UNCHANGED dimensions

NothingLeft(c) ==
  /\ Proceeds(c)
  /\ Tracked(seen[c].versions)
  /\ ~IsPending(c)
  /\ Commit(c, LastVersion + 1, {}, {})
  /\ UNCHANGED dimensions

(* Only what a migration's own statements throw becomes MIGRATION.         *)
WriteFails(c) ==
  /\ Proceeds(c)
  /\ ~WritesSucceed(c)
  /\ Throw(c, IF TableIsCreated(c) /\ ~StatementsRun(c)
              THEN "MIGRATION" ELSE "DB")

(* An abort, a broken connection or a killed process, whatever is thrown.  *)
Interrupt(c) ==
  /\ phase[c] \in {"loop", "begun", "locked", "read"}
  /\ Throw(c, "INTERRUPTED")

(* The bound: every call of the instance has ended.                        *)
Quiet == (\A c \in Callers : phase[c] = "done") /\ UNCHANGED vars

Progress(c) ==
  \/ Begin(c) \/ TakeLock(c) \/ Read(c) \/ Reject(c)
  \/ FreshInstall(c) \/ Adopt(c) \/ ApplyNext(c) \/ NothingLeft(c)
  \/ WriteFails(c)

Next == \/ \E c \in Callers : Call(c) \/ Progress(c) \/ Interrupt(c)
        \/ Quiet

Spec == Init /\ [][Next]_vars

(* Postgres executes what it is sent and grants a free lock.  Weak fairness*)
(* is enough: the others' loops end, so the lock is free for good at last. *)
FairSpec == Spec /\ \A c \in Callers : WF_vars(Progress(c))

-----------------------------------------------------------------------------
(* The tracking table never claims what the catalog lacks: whatever calls  *)
(* race or are cut off, a sound database stays sound.                      *)
StaysSound == [][IsSound(Now) => IsSound(Now)']_database

(* What a call changes it has understood and had work to do on: a table    *)
(* that has a gap, is complete or lists a newer version's migrations, and  *)
(* an untracked catalog that no migration leaves, stay exactly as they     *)
(* were, whatever calls race.                                              *)
MayChange ==
  IF Tracked(versions)
  THEN \E n \in 0 .. LastVersion - 1 : versions = 0 .. n
  ELSE IsKnownSchema(catalog)
RefusedUntouched == [][MayChange]_database

(* Of all calls, one reports each migration as applied or adopted.         *)
ReportedByOne ==
  \A c, d \in Callers :
    /\ c # d => (applied[c] \union adopted[c])
                  \intersect (applied[d] \union adopted[d]) = {}
    /\ applied[c] \intersect adopted[c] = {}

(* A call that succeeds leaves a table that lists every migration and a    *)
(* column of the dimensions it was given; and the newest schema, if the    *)
(* last database that it read was sound.  No other guarantee is made: a    *)
(* table that lied about the catalog goes on lying.                        *)
SuccessMeansLatest ==
  \A c \in Callers : outcome[c] = "ok" =>
    /\ versions = 0 .. LastVersion
    /\ dimensions # Unset => size[c] \in {Unset, dimensions}
    /\ IsSound(seen[c]) => /\ catalog = SchemaOf(LastVersion)
                           /\ size[c] \in {Unset, dimensions}

(* Calls that race never fail one another: on a sound database with the    *)
(* extension no call has met an object, a table or a row that it expected  *)
(* not to exist.                                                           *)
RacersDoNotFail ==
  IsSound(Now) /\ extension =>
    \A c \in Callers : outcome[c] \notin {"MIGRATION", "DB"}

(* Every call ends, also when calls wait for one another's transactions.   *)
EveryCallEnds == \A c \in Callers : phase[c] = "loop" ~> phase[c] = "done"
=============================================================================
