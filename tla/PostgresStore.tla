---------------------------- MODULE PostgresStore ----------------------------
(***************************************************************************)
(* The Postgres store's writes (src/db/queries/memories.ts), each of them  *)
(* one SQL statement in a READ COMMITTED transaction of its own, run       *)
(* concurrently by any number of clients.                                  *)
(*                                                                         *)
(* A statement picks its target rows from the snapshot taken when it       *)
(* starts, then locks them one at a time: in id order when the statement   *)
(* says ORDER BY id FOR UPDATE (consolidateMemories, markMemoriesAccessed),*)
(* in whatever order the plan scans them when it is a DELETE.  A row that  *)
(* another statement holds is waited for; a row deleted meanwhile is       *)
(* skipped; a locked row is its latest committed version.  The writes of a *)
(* statement are visible to nobody before it commits and its rows are      *)
(* locked until then, so deciding, writing and committing are one step.    *)
(*                                                                         *)
(* Postgres itself (row locks, EvalPlanQual, foreign keys, the deadlock    *)
(* detector) is modelled as the queries rely on it.  Bound: each member of *)
(* Statements runs once.  An operator marked "fault" is a definition with a*)
(* bug in it, kept to see that the properties would notice; none is used.  *)
(***************************************************************************)
EXTENDS Integers, FiniteSets

CONSTANTS
  Ids, Entities, EntityOf, Tags, TagsOf, Stored, AuditEnabled, NoMemory,
  Statements,   \* the statements that clients run, one transaction each
  Operations,   \* the operations that clients may ask for
  NoStatement   \* the owner of an unlocked row

VARIABLES
  memories,   \* the committed rows of mnemocyte_memories
  events,     \* the committed memory.superseded events, counted per memory
  owner,      \* the statement that holds each row's lock
  phase,      \* "idle", "locking" or "done", per statement
  operation,  \* what each statement executes
  todo,       \* the target rows each statement has still to lock
  locked,     \* the row versions each statement read as it locked them
  outcome,    \* what each statement reported
  changed     \* the ids each statement reported as superseded, marked, deleted

(* The rows themselves are the abstract state: the refinement mapping      *)
(* forgets locks, phases and what statements have read.                    *)
Contract == INSTANCE MemoryStore WITH memories <- memories, events <- events

rowVars == <<memories, events>>
vars == <<memories, events, owner, phase, operation, todo, locked, outcome,
          changed>>

(* One consolidation, access write or guarded delete as the store is asked *)
(* for it.  "ids" of a delete is what its filters on columns that never    *)
(* change select (entity, id, expiry, creation, type, importance); the     *)
(* other three filters read columns that other statements write.           *)
Consolidation == [kind : {"consolidate"}, entity : Entities, survivor : Ids,
                  losers : SUBSET Ids, mergeTags : BOOLEAN]
AccessMark == [kind : {"mark"}, entity : Entities, ids : SUBSET Ids]
Deletion == [kind : {"delete"}, ids : SUBSET Ids, superseded : BOOLEAN,
             notAccessedSince : BOOLEAN, tags : SUBSET Tags]
NoOperation == [kind |-> "none"]

(* validateConsolidateInput: at least one loser, the survivor not of them. *)
ValidConsolidation(o) == o.losers # {} /\ o.survivor \notin o.losers

ASSUME StatementAssumption ==
  /\ Contract!ConstantsOK
  /\ Ids \subseteq Int
  /\ NoStatement \notin Statements
  /\ Operations \subseteq Consolidation \union AccessMark \union Deletion
  /\ \A o \in Operations : o.kind = "consolidate" => ValidConsolidation(o)

-----------------------------------------------------------------------------
Row == [supersededBy : Ids \union {NoMemory}, tags : SUBSET Tags]
RowOf(m) == [supersededBy |-> m.supersededBy, tags |-> m.tags]
NoRow == [supersededBy |-> NoMemory, tags |-> {}]

TypeOK ==
  /\ Contract!TypeOK
  /\ owner \in [Ids -> Statements \union {NoStatement}]
  /\ phase \in [Statements -> {"idle", "locking", "done"}]
  /\ operation \in [Statements -> Operations \union {NoOperation}]
  /\ todo \in [Statements -> SUBSET Ids]
  /\ locked \in [Statements -> [Ids -> Row]]
  /\ outcome \in [Statements -> {"none", "ok", "conflict", "aborted"}]
  /\ changed \in [Statements -> SUBSET Ids]

Held(t) == {i \in Ids : owner[i] = t}
IsStored(i) == memories[i].state = "stored"
AnyScope(i, o) == TRUE  \* fault: the entity condition dropped
InScope(i, o) == EntityOf[i] = o.entity

(* The pruneConditions that read columns other statements write.  A run's  *)
(* accesses all fall after the notAccessedSince date, its rows before.     *)
MatchesFilters(i, o) ==
  /\ o.superseded => memories[i].supersededBy # NoMemory
  /\ o.notAccessedSince => memories[i].accessCount = 0
  /\ o.tags \subseteq memories[i].tags

(* The rows a statement's WHERE selects from its snapshot.                 *)
Selects(o, i) ==
  \/ /\ o.kind = "consolidate"
     /\ i \in {o.survivor} \union o.losers
     /\ InScope(i, o)
  \/ o.kind = "mark" /\ i \in o.ids /\ InScope(i, o)
  \/ o.kind = "delete" /\ i \in o.ids /\ MatchesFilters(i, o)

Targets(o) == {i \in Ids : IsStored(i) /\ Selects(o, i)}

Dependents(D) == {r \in Ids : IsStored(r) /\ memories[r].supersededBy \in D}

(* The materialized "dependents" of a guarded delete, from its snapshot.   *)
HasDependents(o) == o.kind = "delete" /\ Dependents(Targets(o)) # {}

IsOrdered(o) == o.kind \in {"consolidate", "mark"}

UnorderedRows(t) == todo[t]  \* fault: ORDER BY id dropped

(* The rows that t may lock next.                                          *)
NextRows(t) ==
  IF IsOrdered(operation[t])
  THEN {i \in todo[t] : \A j \in todo[t] : i <= j}
  ELSE todo[t]

IsFree(i) == owner[i] = NoStatement

(* A client names only memories it read: the preflight of consolidate and  *)
(* the search behind an access write found them.  Deletes select by filter.*)
IsKnown(i) == memories[i].state # "unborn"
NamesKnown(o) ==
  /\ o.kind = "consolidate" => \A i \in {o.survivor} \union o.losers : IsKnown(i)
  /\ o.kind = "mark" => \A i \in o.ids : IsKnown(i)

(* The end of t's transaction, with the outcome o and the reported ids C.  *)
Finish(t, o, C) ==
  /\ phase' = [phase EXCEPT ![t] = "done"]
  /\ owner' = [i \in Ids |-> IF owner[i] = t THEN NoStatement ELSE owner[i]]
  /\ todo' = [todo EXCEPT ![t] = {}]
  /\ locked' = [locked EXCEPT ![t] = [i \in Ids |-> NoRow]]
  /\ outcome' = [outcome EXCEPT ![t] = o]
  /\ changed' = [changed EXCEPT ![t] = C]
  /\ UNCHANGED operation

-----------------------------------------------------------------------------
Init ==
  /\ Contract!Init
  /\ owner = [i \in Ids |-> NoStatement]
  /\ phase = [t \in Statements |-> "idle"]
  /\ operation = [t \in Statements |-> NoOperation]
  /\ todo = [t \in Statements |-> {}]
  /\ locked = [t \in Statements |-> [i \in Ids |-> NoRow]]
  /\ outcome = [t \in Statements |-> "none"]
  /\ changed = [t \in Statements |-> {}]

(* A multi-row INSERT of remember or rememberMany.                         *)
Insert(I) ==
  /\ I # {}
  /\ \A i \in I : memories[i].state = "unborn"
  /\ memories' = [i \in Ids |-> IF i \in I
                                THEN [memories[i] EXCEPT !.state = "stored"]
                                ELSE memories[i]]
  /\ UNCHANGED <<events, owner, phase, operation, todo, locked, outcome,
                 changed>>

(* The statement takes its snapshot.  A guarded delete whose snapshot      *)
(* shows a dependent deletes nothing and reports CONFLICT.                 *)
Start(t, o) ==
  /\ phase[t] = "idle"
  /\ NamesKnown(o)
  /\ operation' = [operation EXCEPT ![t] = o]
  /\ IF HasDependents(o)
     THEN /\ phase' = [phase EXCEPT ![t] = "done"]
          /\ outcome' = [outcome EXCEPT ![t] = "conflict"]
          /\ UNCHANGED todo
     ELSE /\ phase' = [phase EXCEPT ![t] = "locking"]
          /\ todo' = [todo EXCEPT ![t] = Targets(o)]
          /\ UNCHANGED outcome
  /\ UNCHANGED <<memories, events, owner, locked, changed>>

LockRow(t, i) ==
  /\ phase[t] = "locking"
  /\ i \in NextRows(t)
  /\ IsFree(i)
  /\ IsStored(i)
  /\ owner' = [owner EXCEPT ![i] = t]
  /\ locked' = [locked EXCEPT ![t][i] = RowOf(memories[i])]
  /\ todo' = [todo EXCEPT ![t] = @ \ {i}]
  /\ UNCHANGED <<memories, events, phase, operation, outcome, changed>>

(* A row deleted since the snapshot is skipped.                            *)
SkipRow(t, i) ==
  /\ phase[t] = "locking"
  /\ i \in NextRows(t)
  /\ ~IsStored(i)
  /\ todo' = [todo EXCEPT ![t] = @ \ {i}]
  /\ UNCHANGED <<memories, events, owner, phase, operation, locked, outcome,
                 changed>>

HasAllRows(t, kind) ==
  phase[t] = "locking" /\ operation[t].kind = kind /\ todo[t] = {}

-----------------------------------------------------------------------------
(* consolidateMemories, once its "locked" rows are all in.                 *)
SurvivorPresent(t) ==  \* fault: "superseded_by IS NULL" dropped
  operation[t].survivor \in Held(t)
SurvivorActive(t) ==
  LET s == operation[t].survivor IN
  s \in Held(t) /\ locked[t][s].supersededBy = NoMemory

NeverConflict(t) == FALSE  \* fault: the conflict step dropped
HasConflict(t) ==
  LET s == operation[t].survivor IN
  \E l \in Held(t) \ {s} : locked[t][l].supersededBy \notin {NoMemory, s}

AllLosers(t) ==  \* fault: losers of this survivor superseded again
  Held(t) \ {operation[t].survivor}
NewlySuperseded(t) ==
  {l \in Held(t) \ {operation[t].survivor} :
     locked[t][l].supersededBy = NoMemory}

TagsAsStored(t) ==  \* fault: merged into tags read before the lock
  TagsOf[operation[t].survivor]
    \union UNION {memories[l].tags : l \in NewlySuperseded(t)}
(* The survivor's locked tags and those the losers' UPDATE returned.       *)
MergedTags(t) ==
  locked[t][operation[t].survivor].tags
    \union UNION {memories[l].tags : l \in NewlySuperseded(t)}

CommitConsolidation(t) ==
  /\ HasAllRows(t, "consolidate")
  /\ SurvivorActive(t)
  /\ ~HasConflict(t)
  /\ memories' = [i \in Ids |->
       IF i \in NewlySuperseded(t)
       THEN [memories[i] EXCEPT !.supersededBy = operation[t].survivor]
       ELSE IF i = operation[t].survivor /\ operation[t].mergeTags
            THEN [memories[i] EXCEPT !.tags = MergedTags(t)]
            ELSE memories[i]]
  /\ events' = [i \in Ids |-> IF AuditEnabled /\ i \in NewlySuperseded(t)
                              THEN events[i] + 1 ELSE events[i]]
  /\ Finish(t, "ok", NewlySuperseded(t))

RejectWithoutRollback(t) ==  \* fault: the transaction is left open
  /\ HasAllRows(t, "consolidate")
  /\ ~SurvivorActive(t) \/ HasConflict(t)
  /\ phase' = [phase EXCEPT ![t] = "done"]
  /\ outcome' = [outcome EXCEPT ![t] = "conflict"]
  /\ UNCHANGED <<memories, events, owner, operation, todo, locked, changed>>

RejectConsolidation(t) ==
  /\ HasAllRows(t, "consolidate")
  /\ ~SurvivorActive(t) \/ HasConflict(t)
  /\ Finish(t, "conflict", {})
  /\ UNCHANGED rowVars

CommitMark(t) ==
  /\ HasAllRows(t, "mark")
  /\ memories' = [i \in Ids |-> IF i \in Held(t)
                                THEN [memories[i] EXCEPT !.accessCount = @ + 1]
                                ELSE memories[i]]
  /\ UNCHANGED events
  /\ Finish(t, "ok", Held(t))

-----------------------------------------------------------------------------
(* The foreign key on superseded_by, checked at the end of a DELETE: the   *)
(* committed rows that the statement does not delete itself and that point *)
(* at a row it deletes.                                                    *)
Unreferenced(t) == {}  \* fault: no foreign key
Referencing(t) == Dependents(Held(t)) \ Held(t)

CommitDelete(t) ==
  /\ HasAllRows(t, "delete")
  /\ Referencing(t) = {}
  /\ memories' = [i \in Ids |-> IF i \in Held(t)
                                THEN [memories[i] EXCEPT !.state = "deleted"]
                                ELSE memories[i]]
  /\ UNCHANGED events
  /\ Finish(t, "ok", Held(t))

(* The check locks the referencing row FOR KEY SHARE before it fails: it   *)
(* waits for a statement that holds that row.  The violation rolls back    *)
(* and is reported as CONFLICT.                                            *)
RejectDelete(t) ==
  /\ HasAllRows(t, "delete")
  /\ \E r \in Referencing(t) : IsFree(r)
  /\ Finish(t, "conflict", {})
  /\ UNCHANGED rowVars

-----------------------------------------------------------------------------
(* t cannot go on before u ends its transaction.                           *)
WaitsFor(t, u) ==
  /\ phase[t] = "locking"
  /\ u # t
  /\ \/ \E i \in NextRows(t) : owner[i] = u
     \/ /\ HasAllRows(t, "delete")
        /\ \E r \in Referencing(t) : owner[r] = u

(* Statements of X that all wait for one another.                          *)
IsWaitCycle(X) == X # {} /\ \A t \in X : \E u \in X : WaitsFor(t, u)

(* The deadlock detector rolls one statement of a cycle back: a DB error.  *)
DeadlockVictim(t) ==
  /\ \E X \in SUBSET Statements : t \in X /\ IsWaitCycle(X)
  /\ Finish(t, "aborted", {})
  /\ UNCHANGED rowVars

(* An AbortSignal cancels the statement, or its connection is lost.        *)
Cancel(t) ==
  /\ phase[t] = "locking"
  /\ Finish(t, "aborted", {})
  /\ UNCHANGED rowVars

(* The bound: every statement of the instance has run.                     *)
Quiet == (\A t \in Statements : phase[t] = "done") /\ UNCHANGED vars

(* What Postgres does on its own for a statement that has started.         *)
Progress(t) ==
  \/ \E i \in Ids : LockRow(t, i) \/ SkipRow(t, i)
  \/ CommitConsolidation(t) \/ RejectConsolidation(t)
  \/ CommitMark(t)
  \/ CommitDelete(t) \/ RejectDelete(t)
  \/ DeadlockVictim(t)

Next ==
  \/ \E I \in SUBSET Ids : Insert(I)
  \/ \E t \in Statements :
       \/ \E o \in Operations : Start(t, o)
       \/ Progress(t)
       \/ Cancel(t)
  \/ Quiet

Spec == Init /\ [][Next]_vars

(* Postgres keeps executing what it started; clients need not start or     *)
(* cancel anything.                                                        *)
FairSpec == Spec /\ \A t \in Statements : WF_vars(Progress(t))

-----------------------------------------------------------------------------
(* The statement a finished call ran, by what it reported.                 *)
Succeeded(t, kind) == outcome[t] = "ok" /\ operation[t].kind = kind

(* While a statement holds a row, the row is stored and the version it     *)
(* read when it locked it is the committed one: the checks of consolidate  *)
(* and its writes see the same rows, however the statements interleave.    *)
LockedRowsAreCurrent ==
  \A t \in Statements : \A i \in Held(t) :
    /\ phase[t] = "locking"
    /\ IsStored(i)
    /\ locked[t][i] = RowOf(memories[i])

(* What the proofs add to it: a statement holds or awaits only rows that it*)
(* targets, and nothing points from a memory before it is stored.          *)
HeldRowsAreTargets ==
  \A t \in Statements : phase[t] = "locking" =>
    /\ operation[t] \in Operations
    /\ IsOrdered(operation[t]) =>
         \A i \in Held(t) \union todo[t] : Selects(operation[t], i)

UnbornAreUnlinked ==
  \A i \in Ids : ~IsKnown(i) => memories[i].supersededBy = NoMemory

(* The inductive invariant of the proofs, for this code's row locking: the *)
(* rows a statement decides from are its own targets and stay current.     *)
IInv == /\ TypeOK
        /\ LockedRowsAreCurrent
        /\ HeldRowsAreTargets
        /\ UnbornAreUnlinked

(* No stored memory points at a survivor that is not stored, whatever      *)
(* consolidations and guarded deletes run at the same time.                *)
NoDanglingSurvivor ==
  \A i \in Ids : IsStored(i) /\ memories[i].supersededBy # NoMemory
                  => IsStored(memories[i].supersededBy)

(* The supersededBy pointers of stored memories form no cycle: every set   *)
(* of them has one whose pointer leaves the set.  With NoDanglingSurvivor, *)
(* every superseded memory leads to an active one that recall can return.  *)
NoSupersessionCycle ==
  \A X \in SUBSET Ids :
    X # {} /\ (\A i \in X : IsStored(i))
      => \E i \in X : memories[i].supersededBy \notin X

(* Consolidation never crosses entities.                                   *)
LinksWithinEntity ==
  \A i \in Ids : memories[i].supersededBy # NoMemory
                  => EntityOf[memories[i].supersededBy] = EntityOf[i]

(* A consolidation that reported success did what it was asked: each       *)
(* requested memory of the entity that is still stored is superseded by    *)
(* the requested survivor, also when other consolidations ran.             *)
ConsolidationTakesEffect ==
  \A t \in Statements : Succeeded(t, "consolidate") =>
    \A l \in operation[t].losers :
      IsStored(l) /\ InScope(l, operation[t])
        => memories[l].supersededBy = operation[t].survivor

(* No tag is lost: a survivor keeps its own tags and those of every memory *)
(* that a tag-merging consolidation reported as superseded by it, also     *)
(* when several consolidations merge into it at once.                      *)
MergedTagsKept ==
  \A t \in Statements :
    Succeeded(t, "consolidate") /\ operation[t].mergeTags =>
      \A l \in changed[t] \union {operation[t].survivor} :
        memories[l].tags \union TagsOf[l]
          \subseteq memories[operation[t].survivor].tags

(* Of concurrent calls, exactly one reports having superseded (deleted) a  *)
(* memory.                                                                 *)
ReportedOnce ==
  \A t, u \in Statements : \A k \in {"consolidate", "delete"} :
    t # u /\ Succeeded(t, k) /\ Succeeded(u, k)
      => changed[t] \intersect changed[u] = {}

(* With audit on, a memory has one memory.superseded event if it is        *)
(* superseded and none otherwise: the same statement writes both.          *)
EventsMatchLinks ==
  \A i \in Ids :
    events[i] = IF AuditEnabled /\ memories[i].supersededBy # NoMemory
                THEN 1 ELSE 0

(* Consolidations and access writes alone cannot deadlock: both lock rows  *)
(* in id order.                                                            *)
OrderedNeverDeadlock ==
  \A X \in SUBSET {t \in Statements :
                     operation[t].kind \in {"consolidate", "mark"}} :
    ~IsWaitCycle(X)

(* A memory is superseded at most once and never moved to another          *)
(* survivor.                                                               *)
SupersededForGood ==
  [][\A i \in Ids : memories[i].supersededBy # NoMemory
       => memories'[i].supersededBy = memories[i].supersededBy]_vars

(* The statements implement the store contract with the relaxed delete:    *)
(* each commit is one of its atomic steps.                                 *)
ImplementsContract == Contract!Spec

(* What src/memory/store.ts:146-160 and 253-258 ask of a delete: it        *)
(* rejects when any memory, selected or not, points at a selected one.     *)
DeletesNoSurvivor ==
  [][\A t \in Statements :
       outcome[t] = "none" /\ outcome'[t] = "ok"
         /\ operation[t].kind = "delete"
       => Dependents(changed'[t]) = {}]_vars

(* Every statement that starts ends: locks are always released and the     *)
(* deadlocks that unordered deletes can cause are broken.                  *)
EveryStatementEnds ==
  \A t \in Statements : phase[t] = "locking" ~> phase[t] = "done"
=============================================================================
