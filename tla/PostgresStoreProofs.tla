------------------------- MODULE PostgresStoreProofs -------------------------
(***************************************************************************)
(* Theorems about PostgresStore for every set of memories, of statements   *)
(* and of operations.                                                      *)
(*                                                                         *)
(* The invariant the others rest on is LockedRowsAreCurrent: a row stays   *)
(* as its holder read it until the holder commits, so what a statement     *)
(* checked on its locked rows still holds when it writes.                  *)
(***************************************************************************)
EXTENDS PostgresStore, FiniteSetTheorems, WellFoundedInduction, TLAPS

(* The sorts of the statements' operations.                                *)
LEMMA OperationSorts ==
  ASSUME NEW o \in Operations
  PROVE  /\ o.kind \in {"consolidate", "mark", "delete"}
         /\ o.kind = "consolidate" =>
              /\ o.survivor \in Ids /\ o.losers \subseteq Ids
              /\ o.survivor \notin o.losers
              /\ o.entity \in Entities /\ o.mergeTags \in BOOLEAN
         /\ o.kind = "mark" => o.ids \subseteq Ids /\ o.entity \in Entities
         /\ o.kind = "delete" => o.ids \subseteq Ids
<1>1. o \in Consolidation \union AccessMark \union Deletion
  BY StatementAssumption
<1>2. CASE o \in Consolidation
  BY <1>2, StatementAssumption DEF Consolidation, ValidConsolidation
<1>3. CASE o \in AccessMark
  BY <1>3 DEF AccessMark
<1>4. CASE o \in Deletion
  BY <1>4 DEF Deletion
<1>5. QED BY <1>1, <1>2, <1>3, <1>4

-----------------------------------------------------------------------------
(* Type correctness.                                                       *)

LEMMA InitType == Init => TypeOK
<1>1. [i \in Ids |-> NoRow] \in [Ids -> Row]
  BY DEF NoRow, Row
<1>2. Contract!Init => Contract!TypeOK
  BY StatementAssumption
  DEF Contract!Init, Contract!TypeOK, Contract!Memory, Contract!ConstantsOK
<1>3. QED BY <1>1, <1>2 DEF Init, TypeOK

(* Ending a transaction keeps the types of the statements' variables.      *)
LEMMA FinishType ==
  ASSUME TypeOK, Contract!TypeOK', NEW t \in Statements,
         NEW o \in {"ok", "conflict", "aborted"}, NEW C \in SUBSET Ids,
         Finish(t, o, C)
  PROVE  TypeOK'
<1>1. [i \in Ids |-> NoRow] \in [Ids -> Row]
  BY DEF NoRow, Row
<1>2. QED BY <1>1 DEF TypeOK, Finish

(* The tags that a consolidation writes are tags.                          *)
LEMMA MergedTagsType ==
  ASSUME TypeOK, NEW t \in Statements, operation[t].survivor \in Ids
  PROVE  MergedTags(t) \in SUBSET Tags
<1>1. locked[t][operation[t].survivor].tags \in SUBSET Tags
  BY DEF TypeOK, Row
<1>2. \A i \in Ids : memories[i].tags \in SUBSET Tags
  BY DEF TypeOK, Contract!TypeOK, Contract!Memory
<1>3. NewlySuperseded(t) \subseteq Ids
  BY DEF NewlySuperseded, Held
<1>4. QED BY <1>1, <1>2, <1>3 DEF MergedTags

(* Each column a statement writes keeps the row a row.                     *)
LEMMA WriteType ==
  ASSUME NEW m \in Contract!Memory
  PROVE  /\ [m EXCEPT !.state = "deleted"] \in Contract!Memory
         /\ [m EXCEPT !.accessCount = @ + 1] \in Contract!Memory
         /\ \A s \in Ids : [m EXCEPT !.supersededBy = s] \in Contract!Memory
         /\ \A T \in SUBSET Tags : [m EXCEPT !.tags = T] \in Contract!Memory
BY DEF Contract!Memory

LEMMA StepType ==
  ASSUME TypeOK, Next
  PROVE  TypeOK'
<1> USE DEF Contract!TypeOK
<1>1. ASSUME NEW I \in SUBSET Ids, Insert(I) PROVE TypeOK'
  BY <1>1 DEF Insert, TypeOK, Contract!Memory
<1>2. ASSUME NEW t \in Statements, NEW o \in Operations, Start(t, o)
      PROVE  TypeOK'
  <2>1. Targets(o) \in SUBSET Ids
    BY DEF Targets
  <2>2. QED BY <1>2, <2>1 DEF Start, TypeOK
<1>3. ASSUME NEW t \in Statements, NEW i \in Ids, LockRow(t, i)
      PROVE  TypeOK'
  <2>1. RowOf(memories[i]) \in Row
    BY DEF TypeOK, RowOf, Row, Contract!Memory
  <2>2. QED BY <1>3, <2>1 DEF LockRow, TypeOK
<1>4. ASSUME NEW t \in Statements, NEW i \in Ids, SkipRow(t, i)
      PROVE  TypeOK'
  BY <1>4 DEF SkipRow, TypeOK
<1>5. ASSUME NEW t \in Statements, CommitConsolidation(t) PROVE TypeOK'
  <2>1. operation[t] \in Operations /\ operation[t].survivor \in Ids
    BY <1>5, OperationSorts
    DEF CommitConsolidation, HasAllRows, TypeOK, NoOperation
  <2>2. MergedTags(t) \in SUBSET Tags
    BY <2>1, MergedTagsType
  <2>3. Contract!TypeOK'
    <3>1. ASSUME NEW i \in Ids PROVE memories'[i] \in Contract!Memory
      BY <1>5, <2>1, <2>2, WriteType DEF CommitConsolidation, TypeOK
    <3>2. ASSUME NEW i \in Ids PROVE events'[i] \in Nat
      BY <1>5 DEF CommitConsolidation, TypeOK
    <3>3. QED BY <1>5, <3>1, <3>2 DEF CommitConsolidation
  <2>4. NewlySuperseded(t) \in SUBSET Ids
    BY DEF NewlySuperseded, Held
  <2>5. QED BY <1>5, <2>3, <2>4, FinishType DEF CommitConsolidation
<1>6. ASSUME NEW t \in Statements, NEW o \in {"conflict", "aborted"},
             Finish(t, o, {}), UNCHANGED rowVars
      PROVE  TypeOK'
  BY <1>6, FinishType DEF rowVars, TypeOK
<1>7. ASSUME NEW t \in Statements, CommitMark(t) PROVE TypeOK'
  <2>1. Contract!TypeOK'
    BY <1>7, WriteType DEF CommitMark, TypeOK
  <2>2. Held(t) \in SUBSET Ids
    BY DEF Held
  <2>3. QED BY <1>7, <2>1, <2>2, FinishType DEF CommitMark
<1>8. ASSUME NEW t \in Statements, CommitDelete(t) PROVE TypeOK'
  <2>1. Contract!TypeOK'
    BY <1>8, WriteType DEF CommitDelete, TypeOK
  <2>2. Held(t) \in SUBSET Ids
    BY DEF Held
  <2>3. QED BY <1>8, <2>1, <2>2, FinishType DEF CommitDelete
<1>9. CASE Quiet
  BY <1>9 DEF Quiet, vars, TypeOK
<1>10. QED
  BY <1>1, <1>2, <1>3, <1>4, <1>5, <1>6, <1>7, <1>8, <1>9
  DEF Next, Progress, RejectConsolidation, RejectDelete, DeadlockVictim, Cancel

LEMMA StutterType == TypeOK /\ UNCHANGED vars => TypeOK'
BY DEF vars, TypeOK, Contract!TypeOK

(* Every reachable state has the declared types.                           *)
THEOREM TypeCorrect == Spec => []TypeOK
BY InitType, StepType, StutterType, PTL DEF Spec

-----------------------------------------------------------------------------
(* The inductive invariant.                                                *)

LEMMA InitIInv == Init => IInv
<1> SUFFICES ASSUME Init PROVE IInv
  OBVIOUS
<1>1. \A t \in Statements : Held(t) = {} /\ phase[t] = "idle"
  BY StatementAssumption DEF Init, Held
<1>2. LockedRowsAreCurrent
  BY <1>1 DEF LockedRowsAreCurrent
<1>3. HeldRowsAreTargets
  BY <1>1 DEF HeldRowsAreTargets
<1>4. UnbornAreUnlinked
  BY DEF Init, Contract!Init, UnbornAreUnlinked
<1>5. QED BY <1>2, <1>3, <1>4, InitType DEF IInv

(* The rows that a statement writes are rows that it holds.                *)
LEMMA WritesAreHeld ==
  ASSUME IInv, NEW t \in Statements,
         CommitConsolidation(t) \/ CommitMark(t) \/ CommitDelete(t)
  PROVE  \A i \in Ids : i \notin Held(t) => memories'[i] = memories[i]
BY DEF CommitConsolidation, CommitMark, CommitDelete, SurvivorActive,
       NewlySuperseded

(* Ending t disturbs no other statement's rows, if it wrote only its own.  *)
LEMMA FinishIInv ==
  ASSUME IInv, TypeOK', NEW t \in Statements, NEW o, NEW C, Finish(t, o, C),
         \A i \in Ids : i \notin Held(t) => memories'[i] = memories[i]
  PROVE  LockedRowsAreCurrent' /\ HeldRowsAreTargets'
<1>1. Held(t)' = {}
  BY StatementAssumption DEF Finish, Held
<1>2. ASSUME NEW u \in Statements, u # t
      PROVE  /\ Held(u)' = Held(u)
             /\ phase'[u] = phase[u] /\ operation'[u] = operation[u]
             /\ todo'[u] = todo[u] /\ locked'[u] = locked[u]
             /\ \A i \in Held(u) : memories'[i] = memories[i]
  BY <1>2, StatementAssumption DEF Finish, Held, IInv, TypeOK
<1>3. phase'[t] = "done"
  BY DEF Finish, IInv, TypeOK
<1>4. LockedRowsAreCurrent'
  BY <1>1, <1>2 DEF LockedRowsAreCurrent, IInv, IsStored
<1>5. HeldRowsAreTargets'
  <2> SUFFICES ASSUME NEW u \in Statements, phase'[u] = "locking"
               PROVE  /\ operation'[u] \in Operations
                      /\ IsOrdered(operation'[u]) =>
                           \A i \in Held(u)' \union todo'[u] :
                             Selects(operation[u], i)'
    BY DEF HeldRowsAreTargets
  <2>1. u # t
    BY <1>3
  <2>2. operation'[u] = operation[u] /\ phase[u] = "locking"
    BY <1>2, <2>1
  <2>3. ASSUME NEW i, IsOrdered(operation[u]), Selects(operation[u], i)
        PROVE  Selects(operation[u], i)'
    BY <2>2, <2>3 DEF IsOrdered, Selects, InScope
  <2>4. QED BY <1>2, <2>1, <2>2, <2>3 DEF HeldRowsAreTargets, IInv
<1>6. QED BY <1>4, <1>5

LEMMA StepIInv ==
  ASSUME IInv, Next
  PROVE  IInv'
<1> USE DEF IInv
<1>1. TypeOK'
  BY StepType
<1>2. ASSUME NEW I \in SUBSET Ids, Insert(I) PROVE IInv'
  <2>1. \A i \in Ids : /\ RowOf(memories'[i]) = RowOf(memories[i])
                       /\ IsStored(i) => IsStored(i)'
                       /\ IsKnown(i) => IsKnown(i)'
                       /\ memories'[i].supersededBy = memories[i].supersededBy
    BY <1>2 DEF Insert, RowOf, IsStored, IsKnown, TypeOK,
                Contract!TypeOK, Contract!Memory
  <2>2. LockedRowsAreCurrent'
    BY <1>2, <2>1 DEF Insert, LockedRowsAreCurrent, Held
  <2>3. HeldRowsAreTargets'
    BY <1>2 DEF Insert, HeldRowsAreTargets, Held, Selects, InScope, IsOrdered
  <2>4. UnbornAreUnlinked'
    BY <2>1 DEF UnbornAreUnlinked
  <2>5. QED BY <1>1, <2>2, <2>3, <2>4
<1>3. ASSUME NEW t \in Statements, NEW o \in Operations, Start(t, o)
      PROVE  IInv'
  <2>1. Held(t) = {}
    BY <1>3 DEF LockedRowsAreCurrent, Start
  <2>2. \A u \in Statements : /\ Held(u)' = Held(u)
                              /\ u # t => /\ phase'[u] = phase[u]
                                          /\ operation'[u] = operation[u]
                                          /\ todo'[u] = todo[u]
    BY <1>3 DEF Start, Held, TypeOK
  <2>3. LockedRowsAreCurrent'
    BY <1>3, <2>1, <2>2 DEF Start, LockedRowsAreCurrent, IsStored
  <2>4. operation'[t] = o
    BY <1>3 DEF Start, TypeOK
  <2>5. phase'[t] = "locking" => todo'[t] = Targets(o)
    BY <1>3 DEF Start, TypeOK
  <2>6. \A p \in Operations : \A i : Selects(p, i)' <=> Selects(p, i)
    BY <1>3 DEF Start, Selects, InScope, MatchesFilters
  <2>7. ASSUME NEW u \in Statements, phase'[u] = "locking"
        PROVE  /\ operation'[u] \in Operations
               /\ IsOrdered(operation'[u]) =>
                    \A i \in Held(u)' \union todo'[u] :
                      Selects(operation[u], i)'
    <3>1. CASE u = t
      BY <2>1, <2>2, <2>4, <2>5, <2>6, <2>7, <3>1 DEF Targets
    <3>2. CASE u # t
      BY <2>2, <2>6, <2>7, <3>2 DEF HeldRowsAreTargets
    <3>3. QED BY <3>1, <3>2
  <2>8. HeldRowsAreTargets'
    BY <2>7 DEF HeldRowsAreTargets
  <2>9. UnbornAreUnlinked'
    BY <1>3 DEF Start, UnbornAreUnlinked, IsKnown
  <2>10. QED BY <1>1, <2>3, <2>8, <2>9
<1>4. ASSUME NEW t \in Statements, NEW i \in Ids, LockRow(t, i)
      PROVE  IInv'
  <2>1. /\ owner'[i] = t /\ owner[i] = NoStatement
        /\ \A j \in Ids : j # i => owner'[j] = owner[j]
    BY <1>4 DEF LockRow, TypeOK, IsFree
  <2>2. i \in todo[t]
    BY <1>4 DEF LockRow, NextRows
  <2>3. \A u \in Statements : Held(u)' = IF u = t THEN Held(u) \union {i}
                                         ELSE Held(u)
    BY <2>1, StatementAssumption DEF Held
  <2>4. /\ locked'[t][i] = RowOf(memories[i])
        /\ \A u \in Statements, j \in Ids :
             u # t \/ j # i => locked'[u][j] = locked[u][j]
    BY <1>4 DEF LockRow, TypeOK
  <2>5. LockedRowsAreCurrent'
    <3> SUFFICES ASSUME NEW u \in Statements, NEW j \in Held(u)'
                 PROVE  /\ phase'[u] = "locking"
                        /\ IsStored(j)'
                        /\ locked'[u][j] = RowOf(memories'[j])
      BY DEF LockedRowsAreCurrent
    <3>0. j \in Ids /\ memories' = memories /\ phase' = phase
      BY <1>4 DEF Held, LockRow
    <3>1. CASE u = t /\ j = i
      BY <1>4, <2>4, <3>0, <3>1 DEF LockRow, IsStored
    <3>2. CASE j \in Held(u) /\ (u # t \/ j # i)
      BY <2>4, <3>0, <3>2 DEF LockedRowsAreCurrent, IsStored
    <3>3. QED BY <2>1, <2>3, <3>1, <3>2, StatementAssumption DEF Held
  <2>6. \A u \in Statements :
          Held(u)' \union todo'[u] \subseteq Held(u) \union todo[u]
    BY <1>4, <2>2, <2>3 DEF LockRow, TypeOK
  <2>7. HeldRowsAreTargets'
    BY <1>4, <2>6
    DEF LockRow, HeldRowsAreTargets, Selects, InScope, IsOrdered
  <2>8. UnbornAreUnlinked'
    BY <1>4 DEF LockRow, UnbornAreUnlinked, IsKnown
  <2>9. QED BY <1>1, <2>5, <2>7, <2>8
<1>5. ASSUME NEW t \in Statements, NEW i \in Ids, SkipRow(t, i)
      PROVE  IInv'
  <2>1. LockedRowsAreCurrent'
    BY <1>5 DEF SkipRow, LockedRowsAreCurrent, Held, IsStored
  <2>2. \A u \in Statements : todo'[u] \subseteq todo[u]
    BY <1>5 DEF SkipRow, TypeOK
  <2>3. HeldRowsAreTargets'
    BY <1>5, <2>2
    DEF SkipRow, HeldRowsAreTargets, Held, Selects, InScope, IsOrdered
  <2>4. UnbornAreUnlinked'
    BY <1>5 DEF SkipRow, UnbornAreUnlinked, IsKnown
  <2>5. QED BY <1>1, <2>1, <2>3, <2>4
<1>6. ASSUME NEW t \in Statements,
             CommitConsolidation(t) \/ CommitMark(t) \/ CommitDelete(t)
      PROVE  IInv'
  <2>1. \A i \in Ids : i \notin Held(t) => memories'[i] = memories[i]
    BY <1>6, WritesAreHeld
  <2>2. LockedRowsAreCurrent' /\ HeldRowsAreTargets'
    BY <1>1, <1>6, <2>1, FinishIInv
    DEF CommitConsolidation, CommitMark, CommitDelete
  <2>3. \A i \in Held(t) : IsKnown(i) /\ IsKnown(i)'
    <3>1. \A i \in Held(t) : i \in Ids /\ memories[i].state = "stored"
      BY DEF LockedRowsAreCurrent, IsStored, Held
    <3>2. \A i \in Held(t) : memories'[i].state \in {"stored", "deleted"}
      BY <1>6, <3>1 DEF CommitConsolidation, CommitMark, CommitDelete, TypeOK,
                       Contract!TypeOK, Contract!Memory
    <3>3. QED BY <3>1, <3>2 DEF IsKnown
  <2>4. UnbornAreUnlinked'
    BY <2>1, <2>3 DEF UnbornAreUnlinked, IsKnown
  <2>5. QED BY <1>1, <2>2, <2>4
<1>7. ASSUME NEW t \in Statements, NEW o, Finish(t, o, {}), UNCHANGED rowVars
      PROVE  IInv'
  <2>1. LockedRowsAreCurrent' /\ HeldRowsAreTargets'
    BY <1>1, <1>7, FinishIInv DEF rowVars
  <2>2. UnbornAreUnlinked'
    BY <1>7 DEF rowVars, UnbornAreUnlinked, IsKnown
  <2>3. QED BY <1>1, <2>1, <2>2
<1>8. ASSUME Quiet PROVE IInv'
  BY <1>1, <1>8 DEF Quiet, vars, LockedRowsAreCurrent, HeldRowsAreTargets,
       UnbornAreUnlinked, Held, IsStored, IsKnown, Selects, InScope,
       MatchesFilters, IsOrdered
<1>9. QED
  BY <1>2, <1>3, <1>4, <1>5, <1>6, <1>7, <1>8
  DEF Next, Progress, RejectConsolidation, RejectDelete, DeadlockVictim, Cancel

LEMMA StutterIInv == IInv /\ UNCHANGED vars => IInv'
BY StutterType DEF vars, IInv, LockedRowsAreCurrent, HeldRowsAreTargets,
     UnbornAreUnlinked, Held, IsStored, IsKnown, Selects, InScope,
     MatchesFilters, IsOrdered

(* Under every interleaving, the rows a statement holds are its targets    *)
(* and are still as it read them (locked AS MATERIALIZED ... FOR UPDATE in *)
(* consolidateMemories).                                                   *)
THEOREM InvariantCorrect == Spec => []IInv
BY InitIInv, StepIInv, StutterIInv, PTL DEF Spec

-----------------------------------------------------------------------------
(* What the steps do to the rows.                                          *)

(* A committing consolidation: the survivor is active, the losers are too, *)
(* all are of one entity, and only these rows change.                      *)
LEMMA ConsolidationEffect ==
  ASSUME IInv, NEW t \in Statements, CommitConsolidation(t),
         NEW s, s = operation[t].survivor,
         NEW L, L = NewlySuperseded(t)
  PROVE  /\ operation[t] \in Operations
         /\ s \in Ids /\ L \in SUBSET Ids /\ s \notin L
         /\ operation[t].mergeTags \in BOOLEAN
         /\ IsStored(s) /\ memories[s].supersededBy = NoMemory
         /\ \A l \in L : /\ IsStored(l)
                         /\ memories[l].supersededBy = NoMemory
                         /\ EntityOf[l] = EntityOf[s]
         /\ locked[t][s] = RowOf(memories[s])
         /\ \A i \in Ids : /\ memories'[i].state = memories[i].state
                           /\ memories'[i].supersededBy =
                                IF i \in L THEN s
                                ELSE memories[i].supersededBy
         /\ \A i \in Ids : events'[i] = IF AuditEnabled /\ i \in L
                                         THEN events[i] + 1 ELSE events[i]
<1> USE DEF IInv
<1>1. /\ operation[t] \in Operations /\ operation[t].kind = "consolidate"
      /\ phase[t] = "locking"
  BY DEF CommitConsolidation, HasAllRows, HeldRowsAreTargets
<1>2. s \in Held(t) /\ locked[t][s].supersededBy = NoMemory
  BY DEF CommitConsolidation, SurvivorActive
<1>3. /\ L \subseteq Held(t) /\ s \notin L
      /\ \A l \in L : locked[t][l].supersededBy = NoMemory
  BY DEF NewlySuperseded
<1>4. \A i \in Held(t) : /\ i \in Ids /\ IsStored(i)
                         /\ locked[t][i] = RowOf(memories[i])
                         /\ EntityOf[i] = operation[t].entity
  BY <1>1 DEF LockedRowsAreCurrent, HeldRowsAreTargets, Held, Selects,
              InScope, IsOrdered
<1>5. \A i : RowOf(memories[i]).supersededBy = memories[i].supersededBy
  BY DEF RowOf
<1>6. ASSUME NEW i \in Ids
      PROVE  /\ memories'[i].state = memories[i].state
             /\ memories'[i].supersededBy =
                  IF i \in L THEN s ELSE memories[i].supersededBy
             /\ events'[i] = IF AuditEnabled /\ i \in L
                             THEN events[i] + 1 ELSE events[i]
  BY DEF CommitConsolidation, TypeOK, Contract!TypeOK, Contract!Memory
<1>7. operation[t].mergeTags \in BOOLEAN
  BY <1>1, OperationSorts
<1>8. QED BY <1>1, <1>2, <1>3, <1>4, <1>5, <1>6, <1>7

(* Every other step leaves the pointers and the events alone, and stores   *)
(* or deletes whole memories.                                              *)
LEMMA OtherEffects ==
  ASSUME IInv, [Next]_vars,
         \A t \in Statements : ~CommitConsolidation(t)
  PROVE  /\ events' = events
         /\ \A i \in Ids : memories'[i].supersededBy = memories[i].supersededBy
         /\ \/ \A i \in Ids : memories'[i].state = memories[i].state
            \/ \E I \in SUBSET Ids :
                 /\ \A i \in I : ~IsKnown(i)
                 /\ \A i \in Ids : memories'[i].state =
                      IF i \in I THEN "stored" ELSE memories[i].state
            \/ \E t \in Statements :
                 /\ Referencing(t) = {}
                 /\ \A i \in Ids : memories'[i].state =
                      IF i \in Held(t) THEN "deleted" ELSE memories[i].state
<1> USE DEF IInv, TypeOK, Contract!TypeOK, Contract!Memory
<1> DEFINE Effect ==
         /\ events' = events
         /\ \A i \in Ids : memories'[i].supersededBy = memories[i].supersededBy
         /\ \/ \A i \in Ids : memories'[i].state = memories[i].state
            \/ \E I \in SUBSET Ids :
                 /\ \A i \in I : ~IsKnown(i)
                 /\ \A i \in Ids : memories'[i].state =
                      IF i \in I THEN "stored" ELSE memories[i].state
            \/ \E t \in Statements :
                 /\ Referencing(t) = {}
                 /\ \A i \in Ids : memories'[i].state =
                      IF i \in Held(t) THEN "deleted" ELSE memories[i].state
<1>1. ASSUME NEW I \in SUBSET Ids, Insert(I) PROVE Effect
  <2>1. \A i \in I : ~IsKnown(i)
    BY <1>1 DEF Insert, IsKnown
  <2>2. \A i \in Ids : /\ memories'[i].supersededBy = memories[i].supersededBy
                       /\ memories'[i].state =
                            IF i \in I THEN "stored" ELSE memories[i].state
    BY <1>1 DEF Insert
  <2>3. QED BY <1>1, <2>1, <2>2 DEF Insert
<1>2. ASSUME NEW t \in Statements, CommitMark(t) PROVE Effect
  BY <1>2 DEF CommitMark
<1>3. ASSUME NEW t \in Statements, CommitDelete(t) PROVE Effect
  <2>1. \A i \in Ids : /\ memories'[i].supersededBy = memories[i].supersededBy
                       /\ memories'[i].state =
                            IF i \in Held(t) THEN "deleted" ELSE memories[i].state
    BY <1>3 DEF CommitDelete
  <2>2. QED BY <1>3, <2>1 DEF CommitDelete
<1>4. UNCHANGED rowVars => Effect
  BY DEF rowVars
<1>5. QED
  BY <1>1, <1>2, <1>3, <1>4
  DEF Next, vars, rowVars, Progress, Start, LockRow, SkipRow, Quiet,
      RejectConsolidation, RejectDelete, DeadlockVictim, Cancel

-----------------------------------------------------------------------------
(* The theorems.                                                           *)

(* Concurrent consolidations and deletes never leave a stored memory       *)
(* pointing at a deleted survivor: the row locks of consolidateMemories    *)
(* and the foreign key under the guarded delete, together.                 *)
THEOREM SurvivorsStay == Spec => []NoDanglingSurvivor
<1>1. Init => NoDanglingSurvivor
  BY DEF Init, Contract!Init, NoDanglingSurvivor
<1>2. ASSUME IInv, NoDanglingSurvivor, [Next]_vars
      PROVE  NoDanglingSurvivor'
  <2>1. ASSUME NEW t \in Statements, CommitConsolidation(t)
        PROVE  NoDanglingSurvivor'
    <3> DEFINE s == operation[t].survivor
               L == NewlySuperseded(t)
    <3>1. /\ s \in Ids /\ IsStored(s)
          /\ \A i \in Ids :
               /\ memories'[i].state = memories[i].state
               /\ memories'[i].supersededBy =
                    IF i \in L THEN s ELSE memories[i].supersededBy
      BY <1>2, <2>1, ConsolidationEffect
    <3>2. \A i \in Ids : memories[i].supersededBy \in Ids \union {NoMemory}
      BY <1>2 DEF IInv, TypeOK, Contract!TypeOK, Contract!Memory
    <3> HIDE DEF s, L
    <3>3. QED BY <1>2, <3>1, <3>2 DEF NoDanglingSurvivor, IsStored
  <2>2. CASE \A t \in Statements : ~CommitConsolidation(t)
    <3>1. CASE \A i \in Ids : memories'[i].state = memories[i].state
      BY <1>2, <2>2, <3>1, OtherEffects DEF NoDanglingSurvivor, IsStored, IInv,
         TypeOK, Contract!TypeOK, Contract!Memory
    <3>2. ASSUME NEW I \in SUBSET Ids, \A i \in I : ~IsKnown(i),
                 \A i \in Ids : memories'[i].state =
                   IF i \in I THEN "stored" ELSE memories[i].state
          PROVE  NoDanglingSurvivor'
      BY <1>2, <2>2, <3>2, OtherEffects DEF NoDanglingSurvivor, IsStored, IInv,
         TypeOK, Contract!TypeOK, Contract!Memory, UnbornAreUnlinked
    <3>3. ASSUME NEW t \in Statements, Referencing(t) = {},
                 \A i \in Ids : memories'[i].state =
                   IF i \in Held(t) THEN "deleted" ELSE memories[i].state
          PROVE  NoDanglingSurvivor'
      BY <1>2, <2>2, <3>3, OtherEffects DEF NoDanglingSurvivor, IsStored, IInv,
         TypeOK, Contract!TypeOK, Contract!Memory, Referencing, Dependents
    <3>4. QED BY <1>2, <2>2, <3>1, <3>2, <3>3, OtherEffects
  <2>3. QED BY <2>1, <2>2
<1>3. QED BY <1>1, <1>2, InvariantCorrect, PTL DEF Spec

(* No schedule of consolidations builds a cycle of supersededBy pointers,  *)
(* so a chain of superseded memories always ends in an active one.         *)
THEOREM NoCycles == Spec => []NoSupersessionCycle
<1>1. Init => NoSupersessionCycle
  <2>1. Init => \A i \in Ids : memories[i].supersededBy = NoMemory
    BY DEF Init, Contract!Init
  <2>2. NoMemory \notin Ids
    BY StatementAssumption DEF Contract!ConstantsOK
  <2>3. QED BY <2>1, <2>2 DEF NoSupersessionCycle
<1>2. ASSUME IInv, NoSupersessionCycle, [Next]_vars
      PROVE  NoSupersessionCycle'
  <2> SUFFICES ASSUME NEW X \in SUBSET Ids, X # {},
                      \A i \in X : IsStored(i)'
               PROVE  \E i \in X : memories'[i].supersededBy \notin X
    BY DEF NoSupersessionCycle
  <2>1. ASSUME NEW t \in Statements, CommitConsolidation(t)
        PROVE  \E i \in X : memories'[i].supersededBy \notin X
    <3> DEFINE s == operation[t].survivor
               L == NewlySuperseded(t)
    <3>1. /\ s \in Ids /\ memories[s].supersededBy = NoMemory /\ s \notin L
          /\ \A i \in Ids :
               /\ memories'[i].state = memories[i].state
               /\ memories'[i].supersededBy =
                    IF i \in L THEN s ELSE memories[i].supersededBy
      BY <1>2, <2>1, ConsolidationEffect
    <3> HIDE DEF s, L
    <3>2. CASE s \in X
      BY <3>1, <3>2, StatementAssumption DEF Contract!ConstantsOK
    <3>3. CASE s \notin X
      <4>1. PICK i \in X : memories[i].supersededBy \notin X
        BY <1>2, <3>1 DEF NoSupersessionCycle, IsStored
      <4>2. QED BY <3>1, <3>3, <4>1
    <3>4. QED BY <3>2, <3>3
  <2>2. CASE \A t \in Statements : ~CommitConsolidation(t)
    <3>1. \A i \in Ids : memories'[i].supersededBy = memories[i].supersededBy
      BY <1>2, <2>2, OtherEffects
    <3>2. CASE \E i \in X : memories[i].supersededBy = NoMemory
      BY <3>1, <3>2, StatementAssumption DEF Contract!ConstantsOK
    <3>3. CASE \A i \in X : memories[i].supersededBy # NoMemory
      <4>1. \A i \in X : IsStored(i)
        BY <1>2, <2>2, <3>3, OtherEffects
        DEF IsStored, IsKnown, IInv, UnbornAreUnlinked
      <4>2. QED BY <1>2, <3>1, <4>1 DEF NoSupersessionCycle
    <3>4. QED BY <3>2, <3>3
  <2>3. QED BY <2>1, <2>2
<1>3. QED BY <1>1, <1>2, InvariantCorrect, PTL DEF Spec

(* No consolidation links memories of different entities.                  *)
THEOREM LinksStayWithin == Spec => []LinksWithinEntity
<1>1. Init => LinksWithinEntity
  BY DEF Init, Contract!Init, LinksWithinEntity
<1>2. ASSUME IInv, LinksWithinEntity, [Next]_vars
      PROVE  LinksWithinEntity'
  <2>1. CASE \E t \in Statements : CommitConsolidation(t)
    BY <1>2, <2>1, ConsolidationEffect DEF LinksWithinEntity
  <2>2. CASE \A t \in Statements : ~CommitConsolidation(t)
    BY <1>2, <2>2, OtherEffects DEF LinksWithinEntity
  <2>3. QED BY <2>1, <2>2
<1>3. QED BY <1>1, <1>2, InvariantCorrect, PTL DEF Spec

(* A memory.superseded event is in the log exactly when its link is in the *)
(* table.                                                                  *)
THEOREM EventsFollowLinks == Spec => []EventsMatchLinks
<1>1. Init => EventsMatchLinks
  BY DEF Init, Contract!Init, EventsMatchLinks
<1>2. ASSUME IInv, EventsMatchLinks, [Next]_vars
      PROVE  EventsMatchLinks'
  <2>1. ASSUME NEW t \in Statements, CommitConsolidation(t)
        PROVE  EventsMatchLinks'
    <3> DEFINE s == operation[t].survivor
               L == NewlySuperseded(t)
    <3>1. s # NoMemory
      BY <1>2, <2>1, ConsolidationEffect, StatementAssumption
      DEF Contract!ConstantsOK
    <3>2. \A i \in Ids :
            /\ memories'[i].supersededBy =
                 IF i \in L THEN s ELSE memories[i].supersededBy
            /\ events'[i] = IF AuditEnabled /\ i \in L
                            THEN events[i] + 1 ELSE events[i]
            /\ i \in L => memories[i].supersededBy = NoMemory
      BY <1>2, <2>1, ConsolidationEffect
    <3> HIDE DEF s, L
    <3>3. QED BY <1>2, <3>1, <3>2 DEF EventsMatchLinks
  <2>2. CASE \A t \in Statements : ~CommitConsolidation(t)
    BY <1>2, <2>2, OtherEffects DEF EventsMatchLinks
  <2>3. QED BY <2>1, <2>2
<1>3. QED BY <1>1, <1>2, InvariantCorrect, PTL DEF Spec

(* Once superseded, always superseded by the same survivor.                *)
THEOREM SupersededOnce == Spec => SupersededForGood
<1>1. ASSUME IInv, [Next]_vars
      PROVE  [\A i \in Ids : memories[i].supersededBy # NoMemory
                => memories'[i].supersededBy = memories[i].supersededBy]_vars
  <2>1. CASE \E t \in Statements : CommitConsolidation(t)
    BY <1>1, <2>1, ConsolidationEffect
  <2>2. CASE \A t \in Statements : ~CommitConsolidation(t)
    BY <1>1, <2>2, OtherEffects
  <2>3. QED BY <2>1, <2>2
<1>2. QED BY <1>1, InvariantCorrect, PTL DEF Spec, SupersededForGood

(* Every step is a step of the store contract, or leaves the rows alone.   *)
LEMMA ContractStep ==
  ASSUME IInv, [Next]_vars
  PROVE  [Contract!Next]_(Contract!vars)
<1> USE DEF Contract!Next
<1>1. ASSUME NEW I \in SUBSET Ids, Insert(I) PROVE Contract!Next
  BY <1>1 DEF Insert, Contract!InsertMemories
<1>2. ASSUME NEW t \in Statements, CommitConsolidation(t)
      PROVE  Contract!Next
  <2> DEFINE s == operation[t].survivor
             L == NewlySuperseded(t)
             m == operation[t].mergeTags
  <2>1. /\ s \in Ids /\ L \in SUBSET Ids /\ m \in BOOLEAN
        /\ Contract!IsActive(s)
        /\ \A l \in L : /\ l # s /\ Contract!IsActive(l)
                        /\ EntityOf[l] = EntityOf[s]
        /\ locked[t][s].tags = memories[s].tags
    <3>1. /\ s \in Ids /\ L \in SUBSET Ids /\ s \notin L /\ m \in BOOLEAN
          /\ IsStored(s) /\ memories[s].supersededBy = NoMemory
          /\ \A l \in L : /\ IsStored(l)
                          /\ memories[l].supersededBy = NoMemory
                          /\ EntityOf[l] = EntityOf[s]
          /\ locked[t][s] = RowOf(memories[s])
      BY <1>2, ConsolidationEffect
    <3> HIDE DEF s, L, m
    <3>2. QED BY <3>1
              DEF IsStored, Contract!IsActive, Contract!IsStored, RowOf
  <2>2. MergedTags(t) = memories[s].tags \union UNION {memories[l].tags : l \in L}
    BY <2>1 DEF MergedTags
  <2>3. memories' = [i \in Ids |->
          IF i \in L THEN [memories[i] EXCEPT !.supersededBy = s]
          ELSE IF i = s /\ m
               THEN [memories[i] EXCEPT !.tags = MergedTags(t)]
               ELSE memories[i]]
    BY <1>2 DEF CommitConsolidation
  <2>4. events' = [i \in Ids |-> IF AuditEnabled /\ i \in L
                                 THEN events[i] + 1 ELSE events[i]]
    BY <1>2 DEF CommitConsolidation
  <2>5. ASSUME NEW i \in Ids, i = s
        PROVE  [memories[i] EXCEPT !.tags = MergedTags(t)] =
               [memories[i] EXCEPT
                  !.tags = @ \union UNION {memories[l].tags : l \in L}]
    BY <2>2, <2>5
  <2> HIDE DEF s, L, m
  <2>6. Contract!Consolidate(s, L, m)
    BY <2>1, <2>3, <2>4, <2>5 DEF Contract!Consolidate
  <2>7. QED BY <2>1, <2>6
<1>3. ASSUME NEW t \in Statements, CommitMark(t) PROVE Contract!Next
  <2>1. Held(t) \in SUBSET Ids /\ \A i \in Held(t) : Contract!IsStored(i)
    BY DEF Held, IInv, LockedRowsAreCurrent, IsStored, Contract!IsStored
  <2>2. Contract!MarkMemoriesAccessed(Held(t))
    BY <1>3, <2>1 DEF CommitMark, Contract!MarkMemoriesAccessed
  <2>3. QED BY <2>1, <2>2
<1>4. ASSUME NEW t \in Statements, CommitDelete(t) PROVE Contract!Next
  <2>1. Held(t) \in SUBSET Ids /\ \A i \in Held(t) : Contract!IsStored(i)
    BY DEF Held, IInv, LockedRowsAreCurrent, IsStored, Contract!IsStored
  <2>2. Contract!Dependents(Held(t)) \subseteq Held(t)
    BY <1>4 DEF CommitDelete, Referencing, Dependents, IsStored,
                Contract!Dependents, Contract!IsStored
  <2>3. Contract!DeleteMemories(Held(t))
    BY <1>4, <2>1, <2>2 DEF CommitDelete, Contract!DeleteMemories
  <2>4. QED BY <2>1, <2>3
<1>5. UNCHANGED rowVars => UNCHANGED Contract!vars
  BY DEF rowVars, Contract!vars
<1>6. QED
  BY <1>1, <1>2, <1>3, <1>4, <1>5
  DEF Next, vars, rowVars, Progress, Start, LockRow, SkipRow, Quiet,
      RejectConsolidation, RejectDelete, DeadlockVictim, Cancel

(* Every statement's commit is one atomic step of the store contract with  *)
(* the relaxed delete, and nothing else it does is visible in the rows.    *)
THEOREM Refinement == Spec => ImplementsContract
<1>1. Init => Contract!Init
  BY DEF Init
<1>2. QED
  BY <1>1, ContractStep, InvariantCorrect, PTL
  DEF Spec, ImplementsContract, Contract!Spec

-----------------------------------------------------------------------------
(* What a finished call reported, against the rows as they are now.  The   *)
(* store's rows only age (RowsAge), so a report that was right when its    *)
(* statement committed stays right: HistoryInv adds to IInv what each call *)
(* has reported and what a running statement has still to lock.            *)

OutcomeIsLast ==
  \A t \in Statements : /\ outcome[t] # "none" => phase[t] = "done"
                        /\ phase[t] # "idle" => operation[t] \in Operations

OriginalTagsKept == \A i \in Ids : TagsOf[i] \subseteq memories[i].tags

(* A running consolidation holds or awaits each of its losers that is      *)
(* still there to be superseded.                                           *)
LosersAccounted ==
  \A t \in Statements :
    phase[t] = "locking" /\ operation[t].kind = "consolidate" =>
      \A l \in operation[t].losers :
        /\ IsKnown(l)
        /\ IsStored(l) /\ InScope(l, operation[t])
             => l \in Held(t) \union todo[t]

ConsolidationsKept ==
  \A t \in Statements : Succeeded(t, "consolidate") =>
    /\ \A l \in operation[t].losers :
         /\ IsKnown(l)
         /\ IsStored(l) /\ InScope(l, operation[t])
              => memories[l].supersededBy = operation[t].survivor
    /\ \A l \in changed[t] :
         /\ memories[l].supersededBy = operation[t].survivor
         /\ operation[t].mergeTags =>
              memories[l].tags \subseteq memories[operation[t].survivor].tags

DeletionsKept ==
  \A t \in Statements : Succeeded(t, "delete") =>
    \A i \in changed[t] : memories[i].state = "deleted"

HistoryInv == /\ OutcomeIsLast
              /\ OriginalTagsKept
              /\ LosersAccounted
              /\ ConsolidationsKept
              /\ DeletionsKept
              /\ ReportedOnce

(* The lock order: what an ordered statement holds comes before what it    *)
(* still wants.  Only finitely many statements have started.               *)
LocksInOrder ==
  \A t \in Statements : phase[t] = "locking" /\ IsOrdered(operation[t]) =>
    \A i \in Held(t), j \in todo[t] : i < j

StartedAreFinite == IsFiniteSet({t \in Statements : phase[t] # "idle"})

OrderInv == LocksInOrder /\ StartedAreFinite

(* A memory that is known stays so, is stored only once, never loses a tag *)
(* and, once superseded, keeps its survivor and its tags as they are.      *)
Ages(m, n) ==
  /\ m.state # "unborn" => n.state # "unborn"
  /\ m.state # "unborn" /\ n.state = "stored" => m.state = "stored"
  /\ m.state = "deleted" => n.state = "deleted"
  /\ m.tags \subseteq n.tags
  /\ m.supersededBy # NoMemory => /\ n.supersededBy = m.supersededBy
                                  /\ n.tags = m.tags

LEMMA RowsAge ==
  ASSUME IInv, [Next]_vars, NEW i \in Ids
  PROVE  Ages(memories[i], memories'[i])
<1> USE DEF Ages
<1>1. memories[i] \in Contract!Memory /\ memories \in [Ids -> Contract!Memory]
  BY DEF IInv, TypeOK, Contract!TypeOK
<1>2. [Contract!Next]_(Contract!vars)
  BY ContractStep
<1>3. ASSUME NEW I \in SUBSET Ids, Contract!InsertMemories(I)
      PROVE  Ages(memories[i], memories'[i])
  BY <1>1, <1>3 DEF Contract!InsertMemories, Contract!Memory
<1>4. ASSUME NEW I \in SUBSET Ids, Contract!MarkMemoriesAccessed(I)
      PROVE  Ages(memories[i], memories'[i])
  BY <1>1, <1>4 DEF Contract!MarkMemoriesAccessed, Contract!Memory
<1>5. ASSUME NEW I \in SUBSET Ids, Contract!DeleteMemories(I)
      PROVE  Ages(memories[i], memories'[i])
  BY <1>1, <1>5
  DEF Contract!DeleteMemories, Contract!IsStored, Contract!Memory
<1>6. ASSUME NEW s \in Ids, NEW L \in SUBSET Ids, NEW m \in BOOLEAN,
             Contract!Consolidate(s, L, m)
      PROVE  Ages(memories[i], memories'[i])
  <2>1. /\ memories[s].supersededBy = NoMemory
        /\ \A l \in L : memories[l].supersededBy = NoMemory
    BY <1>6 DEF Contract!Consolidate, Contract!IsActive
  <2>2. CASE i \in L
    BY <1>1, <1>6, <2>1, <2>2 DEF Contract!Consolidate, Contract!Memory
  <2>3. CASE i \notin L /\ i = s /\ m
    <3>1. memories'[i] =
            [memories[i] EXCEPT
               !.tags = @ \union UNION {memories[l].tags : l \in L}]
      BY <1>6, <2>3 DEF Contract!Consolidate
    <3> DEFINE T == UNION {memories[l].tags : l \in L}
    <3>2. memories'[i] = [memories[i] EXCEPT !.tags = @ \union T]
      BY <3>1
    <3> HIDE DEF T
    <3>3. QED BY <1>1, <2>1, <2>3, <3>2 DEF Contract!Memory
  <2>4. CASE i \notin L /\ ~(i = s /\ m)
    BY <1>6, <2>4 DEF Contract!Consolidate
  <2>5. QED BY <2>2, <2>3, <2>4
<1>7. CASE UNCHANGED Contract!vars
  BY <1>7 DEF Contract!vars
<1>8. QED
  BY <1>2, <1>3, <1>4, <1>5, <1>6, <1>7 DEF Contract!Next

(* Only a running statement can be part of a wait cycle.                   *)
LEMMA VictimIsRunning ==
  ASSUME NEW t \in Statements, DeadlockVictim(t)
  PROVE  phase[t] = "locking"
BY DEF DeadlockVictim, IsWaitCycle, WaitsFor

(* A step of the statements and what it changes of each of them: one       *)
(* statement starts, locks, skips or ends; the others stay as they are.    *)
Ends(t) ==
  \/ CommitConsolidation(t) \/ CommitMark(t) \/ CommitDelete(t)
  \/ \E o \in {"conflict", "aborted"} :
       phase[t] = "locking" /\ Finish(t, o, {}) /\ UNCHANGED rowVars

LEMMA StepCases ==
  ASSUME [Next]_vars
  PROVE  \/ UNCHANGED <<owner, phase, operation, todo, outcome, changed>>
         \/ \E t \in Statements :
              \/ \E o \in Operations : Start(t, o)
              \/ \E i \in Ids : LockRow(t, i) \/ SkipRow(t, i)
              \/ Ends(t)
BY VictimIsRunning
DEF Next, Progress, Ends, Insert, Quiet, vars, RejectConsolidation,
    RejectDelete, DeadlockVictim, Cancel, HasAllRows

(* What a step leaves of statement u's report.  A report is new only when  *)
(* u commits; otherwise it is u's old one, on the same operation.          *)
LEMMA ReportStep ==
  ASSUME IInv, OutcomeIsLast, [Next]_vars, NEW u \in Statements,
         outcome'[u] = "ok"
  PROVE  \/ /\ outcome[u] = "ok"
            /\ operation'[u] = operation[u] /\ changed'[u] = changed[u]
            /\ phase'[u] = phase[u]
         \/ CommitConsolidation(u) \/ CommitMark(u) \/ CommitDelete(u)
<1> USE DEF IInv, TypeOK
<1>1. CASE UNCHANGED <<owner, phase, operation, todo, outcome, changed>>
  BY <1>1
<1>2. ASSUME NEW t \in Statements, NEW o \in Operations, Start(t, o)
      PROVE  /\ outcome[u] = "ok" /\ phase'[u] = phase[u]
             /\ operation'[u] = operation[u] /\ changed'[u] = changed[u]
  BY <1>2 DEF Start, OutcomeIsLast
<1>3. ASSUME NEW t \in Statements, NEW i \in Ids,
             LockRow(t, i) \/ SkipRow(t, i)
      PROVE  /\ outcome[u] = "ok" /\ phase'[u] = phase[u]
             /\ operation'[u] = operation[u] /\ changed'[u] = changed[u]
  BY <1>3 DEF LockRow, SkipRow
<1>4. ASSUME NEW t \in Statements, Ends(t), t # u
      PROVE  /\ outcome[u] = "ok" /\ phase'[u] = phase[u]
             /\ operation'[u] = operation[u] /\ changed'[u] = changed[u]
  BY <1>4
  DEF Ends, Finish, CommitConsolidation, CommitMark, CommitDelete
<1>5. ASSUME Ends(u)
      PROVE  CommitConsolidation(u) \/ CommitMark(u) \/ CommitDelete(u)
  BY <1>5 DEF Ends, Finish
<1>6. QED BY <1>1, <1>2, <1>3, <1>4, <1>5, StepCases

(* A statement that commits was running: its success is new.               *)
LEMMA CommitIsNew ==
  ASSUME IInv, OutcomeIsLast, NEW t \in Statements,
         CommitConsolidation(t) \/ CommitMark(t) \/ CommitDelete(t)
  PROVE  /\ outcome[t] = "none" /\ operation' = operation
         /\ \A u \in Statements : u # t =>
              /\ ~CommitConsolidation(u) /\ ~CommitMark(u) /\ ~CommitDelete(u)
BY DEF CommitConsolidation, CommitMark, CommitDelete, HasAllRows, Finish,
       OutcomeIsLast, IInv, TypeOK

(* What a step leaves of the locks of statement u while u still runs: a    *)
(* row moves from u's targets to the rows it holds, or is gone.            *)
LEMMA RunningStep ==
  ASSUME IInv, [Next]_vars, NEW u \in Statements, phase'[u] = "locking"
  PROVE  \/ /\ \E o \in Operations : Start(u, o) /\ ~HasDependents(o)
            /\ Held(u)' = {}
         \/ /\ phase[u] = "locking" /\ operation'[u] = operation[u]
            /\ Held(u) \subseteq Held(u)' /\ todo'[u] \subseteq todo[u]
            /\ \A i \in todo[u] : IsStored(i) => i \in Held(u)' \union todo'[u]
            /\ \A i \in Held(u)' : i \notin Held(u) =>
                                     i \in NextRows(u) /\ i \notin todo'[u]
<1> USE DEF IInv, TypeOK
<1> DEFINE Same == /\ phase[u] = "locking" /\ operation'[u] = operation[u]
                   /\ Held(u)' = Held(u) /\ todo'[u] = todo[u]
<1>1. CASE UNCHANGED <<owner, phase, operation, todo, outcome, changed>>
  BY <1>1 DEF Held
<1>2. ASSUME NEW t \in Statements, NEW o \in Operations, Start(t, o)
      PROVE  Same \/ /\ Start(u, o) /\ ~HasDependents(o)
                     /\ Held(u)' = {}
  <2>1. Held(u)' = Held(u)
    BY <1>2 DEF Start, Held
  <2>2. CASE t = u
    <3>1. Held(u) = {}
      BY <1>2, <2>2 DEF Start, LockedRowsAreCurrent
    <3>2. ~HasDependents(o)
      BY <1>2, <2>2 DEF Start
    <3>3. QED BY <1>2, <2>1, <2>2, <3>1, <3>2
  <2>3. CASE t # u
    BY <1>2, <2>1, <2>3 DEF Start
  <2>4. QED BY <2>2, <2>3
<1>3. ASSUME NEW t \in Statements, NEW i \in Ids, LockRow(t, i), t # u
      PROVE  Same
  BY <1>3, StatementAssumption DEF LockRow, Held, IsFree
<1>4. ASSUME NEW i \in Ids, LockRow(u, i)
      PROVE  /\ phase[u] = "locking" /\ operation'[u] = operation[u]
             /\ Held(u)' = Held(u) \union {i} /\ todo'[u] = todo[u] \ {i}
             /\ i \in NextRows(u)
  BY <1>4, StatementAssumption DEF LockRow, Held, IsFree
<1>5. ASSUME NEW t \in Statements, NEW i \in Ids, SkipRow(t, i)
      PROVE  /\ phase[u] = "locking" /\ operation'[u] = operation[u]
             /\ Held(u)' = Held(u) /\ todo'[u] \subseteq todo[u]
             /\ ~IsStored(i)
             /\ \A j \in todo[u] : j # i => j \in todo'[u]
  BY <1>5 DEF SkipRow, Held
<1>6. ASSUME NEW t \in Statements, Ends(t)
      PROVE  Same
  <2>1. \E o, C : Finish(t, o, C)
    BY <1>6 DEF Ends, CommitConsolidation, CommitMark, CommitDelete
  <2>2. u # t
    BY <2>1 DEF Finish
  <2>3. QED BY <2>1, <2>2, StatementAssumption DEF Finish, Held
<1>7. QED BY <1>1, <1>2, <1>3, <1>4, <1>5, <1>6, StepCases

-----------------------------------------------------------------------------
(* The invariant of the reports.                                           *)

LEMMA InitHistory == Init => HistoryInv
<1> SUFFICES ASSUME Init PROVE HistoryInv
  OBVIOUS
<1>1. \A t \in Statements : outcome[t] = "none" /\ phase[t] = "idle"
  BY DEF Init
<1>2. OriginalTagsKept
  BY DEF Init, Contract!Init, OriginalTagsKept
<1>3. QED BY <1>1, <1>2
          DEF HistoryInv, OutcomeIsLast, LosersAccounted, ConsolidationsKept,
              DeletionsKept, ReportedOnce, Succeeded

LEMMA StepOutcome ==
  ASSUME IInv, OutcomeIsLast, [Next]_vars
  PROVE  OutcomeIsLast'
<1> USE DEF IInv, TypeOK, OutcomeIsLast
<1>1. CASE UNCHANGED <<owner, phase, operation, todo, outcome, changed>>
  BY <1>1
<1>2. ASSUME NEW t \in Statements, NEW o \in Operations, Start(t, o)
      PROVE  OutcomeIsLast'
  BY <1>2 DEF Start
<1>3. ASSUME NEW t \in Statements, NEW i \in Ids,
             LockRow(t, i) \/ SkipRow(t, i)
      PROVE  OutcomeIsLast'
  BY <1>3 DEF LockRow, SkipRow
<1>4. ASSUME NEW t \in Statements, Ends(t)
      PROVE  OutcomeIsLast'
  <2>1. phase[t] = "locking"
    BY <1>4 DEF Ends, CommitConsolidation, CommitMark, CommitDelete,
                HasAllRows
  <2>2. \E o, C : Finish(t, o, C)
    BY <1>4 DEF Ends, CommitConsolidation, CommitMark, CommitDelete
  <2>3. QED BY <2>1, <2>2 DEF Finish
<1>5. QED BY <1>1, <1>2, <1>3, <1>4, StepCases

LEMMA StepOriginalTags ==
  ASSUME IInv, OriginalTagsKept, [Next]_vars
  PROVE  OriginalTagsKept'
BY RowsAge DEF Ages, OriginalTagsKept

LEMMA StepLosers ==
  ASSUME IInv, LosersAccounted, [Next]_vars
  PROVE  LosersAccounted'
<1> SUFFICES ASSUME NEW u \in Statements, phase'[u] = "locking",
                    operation'[u].kind = "consolidate",
                    NEW l, l \in operation'[u].losers
             PROVE  /\ IsKnown(l)'
                    /\ IsStored(l)' /\ EntityOf[l] = operation'[u].entity
                         => l \in Held(u)' \union todo'[u]
  BY DEF LosersAccounted, InScope
<1>1. ASSUME NEW o \in Operations, Start(u, o), ~HasDependents(o)
      PROVE  /\ IsKnown(l)'
             /\ IsStored(l)' /\ EntityOf[l] = operation'[u].entity
                  => l \in Held(u)' \union todo'[u]
  <2>1. operation'[u] = o /\ todo'[u] = Targets(o) /\ memories' = memories
    BY <1>1 DEF Start, IInv, TypeOK
  <2>2. l \in Ids /\ IsKnown(l)
    BY <1>1, <2>1, OperationSorts DEF Start, NamesKnown
  <2>3. QED BY <2>1, <2>2
            DEF Targets, Selects, InScope, IsStored, IsKnown
<1>2. ASSUME phase[u] = "locking", operation'[u] = operation[u],
             Held(u) \subseteq Held(u)',
             \A i \in todo[u] : IsStored(i) => i \in Held(u)' \union todo'[u]
      PROVE  /\ IsKnown(l)'
             /\ IsStored(l)' /\ EntityOf[l] = operation'[u].entity
                  => l \in Held(u)' \union todo'[u]
  <2>1. operation[u] \in Operations
    BY <1>2 DEF IInv, HeldRowsAreTargets
  <2>2. l \in Ids
    BY <1>2, <2>1, OperationSorts
  <2>3. /\ IsKnown(l)
        /\ IsStored(l) /\ EntityOf[l] = operation[u].entity
             => l \in Held(u) \union todo[u]
    BY <1>2 DEF LosersAccounted, InScope
  <2>4. IsKnown(l)' /\ (IsStored(l)' => IsStored(l))
    BY <2>2, <2>3, RowsAge DEF Ages, IsKnown, IsStored
  <2>5. QED BY <1>2, <2>3, <2>4
<1>3. QED BY <1>1, <1>2, RunningStep

(* What a consolidation that commits leaves of its losers and its tags.    *)
LEMMA ConsolidationCommit ==
  ASSUME IInv, LosersAccounted, NEW u \in Statements, CommitConsolidation(u),
         NEW s, s = operation[u].survivor
  PROVE  /\ operation[u] \in Operations /\ operation'[u] = operation[u]
         /\ changed'[u] = NewlySuperseded(u)
         /\ \A l \in operation[u].losers :
              /\ l \in Ids /\ IsKnown(l)'
              /\ IsStored(l)' /\ InScope(l, operation[u])
                   => memories'[l].supersededBy = s
         /\ \A l \in NewlySuperseded(u) :
              /\ memories'[l].supersededBy = s
              /\ operation[u].mergeTags =>
                   memories'[l].tags \subseteq memories'[s].tags
<1> USE DEF IInv
<1> DEFINE L == NewlySuperseded(u)
<1>1. /\ operation[u] \in Operations
      /\ s \in Ids /\ L \in SUBSET Ids /\ s \notin L
      /\ \A i \in Ids : /\ memories'[i].state = memories[i].state
                        /\ memories'[i].supersededBy =
                             IF i \in L THEN s ELSE memories[i].supersededBy
  BY ConsolidationEffect
<1>2. /\ phase[u] = "locking" /\ todo[u] = {} /\ ~HasConflict(u)
      /\ operation[u].kind = "consolidate"
      /\ operation'[u] = operation[u]
      /\ changed'[u] = L
  BY DEF CommitConsolidation, HasAllRows, Finish, TypeOK
<1>3. ASSUME NEW l, l \in operation[u].losers
      PROVE  /\ l \in Ids /\ l # s /\ IsKnown(l)
             /\ IsStored(l) /\ InScope(l, operation[u]) => l \in Held(u)
  BY <1>1, <1>2, <1>3, OperationSorts DEF LosersAccounted
<1>4. ASSUME NEW l \in Held(u), l # s
      PROVE  l \in L \/ memories[l].supersededBy = s
  <2>1. locked[u][l].supersededBy = memories[l].supersededBy
    <3>1. locked[u][l] = RowOf(memories[l])
      BY <1>4 DEF LockedRowsAreCurrent
    <3>2. QED BY <3>1 DEF RowOf
  <2>2. locked[u][l].supersededBy \in {NoMemory, s}
    BY <1>2, <1>4 DEF HasConflict
  <2>3. QED BY <1>4, <2>1, <2>2 DEF NewlySuperseded
<1>5. ASSUME operation[u].mergeTags, NEW l \in L
      PROVE  memories'[l].tags \subseteq memories'[s].tags
  <2>1. memories'[l].tags = memories[l].tags
    BY <1>1 DEF CommitConsolidation, TypeOK, Contract!TypeOK, Contract!Memory
  <2>2. memories'[s] = [memories[s] EXCEPT !.tags = MergedTags(u)]
    BY <1>1, <1>5 DEF CommitConsolidation
  <2>3. memories'[s].tags = MergedTags(u)
    BY <1>1, <2>2 DEF TypeOK, Contract!TypeOK, Contract!Memory
  <2>4. memories[l].tags \subseteq MergedTags(u)
    BY DEF MergedTags
  <2>5. QED BY <2>1, <2>3, <2>4
<1> HIDE DEF L
<1>6. ASSUME NEW l, l \in operation[u].losers,
             IsStored(l)', InScope(l, operation[u])
      PROVE  memories'[l].supersededBy = s
  <2>1. l \in Ids /\ l # s /\ l \in Held(u)
    BY <1>1, <1>3, <1>6 DEF IsStored
  <2>2. QED BY <1>1, <1>4, <2>1
<1>7. \A l \in operation[u].losers : l \in Ids /\ IsKnown(l)'
  BY <1>1, <1>3 DEF IsKnown
<1>8. QED BY <1>1, <1>2, <1>5, <1>6, <1>7 DEF L

LEMMA StepConsolidations ==
  ASSUME IInv, TypeOK', OutcomeIsLast, LosersAccounted, ConsolidationsKept,
         [Next]_vars
  PROVE  ConsolidationsKept'
<1> SUFFICES ASSUME NEW u \in Statements, Succeeded(u, "consolidate")'
             PROVE
    /\ \A l \in operation'[u].losers :
         /\ IsKnown(l)'
         /\ IsStored(l)' /\ InScope(l, operation'[u])
              => memories'[l].supersededBy = operation'[u].survivor
    /\ \A l \in changed'[u] :
         /\ memories'[l].supersededBy = operation'[u].survivor
         /\ operation'[u].mergeTags =>
              memories'[l].tags
                \subseteq memories'[operation'[u].survivor].tags
  BY DEF ConsolidationsKept, InScope
<1>1. outcome'[u] = "ok" /\ operation'[u].kind = "consolidate"
  BY DEF Succeeded
<1>2. CASE CommitConsolidation(u)
  BY <1>2, ConsolidationCommit
<1>3. ~CommitMark(u) /\ ~CommitDelete(u)
  BY <1>1 DEF CommitMark, CommitDelete, HasAllRows, Finish
<1>4. CASE /\ outcome[u] = "ok" /\ operation'[u] = operation[u]
           /\ changed'[u] = changed[u] /\ phase'[u] = phase[u]
  <2>1. Succeeded(u, "consolidate")
    BY <1>1, <1>4 DEF Succeeded
  <2>2. operation[u] \in Operations
    BY <1>4 DEF OutcomeIsLast
  <2>3. /\ operation[u].survivor \in Ids /\ operation[u].survivor # NoMemory
        /\ operation[u].losers \subseteq Ids /\ changed[u] \subseteq Ids
    BY <1>1, <1>4, <2>2, OperationSorts, StatementAssumption
    DEF IInv, TypeOK, Contract!ConstantsOK
  <2>4. ASSUME NEW l \in operation[u].losers
        PROVE  /\ IsKnown(l)'
               /\ IsStored(l)' /\ InScope(l, operation[u])
                    => memories'[l].supersededBy = operation[u].survivor
    <3>1. /\ IsKnown(l)
          /\ IsStored(l) /\ InScope(l, operation[u])
               => memories[l].supersededBy = operation[u].survivor
      BY <2>1 DEF ConsolidationsKept
    <3>2. Ages(memories[l], memories'[l])
      BY <2>3, RowsAge
    <3>3. QED BY <2>3, <3>1, <3>2 DEF Ages, IsKnown, IsStored
  <2>5. ASSUME NEW l \in changed[u]
        PROVE  /\ memories'[l].supersededBy = operation[u].survivor
               /\ operation[u].mergeTags =>
                    memories'[l].tags
                      \subseteq memories'[operation[u].survivor].tags
    <3>1. /\ memories[l].supersededBy = operation[u].survivor
          /\ operation[u].mergeTags =>
               memories[l].tags \subseteq memories[operation[u].survivor].tags
      BY <2>1 DEF ConsolidationsKept
    <3>2. /\ Ages(memories[l], memories'[l])
          /\ Ages(memories[operation[u].survivor],
                  memories'[operation[u].survivor])
      BY <2>3, RowsAge
    <3>3. QED BY <2>3, <3>1, <3>2 DEF Ages
  <2>6. QED BY <1>4, <2>4, <2>5
<1>5. QED BY <1>1, <1>2, <1>3, <1>4, ReportStep

LEMMA StepDeletions ==
  ASSUME IInv, OutcomeIsLast, DeletionsKept, [Next]_vars
  PROVE  DeletionsKept'
<1> SUFFICES ASSUME NEW u \in Statements, Succeeded(u, "delete")',
                    NEW i \in changed'[u]
             PROVE  memories'[i].state = "deleted"
  BY DEF DeletionsKept
<1>1. outcome'[u] = "ok" /\ operation'[u].kind = "delete"
  BY DEF Succeeded
<1>2. CASE CommitDelete(u)
  <2>1. i \in Held(u) /\ i \in Ids
    BY <1>2 DEF CommitDelete, Finish, IInv, TypeOK, Held
  <2>2. memories[i] \in Contract!Memory
    BY <2>1 DEF IInv, TypeOK, Contract!TypeOK
  <2>3. QED BY <1>2, <2>1, <2>2 DEF CommitDelete, Contract!Memory
<1>3. ~CommitMark(u) /\ ~CommitConsolidation(u)
  BY <1>1 DEF CommitMark, CommitConsolidation, HasAllRows, Finish
<1>4. CASE /\ outcome[u] = "ok" /\ operation'[u] = operation[u]
           /\ changed'[u] = changed[u]
  <2>1. i \in Ids /\ memories[i].state = "deleted"
    BY <1>1, <1>4 DEF DeletionsKept, Succeeded, IInv, TypeOK
  <2>2. QED BY <2>1, RowsAge DEF Ages
<1>5. QED BY <1>1, <1>2, <1>3, <1>4, ReportStep

(* What a call reports anew was not reported before: a memory newly        *)
(* superseded had no survivor, one newly deleted was stored.               *)
LEMMA ReportsAreNew ==
  ASSUME IInv, OutcomeIsLast, ConsolidationsKept, DeletionsKept,
         NEW t \in Statements, CommitConsolidation(t) \/ CommitDelete(t),
         NEW u \in Statements, Succeeded(u, operation[t].kind)
  PROVE  changed'[t] \intersect changed[u] = {}
<1>1. CASE CommitConsolidation(t)
  <2>1. /\ \A l \in NewlySuperseded(t) : memories[l].supersededBy = NoMemory
        /\ changed'[t] = NewlySuperseded(t)
    <3>1. \A l \in NewlySuperseded(t) : memories[l].supersededBy = NoMemory
      BY <1>1, ConsolidationEffect
    <3>2. changed'[t] = NewlySuperseded(t)
      BY <1>1 DEF CommitConsolidation, Finish, IInv, TypeOK
    <3>3. QED BY <3>1, <3>2
  <2>2. operation[t].kind = "consolidate"
    BY <1>1 DEF CommitConsolidation, HasAllRows
  <2>3. operation[u] \in Operations /\ operation[u].kind = "consolidate"
    BY <2>2 DEF OutcomeIsLast, Succeeded
  <2>4. operation[u].survivor # NoMemory
    BY <2>3, OperationSorts, StatementAssumption DEF Contract!ConstantsOK
  <2>5. \A l \in changed[u] : memories[l].supersededBy # NoMemory
    BY <2>2, <2>4 DEF ConsolidationsKept
  <2>6. QED BY <2>1, <2>5
<1>2. CASE CommitDelete(t)
  <2>1. changed'[t] = Held(t) /\ \A i \in Held(t) : IsStored(i)
    BY <1>2 DEF CommitDelete, Finish, IInv, TypeOK, LockedRowsAreCurrent
  <2>2. operation[t].kind = "delete"
    BY <1>2 DEF CommitDelete, HasAllRows
  <2>3. \A i \in changed[u] : memories[i].state = "deleted"
    BY <2>2 DEF DeletionsKept
  <2>4. QED BY <2>1, <2>3 DEF IsStored
<1>3. QED BY <1>1, <1>2

LEMMA StepReportedOnce ==
  ASSUME IInv, HistoryInv, [Next]_vars
  PROVE  ReportedOnce'
<1> USE DEF HistoryInv
<1> SUFFICES ASSUME NEW t \in Statements, NEW u \in Statements,
                    NEW k \in {"consolidate", "delete"}, t # u,
                    Succeeded(t, k)', Succeeded(u, k)'
             PROVE  changed'[t] \intersect changed'[u] = {}
  BY DEF ReportedOnce
<1> DEFINE Old(v) == /\ Succeeded(v, k) /\ changed'[v] = changed[v]
           New(v) == /\ CommitConsolidation(v) \/ CommitDelete(v)
                     /\ operation[v].kind = k
<1>1. ASSUME NEW v \in Statements, Succeeded(v, k)' PROVE Old(v) \/ New(v)
  <2>1. outcome'[v] = "ok" /\ operation'[v].kind = k
    BY <1>1 DEF Succeeded
  <2>2. CASE outcome[v] = "ok" /\ operation'[v] = operation[v]
             /\ changed'[v] = changed[v]
    BY <2>1, <2>2 DEF Succeeded
  <2>3. CASE CommitConsolidation(v) \/ CommitMark(v) \/ CommitDelete(v)
    BY <2>1, <2>3 DEF CommitConsolidation, CommitMark, CommitDelete,
                      HasAllRows, Finish
  <2>4. QED BY <2>1, <2>2, <2>3, ReportStep
<1>2. CASE Old(t) /\ Old(u)
  BY <1>2 DEF ReportedOnce
<1>3. CASE New(t) /\ Old(u)
  BY <1>3, ReportsAreNew
<1>4. CASE Old(t) /\ New(u)
  BY <1>4, ReportsAreNew
<1>5. ~(New(t) /\ New(u))
  BY CommitIsNew
<1>6. QED BY <1>1, <1>2, <1>3, <1>4, <1>5

LEMMA StepHistory ==
  ASSUME IInv, TypeOK', HistoryInv, [Next]_vars
  PROVE  HistoryInv'
BY StepOutcome, StepOriginalTags, StepLosers, StepConsolidations,
   StepDeletions, StepReportedOnce
DEF HistoryInv

(* Whatever runs at the same time, what the calls reported stays true.     *)
THEOREM HistoryCorrect == Spec => []HistoryInv
<1>1. ASSUME IInv, TypeOK', HistoryInv, [Next]_vars PROVE HistoryInv'
  BY <1>1, StepHistory
<1>2. QED BY <1>1, InitHistory, TypeCorrect, InvariantCorrect, PTL DEF Spec

(* A consolidation that reported success did what it was asked: each loser *)
(* still stored is superseded by the survivor, also when other             *)
(* consolidations, access writes and deletes ran at the same time.         *)
THEOREM ConsolidationsStand == Spec => []ConsolidationTakesEffect
<1>1. HistoryInv => ConsolidationTakesEffect
  BY DEF HistoryInv, ConsolidationsKept, ConsolidationTakesEffect
<1>2. QED BY <1>1, HistoryCorrect, PTL

(* Of two calls that both superseded, or both deleted, memories, no memory *)
(* is in the reports of both: one count per memory.                        *)
THEOREM NoDoubleReport == Spec => []ReportedOnce
<1>1. HistoryInv => ReportedOnce
  BY DEF HistoryInv
<1>2. QED BY <1>1, HistoryCorrect, PTL

(* A survivor keeps its own tags and gains those of each memory a          *)
(* tag-merging consolidation superseded, when several merge at once too.   *)
THEOREM NoTagLost == Spec => []MergedTagsKept
<1>1. ASSUME TypeOK, HistoryInv PROVE MergedTagsKept
  <2> SUFFICES ASSUME NEW t \in Statements, Succeeded(t, "consolidate"),
                      operation[t].mergeTags,
                      NEW l \in changed[t] \union {operation[t].survivor}
               PROVE  memories[l].tags \union TagsOf[l]
                        \subseteq memories[operation[t].survivor].tags
    BY DEF MergedTagsKept
  <2>1. operation[t] \in Operations /\ operation[t].kind = "consolidate"
    BY <1>1 DEF HistoryInv, OutcomeIsLast, Succeeded
  <2>2. l \in Ids
    BY <1>1, <2>1, OperationSorts DEF TypeOK
  <2>3. TagsOf[l] \subseteq memories[l].tags
    BY <1>1, <2>2 DEF HistoryInv, OriginalTagsKept
  <2>4. memories[l].tags \subseteq memories[operation[t].survivor].tags
    BY <1>1 DEF HistoryInv, ConsolidationsKept
  <2>5. QED BY <2>3, <2>4
<1>2. QED BY <1>1, TypeCorrect, HistoryCorrect, PTL

-----------------------------------------------------------------------------
(* Deadlock.  In a wait cycle of ordered statements each waits for a row   *)
(* that another holds; its holder waits for a later row.  A finite set of  *)
(* statements has one that waits for the last row of all.                  *)

(* A finite set has an element that no other is above, in any strict order:*)
(* one that as few as possible are above.                                  *)
LEMMA FiniteHasMaximal ==
  ASSUME NEW S, IsFiniteSet(S), S # {}, NEW R,
         \A x \in S : <<x, x>> \notin R,
         \A x, y, z \in S : <<x, y>> \in R /\ <<y, z>> \in R => <<x, z>> \in R
  PROVE  \E m \in S : \A x \in S : <<m, x>> \notin R
<1> DEFINE Above(x) == {y \in S : <<x, y>> \in R}
           Aboves == {Above(x) : x \in S}
<1>1. IsWellFoundedOn(StrictSubsetOrdering(S), SUBSET S)
  BY FS_StrictSubsetOrderingWellFounded, FS_FiniteSubsetsOfFinite
<1>2. Aboves \subseteq SUBSET S /\ Aboves # {}
  <2>1. \A x \in S : Above(x) \in SUBSET S
    OBVIOUS
  <2> HIDE DEF Above
  <2>2. QED BY <2>1
<1>3. PICK A \in Aboves :
        \A B \in Aboves : <<B, A>> \notin StrictSubsetOrdering(S)
  <2> HIDE DEF Aboves
  <2>1. QED BY <1>1, <1>2, WFMin
<1>4. PICK m \in S : A = Above(m)
  OBVIOUS
<1>5. ASSUME NEW x \in S, <<m, x>> \in R PROVE FALSE
  <2>1. Above(x) \subseteq Above(m) /\ x \in Above(m) /\ x \notin Above(x)
    BY <1>5
  <2>2. <<Above(x), Above(m)>> \in StrictSubsetOrdering(S)
    BY <2>1 DEF StrictSubsetOrdering
  <2>3. QED BY <1>3, <1>4, <2>2
<1>6. QED BY <1>5

LEMMA InitOrder == Init => OrderInv
<1>1. Init => {t \in Statements : phase[t] # "idle"} = {}
  BY DEF Init
<1>2. Init => StartedAreFinite
  BY <1>1, FS_EmptySet DEF StartedAreFinite
<1>3. Init => LocksInOrder
  BY DEF Init, LocksInOrder
<1>4. QED BY <1>2, <1>3 DEF OrderInv

(* The next row of an ordered statement is unique.                         *)
LEMMA NextRowUnique ==
  ASSUME TypeOK, NEW t \in Statements, IsOrdered(operation[t]),
         NEW i \in NextRows(t), NEW j \in todo[t]
  PROVE  /\ i \in todo[t] /\ i \in Int /\ j \in Int /\ i <= j
         /\ j \in NextRows(t) => j = i
BY StatementAssumption DEF NextRows, TypeOK

LEMMA StepLocks ==
  ASSUME IInv, LocksInOrder, [Next]_vars
  PROVE  LocksInOrder'
<1> SUFFICES ASSUME NEW u \in Statements, phase'[u] = "locking",
                    IsOrdered(operation'[u]),
                    NEW i \in Held(u)', NEW j \in todo'[u]
             PROVE  i < j
  BY DEF LocksInOrder, IsOrdered
<1>1. CASE Held(u)' = {}
  BY <1>1
<1>2. ASSUME phase[u] = "locking", operation'[u] = operation[u],
             todo'[u] \subseteq todo[u],
             i \notin Held(u) => i \in NextRows(u) /\ i \notin todo'[u]
      PROVE  i < j
  <2>1. CASE i \in Held(u)
    BY <1>2, <2>1 DEF LocksInOrder
  <2>2. CASE i \in NextRows(u) /\ i \notin todo'[u]
    <3>1. i \in Int /\ j \in Int /\ i <= j
      BY <1>2, <2>2, NextRowUnique DEF IInv
    <3>2. i # j
      BY <2>2
    <3>3. QED BY <3>1, <3>2
  <2>3. QED BY <1>2, <2>1, <2>2
<1>3. QED BY <1>1, <1>2, RunningStep

LEMMA StepStarted ==
  ASSUME IInv, StartedAreFinite, [Next]_vars
  PROVE  StartedAreFinite'
<1> DEFINE Started == {t \in Statements : phase[t] # "idle"}
<1>1. IsFiniteSet(Started)
  BY DEF StartedAreFinite
<1>2. \E t : Started' \subseteq Started \union {t}
  <2>1. ASSUME phase' = phase
        PROVE  Started' \subseteq Started
    BY <2>1
  <2>2. ASSUME NEW t \in Statements,
               \A u \in Statements : u # t => phase'[u] = phase[u]
        PROVE  Started' \subseteq Started \union {t}
    BY <2>2
  <2>3. ASSUME NEW t \in Statements,
               \/ \E o \in Operations : Start(t, o)
               \/ \E i \in Ids : LockRow(t, i) \/ SkipRow(t, i)
               \/ Ends(t)
        PROVE  \A u \in Statements : u # t => phase'[u] = phase[u]
    BY <2>3
    DEF Start, LockRow, SkipRow, Ends, CommitConsolidation, CommitMark,
        CommitDelete, Finish, IInv, TypeOK
  <2> HIDE DEF Started
  <2>4. QED BY <2>1, <2>2, <2>3, StepCases
<1> HIDE DEF Started
<1>3. PICK t : Started' \subseteq Started \union {t}
  BY <1>2
<1>4. IsFiniteSet(Started \union {t})
  BY <1>1, FS_AddElement
<1>5. IsFiniteSet(Started')
  BY <1>3, <1>4, FS_Subset
<1>6. QED BY <1>5 DEF StartedAreFinite, Started

(* Ordered statements take their locks in id order, however they           *)
(* interleave.                                                             *)
THEOREM OrderCorrect == Spec => []OrderInv
<1>1. ASSUME IInv, OrderInv, [Next]_vars PROVE OrderInv'
  BY <1>1, StepLocks, StepStarted DEF OrderInv
<1>2. QED BY <1>1, InitOrder, InvariantCorrect, PTL DEF Spec

(* Consolidations and access writes alone never deadlock, whatever rows    *)
(* they name and however many run (ORDER BY id FOR UPDATE).                *)
THEOREM OrderedDeadlockFree == Spec => []OrderedNeverDeadlock
<1>1. ASSUME IInv, OrderInv PROVE OrderedNeverDeadlock
  <2> SUFFICES ASSUME NEW X \in SUBSET {t \in Statements :
                               operation[t].kind \in {"consolidate", "mark"}},
                      IsWaitCycle(X)
               PROVE  FALSE
    BY DEF OrderedNeverDeadlock
  <2> DEFINE R == {p \in X \X X :
                     \E i \in NextRows(p[1]), j \in NextRows(p[2]) :
                       i < j}
  <2>1. \A t \in X : /\ t \in Statements /\ IsOrdered(operation[t])
                     /\ phase[t] = "locking"
    BY DEF IsOrdered, IsWaitCycle, WaitsFor
  <2>2. ASSUME NEW t \in X
        PROVE  \E u \in X : \E i \in NextRows(t) : owner[i] = u
    <3>1. PICK u \in X : WaitsFor(t, u)
      BY DEF IsWaitCycle
    <3>2. operation[t].kind # "delete"
      BY <2>1 DEF IsOrdered
    <3>3. QED BY <3>1, <3>2 DEF WaitsFor, HasAllRows
  <2>3. ASSUME NEW t \in X PROVE <<t, t>> \notin R
    <3> SUFFICES ASSUME NEW i \in NextRows(t), NEW j \in NextRows(t), i < j
                 PROVE  FALSE
      OBVIOUS
    <3>1. j \in todo[t] /\ i \in Int
      BY <1>1, <2>1, NextRowUnique DEF NextRows, IInv
    <3>2. j = i
      BY <1>1, <2>1, <3>1, NextRowUnique DEF IInv
    <3>3. QED BY <3>1, <3>2
  <2>4. ASSUME NEW x \in X, NEW y \in X, NEW z \in X,
               <<x, y>> \in R, <<y, z>> \in R
        PROVE  <<x, z>> \in R
    <3>1. PICK i \in NextRows(x), j \in NextRows(y) : i < j
      BY <2>4
    <3>2. PICK k \in NextRows(y), l \in NextRows(z) : k < l
      BY <2>4
    <3>3. i \in todo[x] /\ j \in todo[y] /\ l \in todo[z]
      BY DEF NextRows
    <3>4. k = j /\ i \in Int /\ j \in Int /\ l \in Int
      BY <1>1, <2>1, <3>3, NextRowUnique DEF IInv
    <3>5. i < l
      BY <3>1, <3>2, <3>4
    <3>6. QED BY <3>5
  <2>5. IsFiniteSet(X)
    <3>1. X \subseteq {t \in Statements : phase[t] # "idle"}
      BY <2>1
    <3>2. QED BY <1>1, <3>1, FS_Subset DEF OrderInv, StartedAreFinite
  <2>6. X # {}
    BY DEF IsWaitCycle
  <2> HIDE DEF R
  <2>7. PICK t \in X : \A u \in X : <<t, u>> \notin R
    <3>1. /\ \A x \in X : <<x, x>> \notin R
          /\ \A x, y, z \in X :
               <<x, y>> \in R /\ <<y, z>> \in R => <<x, z>> \in R
      BY <2>3, <2>4
    <3>2. QED BY <2>5, <2>6, <3>1, FiniteHasMaximal
  <2>8. PICK u \in X, i \in NextRows(t) : owner[i] = u
    BY <2>2
  <2>9. PICK v \in X, j \in NextRows(u) : owner[j] = v
    BY <2>2
  <2>10. i \in Held(u) /\ j \in todo[u]
    BY <1>1, <2>1, <2>8, <2>9 DEF Held, NextRows, IInv, TypeOK
  <2>11. i < j
    BY <1>1, <2>1, <2>10 DEF OrderInv, LocksInOrder
  <2>12. <<t, u>> \in R
    BY <2>8, <2>9, <2>11 DEF R
  <2>13. QED BY <2>7, <2>12
<1>2. QED BY <1>1, InvariantCorrect, OrderCorrect, PTL
=============================================================================
