--------------------------- MODULE MCPostgresStore ---------------------------
(* Small instances of PostgresStore for TLC.                               *)
EXTENDS PostgresStore, TLC

CONSTANTS e1, e2, a, b, c, d

MCEntityOf == 1 :> e1 @@ 2 :> e1 @@ 3 :> e1 @@ 4 :> e2
MCTagsOf == 1 :> {a} @@ 2 :> {b} @@ 3 :> {c} @@ 4 :> {d}
PairEntityOf == 1 :> e1 @@ 2 :> e1
PairTagsOf == 1 :> {a} @@ 2 :> {b}

Consolidate(s, L, m) == [kind |-> "consolidate", entity |-> e1,
                         survivor |-> s, losers |-> L, mergeTags |-> m]
Delete(I, sup, old, tags) ==
  [kind |-> "delete", ids |-> I, superseded |-> sup,
   notAccessedSince |-> old, tags |-> tags]
Mark(I) == [kind |-> "mark", entity |-> e1, ids |-> I]

(* Memories 1, 2 and 4 exist from the start (4 is another entity's), 3 may *)
(* be inserted.  Every consolidation among the first three, one that names *)
(* a foreign memory, one without tag merging; forget, forgetAll and three  *)
(* prunes, one by a tag that a consolidation may merge into other rows;    *)
(* access writes over overlapping rows.                                    *)
SafetyOperations ==
  UNION {{Consolidate(s, L, TRUE) : L \in SUBSET ({1, 2, 3} \ {s}) \ {{}}} :
           s \in {1, 2, 3}}
  \union {Consolidate(2, {1, 4}, TRUE), Consolidate(2, {1}, FALSE)}
  \union {Delete({1}, FALSE, FALSE, {}), Delete({1, 2, 3}, FALSE, FALSE, {}),
          Delete({1, 2, 3, 4}, TRUE, FALSE, {}),
          Delete({1, 2}, FALSE, TRUE, {}), Delete({1, 2, 3}, FALSE, FALSE, {b})}
  \union {Mark({1, 2}), Mark({2, 3})}

(* Enough to make deletes and consolidations deadlock.                     *)
LivenessOperations ==
  {Consolidate(1, {2}, TRUE), Consolidate(2, {1}, TRUE),
   Delete({1, 2}, FALSE, FALSE, {}), Delete({1}, FALSE, FALSE, {}),
   Mark({1, 2})}

Symmetry == Permutations(Statements)
=============================================================================
