------------------------- MODULE MCClientOperations -------------------------
(* A small instance of ClientOperations for TLC.                           *)
EXTENDS ClientOperations, TLC

CONSTANTS e1, e2, m1, m2, m3, m4

MCEntityOf == m1 :> e1 @@ m2 :> e1 @@ m3 :> e1 @@ m4 :> e2
MCTagsOf == [i \in Ids |-> {i}]

Consolidation(s, L) == [kind |-> "consolidate", entity |-> e1,
                        survivorId |-> s, supersededIds |-> L,
                        mergeTags |-> TRUE]
Pruning(I, sup, old, tags, dry) ==
  [kind |-> "prune", ids |-> I, superseded |-> sup, notAccessedSince |-> old,
   tags |-> tags, dryRun |-> dry]

(* m1, m2 and m4 are stored, m3 is remembered; m4 is another entity's.     *)
MCRequests ==
  {Consolidation(m1, {m2}), Consolidation(m2, {m1}), Consolidation(m1, {m2, m3}),
   Consolidation(m1, {m4}), Consolidation(m3, {m1})}
  \union {[kind |-> "remember", count |-> 1],
          [kind |-> "forget", entity |-> e1, id |-> m1],
          [kind |-> "forget", entity |-> e1, id |-> m2],
          [kind |-> "forgetAll", entity |-> e1],
          Pruning(Ids, TRUE, FALSE, {}, FALSE),
          Pruning({m1, m4}, FALSE, TRUE, {}, FALSE),
          Pruning(Ids, FALSE, FALSE, {m2}, FALSE),
          Pruning(Ids, TRUE, FALSE, {}, TRUE)}

Symmetry == Permutations(Calls)
=============================================================================
