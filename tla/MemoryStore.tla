----------------------------- MODULE MemoryStore -----------------------------
(***************************************************************************)
(* What a store promises the client (src/memory/store.ts): a set of        *)
(* memories, each operation on it one atomic step.  A memory's content,    *)
(* embedding and metadata never change after it is written and are left    *)
(* out; what operations do change is kept: whether it is stored, which     *)
(* memory superseded it, its tags, how often it was accessed, and how many *)
(* memory.superseded audit events name it.                                 *)
(*                                                                         *)
(* DeleteMemories is stated twice.  The interface asks for the strict form *)
(* (nothing may still point at a deleted memory, selected or not); the     *)
(* relaxed form only asks that no pointer is left dangling, and is what    *)
(* the Postgres statements provide under concurrency.                      *)
(***************************************************************************)
EXTENDS Naturals

CONSTANTS
  Ids,           \* memory ids
  Entities,      \* entity ids
  EntityOf,      \* the entity each memory is about
  Tags,          \* tags
  TagsOf,        \* the tags each memory is stored with
  Stored,        \* the memories in the store at the start
  AuditEnabled,  \* the client's audit.enabled option
  NoMemory       \* the null of supersededBy

ConstantsOK ==
  /\ EntityOf \in [Ids -> Entities]
  /\ TagsOf \in [Ids -> SUBSET Tags]
  /\ Stored \subseteq Ids
  /\ AuditEnabled \in BOOLEAN
  /\ NoMemory \notin Ids

ASSUME MemoryAssumption == ConstantsOK

VARIABLES
  memories,  \* the rows of mnemocyte_memories
  events     \* the number of memory.superseded events that name each memory

vars == <<memories, events>>

(* A memory id is minted once: it is unborn, then stored, then deleted.    *)
Memory == [state : {"unborn", "stored", "deleted"},
           supersededBy : Ids \union {NoMemory},
           tags : SUBSET Tags,
           accessCount : Nat]

TypeOK ==
  /\ memories \in [Ids -> Memory]
  /\ events \in [Ids -> Nat]

IsStored(i) == memories[i].state = "stored"
IsActive(i) == IsStored(i) /\ memories[i].supersededBy = NoMemory

(* The memories whose supersededBy points into D.                          *)
Dependents(D) == {r \in Ids : IsStored(r) /\ memories[r].supersededBy \in D}

Init ==
  /\ memories = [i \in Ids |->
                   [state |-> IF i \in Stored THEN "stored" ELSE "unborn",
                    supersededBy |-> NoMemory,
                    tags |-> TagsOf[i],
                    accessCount |-> 0]]
  /\ events = [i \in Ids |-> 0]

InsertMemories(I) ==
  /\ \A i \in I : memories[i].state = "unborn"
  /\ memories' = [i \in Ids |-> IF i \in I
                                THEN [memories[i] EXCEPT !.state = "stored"]
                                ELSE memories[i]]
  /\ UNCHANGED events

MarkMemoriesAccessed(I) ==
  /\ \A i \in I : IsStored(i)
  /\ memories' = [i \in Ids |-> IF i \in I
                                THEN [memories[i] EXCEPT !.accessCount = @ + 1]
                                ELSE memories[i]]
  /\ UNCHANGED events

DeleteMemories(D) ==
  /\ \A i \in D : IsStored(i)
  /\ Dependents(D) \subseteq D
  /\ memories' = [i \in Ids |-> IF i \in D
                                THEN [memories[i] EXCEPT !.state = "deleted"]
                                ELSE memories[i]]
  /\ UNCHANGED events

StrictDeleteMemories(D) == Dependents(D) = {} /\ DeleteMemories(D)

(* s is the survivor and L the losers that the call newly supersedes.      *)
Consolidate(s, L, mergeTags) ==
  /\ IsActive(s)
  /\ \A l \in L : l # s /\ IsActive(l) /\ EntityOf[l] = EntityOf[s]
  /\ memories' = [i \in Ids |->
       IF i \in L THEN [memories[i] EXCEPT !.supersededBy = s]
       ELSE IF i = s /\ mergeTags
            THEN [memories[i] EXCEPT
                    !.tags = @ \union UNION {memories[l].tags : l \in L}]
            ELSE memories[i]]
  /\ events' = [i \in Ids |-> IF AuditEnabled /\ i \in L
                              THEN events[i] + 1 ELSE events[i]]

Next ==
  \/ \E I \in SUBSET Ids : \/ InsertMemories(I)
                           \/ MarkMemoriesAccessed(I)
                           \/ DeleteMemories(I)
  \/ \E s \in Ids, L \in SUBSET Ids, m \in BOOLEAN : Consolidate(s, L, m)

StrictNext ==
  \/ \E I \in SUBSET Ids : \/ InsertMemories(I)
                           \/ MarkMemoriesAccessed(I)
                           \/ StrictDeleteMemories(I)
  \/ \E s \in Ids, L \in SUBSET Ids, m \in BOOLEAN : Consolidate(s, L, m)

Spec == Init /\ [][Next]_vars
StrictSpec == Init /\ [][StrictNext]_vars
=============================================================================
