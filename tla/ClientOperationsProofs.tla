----------------------- MODULE ClientOperationsProofs -----------------------
(***************************************************************************)
(* Theorems about ClientOperations for any set of calls, any requests and  *)
(* any finite set of memories.                                             *)
(*                                                                         *)
(* ClientInv is inductive.  A memory only ages: it is born, superseded     *)
(* once at most, and deleted for good (Ages).  So what a consolidate call  *)
(* has seen of its losers before it asks for the mutation (LosersKnown)    *)
(* is not undone by other calls, and what the store reported to a call as  *)
(* inserted or deleted (ResultsAreTheirs) was reported to no other, which  *)
(* is why the audit events of different calls never count a memory twice.  *)
(***************************************************************************)
EXTENDS ClientOperations, FiniteSetTheorems, TLAPS

RemovingKinds == {"forget", "forgetAll", "prune"}
Creates(c) == request[c].kind = "remember"
Removes(c) == request[c].kind \in RemovingKinds
Tallies(c) == request[c].kind \in {"forgetAll", "prune"}
SameEffect(c, d) == (Creates(c) /\ Creates(d)) \/ (Removes(c) /\ Removes(d))

RequestMatchesStep ==
  \A c \in Calls :
    /\ step[c] # "idle" => request[c] \in Requests
    /\ step[c] \in {"embed", "insert"} => Creates(c)
    /\ step[c] = "delete" => Removes(c)
    /\ step[c] = "audit" => Creates(c) \/ Removes(c)
    /\ step[c] \in {"preflight", "targets", "mutate"} =>
         request[c].kind = "consolidate"

ResultIsLate ==
  \A c \in Calls : /\ step[c] \notin {"audit", "done"} => result[c] = {}
                   /\ step[c] # "done" => outcome[c] = "none"

(* Losers in the entity that a call asks for, stored or deleted by now.    *)
LosersOfEntity(c) ==
  \A l \in request[c].supersededIds :
    EntityOf[l] = request[c].entity /\ memories[l].state # "unborn"

LosersKnown == \A c \in Calls : step[c] = "mutate" => LosersOfEntity(c)

Delivered ==
  \A c \in Calls :
    request[c].kind = "consolidate" /\ outcome[c] = "ok" =>
      /\ LosersOfEntity(c)
      /\ \A l \in request[c].supersededIds :
           IsStored(l) => memories[l].supersededBy = request[c].survivorId

ResultsAreTheirs ==
  /\ \A c \in Calls : \A i \in result[c] :
       /\ Creates(c) => memories[i].state # "unborn"
       /\ Removes(c) => memories[i].state = "deleted"
  /\ \A c, d \in Calls : c # d /\ SameEffect(c, d) =>
                          result[c] \intersect result[d] = {}

(* The events that name a memory, and those that are still to be written.  *)
EventsNameOnce ==
  /\ \A i \in Ids :
       /\ created[i] <= (IF memories[i].state = "unborn" THEN 0 ELSE 1)
       /\ removed[i] <= (IF memories[i].state = "deleted" THEN 1 ELSE 0)
  /\ \A c \in Calls : \A i \in result[c] :
       /\ Creates(c) /\ step[c] = "audit" => created[i] = 0
       /\ Removes(c) /\ (step[c] = "audit" \/ Tallies(c)) => removed[i] = 0

(* The memories that the finished prune and forgetAll calls deleted.       *)
Tallied(e) ==
  {i \in Ids : /\ EntityOf[i] = e
               /\ \E c \in Calls : /\ Tallies(c) /\ step[c] = "done"
                                   /\ i \in result[c]}
CountsAreTallied == \A e \in Entities : counted[e] <= Cardinality(Tallied(e))

Claims == ResultsAreTheirs /\ EventsNameOnce /\ CountsAreTallied

ClientInv ==
  /\ ClientTypeOK
  /\ RequestMatchesStep
  /\ ResultIsLate
  /\ LosersKnown
  /\ Delivered
  /\ Claims

-----------------------------------------------------------------------------
(* Lemmas about the store, the requests and the operators.                 *)

(* What no step of a store undoes.                                         *)
Ages ==
  \A i \in Ids :
    /\ memories[i].state # "unborn" => memories'[i].state # "unborn"
    /\ memories[i].state = "deleted" => memories'[i].state = "deleted"
    /\ memories[i].state # "unborn" /\ memories'[i].state = "stored" =>
         memories[i].state = "stored"
    /\ memories[i].supersededBy # NoMemory =>
         memories'[i].supersededBy = memories[i].supersededBy

LEMMA StoreAges ==
  ASSUME TypeOK, [Next]_vars PROVE TypeOK' /\ Ages
<1> USE DEF TypeOK, Memory
<1>1. ASSUME NEW I \in SUBSET Ids, InsertMemories(I)
      PROVE  TypeOK' /\ Ages
  BY <1>1 DEF InsertMemories, Ages
<1>2. ASSUME NEW I \in SUBSET Ids, MarkMemoriesAccessed(I)
      PROVE  TypeOK' /\ Ages
  BY <1>2 DEF MarkMemoriesAccessed, Ages, IsStored
<1>3. ASSUME NEW I \in SUBSET Ids, DeleteMemories(I)
      PROVE  TypeOK' /\ Ages
  BY <1>3 DEF DeleteMemories, Ages, IsStored
<1>4. ASSUME NEW s \in Ids, NEW L \in SUBSET Ids, NEW m \in BOOLEAN,
             Consolidate(s, L, m)
      PROVE  TypeOK' /\ Ages
  <2>1. UNION {memories[l].tags : l \in L} \subseteq Tags
    OBVIOUS
  <2> DEFINE merged == UNION {memories[l].tags : l \in L}
  <2>2. /\ memories' = [i \in Ids |->
              IF i \in L THEN [memories[i] EXCEPT !.supersededBy = s]
              ELSE IF i = s /\ m
                   THEN [memories[i] EXCEPT !.tags = @ \union merged]
                   ELSE memories[i]]
        /\ events' = [i \in Ids |-> IF AuditEnabled /\ i \in L
                                    THEN events[i] + 1 ELSE events[i]]
        /\ \A l \in L : memories[l].supersededBy = NoMemory
    BY <1>4 DEF Consolidate, IsActive
  <2> HIDE DEF merged
  <2>3. merged \subseteq Tags
    BY <2>1 DEF merged
  <2>4. TypeOK'
    BY <2>2, <2>3
  <2>5. Ages
    BY <2>2, <2>3 DEF Ages
  <2>6. QED BY <2>4, <2>5
<1>5. CASE UNCHANGED vars
  BY <1>5 DEF vars, Ages
<1>6. QED BY <1>1, <1>2, <1>3, <1>4, <1>5 DEF Next

LEMMA RequestKinds ==
  ASSUME NEW r \in Requests
  PROVE  /\ r.kind \in {"remember", "consolidate"} \union RemovingKinds
         /\ r.kind = "consolidate" =>
              /\ r \in ConsolidateRequest
              /\ r.survivorId \notin r.supersededIds
         /\ FirstStep[r.kind] \in {"embed", "delete", "preflight"}
         /\ FirstStep[r.kind] = "embed" => r.kind = "remember"
         /\ FirstStep[r.kind] = "delete" => r.kind \in RemovingKinds
         /\ FirstStep[r.kind] = "preflight" => r.kind = "consolidate"
<1>1. r \in Remember \union Forget \union ForgetAll \union Prune
           \union ConsolidateRequest
  BY RequestAssumption
<1>2. /\ r.kind \in {"remember", "consolidate"} \union RemovingKinds
      /\ r.kind = "consolidate" => r \in ConsolidateRequest
  BY <1>1 DEF Remember, Forget, ForgetAll, Prune, ConsolidateRequest,
              RemovingKinds
<1>3. r.kind = "consolidate" => r.survivorId \notin r.supersededIds
  BY RequestAssumption
<1>4. /\ FirstStep["remember"] = "embed" /\ FirstStep["forget"] = "delete"
      /\ FirstStep["forgetAll"] = "delete" /\ FirstStep["prune"] = "delete"
      /\ FirstStep["consolidate"] = "preflight"
  BY DEF FirstStep
<1>5. QED BY <1>2, <1>3, <1>4 DEF RemovingKinds

-----------------------------------------------------------------------------
(* Every step of a call is a step of the store, or leaves it alone.        *)

LEMMA InsertIsInsert ==
  ASSUME NEW c \in Calls, InsertStep(c)
  PROVE  \E I \in SUBSET Ids :
           /\ InsertMemories(I)
           /\ Audit(c, "insert", I) \/ Report(c, "insert", "FAILED")
<1>1. PICK I \in kSubset(request[c].count,
                        {i \in Ids : memories[i].state = "unborn"}) :
        /\ InsertMemories(I)
        /\ Audit(c, "insert", I) \/ Report(c, "insert", "FAILED")
  BY DEF InsertStep
<1>2. I \in SUBSET Ids
  BY DEF kSubset
<1>3. QED BY <1>1, <1>2

LEMMA ConsolidateRequestOf ==
  ASSUME RequestMatchesStep, NEW c \in Calls,
         step[c] \in {"preflight", "targets", "mutate"}
  PROVE  /\ request[c] \in ConsolidateRequest
         /\ request[c].survivorId \in Ids
         /\ request[c].supersededIds \subseteq Ids
         /\ request[c].mergeTags \in BOOLEAN
         /\ request[c].survivorId \notin request[c].supersededIds
<1>1. request[c] \in Requests /\ request[c].kind = "consolidate"
  BY DEF RequestMatchesStep
<1>2. /\ request[c] \in ConsolidateRequest
      /\ request[c].survivorId \notin request[c].supersededIds
  BY <1>1, RequestKinds
<1>3. QED BY <1>2 DEF ConsolidateRequest

LEMMA SupersedeIsConsolidate ==
  ASSUME NEW s \in Ids, NEW L \in SUBSET Ids, NEW m \in BOOLEAN, TypeOK,
         IsActive(s), Supersede(s, L, m),
         \A l \in L : l # s /\ IsActive(l) /\ EntityOf[l] = EntityOf[s]
  PROVE  Consolidate(s, L, m)
<1> DEFINE merged == UNION {memories[l].tags : l \in L}
<1>1. [memories[s] EXCEPT !.tags = MergedTags(s, L)]
        = [memories[s] EXCEPT !.tags = @ \union merged]
  BY DEF MergedTags, TypeOK, Memory
<1>2. memories' = [i \in Ids |->
        IF i \in L THEN [memories[i] EXCEPT !.supersededBy = s]
        ELSE IF i = s /\ m
             THEN [memories[i] EXCEPT !.tags = @ \union merged]
             ELSE memories[i]]
  <2>1. ASSUME NEW i \in Ids
        PROVE  (IF i = s /\ m
                THEN [memories[i] EXCEPT !.tags = MergedTags(s, L)]
                ELSE memories[i])
               = (IF i = s /\ m
                  THEN [memories[i] EXCEPT !.tags = @ \union merged]
                  ELSE memories[i])
    BY <1>1
  <2> HIDE DEF merged
  <2>2. QED BY <2>1 DEF Supersede
<1>3. QED BY <1>2 DEF Supersede, Consolidate

LEMMA MutateIsConsolidate ==
  ASSUME TypeOK, RequestMatchesStep, NEW c \in Calls, Mutate(c)
  PROVE  UNCHANGED vars \/ Consolidate(request[c].survivorId, NewLosers(c),
                                      request[c].mergeTags)
<1> DEFINE s == request[c].survivorId
           L == NewLosers(c)
<1>1. step[c] = "mutate"
  BY DEF Mutate
<1>2. CASE ~MutationConflict(c) /\ Supersede(s, L, request[c].mergeTags)
  <2>1. InEntity(s, c) /\ memories[s].supersededBy = NoMemory
    BY <1>2 DEF MutationConflict
  <2>2. \A l \in L : /\ l \in request[c].supersededIds /\ InEntity(l, c)
                    /\ memories[l].supersededBy = NoMemory
    BY DEF NewLosers, Present
  <2>3. /\ s \in Ids /\ L \subseteq Ids /\ request[c].mergeTags \in BOOLEAN
        /\ s \notin request[c].supersededIds
    BY <1>1, <2>2, ConsolidateRequestOf
  <2>4. IsActive(s)
    BY <2>1 DEF InEntity, IsActive
  <2>5. \A l \in L : l # s /\ IsActive(l) /\ EntityOf[l] = EntityOf[s]
    BY <2>1, <2>2, <2>3 DEF InEntity, IsActive
  <2> HIDE DEF s, L
  <2>6. Consolidate(s, L, request[c].mergeTags)
    BY <1>2, <2>3, <2>4, <2>5, SupersedeIsConsolidate
  <2>7. QED BY <2>6 DEF s, L
<1>3. QED BY <1>2 DEF Mutate

LEMMA SelectionsAreIds ==
  \A c \in Calls : \A D \in Selections(request[c]) : D \in SUBSET Ids
BY DEF Selections, Targets

LEMMA StoreStep ==
  ASSUME TypeOK, RequestMatchesStep, [ClientNext]_allVars
  PROVE  [Next]_vars
<1>1. ASSUME NEW c \in Calls, InsertStep(c) PROVE Next
  BY <1>1, InsertIsInsert DEF Next
<1>2. ASSUME NEW c \in Calls, DeleteStep(c) PROVE Next
  <2>1. PICK D \in Selections(request[c]) : DeleteMemories(D)
    BY <1>2 DEF DeleteStep
  <2>2. QED BY <2>1, SelectionsAreIds DEF Next
<1>3. ASSUME NEW c \in Calls, Mutate(c) PROVE [Next]_vars
  <2>1. step[c] = "mutate" /\ NewLosers(c) \subseteq request[c].supersededIds
    BY <1>3 DEF Mutate, NewLosers, Present
  <2>2. /\ request[c].survivorId \in Ids /\ NewLosers(c) \in SUBSET Ids
        /\ request[c].mergeTags \in BOOLEAN
    BY <2>1, ConsolidateRequestOf
  <2>3. QED BY <1>3, <2>2, MutateIsConsolidate DEF Next
<1>4. ASSUME NEW c \in Calls, NEW r \in Requests, Begin(c, r)
      PROVE  UNCHANGED vars
  BY <1>4 DEF Begin
<1>5. ASSUME NEW c \in Calls,
             \/ Fail(c) \/ Embed(c) \/ DeleteConflict(c) \/ DryRun(c)
             \/ Preflight(c) \/ LoadTargets(c) \/ WriteAudit(c)
      PROVE  UNCHANGED vars
  BY <1>5 DEF Fail, Embed, DeleteConflict, DryRun, Preflight, LoadTargets,
              WriteAudit
<1>6. CASE UNCHANGED allVars
  BY <1>6 DEF allVars, vars
<1>7. QED
  BY <1>1, <1>2, <1>3, <1>4, <1>5, <1>6 DEF ClientNext, Quiet

-----------------------------------------------------------------------------
(* What a call knows or owes survives the steps of other calls.            *)

DeliveredTo(c) ==
  /\ LosersOfEntity(c)
  /\ \A l \in request[c].supersededIds :
       IsStored(l) => memories[l].supersededBy = request[c].survivorId

LEMMA LosersStay ==
  ASSUME ClientTypeOK, Ages, NEW c \in Calls, UNCHANGED request,
         request[c].kind = "consolidate"
  PROVE  /\ LosersOfEntity(c) => LosersOfEntity(c)'
         /\ DeliveredTo(c) => DeliveredTo(c)'
<1>1. request[c] \in ConsolidateRequest
  <2>1. request[c] \in Requests
    BY DEF ClientTypeOK, NoRequest
  <2>2. QED BY <2>1, RequestKinds
<1>2. /\ request[c].supersededIds \subseteq Ids
      /\ request[c].survivorId # NoMemory
  BY <1>1, MemoryAssumption DEF ConsolidateRequest, ConstantsOK
<1>3. LosersOfEntity(c) => LosersOfEntity(c)'
  BY <1>2 DEF LosersOfEntity, Ages
<1>4. ASSUME DeliveredTo(c), NEW l \in request[c].supersededIds,
             memories'[l].state = "stored"
      PROVE  memories'[l].supersededBy = request[c].survivorId
  <2>1. memories[l].state = "stored"
    BY <1>2, <1>4 DEF DeliveredTo, LosersOfEntity, Ages
  <2>2. memories[l].supersededBy = request[c].survivorId
    BY <1>4, <2>1 DEF DeliveredTo, IsStored
  <2>3. QED BY <1>2, <2>2 DEF Ages
<1>5. QED BY <1>3, <1>4 DEF DeliveredTo, IsStored

LEMMA KnownStays ==
  ASSUME ClientInv, Ages, NEW c \in Calls, UNCHANGED request,
         \A d \in Calls \ {c} : step'[d] = step[d] /\ outcome'[d] = outcome[d],
         step'[c] = "mutate" =>
           request[c].kind = "consolidate" /\ LosersOfEntity(c),
         request[c].kind = "consolidate" /\ outcome'[c] = "ok"
           => DeliveredTo(c)'
  PROVE  LosersKnown' /\ Delivered'
<1>1. ASSUME NEW d \in Calls, step'[d] = "mutate" PROVE LosersOfEntity(d)'
  <2>1. LosersOfEntity(d) /\ request[d].kind = "consolidate"
    BY <1>1 DEF ClientInv, LosersKnown, RequestMatchesStep
  <2>2. QED BY <2>1, LosersStay DEF ClientInv
<1>2. ASSUME NEW d \in Calls, request[d].kind = "consolidate",
             outcome'[d] = "ok"
      PROVE  DeliveredTo(d)'
  <2>1. CASE d = c
    BY <1>2, <2>1
  <2>2. CASE d # c
    <3>1. DeliveredTo(d)
      BY <1>2, <2>2 DEF ClientInv, Delivered, DeliveredTo
    <3>2. QED BY <1>2, <3>1, LosersStay DEF ClientInv
  <2>3. QED BY <2>1, <2>2
<1>3. QED BY <1>1, <1>2 DEF LosersKnown, Delivered, DeliveredTo

(* Claims survive a step after which c has no claim that it had not.       *)
LEMMA ClaimsStay ==
  ASSUME ClientInv, Ages, TypeOK', UNCHANGED <<logVars, result>>,
         NEW c \in Calls, result[c] = {},
         \A d \in Calls \ {c} : request'[d] = request[d] /\ step'[d] = step[d]
  PROVE  Claims'
<1> USE DEF ClientInv, Claims
<1>1. UNCHANGED <<created, removed, counted, result>>
  BY DEF logVars
<1>2. \A d \in Calls : result[d] \subseteq Ids
  BY DEF ClientTypeOK
<1>3. ASSUME NEW d \in Calls, NEW i \in result'[d]
      PROVE  /\ d # c /\ i \in Ids /\ i \in result[d]
             /\ Creates(d)' = Creates(d) /\ Removes(d)' = Removes(d)
             /\ Tallies(d)' = Tallies(d) /\ step'[d] = step[d]
  BY <1>1, <1>2, <1>3 DEF Creates, Removes, Tallies
<1>4. ResultsAreTheirs'
  <2>1. ASSUME NEW d \in Calls, NEW i \in result'[d]
        PROVE  /\ Creates(d)' => memories'[i].state # "unborn"
               /\ Removes(d)' => memories'[i].state = "deleted"
    BY <1>3, <2>1 DEF ResultsAreTheirs, Ages
  <2>2. ASSUME NEW b \in Calls, NEW d \in Calls, b # d, SameEffect(b, d)'
        PROVE  result'[b] \intersect result'[d] = {}
    <3>1. CASE b = c \/ d = c
      BY <1>1, <3>1
    <3>2. CASE b # c /\ d # c
      <4>1. SameEffect(b, d)
        BY <2>2, <3>2 DEF SameEffect, Creates, Removes
      <4>2. QED BY <1>1, <2>2, <4>1 DEF ResultsAreTheirs
    <3>3. QED BY <3>1, <3>2
  <2>3. QED BY <2>1, <2>2 DEF ResultsAreTheirs
<1>5. EventsNameOnce'
  <2>1. ASSUME NEW i \in Ids
        PROVE  /\ created'[i] <= (IF memories'[i].state = "unborn" THEN 0 ELSE 1)
               /\ removed'[i] <= (IF memories'[i].state = "deleted" THEN 1 ELSE 0)
    BY <1>1 DEF EventsNameOnce, Ages, ClientTypeOK
  <2>2. ASSUME NEW d \in Calls, NEW i \in result'[d]
        PROVE  /\ Creates(d)' /\ step'[d] = "audit" => created'[i] = 0
               /\ Removes(d)' /\ (step'[d] = "audit" \/ Tallies(d)') =>
                    removed'[i] = 0
    BY <1>1, <1>3, <2>2 DEF EventsNameOnce
  <2>3. QED BY <2>1, <2>2 DEF EventsNameOnce
<1>6. CountsAreTallied'
  <2>1. ASSUME NEW e \in Entities PROVE Tallied(e)' = Tallied(e)
    <3>1. Tallied(e)' \subseteq Tallied(e)
      BY <1>1, <1>3 DEF Tallied
    <3>2. Tallied(e) \subseteq Tallied(e)'
      <4>1. ASSUME NEW d \in Calls, NEW i \in result[d]
            PROVE  /\ i \in result'[d] /\ Tallies(d)' = Tallies(d)
                   /\ step'[d] = step[d]
        BY <1>1, <1>3, <4>1
      <4>2. QED BY <4>1 DEF Tallied
    <3>3. QED BY <3>1, <3>2
  <2>2. QED BY <1>1, <2>1 DEF CountsAreTallied
<1>7. QED BY <1>4, <1>5, <1>6

-----------------------------------------------------------------------------
(* The steps of a call by their shape: it begins, goes on or ends, owes an *)
(* audit event, or writes it.                                              *)

LEMMA BeginInv ==
  ASSUME ClientInv, NEW c \in Calls, NEW r \in Requests, Begin(c, r)
  PROVE  ClientInv'
<1> USE DEF ClientInv
<1>1. /\ step[c] = "idle"
      /\ request' = [request EXCEPT ![c] = r]
      /\ step' = [step EXCEPT ![c] = FirstStep[r.kind]]
      /\ UNCHANGED <<result, outcome, memories, events>>
      /\ UNCHANGED logVars
  BY DEF Begin, vars
<1>2. /\ FirstStep[r.kind] \in {"embed", "delete", "preflight"}
      /\ FirstStep[r.kind] = "embed" => r.kind = "remember"
      /\ FirstStep[r.kind] = "delete" => r.kind \in RemovingKinds
      /\ FirstStep[r.kind] = "preflight" => r.kind = "consolidate"
  BY RequestKinds
<1>3. ClientTypeOK'
  <2>1. TypeOK'
    BY <1>1 DEF ClientTypeOK, TypeOK
  <2>2. QED BY <1>1, <1>2, <2>1 DEF ClientTypeOK, Steps, logVars
<1>4. RequestMatchesStep' /\ ResultIsLate'
  BY <1>1, <1>2
     DEF ClientTypeOK, RequestMatchesStep, Creates, Removes, ResultIsLate
<1>5. Ages
  BY <1>1 DEF Ages
<1>6. LosersKnown'
  BY <1>1, <1>2 DEF ClientTypeOK, LosersKnown, LosersOfEntity
<1>7. Delivered'
  <2>1. outcome[c] # "ok"
    BY <1>1 DEF ResultIsLate
  <2>2. QED
    BY <1>1, <2>1 DEF ClientTypeOK, Delivered, LosersOfEntity, IsStored
<1>8. Claims'
  <2>1. result[c] = {}
    BY <1>1 DEF ResultIsLate
  <2>2. \A d \in Calls \ {c} : request'[d] = request[d] /\ step'[d] = step[d]
    BY <1>1 DEF ClientTypeOK
  <2>3. QED BY <1>1, <1>3, <1>5, <2>1, <2>2, ClaimsStay DEF ClientTypeOK
<1>9. QED BY <1>3, <1>4, <1>6, <1>7, <1>8

(* The call goes on to t, or ends and reports o.                           *)
LEMMA MoveInv ==
  ASSUME ClientInv, Ages, TypeOK', NEW c \in Calls,
         NEW t \in Steps \ {"idle", "audit"}, NEW o \in Outcomes,
         step[c] \notin {"idle", "audit", "done"},
         UNCHANGED <<request, result, logVars>>,
         step' = [step EXCEPT ![c] = t], outcome' = [outcome EXCEPT ![c] = o],
         t # "done" => o = "none",
         t \in {"embed", "insert"} => Creates(c),
         t = "delete" => Removes(c),
         t \in {"preflight", "targets", "mutate"} =>
           request[c].kind = "consolidate",
         t = "mutate" => LosersOfEntity(c),
         request[c].kind = "consolidate" /\ o = "ok" => DeliveredTo(c)'
  PROVE  ClientInv'
<1> USE DEF ClientInv
<1>1. UNCHANGED <<created, removed, counted>>
  BY DEF logVars
<1>2. ClientTypeOK'
  BY <1>1 DEF ClientTypeOK
<1>3. RequestMatchesStep' /\ ResultIsLate'
  BY DEF ClientTypeOK, RequestMatchesStep, Creates, Removes, ResultIsLate
<1>4. /\ step'[c] = t /\ outcome'[c] = o
      /\ \A d \in Calls \ {c} : step'[d] = step[d] /\ outcome'[d] = outcome[d]
  BY DEF ClientTypeOK
<1>5. LosersKnown' /\ Delivered'
  BY <1>4, KnownStays
<1>6. Claims'
  <2>1. result[c] = {}
    BY DEF ResultIsLate
  <2>2. QED BY <1>4, <2>1, ClaimsStay
<1>7. QED BY <1>2, <1>3, <1>5, <1>6

(* The store inserted, or deleted, R and the call will record it.          *)
LEMMA AuditInv ==
  ASSUME ClientInv, Ages, TypeOK', NEW c \in Calls, NEW R \in SUBSET Ids,
         NEW from \in {"insert", "delete"}, Audit(c, from, R),
         UNCHANGED logVars,
         from = "insert" => \A i \in R : /\ memories[i].state = "unborn"
                                        /\ memories'[i].state = "stored",
         from = "delete" => \A i \in R : /\ memories[i].state = "stored"
                                        /\ memories'[i].state = "deleted"
  PROVE  ClientInv'
<1> USE DEF ClientInv
<1>1. /\ step[c] = from
      /\ step' = [step EXCEPT ![c] = "audit"]
      /\ result' = [result EXCEPT ![c] = R]
      /\ UNCHANGED <<request, outcome, created, removed, counted>>
  BY DEF Audit, logVars
<1>2. ClientTypeOK'
  BY <1>1 DEF ClientTypeOK, Steps
<1>3. RequestMatchesStep' /\ ResultIsLate'
  BY <1>1 DEF ClientTypeOK, RequestMatchesStep, Creates, Removes, ResultIsLate
<1>4. outcome[c] = "none" /\ step'[c] = "audit"
  BY <1>1 DEF ClientTypeOK, ResultIsLate
<1>5. LosersKnown' /\ Delivered'
  <2>1. \A d \in Calls \ {c} : step'[d] = step[d] /\ outcome'[d] = outcome[d]
    BY <1>1 DEF ClientTypeOK
  <2>2. QED BY <1>1, <1>4, <2>1, KnownStays
<1>6. \/ Creates(c) /\ ~Removes(c) /\ from = "insert"
      \/ Removes(c) /\ ~Creates(c) /\ from = "delete"
  BY <1>1 DEF RequestMatchesStep, Creates, Removes, RemovingKinds
<1>7. \A d \in Calls : /\ Creates(d)' = Creates(d) /\ Removes(d)' = Removes(d)
                       /\ Tallies(d)' = Tallies(d)
                       /\ d # c => result'[d] = result[d] /\ step'[d] = step[d]
  BY <1>1 DEF ClientTypeOK, Creates, Removes, Tallies
<1>8. result'[c] = R
  BY <1>1 DEF ClientTypeOK
<1>9. \A d \in Calls : result[d] \subseteq Ids
  BY DEF ClientTypeOK
<1>10. ResultsAreTheirs'
  <2>1. ASSUME NEW d \in Calls, NEW i \in result'[d]
        PROVE  /\ Creates(d)' => memories'[i].state # "unborn"
               /\ Removes(d)' => memories'[i].state = "deleted"
    <3>1. CASE d = c
      BY <1>6, <1>7, <1>8, <2>1, <3>1
    <3>2. CASE d # c
      BY <1>7, <1>9, <2>1, <3>2 DEF Claims, ResultsAreTheirs, Ages
    <3>3. QED BY <3>1, <3>2
  <2>2. ASSUME NEW d \in Calls, d # c, SameEffect(c, d)
        PROVE  R \intersect result[d] = {}
    BY <1>6, <2>2 DEF SameEffect, Claims, ResultsAreTheirs
  <2>3. ASSUME NEW b \in Calls, NEW d \in Calls, b # d, SameEffect(b, d)'
        PROVE  result'[b] \intersect result'[d] = {}
    <3>1. SameEffect(b, d) /\ SameEffect(d, b)
      BY <1>7, <2>3 DEF SameEffect
    <3>2. CASE b = c \/ d = c
      BY <1>7, <1>8, <2>2, <2>3, <3>1, <3>2
    <3>3. CASE b # c /\ d # c
      BY <1>7, <2>3, <3>1, <3>3 DEF Claims, ResultsAreTheirs
    <3>4. QED BY <3>2, <3>3
  <2>4. QED BY <2>1, <2>3 DEF ResultsAreTheirs
<1>11. EventsNameOnce'
  <2>1. ASSUME NEW i \in Ids
        PROVE  /\ created'[i] <= (IF memories'[i].state = "unborn" THEN 0 ELSE 1)
               /\ removed'[i] <= (IF memories'[i].state = "deleted" THEN 1 ELSE 0)
    BY <1>1 DEF Claims, EventsNameOnce, Ages, ClientTypeOK
  <2>2. ASSUME NEW i \in R
        PROVE  /\ Creates(c) => created[i] = 0
               /\ Removes(c) => removed[i] = 0
    BY <1>6 DEF Claims, EventsNameOnce, ClientTypeOK
  <2>3. ASSUME NEW d \in Calls, NEW i \in result'[d]
        PROVE  /\ Creates(d)' /\ step'[d] = "audit" => created'[i] = 0
               /\ Removes(d)' /\ (step'[d] = "audit" \/ Tallies(d)') =>
                    removed'[i] = 0
    <3>1. CASE d = c
      BY <1>1, <1>7, <1>8, <2>2, <2>3, <3>1
    <3>2. CASE d # c
      BY <1>1, <1>7, <2>3, <3>2 DEF Claims, EventsNameOnce
    <3>3. QED BY <3>1, <3>2
  <2>4. QED BY <2>1, <2>3 DEF EventsNameOnce
<1>12. CountsAreTallied'
  <2>1. ASSUME NEW e \in Entities PROVE Tallied(e)' = Tallied(e)
    BY <1>1, <1>4, <1>7 DEF Tallied
  <2>2. QED BY <1>1, <2>1 DEF Claims, CountsAreTallied
<1>13. QED BY <1>2, <1>3, <1>5, <1>10, <1>11, <1>12 DEF Claims

(* A finished call adds what it deleted of an entity to what was tallied.  *)
LEMMA TallyGrows ==
  ASSUME ClientInv, NEW c \in Calls, NEW e \in Entities, Tallies(c),
         step[c] = "audit", UNCHANGED <<request, result>>,
         step' = [step EXCEPT ![c] = "done"]
  PROVE  LET own == {i \in result[c] : EntityOf[i] = e} IN
         /\ Tallied(e)' = Tallied(e) \union own
         /\ Cardinality(Tallied(e)') = Cardinality(Tallied(e)) + Cardinality(own)
         /\ Cardinality(own) \in Nat
<1> DEFINE own == {i \in result[c] : EntityOf[i] = e}
<1>1. \A d \in Calls : /\ Tallies(d)' = Tallies(d)
                       /\ step'[d] = IF d = c THEN "done" ELSE step[d]
  BY DEF ClientInv, ClientTypeOK, Tallies
<1>2. result[c] \subseteq Ids
  BY DEF ClientInv, ClientTypeOK
<1>3. Tallied(e)' = Tallied(e) \union own
  BY <1>1, <1>2 DEF Tallied
<1>4. Tallied(e) \intersect own = {}
  <2>1. ASSUME NEW d \in Calls, Tallies(d), step[d] = "done"
        PROVE  result[d] \intersect result[c] = {}
    BY <2>1 DEF ClientInv, Claims, ResultsAreTheirs, SameEffect, Removes,
                Tallies, RemovingKinds
  <2>2. QED BY <2>1 DEF Tallied
<1>5. IsFiniteSet(Tallied(e)) /\ IsFiniteSet(own)
  <2>1. Tallied(e) \subseteq Ids /\ own \subseteq Ids
    BY <1>2 DEF Tallied
  <2>2. QED BY <2>1, RequestAssumption, FS_Subset
<1> HIDE DEF own
<1>6. Cardinality(Tallied(e) \union own)
        = Cardinality(Tallied(e)) + Cardinality(own)
          - Cardinality(Tallied(e) \intersect own)
  BY <1>5, FS_Union
<1>7. /\ Cardinality(Tallied(e) \intersect own) = 0
      /\ Cardinality(Tallied(e)) \in Nat /\ Cardinality(own) \in Nat
  BY <1>4, <1>5, FS_EmptySet, FS_CardinalityType
<1>8. QED BY <1>3, <1>6, <1>7 DEF own

LEMMA WriteAuditInv ==
  ASSUME ClientInv, NEW c \in Calls, WriteAudit(c)
  PROVE  ClientInv'
<1> USE DEF ClientInv
<1> DEFINE OfEntity(e) == {i \in result[c] : EntityOf[i] = e}
<1>1. /\ step[c] = "audit"
      /\ step' = [step EXCEPT ![c] = "done"]
      /\ outcome' = [outcome EXCEPT ![c] = "ok"]
      /\ UNCHANGED <<request, result, memories, events>>
  BY DEF WriteAudit, Report, vars
<1>2. PICK R \in SUBSET result[c] :
        /\ created' = [i \in Ids |-> IF Creates(c) /\ i \in R
                                     THEN created[i] + 1 ELSE created[i]]
        /\ removed' = [i \in Ids |->
             IF request[c].kind = "forget" /\ i \in R
             THEN removed[i] + 1 ELSE removed[i]]
        /\ counted' = [e \in Entities |->
             IF Tallies(c) /\ OfEntity(e) \subseteq R
             THEN counted[e] + Cardinality(OfEntity(e)) ELSE counted[e]]
  BY DEF WriteAudit, Creates, Tallies
<1>3. ASSUME NEW e \in Entities, Tallies(c)
      PROVE  /\ Tallied(e)' = Tallied(e) \union OfEntity(e)
             /\ Cardinality(Tallied(e)')
                  = Cardinality(Tallied(e)) + Cardinality(OfEntity(e))
             /\ Cardinality(OfEntity(e)) \in Nat
  BY <1>1, <1>3, TallyGrows
<1> HIDE DEF OfEntity
<1>4. ClientTypeOK'
  <2>1. TypeOK'
    BY <1>1 DEF ClientTypeOK, TypeOK
  <2>2. counted' \in [Entities -> Nat]
    BY <1>2, <1>3 DEF ClientTypeOK
  <2>3. QED BY <1>1, <1>2, <2>1, <2>2 DEF ClientTypeOK, Steps, Outcomes
<1>5. RequestMatchesStep' /\ ResultIsLate'
  BY <1>1 DEF ClientTypeOK, RequestMatchesStep, Creates, Removes, ResultIsLate
<1>6. request[c].kind # "consolidate"
  BY <1>1 DEF RequestMatchesStep, Creates, Removes, RemovingKinds
<1>7. LosersKnown' /\ Delivered'
  BY <1>1, <1>6
     DEF ClientTypeOK, LosersKnown, Delivered, LosersOfEntity, IsStored
<1>8. \A d \in Calls :
        /\ Creates(d)' = Creates(d) /\ Removes(d)' = Removes(d)
        /\ Tallies(d)' = Tallies(d)
        /\ step'[d] = IF d = c THEN "done" ELSE step[d]
        /\ result[d] \subseteq Ids
  BY <1>1 DEF ClientTypeOK, Creates, Removes, Tallies
<1>9. ResultsAreTheirs'
  BY <1>1 DEF Claims, ResultsAreTheirs, SameEffect, Creates, Removes
<1>10. \A d \in Calls \ {c} : SameEffect(c, d) => R \intersect result[d] = {}
  BY DEF Claims, ResultsAreTheirs
<1>11. EventsNameOnce'
  <2>1. ASSUME NEW i \in R
        PROVE  /\ Creates(c) => created[i] = 0 /\ memories[i].state # "unborn"
               /\ Removes(c) => removed[i] = 0 /\ memories[i].state = "deleted"
    BY <1>1 DEF Claims, EventsNameOnce, ResultsAreTheirs
  <2>2. request[c].kind = "forget" => Removes(c) /\ ~Tallies(c)
    BY DEF Removes, RemovingKinds, Tallies
  <2>3. ASSUME NEW i \in Ids
        PROVE  /\ created'[i] <= (IF memories'[i].state = "unborn" THEN 0 ELSE 1)
               /\ removed'[i] <= (IF memories'[i].state = "deleted" THEN 1 ELSE 0)
    BY <1>1, <1>2, <2>1, <2>2 DEF Claims, EventsNameOnce, ClientTypeOK
  <2>4. ASSUME NEW d \in Calls, NEW i \in result[d]
        PROVE  /\ Creates(d)' /\ step'[d] = "audit" => created'[i] = 0
               /\ Removes(d)' /\ (step'[d] = "audit" \/ Tallies(d)') =>
                    removed'[i] = 0
    <3>1. CASE d = c
      BY <1>2, <1>8, <2>2, <3>1 DEF Claims, EventsNameOnce
    <3>2. CASE d # c
      <4>1. /\ Creates(c) /\ Creates(d) => i \notin R
            /\ Removes(c) /\ Removes(d) => i \notin R
        BY <1>10, <3>2 DEF SameEffect
      <4>2. QED
        BY <1>2, <1>8, <2>2, <3>2, <4>1 DEF Claims, EventsNameOnce
    <3>3. QED BY <3>1, <3>2
  <2>5. QED BY <1>1, <2>3, <2>4 DEF EventsNameOnce
<1>12. CountsAreTallied'
  <2>1. ASSUME NEW e \in Entities
        PROVE  counted'[e] <= Cardinality(Tallied(e)')
    <3>1. counted[e] <= Cardinality(Tallied(e)) /\ counted[e] \in Nat
      BY DEF Claims, CountsAreTallied, ClientTypeOK
    <3>2. Cardinality(Tallied(e)) \in Nat
      <4>1. Tallied(e) \subseteq Ids
        BY DEF Tallied
      <4>2. QED BY <4>1, RequestAssumption, FS_Subset, FS_CardinalityType
    <3>3. CASE Tallies(c)
      BY <1>2, <1>3, <3>1, <3>2, <3>3
    <3>4. CASE ~Tallies(c)
      <4>1. Tallied(e)' = Tallied(e)
        BY <1>1, <1>8, <3>4 DEF Tallied
      <4>2. QED BY <1>2, <3>1, <3>4, <4>1
    <3>5. QED BY <3>3, <3>4
  <2>2. QED BY <2>1 DEF CountsAreTallied
<1>13. QED BY <1>4, <1>5, <1>7, <1>9, <1>11, <1>12 DEF Claims

-----------------------------------------------------------------------------
(* The invariant is inductive.                                             *)

LEMMA InitInv == ClientInit => ClientInv
<1> SUFFICES ASSUME ClientInit PROVE ClientInv
  OBVIOUS
<1>1. TypeOK
  BY MemoryAssumption DEF ClientInit, Init, TypeOK, Memory, ConstantsOK
<1>2. ClientTypeOK
  BY <1>1 DEF ClientInit, ClientTypeOK, Steps, Outcomes
<1>3. RequestMatchesStep /\ ResultIsLate /\ LosersKnown /\ Delivered
  BY DEF ClientInit, RequestMatchesStep, ResultIsLate, LosersKnown, Delivered
<1>4. \A c \in Calls : result[c] = {}
  BY DEF ClientInit
<1>5. ResultsAreTheirs /\ EventsNameOnce
  BY <1>4 DEF ClientInit, ResultsAreTheirs, EventsNameOnce
<1>6. CountsAreTallied
  <2>1. ASSUME NEW e \in Entities PROVE counted[e] <= Cardinality(Tallied(e))
    <3>1. Tallied(e) = {}
      BY <1>4 DEF Tallied
    <3>2. Cardinality({}) = 0
      BY FS_EmptySet
    <3>3. QED BY <3>1, <3>2 DEF ClientInit
  <2>2. QED BY <2>1 DEF CountsAreTallied
<1>7. QED BY <1>2, <1>3, <1>5, <1>6 DEF ClientInv, Claims

(* A report or a move of a call that is not idle, owing nor done.          *)
LEMMA ReportInv ==
  ASSUME ClientInv, Ages, TypeOK', NEW c \in Calls, UNCHANGED logVars,
         NEW from \in Steps \ {"idle", "audit", "done"}, NEW o \in Outcomes,
         Report(c, from, o),
         request[c].kind = "consolidate" /\ o = "ok" => DeliveredTo(c)'
  PROVE  ClientInv'
<1>1. /\ step[c] \notin {"idle", "audit", "done"}
      /\ step' = [step EXCEPT ![c] = "done"]
      /\ outcome' = [outcome EXCEPT ![c] = o]
      /\ UNCHANGED <<request, result>>
  BY DEF Report
<1>2. "done" \in Steps \ {"idle", "audit"}
  BY DEF Steps
<1>3. QED BY <1>1, <1>2, MoveInv

LEMMA GoToInv ==
  ASSUME ClientInv, Ages, TypeOK', NEW c \in Calls, UNCHANGED logVars,
         NEW from \in {"embed", "preflight", "targets"},
         NEW t \in Steps, GoTo(c, from, t),
         \/ from = "embed" /\ t = "insert"
         \/ from = "preflight" /\ t = "targets"
         \/ from = "targets" /\ t = "mutate" /\ LosersOfEntity(c)
  PROVE  ClientInv'
<1>1. /\ step[c] = from /\ step' = [step EXCEPT ![c] = t]
      /\ UNCHANGED <<request, result, outcome>>
  BY DEF GoTo
<1>2. outcome' = [outcome EXCEPT ![c] = "none"]
  BY <1>1 DEF ClientInv, ResultIsLate, ClientTypeOK
<1>3. /\ from = "embed" => Creates(c)
      /\ from \in {"preflight", "targets"} => request[c].kind = "consolidate"
  BY <1>1 DEF ClientInv, RequestMatchesStep
<1>4. QED BY <1>1, <1>2, <1>3, MoveInv DEF Outcomes

LEMMA InsertInv ==
  ASSUME ClientInv, Ages, TypeOK', NEW c \in Calls, InsertStep(c)
  PROVE  ClientInv'
<1>1. PICK I \in SUBSET Ids :
        /\ InsertMemories(I)
        /\ Audit(c, "insert", I) \/ Report(c, "insert", "FAILED")
  BY InsertIsInsert
<1>2. UNCHANGED logVars
  BY DEF InsertStep
<1>3. \A i \in I : memories[i].state = "unborn" /\ memories'[i].state = "stored"
  BY <1>1 DEF InsertMemories, ClientInv, ClientTypeOK, TypeOK, Memory
<1>4. CASE Audit(c, "insert", I)
  BY <1>2, <1>3, <1>4, AuditInv
<1>5. CASE Report(c, "insert", "FAILED")
  BY <1>2, <1>5, ReportInv DEF Steps, Outcomes
<1>6. QED BY <1>1, <1>4, <1>5

LEMMA DeleteInv ==
  ASSUME ClientInv, Ages, TypeOK', NEW c \in Calls,
         DeleteStep(c) \/ DeleteConflict(c) \/ DryRun(c)
  PROVE  ClientInv'
<1>1. UNCHANGED logVars /\ step[c] = "delete"
  BY DEF DeleteStep, DeleteConflict, DryRun
<1>2. request[c].kind # "consolidate"
  BY <1>1 DEF ClientInv, RequestMatchesStep, Removes, RemovingKinds
<1>3. CASE \E o \in {"ok", "NOT_FOUND", "CONFLICT", "FAILED"} :
             Report(c, "delete", o)
  BY <1>1, <1>2, <1>3, ReportInv DEF Steps, Outcomes
<1>4. ASSUME NEW D \in Selections(request[c]),
             DeleteMemories(D), Audit(c, "delete", D)
      PROVE  ClientInv'
  <2>1. D \in SUBSET Ids
    BY SelectionsAreIds
  <2>2. \A i \in D : memories[i].state = "stored" /\ memories'[i].state = "deleted"
    BY <1>4, <2>1
       DEF DeleteMemories, IsStored, ClientInv, ClientTypeOK, TypeOK, Memory
  <2>3. QED BY <1>1, <1>4, <2>1, <2>2, AuditInv
<1>5. QED BY <1>3, <1>4 DEF DeleteStep, DeleteConflict, DryRun

LEMMA PreflightInv ==
  ASSUME ClientInv, Ages, TypeOK', NEW c \in Calls,
         Preflight(c) \/ LoadTargets(c)
  PROVE  ClientInv'
<1>1. UNCHANGED logVars /\ UNCHANGED <<memories, events>>
  BY DEF Preflight, LoadTargets, vars
<1>2. CASE Preflight(c)
  <2>1. CASE GoTo(c, "preflight", "targets")
    BY <1>1, <2>1, GoToInv DEF Steps
  <2>2. CASE \E o \in {"NOT_FOUND", "VALIDATION"} : Report(c, "preflight", o)
    BY <1>1, <2>2, ReportInv DEF Steps, Outcomes
  <2>3. QED BY <1>2, <2>1, <2>2 DEF Preflight
<1>3. CASE LoadTargets(c)
  <2>1. LosersFound(c) => LosersOfEntity(c)
    BY DEF LosersFound, LosersOfEntity, InEntity, IsStored
  <2>2. CASE LosersFound(c) /\ GoTo(c, "targets", "mutate")
    BY <1>1, <2>1, <2>2, GoToInv DEF Steps
  <2>3. CASE \E o \in {"NOT_FOUND", "CONFLICT"} : Report(c, "targets", o)
    BY <1>1, <2>3, ReportInv DEF Steps, Outcomes
  <2>4. CASE /\ LosersFound(c) /\ ~BelongElsewhere(c) /\ ~StillActive(c)
             /\ Report(c, "targets", "ok")
    <3>1. DeliveredTo(c)
      BY <2>1, <2>4 DEF BelongElsewhere, StillActive, DeliveredTo
    <3>2. DeliveredTo(c)'
      BY <1>1, <2>4, <3>1 DEF DeliveredTo, LosersOfEntity, IsStored, Report
    <3>3. QED BY <1>1, <2>4, <3>2, ReportInv DEF Steps, Outcomes
  <2>5. QED BY <1>3, <2>2, <2>3, <2>4 DEF LoadTargets
<1>4. QED BY <1>2, <1>3

(* The mutation supersedes every loser that it finds active; the others    *)
(* belong to the survivor already, or are gone.                            *)
LEMMA MutateDelivers ==
  ASSUME ClientInv, Ages, NEW c \in Calls, step[c] = "mutate",
         UNCHANGED request, ~MutationConflict(c),
         Supersede(request[c].survivorId, NewLosers(c), request[c].mergeTags)
  PROVE  DeliveredTo(c)'
<1> DEFINE s == request[c].survivorId
<1>1. /\ request[c].kind = "consolidate" /\ LosersOfEntity(c)
      /\ request[c].supersededIds \subseteq Ids
  BY ConsolidateRequestOf DEF ClientInv, RequestMatchesStep, LosersKnown
<1>2. LosersOfEntity(c)'
  BY <1>1, LosersStay DEF ClientInv
<1>3. ASSUME NEW l \in request[c].supersededIds, memories'[l].state = "stored"
      PROVE  memories'[l].supersededBy = s
  <2>1. l \in Ids /\ memories[l].state = "stored"
    BY <1>1, <1>3 DEF LosersOfEntity, Ages
  <2>2. l \in Present(c)
    BY <1>1, <2>1 DEF LosersOfEntity, Present, InEntity, IsStored
  <2>3. CASE memories[l].supersededBy = NoMemory
    <3>1. l \in NewLosers(c)
      BY <2>2, <2>3 DEF NewLosers
    <3>2. memories'[l] = [memories[l] EXCEPT !.supersededBy = s]
      BY <2>1, <3>1 DEF Supersede
    <3>3. QED BY <2>1, <3>2 DEF ClientInv, ClientTypeOK, TypeOK, Memory
  <2>4. CASE memories[l].supersededBy # NoMemory
    <3>1. memories[l].supersededBy = s
      BY <2>2, <2>4 DEF MutationConflict
    <3>2. QED BY <2>1, <2>4, <3>1 DEF Ages
  <2>5. QED BY <2>3, <2>4
<1>4. QED BY <1>2, <1>3 DEF DeliveredTo, IsStored

LEMMA MutateInv ==
  ASSUME ClientInv, Ages, TypeOK', NEW c \in Calls, Mutate(c)
  PROVE  ClientInv'
<1>1. UNCHANGED logVars /\ step[c] = "mutate"
  BY DEF Mutate
<1>2. CASE \E o \in {"CONFLICT", "FAILED"} : Report(c, "mutate", o)
  BY <1>1, <1>2, ReportInv DEF Steps, Outcomes
<1>3. CASE /\ ~MutationConflict(c)
           /\ Supersede(request[c].survivorId, NewLosers(c),
                        request[c].mergeTags)
           /\ Report(c, "mutate", "ok")
  <2>1. DeliveredTo(c)'
    BY <1>1, <1>3, MutateDelivers DEF Report
  <2>2. QED BY <1>1, <1>3, <2>1, ReportInv DEF Steps, Outcomes
<1>4. QED BY <1>2, <1>3 DEF Mutate

LEMMA FailInv ==
  ASSUME ClientInv, Ages, TypeOK', NEW c \in Calls, Fail(c) \/ Embed(c)
  PROVE  ClientInv'
<1>1. UNCHANGED logVars
  BY DEF Fail, Embed
<1>2. CASE Fail(c)
  <2>1. step[c] \in Steps \ {"idle", "audit", "done"}
    BY <1>2 DEF Fail, ClientInv, ClientTypeOK
  <2>2. QED BY <1>1, <1>2, <2>1, ReportInv DEF Fail, Outcomes
<1>3. CASE Embed(c)
  BY <1>1, <1>3, GoToInv DEF Embed, Steps
<1>4. QED BY <1>2, <1>3

LEMMA StepInv == ClientInv /\ [ClientNext]_allVars => ClientInv'
<1> SUFFICES ASSUME ClientInv, [ClientNext]_allVars PROVE ClientInv'
  OBVIOUS
<1>1. TypeOK' /\ Ages
  BY StoreStep, StoreAges DEF ClientInv, ClientTypeOK
<1>2. ASSUME NEW c \in Calls, NEW r \in Requests, Begin(c, r)
      PROVE  ClientInv'
  BY <1>2, BeginInv
<1>3. ASSUME NEW c \in Calls,
             \/ Fail(c) \/ Embed(c) \/ InsertStep(c)
             \/ DeleteStep(c) \/ DeleteConflict(c) \/ DryRun(c)
             \/ Preflight(c) \/ LoadTargets(c) \/ Mutate(c) \/ WriteAudit(c)
      PROVE  ClientInv'
  BY <1>1, <1>3, FailInv, InsertInv, DeleteInv, PreflightInv, MutateInv,
     WriteAuditInv
<1>4. CASE UNCHANGED allVars
  BY <1>1, <1>4
     DEF allVars, ClientInv, ClientTypeOK, RequestMatchesStep, ResultIsLate,
         LosersKnown, LosersOfEntity, Delivered, IsStored, Claims,
         ResultsAreTheirs, SameEffect, EventsNameOnce, CountsAreTallied,
         Tallied, Creates, Removes, Tallies
<1>5. QED BY <1>2, <1>3, <1>4 DEF ClientNext, Quiet

LEMMA Inductive == ClientSpec => []ClientInv
BY InitInv, StepInv, PTL DEF ClientSpec

-----------------------------------------------------------------------------
(* The memories, the events and the calls are always what the client and   *)
(* its store can hold: no call leaves an event count below zero, a result  *)
(* of unknown ids, or a step that the client's functions do not have.      *)
THEOREM ClientTypeCorrect == ClientSpec => []ClientTypeOK
<1>1. ClientInv => ClientTypeOK
  BY DEF ClientInv
<1>2. QED BY Inductive, <1>1, PTL

(* Whatever the clients' calls interleave, the store takes only steps of   *)
(* its contract: the preflight reads of consolidate guard nothing, yet the *)
(* mutation it then asks for is one of MemoryStore.                        *)
THEOREM ImplementsStore == ClientSpec => StoreContract
<1>1. ClientInit => Init
  BY DEF ClientInit
<1>2. ClientInv /\ [ClientNext]_allVars => [Next]_vars
  BY StoreStep DEF ClientInv, ClientTypeOK
<1>3. QED BY Inductive, <1>1, <1>2, PTL DEF ClientSpec, StoreContract, Spec

(* client.consolidate that reports success has superseded, by its survivor,*)
(* every loser it was asked for that is still stored.                      *)
THEOREM ConsolidateIsDelivered == ClientSpec => []ConsolidateDelivers
<1>1. ClientInv => ConsolidateDelivers
  BY DEF ClientInv, Delivered, LosersOfEntity, ConsolidateDelivers
<1>2. QED BY Inductive, <1>1, PTL

(* recordAudit never invents: created and deleted events name a memory     *)
(* once, and the totals of memory.pruned and entity.cleared events stay    *)
(* within what was deleted and has no event of its own.                    *)
THEOREM AuditIsTrue == ClientSpec => []AuditNeverInvents
<1>1. ASSUME ClientInv, NEW e \in Entities
      PROVE  counted[e] <= Cardinality({i \in Ids : /\ EntityOf[i] = e
                                                   /\ memories[i].state = "deleted"
                                                   /\ removed[i] = 0})
  <2> DEFINE gone == {i \in Ids : /\ EntityOf[i] = e
                                 /\ memories[i].state = "deleted"
                                 /\ removed[i] = 0}
  <2>1. Tallied(e) \subseteq gone
    BY <1>1 DEF ClientInv, Claims, ResultsAreTheirs, EventsNameOnce, Tallied,
                Removes, Tallies, RemovingKinds
  <2>2. IsFiniteSet(gone)
    BY RequestAssumption, FS_Subset
  <2> HIDE DEF gone
  <2>3. /\ Cardinality(Tallied(e)) <= Cardinality(gone)
        /\ Cardinality(Tallied(e)) \in Nat /\ Cardinality(gone) \in Nat
    BY <2>1, <2>2, FS_Subset, FS_CardinalityType
  <2>4. counted[e] <= Cardinality(Tallied(e)) /\ counted[e] \in Nat
    BY <1>1 DEF ClientInv, Claims, CountsAreTallied, ClientTypeOK
  <2>5. counted[e] <= Cardinality(gone)
    BY <2>3, <2>4
  <2>6. QED BY <2>5 DEF gone
<1>2. ClientInv => AuditNeverInvents
  BY <1>1 DEF ClientInv, Claims, EventsNameOnce, AuditNeverInvents
<1>3. QED BY Inductive, <1>2, PTL
=============================================================================
