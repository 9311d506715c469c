-------------------------- MODULE ClientOperations --------------------------
(***************************************************************************)
(* The client's mutating calls (src/memory/client-core.ts): sequences of   *)
(* store operations with other clients' calls in between.  remember embeds,*)
(* inserts, then writes its audit event; forget, forgetAll and prune       *)
(* delete, then write theirs; consolidate reads the survivor, reads the    *)
(* losers, and only then asks for the mutation, which checks again.        *)
(*                                                                         *)
(* A store operation is one atomic step of MemoryStore.  It may fail       *)
(* without effect or, when a connection breaks under it, after its effect: *)
(* the caller sees an error for work that was done, and may call again.    *)
(* Bound: each member of Calls runs one request.                           *)
(***************************************************************************)
EXTENDS MemoryStore, FiniteSetsExt

CONSTANTS
  Calls,     \* the calls that clients make
  Requests   \* what they ask for

VARIABLES
  created,   \* memory.created events per memory
  removed,   \* memory.deleted events per memory
  counted,   \* memories counted by memory.pruned and entity.cleared events,
             \* per entity
  step,      \* where each call is
  request,   \* what each call asks for
  result,    \* the ids the store reported to each call
  outcome    \* what each call reported: "none", "ok" or an error code

callVars == <<step, request, result, outcome>>
logVars == <<created, removed, counted>>
allVars == <<memories, events, created, removed, counted, step, request,
             result, outcome>>

Remember == [kind : {"remember"}, count : 1 .. Cardinality(Ids)]
Forget == [kind : {"forget"}, entity : Entities, id : Ids]
ForgetAll == [kind : {"forgetAll"}, entity : Entities]
(* "ids": what the filters on columns that never change select.            *)
Prune == [kind : {"prune"}, ids : SUBSET Ids, superseded : BOOLEAN,
          notAccessedSince : BOOLEAN, tags : SUBSET Tags, dryRun : BOOLEAN]
ConsolidateRequest == [kind : {"consolidate"}, entity : Entities,
                       survivorId : Ids, supersededIds : SUBSET Ids,
                       mergeTags : BOOLEAN]
NoRequest == [kind |-> "none"]

ASSUME RequestAssumption ==
  /\ IsFiniteSet(Ids)
  /\ Requests \subseteq Remember \union Forget \union ForgetAll \union Prune
                          \union ConsolidateRequest
  /\ \A r \in Requests : r.kind = "consolidate" =>
       r.supersededIds # {} /\ r.survivorId \notin r.supersededIds

Steps == {"idle", "embed", "insert", "delete", "preflight", "targets",
          "mutate", "audit", "done"}
Outcomes == {"none", "ok", "NOT_FOUND", "VALIDATION", "CONFLICT", "FAILED"}

ClientTypeOK ==
  /\ TypeOK
  /\ created \in [Ids -> Nat]
  /\ removed \in [Ids -> Nat]
  /\ counted \in [Entities -> Nat]
  /\ step \in [Calls -> Steps]
  /\ request \in [Calls -> Requests \union {NoRequest}]
  /\ result \in [Calls -> SUBSET Ids]
  /\ outcome \in [Calls -> Outcomes]

ClientInit ==
  /\ Init
  /\ created = [i \in Ids |-> 0]
  /\ removed = [i \in Ids |-> 0]
  /\ counted = [e \in Entities |-> 0]
  /\ step = [c \in Calls |-> "idle"]
  /\ request = [c \in Calls |-> NoRequest]
  /\ result = [c \in Calls |-> {}]
  /\ outcome = [c \in Calls |-> "none"]

-----------------------------------------------------------------------------
FirstStep == [remember |-> "embed", forget |-> "delete",
              forgetAll |-> "delete", prune |-> "delete",
              consolidate |-> "preflight"]

Begin(c, r) ==
  /\ step[c] = "idle"
  /\ request' = [request EXCEPT ![c] = r]
  /\ step' = [step EXCEPT ![c] = FirstStep[r.kind]]
  /\ UNCHANGED <<result, outcome, vars, logVars>>

GoTo(c, from, to) ==
  /\ step[c] = from
  /\ step' = [step EXCEPT ![c] = to]
  /\ UNCHANGED <<request, result, outcome>>

Report(c, from, o) ==
  /\ step[c] = from
  /\ step' = [step EXCEPT ![c] = "done"]
  /\ outcome' = [outcome EXCEPT ![c] = o]
  /\ UNCHANGED <<request, result>>

(* The store resolved and reported R; the audit event is still to come.    *)
Audit(c, from, R) ==
  /\ step[c] = from
  /\ step' = [step EXCEPT ![c] = "audit"]
  /\ result' = [result EXCEPT ![c] = R]
  /\ UNCHANGED <<request, outcome>>

(* A provider call, an abort, or a store operation fails before it has any *)
(* effect.                                                                 *)
Fail(c) ==
  /\ step[c] \notin {"idle", "done", "audit"}
  /\ Report(c, step[c], "FAILED")
  /\ UNCHANGED <<vars, logVars>>

-----------------------------------------------------------------------------
(* remember, rememberMany                                                  *)

Embed(c) ==
  GoTo(c, "embed", "insert") /\ UNCHANGED <<vars, logVars>>

(* createStoredMemory mints an id per memory: it was never stored before.  *)
(* Bound: a call that finds no id left in Ids can only fail.               *)
InsertStep(c) ==
  /\ step[c] = "insert"
  /\ \E I \in kSubset(request[c].count,
                       {i \in Ids : memories[i].state = "unborn"}) :
       /\ InsertMemories(I)
       /\ Audit(c, "insert", I) \/ Report(c, "insert", "FAILED")
  /\ UNCHANGED logVars

-----------------------------------------------------------------------------
(* forget, forgetAll, prune                                                *)

Targets(r) ==
  {i \in Ids : /\ IsStored(i)
               /\ \/ r.kind = "forget" /\ i = r.id /\ EntityOf[i] = r.entity
                  \/ r.kind = "forgetAll" /\ EntityOf[i] = r.entity
                  \/ /\ r.kind = "prune" /\ i \in r.ids
                     /\ r.superseded => memories[i].supersededBy # NoMemory
                     /\ r.tags \subseteq memories[i].tags}

(* Recalls, which this module leaves out, write access times at any time:  *)
(* notAccessedSince may leave any of the memories.                         *)
Selections(r) == IF r.kind = "prune" /\ r.notAccessedSince
                 THEN SUBSET Targets(r) ELSE {Targets(r)}

IsDryRun(r) == r.kind = "prune" /\ r.dryRun

DeleteStep(c) ==
  /\ step[c] = "delete"
  /\ ~IsDryRun(request[c])
  /\ \E D \in Selections(request[c]) :
       /\ DeleteMemories(D)
       /\ \/ /\ request[c].kind = "forget" => D # {}
             /\ Audit(c, "delete", D)
          \/ /\ request[c].kind = "forget" /\ D = {}
             /\ Report(c, "delete", "NOT_FOUND")
          \/ Report(c, "delete", "FAILED")
  /\ UNCHANGED logVars

DeleteConflict(c) ==
  /\ step[c] = "delete"
  /\ ~IsDryRun(request[c])
  /\ \E D \in Selections(request[c]) : Dependents(D) # {}
  /\ Report(c, "delete", "CONFLICT")
  /\ UNCHANGED <<vars, logVars>>

AuditedDryRun(c) ==  \* fault: what a dry run matched is audited
  /\ step[c] = "delete"
  /\ IsDryRun(request[c])
  /\ Audit(c, "delete", Targets(request[c]))
  /\ UNCHANGED <<vars, logVars>>

DryRun(c) ==
  /\ step[c] = "delete"
  /\ IsDryRun(request[c])
  /\ Report(c, "delete", "ok")
  /\ UNCHANGED <<vars, logVars>>

-----------------------------------------------------------------------------
(* consolidate                                                             *)

InEntity(i, c) == IsStored(i) /\ EntityOf[i] = request[c].entity

(* getMemory finds the survivor active.                                    *)
Preflight(c) ==
  LET s == request[c].survivorId IN
  /\ step[c] = "preflight"
  /\ \/ /\ InEntity(s, c) /\ memories[s].supersededBy = NoMemory
        /\ GoTo(c, "preflight", "targets")
     \/ ~InEntity(s, c) /\ Report(c, "preflight", "NOT_FOUND")
     \/ /\ InEntity(s, c) /\ memories[s].supersededBy # NoMemory
        /\ Report(c, "preflight", "VALIDATION")
  /\ UNCHANGED <<vars, logVars>>

AnyLosersFound(c) == TRUE  \* fault: a missing loser goes unnoticed
LosersFound(c) == \A l \in request[c].supersededIds : InEntity(l, c)

BelongElsewhere(c) ==
  \E l \in request[c].supersededIds :
    memories[l].supersededBy \notin {NoMemory, request[c].survivorId}

StillActive(c) ==
  \E l \in request[c].supersededIds : memories[l].supersededBy = NoMemory

(* loadConsolidationTargets: errors first, then nothing to do, else on.    *)
LoadTargets(c) ==
  /\ step[c] = "targets"
  /\ \/ ~LosersFound(c) /\ Report(c, "targets", "NOT_FOUND")
     \/ LosersFound(c) /\ BelongElsewhere(c) /\ Report(c, "targets", "CONFLICT")
     \/ /\ LosersFound(c) /\ ~BelongElsewhere(c) /\ ~StillActive(c)
        /\ Report(c, "targets", "ok")
     \/ /\ LosersFound(c) /\ ~BelongElsewhere(c) /\ StillActive(c)
        /\ GoTo(c, "targets", "mutate")
  /\ UNCHANGED <<vars, logVars>>

(* What the mutation finds of the losers, and which of them it supersedes. *)
Present(c) == {l \in request[c].supersededIds : InEntity(l, c)}
NewLosers(c) == {l \in Present(c) : memories[l].supersededBy = NoMemory}

TrustPreflight(c) == FALSE  \* fault: the mutation checks nothing again
MutationConflict(c) ==
  LET s == request[c].survivorId IN
  \/ ~InEntity(s, c)
  \/ memories[s].supersededBy # NoMemory
  \/ \E l \in Present(c) : memories[l].supersededBy \notin {NoMemory, s}

NestedTags(s, L) ==  \* fault: the losers' tag lists merged as elements
  memories[s].tags \union {memories[l].tags : l \in L}
MergedTags(s, L) == memories[s].tags \union UNION {memories[l].tags : l \in L}

Supersede(s, L, mergeTags) ==
  /\ memories' = [i \in Ids |->
       IF i \in L THEN [memories[i] EXCEPT !.supersededBy = s]
       ELSE IF i = s /\ mergeTags
            THEN [memories[i] EXCEPT !.tags = MergedTags(s, L)]
            ELSE memories[i]]
  /\ events' = [i \in Ids |-> IF AuditEnabled /\ i \in L
                              THEN events[i] + 1 ELSE events[i]]

(* store.consolidate: the superseded events are part of its atomic step.   *)
Mutate(c) ==
  /\ step[c] = "mutate"
  /\ \/ /\ MutationConflict(c)
        /\ Report(c, "mutate", "CONFLICT")
        /\ UNCHANGED vars
     \/ /\ ~MutationConflict(c)
        /\ Supersede(request[c].survivorId, NewLosers(c), request[c].mergeTags)
        /\ Report(c, "mutate", "ok") \/ Report(c, "mutate", "FAILED")
  /\ UNCHANGED logVars

-----------------------------------------------------------------------------
(* recordAudit: best effort.  addAuditEvents inserts one event after the   *)
(* other, so a failure leaves some of them; the call succeeds regardless.  *)
WriteAudit(c) ==
  LET r == request[c]
      OfEntity(e) == {i \in result[c] : EntityOf[i] = e}
  IN
  /\ Report(c, "audit", "ok")
  /\ \E R \in SUBSET (IF AuditEnabled THEN result[c] ELSE {}) :
       /\ created' = [i \in Ids |-> IF r.kind = "remember" /\ i \in R
                                    THEN created[i] + 1 ELSE created[i]]
       /\ removed' = [i \in Ids |-> IF r.kind = "forget" /\ i \in R
                                    THEN removed[i] + 1 ELSE removed[i]]
       /\ counted' = [e \in Entities |->
            IF r.kind \in {"prune", "forgetAll"} /\ OfEntity(e) \subseteq R
            THEN counted[e] + Cardinality(OfEntity(e)) ELSE counted[e]]
  /\ UNCHANGED vars

(* The bound: every call of the instance has ended.                        *)
Quiet == (\A c \in Calls : step[c] = "done") /\ UNCHANGED allVars

ClientNext ==
  \/ \E c \in Calls :
       \/ \E r \in Requests : Begin(c, r)
       \/ Fail(c)
       \/ Embed(c) \/ InsertStep(c)
       \/ DeleteStep(c) \/ DeleteConflict(c) \/ DryRun(c)
       \/ Preflight(c) \/ LoadTargets(c) \/ Mutate(c)
       \/ WriteAudit(c)
  \/ Quiet

ClientSpec == ClientInit /\ [][ClientNext]_allVars

-----------------------------------------------------------------------------
(* Between their own steps other calls delete and supersede what a call    *)
(* has read; the store still only ever sees steps of its contract, and a   *)
(* consolidate that is called again, after success or after an error that  *)
(* hid one, moves no loser and adds no second event.                       *)
StoreContract == Spec

(* A consolidate call that reports success has every loser it was asked    *)
(* for in the entity, superseded by its survivor unless deleted since.     *)
ConsolidateDelivers ==
  \A c \in Calls :
    request[c].kind = "consolidate" /\ outcome[c] = "ok" =>
      \A l \in request[c].supersededIds :
        /\ EntityOf[l] = request[c].entity
        /\ IsStored(l) => memories[l].supersededBy = request[c].survivorId

(* Best-effort audit may lose events but never invents one: a created (or  *)
(* deleted) event names a memory that was stored (deleted), once, and the  *)
(* counts of memory.pruned and entity.cleared events never exceed what is  *)
(* gone and not accounted for by a memory.deleted event.                   *)
AuditNeverInvents ==
  /\ \A i \in Ids :
       /\ created[i] <= (IF memories[i].state = "unborn" THEN 0 ELSE 1)
       /\ removed[i] <= (IF memories[i].state = "deleted" THEN 1 ELSE 0)
  /\ \A e \in Entities :
       counted[e] <= Cardinality({i \in Ids : /\ EntityOf[i] = e
                                             /\ memories[i].state = "deleted"
                                             /\ removed[i] = 0})
=============================================================================
