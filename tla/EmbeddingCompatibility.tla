----------------------- MODULE EmbeddingCompatibility -----------------------
(***************************************************************************)
(* How Postgres stores keep one vector space in an installation            *)
(* (src/memory/postgres.ts, src/db/queries/meta.ts).  Before a call embeds *)
(* anything its store checks the embedder against mnemocyte_meta; the first*)
(* check on an installation without a recorded model infers and records    *)
(* one.  Calls of one store share the check of their embedder, a passed    *)
(* check is cached, a failed one is not.  Stores are values of any number  *)
(* of processes; deletes skip the check.                                   *)
(*                                                                         *)
(* Every query of a check is a step of its own.  Only which models the     *)
(* stored rows carry is kept of them.  Bound: a member of Calls calls once.*)
(***************************************************************************)
EXTENDS Naturals, FiniteSets

CONSTANTS
  Stores,     \* store values
  Embedders,  \* embedder configurations
  Models,     \* embedding models
  ModelOf,    \* the model of each embedder
  Fitting,    \* the embedders of the installation's dimensions
  Calls,      \* embedding-dependent calls
  StoreOf,    \* the store of each call
  EmbedderOf, \* the embedder of each call
  Unset,      \* the null of embedding_model
  Missing     \* no installation row with the columns of this version

VARIABLES
  model,   \* embedding_model of the installation row
  rows,    \* the models that stored rows carry
  check,   \* compatibilityChecks: where each store's check of an embedder is
  found,   \* the models that a check has inferred or read
  phase,   \* where each call is
  outcome  \* "none", "ok" or an error code, per call

vars == <<model, rows, check, found, phase, outcome>>

ASSUME EmbedderAssumption ==
  /\ IsFiniteSet(Models)
  /\ ModelOf \in [Embedders -> Models]
  /\ Fitting \subseteq Embedders
  /\ StoreOf \in [Calls -> Stores]
  /\ EmbedderOf \in [Calls -> Embedders]
  /\ Unset \notin Models /\ Missing \notin Models /\ Unset # Missing

(* "none" is an absent entry of the map, "passed" a resolved promise, the  *)
(* others a pending one.                                                   *)
Pending == {"meta", "stored", "record", "reread", "compare"}
Checks == {"none", "passed"} \union Pending

TypeOK ==
  /\ model \in Models \union {Unset, Missing}
  /\ rows \subseteq Models
  /\ check \in [Stores \X Embedders -> Checks]
  /\ found \in [Stores \X Embedders -> Models \union {Unset, Missing}]
  /\ phase \in [Calls -> {"idle", "checking", "embedding", "done"}]
  /\ outcome \in [Calls -> {"none", "ok", "CONFIG", "MIGRATION", "FAILED"}]

(* An installation with a recorded model was kept to it; the others hold   *)
(* whatever older versions wrote.                                          *)
Init ==
  /\ model \in Models \union {Unset, Missing}
  /\ rows \in SUBSET Models
  /\ model \in Models => rows \subseteq {model}
  /\ check = [k \in Stores \X Embedders |-> "none"]
  /\ found = [k \in Stores \X Embedders |-> Unset]
  /\ phase = [c \in Calls |-> "idle"]
  /\ outcome = [c \in Calls |-> "none"]

-----------------------------------------------------------------------------
(* Calls                                                                   *)

StoreKey(c) ==  \* fault: the cache does not look at the embedder
  <<StoreOf[c], CHOOSE e \in Embedders : TRUE>>
(* compatibilityKey                                                        *)
Key(c) == <<StoreOf[c], EmbedderOf[c]>>

(* ensureEmbeddingCompatibility: join the check of this embedder, or start *)
(* one.                                                                    *)
Call(c) ==
  /\ phase[c] = "idle"
  /\ IF check[Key(c)] = "passed"
     THEN phase' = [phase EXCEPT ![c] = "embedding"]
     ELSE phase' = [phase EXCEPT ![c] = "checking"]
  /\ IF check[Key(c)] = "none"
     THEN check' = [check EXCEPT ![Key(c)] = "meta"]
     ELSE UNCHANGED check
  /\ UNCHANGED <<model, rows, found, outcome>>

(* The provider embeds and the store inserts, or either fails.             *)
Insert(c) ==
  /\ phase[c] = "embedding"
  /\ phase' = [phase EXCEPT ![c] = "done"]
  /\ \/ /\ rows' = rows \union {ModelOf[EmbedderOf[c]]}
        /\ outcome' = [outcome EXCEPT ![c] = "ok"]
     \/ /\ outcome' = [outcome EXCEPT ![c] = "FAILED"]
        /\ UNCHANGED rows
  /\ UNCHANGED <<model, check, found>>

(* forget, forgetAll and prune remove the last row of a model.             *)
Delete(m) ==
  /\ m \in rows
  /\ rows' = rows \ {m}
  /\ UNCHANGED <<model, check, found, phase, outcome>>

(* Migration 0002 records the model of rows that have exactly one.         *)
Migrate ==
  /\ model = Missing
  /\ \/ Cardinality(rows) = 1 /\ model' \in rows
     \/ Cardinality(rows) # 1 /\ model' = Unset
  /\ UNCHANGED <<rows, check, found, phase, outcome>>

-----------------------------------------------------------------------------
(* The check of key k, shared by the calls that wait for it.               *)

Waiting(k) == {c \in Calls : phase[c] = "checking" /\ Key(c) = k}

Pass(k) ==
  /\ check' = [check EXCEPT ![k] = "passed"]
  /\ phase' = [c \in Calls |-> IF c \in Waiting(k) THEN "embedding"
                                                   ELSE phase[c]]
  /\ UNCHANGED <<model, rows, found, outcome>>

(* A rejected promise leaves the map.                                      *)
Fail(k, code) ==
  /\ check' = [check EXCEPT ![k] = "none"]
  /\ phase' = [c \in Calls |-> IF c \in Waiting(k) THEN "done" ELSE phase[c]]
  /\ outcome' = [c \in Calls |-> IF c \in Waiting(k) THEN code ELSE outcome[c]]
  /\ UNCHANGED <<rows, found>>

GoOn(k, next, m) ==
  /\ check' = [check EXCEPT ![k] = next]
  /\ found' = [found EXCEPT ![k] = m]
  /\ UNCHANGED <<rows, phase, outcome>>

(* getInstallationMeta                                                     *)
ReadMeta(k) ==
  /\ check[k] = "meta"
  /\ \/ model = Missing /\ Fail(k, "MIGRATION")
     \/ model # Missing /\ k[2] \notin Fitting /\ Fail(k, "CONFIG")
     \/ /\ model # Missing /\ k[2] \in Fitting
        /\ GoOn(k, IF model = Unset THEN "stored" ELSE "compare", model)
  /\ UNCHANGED model

(* getStoredEmbeddingModels: infer the one model of the rows, or this one. *)
ReadStored(k) ==
  /\ check[k] = "stored"
  /\ \/ Cardinality(rows) > 1 /\ Fail(k, "MIGRATION")
     \/ /\ Cardinality(rows) <= 1
        /\ \E m \in (IF rows = {} THEN {ModelOf[k[2]]} ELSE rows) :
             GoOn(k, "record", m)
  /\ UNCHANGED model

(* recordInstallationEmbeddingModel: only where none is recorded.  The     *)
(* answer of an update that committed may get lost.                        *)
Record(k) ==
  /\ check[k] = "record"
  /\ \/ /\ model = Unset /\ model' = found[k]
        /\ GoOn(k, "compare", found[k]) \/ Fail(k, "FAILED")
     \/ model # Unset /\ GoOn(k, "reread", found[k]) /\ UNCHANGED model

TrustInference(k) ==  \* fault: what was inferred is taken for the record
  /\ check[k] = "reread"
  /\ GoOn(k, "compare", found[k])
  /\ UNCHANGED model
(* Another check recorded a model first: read it.  Nothing unsets it, so   *)
(* the error for a model that is still null cannot happen.                 *)
Reread(k) ==
  /\ check[k] = "reread"
  /\ GoOn(k, "compare", model)
  /\ UNCHANGED model

RetryCompare(k) ==  \* fault: another model is taken for a transient error
  /\ check[k] = "compare"
  /\ \/ found[k] = ModelOf[k[2]] /\ Pass(k)
     \/ found[k] # ModelOf[k[2]] /\ GoOn(k, "meta", Unset) /\ UNCHANGED model

Compare(k) ==
  /\ check[k] = "compare"
  /\ \/ found[k] = ModelOf[k[2]] /\ Pass(k)
     \/ found[k] # ModelOf[k[2]] /\ Fail(k, "CONFIG") /\ UNCHANGED model

(* A query of the check fails and changes nothing.                         *)
QueryFails(k) ==
  /\ check[k] \in {"meta", "stored", "record", "reread"}
  /\ Fail(k, "FAILED") /\ UNCHANGED model

-----------------------------------------------------------------------------
(* The bound: every call of the instance has ended.                        *)
Quiet == (\A c \in Calls : phase[c] = "done") /\ UNCHANGED vars

CheckStep(k) ==
  \/ ReadMeta(k) \/ ReadStored(k) \/ Record(k) \/ Reread(k) \/ Compare(k)
  \/ QueryFails(k)

Next ==
  \/ \E c \in Calls : Call(c) \/ Insert(c)
  \/ \E k \in Stores \X Embedders : CheckStep(k)
  \/ \E m \in Models : Delete(m)
  \/ Migrate
  \/ Quiet

Spec == Init /\ [][Next]_vars

(* Queries and provider calls settle.                                      *)
FairSpec ==
  /\ Spec
  /\ \A k \in Stores \X Embedders : WF_vars(CheckStep(k))
  /\ \A c \in Calls : WF_vars(Insert(c))

-----------------------------------------------------------------------------
(* Once a model is recorded every stored row carries it, whichever stores  *)
(* raced to record it and whatever was deleted meanwhile.                  *)
OneVectorSpace == model \in Models => rows \subseteq {model}

(* No check overwrites the model that another one recorded.                *)
RecordedForGood == [][(model \in Models) => model' = model]_model

(* A cached check still tells the truth, for its embedder, when it is used.*)
CachedIsTrue ==
  \A k \in Stores \X Embedders : check[k] = "passed" =>
    model = ModelOf[k[2]] /\ k[2] \in Fitting

(* A check that fails leaves the cache, so that the next call starts anew: *)
(* every pending check has a call that waits for it, and every waiting call*)
(* a pending check.                                                        *)
ChecksAreAwaited ==
  /\ \A k \in Stores \X Embedders : check[k] \in Pending <=> Waiting(k) # {}
  /\ \A c \in Calls : phase[c] = "embedding" => check[Key(c)] = "passed"

(* What the proofs add: a check never has a wrong model in its hands.      *)
InferenceHolds ==
  \A k \in Stores \X Embedders :
    /\ check[k] \in Pending \ {"meta"} => k[2] \in Fitting /\ model # Missing
    /\ check[k] = "record" => /\ found[k] \in Models
                              /\ model = Unset => rows \subseteq {found[k]}
    /\ check[k] = "reread" => model \in Models
    /\ check[k] = "compare" => found[k] \in Models /\ model = found[k]

(* The state of the checks is consistent, whatever races: what one has     *)
(* inferred still covers every row when it is recorded, and what is cached *)
(* or awaited is so rightly.                                               *)
EmbeddingInv ==
  TypeOK /\ CachedIsTrue /\ InferenceHolds /\ ChecksAreAwaited

(* Every call ends, however many wait for one check.                       *)
EveryCallEnds == \A c \in Calls : phase[c] = "checking" ~> phase[c] = "done"
=============================================================================
