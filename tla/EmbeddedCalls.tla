---------------------------- MODULE EmbeddedCalls ----------------------------
(***************************************************************************)
(* The client's calls that go through the embedder                         *)
(* (src/memory/client-core.ts): remember and rememberMany embed and        *)
(* insert; recall embeds its query, runs a vector and a lexical search at  *)
(* the same time and fuses what they found; buildContext recalls and fits  *)
(* the result into a token budget (ContextBudget).                         *)
(*                                                                         *)
(* Each search is one statement with a snapshot of its own.  In between,   *)
(* other clients' memories appear, are superseded or expire, and are       *)
(* deleted.  A candidate list has an order among equal scores that nobody  *)
(* promises, and the vector index may miss memories.  Validation,          *)
(* compatibility checks, retries and audit events are modelled elsewhere   *)
(* (ClientLifecycle, EmbeddingCompatibility, Resilience, ClientOperations),*)
(* and so are access writes (PostgresStore).  Bound: one call, over the    *)
(* memories of one entity that pass the call's filters on types, tags and  *)
(* dates.                                                                  *)
(***************************************************************************)
EXTENDS RankFusion, EmbeddingBatch, ContextBudget

CONSTANTS
  Ids,       \* the stored memories, ordered by id
  Calls      \* what a call may ask for, and how the memories score for it

VARIABLES
  request,   \* the call
  step,      \* where it is
  outcome,   \* what it reported: "none", "ok" or an error
  vectors,   \* the embeddings it works with, each by its text
  saved,     \* the rows it inserted
  rows,      \* the rows it returns
  profile,   \* the memories' scores for this query
  status,    \* what became of every memory
  found,     \* the answer of each search, and what it looked at
  readAt,    \* when the clock was read to score a memory
  result     \* the ids that recall returns

callVars == <<request, step, outcome>>
batchVars == <<vectors, saved, rows>>
recallVars == <<profile, found, readAt, result>>
vars == <<callVars, batchVars, recallVars, status, budgetVars>>

(* "ownEmbedder": the caller's own embedder, else the OpenAI one.  An empty *)
(* batch returns at once and is left out.                                  *)
Storing == [kind : {"remember", "rememberMany"}, texts : Nat \ {0},
            ownEmbedder : BOOLEAN]
Searching == [kind : {"recall", "buildContext"}, texts : {1},
              ownEmbedder : BOOLEAN, limit : Nat \ {0},
              multiplier : Nat \ {0}, fusion : Fusions,
              minScore : Nat \X (Nat \ {0}), includeHidden : BOOLEAN]

(* The boost of a memory never rises as it grows older.                    *)
Boosts == {b \in [Instants -> 1 .. MaxBoost] :
             \A s, t \in Instants : s <= t => b[t] <= b[s]}
Scores == [vector : [Ids -> Nat], lexical : [Ids -> Nat],
           boost : [Ids -> Boosts], createdAt : [Ids -> Nat]]

ASSUME CallAssumption ==
  /\ Ids \subseteq Nat /\ IsFiniteSet(Ids)
  /\ Calls \subseteq [request : Storing \union Searching, profile : Scores]
  /\ \A c \in Calls : c.request.kind = "remember" => c.request.texts = 1

Unsearched == [done |-> FALSE, seen |-> {}, ids |-> <<>>]
Skipped == [Unsearched EXCEPT !.done = TRUE]

IsSearch == request.kind \in {"recall", "buildContext"}

(* A list with weight 0 is not searched.  Nothing reads the store before   *)
(* the searches, so any state of it then is an initial state.              *)
Init ==
  /\ \E c \in Calls : request = c.request /\ profile = c.profile
  /\ step = "embed" /\ outcome = "none"
  /\ vectors = <<>> /\ saved = {} /\ rows = <<>>
  /\ status \in [Ids -> IF IsSearch THEN {"unborn", "active"} ELSE {"unborn"}]
  /\ found = [l \in Lists |-> IF IsSearch /\ request.fusion[l] = 0
                              THEN Skipped ELSE Unsearched]
  /\ readAt = [m \in Ids |-> 0]
  /\ result = <<>>
  /\ BudgetInit

Report(o) == step' = "done" /\ outcome' = o /\ UNCHANGED request
GoTo(s) == step' = s /\ UNCHANGED <<request, outcome>>

-----------------------------------------------------------------------------
(* embedOne, embedMany                                                     *)

Accepted(items) ==
  /\ request.ownEmbedder \/ ValidResponse(items, request.texts)
  /\ IF request.kind = "rememberMany" THEN BatchAccepted(items, request.texts)
                                      ELSE SingleAccepted(items)

Embeddings(items) ==
  IF request.ownEmbedder THEN [i \in 1 .. request.texts |-> i]
                         ELSE SortByIndex(items)

Embed ==
  /\ step = "embed"
  /\ \E items \in Answers(request.texts) :
       \/ /\ Accepted(items)
          /\ vectors' = Embeddings(items)
          /\ GoTo(IF IsSearch THEN "search" ELSE "insert")
       \/ /\ ~Accepted(items)
          /\ Report("EMBEDDING")
          /\ UNCHANGED vectors
  /\ UNCHANGED <<saved, rows, recallVars, status, budgetVars>>

(* The provider, the caller's abort or the store fails the call; a failed  *)
(* search is not waited for by the other one.                              *)
Fail ==
  /\ step \in {"embed", "insert", "search"}
  /\ Report("FAILED")
  /\ UNCHANGED <<batchVars, recallVars, status, budgetVars>>

-----------------------------------------------------------------------------
(* remember, rememberMany                                                  *)

(* createStoredMemory: a new id, here the text's number, per text.         *)
Prepared == [i \in DOMAIN vectors |-> [id |-> i, vector |-> vectors[i]]]

(* What RETURNING may give the client: the rows in any order; or, from a   *)
(* store that breaks its contract, rows missing, twice or unknown.         *)
Returnable ==
  SeqOf(ToSet(Prepared) \union {[id |-> 0, vector |-> 0]}, Len(vectors) + 1)

(* The rows are inserted by one statement; its answer may get lost.        *)
Insert ==
  /\ step = "insert"
  /\ saved' = ToSet(Prepared)
  /\ \/ \E returned \in Returnable :
          \/ /\ RowsAccepted(Prepared, returned)
             /\ rows' = NormalizeStoreRows(Prepared, returned)
             /\ Report("ok")
          \/ /\ ~RowsAccepted(Prepared, returned)
             /\ Report("DB")
             /\ UNCHANGED rows
     \/ Report("FAILED") /\ UNCHANGED rows
  /\ UNCHANGED <<vectors, recallVars, status, budgetVars>>

-----------------------------------------------------------------------------
(* recall                                                                  *)

(* matchesRecallFilter; the lexical search lists only what matches, and    *)
(* the score 0 stands for no match.                                        *)
Visible(m) ==
  \/ status[m] = "active"
  \/ status[m] = "hidden" /\ request.includeHidden

Eligible(l) ==
  {m \in Ids : Visible(m) /\ (l = "lexical" => profile.lexical[m] > 0)}

CandidateLimit == request.limit * request.multiplier

(* ORDER BY score DESC LIMIT n, equal scores in any order.                 *)
TopLists(S, score, n) ==
  {list \in UNION {SetToSeqs(T) : T \in kSubset(Min({n, Cardinality(S)}), S)} :
     /\ \A i, j \in DOMAIN list : i < j => score[list[i]] >= score[list[j]]
     /\ \A i \in DOMAIN list, m \in S \ ToSet(list) :
          score[list[i]] >= score[m]}

(* The approximate vector index offers some of the rows (filters come after*)
(* its scan); without it, and for words, all are looked at.                *)
Scans(l) == IF l = "vector" THEN SUBSET Eligible(l) ELSE {Eligible(l)}

Search(l) ==
  /\ step = "search" /\ ~found[l].done
  /\ \E scan \in Scans(l) :
       \E list \in TopLists(scan, profile[l], CandidateLimit) :
         found' = [found EXCEPT
                     ![l] = [done |-> TRUE, seen |-> scan, ids |-> list]]
  /\ UNCHANGED <<callVars, batchVars, profile, readAt, result, status,
                 budgetVars>>

FoundLists == [vector |-> found.vector.ids, lexical |-> found.lexical.ids]
Order == Merged(FoundLists)

Fused(readings) == Fuse(FoundLists, profile, readings, request.fusion,
                        request.minScore, request.limit)

(* One map over the candidates scores them, each by the clock of then.     *)
ScoreAndSort == /\ readAt' \in Readings(Order, Ids)
                /\ result' = Fused(readAt')

SearchesDone == step = "search" /\ \A l \in Lists : found[l].done

AnswerRecall ==
  /\ SearchesDone /\ request.kind = "recall"
  /\ ScoreAndSort
  /\ Report("ok")
  /\ UNCHANGED <<batchVars, profile, found, status, budgetVars>>

RecallForContext ==
  /\ SearchesDone /\ request.kind = "buildContext"
  /\ ScoreAndSort
  /\ \E t \in Texts : t.memories = Len(result') /\ BeginContext(t)
  /\ GoTo("context")
  /\ UNCHANGED <<batchVars, profile, found, status>>

BuildContext ==
  /\ step = "context"
  /\ BudgetStep
  /\ IF stage' = "done" THEN Report("ok") ELSE UNCHANGED callVars
  /\ UNCHANGED <<batchVars, recallVars, status>>

-----------------------------------------------------------------------------
(* Other clients: remember; consolidate, or the clock; forget.             *)
Fates(s) == CASE s = "unborn" -> {"active"}
              [] s = "active" -> {"hidden", "deleted"}
              [] s = "hidden" -> {"deleted"}
              [] s = "deleted" -> {}

OtherClient(m) ==
  /\ step = "search"
  /\ \E fate \in Fates(status[m]) : status' = [status EXCEPT ![m] = fate]
  /\ UNCHANGED <<callVars, batchVars, recallVars, budgetVars>>

(* The bound: the one call has ended.                                      *)
Quiet == step = "done" /\ UNCHANGED vars

Next ==
  \/ Embed \/ Insert \/ Fail
  \/ \E l \in Lists : Search(l)
  \/ AnswerRecall \/ RecallForContext \/ BuildContext
  \/ \E m \in Ids : OtherClient(m)
  \/ Quiet

(* Once it has the memories, buildContext is one synchronous computation.  *)
(* The provider and the store need not answer.                             *)
Fairness == WF_vars(BuildContext)

Spec == Init /\ [][Next]_vars /\ Fairness

-----------------------------------------------------------------------------
(* The state is of its type, and buildContext's loops keep their           *)
(* invariants: the bounds of a search never cross by more than one, the    *)
(* best candidate is the one below the lower bound and fits, and what a    *)
(* loop has given up does not fit.                                         *)
CallInv ==
  /\ [request |-> request, profile |-> profile] \in Calls
  /\ step \in {"embed", "insert", "search", "context", "done"}
  /\ outcome \in {"none", "ok", "EMBEDDING", "DB", "FAILED"}
  /\ (step = "done") = (outcome # "none")
  /\ status \in [Ids -> {"unborn", "active", "hidden", "deleted"}]
  /\ \A l \in Lists : ToSet(found[l].ids) \subseteq found[l].seen
  /\ ToSet(result) \subseteq Ids /\ readAt \in [Ids -> Instants]
  /\ BudgetTypeOK /\ SearchInv /\ StageInv

(* A memory is never stored with another text's embedding, whatever order  *)
(* the provider and the store answer in; a batch is stored whole or not at *)
(* all, not at all when its embeddings are rejected; and the caller gets   *)
(* the memories in the order of its inputs.                                *)
BatchPaired ==
  /\ \A row \in saved : row.vector = row.id
  /\ saved # {} => {row.id : row \in saved} = 1 .. request.texts
  /\ outcome = "EMBEDDING" => saved = {}
  /\ outcome = "ok" /\ request.kind \in {"remember", "rememberMany"} =>
       /\ ToSet(rows) = saved
       /\ \A i \in DOMAIN rows : rows[i].id = i

(* x was looked at by every search that listed y, does at least as well in *)
(* it, and was not cut off by a tie at the candidate limit.                *)
KeepsUp(x, y) ==
  \A l \in Lists : y \in ToSet(found[l].ids) =>
    /\ x \in found[l].seen
    /\ \/ profile[l][x] > profile[l][y]
       \/ profile[l][x] = profile[l][y] /\ x \in ToSet(found[l].ids)

(* The boost of a memory at the time for which it was scored.              *)
BoostRead(m) == profile.boost[m][readAt[m]]

(* x was scored before y and is never boosted less: had the clock stood    *)
(* still, that alone would do.                                             *)
ScoredFirst(x, y) ==
  /\ \E i, j \in DOMAIN Order : i < j /\ Order[i] = x /\ Order[j] = y
  /\ \A t \in Instants : profile.boost[x][t] >= profile.boost[y][t]

WinsTie(x, y) ==
  \/ BoostRead(x) > BoostRead(y)
  \/ /\ BoostRead(x) = BoostRead(y) \/ ScoredFirst(x, y)
     /\ \/ profile.createdAt[x] > profile.createdAt[y]
        \/ profile.createdAt[x] = profile.createdAt[y] /\ x < y

(* A memory that does at least as well as a recalled one in both searches  *)
(* is recalled before it if it was scored with the higher boost; or if it  *)
(* is newer, or as new with the lower id, and its boost was the same or it *)
(* is boosted no less and came first in the lists.  The candidate limit    *)
(* and changes between the two searches do not put it behind.  The order   *)
(* of equal memories in a store's list may: the later one is scored later. *)
BetterNeverBelow ==
  \A n \in DOMAIN result, x \in Ids :
    KeepsUp(x, result[n]) /\ WinsTie(x, result[n]) =>
      \E m \in 1 .. n - 1 : result[m] = x

(* Each of buildContext's loops stops, whatever the counter says of each   *)
(* text, and the call ends.                                                *)
ContextEnds == step = "context" ~> step = "done"
=============================================================================
