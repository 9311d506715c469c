------------------------------ MODULE RankFusion ------------------------------
(***************************************************************************)
(* Weighted reciprocal rank fusion of the two candidate lists of a recall  *)
(* (src/retrieval/scorer.ts).  A score is an exact fraction                *)
(* <<numerator, denominator>>; the boost of a memory (recency and          *)
(* importance) is a whole number of MaxBoost-ths.  It falls with time, and *)
(* the clock is read anew for every candidate, in the order of the lists.  *)
(* Bound: the clock shows at most LastInstant + 1 times meanwhile.         *)
(***************************************************************************)
EXTENDS Integers, SequencesExt

CONSTANTS
  MaxBoost,    \* the boost factor 1
  LastInstant  \* the last time that the clock shows during one fusion

ASSUME BoostAssumption == MaxBoost \in Nat \ {0} /\ LastInstant \in Nat

Instants == 0 .. LastInstant

(* The weights of the two lists and the constant k.                        *)
Fusions == {f \in [k : Nat, vector : Nat, lexical : Nat] :
              f.vector + f.lexical > 0}

Lists == {"vector", "lexical"}
NoRank == 0  \* the null of vectorRank and lexicalRank

Plus(a, b) == <<a[1] * b[2] + b[1] * a[2], a[2] * b[2]>>
AtLeast(a, b) == a[1] * b[2] >= b[1] * a[2]

RankByPosition(scores) ==  \* fault: equal scores do not share a rank
  [i \in 1 .. Len(scores) |-> i]
RankByScore(scores) ==
  LET rank[i \in 1 .. Len(scores)] ==
        IF i > 1 /\ scores[i] = scores[i - 1] THEN rank[i - 1] ELSE i
  IN rank

(* The rank of memory m in a list of ids, given the score of every memory. *)
RankOf(list, score, m) ==
  IF m \in ToSet(list)
  THEN LET ranks == RankByScore([i \in DOMAIN list |-> score[list[i]]])
       IN ranks[CHOOSE i \in DOMAIN list : list[i] = m]
  ELSE NoRank

Share(weight, rank, k) ==
  IF rank = NoRank THEN <<0, 1>> ELSE <<weight, k + rank>>

(* At most 1: rank 1 in both lists scores (vector + lexical) / (k + 1).    *)
FusedScore(vectorRank, lexicalRank, fusion) ==
  LET sum == Plus(Share(fusion.vector, vectorRank, fusion.k),
                  Share(fusion.lexical, lexicalRank, fusion.k))
  IN <<sum[1] * (fusion.k + 1), sum[2] * (fusion.vector + fusion.lexical)>>

Boosted(fused, boost) == <<fused[1] * boost, fused[2] * MaxBoost>>

(* compareScoredMemories: the higher score, then the newer, then the lower *)
(* id comes first.                                                         *)
Precedes(a, b) ==
  \/ ~AtLeast(b.score, a.score)
  \/ /\ AtLeast(a.score, b.score)
     /\ \/ a.createdAt > b.createdAt
        \/ a.createdAt = b.createdAt /\ a.id < b.id

(* The members of a finite set, sorted.                                    *)
InOrder(S) == CHOOSE s \in SetToSeqs(S) : IsSorted(s, Precedes)

(* The candidates in the order in which they are scored, and the times at  *)
(* which the clock may be read for them.                                   *)
Merged(lists) ==
  LET IsNew(m) == m \notin ToSet(lists.vector)
  IN lists.vector \o SelectSeq(lists.lexical, IsNew)

Readings(order, ids) ==
  {r \in [ids -> Instants] :
     /\ \A i, j \in DOMAIN order : i < j => r[order[i]] <= r[order[j]]
     /\ \A m \in ids \ ToSet(order) : r[m] = 0}

(* recall: merge the lists, score, filter, sort and cut.  "memories" has   *)
(* the similarity, the lexical score, the boost at every instant and the   *)
(* creation time of every memory.                                          *)
Scored(lists, memories, readAt, fusion) ==
  LET Rank(l, m) == RankOf(lists[l], memories[l], m)
  IN {[id |-> m,
       score |-> Boosted(FusedScore(Rank("vector", m), Rank("lexical", m),
                                    fusion),
                         memories.boost[m][readAt[m]]),
       createdAt |-> memories.createdAt[m]] :
        m \in ToSet(lists.vector) \union ToSet(lists.lexical)}

Fuse(lists, memories, readAt, fusion, minScore, limit) ==
  LET kept == {c \in Scored(lists, memories, readAt, fusion) :
                 AtLeast(c.score, minScore)}
      sorted == InOrder(kept)
  IN [i \in 1 .. Min({limit, Len(sorted)}) |-> sorted[i].id]
=============================================================================
