---------------------------- MODULE EmbeddingBatch ----------------------------
(***************************************************************************)
(* How a batch of texts, the provider's answer and the rows the store      *)
(* returns are paired: by position, after checks                           *)
(* (src/embedders/openai.ts, src/memory/embeddings.ts, normalizeStoreRows  *)
(* in src/memory/client-core.ts).  The embedding of text i is modelled by  *)
(* i itself; the texts of a batch are numbered from 1.                     *)
(***************************************************************************)
EXTENDS Integers, SequencesExt

(* An item of the provider's answer: the index it claims (from 0), and     *)
(* whether its embedding is an array of the right dimensions, finite and   *)
(* not zero.                                                               *)
Items(n) == [index : -1 .. n, sound : BOOLEAN]

(* Every answer to n texts, up to one item too many.                       *)
Answers(n) == SeqOf(Items(n), n + 1)

Indices(answer) == {answer[i].index : i \in DOMAIN answer}

(* validateEmbeddingResponse: as many items as texts, and an index for     *)
(* each of them, in range and not claimed twice.                           *)
ValidResponse(answer, n) ==
  /\ Len(answer) = n
  /\ Indices(answer) \subseteq 0 .. n - 1
  /\ \A i, j \in DOMAIN answer : answer[i].index = answer[j].index => i = j

AsReceived(answer) ==  \* fault: the items are not sorted by index
  [i \in DOMAIN answer |-> answer[i].index + 1]
SortByIndex(answer) ==
  LET Below(x) == {y \in Indices(answer) : y < x}
  IN [i \in DOMAIN answer |->
        1 + CHOOSE x \in Indices(answer) : Cardinality(Below(x)) = i - 1]

Sound(answer) == \A i \in DOMAIN answer : answer[i].sound

(* embedMany and embedOne over an embedder of the caller, whose answer is  *)
(* taken by position: one embedding per text, or the first for one text.   *)
BatchAccepted(answer, n) == Len(answer) = n /\ Sound(answer)
SingleAccepted(answer) == Len(answer) > 0 /\ answer[1].sound

(* The rows a store returned for prepared rows, in any order, checked and  *)
(* put back in the order of the input.                                     *)
RowIds(rows) == {rows[i].id : i \in DOMAIN rows}

RowsAccepted(prepared, returned) ==
  /\ RowIds(returned) = RowIds(prepared)
  /\ Len(returned) = Len(prepared)

NormalizeStoreRows(prepared, returned) ==
  [i \in DOMAIN prepared |->
     CHOOSE row \in ToSet(returned) : row.id = prepared[i].id]
=============================================================================
