--------------------------- MODULE MCEmbeddedCalls ---------------------------
(* A small instance of EmbeddedCalls for TLC: three memories; the batches  *)
(* have up to three texts.                                                 *)
EXTENDS EmbeddedCalls, TLC

Storage(kind, n, own) == [kind |-> kind, texts |-> n, ownEmbedder |-> own]

Recalling(kind, limit, multiplier, vector, lexical, minScore, hidden) ==
  [kind |-> kind, texts |-> 1, ownEmbedder |-> FALSE, limit |-> limit,
   multiplier |-> multiplier, minScore |-> minScore, includeHidden |-> hidden,
   fusion |-> [k |-> 2, vector |-> vector, lexical |-> lexical]]

Profile(vector, lexical, boost, createdAt) ==
  [vector |-> vector, lexical |-> lexical, boost |-> boost,
   createdAt |-> createdAt]

Call(r, p) == [request |-> r, profile |-> p]

MCStorage ==
  {Storage("remember", 1, TRUE), Storage("remember", 1, FALSE),
   Storage("rememberMany", 2, TRUE), Storage("rememberMany", 3, FALSE)}

(* A boost that stays, and one that falls while the memories are scored.   *)
Steady(b) == [t \in Instants |-> b]
Falling == [t \in Instants |-> IF t = 0 THEN 2 ELSE 1]

Ordered == Profile(<<3, 2, 1>>, <<1, 1, 1>>, [m \in Ids |-> Steady(2)],
                   <<1, 1, 1>>)

(* Ties in one list and in both, memories that one search does not find,   *)
(* and boosts and ages that agree or disagree with the scores.             *)
Profiles ==
  {Profile(v, l, b, c) :
     v \in {<<2, 2, 1>>, <<1, 1, 2>>},
     l \in {<<0, 1, 1>>, <<2, 1, 1>>},
     b \in {[m \in Ids |-> Falling], <<Steady(1), Falling, Steady(2)>>},
     c \in {<<1, 1, 2>>}}

MCCalls ==
  {Call(r, Ordered) : r \in MCStorage}
  \union {Call(Recalling("recall", 2, 1, 1, 1, <<0, 1>>, FALSE), p) :
             p \in Profiles}
  \union {Call(Recalling("recall", 1, 2, 2, 1, <<1, 2>>, TRUE), p) :
             p \in Profiles}
  \union {Call(Recalling("recall", 3, 1, 0, 1, <<0, 1>>, FALSE), p) :
             p \in Profiles}
  \union {Call(Recalling("buildContext", 3, 1, 1, 0, <<0, 1>>, TRUE), Ordered)}

(* A table of counts over 0 .. n, each within the budget of 1 or not.      *)
Tables(n) == [0 .. n -> {1, 2}]
Over(n) == [i \in 0 .. n |-> 2]
Candidates(contexts, cuts, fragments) ==
  [memories |-> Cardinality(DOMAIN contexts) - 1, contexts |-> contexts,
   length |-> Cardinality(DOMAIN cuts) - 1, cuts |-> cuts,
   marker |-> Cardinality(DOMAIN fragments), fragments |-> fragments,
   maxTokens |-> 1]

(* A later ladder matters only when nothing of the ones before fits.       *)
MCTexts == UNION {
  {Candidates(x, Over(1), <<2>>) : x \in Tables(n)}
  \union {Candidates(Over(n), u, <<2>>) : u \in Tables(4)}
  \union {Candidates(Over(n), Over(1), f) : f \in [1 .. 3 -> {1, 2}]}
  : n \in 0 .. 3}
=============================================================================
