------------------------- MODULE EmbeddedCallsProofs -------------------------
(***************************************************************************)
(* Theorems about EmbeddedCalls for any number of texts, any memories and  *)
(* scores, and any context texts.                                          *)
(*                                                                         *)
(* Pairing: an answer that is accepted names every text once, so sorting   *)
(* it by index puts embedding i in place i; rows that are accepted are the *)
(* prepared rows in some order.  Contexts: BudgetInv is inductive for the  *)
(* loops of ContextBudget.  A probe moves one bound past its candidate: up *)
(* if the candidate fits, which makes it the best one; down if not, and    *)
(* then, if sizes grow, nothing from the candidate up fits.  Every step of *)
(* a call is a step of ContextBudget or leaves it alone.  Ranking: equal   *)
(* scores share a rank, so what is at least as good in a list has no       *)
(* higher rank there, hence no smaller share; and the order of the scored  *)
(* memories is total, so what is kept can be sorted.                       *)
(***************************************************************************)
EXTENDS EmbeddedCalls, FiniteSetTheorems, FunctionTheorems,
        WellFoundedInduction, TLAPS

-----------------------------------------------------------------------------
(* buildContext's loops (ContextBudget), on their own.                     *)

(* The midpoint of two bounds that have not crossed lies between them.     *)
LEMMA Midpoint ==
  ASSUME NEW l \in Nat, NEW h \in Int, l <= h
  PROVE  /\ (l + h) \div 2 \in l .. h
         /\ (l + h) \div 2 \in Nat
OBVIOUS

(* If sizes grow and one candidate does not fit, none above it does.       *)
LEMMA NoneAbove ==
  ASSUME NEW last \in Nat, NEW size \in [0 .. last -> Nat],
         NEW m \in 0 .. last, text.maxTokens \in Nat,
         ~Fits(size[m]), Grows(size, last)
  PROVE  LastFit(size, last, m - 1)
<1> SUFFICES ASSUME NEW i \in m .. last PROVE ~Fits(size[i])
  BY DEF LastFit
<1>1. size[m] <= size[i] /\ size[m] \in Nat /\ size[i] \in Nat
  BY DEF Grows
<1>2. QED BY <1>1 DEF Fits

LEMMA BudgetInitInv == BudgetInit => BudgetInv
BY DEF BudgetInit, BudgetInv, BudgetTypeOK, SearchInv, StageInv,
       LargestContext, Searches, NoAnswer, None

(* The ladder that is searched.                                            *)
LEMMA Ladder ==
  ASSUME BudgetInv, stage # "idle"
  PROVE  /\ text \in Texts
         /\ text.memories \in Nat
         /\ text.contexts \in [0 .. text.memories -> Nat]
         /\ text.length \in Nat /\ text.cuts \in [0 .. text.length -> Nat]
         /\ text.marker \in Nat /\ text.fragments \in [1 .. text.marker -> Nat]
         /\ text.maxTokens \in Nat
         /\ Top \in Nat /\ Size \in [0 .. Top -> Nat]
<1>1. text \in Texts
  BY DEF BudgetInv, BudgetTypeOK
<1>2. QED BY <1>1, TextsAssumption DEF Top, Size

LEMMA BeginContextInv ==
  ASSUME BudgetInv, NEW t \in Texts, BeginContext(t)
  PROVE  BudgetInv'
<1>1. /\ t.memories \in Nat /\ t.contexts \in [0 .. t.memories -> Nat]
  BY TextsAssumption
<1>2. BudgetTypeOK'
  BY <1>1 DEF BeginContext, BudgetInv, BudgetTypeOK, None
<1>3. SearchInv'
  BY <1>1 DEF BeginContext, SearchInv, Searches, Top, Size, None, LastFit
<1>4. StageInv' /\ LargestContext'
  BY DEF BeginContext, StageInv, LargestContext
<1>5. QED BY <1>2, <1>3, <1>4 DEF BudgetInv

LEMMA ProbeInv ==
  ASSUME BudgetInv, Probe
  PROVE  BudgetInv'
<1> DEFINE mid == (low + high) \div 2
<1>1. /\ stage \in Searches /\ stage' = stage /\ text' = text
      /\ answer' = answer /\ Size' = Size /\ Top' = Top
      /\ stage # "idle" /\ stage # "marker" /\ stage # "done"
  BY DEF Probe, Searches, Size, Top
<1>2. /\ low \in Nat /\ high \in Int /\ low <= high /\ high <= Top
      /\ best = low - 1
      /\ best # None => Fits(Size[best])
      /\ high < Top => ~Fits(Size[high + 1])
      /\ Grows(Size, Top) => LastFit(Size, Top, high)
  BY <1>1 DEF Probe, Narrowing, BudgetInv, BudgetTypeOK, SearchInv
<1>3. /\ Top \in Nat /\ Size \in [0 .. Top -> Nat] /\ text.maxTokens \in Nat
  BY <1>1, Ladder
<1>4. mid \in low .. high /\ mid \in Nat /\ mid \in 0 .. Top
  <2>1. mid \in low .. high /\ mid \in Nat
    BY <1>2, Midpoint
  <2>2. QED BY <2>1, <1>2, <1>3
<1>5. BudgetTypeOK' /\ SearchInv'
  <2>1. CASE Fits(Size[mid])
    <3>1. best' = mid /\ low' = mid + 1 /\ high' = high
      BY <2>1 DEF Probe, Narrow
    <3>2. BudgetTypeOK'
      BY <1>1, <1>2, <1>4, <3>1 DEF BudgetInv, BudgetTypeOK
    <3>3. Fits(Size[best])'
      BY <1>1, <2>1, <3>1 DEF Fits
    <3>4. Grows(Size, Top)' => LastFit(Size, Top, high)'
      BY <1>1, <1>2, <3>1 DEF Grows, LastFit, Fits
    <3>5. /\ low' <= high' + 1 /\ high' <= Top' /\ best' = low' - 1
      BY <1>1, <1>2, <1>3, <1>4, <3>1
    <3>6. (high < Top => ~Fits(Size[high + 1]))'
      BY <1>1, <1>2, <3>1 DEF Fits
    <3>7. QED BY <3>2, <3>3, <3>4, <3>5, <3>6 DEF SearchInv
  <2>2. CASE ~Fits(Size[mid])
    <3>1. best' = best /\ low' = low /\ high' = mid - 1
      BY <2>2 DEF Probe, Narrow
    <3>2. BudgetTypeOK'
      BY <1>1, <1>2, <1>4, <3>1 DEF BudgetInv, BudgetTypeOK
    <3>3. (best # None => Fits(Size[best]))'
      BY <1>1, <1>2, <3>1 DEF Fits, None
    <3>4. Grows(Size, Top)' => LastFit(Size, Top, high)'
      <4>1. Grows(Size, Top) => LastFit(Size, Top, mid - 1)
        BY <1>3, <1>4, <2>2, NoneAbove
      <4>2. QED BY <1>1, <3>1, <4>1 DEF Grows, LastFit, Fits
    <3>5. /\ low' <= high' + 1 /\ high' <= Top' /\ best' = low' - 1
      BY <1>1, <1>2, <1>3, <1>4, <3>1
    <3>6. ~Fits(Size[high + 1])'
      <4>1. mid - 1 + 1 = mid
        BY <1>4
      <4>2. QED BY <1>1, <2>2, <3>1, <4>1 DEF Fits
    <3>7. QED BY <3>2, <3>3, <3>4, <3>5, <3>6 DEF SearchInv
  <2>3. QED BY <2>1, <2>2
<1>6. StageInv'
  BY <1>1 DEF BudgetInv, StageInv, Fits, NoContextFits, LastFit, Grows, None
<1>7. LargestContext'
  BY <1>1 DEF LargestContext
<1>8. QED BY <1>5, <1>6, <1>7 DEF BudgetInv

(* What is known when a search ends: the best candidate is the largest that *)
(* fits, and if there is none then not even the first one fits.            *)
LEMMA SearchEnd ==
  ASSUME BudgetInv, stage \in Searches, ~Narrowing
  PROVE  /\ high = low - 1 /\ best = low - 1 /\ low \in Nat
         /\ best # None => best \in 0 .. Top /\ Fits(Size[best])
         /\ best = None => ~Fits(Size[0])
         /\ Grows(Size, Top) => LastFit(Size, Top, best)
<1>1. /\ low \in Nat /\ high \in Int /\ best \in Int
      /\ low <= high + 1 /\ high <= Top /\ best = low - 1
      /\ best # None => Fits(Size[best])
      /\ high < Top => ~Fits(Size[high + 1])
      /\ Grows(Size, Top) => LastFit(Size, Top, high)
  BY DEF BudgetInv, BudgetTypeOK, SearchInv
<1>2. Top \in Nat
  BY Ladder DEF Searches
<1>3. high = low - 1
  BY <1>1 DEF Narrowing
<1>4. best # None => best \in 0 .. Top
  BY <1>1, <1>2, <1>3 DEF None
<1>5. Grows(Size, Top) => LastFit(Size, Top, best)
  BY <1>1, <1>3
<1>6. best = None => ~Fits(Size[0])
  <2> SUFFICES ASSUME best = None PROVE ~Fits(Size[0])
    OBVIOUS
  <2>1. high = -1 /\ high < Top /\ high + 1 = 0
    BY <1>1, <1>2, <1>3 DEF None
  <2>2. QED BY <1>1, <2>1
<1>7. QED BY <1>1, <1>3, <1>4, <1>5, <1>6
LEMMA EndContextsInv ==
  ASSUME BudgetInv, ReturnContext \/ CutHeader
  PROVE  BudgetInv'
<1>1. /\ stage = "contexts" /\ ~Narrowing /\ text' = text /\ text \in Texts
      /\ Size = text.contexts /\ Top = text.memories
      /\ text.memories \in Nat /\ text.length \in Nat
      /\ low \in Nat /\ high \in Int /\ best \in Int
  BY Ladder DEF ReturnContext, CutHeader, ReturnText, Size, Top, BudgetInv,
                BudgetTypeOK
<1>2. /\ best # None => /\ best \in 0 .. text.memories
                        /\ Fits(text.contexts[best])
      /\ best = None => ~Fits(text.contexts[0])
      /\ Grows(text.contexts, text.memories) =>
           LastFit(text.contexts, text.memories, best)
  BY <1>1, SearchEnd DEF Searches
<1>3. CASE ReturnContext
  <2>1. /\ stage' = "done"
        /\ \/ /\ best # None
              /\ answer' = [kind |-> "context", keeps |-> best]
           \/ /\ best = None /\ text.memories = 0
              /\ answer' = [kind |-> "empty", keeps |-> 0]
        /\ UNCHANGED <<text, low, high, best>>
    BY <1>3 DEF ReturnContext, ReturnText
  <2>2. BudgetTypeOK'
    BY <1>1, <1>2, <2>1 DEF BudgetTypeOK
  <2>3. SearchInv' /\ StageInv'
    BY <2>1 DEF SearchInv, StageInv, Searches
  <2>4. LargestContext'
    <3>1. CASE answer' = [kind |-> "context", keeps |-> best] /\ best # None
      BY <1>1, <1>2, <2>1, <3>1
      DEF LargestContext, WithinBudget, Fits, LastFit, Grows
    <3>2. CASE answer' = [kind |-> "empty", keeps |-> 0] /\ best = None
               /\ text.memories = 0
      BY <1>1, <1>2, <2>1, <3>2
      DEF LargestContext, WithinBudget, NoContextFits, Fits, LastFit, Grows
    <3>3. QED BY <2>1, <3>1, <3>2
  <2>5. QED BY <2>2, <2>3, <2>4 DEF BudgetInv
<1>4. CASE CutHeader
  <2>1. /\ stage' = "cuts" /\ low' = 0 /\ high' = text.length /\ best' = None
        /\ answer' = answer /\ best = None /\ text.memories > 0
    BY <1>4 DEF CutHeader
  <2>2. BudgetTypeOK'
    BY <1>1, <2>1 DEF BudgetInv, BudgetTypeOK, None
  <2>3. SearchInv'
    BY <1>1, <2>1 DEF SearchInv, Searches, Top, Size, None, LastFit
  <2>4. StageInv'
    BY <1>1, <1>2, <2>1 DEF StageInv, NoContextFits, Fits, LastFit, Grows
  <2>5. LargestContext'
    BY <2>1 DEF LargestContext
  <2>6. QED BY <2>2, <2>3, <2>4, <2>5 DEF BudgetInv
<1>5. QED BY <1>3, <1>4
LEMMA EndCutsInv ==
  ASSUME BudgetInv, ReturnCut \/ CutMarker
  PROVE  BudgetInv'
<1>1. /\ stage = "cuts" /\ ~Narrowing /\ text' = text /\ text \in Texts
      /\ Size = text.cuts /\ Top = text.length
      /\ text.length \in Nat /\ text.marker \in Nat
      /\ low \in Nat /\ high \in Int /\ best \in Int
  BY Ladder DEF ReturnCut, CutMarker, ReturnText, Size, Top, BudgetInv,
                BudgetTypeOK
<1>2. /\ best # None => best \in 0 .. text.length /\ Fits(text.cuts[best])
      /\ best = None => ~Fits(text.cuts[0])
      /\ Grows(text.cuts, text.length) => LastFit(text.cuts, text.length, best)
  BY <1>1, SearchEnd DEF Searches
<1>3. /\ text.memories > 0 /\ ~Fits(text.contexts[0])
      /\ Grows(text.contexts, text.memories) => NoContextFits
  BY <1>1 DEF BudgetInv, StageInv
<1>4. CASE ReturnCut
  <2>1. /\ stage' = "done" /\ best # None
        /\ answer' = [kind |-> "cut", keeps |-> best]
        /\ UNCHANGED <<text, low, high, best>>
    BY <1>4 DEF ReturnCut, ReturnText
  <2>2. BudgetTypeOK'
    BY <1>1, <1>2, <2>1 DEF BudgetTypeOK
  <2>3. SearchInv' /\ StageInv'
    BY <2>1 DEF SearchInv, StageInv, Searches
  <2>4. LargestContext'
    BY <1>1, <1>2, <1>3, <2>1
    DEF LargestContext, WithinBudget, NoContextFits, Fits, LastFit, Grows
  <2>5. QED BY <2>2, <2>3, <2>4 DEF BudgetInv
<1>5. CASE CutMarker
  <2>1. /\ stage' = "marker" /\ best = None /\ high' = text.marker
        /\ UNCHANGED <<text, low, best, answer>>
    BY <1>5 DEF CutMarker
  <2>2. BudgetTypeOK'
    BY <1>1, <2>1 DEF BudgetInv, BudgetTypeOK
  <2>3. SearchInv'
    BY <2>1 DEF SearchInv, Searches
  <2>4. Grows(text.cuts, text.length) => NoCutFits
    BY <1>2, <2>1 DEF NoCutFits
  <2>5. StageInv'
    BY <1>1, <1>2, <1>3, <2>1, <2>4
    DEF StageInv, NoContextFits, NoCutFits, Fits, LastFit, Grows
  <2>6. LargestContext'
    BY <2>1 DEF LargestContext
  <2>7. QED BY <2>2, <2>3, <2>5, <2>6 DEF BudgetInv
<1>6. QED BY <1>4, <1>5

LEMMA MarkerInv ==
  ASSUME BudgetInv, ReturnFragment \/ ShortenFragment
  PROVE  BudgetInv'
<1>1. /\ stage = "marker" /\ text' = text /\ text \in Texts
      /\ text.marker \in Nat /\ low \in Nat /\ best \in Int
      /\ text.memories > 0 /\ ~Fits(text.contexts[0])
      /\ Grows(text.contexts, text.memories) => NoContextFits
      /\ high \in 0 .. text.marker
      /\ ~Fits(text.cuts[0])
      /\ Grows(text.cuts, text.length) => NoCutFits
      /\ \A k \in high + 1 .. text.marker : ~Fits(text.fragments[k])
  BY Ladder DEF ReturnFragment, ShortenFragment, ReturnText, BudgetInv,
                BudgetTypeOK, StageInv
<1>2. CASE ReturnFragment
  <2>1. /\ stage' = "done"
        /\ \/ /\ high > 0 /\ Fits(text.fragments[high])
              /\ answer' = [kind |-> "fragment", keeps |-> high]
           \/ high = 0 /\ answer' = [kind |-> "empty", keeps |-> 0]
        /\ UNCHANGED <<text, low, high, best>>
    BY <1>2 DEF ReturnFragment, ReturnText
  <2>2. BudgetTypeOK'
    BY <1>1, <2>1 DEF BudgetTypeOK
  <2>3. SearchInv' /\ StageInv'
    BY <2>1 DEF SearchInv, StageInv, Searches
  <2>4. answer'.keeps = high
        /\ answer'.kind \in {"fragment", "empty"}
        /\ (answer'.kind = "fragment" => high \in 1 .. text.marker
                                        /\ Fits(text.fragments[high]))
    BY <1>1, <2>1
  <2>5. LargestContext'
    BY <1>1, <2>1, <2>4
    DEF LargestContext, WithinBudget, NoContextFits, NoCutFits, Fits, LastFit,
        Grows
  <2>6. QED BY <2>2, <2>3, <2>5 DEF BudgetInv
<1>3. CASE ShortenFragment
  <2>1. /\ stage' = "marker" /\ high > 0 /\ high' = high - 1
        /\ ~Fits(text.fragments[high])
        /\ UNCHANGED <<text, low, best, answer>>
    BY <1>1, <1>3 DEF ShortenFragment
  <2>2. BudgetTypeOK'
    BY <1>1, <2>1 DEF BudgetTypeOK, BudgetInv
  <2>3. SearchInv' /\ LargestContext'
    BY <2>1 DEF SearchInv, LargestContext, Searches
  <2>4. high' \in 0 .. text.marker
        /\ \A k \in high' + 1 .. text.marker : ~Fits(text.fragments[k])
    BY <1>1, <2>1
  <2>5. StageInv'
    BY <1>1, <2>1, <2>4
    DEF StageInv, NoContextFits, NoCutFits, Fits, LastFit, Grows
  <2>6. QED BY <2>2, <2>3, <2>5 DEF BudgetInv
<1>4. QED BY <1>2, <1>3

(* Also what the composition needs: each step of the loops, from any state *)
(* of the invariant, keeps it.                                             *)
LEMMA BudgetNextInv ==
  ASSUME BudgetInv, [BudgetNext]_budgetVars
  PROVE  BudgetInv'
<1>1. CASE UNCHANGED budgetVars
  BY <1>1 DEF budgetVars, BudgetInv, BudgetTypeOK, SearchInv, StageInv,
    LargestContext, WithinBudget, NoContextFits, NoCutFits, Fits, LastFit,
    Grows, Size, Top
<1>2. CASE BudgetNext
  BY <1>2, BeginContextInv, ProbeInv, EndContextsInv, EndCutsInv, MarkerInv
  DEF BudgetNext, BudgetStep
<1>3. QED BY <1>1, <1>2

(* The loops of buildContext keep their bounds in order, and know what     *)
(* fits and what does not.                                                 *)
THEOREM LoopsCorrect == BudgetSpec => []BudgetInv
<1>1. BudgetInit => BudgetInv
  BY BudgetInitInv
<1>2. BudgetInv /\ [BudgetNext]_budgetVars => BudgetInv'
  BY BudgetNextInv
<1>3. QED BY <1>1, <1>2, PTL DEF BudgetSpec

(* A context that buildContext returns is within the budget, and for a     *)
(* counter that grows with the text it is the largest: nothing longer of   *)
(* its ladder fits, and nothing at all of the ladders before it.           *)
THEOREM ContextIsLargest == BudgetSpec => []LargestContext
<1>1. BudgetInv => LargestContext
  BY DEF BudgetInv
<1>2. QED BY <1>1, LoopsCorrect, PTL

(* How many turns the loops have left, at most.                            *)
TurnsLeft ==
  CASE stage \in {"idle", "done"} -> 0
    [] stage = "marker" -> high + 1
    [] stage = "cuts" -> (high - low + 1) + text.marker + 2
    [] stage = "contexts" ->
         (high - low + 1) + (text.length + 1) + text.marker + 3

LEMMA TurnsAreCounted == BudgetInv => TurnsLeft \in Nat
<1> SUFFICES ASSUME BudgetInv, stage # "idle" PROVE TurnsLeft \in Nat
  BY DEF TurnsLeft
<1>1. stage \in {"contexts", "cuts", "marker", "done"}
  BY DEF BudgetInv, BudgetTypeOK
<1>2. text.length \in Nat /\ text.marker \in Nat /\ low \in Nat /\ high \in Int
  BY Ladder DEF BudgetInv, BudgetTypeOK
<1>3. stage \in Searches => high - low + 1 \in Nat
  BY <1>2 DEF BudgetInv, SearchInv
<1>4. stage = "marker" => high \in Nat
  BY <1>2 DEF BudgetInv, StageInv
<1>5. CASE stage = "contexts"
  BY <1>2, <1>3, <1>5 DEF TurnsLeft, Searches
<1>6. CASE stage = "cuts"
  BY <1>2, <1>3, <1>6 DEF TurnsLeft, Searches
<1>7. CASE stage = "marker"
  BY <1>4, <1>7 DEF TurnsLeft
<1>8. CASE stage = "done"
  BY <1>8 DEF TurnsLeft
<1>9. QED BY <1>1, <1>5, <1>6, <1>7, <1>8

LEMMA TurnsGoDown ==
  ASSUME BudgetInv, BudgetStep
  PROVE  TurnsLeft' < TurnsLeft
<1>1. TurnsLeft \in Nat
  BY TurnsAreCounted
<1>2. stage # "idle"
  BY DEF BudgetStep, Probe, Searches, ReturnContext, CutHeader, ReturnCut,
         CutMarker, ReturnFragment, ShortenFragment
<1>3. text.length \in Nat /\ text.marker \in Nat /\ low \in Nat /\ high \in Int
  BY <1>2, Ladder DEF BudgetInv, BudgetTypeOK
<1>4. stage \in Searches => low <= high + 1
  BY DEF BudgetInv, SearchInv
<1>5. CASE Probe
  <2>1. PICK mid \in Int : mid = (low + high) \div 2
    BY <1>3
  <2>2. mid \in low .. high
    BY <1>3, <1>5, <2>1, Midpoint DEF Probe, Narrowing
  <2>3. /\ UNCHANGED <<stage, text>> /\ stage \in Searches
        /\ \/ low' = mid + 1 /\ high' = high
           \/ low' = low /\ high' = mid - 1
    BY <1>5, <2>1 DEF Probe, Narrow
  <2>4. high' - low' + 1 < high - low + 1
        /\ high' - low' + 1 \in Int /\ high - low + 1 \in Int
    BY <1>3, <2>2, <2>3
  <2>5. QED BY <1>3, <2>3, <2>4 DEF TurnsLeft, Searches
<1>6. CASE CutHeader
  BY <1>3, <1>4, <1>6 DEF CutHeader, TurnsLeft, Searches
<1>7. CASE CutMarker
  BY <1>3, <1>4, <1>7 DEF CutMarker, TurnsLeft, Searches
<1>8. CASE ReturnContext \/ ReturnCut \/ ReturnFragment
  <2>1. stage' = "done"
    BY <1>8 DEF ReturnContext, ReturnCut, ReturnFragment, ReturnText
  <2>2. TurnsLeft' = 0
    BY <2>1 DEF TurnsLeft
  <2>3. TurnsLeft # 0
    <3>1. \/ stage \in Searches
          \/ stage = "marker" /\ high \in Nat
      BY <1>8 DEF ReturnContext, ReturnCut, ReturnFragment, Searches,
                  BudgetInv, StageInv
    <3>2. QED BY <1>3, <1>4, <3>1 DEF TurnsLeft, Searches
  <2>4. QED BY <1>1, <2>2, <2>3
<1>9. CASE ShortenFragment
  BY <1>3, <1>9 DEF ShortenFragment, TurnsLeft
<1>10. QED BY <1>5, <1>6, <1>7, <1>8, <1>9 DEF BudgetStep

(* Every turn of buildContext's loops leaves fewer turns, whatever the     *)
(* counter says of the texts: none of the loops runs for ever.             *)
THEOREM LoopsRunDown ==
  BudgetSpec => /\ [](TurnsLeft \in Nat)
                /\ [][BudgetStep => TurnsLeft' < TurnsLeft]_budgetVars
<1>1. BudgetInv /\ [BudgetNext]_budgetVars =>
        [BudgetStep => TurnsLeft' < TurnsLeft]_budgetVars
  BY TurnsGoDown
<1>2. QED BY <1>1, TurnsAreCounted, LoopsCorrect, PTL DEF BudgetSpec

-----------------------------------------------------------------------------
(* The calls.                                                              *)

(* The texts of a call in order, and a row for each.                       *)
Identity(n) == [i \in 1 .. n |-> i]
RowsFor(n) == [i \in 1 .. n |-> [id |-> i, vector |-> i]]

(* An interval from 0 has as many members as its upper end says.           *)
LEMMA SizeBelow ==
  ASSUME NEW n \in Nat
  PROVE  IsFiniteSet(0 .. n - 1) /\ Cardinality(0 .. n - 1) = n
<1>1. 0 \in Int /\ n - 1 \in Int
  OBVIOUS
<1>2. IsFiniteSet(0 .. n - 1)
  BY <1>1, FS_Interval
<1>3. Cardinality(0 .. n - 1) = IF 0 > n - 1 THEN 0 ELSE n - 1 - 0 + 1
  BY <1>1, FS_Interval
<1>4. QED BY <1>2, <1>3

(* The indices of a valid answer to n texts are 0 .. n - 1.                *)
LEMMA AllIndices ==
  ASSUME NEW n \in Nat, NEW items \in Seq(Items(n)), ValidResponse(items, n)
  PROVE  Indices(items) = 0 .. n - 1 /\ DOMAIN items = 1 .. n
<1> DEFINE f == [i \in 1 .. n |-> items[i].index]
<1>1. DOMAIN items = 1 .. n
  BY DEF ValidResponse
<1>2. f \in Injection(1 .. n, 0 .. n - 1)
  BY <1>1 DEF ValidResponse, Indices, Injection, IsInjective
<1>3. IsFiniteSet(0 .. n - 1) /\ Cardinality(0 .. n - 1) = n
  BY SizeBelow
<1>4. IsFiniteSet(1 .. n) /\ Cardinality(1 .. n) = n
  <2>1. Cardinality(1 .. n) = IF 1 > n THEN 0 ELSE n - 1 + 1
    BY FS_Interval, 1 \in Int, n \in Int
  <2>2. IsFiniteSet(1 .. n)
    BY FS_Interval, 1 \in Int, n \in Int
  <2>3. QED BY <2>1, <2>2
<1>5. f \in Surjection(1 .. n, 0 .. n - 1)
  BY <1>2, <1>3, <1>4, FS_Injection
<1>6. \A x \in 0 .. n - 1 : \E i \in 1 .. n : f[i] = x
  BY <1>5 DEF Surjection
<1>7. 0 .. n - 1 \subseteq Indices(items)
  BY <1>1, <1>6 DEF Indices
<1>8. QED BY <1>1, <1>7 DEF ValidResponse

(* Sorted by index, the embedding of each text is in the place of the text.*)
LEMMA SortedByText ==
  ASSUME NEW n \in Nat, NEW items \in Seq(Items(n)), ValidResponse(items, n)
  PROVE  SortByIndex(items) = Identity(n)
<1> DEFINE Below(x) == {y \in Indices(items) : y < x}
           Chosen(i) ==
             CHOOSE x \in Indices(items) : Cardinality(Below(x)) = i - 1
<1>1. Indices(items) = 0 .. n - 1 /\ DOMAIN items = 1 .. n
  BY AllIndices
<1>2. ASSUME NEW x \in 0 .. n - 1 PROVE Cardinality(Below(x)) = x
  <2>1. Below(x) = 0 .. x - 1
    BY <1>1
  <2>2. Cardinality(0 .. x - 1) = x
    BY SizeBelow
  <2>3. QED BY <2>1, <2>2
<1>3. ASSUME NEW i \in 1 .. n
      PROVE  Chosen(i) = i - 1
  <2>1. i - 1 \in 0 .. n - 1
    OBVIOUS
  <2>2. \A x \in 0 .. n - 1 : Cardinality(Below(x)) = i - 1 <=> x = i - 1
    BY <1>2
  <2> HIDE DEF Below
  <2>3. QED BY <1>1, <2>1, <2>2
<1>4. SortByIndex(items) = [i \in 1 .. n |-> 1 + Chosen(i)]
  BY <1>1 DEF SortByIndex
<1> HIDE DEF Chosen
<1>5. \A i \in 1 .. n : 1 + Chosen(i) = i
  BY <1>3
<1>6. QED BY <1>4, <1>5 DEF Identity

-----------------------------------------------------------------------------
(* Contexts.                                                               *)

(* Every step of a call is a step of buildContext's loops, or leaves their *)
(* state alone.                                                            *)
LEMMA StepsOfTheLoops ==
  ASSUME [Next]_vars
  PROVE  [BudgetNext]_budgetVars
<1>1. CASE RecallForContext
  BY <1>1 DEF RecallForContext, BudgetNext
<1>2. CASE BuildContext
  BY <1>2 DEF BuildContext, BudgetNext
<1>3. CASE Embed \/ Insert \/ Fail \/ AnswerRecall
  BY <1>3 DEF Embed, Insert, Fail, AnswerRecall
<1>4. ASSUME NEW l \in Lists, Search(l) PROVE UNCHANGED budgetVars
  BY <1>4 DEF Search
<1>5. ASSUME NEW m \in Ids, OtherClient(m) PROVE UNCHANGED budgetVars
  BY <1>5 DEF OtherClient
<1>6. CASE Quiet \/ UNCHANGED vars
  BY <1>6 DEF Quiet, vars
<1>7. QED BY <1>1, <1>2, <1>3, <1>4, <1>5, <1>6 DEF Next

(* In a client that embeds, searches and fuses while others change the     *)
(* store, buildContext returns the largest text within the budget, for any *)
(* counter that grows with the text, and never one beyond it.              *)
THEOREM CallsReturnLargest == Spec => []LargestContext
<1>1. Init => BudgetInv
  BY BudgetInitInv DEF Init
<1>2. BudgetInv /\ [Next]_vars => BudgetInv'
  BY StepsOfTheLoops, BudgetNextInv
<1>3. BudgetInv => LargestContext
  BY DEF BudgetInv
<1>4. QED BY <1>1, <1>2, <1>3, PTL DEF Spec

-----------------------------------------------------------------------------
(* Pairing.                                                                *)

(* Until it inserts, a call has stored nothing; it inserts embeddings in   *)
(* the order of the texts; and what it stored and returned is one row per  *)
(* text.                                                                   *)
PairInv ==
  /\ request \in Storing \union Searching
  /\ request.kind = "remember" => request.texts = 1
  /\ step = "insert" => ~IsSearch /\ vectors = Identity(request.texts)
  /\ step \in {"search", "context"} => IsSearch
  /\ step \in {"embed", "insert"} => saved = {}
  /\ step # "done" => outcome = "none"
  /\ saved \in {{}, ToSet(RowsFor(request.texts))}
  /\ outcome = "EMBEDDING" => saved = {}
  /\ outcome = "ok" /\ ~IsSearch =>
       rows = RowsFor(request.texts) /\ saved = ToSet(rows)

(* What the client makes of accepted rows is its own rows, in its order.   *)
LEMMA RowsPaired ==
  ASSUME NEW n \in Nat, vectors = Identity(n), NEW returned \in Returnable,
         RowsAccepted(Prepared, returned)
  PROVE  NormalizeStoreRows(Prepared, returned) = RowsFor(n)
<1> DEFINE Known == ToSet(RowsFor(n)) \union {[id |-> 0, vector |-> 0]}
<1>1. Prepared = RowsFor(n)
  BY DEF Prepared, RowsFor, Identity
<1>2. ToSet(returned) \subseteq Known
  BY <1>1 DEF Returnable, SeqOf, ToSet
<1>3. RowIds(returned) = 1 .. n
  BY <1>1 DEF RowsAccepted, RowIds, RowsFor
<1>4. ASSUME NEW i \in 1 .. n
      PROVE  (CHOOSE row \in ToSet(returned) : row.id = RowsFor(n)[i].id)
             = [id |-> i, vector |-> i]
  <2>1. RowsFor(n)[i].id = i
    BY DEF RowsFor
  <2>2. \A row \in ToSet(returned) :
          row.id = i => row = [id |-> i, vector |-> i]
    BY <1>2 DEF ToSet, RowsFor
  <2>3. \E row \in ToSet(returned) : row.id = i
    BY <1>3 DEF RowIds, ToSet
  <2>4. QED BY <2>1, <2>2, <2>3
<1>5. NormalizeStoreRows(Prepared, returned) =
        [i \in 1 .. n |->
           CHOOSE row \in ToSet(returned) : row.id = RowsFor(n)[i].id]
  BY <1>1 DEF NormalizeStoreRows, RowsFor
<1>6. QED BY <1>4, <1>5 DEF RowsFor

(* The rows of n texts are paired, and there is one for every text.        *)
LEMMA RowsInOrder ==
  ASSUME NEW n
  PROVE  /\ \A row \in ToSet(RowsFor(n)) : row.vector = row.id
         /\ {row.id : row \in ToSet(RowsFor(n))} = 1 .. n
         /\ \A i \in DOMAIN RowsFor(n) : RowsFor(n)[i].id = i
<1>1. ToSet(RowsFor(n)) = {[id |-> i, vector |-> i] : i \in 1 .. n}
  BY DEF ToSet, RowsFor
<1>2. \A row \in ToSet(RowsFor(n)) : row.vector = row.id
  BY <1>1
<1>3. {row.id : row \in ToSet(RowsFor(n))} = 1 .. n
  <2>1. \A row \in ToSet(RowsFor(n)) : row.id \in 1 .. n
    BY <1>1
  <2>2. \A i \in 1 .. n : [id |-> i, vector |-> i] \in ToSet(RowsFor(n))
    BY <1>1
  <2>3. \A i \in 1 .. n : [id |-> i, vector |-> i].id = i
    OBVIOUS
  <2>4. 1 .. n \subseteq {row.id : row \in ToSet(RowsFor(n))}
    BY <2>2, <2>3
  <2>5. QED BY <2>1, <2>4
<1>4. \A i \in DOMAIN RowsFor(n) : RowsFor(n)[i].id = i
  BY DEF RowsFor
<1>5. QED BY <1>2, <1>3, <1>4

(* Embeddings that are accepted are in the order of the texts.             *)
LEMMA EmbeddingsPaired ==
  ASSUME NEW items, request.texts \in Nat,
         items \in Answers(request.texts), Accepted(items)
  PROVE  Embeddings(items) = Identity(request.texts)
<1>1. items \in Seq(Items(request.texts))
  BY DEF Answers, SeqOf
<1>2. CASE request.ownEmbedder
  BY <1>2 DEF Embeddings, Identity
<1>3. CASE ~request.ownEmbedder
  BY <1>1, <1>3, SortedByText DEF Accepted, Embeddings
<1>4. QED BY <1>2, <1>3

LEMMA PairInit == Init => PairInv
<1> SUFFICES ASSUME Init PROVE PairInv
  OBVIOUS
<1>1. request \in Storing \union Searching
      /\ (request.kind = "remember" => request.texts = 1)
  BY CallAssumption DEF Init
<1>2. QED BY <1>1 DEF Init, PairInv

LEMMA PairStep == PairInv /\ [Next]_vars => PairInv'
<1> SUFFICES ASSUME PairInv, [Next]_vars PROVE PairInv'
  OBVIOUS
<1>1. request.texts \in Nat
  BY DEF PairInv, Storing, Searching
<1>2. CASE Embed
  <2>1. PICK items \in Answers(request.texts) :
          \/ /\ Accepted(items)
             /\ vectors' = Embeddings(items)
             /\ GoTo(IF IsSearch THEN "search" ELSE "insert")
          \/ /\ ~Accepted(items)
             /\ Report("EMBEDDING")
             /\ UNCHANGED vectors
    BY <1>2 DEF Embed
  <2>2. step = "embed" /\ UNCHANGED <<saved, rows>>
    BY <1>2 DEF Embed
  <2>3. CASE ~Accepted(items)
    BY <2>1, <2>2, <2>3 DEF PairInv, Report, IsSearch
  <2>4. CASE Accepted(items)
    <3>1. vectors' = Identity(request.texts)
      BY <1>1, <2>1, <2>4, EmbeddingsPaired
    <3>2. QED BY <2>1, <2>2, <2>4, <3>1 DEF PairInv, GoTo, IsSearch
  <2>5. QED BY <2>3, <2>4
<1>3. CASE Insert
  <2>1. step = "insert" /\ ~IsSearch /\ vectors = Identity(request.texts)
    BY <1>3 DEF Insert, PairInv
  <2>2. Prepared = RowsFor(request.texts)
    BY <1>1, <2>1 DEF Prepared, Identity, RowsFor
  <2>3. saved' = ToSet(RowsFor(request.texts)) /\ UNCHANGED request
        /\ step' = "done"
    BY <1>3, <2>2 DEF Insert, Report
  <2>4. outcome' # "EMBEDDING"
        /\ (outcome' = "ok" => rows' = RowsFor(request.texts))
    BY <1>1, <1>3, <2>1, RowsPaired DEF Insert, Report
  <2>5. QED BY <2>3, <2>4 DEF PairInv, IsSearch
<1>4. CASE Fail
  BY <1>4 DEF Fail, Report, batchVars, PairInv, IsSearch
<1>5. CASE AnswerRecall
  BY <1>5 DEF AnswerRecall, SearchesDone, Report, batchVars, PairInv, IsSearch
<1>6. CASE RecallForContext
  BY <1>6 DEF RecallForContext, SearchesDone, GoTo, batchVars, PairInv,
              IsSearch
<1>7. CASE BuildContext
  BY <1>7 DEF BuildContext, Report, callVars, batchVars, PairInv, IsSearch
<1>8. ASSUME NEW l \in Lists, Search(l) PROVE PairInv'
  BY <1>8 DEF Search, callVars, batchVars, PairInv, IsSearch
<1>9. ASSUME NEW m \in Ids, OtherClient(m) PROVE PairInv'
  BY <1>9 DEF OtherClient, callVars, batchVars, PairInv, IsSearch
<1>10. CASE Quiet \/ UNCHANGED vars
  BY <1>10 DEF Quiet, vars, callVars, batchVars, PairInv, IsSearch
<1>11. QED
  BY <1>2, <1>3, <1>4, <1>5, <1>6, <1>7, <1>8, <1>9, <1>10 DEF Next

(* For any number of texts, whatever the provider and the store answer: no *)
(* memory gets another text's embedding, a batch is stored whole or not at *)
(* all, and its memories are returned in the order of the inputs.          *)
THEOREM BatchesArePaired == Spec => []BatchPaired
<1>1. PairInv => BatchPaired
  <2> SUFFICES ASSUME PairInv PROVE BatchPaired
    OBVIOUS
  <2>1. PICK n : n = request.texts
    OBVIOUS
  <2>2. /\ \A row \in ToSet(RowsFor(n)) : row.vector = row.id
        /\ {row.id : row \in ToSet(RowsFor(n))} = 1 .. n
        /\ \A i \in DOMAIN RowsFor(n) : RowsFor(n)[i].id = i
    BY RowsInOrder
  <2>4. \A row \in saved : row.vector = row.id
    BY <2>1, <2>2 DEF PairInv
  <2>5. saved # {} => {row.id : row \in saved} = 1 .. request.texts
    BY <2>1, <2>2 DEF PairInv
  <2>6. outcome = "ok" /\ request.kind \in {"remember", "rememberMany"} =>
          ToSet(rows) = saved /\ \A i \in DOMAIN rows : rows[i].id = i
    BY <2>1, <2>2 DEF PairInv, IsSearch
  <2>7. QED BY <2>4, <2>5, <2>6 DEF PairInv, BatchPaired
<1>2. QED BY <1>1, PairInit, PairStep, PTL DEF Spec

-----------------------------------------------------------------------------
(* Fractions.                                                              *)

(* Products of natural numbers grow with their factors.                    *)
LEMMA TimesGrows ==
  ASSUME NEW a \in Nat, NEW b \in Nat, NEW c \in Nat, a <= b
  PROVE  a * c <= b * c
OBVIOUS

LEMMA TimesPositive ==
  ASSUME NEW a \in Nat \ {0}, NEW b \in Nat \ {0}
  PROVE  a * b \in Nat \ {0}
OBVIOUS

LEMMA TimesGrowsStrictly ==
  ASSUME NEW a \in Nat, NEW b \in Nat, NEW c \in Nat \ {0}, a < b
  PROVE  a * c < b * c
OBVIOUS

(* A fraction <<numerator, denominator>>.                                  *)
Fractions == Nat \X (Nat \ {0})

(* Fractions compare by cross-multiplication: a/b >= c/d >= e/f.           *)
LEMMA CrossTransitive ==
  ASSUME NEW a \in Nat, NEW b \in Nat \ {0},
         NEW c \in Nat, NEW d \in Nat \ {0},
         NEW e \in Nat, NEW f \in Nat \ {0},
         a * d >= c * b, c * f >= e * d
  PROVE  a * f >= e * b
<1>1. (a * d) * f >= (c * b) * f /\ (c * f) * b >= (e * d) * b
  BY TimesGrows
<1>2. (a * f) * d >= (e * b) * d
  BY <1>1
<1>3. CASE a * f < e * b
  BY <1>2, <1>3, TimesGrowsStrictly
<1>4. QED BY <1>3

LEMMA AtLeastTransitive ==
  ASSUME NEW x \in Fractions, NEW y \in Fractions, NEW z \in Fractions,
         AtLeast(x, y), AtLeast(y, z)
  PROVE  AtLeast(x, z)
BY CrossTransitive DEF AtLeast, Fractions

LEMMA AtLeastTotal ==
  ASSUME NEW x \in Fractions, NEW y \in Fractions
  PROVE  AtLeast(x, y) \/ AtLeast(y, x)
BY DEF AtLeast, Fractions

(* a/b >= c/d and e/f >= g/h give a/b + e/f >= c/d + g/h.                  *)
LEMMA CrossPlus ==
  ASSUME NEW a \in Nat, NEW b \in Nat \ {0},
         NEW c \in Nat, NEW d \in Nat \ {0},
         NEW e \in Nat, NEW f \in Nat \ {0},
         NEW g \in Nat, NEW h \in Nat \ {0},
         a * d >= c * b, e * h >= g * f
  PROVE  (a * f + e * b) * (d * h) >= (c * h + g * d) * (b * f)
<1>1. (a * d) * (f * h) >= (c * b) * (f * h)
  BY TimesGrows
<1>2. (e * h) * (b * d) >= (g * f) * (b * d)
  BY TimesGrows
<1>3. (a * f + e * b) * (d * h) = (a * d) * (f * h) + (e * h) * (b * d)
  OBVIOUS
<1>4. (c * h + g * d) * (b * f) = (c * b) * (f * h) + (g * f) * (b * d)
  OBVIOUS
<1>5. QED BY <1>1, <1>2, <1>3, <1>4

LEMMA PlusIsFraction ==
  ASSUME NEW x \in Fractions, NEW y \in Fractions
  PROVE  Plus(x, y) \in Fractions
BY TimesPositive DEF Plus, Fractions

LEMMA PlusGrows ==
  ASSUME NEW x \in Fractions, NEW y \in Fractions,
         NEW v \in Fractions, NEW w \in Fractions,
         AtLeast(x, y), AtLeast(v, w)
  PROVE  AtLeast(Plus(x, v), Plus(y, w))
BY CrossPlus DEF AtLeast, Plus, Fractions

(* a/b >= c/d and p >= q make ap/br >= cq/dr.                              *)
LEMMA CrossTimes ==
  ASSUME NEW a \in Nat, NEW b \in Nat \ {0},
         NEW c \in Nat, NEW d \in Nat \ {0},
         NEW p \in Nat, NEW q \in Nat, NEW r \in Nat,
         a * d >= c * b, p >= q
  PROVE  (a * p) * (d * r) >= (c * q) * (b * r)
<1>1. (a * d) * (p * r) >= (c * b) * (p * r)
  BY TimesGrows
<1>2. p * r >= q * r
  BY TimesGrows
<1>3. (p * r) * (c * b) >= (q * r) * (c * b)
  BY <1>2, TimesGrows
<1>4. QED BY <1>1, <1>3

LEMMA CrossTimesStrictly ==
  ASSUME NEW a \in Nat, NEW b \in Nat \ {0},
         NEW c \in Nat \ {0}, NEW d \in Nat \ {0},
         NEW p \in Nat, NEW q \in Nat, NEW r \in Nat \ {0},
         a * d >= c * b, p > q
  PROVE  (a * p) * (d * r) > (c * q) * (b * r)
<1>1. (a * d) * (p * r) >= (c * b) * (p * r)
  BY TimesGrows
<1>2. p * r > q * r
  BY TimesGrowsStrictly
<1>3. c * b \in Nat \ {0}
  BY TimesPositive
<1>4. (p * r) * (c * b) > (q * r) * (c * b)
  BY <1>2, <1>3, TimesGrowsStrictly
<1>5. QED BY <1>1, <1>4

-----------------------------------------------------------------------------
(* Ranks.                                                                  *)

(* Every nonempty set of numbers has a least one.                          *)
LEMMA LeastNumber ==
  ASSUME NEW T, T \subseteq Nat, T # {}
  PROVE  \E n \in T : \A m \in T : n <= m
<1>1. PICK n \in T : \A m \in T : ~(<<m, n>> \in OpToRel(<, Nat))
  BY NatLessThanWellFounded, WFMin
<1>2. \A m \in T : ~(m < n)
  BY <1>1 DEF OpToRel
<1>3. QED BY <1>2

(* The first place of the run of equal scores that i is in.                *)
Level(scores, i) ==
  {j \in 1 .. i : \A k \in j .. i : scores[k] = scores[i]}
FirstOfRun(scores, i) ==
  CHOOSE j \in Level(scores, i) : \A k \in Level(scores, i) : j <= k

LEMMA RunHasFirst ==
  ASSUME NEW scores, NEW i \in Nat \ {0}
  PROVE  /\ FirstOfRun(scores, i) \in Level(scores, i)
         /\ \A k \in Level(scores, i) : FirstOfRun(scores, i) <= k
<1>1. i \in Level(scores, i) /\ Level(scores, i) \subseteq Nat
  BY DEF Level
<1>2. \E j \in Level(scores, i) : \A k \in Level(scores, i) : j <= k
  BY <1>1, LeastNumber
<1>3. QED BY <1>2 DEF FirstOfRun

(* rankByScore, once the recursion is known to have a solution.            *)
LEMMA RanksOfScores ==
  ASSUME NEW n \in Nat, NEW scores \in [1 .. n -> Nat]
  PROVE  RankByScore(scores) =
           [i \in 1 .. n |->
              IF i > 1 /\ scores[i] = scores[i - 1]
              THEN RankByScore(scores)[i - 1] ELSE i]
<1> DEFINE first == [i \in 1 .. n |-> FirstOfRun(scores, i)]
           Recurs(rank) ==
             rank = [i \in 1 .. n |->
                       IF i > 1 /\ scores[i] = scores[i - 1]
                       THEN rank[i - 1] ELSE i]
<1>1. ASSUME NEW i \in 1 .. n, i > 1, scores[i] = scores[i - 1]
      PROVE  FirstOfRun(scores, i) = FirstOfRun(scores, i - 1)
  <2>1. Level(scores, i) = Level(scores, i - 1) \union {i}
    BY <1>1 DEF Level
  <2>2. FirstOfRun(scores, i - 1) \in Level(scores, i - 1)
        /\ \A k \in Level(scores, i - 1) : FirstOfRun(scores, i - 1) <= k
    BY <1>1, RunHasFirst
  <2>3. FirstOfRun(scores, i) \in Level(scores, i)
        /\ \A k \in Level(scores, i) : FirstOfRun(scores, i) <= k
    BY RunHasFirst
  <2>4. FirstOfRun(scores, i - 1) \in 1 .. i - 1
    BY <2>2 DEF Level
  <2>5. FirstOfRun(scores, i) \in 1 .. i
    BY <2>3 DEF Level
  <2>6. FirstOfRun(scores, i) <= FirstOfRun(scores, i - 1)
    BY <2>1, <2>2, <2>3
  <2>7. FirstOfRun(scores, i) \in Level(scores, i - 1)
    BY <2>1, <2>3, <2>4, <2>5, <2>6
  <2>8. QED BY <2>2, <2>4, <2>5, <2>6, <2>7
<1>2. ASSUME NEW i \in 1 .. n, ~(i > 1 /\ scores[i] = scores[i - 1])
      PROVE  FirstOfRun(scores, i) = i
  <2>1. FirstOfRun(scores, i) \in Level(scores, i)
    BY RunHasFirst
  <2>2. Level(scores, i) \subseteq {i}
    BY <1>2 DEF Level
  <2>3. QED BY <2>1, <2>2
<1>3. Recurs(first)
  BY <1>1, <1>2
<1>4. RankByScore(scores) = CHOOSE rank : Recurs(rank)
  BY DEF RankByScore
<1> HIDE DEF Recurs, first
<1>5. Recurs(RankByScore(scores))
  BY <1>3, <1>4
<1>6. QED BY <1>5 DEF Recurs

(* A rank is between 1 and the position.                                   *)
LEMMA RankInRange ==
  ASSUME NEW n \in Nat, NEW scores \in [1 .. n -> Nat], NEW i \in 1 .. n
  PROVE  RankByScore(scores)[i] \in 1 .. i
<1> DEFINE R == RankByScore(scores)
           Bad == {j \in 1 .. n : R[j] \notin 1 .. j}
<1>1. \A j \in 1 .. n : R[j] = IF j > 1 /\ scores[j] = scores[j - 1]
                               THEN R[j - 1] ELSE j
  BY RanksOfScores
<1> HIDE DEF R
<1>2. ASSUME Bad # {} PROVE FALSE
  <2>1. PICK j \in Bad : \A k \in Bad : j <= k
    <3>1. Bad \subseteq Nat
      OBVIOUS
    <3> HIDE DEF Bad
    <3>2. QED BY <1>2, <3>1, LeastNumber
  <2>2. j > 1 => R[j - 1] \in 1 .. j - 1
    BY <2>1
  <2>3. QED BY <1>1, <2>1, <2>2
<1>3. i \notin Bad
  BY <1>2
<1>4. R[i] \in 1 .. i
  BY <1>3
<1>5. QED BY <1>4 DEF R

(* Ranks grow along a list, and equal scores share one.                    *)
LEMMA RanksGrow ==
  ASSUME NEW n \in Nat, NEW scores \in [1 .. n -> Nat],
         NEW i \in 1 .. n, NEW j \in i .. n
  PROVE  RankByScore(scores)[i] <= RankByScore(scores)[j]
<1> DEFINE R == RankByScore(scores)
           Bad == {k \in i .. n : ~(R[i] <= R[k])}
<1>1. \A k \in 1 .. n : R[k] = IF k > 1 /\ scores[k] = scores[k - 1]
                               THEN R[k - 1] ELSE k
  BY RanksOfScores
<1>2. \A k \in 1 .. n : R[k] \in 1 .. k
  BY RankInRange
<1> HIDE DEF R
<1>3. ASSUME Bad # {} PROVE FALSE
  <2>1. PICK k \in Bad : \A m \in Bad : k <= m
    <3>1. Bad \subseteq Nat
      OBVIOUS
    <3> HIDE DEF Bad
    <3>2. QED BY <1>3, <3>1, LeastNumber
  <2>2. k > i /\ R[i] <= R[k - 1]
    BY <1>2, <2>1
  <2>3. QED BY <1>1, <1>2, <2>1, <2>2
<1>4. j \notin Bad
  BY <1>3
<1>5. R[i] <= R[j]
  BY <1>4
<1>6. QED BY <1>5 DEF R

LEMMA EqualsShareRank ==
  ASSUME NEW n \in Nat, NEW scores \in [1 .. n -> Nat],
         \A k, m \in 1 .. n : k < m => scores[k] >= scores[m],
         NEW i \in 1 .. n, NEW j \in i .. n, scores[i] = scores[j]
  PROVE  RankByScore(scores)[i] = RankByScore(scores)[j]
<1> DEFINE R == RankByScore(scores)
           Bad == {k \in i .. n : scores[k] = scores[i] /\ R[i] # R[k]}
<1>1. \A k \in 1 .. n : R[k] = IF k > 1 /\ scores[k] = scores[k - 1]
                               THEN R[k - 1] ELSE k
  BY RanksOfScores
<1> HIDE DEF R
<1>2. ASSUME Bad # {} PROVE FALSE
  <2>1. PICK k \in Bad : \A m \in Bad : k <= m
    <3>1. Bad \subseteq Nat
      OBVIOUS
    <3> HIDE DEF Bad
    <3>2. QED BY <1>2, <3>1, LeastNumber
  <2>2. k > i /\ k - 1 \in i .. n
    BY <2>1
  <2>3. scores[k - 1] >= scores[k]
    BY <2>1, <2>2
  <2>4. scores[i] >= scores[k - 1]
    <3>1. CASE i = k - 1
      BY <3>1
    <3>2. CASE i < k - 1
      BY <2>2, <3>2
    <3>3. QED BY <2>2, <3>1, <3>2
  <2>5. scores[k] \in Nat /\ scores[k - 1] \in Nat /\ scores[i] \in Nat
    BY <2>2
  <2>6. scores[k - 1] = scores[k] /\ scores[k - 1] = scores[i]
    BY <2>1, <2>3, <2>4, <2>5
  <2>7. R[i] = R[k - 1]
    BY <2>1, <2>2, <2>6
  <2>8. QED BY <1>1, <2>1, <2>2, <2>6, <2>7
<1>3. j \notin Bad
  BY <1>2
<1>4. R[i] = R[j]
  BY <1>3
<1>5. QED BY <1>4 DEF R

-----------------------------------------------------------------------------
(* Sorting.                                                                *)

(* Scored memories.                                                        *)
Scoreds == [id : Nat, score : Fractions, createdAt : Nat]

LEMMA PrecedesTransitive ==
  ASSUME NEW a \in Scoreds, NEW b \in Scoreds, NEW c \in Scoreds,
         Precedes(a, b), Precedes(b, c)
  PROVE  Precedes(a, c)
<1> DEFINE GE(x, y) == AtLeast(x.score, y.score)
<1>0. /\ a.score \in Fractions /\ b.score \in Fractions
      /\ c.score \in Fractions
      /\ a.createdAt \in Nat /\ b.createdAt \in Nat /\ c.createdAt \in Nat
      /\ a.id \in Nat /\ b.id \in Nat /\ c.id \in Nat
  BY DEF Scoreds
<1>1. GE(a, b) /\ GE(b, c)
  BY <1>0, AtLeastTotal DEF Precedes
<1>2. GE(c, a) => GE(c, b) /\ GE(b, a)
  BY <1>0, <1>1, AtLeastTransitive
<1>3. GE(a, c)
  BY <1>0, <1>1, AtLeastTransitive
<1> HIDE DEF GE
<1>4. \A x, y \in {a, b, c} :
        Precedes(x, y) <=> \/ ~GE(y, x)
                           \/ /\ GE(x, y)
                              /\ \/ x.createdAt > y.createdAt
                                 \/ x.createdAt = y.createdAt /\ x.id < y.id
  BY DEF Precedes, GE
<1>5. QED BY <1>0, <1>1, <1>2, <1>3, <1>4

LEMMA PrecedesIrreflexive ==
  ASSUME NEW a \in Scoreds
  PROVE  ~Precedes(a, a)
<1>1. a.score \in Fractions /\ a.createdAt \in Nat /\ a.id \in Nat
  BY DEF Scoreds
<1>2. AtLeast(a.score, a.score)
  BY <1>1, AtLeastTotal
<1>3. QED BY <1>1, <1>2 DEF Precedes

LEMMA PrecedesTotal ==
  ASSUME NEW a \in Scoreds, NEW b \in Scoreds, a.id # b.id
  PROVE  Precedes(a, b) \/ Precedes(b, a)
<1>0. /\ a.score \in Fractions /\ b.score \in Fractions
      /\ a.createdAt \in Nat /\ b.createdAt \in Nat
      /\ a.id \in Nat /\ b.id \in Nat
  BY DEF Scoreds
<1>1. AtLeast(a.score, b.score) \/ AtLeast(b.score, a.score)
  BY <1>0, AtLeastTotal
<1>2. QED BY <1>0, <1>1 DEF Precedes

(* A finite set has an element that no other is above, in any strict       *)
(* order: one that as few as possible are above.                           *)
LEMMA FiniteHasMaximal ==
  ASSUME NEW S, IsFiniteSet(S), S # {}, NEW R,
         \A x \in S : <<x, x>> \notin R,
         \A x, y, z \in S : <<x, y>> \in R /\ <<y, z>> \in R => <<x, z>> \in R
  PROVE  \E m \in S : \A x \in S : <<m, x>> \notin R
<1> DEFINE Above(x) == {y \in S : <<x, y>> \in R}
           Aboves == {Above(x) : x \in S}
<1>1. IsWellFoundedOn(StrictSubsetOrdering(S), SUBSET S)
  BY FS_StrictSubsetOrderingWellFounded, FS_FiniteSubsetsOfFinite
<1>2. Aboves \subseteq SUBSET S /\ Aboves # {}
  <2>1. \A x \in S : Above(x) \in SUBSET S
    OBVIOUS
  <2> HIDE DEF Above
  <2>2. QED BY <2>1
<1>3. PICK A \in Aboves :
        \A B \in Aboves : <<B, A>> \notin StrictSubsetOrdering(S)
  <2> HIDE DEF Aboves
  <2>1. QED BY <1>1, <1>2, WFMin
<1>4. PICK m \in S : A = Above(m)
  OBVIOUS
<1>5. ASSUME NEW x \in S, <<m, x>> \in R PROVE FALSE
  <2>1. Above(x) \subseteq Above(m) /\ x \in Above(m) /\ x \notin Above(x)
    BY <1>5
  <2>2. <<Above(x), Above(m)>> \in StrictSubsetOrdering(S)
    BY <2>1 DEF StrictSubsetOrdering
  <2>3. QED BY <1>3, <1>4, <2>2
<1>6. QED BY <1>5

(* Of finitely many memories one comes last.                               *)
LEMMA OneComesLast ==
  ASSUME NEW S \in SUBSET Scoreds, IsFiniteSet(S), S # {}
  PROVE  \E m \in S : \A x \in S : ~Precedes(m, x)
<1> DEFINE R == {p \in S \X S : Precedes(p[1], p[2])}
<1>1. \A x, y \in S : <<x, y>> \in R <=> Precedes(x, y)
  OBVIOUS
<1> HIDE DEF R
<1>2. \A x \in S : <<x, x>> \notin R
  BY <1>1, PrecedesIrreflexive
<1>3. \A x, y, z \in S : <<x, y>> \in R /\ <<y, z>> \in R => <<x, z>> \in R
  BY <1>1, PrecedesTransitive
<1>4. \E m \in S : \A x \in S : <<m, x>> \notin R
  BY <1>2, <1>3, FiniteHasMaximal
<1>5. QED BY <1>1, <1>4

(* In the order of Precedes; what can be put in that order.                *)
Ascends(s) == \A i, j \in DOMAIN s : i < j => Precedes(s[i], s[j])
Sortable(S) == \E s \in SetToSeqs(S) : Ascends(s)

(* Scored memories with ids of their own can be sorted: sort all but the   *)
(* last one, and append it.                                                *)
LEMMA FiniteAreSortable ==
  ASSUME NEW S \in SUBSET Scoreds, IsFiniteSet(S),
         \A a, b \in S : a.id = b.id => a = b
  PROVE  Sortable(S)
<1> DEFINE Bad == {T \in SUBSET S : ~Sortable(T)}
<1> SUFFICES ASSUME Bad # {} PROVE FALSE
  <2>1. S \in SUBSET S
    OBVIOUS
  <2> HIDE DEF Sortable
  <2>2. QED BY <2>1
<1>1. IsWellFoundedOn(StrictSubsetOrdering(S), SUBSET S)
  BY FS_StrictSubsetOrderingWellFounded, FS_FiniteSubsetsOfFinite
<1>2. PICK T \in Bad : \A U \in Bad : <<U, T>> \notin StrictSubsetOrdering(S)
  <2>1. Bad \subseteq SUBSET S
    OBVIOUS
  <2> HIDE DEF Bad
  <2>2. QED BY <1>1, <2>1, WFMin
<1>3. T \in SUBSET S /\ IsFiniteSet(T) /\ ~Sortable(T)
  BY <1>2, FS_Subset
<1>4. T # {}
  <2>1. Sortable({})
    <3>1. Cardinality({}) = 0
      BY FS_EmptySet
    <3>2. <<>> \in SetToSeqs({}) /\ Ascends(<<>>)
      BY <3>1 DEF SetToSeqs, Ascends
    <3>3. QED BY <3>2 DEF Sortable
  <2>2. QED BY <1>3, <2>1
<1>5. PICK m \in T : \A x \in T : ~Precedes(m, x)
  BY <1>3, <1>4, OneComesLast
<1> DEFINE U == T \ {m}
<1>6. /\ IsFiniteSet(U) /\ U \in SUBSET S
      /\ Cardinality(U) = Cardinality(T) - 1
      /\ Cardinality(T) \in Nat /\ Cardinality(U) \in Nat
  BY <1>3, <1>5, FS_RemoveElement, FS_CardinalityType
<1>7. PICK s \in SetToSeqs(U) : Ascends(s)
  <2>1. <<U, T>> \in StrictSubsetOrdering(S)
    BY <1>3, <1>5, <1>6 DEF StrictSubsetOrdering
  <2>2. U \notin Bad
    BY <1>2, <2>1
  <2>3. Sortable(U)
    BY <1>6, <2>2
  <2>4. QED BY <2>3 DEF Sortable
<1> DEFINE n == Cardinality(U)
           t == [i \in 1 .. n + 1 |-> IF i = n + 1 THEN m ELSE s[i]]
<1>8. /\ s \in [1 .. n -> U]
      /\ \A i, j \in 1 .. n : i # j => s[i] # s[j]
  BY <1>7 DEF SetToSeqs
<1>9. n \in Nat /\ Cardinality(T) = n + 1
  BY <1>6
<1> HIDE DEF n
<1>10. \A i \in 1 .. n : s[i] \in T /\ s[i] # m
  BY <1>8
<1>11. t \in SetToSeqs(T)
  <2>1. t \in [1 .. n + 1 -> T]
    BY <1>9, <1>10
  <2>2. \A i, j \in 1 .. n + 1 : i # j => t[i] # t[j]
    BY <1>8, <1>9, <1>10
  <2> HIDE DEF t
  <2>3. QED BY <1>9, <2>1, <2>2 DEF SetToSeqs
<1>12. Ascends(t)
  <2>1. ASSUME NEW i \in 1 .. n + 1, NEW j \in 1 .. n + 1, i < j
        PROVE  Precedes(t[i], t[j])
    <3>1. CASE j = n + 1
      <4>1. t[j] = m /\ t[i] = s[i] /\ s[i] \in T /\ s[i] # m
        BY <1>9, <1>10, <2>1, <3>1
      <4>2. s[i] \in Scoreds /\ m \in Scoreds /\ s[i].id # m.id
        BY <1>3, <4>1
      <4>3. QED BY <1>5, <4>1, <4>2, PrecedesTotal
    <3>2. CASE j # n + 1
      <4>1. i \in DOMAIN s /\ j \in DOMAIN s /\ t[i] = s[i] /\ t[j] = s[j]
        BY <1>8, <1>9, <2>1, <3>2
      <4>2. QED BY <1>7, <2>1, <4>1 DEF Ascends
    <3>3. QED BY <3>1, <3>2
  <2>2. DOMAIN t = 1 .. n + 1
    OBVIOUS
  <2> HIDE DEF t
  <2>3. QED BY <2>1, <2>2 DEF Ascends
<1>13. QED BY <1>3, <1>11, <1>12 DEF Sortable

-----------------------------------------------------------------------------
(* What a search found, and what recall makes of it.                       *)

(* The list of a search: memories that were there to be found, the better  *)
(* ones first, and none left out that is better than one in the list.      *)
ListInv(l) ==
  LET list == found[l].ids
      score == profile[l]
  IN
  /\ found[l].seen \subseteq Ids
  /\ list \in Seq(Ids) /\ ToSet(list) \subseteq found[l].seen
  /\ \A i, j \in DOMAIN list : i < j => score[list[i]] >= score[list[j]]
  /\ \A i \in DOMAIN list, m \in found[l].seen \ ToSet(list) :
       score[list[i]] >= score[m]

(* A list of weight 0 stays unsearched and empty; and what recall returns  *)
(* is fused from lists that do not change any more, with boosts read in    *)
(* the order of these lists.                                               *)
RecallInv ==
  /\ [request |-> request, profile |-> profile] \in Calls
  /\ step \in {"embed", "insert", "search", "context", "done"}
  /\ outcome \in {"none", "ok", "EMBEDDING", "DB", "FAILED"}
  /\ (step = "done") = (outcome # "none")
  /\ step \in {"search", "context"} => IsSearch
  /\ status \in [Ids -> {"unborn", "active", "hidden", "deleted"}]
  /\ found \in [Lists -> [done : BOOLEAN, seen : SUBSET Ids, ids : Seq(Ids)]]
  /\ readAt \in [Ids -> Instants]
  /\ \A l \in Lists : ListInv(l)
  /\ IsSearch => \A l \in Lists : request.fusion[l] = 0 => found[l] = Skipped
  /\ result # <<>> =>
       /\ IsSearch /\ step \in {"context", "done"}
       /\ readAt \in Readings(Order, Ids) /\ result = Fused(readAt)

LEMMA Requested ==
  ASSUME RecallInv
  PROVE  /\ request \in Storing \union Searching /\ profile \in Scores
         /\ IsSearch => request \in Searching
<1>1. request \in Storing \union Searching /\ profile \in Scores
  BY CallAssumption DEF RecallInv
<1>2. QED BY <1>1 DEF IsSearch, Storing

LEMMA RecallInit == Init => RecallInv
<1> SUFFICES ASSUME Init PROVE RecallInv
  OBVIOUS
<1>1. PICK c \in Calls : request = c.request /\ profile = c.profile
  BY DEF Init
<1>2. [request |-> request, profile |-> profile] \in Calls
  BY <1>1, CallAssumption
<1>3. \A l \in Lists : found[l] \in {Skipped, Unsearched}
  BY DEF Init
<1>4. <<>> \in Seq(Ids) /\ ToSet(<<>>) = {} /\ DOMAIN <<>> = {}
  BY DEF ToSet
<1>5. ASSUME NEW l \in Lists PROVE ListInv(l)
  <2>1. found[l].ids = <<>> /\ found[l].seen = {}
    BY <1>3 DEF Skipped, Unsearched
  <2>2. QED BY <1>4, <2>1 DEF ListInv
<1>6. found \in [Lists -> [done : BOOLEAN, seen : SUBSET Ids, ids : Seq(Ids)]]
  BY <1>4 DEF Init, Skipped, Unsearched
<1>7. status \in [Ids -> {"unborn", "active", "hidden", "deleted"}]
  BY DEF Init
<1>8. readAt \in [Ids -> Instants]
  BY BoostAssumption DEF Init, Instants
<1>9. QED BY <1>2, <1>5, <1>6, <1>7, <1>8 DEF RecallInv, Init

(* What ORDER BY and LIMIT promise.                                        *)
LEMMA TopListsAre ==
  ASSUME NEW S \in SUBSET Ids, NEW score, NEW n,
         NEW list \in TopLists(S, score, n)
  PROVE  /\ list \in Seq(Ids) /\ ToSet(list) \subseteq S
         /\ \A i, j \in DOMAIN list : i < j => score[list[i]] >= score[list[j]]
         /\ \A i \in DOMAIN list, m \in S \ ToSet(list) :
              score[list[i]] >= score[m]
<1>1. PICK T \in kSubset(Min({n, Cardinality(S)}), S) : list \in SetToSeqs(T)
  BY DEF TopLists
<1>2. T \in SUBSET S /\ IsFiniteSet(T)
  BY <1>1, CallAssumption, FS_Subset DEF kSubset
<1>3. Cardinality(T) \in Nat
  BY <1>2, FS_CardinalityType
<1>4. list \in [1 .. Cardinality(T) -> T]
  BY <1>1 DEF SetToSeqs
<1>5. list \in Seq(Ids) /\ ToSet(list) \subseteq S
  BY <1>2, <1>3, <1>4 DEF ToSet
<1>6. QED BY <1>5 DEF TopLists

LEMMA SearchKeepsLists ==
  ASSUME RecallInv, NEW l \in Lists, Search(l)
  PROVE  RecallInv'
<1>0. PICK scan \in Scans(l) :
        \E list \in TopLists(scan, profile[l], CandidateLimit) :
          found' = [found EXCEPT
                      ![l] = [done |-> TRUE, seen |-> scan, ids |-> list]]
  BY DEF Search
<1>1. PICK list \in TopLists(scan, profile[l], CandidateLimit) :
        found' = [found EXCEPT
                    ![l] = [done |-> TRUE, seen |-> scan, ids |-> list]]
  BY <1>0
<1>2. scan \in SUBSET Ids
  BY DEF Scans, Eligible
<1>3. /\ list \in Seq(Ids) /\ ToSet(list) \subseteq scan
      /\ \A i, j \in DOMAIN list :
           i < j => profile[l][list[i]] >= profile[l][list[j]]
      /\ \A i \in DOMAIN list, m \in scan \ ToSet(list) :
           profile[l][list[i]] >= profile[l][m]
  BY <1>2, TopListsAre
<1>4. /\ UNCHANGED <<request, step, outcome, profile, status, readAt, result>>
      /\ step = "search" /\ ~found[l].done
  BY DEF Search, callVars
<1> HIDE DEF Lists
<1>5. /\ found'[l] = [done |-> TRUE, seen |-> scan, ids |-> list]
      /\ \A k \in Lists : k # l => found'[k] = found[k]
      /\ found' \in [Lists -> [done : BOOLEAN, seen : SUBSET Ids,
                               ids : Seq(Ids)]]
  BY <1>1, <1>2, <1>3 DEF RecallInv
<1>6. ASSUME NEW k \in Lists PROVE ListInv(k)'
  <2>1. CASE k = l
    <3>1. /\ found'[k].seen = scan /\ found'[k].ids = list
          /\ profile'[k] = profile[l]
      BY <1>4, <1>5, <2>1
    <3>2. QED BY <1>2, <1>3, <3>1 DEF ListInv
  <2>2. CASE k # l
    <3>1. found'[k] = found[k] /\ profile'[k] = profile[k]
      BY <1>4, <1>5, <2>2
    <3>2. ListInv(k)
      BY DEF RecallInv
    <3>3. QED BY <3>1, <3>2 DEF ListInv
  <2>3. QED BY <2>1, <2>2
<1>7. IsSearch /\ request.fusion[l] # 0
  BY <1>4 DEF RecallInv, Skipped, Unsearched
<1>8. IsSearch' =>
        \A k \in Lists : request'.fusion[k] = 0 => found'[k] = Skipped'
  BY <1>4, <1>5, <1>7 DEF RecallInv, Skipped, Unsearched
<1>9. result' = <<>>
  BY <1>4 DEF RecallInv
<1>10. QED BY <1>4, <1>5, <1>6, <1>8, <1>9 DEF RecallInv, IsSearch

(* Other steps leave the lists alone.                                      *)
LEMMA OthersKeepLists ==
  ASSUME RecallInv, UNCHANGED <<request, profile, found>>
  PROVE  /\ IsSearch' = IsSearch /\ Order' = Order
         /\ Fused(readAt)' = Fused(readAt')
         /\ \A l \in Lists : ListInv(l)'
         /\ [request |-> request', profile |-> profile'] \in Calls
         /\ found' \in [Lists -> [done : BOOLEAN, seen : SUBSET Ids,
                                ids : Seq(Ids)]]
         /\ IsSearch' =>
              \A l \in Lists : request'.fusion[l] = 0 => found'[l] = Skipped'
<1>1. /\ IsSearch' = IsSearch /\ Order' = Order /\ Skipped' = Skipped
      /\ UNCHANGED FoundLists
  BY DEF IsSearch, Order, FoundLists, Skipped, Unsearched
<1>2. ASSUME NEW l \in Lists PROVE ListInv(l)'
  <2>1. ListInv(l)
    BY DEF RecallInv
  <2>2. QED BY <2>1 DEF ListInv
<1>3. Fused(readAt)' = Fused(readAt')
  BY <1>1 DEF Fused
<1>4. QED BY <1>1, <1>2, <1>3 DEF RecallInv

LEMMA RecallStep == RecallInv /\ [Next]_vars => RecallInv'
<1> SUFFICES ASSUME RecallInv, [Next]_vars PROVE RecallInv'
  OBVIOUS
<1> DEFINE Steady == UNCHANGED <<request, profile, found>>
           Stages == {"embed", "insert", "search", "context", "done"}
           Outcomes == {"none", "ok", "EMBEDDING", "DB", "FAILED"}
<1>1. CASE Embed
  <2>1. Steady /\ UNCHANGED <<result, readAt, status>> /\ step = "embed"
    BY <1>1 DEF Embed, Report, GoTo, recallVars
  <2>2. /\ step' \in Stages /\ outcome' \in Outcomes
        /\ (step' = "done") = (outcome' # "none")
        /\ step' \in {"search", "context"} => IsSearch
    BY <1>1 DEF Embed, Report, GoTo, RecallInv
  <2>3. result' = <<>>
    BY <2>1 DEF RecallInv
  <2>4. QED BY <2>1, <2>2, <2>3, OthersKeepLists DEF RecallInv
<1>2. CASE Insert \/ Fail
  <2>1. /\ Steady /\ UNCHANGED <<result, readAt, status>>
        /\ step \in {"embed", "insert", "search"}
    BY <1>2 DEF Insert, Fail, Report, recallVars
  <2>2. step' = "done" /\ outcome' \in Outcomes \ {"none"}
    BY <1>2 DEF Insert, Fail, Report
  <2>3. result' = <<>>
    BY <2>1 DEF RecallInv
  <2>4. QED BY <2>1, <2>2, <2>3, OthersKeepLists DEF RecallInv
<1>3. ASSUME NEW l \in Lists, Search(l) PROVE RecallInv'
  BY <1>3, SearchKeepsLists
<1>4. CASE AnswerRecall \/ RecallForContext
  <2>1. /\ Steady /\ UNCHANGED status /\ step = "search"
        /\ readAt' \in Readings(Order, Ids) /\ result' = Fused(readAt')
    BY <1>4 DEF AnswerRecall, RecallForContext, ScoreAndSort, Report, GoTo,
                SearchesDone
  <2>2. /\ step' \in {"context", "done"} /\ outcome' \in Outcomes
        /\ (step' = "done") = (outcome' # "none")
    BY <1>4, <2>1
    DEF AnswerRecall, RecallForContext, Report, GoTo, RecallInv
  <2>3. IsSearch
    BY <2>1 DEF RecallInv
  <2>4. readAt' \in [Ids -> Instants]
    BY <2>1 DEF Readings
  <2>5. readAt' \in Readings(Order', Ids) /\ result' = Fused(readAt)'
    BY <2>1, OthersKeepLists
  <2>6. QED BY <2>1, <2>2, <2>3, <2>4, <2>5, OthersKeepLists DEF RecallInv
<1>5. CASE BuildContext
  <2>1. /\ Steady /\ UNCHANGED <<status, readAt, result>> /\ step = "context"
        /\ \/ step' = "done" /\ outcome' = "ok"
           \/ UNCHANGED <<step, outcome>>
    BY <1>5 DEF BuildContext, Report, callVars, recallVars
  <2>2. QED BY <2>1, OthersKeepLists DEF RecallInv
<1>6. ASSUME NEW m \in Ids, OtherClient(m) PROVE RecallInv'
  <2>1. Steady /\ UNCHANGED <<step, outcome, readAt, result>>
    BY <1>6 DEF OtherClient, callVars, recallVars
  <2>2. status' \in [Ids -> {"unborn", "active", "hidden", "deleted"}]
    <3>1. status \in [Ids -> {"unborn", "active", "hidden", "deleted"}]
      BY DEF RecallInv
    <3>2. PICK fate \in Fates(status[m]) :
            status' = [status EXCEPT ![m] = fate]
      BY <1>6 DEF OtherClient
    <3>3. status[m] \in {"unborn", "active", "hidden", "deleted"}
      BY <3>1
    <3>4. fate \in {"unborn", "active", "hidden", "deleted"}
      BY <3>2, <3>3 DEF Fates
    <3>5. QED BY <3>1, <3>2, <3>4
  <2>3. QED BY <2>1, <2>2, OthersKeepLists DEF RecallInv
<1>7. CASE Quiet \/ UNCHANGED vars
  <2>1. Steady /\ UNCHANGED <<step, outcome, readAt, result, status>>
    BY <1>7 DEF Quiet, vars, callVars, recallVars
  <2>2. QED BY <2>1, OthersKeepLists DEF RecallInv
<1>8. QED BY <1>1, <1>2, <1>3, <1>4, <1>5, <1>6, <1>7 DEF Next

-----------------------------------------------------------------------------
(* How the memories that were found are scored.                            *)

(* The rank of a memory in a list, its share of the score, its score, and  *)
(* its entry among the scored memories; all that was found, and what       *)
(* passes the lowest score allowed.                                        *)
RankIn(l, m) == RankOf(found[l].ids, profile[l], m)
ShareIn(l, m) == Share(request.fusion[l], RankIn(l, m), request.fusion.k)
ScoreOf(m) ==
  Boosted(FusedScore(RankIn("vector", m), RankIn("lexical", m),
                     request.fusion), BoostRead(m))
Entry(m) ==
  [id |-> m, score |-> ScoreOf(m), createdAt |-> profile.createdAt[m]]
Found == UNION {ToSet(found[l].ids) : l \in Lists}
Kept == {e \in {Entry(m) : m \in Found} : AtLeast(e.score, request.minScore)}

(* The rank of a listed memory, and that a better one has no higher rank.  *)
LEMMA RankOfListed ==
  ASSUME RecallInv, NEW l \in Lists, NEW x \in ToSet(found[l].ids),
         NEW y \in ToSet(found[l].ids), profile[l][x] >= profile[l][y]
  PROVE  /\ RankIn(l, x) \in Nat \ {0}
         /\ RankIn(l, x) <= RankIn(l, y)
<1> DEFINE list == found[l].ids
           n == Len(list)
           scores == [i \in DOMAIN list |-> profile[l][list[i]]]
           ranks == RankByScore(scores)
           Place(m) == CHOOSE i \in DOMAIN list : list[i] = m
<1>1. /\ list \in Seq(Ids) /\ n \in Nat /\ DOMAIN list = 1 .. n
      /\ \A i, j \in 1 .. n :
           i < j => profile[l][list[i]] >= profile[l][list[j]]
  BY DEF RecallInv, ListInv
<1>2. profile[l] \in [Ids -> Nat]
  BY Requested DEF Scores, Lists
<1>3. \A m \in ToSet(list) : Place(m) \in 1 .. n /\ list[Place(m)] = m
  BY <1>1 DEF ToSet
<1>4. scores \in [1 .. n -> Nat]
  BY <1>1, <1>2
<1>5. \A i, j \in 1 .. n : i < j => scores[i] >= scores[j]
  BY <1>1
<1>6. \A m \in ToSet(list) : RankIn(l, m) = ranks[Place(m)]
  BY DEF RankIn, RankOf
<1>7. scores[Place(x)] = profile[l][x] /\ scores[Place(y)] = profile[l][y]
  BY <1>1, <1>3
<1> HIDE DEF Place, scores, n, list
<1>8. PICK i \in 1 .. n, j \in 1 .. n : i = Place(x) /\ j = Place(y)
  BY <1>3 DEF list
<1>9. ranks[i] \in 1 .. i /\ ranks[j] \in 1 .. j
  BY <1>1, <1>4, RankInRange
<1>10. scores[i] >= scores[j] /\ scores[i] \in Nat /\ scores[j] \in Nat
  BY <1>4, <1>7, <1>8
<1>11. ranks[i] <= ranks[j]
  <2>1. CASE i <= j
    <3>1. j \in i .. n
      BY <1>1, <2>1
    <3>2. QED BY <1>1, <1>4, <3>1, RanksGrow
  <2>2. CASE j < i
    <3>1. i \in j .. n /\ scores[j] >= scores[i]
      BY <1>1, <1>5, <2>2
    <3>2. scores[j] = scores[i]
      BY <1>10, <3>1
    <3>3. ranks[j] = ranks[i]
      <4> HIDE DEF ranks
      <4>1. RankByScore(scores)[j] = RankByScore(scores)[i]
        BY <1>1, <1>4, <1>5, <3>1, <3>2, EqualsShareRank
      <4>2. QED BY <4>1 DEF ranks
    <3>4. QED BY <1>9, <3>3
  <2>3. QED BY <2>1, <2>2
<1>12. RankIn(l, x) = ranks[i] /\ RankIn(l, y) = ranks[j]
  BY <1>6, <1>8 DEF list
<1> HIDE DEF ranks
<1>13. QED BY <1>9, <1>11, <1>12

LEMMA ShareIsFraction ==
  ASSUME RecallInv, IsSearch, NEW l \in Lists, NEW m
  PROVE  ShareIn(l, m) \in Fractions
<1>1. request.fusion[l] \in Nat /\ request.fusion.k \in Nat
  BY Requested DEF Searching, Fusions, Lists
<1>2. CASE m \in ToSet(found[l].ids)
  <2>1. RankIn(l, m) \in Nat \ {0}
    <3>1. m \in Ids
      BY <1>2 DEF RecallInv, ListInv
    <3>2. profile[l][m] \in Nat
      BY <3>1, Requested DEF Scores, Lists
    <3>3. QED BY <1>2, <3>2, RankOfListed
  <2>2. QED BY <1>1, <2>1 DEF ShareIn, Share, Fractions, NoRank
<1>3. CASE m \notin ToSet(found[l].ids)
  BY <1>3 DEF ShareIn, RankIn, RankOf, Share, Fractions
<1>4. QED BY <1>2, <1>3

(* Who keeps up with a listed memory is listed, too, and ranks no lower.   *)
LEMMA KeepsUpInList ==
  ASSUME RecallInv, IsSearch, NEW x, NEW y, KeepsUp(x, y),
         NEW l \in Lists
  PROVE  /\ y \in ToSet(found[l].ids) => x \in ToSet(found[l].ids)
         /\ AtLeast(ShareIn(l, x), ShareIn(l, y))
<1>1. CASE y \in ToSet(found[l].ids)
  <2>1. /\ x \in found[l].seen
        /\ \/ profile[l][x] > profile[l][y]
           \/ profile[l][x] = profile[l][y] /\ x \in ToSet(found[l].ids)
    BY <1>1 DEF KeepsUp
  <2>2. /\ x \in Ids /\ y \in Ids
        /\ profile[l][x] \in Nat /\ profile[l][y] \in Nat
    <3>1. x \in Ids /\ y \in Ids
      BY <1>1, <2>1 DEF RecallInv, ListInv
    <3>2. QED BY <3>1, Requested DEF Scores, Lists
  <2>3. x \in ToSet(found[l].ids)
    <3>1. SUFFICES ASSUME x \notin ToSet(found[l].ids) PROVE FALSE
      OBVIOUS
    <3>2. PICK i \in DOMAIN found[l].ids : found[l].ids[i] = y
      BY <1>1 DEF ToSet
    <3>3. profile[l][y] >= profile[l][x]
      BY <2>1, <3>1, <3>2 DEF RecallInv, ListInv
    <3>4. QED BY <2>1, <2>2, <3>1, <3>3
  <2>4. /\ RankIn(l, x) \in Nat \ {0} /\ RankIn(l, y) \in Nat \ {0}
        /\ RankIn(l, x) <= RankIn(l, y)
    BY <1>1, <2>1, <2>2, <2>3, RankOfListed
  <2>5. request.fusion[l] \in Nat /\ request.fusion.k \in Nat
    BY Requested DEF Searching, Fusions, Lists
  <2>6. PICK w \in Nat, k \in Nat :
          w = request.fusion[l] /\ k = request.fusion.k
    BY <2>5
  <2>7. PICK p \in Nat \ {0}, q \in Nat \ {0} :
          p = RankIn(l, x) /\ q = RankIn(l, y) /\ p <= q
    BY <2>4
  <2>8. (k + p) * w <= (k + q) * w
    <3>1. k + p \in Nat /\ k + q \in Nat /\ k + p <= k + q
      BY <2>7
    <3>2. QED BY <3>1, TimesGrows
  <2>9. ShareIn(l, x) = <<w, k + p>> /\ ShareIn(l, y) = <<w, k + q>>
    BY <2>6, <2>7 DEF ShareIn, Share, NoRank
  <2>10. AtLeast(<<w, k + p>>, <<w, k + q>>)
    BY <2>8 DEF AtLeast
  <2>11. QED BY <2>3, <2>9, <2>10
<1>2. CASE y \notin ToSet(found[l].ids)
  <2>1. ShareIn(l, y) = <<0, 1>>
    BY <1>2 DEF ShareIn, RankIn, RankOf, Share
  <2>2. ShareIn(l, x) \in Fractions
    BY ShareIsFraction
  <2>3. QED BY <1>2, <2>1, <2>2 DEF AtLeast, Fractions
<1>3. QED BY <1>1, <1>2

(* The sum of the two shares, and what it is divided by.                   *)
SumOf(m) == Plus(ShareIn("vector", m), ShareIn("lexical", m))
Scale == (request.fusion.vector + request.fusion.lexical) * MaxBoost

LEMMA SumIsFraction ==
  ASSUME RecallInv, IsSearch, NEW m
  PROVE  SumOf(m) \in Fractions
BY ShareIsFraction, PlusIsFraction DEF SumOf, Lists

(* The boost of a memory, at any time and when it was read.                *)
LEMMA BoostIsNat ==
  ASSUME RecallInv, NEW m \in Ids
  PROVE  /\ readAt[m] \in Instants
         /\ BoostRead(m) \in Nat \ {0}
         /\ \A t \in Instants : profile.boost[m][t] \in Nat \ {0}
         /\ \A s, t \in Instants :
              s <= t => profile.boost[m][t] <= profile.boost[m][s]
<1>1. profile.boost[m] \in Boosts
  BY Requested DEF Scores
<1>2. /\ \A t \in Instants : profile.boost[m][t] \in 1 .. MaxBoost
      /\ \A s, t \in Instants :
           s <= t => profile.boost[m][t] <= profile.boost[m][s]
  BY <1>1 DEF Boosts
<1>3. readAt[m] \in Instants
  BY DEF RecallInv
<1>4. 1 .. MaxBoost \subseteq Nat \ {0}
  BY BoostAssumption
<1>5. QED BY <1>2, <1>3, <1>4 DEF BoostRead

(* Who is scored first and never boosted less is not scored with a lower   *)
(* boost.                                                                  *)
LEMMA FirstReadsMore ==
  ASSUME RecallInv, result # <<>>, NEW x \in Ids, NEW y \in Ids,
         ScoredFirst(x, y)
  PROVE  BoostRead(x) >= BoostRead(y)
<1>1. PICK s \in Nat, t \in Nat :
        /\ s = readAt[x] /\ t = readAt[y] /\ s \in Instants /\ t \in Instants
  BY BoostIsNat DEF Instants
<1>2. s <= t
  BY <1>1 DEF RecallInv, Readings, ScoredFirst
<1>3. /\ profile.boost[x][t] <= profile.boost[x][s]
      /\ profile.boost[x][t] >= profile.boost[y][t]
  BY <1>1, <1>2, BoostIsNat DEF ScoredFirst
<1>4. /\ profile.boost[x][t] \in Nat /\ profile.boost[x][s] \in Nat
      /\ profile.boost[y][t] \in Nat
  BY <1>1, BoostIsNat
<1>5. QED BY <1>1, <1>3, <1>4 DEF BoostRead

(* A score is a sum of two shares, times a boost, by a common scale.       *)
LEMMA ScoreIsScaledSum ==
  ASSUME RecallInv, IsSearch, NEW m \in Ids
  PROVE  /\ ScoreOf(m) \in Fractions
         /\ request.fusion.k + 1 \in Nat \ {0} /\ Scale \in Nat \ {0}
         /\ ScoreOf(m) =
              <<SumOf(m)[1] * ((request.fusion.k + 1) * BoostRead(m)),
                SumOf(m)[2] * Scale>>
<1>1. /\ request.fusion.vector \in Nat /\ request.fusion.lexical \in Nat
      /\ request.fusion.k \in Nat
      /\ request.fusion.vector + request.fusion.lexical > 0
  BY Requested DEF Searching, Fusions
<1>2. BoostRead(m) \in Nat \ {0} /\ MaxBoost \in Nat \ {0}
  BY BoostIsNat, BoostAssumption
<1>3. PICK a \in Nat, b \in Nat \ {0} : SumOf(m) = <<a, b>>
  BY SumIsFraction DEF Fractions
<1>4. PICK w \in Nat \ {0}, k \in Nat, p \in Nat \ {0} :
        /\ w = request.fusion.vector + request.fusion.lexical
        /\ k = request.fusion.k /\ p = BoostRead(m)
  BY <1>1, <1>2
<1>5. ScoreOf(m) = <<(a * (k + 1)) * p, (b * w) * MaxBoost>>
  BY <1>3, <1>4
  DEF ScoreOf, Boosted, FusedScore, SumOf, ShareIn
<1>6. /\ (a * (k + 1)) * p = a * ((k + 1) * p) /\ a * ((k + 1) * p) \in Nat
      /\ (b * w) * MaxBoost = b * (w * MaxBoost)
  BY <1>2
<1>7. w * MaxBoost \in Nat \ {0} /\ b * (w * MaxBoost) \in Nat \ {0}
  BY <1>2, TimesPositive
<1>8. QED BY <1>3, <1>4, <1>5, <1>6, <1>7 DEF Scale, Fractions

(* What was found scores more than nothing.                                *)
LEMMA FoundScores ==
  ASSUME RecallInv, IsSearch, NEW m \in Found
  PROVE  SumOf(m)[1] \in Nat \ {0}
<1>1. PICK l \in Lists : m \in ToSet(found[l].ids)
  BY DEF Found
<1>2. request.fusion[l] \in Nat \ {0}
  <2>1. found[l].ids # <<>>
    BY <1>1 DEF ToSet
  <2>2. found[l] # Skipped
    BY <2>1 DEF Skipped, Unsearched
  <2>3. request.fusion[l] \in Nat
    BY Requested DEF Searching, Fusions, Lists
  <2>4. QED BY <2>2, <2>3 DEF RecallInv
<1>3. ShareIn(l, m)[1] \in Nat \ {0}
  <2>1. m \in Ids
    BY <1>1 DEF RecallInv, ListInv
  <2>2. profile[l][m] \in Nat
    BY <2>1, Requested DEF Scores, Lists
  <2>3. RankIn(l, m) # NoRank
    BY <1>1, <2>2, RankOfListed DEF NoRank
  <2>4. QED BY <1>2, <2>3 DEF ShareIn, Share
<1>4. PICK a \in Nat, b \in Nat \ {0} : ShareIn("vector", m) = <<a, b>>
  BY ShareIsFraction DEF Fractions, Lists
<1>5. PICK c \in Nat, d \in Nat \ {0} : ShareIn("lexical", m) = <<c, d>>
  BY ShareIsFraction DEF Fractions, Lists
<1>6. a > 0 \/ c > 0
  BY <1>3, <1>4, <1>5 DEF Lists
<1>7. a * d \in Nat /\ c * b \in Nat
  OBVIOUS
<1>8. a * d + c * b > 0
  BY <1>6, <1>7, TimesPositive
<1>9. SumOf(m)[1] = a * d + c * b
  BY <1>4, <1>5 DEF SumOf, Plus
<1>10. QED BY <1>7, <1>8, <1>9

(* Who keeps up with a listed memory and wins the tie precedes it.         *)
LEMMA KeepsAhead ==
  ASSUME RecallInv, IsSearch, result # <<>>, NEW x \in Ids, NEW y \in Found,
         KeepsUp(x, y), WinsTie(x, y)
  PROVE  /\ x \in Found
         /\ AtLeast(ScoreOf(x), ScoreOf(y))
         /\ Precedes(Entry(x), Entry(y))
<1>1. x \in Found /\ y \in Ids
  <2>1. PICK l \in Lists : y \in ToSet(found[l].ids)
    BY DEF Found
  <2>2. x \in ToSet(found[l].ids)
    BY <2>1, KeepsUpInList
  <2>3. QED BY <2>1, <2>2 DEF Found, RecallInv, ListInv
<1>2. AtLeast(SumOf(x), SumOf(y))
  <2>1. \A l \in Lists : AtLeast(ShareIn(l, x), ShareIn(l, y))
    BY KeepsUpInList
  <2>2. \A l \in Lists :
          ShareIn(l, x) \in Fractions /\ ShareIn(l, y) \in Fractions
    BY ShareIsFraction
  <2>3. QED BY <2>1, <2>2, PlusGrows DEF SumOf, Lists
<1>3. PICK a \in Nat, b \in Nat \ {0} : SumOf(x) = <<a, b>>
  BY SumIsFraction DEF Fractions
<1>4. PICK c \in Nat \ {0}, d \in Nat \ {0} : SumOf(y) = <<c, d>>
  BY SumIsFraction, FoundScores DEF Fractions
<1>5. a * d >= c * b
  BY <1>2, <1>3, <1>4 DEF AtLeast
<1>6. PICK k \in Nat \ {0}, r \in Nat \ {0}, u \in Nat, v \in Nat :
        /\ k = request.fusion.k + 1 /\ r = Scale
        /\ u = BoostRead(x) /\ v = BoostRead(y)
  <2>1. BoostRead(x) \in Nat /\ BoostRead(y) \in Nat
    BY <1>1, BoostIsNat
  <2>2. QED BY <2>1, ScoreIsScaledSum
<1>7. /\ ScoreOf(x) = <<a * (k * u), b * r>>
      /\ ScoreOf(y) = <<c * (k * v), d * r>>
  BY <1>1, <1>3, <1>4, <1>6, ScoreIsScaledSum
<1>8. k * u \in Nat /\ k * v \in Nat
  OBVIOUS
<1>9. CASE u > v
  <2>1. k * u > k * v
    BY <1>9, TimesGrowsStrictly
  <2>2. (a * (k * u)) * (d * r) > (c * (k * v)) * (b * r)
    BY <1>5, <1>8, <2>1, CrossTimesStrictly
  <2>3. /\ a * (k * u) \in Nat /\ d * r \in Nat
        /\ c * (k * v) \in Nat /\ b * r \in Nat
    BY <1>8
  <2>4. AtLeast(ScoreOf(x), ScoreOf(y)) /\ ~AtLeast(ScoreOf(y), ScoreOf(x))
    BY <1>7, <2>2, <2>3 DEF AtLeast
  <2>5. QED BY <1>1, <2>4 DEF Precedes, Entry
<1>10. CASE u = v
  <2>1. (a * (k * u)) * (d * r) >= (c * (k * v)) * (b * r)
    BY <1>5, <1>8, <1>10, CrossTimes
  <2>2. AtLeast(ScoreOf(x), ScoreOf(y))
    BY <1>7, <2>1 DEF AtLeast
  <2>3. \/ profile.createdAt[x] > profile.createdAt[y]
        \/ profile.createdAt[x] = profile.createdAt[y] /\ x < y
    BY <1>6, <1>10 DEF WinsTie
  <2>4. QED BY <1>1, <2>2, <2>3 DEF Precedes, Entry
<1>11. u > v \/ u = v
  <2>1. ScoredFirst(x, y) => u >= v
    BY <1>1, <1>6, FirstReadsMore
  <2>2. u > v \/ u = v \/ ScoredFirst(x, y)
    BY <1>6 DEF WinsTie
  <2>3. QED BY <2>1, <2>2
<1>12. QED BY <1>9, <1>10, <1>11

(* What is kept: finitely many memories, each with its score.              *)
LEMMA KeptAreScoreds ==
  ASSUME RecallInv, IsSearch
  PROVE  /\ Found \in SUBSET Ids /\ Kept \in SUBSET Scoreds
         /\ IsFiniteSet(Kept)
         /\ \A a, b \in Kept : a.id = b.id => a = b
<1>1. Found \in SUBSET Ids /\ IsFiniteSet(Found)
  <2>1. Found \in SUBSET Ids
    BY DEF Found, RecallInv, ListInv
  <2>2. QED BY <2>1, CallAssumption, FS_Subset
<1>2. Kept \in SUBSET Scoreds
  <2>1. \A m \in Ids : Entry(m) \in Scoreds
    BY ScoreIsScaledSum, Requested, CallAssumption DEF Entry, Scoreds, Scores
  <2>2. QED BY <1>1, <2>1 DEF Kept
<1>3. IsFiniteSet(Kept)
  <2> DEFINE T == {Entry(m) : m \in Found}
             f == [m \in Found |-> Entry(m)]
  <2>1. f \in Surjection(Found, T) /\ Kept \subseteq T
    BY DEF Surjection, Kept
  <2> HIDE DEF f, T
  <2>2. QED BY <1>1, <2>1, FS_Surjection, FS_Subset
<1>4. \A a, b \in Kept : a.id = b.id => a = b
  BY DEF Kept, Entry
<1>5. QED BY <1>1, <1>2, <1>3, <1>4

(* It can be sorted, and recall returns the beginning.                     *)
LEMMA FusedIsSorted ==
  ASSUME RecallInv, IsSearch
  PROVE  LET s == InOrder(Kept) IN
         /\ s \in SetToSeqs(Kept) /\ Ascends(s)
         /\ Fused(readAt) =
              [i \in 1 .. Min({request.limit, Len(s)}) |-> s[i].id]
<1>1. Kept = {e \in Scored(FoundLists, profile, readAt, request.fusion) :
                AtLeast(e.score, request.minScore)}
  <2>1. Found = ToSet(found.vector.ids) \union ToSet(found.lexical.ids)
    BY DEF Found, Lists
  <2>2. Scored(FoundLists, profile, readAt, request.fusion)
          = {Entry(m) : m \in Found}
    BY <2>1 DEF Scored, FoundLists, Entry, ScoreOf, BoostRead, RankIn
  <2>3. QED BY <2>2 DEF Kept
<1>2. Sortable(Kept)
  BY KeptAreScoreds, FiniteAreSortable
<1>3. InOrder(Kept) \in SetToSeqs(Kept) /\ Ascends(InOrder(Kept))
  <2> DEFINE Sorted(s) == IsSorted(s, Precedes)
  <2>1. ASSUME NEW s \in SetToSeqs(Kept) PROVE Sorted(s) <=> Ascends(s)
    <3>1. Cardinality(Kept) \in Nat
      BY KeptAreScoreds, FS_CardinalityType
    <3>2. s \in [1 .. Cardinality(Kept) -> Kept]
      BY DEF SetToSeqs
    <3>3. Len(s) = Cardinality(Kept) /\ DOMAIN s = 1 .. Cardinality(Kept)
      BY <3>1, <3>2
    <3>4. QED BY <3>3 DEF Ascends, IsSorted
  <2>2. InOrder(Kept) = CHOOSE s \in SetToSeqs(Kept) : Sorted(s)
    BY DEF InOrder
  <2> HIDE DEF Sorted
  <2>3. \E s \in SetToSeqs(Kept) : Sorted(s)
    BY <1>2, <2>1 DEF Sortable
  <2>4. QED BY <2>1, <2>2, <2>3
<1>4. Fused(readAt) = [i \in 1 .. Min({request.limit, Len(InOrder(Kept))}) |->
                 InOrder(Kept)[i].id]
  BY <1>1 DEF Fused, Fuse
<1>5. QED BY <1>3, <1>4

(* Min of two numbers.                                                     *)
LEMMA LeastOfTwo ==
  ASSUME NEW a \in Nat, NEW b \in Nat
  PROVE  Min({a, b}) \in Nat /\ Min({a, b}) <= a /\ Min({a, b}) <= b
<1>1. \E x \in {a, b} : \A y \in {a, b} : x <= y
  OBVIOUS
<1>2. Min({a, b}) \in {a, b} /\ \A y \in {a, b} : Min({a, b}) <= y
  BY <1>1 DEF Min
<1>3. QED BY <1>2

(* What recall returns is the beginning of all that is kept, sorted.       *)
LEMMA ResultIsSorted ==
  ASSUME RecallInv, result # <<>>
  PROVE  \E s \in [1 .. Cardinality(Kept) -> Kept],
            k \in 0 .. Cardinality(Kept) :
           /\ IsSearch /\ Ascends(s)
           /\ \A e \in Kept : \E i \in 1 .. Cardinality(Kept) : s[i] = e
           /\ result = [i \in 1 .. k |-> s[i].id]
<1> DEFINE s == InOrder(Kept)
           n == Cardinality(Kept)
           k == Min({request.limit, Len(s)})
<1>1. IsSearch /\ result = Fused(readAt)
  BY DEF RecallInv
<1>2. /\ s \in SetToSeqs(Kept) /\ Ascends(s)
      /\ Fused(readAt) = [i \in 1 .. k |-> s[i].id]
  BY <1>1, FusedIsSorted
<1>3. IsFiniteSet(Kept) /\ n \in Nat
  BY <1>1, KeptAreScoreds, FS_CardinalityType
<1> HIDE DEF s, n, k
<1>4. s \in [1 .. n -> Kept] /\ \A i, j \in 1 .. n : i # j => s[i] # s[j]
  BY <1>2 DEF SetToSeqs, n
<1>5. Len(s) = n
  BY <1>3, <1>4
<1>6. k \in 0 .. n
  <2>1. request.limit \in Nat
    BY <1>1, Requested DEF Searching
  <2>2. QED BY <1>3, <1>5, <2>1, LeastOfTwo DEF k
<1>7. \A e \in Kept : \E i \in 1 .. n : s[i] = e
  <2>1. s \in Injection(1 .. n, Kept)
    BY <1>4 DEF Injection, IsInjective
  <2>2. IsFiniteSet(1 .. n) /\ Cardinality(1 .. n) = n
    <3>1. Cardinality(1 .. n) = IF 1 > n THEN 0 ELSE n - 1 + 1
      BY <1>3, FS_Interval, 1 \in Int, n \in Int
    <3>2. IsFiniteSet(1 .. n)
      BY <1>3, FS_Interval, 1 \in Int, n \in Int
    <3>3. QED BY <1>3, <3>1, <3>2
  <2>3. s \in Surjection(1 .. n, Kept)
    BY <1>3, <2>1, <2>2, FS_Injection DEF n
  <2>4. QED BY <2>3 DEF Surjection
<1>8. QED BY <1>1, <1>2, <1>4, <1>6, <1>7 DEF n

(* What is kept is the entry of a found memory.                            *)
LEMMA KeptIsEntry ==
  ASSUME NEW e \in Kept
  PROVE  /\ e.id \in Found /\ e = Entry(e.id)
         /\ AtLeast(ScoreOf(e.id), request.minScore)
BY DEF Kept, Entry

(* Recall returns stored memories.                                         *)
LEMMA ResultIsOfIds ==
  ASSUME RecallInv
  PROVE  ToSet(result) \subseteq Ids
<1>1. CASE result = <<>>
  BY <1>1 DEF ToSet
<1>2. CASE result # <<>>
  <2>1. PICK s \in [1 .. Cardinality(Kept) -> Kept],
             k \in 0 .. Cardinality(Kept) :
               /\ IsSearch /\ result = [i \in 1 .. k |-> s[i].id]
    BY <1>2, ResultIsSorted
  <2>2. Cardinality(Kept) \in Nat
    BY <2>1, KeptAreScoreds, FS_CardinalityType
  <2>3. \A i \in 1 .. k : s[i] \in Kept
    BY <2>2
  <2>4. ASSUME NEW e \in Kept PROVE e.id \in Ids
    <3>1. Found \in SUBSET Ids
      BY <2>1, KeptAreScoreds
    <3>2. QED BY <3>1, KeptIsEntry
  <2>5. QED BY <2>1, <2>3, <2>4 DEF ToSet
<1>3. QED BY <1>1, <1>2

(* Whoever is better than a kept memory is kept, and sorted before it.     *)
LEMMA BetterComeFirst == RecallInv => BetterNeverBelow
<1> SUFFICES ASSUME RecallInv, NEW n \in DOMAIN result, NEW x \in Ids,
                    KeepsUp(x, result[n]), WinsTie(x, result[n])
             PROVE  \E m \in 1 .. n - 1 : result[m] = x
  BY DEF BetterNeverBelow
<1>1. result # <<>>
  OBVIOUS
<1>2. PICK s \in [1 .. Cardinality(Kept) -> Kept],
           k \in 0 .. Cardinality(Kept) :
        /\ IsSearch /\ Ascends(s)
        /\ \A e \in Kept : \E i \in 1 .. Cardinality(Kept) : s[i] = e
        /\ result = [i \in 1 .. k |-> s[i].id]
  BY <1>1, ResultIsSorted
<1>3. /\ Cardinality(Kept) \in Nat
      /\ Kept \in SUBSET Scoreds /\ Found \in SUBSET Ids
  BY <1>2, KeptAreScoreds, FS_CardinalityType
<1>4. n \in 1 .. k /\ n \in 1 .. Cardinality(Kept) /\ s[n] \in Kept
      /\ result[n] = s[n].id
  BY <1>2, <1>3
<1> DEFINE y == result[n]
<1>5. y \in Found /\ s[n] = Entry(y) /\ AtLeast(ScoreOf(y), request.minScore)
  BY <1>4, KeptIsEntry
<1>6. /\ x \in Found /\ AtLeast(ScoreOf(x), ScoreOf(y))
      /\ Precedes(Entry(x), Entry(y))
  BY <1>1, <1>2, <1>5, KeepsAhead
<1>7. AtLeast(ScoreOf(x), request.minScore)
  <2>1. request.minScore \in Fractions
    BY <1>2, Requested DEF Searching, Fractions
  <2>2. ScoreOf(x) \in Fractions /\ ScoreOf(y) \in Fractions
    BY <1>2, <1>3, <1>5, ScoreIsScaledSum
  <2>3. QED BY <1>5, <1>6, <2>1, <2>2, AtLeastTransitive
<1>8. Entry(x) \in Kept /\ Entry(x).id = x
  BY <1>6, <1>7 DEF Kept, Entry
<1>9. PICK m \in 1 .. Cardinality(Kept) : s[m] = Entry(x)
  BY <1>2, <1>8
<1>10. m < n
  <2>1. Entry(x) \in Scoreds /\ Entry(y) \in Scoreds
    BY <1>3, <1>4, <1>5, <1>8
  <2>2. ~Precedes(Entry(y), Entry(x)) /\ Entry(x) # Entry(y)
    BY <1>6, <2>1, PrecedesTransitive, PrecedesIrreflexive
  <2>3. ~(n < m)
    BY <1>2, <1>3, <1>4, <1>5, <1>9, <2>2 DEF Ascends
  <2>4. n # m
    BY <1>5, <1>9, <2>2
  <2>5. n \in Int /\ m \in Int
    BY <1>3, <1>4
  <2>6. QED BY <2>3, <2>4, <2>5
<1>11. m \in 1 .. n - 1 /\ m \in 1 .. k
  BY <1>3, <1>4, <1>9, <1>10
<1>12. result[m] = x
  BY <1>2, <1>8, <1>9, <1>11
<1>13. QED BY <1>11, <1>12

(* RecallInv is an invariant of a call, whatever other clients do.         *)
THEOREM RecallCorrect == Spec => []RecallInv
BY RecallInit, RecallStep, PTL DEF Spec

(* A call keeps its type, a search lists only what was there to be found,  *)
(* recall returns stored memories, and buildContext's loops keep their     *)
(* invariants.                                                             *)
THEOREM CallTypeCorrect == Spec => []CallInv
<1>1. RecallInv /\ BudgetInv => CallInv
  BY ResultIsOfIds DEF RecallInv, BudgetInv, CallInv, ListInv
<1>2. Init => BudgetInv
  BY BudgetInitInv DEF Init
<1>3. BudgetInv /\ [Next]_vars => BudgetInv'
  BY StepsOfTheLoops, BudgetNextInv
<1>4. QED BY <1>1, <1>2, <1>3, RecallCorrect, PTL DEF Spec

(* A memory that does at least as well as a recalled one in both searches  *)
(* is recalled before it if it was scored with the higher boost, or it     *)
(* wins the tie and was scored with the same boost or first: for any       *)
(* number of memories, any scores, weights and limits, any readings of the *)
(* clock, whatever the vector index misses, and any changes between the    *)
(* two searches.                                                           *)
THEOREM BetterFirst == Spec => []BetterNeverBelow
BY RecallCorrect, BetterComeFirst, PTL
=============================================================================
