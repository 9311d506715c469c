---------------------------- MODULE ContextBudget ----------------------------
(***************************************************************************)
(* buildContext's search for the text to return (src/context/builder.ts,   *)
(* trimToTokenBudget in src/context/tokens.ts): a binary search over how   *)
(* many memories to keep; if not even the header fits, a binary search     *)
(* over where to cut the header; if the truncation marker alone does not   *)
(* fit, the longest beginning of the marker.                               *)
(*                                                                         *)
(* A text matters only by its token count, so a ladder of candidate texts  *)
(* is a table of counts.  The counter is the caller's: it need not grow    *)
(* with the text.                                                          *)
(***************************************************************************)
EXTENDS Integers

CONSTANTS
  Texts  \* the candidate texts of a call and its budget

(* contexts[k]: the context with the first k of the recalled memories;     *)
(* cuts[k]: the header cut to k characters, and the marker on a new line;  *)
(* fragments[k]: the first k characters of the marker.                     *)
ASSUME TextsAssumption ==
  \A t \in Texts :
    /\ t.memories \in Nat /\ t.contexts \in [0 .. t.memories -> Nat]
    /\ t.length \in Nat /\ t.cuts \in [0 .. t.length -> Nat]
    /\ t.marker \in Nat /\ t.fragments \in [1 .. t.marker -> Nat]
    /\ t.maxTokens \in Nat \ {0}

VARIABLES
  stage,   \* the loop that runs
  text,    \* the texts of this call
  low,     \* the bounds of the binary search; "high" is also the length
  high,    \* of the marker fragment tried next
  best,    \* the largest candidate known to fit
  answer   \* the text returned: its kind, and how much it keeps

budgetVars == <<stage, text, low, high, best, answer>>

None == -1
Searches == {"contexts", "cuts"}
NoText == [memories |-> 0]
NoAnswer == [kind |-> "none", keeps |-> 0]

BudgetInit ==
  /\ stage = "idle"
  /\ text = NoText
  /\ low = 0 /\ high = 0 /\ best = None
  /\ answer = NoAnswer

Size == IF stage = "contexts" THEN text.contexts ELSE text.cuts
Top == IF stage = "contexts" THEN text.memories ELSE text.length

Fits(size) == size <= text.maxTokens

(* The recall has answered.                                                *)
BeginContext(t) ==
  /\ stage = "idle"
  /\ stage' = "contexts"
  /\ text' = t
  /\ low' = 0 /\ high' = t.memories /\ best' = None
  /\ UNCHANGED answer

FromMid(mid) ==  \* fault: the search resumes at the candidate that fits
  IF Fits(Size[mid]) THEN best' = mid /\ low' = mid /\ UNCHANGED high
                     ELSE high' = mid - 1 /\ UNCHANGED <<low, best>>
DownToMid(mid) ==  \* fault: a candidate that does not fit is tried again
  IF Fits(Size[mid]) THEN best' = mid /\ low' = mid + 1 /\ UNCHANGED high
                     ELSE high' = mid /\ UNCHANGED <<low, best>>
Narrow(mid) ==
  IF Fits(Size[mid]) THEN best' = mid /\ low' = mid + 1 /\ UNCHANGED high
                     ELSE high' = mid - 1 /\ UNCHANGED <<low, best>>

MoreThanOne == low < high  \* fault: the last candidate is not tried
Narrowing == low <= high

Probe ==
  /\ stage \in Searches /\ Narrowing
  /\ Narrow((low + high) \div 2)
  /\ UNCHANGED <<stage, text, answer>>

ReturnText(kind, keeps) ==
  /\ stage' = "done"
  /\ answer' = [kind |-> kind, keeps |-> keeps]
  /\ UNCHANGED <<text, low, high, best>>

ReturnContext ==
  /\ stage = "contexts" /\ ~Narrowing
  /\ \/ best # None /\ ReturnText("context", best)
     \/ best = None /\ text.memories = 0 /\ ReturnText("empty", 0)

(* trimToTokenBudget counts the header again, which cannot fit now: it was *)
(* the context with no memory.                                             *)
CutHeader ==
  /\ stage = "contexts" /\ ~Narrowing
  /\ best = None /\ text.memories > 0
  /\ stage' = "cuts"
  /\ low' = 0 /\ high' = text.length /\ best' = None
  /\ UNCHANGED <<text, answer>>

ReturnCut ==
  /\ stage = "cuts" /\ ~Narrowing /\ best # None
  /\ ReturnText("cut", best)

CutMarker ==
  /\ stage = "cuts" /\ ~Narrowing /\ best = None
  /\ stage' = "marker"
  /\ high' = text.marker
  /\ UNCHANGED <<text, low, best, answer>>

ReturnFragment ==
  /\ stage = "marker"
  /\ \/ high > 0 /\ Fits(text.fragments[high]) /\ ReturnText("fragment", high)
     \/ high = 0 /\ ReturnText("empty", 0)

ShortenFragment ==
  /\ stage = "marker" /\ high > 0 /\ ~Fits(text.fragments[high])
  /\ high' = high - 1
  /\ UNCHANGED <<stage, text, low, best, answer>>

BudgetStep ==
  \/ Probe \/ ReturnContext \/ CutHeader
  \/ ReturnCut \/ CutMarker
  \/ ReturnFragment \/ ShortenFragment

BudgetNext == (\E t \in Texts : BeginContext(t)) \/ BudgetStep

BudgetSpec == BudgetInit /\ [][BudgetNext]_budgetVars
                         /\ WF_budgetVars(BudgetStep)

-----------------------------------------------------------------------------
BudgetTypeOK ==
  /\ stage \in {"idle", "contexts", "cuts", "marker", "done"}
  /\ stage # "idle" => text \in Texts
  /\ low \in Nat /\ high \in Int /\ best \in Int
  /\ answer \in [kind : {"none", "context", "cut", "fragment", "empty"},
                 keeps : Nat]

Grows(size, last) == \A i, j \in 0 .. last : i <= j => size[i] <= size[j]

(* No candidate above k of the ladder fits.                                *)
LastFit(size, last, k) ==
  \A i \in k + 1 .. last : ~Fits(size[i])

NoContextFits == LastFit(text.contexts, text.memories, None)
NoCutFits == LastFit(text.cuts, text.length, None)

(* Between two probes the best candidate is the one below the lower bound, *)
(* the candidate above the upper bound does not fit, and if sizes grow     *)
(* nothing above it does.                                                  *)
SearchInv ==
  stage \in Searches =>
    /\ low <= high + 1 /\ high <= Top
    /\ best = low - 1
    /\ best # None => Fits(Size[best])
    /\ high < Top => ~Fits(Size[high + 1])
    /\ Grows(Size, Top) => LastFit(Size, Top, high)

StageInv ==
  /\ stage = "idle" => answer = NoAnswer
  /\ stage \in {"cuts", "marker"} =>
       /\ text.memories > 0
       /\ ~Fits(text.contexts[0])
       /\ Grows(text.contexts, text.memories) => NoContextFits
  /\ stage = "marker" =>
       /\ high \in 0 .. text.marker
       /\ ~Fits(text.cuts[0])
       /\ Grows(text.cuts, text.length) => NoCutFits
       /\ \A k \in high + 1 .. text.marker : ~Fits(text.fragments[k])

(* Whatever the counter, a text that is returned is within the budget; and *)
(* with a counter that grows with the text it is the largest of its ladder *)
(* that is, each ladder tried only when nothing of the one before fits.    *)
WithinBudget ==
  LET n == answer.keeps IN
  /\ answer.kind = "context" => n \in 0 .. text.memories
                                /\ Fits(text.contexts[n])
  /\ answer.kind = "cut" => n \in 0 .. text.length /\ Fits(text.cuts[n])
  /\ answer.kind = "fragment" => n \in 1 .. text.marker
                                 /\ Fits(text.fragments[n])

LargestContext ==
  LET n == answer.keeps
      contextsGrow == Grows(text.contexts, text.memories)
      cutsGrow == Grows(text.cuts, text.length)
  IN
  stage = "done" =>
    /\ WithinBudget
    /\ answer.kind = "context" /\ contextsGrow =>
         LastFit(text.contexts, text.memories, n)
    /\ answer.kind # "context" /\ contextsGrow => NoContextFits
    /\ answer.kind = "cut" /\ cutsGrow => LastFit(text.cuts, text.length, n)
    /\ answer.kind \in {"fragment", "empty"} /\ text.memories > 0 =>
         /\ cutsGrow => NoCutFits
         /\ \A k \in n + 1 .. text.marker : ~Fits(text.fragments[k])

BudgetInv == BudgetTypeOK /\ SearchInv /\ StageInv /\ LargestContext
=============================================================================
