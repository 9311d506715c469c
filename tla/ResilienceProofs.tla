-------------------------- MODULE ResilienceProofs --------------------------
(***************************************************************************)
(* Theorems about Resilience for any number of attempts and any set of     *)
(* retryable errors.                                                       *)
(*                                                                         *)
(* ResilienceInv is inductive.  At any time at most the awaited attempt is *)
(* open; every other one has settled, which takes down its timer and its   *)
(* listener, or threw at once.  A provider that runs on after its attempt  *)
(* settled was told to stop, so a value comes from an attempt that was not.*)
(***************************************************************************)
EXTENDS Resilience, TLAPS

(* The steps of the loop, and those of answers, timers and the abort.      *)
LEMMA InitInv == Init => ResilienceInv
<1> SUFFICES ASSUME Init PROVE ResilienceInv
  OBVIOUS
<1>1. config.attempts \in Nat
  BY ResilienceAssumption DEF Init, Configs, Attempts
<1>2. TypeOK
  <2>1. aborted \in BOOLEAN
    BY Zenon DEF Init
  <2>2. QED BY <1>1, <2>1 DEF Init, TypeOK
<1>3. AttemptsSettle
  BY DEF Init, Configs, Attempts, AttemptsSettle
<1>4. QED BY <1>2, <1>3 DEF Init, ResultIsCurrent, ResilienceInv

LEMMA AttemptInv ==
  ASSUME ResilienceInv, Attempt PROVE ResilienceInv'
<1> USE ResilienceAssumption DEF ResilienceInv, Configs, Attempts, Answers, Errors
<1>1. attempt + 1 \in Attempts /\ attempt + 1 <= config.attempts
  BY DEF Attempt, AttemptsSettle, TypeOK
<1>2. TypeOK'
  <2>1. provider' \in [Attempts -> {"unused", "running"} \union Answers]
    <3>1. PICK p \in {"running", "TRANSIENT", "FINAL"} :
            provider' = [provider EXCEPT ![attempt + 1] = p]
      BY DEF Attempt
    <3>2. QED BY <3>1 DEF TypeOK
  <2>2. /\ timers' \subseteq Attempts /\ thrown' \subseteq Attempts
        /\ listeners' \subseteq Attempts \union {0}
    BY <1>1 DEF Attempt, TypeOK
  <2>3. result' \in {"none"} \union Answers
    BY DEF Attempt, TypeOK
  <2>4. attempt' \in 0 .. config'.attempts
    BY <1>1 DEF Attempt, TypeOK
  <2>5. QED BY <2>1, <2>2, <2>3, <2>4 DEF Attempt, TypeOK
<1>3. AttemptsSettle'
  BY <1>1, <1>2 DEF Attempt, TypeOK, AttemptsSettle
<1>4. ResultIsCurrent'
  BY <1>1 DEF Attempt, ResultIsCurrent
<1>5. QED BY <1>2, <1>3, <1>4

LEMMA LoopInv ==
  ASSUME ResilienceInv, Refuse \/ Continue \/ Resume PROVE ResilienceInv'
<1> USE ResilienceAssumption
    DEF ResilienceInv, Configs, Attempts, Answers, Errors
<1>1. CASE Refuse
  <2>1. TypeOK' BY <1>1 DEF Refuse, End, Reported, TypeOK
  <2>2. AttemptsSettle' BY <1>1 DEF Refuse, End, TypeOK, AttemptsSettle
  <2>3. ResultIsCurrent'
    BY <1>1 DEF Refuse, End, Reported, ResultIsCurrent
  <2>4. QED BY <2>1, <2>2, <2>3
<1>2. CASE Continue
  <2>1. TypeOK' BY <1>2 DEF Continue, End, Reported, TypeOK
  <2>2. AttemptsSettle'
    BY <1>2 DEF Continue, Retries, End, TypeOK, AttemptsSettle
  <2>3. ResultIsCurrent'
    BY <1>2 DEF Continue, Retries, End, Reported, ResultIsCurrent
  <2>4. QED BY <2>1, <2>2, <2>3
<1>3. CASE Resume
  <2>1. TypeOK' BY <1>3 DEF Resume, TypeOK
  <2>2. AttemptsSettle' BY <1>3 DEF Resume, TypeOK, AttemptsSettle
  <2>3. ResultIsCurrent' BY <1>3 DEF Resume, ResultIsCurrent
  <2>4. QED BY <2>1, <2>2, <2>3
<1>4. QED BY <1>1, <1>2, <1>3

(* An attempt that is open is the awaited one, or one that threw.          *)
LEMMA OpenAttempt ==
  ASSUME ResilienceInv, NEW a \in Attempts, a \notin settled,
         provider[a] = "running" \/ a \in timers \union listeners
  PROVE  /\ a <= attempt
         /\ a \in thrown \/ (at = "attempt" /\ a = attempt)
BY DEF ResilienceInv, TypeOK, AttemptsSettle, Attempts, Configs

LEMMA AnswerInv ==
  ASSUME ResilienceInv, NEW a \in Attempts, Answer(a) PROVE ResilienceInv'
<1> USE ResilienceAssumption DEF ResilienceInv, Attempts, Answers, Errors
<1>1. PICK r \in Answers : /\ provider' = [provider EXCEPT ![a] = r]
                           /\ Settle(a, r)
  BY DEF Answer
<1>2. provider[a] = "running"
  BY DEF Answer
<1>3. TypeOK'
  BY <1>1 DEF Answer, Settle, Gives, TypeOK
<1>4. a <= attempt /\ a \notin thrown
  BY <1>2 DEF TypeOK, AttemptsSettle, Configs
<1>5. a \notin settled => /\ at = "attempt" /\ a = attempt
                          /\ at' = "caught" /\ result' = r
  BY <1>1, <1>2, <1>4, OpenAttempt DEF Settle, Gives
<1>6. AttemptsSettle'
  BY <1>1, <1>2, <1>4, <1>5 DEF Answer, Settle, TypeOK, AttemptsSettle, Configs
<1>7. ResultIsCurrent'
  <2>1. CASE a \in settled
    BY <2>1, <1>1, <1>2 DEF Answer, Settle, ResultIsCurrent, TypeOK
  <2>2. CASE a \notin settled
    <3>1. a \notin told
      BY <2>2, <1>5 DEF AttemptsSettle
    <3>2. QED
      BY <3>1, <2>2, <1>1, <1>5 DEF Answer, Settle, ResultIsCurrent, TypeOK
  <2>3. QED BY <2>1, <2>2
<1>8. QED BY <1>3, <1>6, <1>7

LEMMA TimerInv ==
  ASSUME ResilienceInv, NEW a \in Attempts, Timer(a) PROVE ResilienceInv'
<1> USE ResilienceAssumption DEF ResilienceInv, Attempts, Answers, Errors
<1>1. a \in timers /\ a \notin settled
  BY DEF Timer, AttemptsSettle
<1>2. a <= attempt /\ (a \in thrown \/ (at = "attempt" /\ a = attempt))
  BY <1>1, OpenAttempt
<1>3. TypeOK'
  BY DEF Timer, Settle, Gives, TypeOK
<1>4. AttemptsSettle'
  BY <1>1, <1>2 DEF Timer, Settle, Gives, TypeOK, AttemptsSettle, Configs
<1>5. ResultIsCurrent'
  BY <1>1 DEF Timer, Settle, Gives, ResultIsCurrent
<1>6. QED BY <1>3, <1>4, <1>5

LEMMA AbortInv ==
  ASSUME ResilienceInv, Abort PROVE ResilienceInv'
<1> USE ResilienceAssumption DEF ResilienceInv, Attempts, Answers, Errors
<1> DEFINE pending == (listeners \ {0}) \ settled
<1>1. \A a \in pending :
        a \in Attempts /\ a <= attempt
          /\ (a \in thrown \/ (at = "attempt" /\ a = attempt))
  BY OpenAttempt DEF TypeOK
<1>2. TypeOK'
  BY <1>1 DEF Abort, End, Reported, TypeOK
<1>3. 0 \in listeners => at = "pause"
  BY DEF AttemptsSettle
<1>4. AttemptsSettle'
  BY <1>1, <1>2, <1>3 DEF Abort, End, TypeOK, AttemptsSettle, Configs
<1>5. ResultIsCurrent'
  BY <1>3 DEF Abort, End, Reported, ResultIsCurrent
<1>6. QED BY <1>2, <1>4, <1>5

LEMMA StepInv == ResilienceInv /\ [Next]_vars => ResilienceInv'
<1> SUFFICES ASSUME ResilienceInv, [Next]_vars PROVE ResilienceInv'
  OBVIOUS
<1>1. CASE Next
  BY <1>1, AttemptInv, LoopInv, AnswerInv, TimerInv, AbortInv DEF Next, Loop
<1>2. CASE UNCHANGED vars
  BY <1>2 DEF vars, ResilienceInv, TypeOK, AttemptsSettle, ResultIsCurrent
<1>3. QED BY <1>1, <1>2

(* The whole invariant, whatever answers, fires or is aborted in whichever *)
(* order.                                                                  *)
THEOREM CallCorrect == Spec => []ResilienceInv
BY InitInv, StepInv, PTL DEF Spec

(* The caller never gets the late answer of an attempt that was given up.  *)
THEOREM AnswersAreOwn == Spec => []OwnAnswer
<1>1. ResilienceInv => OwnAnswer
  BY DEF ResilienceInv, ResultIsCurrent, OwnAnswer
<1>2. QED BY <1>1, CallCorrect, PTL

(* Every provider call that still runs and that nobody awaits was told to  *)
(* stop.                                                                   *)
THEOREM AbandonedTold == Spec => []AbandonedAreTold
<1>1. ResilienceInv => AbandonedAreTold
  <2> SUFFICES ASSUME ResilienceInv, NEW a \in Attempts,
                      provider[a] = "running", a < attempt \/ at = "done"
               PROVE  a \in told
    BY DEF AbandonedAreTold
  <2>1. a \in settled
    <3> SUFFICES ASSUME a \notin settled PROVE FALSE
      OBVIOUS
    <3>1. a \notin thrown
      BY DEF ResilienceInv, AttemptsSettle
    <3>2. at = "attempt" /\ a = attempt
      BY <3>1, OpenAttempt
    <3>3. attempt \in Nat
      BY <3>2 DEF Attempts
    <3>4. QED BY <3>2, <3>3
  <2>2. QED BY <2>1 DEF ResilienceInv, AttemptsSettle
<1>2. QED BY <1>1, CallCorrect, PTL

(* A call that ends leaves no timer and no listener, except those of       *)
(* attempts that threw at once.                                            *)
THEOREM NothingStays == Spec => []NothingLeft
<1>1. ResilienceInv => NothingLeft
  <2> SUFFICES ASSUME ResilienceInv, at = "done",
                      NEW a \in timers \union listeners
               PROVE  a \in thrown
    BY DEF NothingLeft
  <2>1. a \in Attempts
    BY DEF ResilienceInv, TypeOK, AttemptsSettle
  <2>2. a \notin settled
    BY <2>1 DEF ResilienceInv, AttemptsSettle
  <2>3. QED BY <2>1, <2>2, OpenAttempt
<1>2. QED BY <1>1, CallCorrect, PTL

(* What the caller got never changes.                                      *)
THEOREM EndIsFinal == Spec => EndsOnce
<1>1. ResilienceInv /\ [Next]_vars
        => [outcome # "none" => UNCHANGED <<at, outcome>>]_vars
  <2> SUFFICES ASSUME ResilienceInv, Next, outcome # "none"
               PROVE  UNCHANGED <<at, outcome>>
    OBVIOUS
  <2>1. at = "done" /\ 0 \notin listeners
    BY DEF ResilienceInv, ResultIsCurrent, AttemptsSettle
  <2>2. QED
    BY <2>1 DEF Next, Loop, Attempt, Refuse, Continue, Resume, Answer, Timer,
                Abort, Settle, Gives
<1>2. QED BY <1>1, CallCorrect, PTL DEF Spec, EndsOnce
=============================================================================
