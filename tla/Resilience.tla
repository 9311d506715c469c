----------------------------- MODULE Resilience -----------------------------
(***************************************************************************)
(* One embedding call (src/resilience.ts, src/memory/embeddings.ts): the   *)
(* provider is tried, each attempt under a timer and the caller's signal,  *)
(* with pauses between attempts.  A timed-out attempt is told to stop, but *)
(* a provider need not listen: it may answer while a later attempt runs,   *)
(* or after the call has ended.                                            *)
(*                                                                         *)
(* Timers, the caller's abort, answers and the continuation of the loop are*)
(* steps of their own.  Of time only the order of events is kept.          *)
(***************************************************************************)
EXTENDS Naturals

CONSTANTS
  MaxAttempts,  \* the bound on retries + 1
  Retryable     \* the errors that shouldRetry accepts

(* "FINAL": a MnemocyteError with the code VALIDATION, CONFIG or CONFLICT.  *)
Errors == {"TRANSIENT", "FINAL", "TIMEOUT", "ABORTED"}
Attempts == 1 .. MaxAttempts

ASSUME ResilienceAssumption ==
  MaxAttempts \in Nat \ {0} /\ Retryable \subseteq Errors

VARIABLES
  config,     \* the configuration of the call
  aborted,    \* has the caller aborted its signal?
  at,         \* where the loop is
  attempt,    \* the number of attempts started
  provider,   \* what the provider does about each attempt
  settled,    \* the attempts whose promise took its answer
  thrown,     \* the attempts that threw before they returned a promise
  told,       \* the attempts whose own signal is aborted
  timers,     \* the attempts with a running timer
  listeners,  \* the attempts that listen to the caller's signal, 0 for a pause
  result,     \* what the last attempt gave
  outcome     \* what the caller gets

vars == <<config, aborted, at, attempt, provider, settled, thrown, told,
          timers, listeners, result, outcome>>

Configs == [attempts : Attempts, timeout : BOOLEAN, signal : BOOLEAN,
            pauses : BOOLEAN]
Answers == {"value"} \union Errors

TypeOK ==
  /\ config \in Configs
  /\ aborted \in BOOLEAN
  /\ at \in {"loop", "attempt", "caught", "pause", "done"}
  /\ attempt \in 0 .. config.attempts
  /\ provider \in [Attempts -> {"unused", "running"} \union Answers]
  /\ settled \subseteq Attempts /\ thrown \subseteq Attempts
  /\ told \subseteq Attempts /\ timers \subseteq Attempts
  /\ listeners \subseteq Attempts \union {0}
  /\ result \in {"none"} \union Answers
  /\ outcome \in {"none", "ok", "TIMEOUT", "ABORTED", "EMBEDDING"}

Init ==
  /\ config \in Configs
  /\ aborted \in (IF config.signal THEN BOOLEAN ELSE {FALSE})
  /\ at = "loop" /\ attempt = 0
  /\ provider = [a \in Attempts |-> "unused"]
  /\ settled = {} /\ thrown = {} /\ told = {} /\ timers = {} /\ listeners = {}
  /\ result = "none" /\ outcome = "none"

(* embedOne and embedMany pass on two of the errors.                       *)
Reported(r) == IF r = "value" THEN "ok"
               ELSE IF r \in {"TIMEOUT", "ABORTED"} THEN r ELSE "EMBEDDING"

End(r) == at' = "done" /\ outcome' = Reported(r)

-----------------------------------------------------------------------------
(* The loop of withResilience                                              *)

(* runAttempt: arm the timer, listen to the signal, call the provider.     *)
Attempt ==
  /\ at = "loop" /\ ~aborted
  /\ attempt' = attempt + 1
  /\ timers' = IF config.timeout THEN timers \union {attempt + 1} ELSE timers
  /\ listeners' = IF config.signal THEN listeners \union {attempt + 1}
                                   ELSE listeners
  /\ \/ /\ at' = "attempt"
        /\ provider' = [provider EXCEPT ![attempt + 1] = "running"]
        /\ UNCHANGED <<thrown, result>>
     \/ \* embed throws at once: nothing takes down the timer and the listener
        \E e \in {"TRANSIENT", "FINAL"} :
          /\ at' = "caught" /\ result' = e
          /\ provider' = [provider EXCEPT ![attempt + 1] = e]
          /\ thrown' = thrown \union {attempt + 1}
  /\ UNCHANGED <<config, aborted, settled, told, outcome>>

(* throwIfAborted                                                          *)
Refuse ==
  /\ at = "loop" /\ aborted
  /\ End("ABORTED")
  /\ UNCHANGED <<config, aborted, attempt, provider, settled, thrown, told,
                 timers, listeners, result>>

RetriesTooOften ==  \* fault: one attempt too many
  result \in Retryable \ {"ABORTED"} /\ attempt <= config.attempts

Retries ==
  result \in Retryable \ {"ABORTED"} /\ attempt < config.attempts

(* The attempt's promise has settled: return, throw, or try again.         *)
Continue ==
  /\ at = "caught"
  /\ \/ ~Retries /\ End(result) /\ UNCHANGED listeners
     \/ Retries /\ aborted /\ End("ABORTED") /\ UNCHANGED listeners
     \/ /\ Retries /\ ~aborted
        /\ at' = IF config.pauses THEN "pause" ELSE "loop"
        /\ listeners' = IF config.pauses /\ config.signal
                        THEN listeners \union {0} ELSE listeners
        /\ UNCHANGED outcome
  /\ UNCHANGED <<config, aborted, attempt, provider, settled, thrown, told,
                 timers, result>>

(* delay resolves.                                                         *)
Resume ==
  /\ at = "pause"
  /\ at' = "loop" /\ listeners' = listeners \ {0}
  /\ UNCHANGED <<config, aborted, attempt, provider, settled, thrown, told,
                 timers, result, outcome>>

-----------------------------------------------------------------------------
(* What happens to an attempt                                              *)

(* The promise of attempt a settles: only a pending one goes on.           *)
Gives(a, r) ==
  IF at = "attempt" /\ a = attempt
  THEN at' = "caught" /\ result' = r
  ELSE UNCHANGED <<at, result>>

TakeAnswer(a, r) ==  \* fault: "if (settled) return" dropped
  /\ settled' = settled \union {a}
  /\ timers' = timers \ {a} /\ listeners' = listeners \ {a}
  /\ at' = "caught" /\ result' = r

LeaveTimer(a, r) ==  \* fault: an answer does not clear the timer
  IF a \in settled
  THEN UNCHANGED <<settled, timers, listeners, at, result>>
  ELSE /\ settled' = settled \union {a}
       /\ UNCHANGED <<timers, listeners>>
       /\ Gives(a, r)

Settle(a, r) ==
  IF a \in settled
  THEN UNCHANGED <<settled, timers, listeners, at, result>>
  ELSE /\ settled' = settled \union {a}
       /\ timers' = timers \ {a} /\ listeners' = listeners \ {a}
       /\ Gives(a, r)

(* The provider answers, perhaps long after it was told to stop.           *)
Answer(a) ==
  /\ provider[a] = "running"
  /\ \E r \in Answers :
       /\ provider' = [provider EXCEPT ![a] = r]
       /\ Settle(a, r)
  /\ UNCHANGED <<config, aborted, attempt, thrown, told, outcome>>

TimerSilent(a) ==  \* fault: the attempt's signal is not aborted
  /\ a \in timers
  /\ timers' = timers \ {a} /\ listeners' = listeners \ {a}
  /\ settled' = settled \union {a}
  /\ Gives(a, "TIMEOUT")
  /\ UNCHANGED <<config, aborted, attempt, provider, thrown, told, outcome>>

TimerStuck(a) ==  \* fault: the timer aborts the signal and waits for embed
  /\ a \in timers
  /\ timers' = timers \ {a} /\ told' = told \union {a}
  /\ UNCHANGED <<config, aborted, at, attempt, provider, settled, thrown,
                 listeners, result, outcome>>

(* An attempt's timer fires.                                               *)
Timer(a) ==
  /\ a \in timers
  /\ Settle(a, "TIMEOUT")
  /\ told' = told \union {a}
  /\ UNCHANGED <<config, aborted, attempt, provider, thrown, outcome>>

AbortPausesOnly ==  \* fault: an attempt does not listen
  /\ config.signal /\ ~aborted
  /\ aborted' = TRUE /\ listeners' = {}
  /\ IF 0 \in listeners THEN End("ABORTED") ELSE UNCHANGED <<at, outcome>>
  /\ UNCHANGED <<config, attempt, provider, settled, thrown, told, timers,
                 result>>

(* The caller aborts: its signal runs every listener once.                 *)
Abort ==
  /\ config.signal /\ ~aborted
  /\ aborted' = TRUE /\ listeners' = {}
  /\ LET pending == (listeners \ {0}) \ settled IN
       /\ settled' = settled \union pending
       /\ told' = told \union pending
       /\ timers' = timers \ pending
       /\ \/ 0 \in listeners /\ End("ABORTED") /\ UNCHANGED result
          \/ /\ at = "attempt" /\ attempt \in pending
             /\ at' = "caught" /\ result' = "ABORTED"
             /\ UNCHANGED outcome
          \/ /\ 0 \notin listeners
             /\ ~(at = "attempt" /\ attempt \in pending)
             /\ UNCHANGED <<at, result, outcome>>
  /\ UNCHANGED <<config, attempt, provider, thrown>>

-----------------------------------------------------------------------------
Loop == Attempt \/ Refuse \/ Continue \/ Resume

Next ==
  \/ Loop
  \/ \E a \in Attempts : Answer(a) \/ Timer(a)
  \/ Abort

Spec == Init /\ [][Next]_vars

(* The event loop runs continuations and timers; nothing makes a provider  *)
(* answer or a caller abort.                                               *)
FairSpec ==
  /\ Spec
  /\ WF_vars(Loop)
  /\ \A a \in Attempts : WF_vars(Timer(a))

-----------------------------------------------------------------------------
(* The caller gets a value only from the last attempt, in time: a late     *)
(* answer of an attempt that was given up is never taken for it.           *)
OwnAnswer ==
  outcome = "ok" => provider[attempt] = "value" /\ attempt \notin told

(* No attempt is left running unless it was told to stop: not under a      *)
(* later attempt, not after the end of the call.                           *)
AbandonedAreTold ==
  \A a \in Attempts :
    provider[a] = "running" /\ (a < attempt \/ at = "done") => a \in told

(* When the call ends it leaves no timer that would keep the process alive *)
(* and no listener on the caller's signal, except what attempts that threw *)
(* at once leave behind.                                                   *)
NothingLeft ==
  at = "done" => timers \subseteq thrown /\ listeners \subseteq thrown

(* What the caller got stays what it got, whatever fires or answers later. *)
EndsOnce == [][outcome # "none" => UNCHANGED <<at, outcome>>]_vars

(* What the proofs add.  Only the attempt that the loop awaits is unsettled*)
(* (or threw at once); what has settled has no timer and no listener, and  *)
(* if its provider still runs it was told to stop.                         *)
AttemptsSettle ==
  /\ at = "attempt" => attempt >= 1 /\ attempt \notin settled \union thrown
  /\ at \in {"loop", "pause"} => attempt < config.attempts
  /\ 0 \in listeners => at = "pause"
  /\ told \subseteq settled
  /\ \A a \in Attempts :
       /\ a > attempt =>
            /\ provider[a] = "unused"
            /\ a \notin settled \union thrown \union told
                        \union timers \union listeners
       /\ a \in settled => a \notin timers \union listeners
       /\ a \in settled /\ provider[a] = "running" => a \in told
       /\ a \in thrown => provider[a] # "running"
       /\ a <= attempt /\ a \notin settled \union thrown =>
            at = "attempt" /\ a = attempt

(* A value is the answer of the last attempt, which settled untold; the    *)
(* caller has an outcome when the loop is left, "ok" for a value alone.    *)
ResultIsCurrent ==
  /\ result = "value" => /\ at \in {"caught", "done"}
                         /\ attempt \in settled
                         /\ provider[attempt] = "value"
                         /\ attempt \notin told
  /\ outcome # "none" => at = "done"
  /\ outcome = "ok" => result = "value"

(* The inductive invariant of the proofs, for these attempts and timers.   *)
ResilienceInv == TypeOK /\ AttemptsSettle /\ ResultIsCurrent

(* With a timeout the call ends though no attempt is ever answered, and so *)
(* does an aborted call though the provider does not listen.               *)
CallEnds == (config.timeout \/ aborted) ~> at = "done"
=============================================================================
