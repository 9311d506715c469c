-------------------------- MODULE ClientLifecycle --------------------------
(***************************************************************************)
(* Admission of calls and close() in one client process                    *)
(* (src/memory/client-core.ts, src/observability.ts).                      *)
(*                                                                         *)
(* A step is what runs between two awaits.  A call is admitted while the   *)
(* client is open, reports a start event, works (store calls and provider  *)
(* calls), reports its end, and is counted out as it settles.  close()     *)
(* stops admission, waits for the admitted calls and closes the store; a   *)
(* store that fails to close reopens the client.  Every event is an awaited*)
(* call of the application's onEvent hook, which may itself call the client*)
(* and close it; only a close() from the start event of close() finds the  *)
(* client half way and is left to ReentrantClose.                          *)
(*                                                                         *)
(* A recall may leave an access write behind that nobody counts.           *)
(* buildContext runs a recall of its own inside, which checks again that   *)
(* the client is not closed.  The end events of that inner recall and the  *)
(* two events of a refused call touch nothing and are one step with what   *)
(* follows them.  Bounds: each member of Calls and Closers calls once, and *)
(* a call makes at most MaxStoreCalls store calls.                         *)
(***************************************************************************)
EXTENDS Integers, FiniteSets

CONSTANTS
  Calls,           \* calls of client methods other than close
  Closers,         \* calls of close
  NoCloser,        \* the undefined closePromise
  MaxStoreCalls    \* the bound on store calls of one call

VARIABLES
  state,             \* the client's state
  activeOperations,  \* the number of admitted calls that have not settled
  draining,          \* whether operationsDrainedPromise exists
  closePromise,      \* the close whose promise it is
  phase,             \* where each call is
  kind,              \* "recall", "buildContext" or "other", per call
  storeCalls,        \* how many store calls each call has made
  tracking,          \* whether a call's access write is in flight
  outcome,           \* "none", "ok", "failed" or "closed", per call
  attempt,           \* where each call of close is
  joined             \* the close whose promise each call of close returned

callVars == <<phase, kind, storeCalls, tracking, outcome>>
closeVars == <<closePromise, attempt, joined>>
vars == <<state, activeOperations, draining, closePromise, phase, kind,
          storeCalls, tracking, outcome, attempt, joined>>

ASSUME LifecycleAssumption ==
  /\ IsFiniteSet(Calls)
  /\ NoCloser \notin Closers
  /\ MaxStoreCalls \in Nat

(* "start" and "nested" await the start event of a call and of the recall  *)
(* inside it, "ending" its success or error event.                         *)
Phases == {"idle", "refused", "start", "nested", "running", "storing",
           "ending", "settled"}
Attempts == {"idle", "joined", "start", "waiting", "ready", "closing",
             "success", "error", "resolved", "rejected"}

TypeOK ==
  /\ state \in {"open", "closing", "closed"}
  /\ activeOperations \in Nat
  /\ draining \in BOOLEAN
  /\ closePromise \in Closers \union {NoCloser}
  /\ phase \in [Calls -> Phases]
  /\ kind \in [Calls -> {"recall", "buildContext", "other"}]
  /\ storeCalls \in [Calls -> 0 .. MaxStoreCalls]
  /\ tracking \in [Calls -> BOOLEAN]
  /\ outcome \in [Calls -> {"none", "ok", "failed", "closed"}]
  /\ attempt \in [Closers -> Attempts]
  /\ joined \in [Closers -> Closers \union {NoCloser}]

Init ==
  /\ state = "open"
  /\ activeOperations = 0
  /\ draining = FALSE
  /\ closePromise = NoCloser
  /\ phase = [c \in Calls |-> "idle"]
  /\ kind = [c \in Calls |-> "other"]
  /\ storeCalls = [c \in Calls |-> 0]
  /\ tracking = [c \in Calls |-> FALSE]
  /\ outcome = [c \in Calls |-> "none"]
  /\ attempt = [k \in Closers |-> "idle"]
  /\ joined = [k \in Closers |-> NoCloser]

-----------------------------------------------------------------------------
(* Calls                                                                   *)

AdmitWhileClosing(c, k) ==  \* fault: only a closed client refuses
  /\ phase[c] = "idle"
  /\ state # "closed"
  /\ kind' = [kind EXCEPT ![c] = k]
  /\ phase' = [phase EXCEPT ![c] = "start"]
  /\ activeOperations' = activeOperations + 1
  /\ UNCHANGED <<state, draining, closeVars, storeCalls, tracking, outcome>>

(* beginOperation                                                          *)
Admit(c, k) ==
  /\ phase[c] = "idle"
  /\ state = "open"
  /\ kind' = [kind EXCEPT ![c] = k]
  /\ phase' = [phase EXCEPT ![c] = "start"]
  /\ activeOperations' = activeOperations + 1
  /\ UNCHANGED <<state, draining, closeVars, storeCalls, tracking, outcome>>

Refuse(c) ==
  /\ phase[c] = "idle"
  /\ state # "open"
  /\ phase' = [phase EXCEPT ![c] = "refused"]
  /\ outcome' = [outcome EXCEPT ![c] = "closed"]
  /\ UNCHANGED <<state, activeOperations, draining, closeVars, kind,
                 storeCalls, tracking>>

RefusalObserved(c) ==
  /\ phase[c] = "refused"
  /\ phase' = [phase EXCEPT ![c] = "settled"]
  /\ UNCHANGED <<state, activeOperations, draining, closeVars, kind,
                 storeCalls, tracking, outcome>>

MoveTo(c, p) == phase' = [phase EXCEPT ![c] = p] /\ UNCHANGED outcome
EndWith(c, o) == /\ phase' = [phase EXCEPT ![c] = "ending"]
                 /\ outcome' = [outcome EXCEPT ![c] = o]

RefusesWork == state = "closed"

(* The hook settled for a start event; assertOpen is the first of the work.*)
Started(c) ==
  /\ phase[c] \in {"start", "nested"}
  /\ \/ RefusesWork /\ EndWith(c, "closed")
     \/ /\ ~RefusesWork
        /\ IF phase[c] = "start" /\ kind[c] = "buildContext"
           THEN MoveTo(c, "nested")
           ELSE MoveTo(c, "running")
  /\ UNCHANGED <<state, activeOperations, draining, closeVars, kind,
                 storeCalls, tracking>>

StartStoreCall(c) ==
  /\ phase[c] = "running"
  /\ storeCalls[c] < MaxStoreCalls
  /\ storeCalls' = [storeCalls EXCEPT ![c] = @ + 1]
  /\ MoveTo(c, "storing")
  /\ UNCHANGED <<state, activeOperations, draining, closeVars, kind, tracking>>

StoreReturns(c) ==
  /\ phase[c] = "storing"
  /\ MoveTo(c, "running") \/ EndWith(c, "failed")
  /\ UNCHANGED <<state, activeOperations, draining, closeVars, kind,
                 storeCalls, tracking>>

(* The work ends; a recall with results may start an access write.         *)
EndWork(c) ==
  /\ phase[c] = "running"
  /\ EndWith(c, "ok") \/ EndWith(c, "failed")
  /\ \/ UNCHANGED tracking
     \/ /\ kind[c] # "other"
        /\ outcome'[c] = "ok" \/ kind[c] = "buildContext"
        /\ tracking' = [tracking EXCEPT ![c] = TRUE]
  /\ UNCHANGED <<state, activeOperations, draining, closeVars, kind,
                 storeCalls>>

AccessTracked(c) ==
  /\ tracking[c]
  /\ tracking' = [tracking EXCEPT ![c] = FALSE]
  /\ UNCHANGED <<state, activeOperations, draining, closeVars, phase, kind,
                 storeCalls, outcome>>

-----------------------------------------------------------------------------
AlwaysWaiting == FALSE  \* fault: the drain promise is never resolved
(* The settling call is the last: the drain promise resolves.              *)
LastOut == activeOperations = 1

(* The end event is reported: the call settles and is counted out.         *)
Settle(c) ==
  /\ phase[c] = "ending"
  /\ phase' = [phase EXCEPT ![c] = "settled"]
  /\ activeOperations' = activeOperations - 1
  /\ draining' = (draining /\ ~LastOut)
  /\ attempt' = [k \in Closers |-> IF attempt[k] = "waiting" /\ LastOut
                                   THEN "ready" ELSE attempt[k]]
  /\ UNCHANGED <<state, closePromise, kind, storeCalls, tracking, outcome,
                 joined>>

-----------------------------------------------------------------------------
(* close()                                                                 *)

Close(k) ==
  /\ attempt[k] = "idle"
  /\ closePromise = NoCloser
  /\ state' = "closing"
  /\ closePromise' = k
  /\ attempt' = [attempt EXCEPT ![k] = "start"]
  /\ joined' = [joined EXCEPT ![k] = k]
  /\ UNCHANGED <<activeOperations, draining, callVars>>

JoinClose(k) ==
  /\ attempt[k] = "idle"
  /\ closePromise # NoCloser
  /\ attempt' = [attempt EXCEPT ![k] = "joined"]
  /\ joined' = [joined EXCEPT ![k] = closePromise]
  /\ UNCHANGED <<state, activeOperations, draining, closePromise, callVars>>

(* waitForActiveOperations                                                 *)
WaitForActiveOperations(k) ==
  /\ attempt[k] = "start"
  /\ IF activeOperations = 0
     THEN attempt' = [attempt EXCEPT ![k] = "ready"] /\ UNCHANGED draining
     ELSE attempt' = [attempt EXCEPT ![k] = "waiting"] /\ draining' = TRUE
  /\ UNCHANGED <<state, activeOperations, closePromise, callVars, joined>>

StoreClose(k) ==
  /\ attempt[k] = "ready"
  /\ attempt' = [attempt EXCEPT ![k] = "closing"]
  /\ UNCHANGED <<state, activeOperations, draining, closePromise, callVars,
                 joined>>

StoreCloses(k) ==
  /\ attempt[k] = "closing"
  /\ state' = "closed"
  /\ attempt' = [attempt EXCEPT ![k] = "success"]
  /\ UNCHANGED <<activeOperations, draining, closePromise, callVars, joined>>

StaysClosing(k) ==  \* fault: the failed promise is kept
  /\ attempt[k] = "closing"
  /\ state' = "open"
  /\ attempt' = [attempt EXCEPT ![k] = "error"]
  /\ UNCHANGED <<activeOperations, draining, closePromise, callVars, joined>>

StoreCloseFails(k) ==
  /\ attempt[k] = "closing"
  /\ state' = "open"
  /\ closePromise' = NoCloser
  /\ attempt' = [attempt EXCEPT ![k] = "error"]
  /\ UNCHANGED <<activeOperations, draining, callVars, joined>>

CloseObserved(k) ==
  /\ attempt[k] \in {"success", "error"}
  /\ attempt' = [attempt EXCEPT ![k] = IF @ = "success" THEN "resolved"
                                                        ELSE "rejected"]
  /\ UNCHANGED <<state, activeOperations, draining, closePromise, callVars,
                 joined>>

-----------------------------------------------------------------------------
CallProgress(c) ==
  \/ RefusalObserved(c) \/ Started(c)
  \/ StartStoreCall(c) \/ StoreReturns(c) \/ EndWork(c) \/ Settle(c)

CloseProgress(k) ==
  \/ WaitForActiveOperations(k) \/ StoreClose(k)
  \/ StoreCloses(k) \/ StoreCloseFails(k) \/ CloseObserved(k)

(* The bound: every call and close of the instance is over.                *)
Quiet ==
  /\ \A c \in Calls : phase[c] = "settled" /\ ~tracking[c]
  /\ \A k \in Closers : attempt[k] \in {"joined", "resolved", "rejected"}
  /\ UNCHANGED vars

Next ==
  \/ \E c \in Calls :
       \/ \E k \in {"recall", "buildContext", "other"} : Admit(c, k)
       \/ Refuse(c)
       \/ CallProgress(c)
       \/ AccessTracked(c)
  \/ \E k \in Closers :
       \/ Close(k) \/ JoinClose(k)
       \/ CloseProgress(k)
  \/ Quiet

Spec == Init /\ [][Next]_vars

(* Provider calls, store calls and hooks settle, and the event loop runs   *)
(* what they resolve.  Nobody has to make a call.                          *)
FairSpec ==
  /\ Spec
  /\ \A c \in Calls : WF_vars(CallProgress(c))
  /\ \A k \in Closers : WF_vars(CloseProgress(k))

-----------------------------------------------------------------------------
Admitted(c) == phase[c] \in {"start", "nested", "running", "storing", "ending"}
Pending(k) == attempt[k] \in {"start", "waiting", "ready", "closing"}

(* The counter of the drain is exact in every interleaving.                *)
CountIsExact == activeOperations = Cardinality({c \in Calls : Admitted(c)})

(* From the moment a close stops waiting, while it closes the store and    *)
(* once it has, no admitted call is unfinished: none finds the store       *)
(* closed under it.                                                        *)
StoreClosesAlone ==
  (\E k \in Closers : attempt[k] \in {"ready", "closing"}) \/ state = "closed"
    => \A c \in Calls : ~Admitted(c)

(* A call fails as closed only by being refused when it was made: one that *)
(* was admitted is served, and so is the recall that buildContext starts   *)
(* while the client is closing.                                            *)
AdmittedIsServed ==
  \A c \in Calls : outcome[c] = "closed" => phase[c] \in {"refused", "settled"}

(* Concurrent calls of close share one close of the store: there is never  *)
(* a second attempt, and every caller waits for the pending one.           *)
OneClose ==
  \A k, j \in Closers : Pending(k) /\ Pending(j) => k = j

(* The client is closing exactly while an attempt is pending, has no       *)
(* promise left over when it is open (so that close can be retried), and   *)
(* when it is closed keeps the promise of the attempt that closed it.      *)
StateMatchesClose ==
  /\ state = "closing" <=> \E k \in Closers : Pending(k)
  /\ state = "open" <=> closePromise = NoCloser
  /\ state = "closing" => Pending(closePromise)
  /\ state = "closed" => attempt[closePromise] \in {"success", "resolved"}

(* A waiting attempt is woken by the last admitted call: while it waits    *)
(* there is one, and the drain promise that will wake it exists.           *)
WaitersWillWake ==
  \A k \in Closers : attempt[k] = "waiting" => draining /\ activeOperations > 0

(* What admission, the drain and close keep to, whatever their order.      *)
LifecycleInv ==
  /\ TypeOK /\ CountIsExact /\ AdmittedIsServed
  /\ OneClose /\ StateMatchesClose /\ WaitersWillWake

(* A closed client stays closed.                                           *)
ClosedForGood == [][state = "closed" => state' = "closed"]_state

(* Every call settles, admitted or refused, and so does every close that   *)
(* it is asked for, whether the store closes or fails to.                  *)
EverythingSettles ==
  /\ \A c \in Calls : phase[c] # "idle" ~> phase[c] = "settled"
  /\ \A k \in Closers :
       attempt[k] # "idle" ~>
         joined[k] # NoCloser /\ attempt[joined[k]] \in {"resolved", "rejected"}
=============================================================================
